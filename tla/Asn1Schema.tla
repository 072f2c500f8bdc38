-------------------------------- MODULE Asn1Schema --------------------------------
(***************************************************************************)
(* What der and its derive macros do with a declaration: SEQUENCE, CHOICE, *)
(* SEQUENCE OF, SET OF, OPTIONAL, DEFAULT and tagged fields, written,      *)
(* read and put in order.  The declarations of the crates are data, in     *)
(* modules of their own.                                                   *)
(*                                                                         *)
(* A value is its octets when it is primitive, a sequence when it is a     *)
(* SEQUENCE (of options, one for every field), a SEQUENCE OF or a SET OF,  *)
(* a pair <<variant, value>> when it is a CHOICE, and a tree when the      *)
(* declaration says ANY.  Results and options are sequences of at most one *)
(* element.                                                                *)
(***************************************************************************)
EXTENDS DerHeader

CONSTANT TypeNamed(_)  \* What a name stands for in a declaration.

--------------------------------------------------------------------------------
(* Types.  A primitive one has some contents to be written, and if it is   *)
(* strict no others are read.  Declarations refer to others by name.       *)
The(declared) == [kind |-> "named", name |-> declared]
Resolved(S) == IF S.kind = "named" THEN TypeNamed(S.name) ELSE S
TypeOf(f) == Resolved(f.type)
ElementOf(T) == Resolved(T.of)

Primitives(number, contents, strict) ==
  [kind |-> "primitive", tag |-> Tag(Universal, number, FALSE),
   contents |-> contents, strict |-> strict]

Text(number) == Primitives(number, <<<<1>>, <<2, 2>>>>, FALSE)
Enumerates(number, discriminants) ==
  Primitives(number, [i \in DOMAIN discriminants |-> <<discriminants[i]>>], TRUE)

BOOLEAN_ == Enumerates(1, <<0, 255>>)
INTEGER == Text(2)
IntegerOf(values) == Enumerates(2, values)
BitString == Text(3)
OctetString_ == Primitives(4, <<<<1, 200>>, <<2, 0>>>>, FALSE)
Null == Primitives(5, <<<<>>>>, TRUE)
ObjectIdentifier == Text(6)
OidOf(oids) == Enumerates(6, oids)
EnumeratedOf(values) == Enumerates(10, values)
Utf8String == Text(12)
PrintableString == Text(19)
TeletexString == Text(20)
Ia5String == Text(22)
UtcTime == Primitives(23, <<<<2000>>, <<2049>>>>, FALSE)
GeneralizedTime == Primitives(24, <<<<2049>>, <<2050>>>>, FALSE)
GeneralString == Text(27)
BmpString == Text(30)

AnyValue == [kind |-> "any"]
SequenceRef == [kind |-> "any", tag |-> Tag(Universal, 16, TRUE)]
SequenceOf(T) == [kind |-> "of", tag |-> Tag(Universal, 16, TRUE), of |-> T]
SetOf(T) == [kind |-> "of", tag |-> Tag(Universal, 17, TRUE), of |-> T]
Record(fields) ==
  [kind |-> "record", tag |-> Tag(Universal, 16, TRUE), fields |-> fields, open |-> FALSE]
Choice(variants) == [kind |-> "choice", variants |-> variants, hand |-> FALSE]

(* A SEQUENCE that may go on with any context-specific values, and a       *)
(* CHOICE with a ValueOrd that compares vectors of octets.                 *)
Extensible(T) == [T EXCEPT !.open = TRUE]
ByEncoding(T) == [T EXCEPT !.hand = TRUE]

(* A type with constraints between fields: one of several declarations,    *)
(* told apart by their contents.                                           *)
OneOf(types) == [kind |-> "one of", tag |-> types[1].tag, types |-> types]

(* A choice of times, written as UTCTime while that can be (Profile::time_-*)
(* encoding of Rfc5280).                                                   *)
Profiled(T) == [kind |-> "profiled", choice |-> T]

(* Fields and variants, and their #[asn1(...)] attributes.  An implied     *)
(* field may be absent and is always written; a skipped one is read and    *)
(* forgotten; a forbidden one is looked for and refused.                   *)
F(name, T) == [name |-> name, type |-> T, class |-> Universal, number |-> 0,
               mode |-> "EXPLICIT", constructed |-> FALSE,
               presence |-> "required", default |-> Err]
Optional(f) == [f EXCEPT !.presence = "optional"]
Default(f, v) == [f EXCEPT !.presence = "default", !.default = Ok(v)]
Implied(f, v) == [f EXCEPT !.presence = "implied", !.default = Ok(v)]
Skipped(f) == [f EXCEPT !.presence = "skipped"]
Forbidden(f) == [f EXCEPT !.presence = "forbidden"]
In(class, number, mode, f) == [f EXCEPT !.class = class, !.number = number, !.mode = mode]
Explicit(number, f) == In(2, number, "EXPLICIT", f)
Implicit(number, f) == In(2, number, "IMPLICIT", f)
Constructed(f) == [f EXCEPT !.constructed = TRUE]

--------------------------------------------------------------------------------
(* Tags: FixedTag, IsConstructed and Choice::can_decode.  The tag of a     *)
(* variant is the one its attributes declare.                              *)
IsKnown(tag) ==
  tag.class = Universal =>
    IF tag.constructed THEN tag.number \in {16, 17} ELSE tag.number \in Primitive

RECURSIVE CanDecode(_, _)
VariantAccepts(f, tag) ==
  IF f.class = Universal THEN CanDecode(TypeOf(f), tag)
  ELSE tag = Tag(f.class, f.number, f.constructed)

CanDecode(T, tag) ==
  CASE T.kind = "any" -> TRUE
    [] T.kind = "choice" -> \E i \in DOMAIN T.variants : VariantAccepts(T.variants[i], tag)
    [] T.kind = "profiled" -> CanDecode(T.choice, tag)
    [] OTHER -> tag = T.tag

IsConstructed(T) == IF T.kind \in {"choice", "profiled"} THEN TRUE ELSE T.tag.constructed

--------------------------------------------------------------------------------
(* Encode and EncodeValue.  A field that has its default is left out; with *)
(* `all`, it is written: what no encoder here does.                        *)
IsWritten(f, v, all) ==
  v # Err /\ f.presence # "skipped" /\ (all \/ f.presence # "default" \/ v # f.default)

Tagged(f, tree) ==
  CASE f.class = Universal -> tree
    [] f.class # Universal /\ f.mode = "EXPLICIT" ->
         Node(Tag(f.class, f.number, TRUE), <<tree>>)
    [] OTHER -> [tree EXCEPT !.tag = Tag(f.class, f.number, tree.tag.constructed)]

(* A variant is written under the tag the attributes declare.              *)
TaggedVariant(f, tree) ==
  IF f.class = Universal THEN tree
  ELSE [Tagged(f, tree) EXCEPT !.tag = Tag(f.class, f.number, f.constructed)]

(* rfc5280_adjust_utc_time: variants 1 and 2 are UTCTime, GeneralizedTime. *)
MAX_YEAR == 2049
AdjustUtcTime(v) == IF v[2][1] <= MAX_YEAR THEN <<1, v[2]>> ELSE v

RECURSIVE Write(_, _, _)
Write(T, v, all) ==
  CASE T.kind = "primitive" -> Leaf(T.tag, v)
    [] T.kind = "any" -> v
    [] T.kind = "of" -> Node(T.tag, [i \in DOMAIN v |-> Write(ElementOf(T), v[i], all)])
    [] T.kind = "record" ->
         Node(T.tag, FlattenSeq([i \in DOMAIN v |->
           IF IsWritten(T.fields[i], v[i], all)
           THEN <<Tagged(T.fields[i], Write(TypeOf(T.fields[i]), v[i][1], all))>>
           ELSE <<>>]))
    [] T.kind = "choice" ->
         TaggedVariant(T.variants[v[1]], Write(TypeOf(T.variants[v[1]]), v[2], all))
    [] T.kind = "one of" -> Write(T.types[v[1]], v[2], all)
    [] T.kind = "profiled" -> Write(T.choice, AdjustUtcTime(v), all)

--------------------------------------------------------------------------------
(* DerOrd and ValueOrd, derived and by hand: less, equal, more are -1, 0,  *)
(* 1.  Headers first; then the contents.  A derived order does not know of *)
(* the attributes of fields.                                               *)
CompareNumbers(m, n) == IF m < n THEN -1 ELSE IF m > n THEN 1 ELSE 0
FirstDifference(cmps) ==
  LET differ == SelectInSeq(cmps, LAMBDA c : c # 0)
  IN  IF differ = 0 THEN 0 ELSE cmps[differ]
ZipWith(s, t, cmp(_, _)) ==
  [i \in 1 .. (IF Len(s) < Len(t) THEN Len(s) ELSE Len(t)) |-> cmp(s[i], t[i])]

CompareOctets(s, t) ==
  FirstDifference(ZipWith(s, t, CompareNumbers) \o <<CompareNumbers(Len(s), Len(t))>>)

Bit(b) == IF b THEN 1 ELSE 0
CompareHeaders(x, y) ==
  FirstDifference(<<CompareNumbers(x.tag.class, y.tag.class),
                    CompareNumbers(x.tag.number, y.tag.number),
                    CompareNumbers(Bit(x.tag.constructed), Bit(y.tag.constructed)),
                    CompareNumbers(value_len(x), value_len(y))>>)

(* The order of Vec<u8> is that of a SEQUENCE OF INTEGER, whose length     *)
(* counts the octets of HalfBase and above twice.                          *)
IntegersLen(s) == FoldLeft(LAMBDA n, b : n + IF b >= HalfBase THEN 4 ELSE 3, 0, s)
CompareAsIntegers(s, t) ==
  FirstDifference(<<CompareNumbers(IntegersLen(s), IntegersLen(t)), CompareOctets(s, t)>>)

RECURSIVE DerCmp(_, _, _)
RECURSIVE ValueCmp(_, _, _)
(* iter_cmp.                                                               *)
IterCmp(T, v, w) ==
  FirstDifference(ZipWith(v, w, LAMBDA a, b : DerCmp(T, a, b))
                    \o <<CompareNumbers(Len(v), Len(w))>>)

(* The order of Option<T>: what is absent comes first, before what is      *)
(* absent too.                                                             *)
OptionCmp_present(f, a, b) ==  \* Faulty: what is absent is not compared.
  IF a = Err \/ b = Err THEN 0 ELSE DerCmp(TypeOf(f), a[1], b[1])

OptionCmp(f, a, b) ==
  CASE a # Err /\ b # Err -> DerCmp(TypeOf(f), a[1], b[1])
    [] a # Err /\ b = Err -> 1
    [] a = Err -> -1

ValueCmp(T, v, w) ==
  CASE T.kind = "primitive" -> CompareOctets(v, w)
    [] T.kind = "any" -> CompareOctets(ContentsOf(v), ContentsOf(w))
    [] T.kind = "of" -> IterCmp(ElementOf(T), v, w)
    [] T.kind = "record" ->
         FirstDifference([i \in DOMAIN v |-> OptionCmp(T.fields[i], v[i], w[i])])
    [] T.kind = "choice" /\ T.hand ->
         LET encodings == [i \in 1 .. 2 |-> Encode(Write(T, <<v, w>>[i], FALSE))]
         IN  CompareAsIntegers(encodings[1], encodings[2])
    [] T.kind = "choice" /\ ~T.hand ->
         IF v[1] = w[1] THEN ValueCmp(TypeOf(T.variants[v[1]]), v[2], w[2]) ELSE 0

DerCmp(T, v, w) ==
  LET S == IF T.kind = "profiled" THEN T.choice ELSE T
      trees == [i \in 1 .. 2 |-> Write(S, <<v, w>>[i], FALSE)]
  IN  FirstDifference(<<CompareHeaders(trees[1], trees[2]), ValueCmp(S, v, w)>>)

--------------------------------------------------------------------------------
(* Decode and DecodeValue.                                                 *)
RECURSIVE ReadValue(_, _)
RECURSIVE Read(_, _)

(* ContextSpecific::decode, and the value of an IMPLICIT field.  Faulty:   *)
(* the constructed bit is not looked at.                                   *)
HasForm_any(f, tree) == TRUE

HasForm(f, tree) ==
  tree.tag.constructed = (IF f.mode = "EXPLICIT" THEN TRUE ELSE IsConstructed(TypeOf(f)))

ReadTagged(f, tree) ==
  CASE ~HasForm(f, tree) -> Err
    [] HasForm(f, tree) /\ f.mode = "EXPLICIT" ->
         IF Len(tree.items) = 1 THEN Read(TypeOf(f), tree.items[1]) ELSE Err
    [] OTHER -> ReadValue(TypeOf(f), tree)

(* Tag::peek_matches.  Faulty: the number is not looked at.                *)
PeekMatches_class(f, tag) == tag.class = f.class

PeekMatches(f, tag) == tag.class = f.class /\ tag.number = f.number

(* One field: its value, and the values that are left.                     *)
Absent(f, items) ==
  IF f.presence = "required" THEN Err ELSE Ok([value |-> f.default, rest |-> items])

ReadField(f, items) ==
  LET Present(r) ==
        IF r = Err \/ f.presence = "forbidden" THEN Err
        ELSE Ok([value |-> IF f.presence = "skipped" THEN Err ELSE r, rest |-> Tail(items)])
      Next(tree) ==
        CASE f.class # Universal /\ PeekMatches(f, tree.tag) -> Present(ReadTagged(f, tree))
          [] f.class = Universal /\ CanDecode(TypeOf(f), tree.tag) ->
               Present(Read(TypeOf(f), tree))
          [] OTHER -> Absent(f, items)
  IN  IF items = <<>> THEN Absent(f, items) ELSE Next(items[1])

(* The fields in their order, and nothing after them but what an           *)
(* extensible SEQUENCE ignores.                                            *)
Ignored(T, tree) ==
  T.open /\ tree.tag.class = 2 /\ tree.tag.constructed /\ Len(tree.items) = 1

ReadRecord(T, items) ==
  Then(FoldLeft(LAMBDA r, f :
                  Then(r, LAMBDA x :
                    Then(ReadField(f, x.rest), LAMBDA y :
                      Ok([values |-> Append(x.values, y.value), rest |-> y.rest]))),
                Ok([values |-> <<>>, rest |-> items]), T.fields),
       LAMBDA x :
         IF \A i \in DOMAIN x.rest : Ignored(T, x.rest[i]) THEN Ok(x.values) ELSE Err)

(* SequenceOf and SetOf: a SET OF is put in order, not refused (der_sort). *)
(* As sort_unstable_by does with 20 elements and fewer, each is moved ahead *)
(* of those that it is less than: that matters where the order is not one. *)
DerSort(T, values) ==
  LET Insert(sorted, v) ==
        LET kept == SelectLastInSeq(sorted, LAMBDA w : DerCmp(ElementOf(T), v, w) # -1)
        IN  InsertAt(sorted, kept + 1, v)
  IN  IF T.tag.number = 17 THEN FoldLeft(Insert, <<>>, values) ELSE values

ReadItems(T, items) ==
  LET results == [i \in DOMAIN items |-> Read(ElementOf(T), items[i])]
  IN  IF \E i \in DOMAIN items : results[i] = Err THEN Err
      ELSE Ok(DerSort(T, [i \in DOMAIN items |-> results[i][1]]))

(* The first of the alternatives that is read.                             *)
FirstOk(results) ==
  LET ok == SelectInSeq(results, LAMBDA r : r # Err)
  IN  IF ok = 0 THEN Err ELSE Ok(<<ok, results[ok][1]>>)

ReadChoice(T, tree) ==
  LET i == SelectInSeq(T.variants, LAMBDA f : VariantAccepts(f, tree.tag))
      Variant(f) == IF f.class = Universal THEN Read(TypeOf(f), tree) ELSE ReadTagged(f, tree)
  IN  IF i = 0 THEN Err ELSE Then(Variant(T.variants[i]), LAMBDA v : Ok(<<i, v>>))

ReadValue(T, tree) ==
  CASE T.kind = "primitive" ->
         IF tree.items # <<>> \/ (T.strict /\ ~Contains(T.contents, tree.octets)) THEN Err
         ELSE Ok(tree.octets)
    [] T.kind = "any" -> Ok(tree)
    [] T.kind = "of" -> IF tree.octets # <<>> THEN Err ELSE ReadItems(T, tree.items)
    [] T.kind = "record" -> IF tree.octets # <<>> THEN Err ELSE ReadRecord(T, tree.items)
    [] T.kind = "choice" -> ReadChoice(T, tree)
    [] T.kind = "one of" ->
         FirstOk([i \in DOMAIN T.types |-> ReadValue(T.types[i], tree)])
    [] T.kind = "profiled" -> ReadChoice(T.choice, tree)

Read(T, tree) ==
  IF IsKnown(tree.tag) /\ CanDecode(T, tree.tag) THEN ReadValue(T, tree) ELSE Err
================================================================================
