--------------------------------- MODULE Schemas ---------------------------------
(***************************************************************************)
(* Values of the declared types on their way: written, perhaps altered,    *)
(* read, and written again.                                                *)
(***************************************************************************)
EXTENDS Asn1Schema

CONSTANTS
  Types,       \* The declarations: a function from names.
  Tested,      \* The names of the types that are sent.
  Ordered      \* The names of the types with a DerOrd.

ASSUME TypesAssumption == \A n \in DOMAIN Types : TypeNamed(n) = Types[n]
ASSUME TestedAssumption == Ordered \subseteq Tested /\ Tested \subseteq DOMAIN Types

VARIABLES
  name,    \* The type
  value,   \* The value that is written
  sent,    \* Its encoding
  tree,    \* What arrives
  phase,   \* "written", "altered", "read" or "rewritten"
  answer   \* What was read
vars == <<name, value, sent, tree, phase, answer>>

T == TypeNamed(name)

--------------------------------------------------------------------------------
(* Values of a type: the smallest and the largest one, and those that      *)
(* differ from them in one field.  The variants declared in a form that is *)
(* never read are among the few values of their CHOICE; the extreme ones   *)
(* are others where there are any, so that larger values around them can   *)
(* be read.                                                                *)
IsNeverRead(f) ==
  f.class # Universal /\ f.constructed # (f.mode = "EXPLICIT" \/ IsConstructed(TypeOf(f)))
Usual(S) ==
  LET read == {i \in DOMAIN S.variants : ~IsNeverRead(S.variants[i])}
  IN  IF read = {} THEN DOMAIN S.variants ELSE read
Last_(indices) == CHOOSE i \in indices : \A j \in indices : i >= j
First_(indices) == CHOOSE i \in indices : \A j \in indices : i <= j

RECURSIVE Extreme(_, _)
Extreme(S, large) ==
  LET IsLeftOut(f) ==
        \/ f.presence \in {"skipped", "forbidden"}
        \/ f.presence = "optional" /\ ~large
      alternatives == IF S.kind = "choice" THEN Usual(S) ELSE DOMAIN S.types
      i == IF large THEN Last_(alternatives) ELSE First_(alternatives)
      Field(f) ==
        IF IsLeftOut(f) THEN Err
        ELSE IF f.presence \in {"default", "implied"} /\ ~large THEN f.default
        ELSE Ok(Extreme(TypeOf(f), large))
  IN  CASE S.kind = "primitive" -> S.contents[IF large THEN Len(S.contents) ELSE 1]
        [] S.kind = "any" ->
             IF large THEN Node(SequenceRef.tag, <<Leaf(INTEGER.tag, <<7>>)>>)
             ELSE Leaf(Null.tag, <<>>)
        [] S.kind = "of" -> IF large THEN <<Extreme(ElementOf(S), TRUE)>> ELSE <<>>
        [] S.kind = "record" -> [j \in DOMAIN S.fields |-> Field(S.fields[j])]
        [] S.kind = "choice" -> <<i, Extreme(TypeOf(S.variants[i]), large)>>
        [] S.kind = "one of" -> <<i, Extreme(S.types[i], large)>>
        [] S.kind = "profiled" -> Extreme(S.choice, large)
Extremes(S) == {Extreme(S, large) : large \in BOOLEAN}

Few(S) ==
  CASE S.kind = "primitive" -> ToSet(S.contents)
    [] S.kind = "choice" ->
         UNION {{<<i, v>> : v \in Extremes(TypeOf(S.variants[i]))} : i \in DOMAIN S.variants}
    [] S.kind = "profiled" ->
         {<<i, <<year>>>> : i \in {1, 2}, year \in {2000, MAX_YEAR}}
           \cup {<<2, <<MAX_YEAR + 1>>>>}
    [] OTHER -> Extremes(S)

Options(f) ==
  (IF f.presence \in {"skipped", "forbidden"} THEN {} ELSE {Ok(v) : v \in Few(TypeOf(f))})
    \cup (IF f.presence = "required" THEN {} ELSE {f.default})

Varied(S) ==
  UNION {{[v EXCEPT ![i] = o] : v \in Extremes(S), o \in Options(S.fields[i])} :
         i \in DOMAIN S.fields}

Samples(S) ==
  CASE S.kind = "record" -> Varied(S)
    [] S.kind = "of" ->
         LET E == ElementOf(S)
             some == IF E.kind = "record" THEN Varied(E) ELSE Few(E)
         IN  {DerSort(S, s) : s \in {<<>>} \cup {<<v>> : v \in some}
                                \cup {<<v, w>> : v \in some, w \in Extremes(E)}}
    [] S.kind = "one of" ->
         UNION {{<<i, v>> : v \in Varied(S.types[i])} : i \in DOMAIN S.types}
    [] OTHER -> Few(S)

(* Alterations of an encoding: a value is dropped, doubled, exchanged with *)
(* the next one, or followed by another; its tag is another one.           *)
Strange == Node(Tag(2, 7, TRUE), <<Leaf(Null.tag, <<>>)>>)
ItemEdits(items) ==
  {RemoveAt(items, i) : i \in DOMAIN items}
    \cup {InsertAt(items, i, items[i]) : i \in DOMAIN items}
    \cup {[items EXCEPT ![i] = items[i + 1], ![i + 1] = items[i]] : i \in 1 .. Len(items) - 1}
    \cup {Append(items, Strange)}
TagEdits(v) ==
  {[v EXCEPT !.tag.constructed = ~@], [v EXCEPT !.tag.number = @ + 1]}
RECURSIVE Edits(_, _)
Edits(v, depth) ==
  TagEdits(v)
    \cup (IF v.tag.constructed THEN {[v EXCEPT !.items = s] : s \in ItemEdits(v.items)}
          ELSE {})
    \cup (IF depth = 0 THEN {}
          ELSE UNION {{[v EXCEPT !.items[i] = e] : e \in Edits(v.items[i], depth - 1)} :
                      i \in DOMAIN v.items})
EDIT_DEPTH == 2
IsAlterable(S, v) ==
  IF S.kind = "of" THEN Len(v) = 2 /\ ToSet(v) = Extremes(ElementOf(S))
  ELSE v \in Extremes(S)

--------------------------------------------------------------------------------
Init ==
  /\ name \in Tested
  /\ value \in Samples(T)
  /\ sent = Write(T, value, FALSE)
  /\ tree = sent
  /\ phase = "written" /\ answer = Err

(* The encoding comes from elsewhere: DEFAULT values may be in it.         *)
Alter ==
  /\ phase = "written" /\ IsAlterable(T, value)
  /\ tree' \in Edits(sent, EDIT_DEPTH) \cup {Write(T, value, TRUE)}
  /\ phase' = "altered"
  /\ UNCHANGED <<name, value, sent, answer>>

Decode ==
  /\ phase \in {"written", "altered", "rewritten"}
  /\ answer' = Read(T, tree)
  /\ phase' = "read"
  /\ UNCHANGED <<name, value, sent, tree>>

(* What was read is written.                                               *)
Encode_ ==
  /\ phase = "read" /\ answer # Err
  /\ value' = answer[1]
  /\ sent' = Write(T, value', FALSE)
  /\ tree' = sent'
  /\ phase' = "rewritten" /\ answer' = Err
  /\ UNCHANGED name

Next == Alter \/ Decode \/ Encode_
Spec == Init /\ [][Next]_vars

--------------------------------------------------------------------------------
(* A value, and all the values in it, each with its type.                  *)
RECURSIVE Parts(_, _)
Parts(S, v) ==
  {<<S, v>>} \cup
  CASE S.kind = "of" -> UNION {Parts(ElementOf(S), v[i]) : i \in DOMAIN v}
    [] S.kind = "record" ->
         UNION {Parts(TypeOf(S.fields[i]), v[i][1]) : i \in {j \in DOMAIN v : v[j] # Err}}
    [] S.kind = "choice" -> Parts(TypeOf(S.variants[v[1]]), v[2])
    [] S.kind = "one of" -> Parts(S.types[v[1]], v[2])
    [] S.kind = "profiled" -> Parts(S.choice, v)
    [] OTHER -> {}

(* Whether a comparison of two values comes to an optional part that both  *)
(* leave out: all before it is the same.                                   *)
RECURSIVE ComesToNothing(_, _, _)
ComesToNothing(S, v, w) ==
  LET Reached(i) == i \in DOMAIN v /\ i \in DOMAIN w /\ \A j \in 1 .. i - 1 : v[j] = w[j]
      Same == CompareHeaders(Write(S, v, FALSE), Write(S, w, FALSE)) = 0
  IN  CASE S.kind = "of" ->
             Same /\ \E i \in DOMAIN v : Reached(i) /\ ComesToNothing(ElementOf(S), v[i], w[i])
        [] S.kind = "record" ->
             Same /\ \E i \in DOMAIN v :
               /\ Reached(i)
               /\ \/ v[i] = Err /\ w[i] = Err
                  \/ /\ v[i] # Err /\ w[i] # Err
                     /\ ComesToNothing(TypeOf(S.fields[i]), v[i][1], w[i][1])
        [] S.kind = "choice" /\ ~S.hand ->
             Same /\ v[1] = w[1] /\ ComesToNothing(TypeOf(S.variants[v[1]]), v[2], w[2])
        [] S.kind = "profiled" -> ComesToNothing(S.choice, v, w)
        [] OTHER -> FALSE

(* A SET OF with elements of which each is less than the other, and a time *)
(* in another form than the profile writes.                                *)
IsSet(S) == S.kind = "of" /\ S.tag.number = 17
HasTies(S, v) ==
  \E p \in Parts(S, v) :
    /\ IsSet(p[1])
    /\ \E i, j \in DOMAIN p[2] : i # j /\ ComesToNothing(ElementOf(p[1]), p[2][i], p[2][j])
IsAdjusted(S, v) ==
  \E p \in Parts(S, v) : p[1].kind = "profiled" /\ AdjustUtcTime(p[2]) # p[2]

(* What an encoding of a value is, with the liberties that the declarations*)
(* take and no others: a SET OF comes in any order, a field that has its   *)
(* default may be there or not, a field that is skipped holds anything,    *)
(* and an extensible SEQUENCE goes on with context-specific values.        *)
RECURSIVE IsEncodingOf(_, _, _)
IsFieldOf(f, v, t) ==
  CASE f.class = Universal -> IsEncodingOf(TypeOf(f), v, t)
    [] f.class # Universal /\ f.mode = "EXPLICIT" ->
         \E inner \in ToSet(t.items) :
           /\ t = Node(Tag(f.class, f.number, TRUE), <<inner>>)
           /\ IsEncodingOf(TypeOf(f), v, inner)
    [] OTHER ->
         /\ t.tag = Tag(f.class, f.number, TypeOf(f).tag.constructed)
         /\ IsEncodingOf(TypeOf(f), v, [t EXCEPT !.tag = TypeOf(f).tag])

IsRecordOf(S, v, t) ==
  LET fields == DOMAIN S.fields
      mayBeEither == {i \in fields : S.fields[i].presence \in {"default", "implied", "skipped"}}
      there == {i \in fields \ mayBeEither : v[i] # Err}
      Is(i, item) ==
        IF S.fields[i].presence = "skipped"
        THEN item.tag.class = S.fields[i].class /\ item.tag.number = S.fields[i].number
        ELSE IsFieldOf(S.fields[i], v[i][1], item)
  IN  \E either \in SUBSET mayBeEither :
        LET written == SelectSeq([i \in fields |-> i], LAMBDA i : i \in there \cup either)
            rest == Len(written) + 1 .. Len(t.items)
        IN  /\ \A i \in mayBeEither \ either : v[i] = S.fields[i].default
            /\ Len(written) <= Len(t.items)
            /\ \A k \in DOMAIN written : Is(written[k], t.items[k])
            /\ \A k \in rest : S.open /\ t.items[k].tag.class = 2

IsEncodingOf(S, v, t) ==
  CASE S.kind = "primitive" -> t = Leaf(S.tag, v)
    [] S.kind = "any" -> t = v
    [] S.kind = "of" ->
         /\ t = Node(S.tag, t.items) /\ DOMAIN v = DOMAIN t.items
         /\ \E order \in Bijection(DOMAIN v, DOMAIN v) :
              /\ IsSet(S) \/ \A i \in DOMAIN v : order[i] = i
              /\ \A i \in DOMAIN v : IsEncodingOf(ElementOf(S), v[i], t.items[order[i]])
    [] S.kind = "record" -> t = Node(S.tag, t.items) /\ IsRecordOf(S, v, t)
    [] S.kind = "choice" -> IsFieldOf(S.variants[v[1]], v[2], t)
    [] S.kind = "one of" -> IsEncodingOf(S.types[v[1]], v[2], t)
    [] S.kind = "profiled" -> IsEncodingOf(S.choice, v, t)

(* What a type writes it reads, and as the value that was written, but for *)
(* times that the profile adjusts and the order of the elements of a SET   *)
(* OF that are each less than the other: so the fields of a declaration    *)
(* can be told apart whichever are absent.  Variants declared EXPLICIT but *)
(* not constructed, and no other values, are written and never read.       *)
ReadsBackWhatWasWritten ==
  phase = "read" /\ tree = sent =>
    /\ answer = Err <=>
         \E p \in Parts(T, value) : p[1].kind = "choice" /\ IsNeverRead(p[1].variants[p[2][1]])
    /\ answer # Err /\ answer[1] # value =>
         /\ IsAdjusted(T, value) \/ HasTies(T, value)
         /\ IsEncodingOf(T, answer[1], tree)

(* Whatever arrives is read only as a value that it is an encoding of: but *)
(* for the liberties named there, every value has one encoding that is     *)
(* read.                                                                   *)
ReadsOneEncoding ==
  phase = "read" /\ answer # Err => IsEncodingOf(T, answer[1], tree)

(* A SET OF is the same value in whatever order its elements come, unless  *)
(* some are each less than the other: then only the elements are the same. *)
SetsHaveNoOrder ==
  phase = "read" /\ IsSet(T) /\ answer # Err /\ ToBag(tree.items) = ToBag(sent.items) =>
    /\ ToBag(answer[1]) = ToBag(value)
    /\ answer[1] = value \/ HasTies(T, value)

(* der_cmp is a total order in which only the same value is equal, as long *)
(* as it does not come to an optional part that both values leave out: of  *)
(* those each is less than the other, and a value less than itself.        *)
OrderIsTotal ==
  /\ SetsHaveNoOrder
  /\ phase = "written" /\ name \in Ordered =>
    \A other \in Samples(T) :
      LET both == <<<<value, other>>, <<other, value>>>>
          cmp == [i \in 1 .. 2 |-> DerCmp(T, both[i][1], both[i][2])]
      IN  IF ComesToNothing(T, value, other) THEN cmp = <<-1, -1>>
          ELSE cmp[1] = -cmp[2] /\ (cmp[2] = 0 <=> value = other)

(* "Compares the ordering of two values based on their ASN.1 DER serializ- *)
(* ations" (der/src/ord.rs): those with the same one are equal.            *)
SerializationsDecide ==
  phase = "written" /\ name \in Ordered =>
    \A other \in Samples(T) :
      Write(T, other, FALSE) = sent => DerCmp(T, value, other) = 0
================================================================================
