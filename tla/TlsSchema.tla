------------------------------- MODULE TlsSchema --------------------------------
(***************************************************************************)
(* Types with a TLS encoding, and what the derive macros make of structs   *)
(* and enums (tls_codec/derive/src/lib.rs), with the signed certificate    *)
(* timestamps that are built on them (x509-cert/src/ext/pkix/sct.rs).      *)
(* Lengths are those of a 64-bit target, where sums do not overflow.       *)
(*                                                                         *)
(*   <<"octets", n>>         unsigned integers and arrays, as octets       *)
(*   <<"bytes", n>>          TlsByteVec with a length of n octets          *)
(*   <<"vec", n, T>>         TlsVec; those with a variable-length length   *)
(*                           are in TlsVector                              *)
(*   <<"option", T>>, <<"tuple", types>>                                   *)
(*   <<"struct", fields>>    field: [type, attrs], attrs a sequence of     *)
(*                           <<"with", T>>, <<"skip", default>> and        *)
(*                           <<"discriminant", n>>                         *)
(*   <<"enum", n, variants>> repr of n octets; variant: [attrs, native,    *)
(*                           fields], attrs a sequence of <<"literal", d>>,*)
(*                           <<"path", d>> and <<"skip", 0>>; native is the*)
(*                           discriminant Rust gives to a unit variant     *)
(*                                                                         *)
(* An enum's value is <<variant, values>>.                                 *)
(***************************************************************************)
EXTENDS Integers, Sequences
LOCAL INSTANCE SequencesExt
E == INSTANCE TlsElement WITH ByteBase <- 256

Named(attrs, name) == SelectSeq(attrs, LAMBDA a : a[1] = name)

(* function_prefix: the functions of a field are its type's, or those that *)
(* `with` names; function_skip.                                            *)
Prefix(field) ==
  IF Named(field.attrs, "with") = <<>> THEN field.type ELSE Named(field.attrs, "with")[1][2]
Skipped(field) == Named(field.attrs, "skip") # <<>>
OnceEach(attrs) == \A a \in {"with", "skip"} : Len(Named(attrs, a)) <= 1

IsUnit(variant) == variant.fields = <<>>
AllUnit(variants) == \A i \in DOMAIN variants : IsUnit(variants[i])

(* The discriminants: Rust's own when all variants are units; else what the*)
(* attributes say, or one more than the literal or counter before.  A path *)
(* does not set the counter.                                               *)
Literal(variant) == Named(variant.attrs, "literal")
PathTo(variant) == Named(variant.attrs, "path")
Counted(variants) ==
  FoldLeft(LAMBDA before, v :
             LET d == IF Literal(v) # <<>> THEN Literal(v)[1][2] ELSE before.next IN
             [ids |-> Append(before.ids, IF PathTo(v) # <<>> THEN PathTo(v)[1][2] ELSE d),
              next |-> d + 1],
           [ids |-> <<>>, next |-> 0], variants).ids
Discriminants(variants) ==
  IF AllUnit(variants) THEN [i \in DOMAIN variants |-> variants[i].native] ELSE Counted(variants)

(* What does not compile: attributes given twice or where they do not      *)
(* belong, a variant without discriminant after one that was given by path,*)
(* a discriminant that the representation cannot hold.  Attributes of the  *)
(* fields of variants are not looked at, except for `with`.                *)
VariantsCompile(repr, variants) ==
  /\ \A i \in DOMAIN variants :
       /\ Named(variants[i].attrs, "skip") = <<>>
       /\ Len(variants[i].attrs) <= (IF AllUnit(variants) THEN 0 ELSE 1)
       /\ Discriminants(variants)[i] < 256 ^ repr
       /\ \A k \in DOMAIN variants[i].fields :
            Len(Named(variants[i].fields[k].attrs, "with")) <= 1
  /\ \A i, k \in DOMAIN variants :
       i < k /\ PathTo(variants[i]) # <<>> => variants[k].attrs # <<>>

RECURSIVE Compiles(_)
Compiles(T) ==
  CASE T[1] = "struct" ->
         \A i \in DOMAIN T[2] : OnceEach(T[2][i].attrs) /\ Compiles(Prefix(T[2][i]))
    [] T[1] = "enum" ->
         /\ VariantsCompile(T[2], T[3])
         /\ \A i \in DOMAIN T[3] : \A k \in DOMAIN T[3][i].fields :
              Compiles(Prefix(T[3][i].fields[k]))
    [] T[1] = "option" -> Compiles(T[2])
    [] T[1] = "vec" -> Compiles(T[3])
    [] T[1] = "tuple" -> \A i \in DOMAIN T[2] : Compiles(T[2][i])
    [] OTHER -> TRUE

--------------------------------------------------------------------------------
(* What is written of a struct or variant: the types and the values of the *)
(* fields that are not skipped (partition_skipped).                        *)
Members(fields) == SelectSeq(fields, LAMBDA f : ~Skipped(f))
PrefixesOf(fields) == [i \in DOMAIN fields |-> Prefix(fields[i])]
Unskipped(fields, v) ==
  LET kept == SelectSeq([i \in DOMAIN fields |-> i], LAMBDA i : ~Skipped(fields[i])) IN
  [k \in DOMAIN kept |-> v[kept[k]]]

Plus(sizes) == FoldLeft(LAMBDA sum, n : sum + n, 0, sizes)

RECURSIVE Size(_, _)
SizeOfAll(types, v) == Plus([i \in DOMAIN types |-> Size(types[i], v[i])])
Size(T, v) ==
  CASE T[1] = "octets" -> T[2]
    [] T[1] = "bytes" -> T[2] + Len(v)
    [] T[1] = "vec" -> T[2] + SizeOfAll([i \in DOMAIN v |-> T[3]], v)
    [] T[1] = "option" -> 1 + SizeOfAll([i \in DOMAIN v |-> T[2]], v)
    [] T[1] = "tuple" -> SizeOfAll(T[2], v)
    [] T[1] = "struct" -> SizeOfAll(PrefixesOf(Members(T[2])), Unskipped(T[2], v))
    [] T[1] = "enum" -> T[2] + SizeOfAll(PrefixesOf(T[3][v[1]].fields), v[2])

--------------------------------------------------------------------------------
(* Serialize and SerializeBytes: <<octets>>, or <<>>.                      *)
Joined(a, b) == IF a = <<>> \/ b = <<>> THEN <<>> ELSE <<a[1] \o b[1]>>
LengthOf(n, contents) == IF contents >= 256 ^ n THEN <<>> ELSE <<E!WriteUnsigned(n, contents)>>

RECURSIVE Write(_, _)
WriteAll(types, v) ==
  FoldLeft(LAMBDA out, i : Joined(out, Write(types[i], v[i])), << <<>> >>, [i \in DOMAIN v |-> i])
Write(T, v) ==
  CASE T[1] = "octets" -> <<v>>
    [] T[1] = "bytes" -> Joined(LengthOf(T[2], Len(v)), <<v>>)
    [] T[1] = "vec" ->
         Joined(LengthOf(T[2], SizeOfAll([i \in DOMAIN v |-> T[3]], v)),
                WriteAll([i \in DOMAIN v |-> T[3]], v))
    [] T[1] = "option" -> Joined(<< <<Len(v)>> >>, WriteAll([i \in DOMAIN v |-> T[2]], v))
    [] T[1] = "tuple" -> WriteAll(T[2], v)
    [] T[1] = "struct" -> WriteAll(PrefixesOf(Members(T[2])), Unskipped(T[2], v))
    [] T[1] = "enum" ->
         Joined(<<E!WriteUnsigned(T[2], Discriminants(T[3])[v[1]])>>,
                WriteAll(PrefixesOf(T[3][v[1]].fields), v[2]))

--------------------------------------------------------------------------------
(* Deserialize ("read") and DeserializeBytes ("bytes"): the value and the  *)
(* rest of the input, or <<>>.                                             *)
Got(value, rest) == <<[value |-> value, rest |-> rest]>>
Take(n, s) == IF Len(s) < n THEN <<>> ELSE Got(SubSeq(s, 1, n), E!Skip(s, n))

AndThen(r, Continue(_)) == IF r = <<>> THEN <<>> ELSE Continue(r[1])
TakeDelimited(n, s) == AndThen(E!ReadUnsigned(n, s), LAMBDA length : Take(length.value, length.rest))

RECURSIVE Read(_, _, _)
RECURSIVE ReadElements(_, _, _, _)

ReadNext(T, path, before) ==
  AndThen(Read(T, path, before.rest), LAMBDA r : Got(Append(before.value, r.value), r.rest))
ReadAll(types, path, s) ==
  FoldLeft(LAMBDA r, T : AndThen(r, LAMBDA before : ReadNext(T, path, before)), Got(<<>>, s), types)

(* The loops of vectors: elements until n octets are consumed, of which    *)
(* each takes some.  A reader ends with the vector, a slice does not.      *)
Within(path, n, s) == IF path = "read" THEN SubSeq(s, 1, IF n < Len(s) THEN n ELSE Len(s)) ELSE s
Prepend(e, others) == AndThen(others, LAMBDA r : Got(<<e>> \o r.value, r.rest))
AfterElement(T, path, n, s, e, consumed) ==
  IF consumed \notin 1 .. n THEN <<>>
  ELSE Prepend(e, ReadElements(T, path, n - consumed, E!Skip(s, consumed)))
ReadElements(T, path, n, s) ==
  IF n = 0 THEN Got(<<>>, s)
  ELSE AndThen(Read(T, path, Within(path, n, s)),
               LAMBDA e : AfterElement(T, path, n, s, e.value, Len(Within(path, n, s)) - Len(e.rest)))

(* A struct with its skipped fields at their defaults.                     *)
WithDefaults(fields, read) ==
  [i \in DOMAIN fields |->
     IF Skipped(fields[i]) THEN Named(fields[i].attrs, "skip")[1][2]
     ELSE read[Len(Members(SubSeq(fields, 1, i)))]]
ReadStruct(fields, path, s) ==
  AndThen(ReadAll(PrefixesOf(Members(fields)), path, s),
          LAMBDA r : Got(WithDefaults(fields, r.value), r.rest))

(* The first arm of the match that has the discriminant.                   *)
VariantsWith(d, variants) == {i \in DOMAIN variants : Discriminants(variants)[i] = d}
First(S) == CHOOSE i \in S : \A k \in S : i <= k
ReadVariant(i, variants, path, s) ==
  AndThen(ReadAll(PrefixesOf(variants[i].fields), path, s), LAMBDA r : Got(<<i, r.value>>, r.rest))
ReadArm(arms, variants, path, s) ==
  IF arms = {} THEN <<>> ELSE ReadVariant(First(arms), variants, path, s)
ReadEnum(repr, variants, path, s) ==
  AndThen(E!ReadUnsigned(repr, s),
          LAMBDA d : ReadArm(VariantsWith(d.value, variants), variants, path, d.rest))

ReadOptional(T, path, s) ==
  IF s = <<>> \/ s[1] > 1 THEN <<>>
  ELSE ReadAll([i \in 1 .. s[1] |-> T], path, Tail(s))

ReadVector(n, T, path, s) ==
  AndThen(E!ReadUnsigned(n, s), LAMBDA length : ReadElements(T, path, length.value, length.rest))

Read(T, path, s) ==
  CASE T[1] = "octets" -> Take(T[2], s)
    [] T[1] = "bytes" -> TakeDelimited(T[2], s)
    [] T[1] = "vec" -> ReadVector(T[2], T[3], path, s)
    [] T[1] = "option" -> ReadOptional(T[2], path, s)
    [] T[1] = "tuple" -> ReadAll(T[2], path, s)
    [] T[1] = "struct" -> ReadStruct(T[2], path, s)
    [] T[1] = "enum" -> ReadEnum(T[2], T[3], path, s)

(* tls_deserialize_exact and tls_deserialize_exact_bytes.                  *)
ReadExact(T, path, s) ==
  AndThen(Read(T, path, s), LAMBDA r : IF r.rest = <<>> THEN <<r.value>> ELSE <<>>)

(* A derived type that compiles.                                           *)
Serialized(T, v) == IF Compiles(T) THEN Write(T, v) ELSE <<>>
Deserialized(T, path, s) == IF Compiles(T) THEN ReadExact(T, path, s) ELSE <<>>

--------------------------------------------------------------------------------
(* Signed certificate timestamps.                                          *)
Field(T) == [type |-> T, attrs |-> <<>>]
StructOf(types) == <<"struct", [i \in DOMAIN types |-> Field(types[i])]>>
UnitEnum(natives) ==
  <<"enum", 1, [i \in DOMAIN natives |-> [attrs |-> <<>>, native |-> natives[i], fields |-> <<>>]]>>

Version == UnitEnum(<<0>>)
LogId == StructOf(<< <<"octets", 32>> >>)
HashAlgorithm == UnitEnum(<<0, 1, 2, 3, 4, 5, 6, 8>>)
SignatureAlgorithm == UnitEnum(<<0, 1, 2, 3, 7, 8>>)
SignatureAndHashAlgorithm == StructOf(<<HashAlgorithm, SignatureAlgorithm>>)
TlsByteVecU16 == <<"bytes", 2>>
DigitallySigned == StructOf(<<SignatureAndHashAlgorithm, TlsByteVecU16>>)
SignedCertificateTimestamp ==
  StructOf(<<Version, LogId, <<"octets", 8>>, TlsByteVecU16, DigitallySigned>>)
SerializedSct == StructOf(<<TlsByteVecU16>>)

(* SerializedSct::new and SignedCertificateTimestampList::new: contents of *)
(* an OctetString.                                                         *)
SctNew(sct) == Joined(<< <<>> >>, Write(SignedCertificateTimestamp, sct))
ListNew(scts) ==
  AndThen(FoldLeft(LAMBDA list, sct : Joined(list, Write(SerializedSct, SctNew(sct))), << <<>> >>, scts),
          LAMBDA contents : Write(TlsByteVecU16, contents))

(* parse_timestamps, and parse_timestamp of each.                          *)
RECURSIVE Serializeds(_)
Serializeds(s) ==
  IF s = <<>> THEN << <<>> >>
  ELSE AndThen(Read(SerializedSct, "bytes", s),
               LAMBDA r : Joined(<< <<r.value>> >>, Serializeds(r.rest)))
parse_timestamps(s) == AndThen(ReadExact(TlsByteVecU16, "bytes", s), Serializeds)
parse_timestamp(serialized) == ReadExact(SignedCertificateTimestamp, "bytes", serialized[1])
Timestamps(s) ==
  AndThen(parse_timestamps(s),
          LAMBDA list : FoldLeft(LAMBDA scts, serialized :
                                   Joined(scts, AndThen(parse_timestamp(serialized), LAMBDA sct : << <<sct>> >>)),
                                 << <<>> >>, list))

--------------------------------------------------------------------------------
(* What distinguishes values: whether a value has a skipped field with     *)
(* other than the default, or a variant whose discriminant is an earlier   *)
(* one's, and so is not what is read back.                                 *)
RECURSIVE Lossy(_, _)
LossyField(field, v) ==
  IF Skipped(field) THEN v # Named(field.attrs, "skip")[1][2] ELSE Lossy(Prefix(field), v)
Lossy(T, v) ==
  CASE T[1] = "vec" -> \E i \in DOMAIN v : Lossy(T[3], v[i])
    [] T[1] = "option" -> \E i \in DOMAIN v : Lossy(T[2], v[i])
    [] T[1] = "tuple" -> \E i \in DOMAIN v : Lossy(T[2][i], v[i])
    [] T[1] = "struct" -> \E i \in DOMAIN v : LossyField(T[2][i], v[i])
    [] T[1] = "enum" ->
         \/ v[1] # First(VariantsWith(Discriminants(T[3])[v[1]], T[3]))
         \/ \E i \in DOMAIN v[2] : Lossy(Prefix(T[3][v[1]].fields[i]), v[2][i])
    [] OTHER -> FALSE
================================================================================
