---------------------------- MODULE TlsVectorProofs ----------------------------
(***************************************************************************)
(* Proofs about the vectors of TlsVector, for octets of any size, all      *)
(* inputs and all vectors: first what the operators of TlsElement and      *)
(* TlsVector compute (what is written is read back, takes the octets       *)
(* announced, and has one encoding where lengths must be minimal), then    *)
(* what the specification does with them.                                  *)
(***************************************************************************)
EXTENDS TlsVector, SequenceLemmas

Shifts(first, s, v) == \A n \in 0 .. Len(s) : v[n] = IF n = 0 THEN first ELSE v[n - 1] * ByteBase + s[n]

LEMMA BigEndianShifts ==
  ASSUME NEW first \in Nat, NEW s \in Seq(Nat)
  PROVE  \E v : Shifts(first, s, v) /\ BigEndian(first, s) = v[Len(s)]
<1> DEFINE Has(f, k) == f = [n \in 0 .. k |-> IF n = 0 THEN first ELSE f[n - 1] * ByteBase + s[n]]
           Exists == {k \in Nat : k <= Len(s) => \E f : Has(f, k)}
           v == CHOOSE f : Has(f, Len(s))
<1>1. Len(s) \in Nat /\ \A n \in 1 .. Len(s) : s[n] \in Nat
  OBVIOUS
<1>2. 0 \in Exists
  <2> DEFINE g == [n \in 0 .. 0 |-> first]
  <2>1. Has(g, 0)
    OBVIOUS
  <2> HIDE DEF g, Has
  <2> QED
    BY <2>1
<1>3. ASSUME NEW k \in Exists PROVE k + 1 \in Exists
  <2> SUFFICES ASSUME k + 1 <= Len(s) PROVE \E f : Has(f, k + 1)
    OBVIOUS
  <2>1. PICK f : Has(f, k)
    BY <1>1
  <2> DEFINE g == [n \in 0 .. k + 1 |-> IF n = k + 1 THEN f[k] * ByteBase + s[k + 1] ELSE f[n]]
  <2>2. \A n \in 0 .. k + 1 : g[n] = IF n = 0 THEN first ELSE g[n - 1] * ByteBase + s[n]
    BY <2>1
  <2>3. Has(g, k + 1)
    BY <2>2
  <2> HIDE DEF g, Has
  <2> QED
    BY <2>3
<1>4. Exists = Nat
  <2> HIDE DEF Exists
  <2>1. Exists \in SUBSET Nat
    BY DEF Exists
  <2> QED
    BY <1>2, <1>3, <2>1, Induction
<1>5. Has(v, Len(s))
  <2>1. \E f : Has(f, Len(s))
    BY <1>1, <1>4
  <2> HIDE DEF Has
  <2> QED
    BY <2>1
<1>6. Shifts(first, s, v)
  BY <1>1, <1>5 DEF Shifts
<1>7. BigEndian(first, s) = v[Len(s)]
  BY DEF BigEndian
<1> HIDE DEF v
<1> QED
  BY <1>6, <1>7

LEMMA BigEndianIsNatural ==
  ASSUME NEW first \in Nat, NEW s \in Seq(Nat)
  PROVE  BigEndian(first, s) \in Nat /\ BigEndian(first, s) >= first
<1>1. Len(s) \in Nat /\ \A n \in 1 .. Len(s) : s[n] \in Nat
  OBVIOUS
<1>2. PICK v : Shifts(first, s, v) /\ BigEndian(first, s) = v[Len(s)]
  BY BigEndianShifts
<1>3. \A n \in 0 .. Len(s) : v[n] = IF n = 0 THEN first ELSE v[n - 1] * ByteBase + s[n]
  BY <1>2 DEF Shifts
<1> DEFINE Grown == {k \in Nat : k <= Len(s) => v[k] \in Nat /\ v[k] >= first}
<1>4. 0 \in Grown
  BY <1>1, <1>3
<1>5. ASSUME NEW k \in Grown PROVE k + 1 \in Grown
  <2> SUFFICES ASSUME k + 1 <= Len(s) PROVE v[k + 1] \in Nat /\ v[k + 1] >= first
    OBVIOUS
  <2>1. v[k] \in Nat /\ v[k] >= first /\ s[k + 1] \in Nat
    BY <1>1
  <2>2. v[k + 1] = v[k] * ByteBase + s[k + 1]
    BY <1>1, <1>3
  <2>3. v[k] * ByteBase \in Nat /\ v[k] * ByteBase >= v[k]
    BY <2>1, ByteAssumption, Multiplied
  <2> QED
    BY <2>1, <2>2, <2>3
<1> QED
  <2> HIDE DEF Grown
  <2>1. Grown \in SUBSET Nat
    BY DEF Grown
  <2>2. Grown = Nat
    BY <1>4, <1>5, <2>1, Induction
  <2> QED
    BY <1>1, <1>2, <2>2 DEF Grown

LEMMA Weights ==
  ASSUME NEW n \in Nat
  PROVE  Weight(n) \in Nat \ {0} /\ Room(n + 1) \in Nat
<1> DEFINE zeros == [i \in 1 .. n |-> 0]
<1>1. zeros \in Seq(Nat)
  OBVIOUS
<1> HIDE DEF zeros
<1>2. BigEndian(1, zeros) \in Nat \ {0}
  BY <1>1, BigEndianIsNatural
<1>3. Weight(n) \in Nat \ {0}
  BY <1>2 DEF Weight, zeros
<1>4. FirstBase \in Nat
  BY ByteAssumption DEF FirstBase
<1> QED
  BY <1>3, <1>4, Multiplied DEF Room

LEMMA Numbers ==
  /\ ByteBase \in Nat \ {0} /\ FirstBase \in Nat \ {0} /\ ByteBase = 4 * FirstBase
  /\ MAX \in Int /\ MAX_MLS_LEN \in Int
  /\ Octets \subseteq Nat
<1>1. ByteBase \in Nat \ {0} /\ FirstBase \in Nat \ {0} /\ ByteBase = 4 * FirstBase
  BY ByteAssumption DEF FirstBase
<1>2. Room(7 + 1) \in Nat /\ Room(3 + 1) \in Nat
  BY Weights
<1> QED
  BY <1>1, <1>2 DEF MAX, MAX_MLS_LEN, Octets

LEMMA FirstOctet ==
  ASSUME NEW octet \in Octets
  PROVE  /\ calculate_value(octet).value \in Nat
         /\ calculate_value(octet).len \in Widths
<1>1. octet \in Nat /\ octet < 4 * FirstBase /\ FirstBase \in Nat \ {0}
  BY Numbers DEF Octets
<1>2. /\ octet = (FirstBase * (octet \div FirstBase)) + (octet % FirstBase)
      /\ octet \div FirstBase \in Nat /\ octet % FirstBase \in Nat
  BY <1>1
<1>3. octet \div FirstBase \in 0 .. 3
  BY <1>1, <1>2
<1>4. 2 ^ 0 = 1 /\ 2 ^ 1 = 2 /\ 2 ^ 2 = 4 /\ 2 ^ 3 = 8
  BY SMT
<1>5. \A tag \in 0 .. 3 : 2 ^ tag \in Widths
  <2> SUFFICES ASSUME NEW tag \in 0 .. 3 PROVE 2 ^ tag \in Widths
    OBVIOUS
  <2>1. tag = 0 \/ tag = 1 \/ tag = 2 \/ tag = 3
    OBVIOUS
  <2> QED
    BY <1>4, <2>1 DEF Widths
<1> QED
  BY <1>2, <1>3, <1>5 DEF calculate_value

--------------------------------------------------------------------------------
(* Skipping octets, and cutting a sequence off.                            *)
Cut(s, m) == SubSeq(s, 1, m)

LEMMA Skips ==
  ASSUME NEW S, NEW s \in Seq(S), NEW n \in 0 .. Len(s)
  PROVE  /\ Skip(s, n) \in Seq(S) /\ Len(Skip(s, n)) = Len(s) - n
         /\ \A i \in 1 .. Len(s) - n : Skip(s, n)[i] = s[n + i]
  BY DEF Skip

LEMMA Cuts ==
  ASSUME NEW S, NEW s \in Seq(S), NEW n \in 0 .. Len(s)
  PROVE  /\ Cut(s, n) \in Seq(S) /\ Len(Cut(s, n)) = n
         /\ \A i \in 1 .. n : Cut(s, n)[i] = s[i]
  BY DEF Cut

LEMMA SkipTwice ==
  ASSUME NEW s, IsSequence(s), NEW m \in Nat, NEW n \in Nat, m + n <= Len(s)
  PROVE  Skip(Skip(s, m), n) = Skip(s, m + n)
<1> DEFINE S == Elements(s)
<1>s. s \in Seq(S)
  BY DEF IsSequence
<1> HIDE DEF S
<1>1. Skip(s, m) \in Seq(S) /\ Len(Skip(s, m)) = Len(s) - m
  BY <1>s, Skips
<1>2. /\ Skip(Skip(s, m), n) \in Seq(S) /\ Len(Skip(Skip(s, m), n)) = Len(s) - m - n
      /\ \A i \in 1 .. Len(s) - m - n : Skip(Skip(s, m), n)[i] = Skip(s, m)[n + i]
  BY <1>s, <1>1, Skips
<1>3. /\ Skip(s, m + n) \in Seq(S) /\ Len(Skip(s, m + n)) = Len(s) - (m + n)
      /\ \A i \in 1 .. Len(s) - (m + n) : Skip(s, m + n)[i] = s[m + n + i]
  <2>1. m + n \in 0 .. Len(s)
    OBVIOUS
  <2> QED
    BY <1>s, <2>1, Skips
<1>4. ASSUME NEW i \in 1 .. Len(s) - m - n PROVE Skip(s, m)[n + i] = s[m + n + i]
  <2>1. m \in 0 .. Len(s) /\ n + i \in 1 .. Len(s) - m /\ m + (n + i) = m + n + i
    OBVIOUS
  <2>2. \A k \in 1 .. Len(s) - m : Skip(s, m)[k] = s[m + k]
    BY <1>s, <2>1, Skips
  <2> QED
    BY <2>1, <2>2
<1>5. Len(Skip(Skip(s, m), n)) = Len(Skip(s, m + n)) /\ Len(Skip(Skip(s, m), n)) = Len(s) - m - n
  <2>1. Len(s) - (m + n) = Len(s) - m - n
    OBVIOUS
  <2> QED
    BY <1>2, <1>3, <2>1
<1>7. ASSUME NEW i \in 1 .. Len(s) - m - n PROVE Skip(Skip(s, m), n)[i] = Skip(s, m + n)[i]
  <2>1. i \in 1 .. Len(s) - (m + n)
    OBVIOUS
  <2> QED
    BY <1>2, <1>3, <1>4, <2>1
<1>8. IsSequence(Skip(Skip(s, m), n)) /\ IsSequence(Skip(s, m + n))
  BY <1>s, <1>2, <1>3, OfItsElements
<1> QED
  BY <1>5, <1>7, <1>8, SequencesEqual

(* A part that lies before the cut is the same part.                       *)
LEMMA PartOfCut ==
  ASSUME NEW s, IsSequence(s), NEW m \in 0 .. Len(s), NEW a \in Nat \ {0}, NEW b \in Nat,
         b <= m, a <= b + 1
  PROVE  SubSeq(Cut(s, m), a, b) = SubSeq(s, a, b)
<1> DEFINE S == Elements(s)
<1>s. s \in Seq(S)
  BY DEF IsSequence
<1> HIDE DEF S
<1>1. Cut(s, m) \in Seq(S) /\ Len(Cut(s, m)) = m /\ \A i \in 1 .. m : Cut(s, m)[i] = s[i]
  BY <1>s, Cuts
<1>2. /\ IsSequence(SubSeq(Cut(s, m), a, b)) /\ Len(SubSeq(Cut(s, m), a, b)) = b - a + 1
      /\ \A i \in 1 .. b - a + 1 : SubSeq(Cut(s, m), a, b)[i] = Cut(s, m)[a - 1 + i]
  BY <1>s, <1>1, SubSeqFacts, OfItsElements
<1>3. /\ IsSequence(SubSeq(s, a, b)) /\ Len(SubSeq(s, a, b)) = b - a + 1
      /\ \A i \in 1 .. b - a + 1 : SubSeq(s, a, b)[i] = s[a - 1 + i]
  BY <1>s, SubSeqFacts, OfItsElements
<1>4. \A i \in 1 .. b - a + 1 : Cut(s, m)[a - 1 + i] = s[a - 1 + i]
  BY <1>1
<1>5. \A i \in 1 .. b - a + 1 : SubSeq(Cut(s, m), a, b)[i] = SubSeq(s, a, b)[i]
  BY <1>2, <1>3, <1>4
<1> QED
  BY <1>2, <1>3, <1>5, SequencesEqual

(* What is left of a cut is the cut of what is left.                       *)
LEMMA SkipOfCut ==
  ASSUME NEW s, IsSequence(s), NEW m \in 0 .. Len(s), NEW n \in 0 .. m
  PROVE  Skip(Cut(s, m), n) = Cut(Skip(s, n), m - n)
<1> DEFINE S == Elements(s)
<1>s. s \in Seq(S)
  BY DEF IsSequence
<1> HIDE DEF S
<1>1. Cut(s, m) \in Seq(S) /\ Len(Cut(s, m)) = m /\ \A i \in 1 .. m : Cut(s, m)[i] = s[i]
  BY <1>s, Cuts
<1>0. n \in 0 .. Len(s) /\ m - n \in 0 .. Len(s) - n
  OBVIOUS
<1>2. /\ Skip(Cut(s, m), n) \in Seq(S) /\ Len(Skip(Cut(s, m), n)) = m - n
      /\ \A i \in 1 .. m - n : Skip(Cut(s, m), n)[i] = Cut(s, m)[n + i]
  <2>1. n \in 0 .. Len(Cut(s, m))
    BY <1>1
  <2> QED
    BY <1>s, <1>1, <2>1, Skips, ZenonT(60)
<1>3. /\ Skip(s, n) \in Seq(S) /\ Len(Skip(s, n)) = Len(s) - n
      /\ \A i \in 1 .. Len(s) - n : Skip(s, n)[i] = s[n + i]
  BY <1>s, <1>0, Skips
<1>4. /\ Cut(Skip(s, n), m - n) \in Seq(S) /\ Len(Cut(Skip(s, n), m - n)) = m - n
      /\ \A i \in 1 .. m - n : Cut(Skip(s, n), m - n)[i] = Skip(s, n)[i]
  BY <1>s, <1>0, <1>3, Cuts, ZenonT(60)
<1>5. ASSUME NEW i \in 1 .. m - n PROVE Skip(Cut(s, m), n)[i] = Cut(Skip(s, n), m - n)[i]
  <2>1. n + i \in 1 .. m /\ i \in 1 .. Len(s) - n
    OBVIOUS
  <2> QED
    BY <1>1, <1>2, <1>3, <1>4, <2>1
<1> QED
  BY <1>s, <1>2, <1>4, <1>5, SequencesEqual, OfItsElements

--------------------------------------------------------------------------------
(* What an element takes off the octets it is read from, and what is read  *)
(* from the same octets cut off after m.                                   *)
Took(r, s) == Len(s) - Len(r[1].rest)
Decodes(r, s) == r # Err => \E n \in 0 .. Len(s) : r[1].rest = Skip(s, n)
Follows(r, s, cut, m) ==
  IF r = Err \/ Took(r, s) > m THEN cut = Err
  ELSE cut # Err /\ cut[1].value = r[1].value /\ cut[1].rest = Skip(Cut(s, m), Took(r, s))

LEMMA TookOf ==
  ASSUME NEW S, NEW s \in Seq(S), NEW n \in 0 .. Len(s), NEW v
  PROVE  /\ Decoded(v, Skip(s, n)) # Err
         /\ Decoded(v, Skip(s, n))[1].value = v
         /\ Decoded(v, Skip(s, n))[1].rest = Skip(s, n)
         /\ Took(Decoded(v, Skip(s, n)), s) = n
         /\ Decodes(Decoded(v, Skip(s, n)), s)
<1>1. Len(Skip(s, n)) = Len(s) - n
  BY Skips
<1> QED
  BY <1>1 DEF Decoded, Ok, Err, Took, Decodes

LEMMA VarIntDecodes ==
  ASSUME NEW s \in Seq(Octets), NEW mls \in BOOLEAN, ReadVarInt(s, mls) # Err
  PROVE  \E width \in Widths, v \in Nat :
           width <= Len(s) /\ ReadVarInt(s, mls) = Decoded(v, Skip(s, width))
<1> DEFINE first == calculate_value(s[1])
           others == SubSeq(s, 2, first.len)
           v == BigEndian(first.value, others)
<1>1. s # <<>> /\ s[1] \in Octets
  BY DEF ReadVarInt, Err
<1>2. first.value \in Nat /\ first.len \in Widths
  BY <1>1, FirstOctet
<1> HIDE DEF first
<1>3. first.len <= Len(s) /\ ReadVarInt(s, mls) = Decoded(v, Skip(s, first.len))
  BY <1>1, <1>2 DEF ReadVarInt, first, Widths
<1>4. others \in Seq(Nat)
  <2>1. s \in Seq(Nat)
    BY Numbers, OfMore
  <2>2. first.len \in Nat /\ first.len <= Len(s) /\ 2 <= first.len + 1
    BY <1>2, <1>3 DEF Widths
  <2> QED
    BY <2>1, <2>2
<1> HIDE DEF others
<1>5. v \in Nat
  BY <1>2, <1>4, BigEndianIsNatural
<1> QED
  BY <1>2, <1>3, <1>5

LEMMA VarIntOfCut ==
  ASSUME NEW s \in Seq(Octets), NEW mls \in BOOLEAN, NEW m \in 0 .. Len(s)
  PROVE  Follows(ReadVarInt(s, mls), s, ReadVarInt(Cut(s, m), mls), m)
<1> DEFINE first == calculate_value(s[1])
           r == ReadVarInt(s, mls)
           cut == Cut(s, m)
           v(t) == BigEndian(first.value, SubSeq(t, 2, first.len))
<1>1. cut \in Seq(Octets) /\ Len(cut) = m /\ \A i \in 1 .. m : cut[i] = s[i]
  BY Cuts
<1>2. CASE s = <<>> \/ m = 0
  <2>1. cut = <<>>
    BY <1>1, <1>2
  <2>2. ReadVarInt(cut, mls) = Err
    BY <2>1 DEF ReadVarInt
  <2>3. r # Err => Took(r, s) > m
    <3> SUFFICES ASSUME r # Err PROVE Took(r, s) > m
      OBVIOUS
    <3>1. PICK width \in Widths, x \in Nat : width <= Len(s) /\ r = Decoded(x, Skip(s, width))
      BY VarIntDecodes
    <3>2. width \in 0 .. Len(s) /\ width > 0
      BY <3>1 DEF Widths
    <3> HIDE DEF r
    <3>3. Took(r, s) = width
      BY <3>1, <3>2, TookOf
    <3> QED
      BY <1>2, <3>2, <3>3
  <2> QED
    BY <2>2, <2>3 DEF Follows
<1>3. CASE s # <<>> /\ m # 0
  <2>1. s[1] \in Octets /\ cut[1] = s[1] /\ cut # <<>>
    BY <1>1, <1>3
  <2>2. first.value \in Nat /\ first.len \in Widths
    BY <2>1, FirstOctet
  <2> HIDE DEF first, cut
  <2>3. /\ r = IF Len(s) < first.len \/ ~check_min_len(v(s), first.len, mls) THEN Err
               ELSE Decoded(v(s), Skip(s, first.len))
        /\ ReadVarInt(cut, mls) =
             IF Len(cut) < first.len \/ ~check_min_len(v(cut), first.len, mls) THEN Err
             ELSE Decoded(v(cut), Skip(cut, first.len))
    BY <1>3, <2>1 DEF ReadVarInt, first
  <2>4. r # Err => Took(r, s) = first.len
    <3> SUFFICES ASSUME r # Err PROVE Took(r, s) = first.len
      OBVIOUS
    <3>1. first.len \in 0 .. Len(s) /\ r = Decoded(v(s), Skip(s, first.len))
      BY <2>2, <2>3 DEF Widths
    <3> HIDE DEF r, v
    <3> QED
      BY <3>1, TookOf
  <2>5. CASE first.len > m
    <3>1. ReadVarInt(cut, mls) = Err
      BY <1>1, <2>3, <2>5, <2>2 DEF Widths, cut
    <3> QED
      BY <2>4, <2>5, <3>1 DEF Follows, cut
  <2>6. CASE first.len <= m
    <3>1. SubSeq(cut, 2, first.len) = SubSeq(s, 2, first.len)
      <4>1. first.len \in Nat /\ 2 <= first.len + 1
        BY <2>2 DEF Widths
      <4>2. IsSequence(s)
        BY OfItsElements
      <4>3. \A a \in Nat \ {0} : a <= first.len + 1 => SubSeq(Cut(s, m), a, first.len) = SubSeq(s, a, first.len)
        BY <2>6, <4>1, <4>2, PartOfCut
      <4> QED
        BY <4>1, <4>3 DEF cut
    <3>2. v(cut) = v(s)
      BY <3>1
    <3>3. first.len <= Len(s) /\ ~(Len(cut) < first.len) /\ ~(Len(s) < first.len) /\ ~(first.len > m)
      BY <1>1, <2>2, <2>6 DEF Widths, cut
    <3> HIDE DEF v
    <3>4. CASE check_min_len(v(s), first.len, mls)
      <4>1. r = Decoded(v(s), Skip(s, first.len)) /\ ReadVarInt(cut, mls) = Decoded(v(s), Skip(cut, first.len))
        BY <2>3, <3>2, <3>3, <3>4
      <4>2. r # Err /\ r[1].value = v(s)
        BY <4>1 DEF Decoded, Ok, Err
      <4>3. /\ ReadVarInt(cut, mls) # Err
            /\ ReadVarInt(cut, mls)[1].value = v(s) /\ ReadVarInt(cut, mls)[1].rest = Skip(cut, first.len)
        BY <4>1 DEF Decoded, Ok, Err
      <4> HIDE DEF r
      <4> QED
        BY <2>4, <3>3, <4>2, <4>3 DEF Follows, cut, r
    <3>5. CASE ~check_min_len(v(s), first.len, mls)
      <4>1. r = Err /\ ReadVarInt(cut, mls) = Err
        BY <2>3, <3>2, <3>5
      <4> QED
        BY <4>1 DEF Follows, cut
    <3> QED
      BY <3>4, <3>5
  <2> QED
    BY <2>2, <2>5, <2>6 DEF Widths
<1> QED
  BY <1>2, <1>3

(* A value whose width is known before it is read.                         *)
LEMMA KnownWidth ==
  ASSUME NEW s, IsSequence(s), NEW m \in 0 .. Len(s), NEW w \in Nat, NEW v, NEW r, NEW cut,
         r = IF w <= Len(s) THEN Decoded(v, Skip(s, w)) ELSE Err,
         cut = IF w <= m THEN Decoded(v, Skip(Cut(s, m), w)) ELSE Err
  PROVE  Follows(r, s, cut, m) /\ Decodes(r, s)
<1> DEFINE S == Elements(s)
<1>1. s \in Seq(S) /\ Len(s) \in Nat
  BY DEF IsSequence
<1> HIDE DEF S
<1>2. CASE w > Len(s)
  BY <1>1, <1>2 DEF Follows, Decodes
<1>3. CASE w <= Len(s)
  <2>1. w \in 0 .. Len(s) /\ r = Decoded(v, Skip(s, w))
    BY <1>1, <1>3
  <2>2. r # Err /\ r[1].value = v /\ Took(r, s) = w /\ Decodes(r, s)
    BY <1>1, <2>1, TookOf
  <2>3. CASE w > m
    BY <1>1, <2>2, <2>3 DEF Follows
  <2>4. CASE w <= m
    <3>1. cut # Err /\ cut[1].value = v /\ cut[1].rest = Skip(Cut(s, m), w)
      BY <2>4 DEF Decoded, Ok, Err
    <3> QED
      BY <1>1, <2>2, <2>4, <3>1 DEF Follows
  <2> QED
    BY <2>3, <2>4
<1> QED
  BY <1>1, <1>2, <1>3

LEMMA UnsignedReads ==
  ASSUME NEW s, IsSequence(s), NEW n \in Nat
  PROVE  ReadUnsigned(n, s) = IF n <= Len(s) THEN Decoded(BigEndian(0, Cut(s, n)), Skip(s, n)) ELSE Err
<1>1. Len(s) \in Nat
  BY SequenceShape
<1> QED
  BY <1>1 DEF ReadUnsigned, Cut

LEMMA CutOfCut ==
  ASSUME NEW s, IsSequence(s), NEW m \in 0 .. Len(s), NEW n \in 0 .. m
  PROVE  Cut(Cut(s, m), n) = Cut(s, n)
<1>1. \A a \in Nat \ {0} : a <= n + 1 => SubSeq(Cut(s, m), a, n) = SubSeq(s, a, n)
  <2>1. n \in Nat /\ n <= m
    OBVIOUS
  <2> QED
    BY <2>1, PartOfCut
<1> QED
  BY <1>1 DEF Cut

LEMMA CutShape ==
  ASSUME NEW s, IsSequence(s), NEW n \in 0 .. Len(s)
  PROVE  /\ IsSequence(Cut(s, n)) /\ Len(Cut(s, n)) = n
         /\ IsSequence(Skip(s, n)) /\ Len(Skip(s, n)) = Len(s) - n
<1> DEFINE S == Elements(s)
<1>1. s \in Seq(S)
  BY DEF IsSequence
<1> HIDE DEF S
<1> QED
  BY <1>1, Cuts, Skips, OfItsElements

LEMMA UnsignedOfCut ==
  ASSUME NEW s, IsSequence(s), NEW m \in 0 .. Len(s), NEW n \in Nat
  PROVE  Follows(ReadUnsigned(n, s), s, ReadUnsigned(n, Cut(s, m)), m) /\ Decodes(ReadUnsigned(n, s), s)
<1>1. IsSequence(Cut(s, m)) /\ Len(Cut(s, m)) = m
  BY CutShape
<1>2. n <= m => Cut(Cut(s, m), n) = Cut(s, n)
  BY CutOfCut
<1>3. ReadUnsigned(n, Cut(s, m)) =
        IF n <= m THEN Decoded(BigEndian(0, Cut(s, n)), Skip(Cut(s, m), n)) ELSE Err
  BY <1>1, <1>2, UnsignedReads
<1> QED
  BY <1>3, UnsignedReads, KnownWidth

(* What a limited reader gives is all that was asked for, or an error.     *)
LEMMA BoundedReads ==
  ASSUME NEW s, IsSequence(s), NEW n \in Nat
  PROVE  read_bytes_bounded(s, n) = IF n <= Len(s) THEN Decoded(Cut(s, n), Skip(s, n)) ELSE Err
<1>1. Len(s) \in Nat /\ Len(Cut(s, Len(s))) = Len(s) /\ (n <= Len(s) => Len(Cut(s, n)) = n)
  <2>1. Len(s) \in Nat
    BY SequenceShape
  <2>2. Len(s) \in 0 .. Len(s) /\ (n <= Len(s) => n \in 0 .. Len(s))
    BY <2>1
  <2> QED
    BY <2>1, <2>2, CutShape
<1> QED
  BY <1>1 DEF read_bytes_bounded, Cut

LEMMA OptionOfCut ==
  ASSUME NEW s \in Seq(Octets), NEW m \in 0 .. Len(s)
  PROVE  Follows(ReadOption(s), s, ReadOption(Cut(s, m)), m) /\ Decodes(ReadOption(s), s)
<1> DEFINE cut == Cut(s, m)
<1>1. /\ IsSequence(s) /\ Len(s) \in Nat
      /\ IsSequence(cut) /\ Len(cut) = m /\ \A i \in 1 .. m : cut[i] = s[i]
  BY CutShape, Cuts, OfItsElements
<1>2. (s = <<>> <=> Len(s) = 0) /\ (cut = <<>> <=> m = 0)
  BY <1>1, SequenceShape
<1>3. m > 0 => cut[1] = s[1]
  BY <1>1
<1>4. CASE Len(s) = 0 \/ s[1] > 1
  <2>1. ReadOption(s) = Err /\ ReadOption(cut) = Err
    BY <1>2, <1>3, <1>4 DEF ReadOption
  <2> QED
    BY <2>1 DEF Follows, Decodes
<1>5. CASE Len(s) > 0 /\ ~(s[1] > 1) /\ s[1] = 0
  <2>1. /\ ReadOption(s) = IF 1 <= Len(s) THEN Decoded(<<>>, Skip(s, 1)) ELSE Err
        /\ ReadOption(cut) = IF 1 <= m THEN Decoded(<<>>, Skip(cut, 1)) ELSE Err
    BY <1>1, <1>2, <1>3, <1>5 DEF ReadOption
  <2> QED
    BY <1>1, <2>1, KnownWidth
<1>6. CASE Len(s) > 0 /\ ~(s[1] > 1) /\ s[1] # 0
  <2> DEFINE v == <<BigEndian(0, Cut(Skip(s, 1), 1))>>
  <2>1. 1 \in 0 .. Len(s)
    BY <1>1, <1>6
  <2>2. IsSequence(Skip(s, 1)) /\ Len(Skip(s, 1)) = Len(s) - 1
    BY <1>1, <2>1, CutShape
  <2>3. ReadOption(s) = IF 2 <= Len(s) THEN Decoded(v, Skip(s, 2)) ELSE Err
    <3>1. ReadUnsigned(1, Skip(s, 1)) =
            IF 1 <= Len(s) - 1 THEN Decoded(BigEndian(0, Cut(Skip(s, 1), 1)), Skip(Skip(s, 1), 1)) ELSE Err
      BY <2>2, UnsignedReads
    <3>2. CASE 2 <= Len(s)
      <4>1. 1 <= Len(s) - 1 /\ 1 + 1 = 2 /\ 1 \in Nat /\ 1 + 1 <= Len(s)
        BY <1>1, <3>2
      <4>2. Skip(Skip(s, 1), 1) = Skip(s, 2)
        <5>1. \A a, b \in Nat : a + b <= Len(s) => Skip(Skip(s, a), b) = Skip(s, a + b)
          BY <1>1, SkipTwice
        <5> QED
          BY <4>1, <5>1
      <4>3. ReadUnsigned(1, Skip(s, 1)) = Decoded(BigEndian(0, Cut(Skip(s, 1), 1)), Skip(s, 2))
        BY <3>1, <4>1, <4>2
      <4>4. ReadUnsigned(1, Skip(s, 1)) # Err
        BY <4>3 DEF Decoded, Ok, Err
      <4> QED
        BY <1>2, <1>6, <3>2, <4>3, <4>4 DEF ReadOption, Decoded, Ok
    <3>3. CASE ~(2 <= Len(s))
      <4>1. ReadUnsigned(1, Skip(s, 1)) = Err
        BY <1>1, <3>1, <3>3
      <4> QED
        BY <1>2, <1>6, <3>3, <4>1 DEF ReadOption
    <3> QED
      BY <3>2, <3>3
  <2>4. ReadOption(cut) = IF 2 <= m THEN Decoded(v, Skip(cut, 2)) ELSE Err
    <3>1. CASE m = 0
      BY <1>2, <3>1 DEF ReadOption
    <3>2. CASE m > 0
      <4>1. IsSequence(Skip(cut, 1)) /\ Len(Skip(cut, 1)) = m - 1
        BY <1>1, <3>2, CutShape
      <4>2. ReadUnsigned(1, Skip(cut, 1)) =
              IF 1 <= m - 1 THEN Decoded(BigEndian(0, Cut(Skip(cut, 1), 1)), Skip(Skip(cut, 1), 1)) ELSE Err
        BY <4>1, UnsignedReads
      <4>3. CASE 2 <= m
        <5>1. 1 <= m - 1 /\ 1 + 1 = 2 /\ 1 \in Nat /\ 1 + 1 <= Len(cut) /\ 1 \in 0 .. m /\ 1 \in 0 .. m - 1
          BY <1>1, <4>3
        <5>2. Skip(Skip(cut, 1), 1) = Skip(cut, 2)
          <6>1. \A a, b \in Nat : a + b <= Len(cut) => Skip(Skip(cut, a), b) = Skip(cut, a + b)
            BY <1>1, SkipTwice
          <6> QED
            BY <5>1, <6>1
        <5>3. Cut(Skip(cut, 1), 1) = Cut(Skip(s, 1), 1)
          <6>1. \A a \in 0 .. m : Skip(cut, a) = Cut(Skip(s, a), m - a)
            BY <1>1, SkipOfCut
          <6>2. Skip(cut, 1) = Cut(Skip(s, 1), m - 1) /\ m - 1 \in 0 .. Len(s) - 1
            BY <5>1, <6>1, <1>1
          <6>3. \A a \in 0 .. m - 1 : Cut(Cut(Skip(s, 1), m - 1), a) = Cut(Skip(s, 1), a)
            BY <2>2, <6>2, CutOfCut
          <6> QED
            BY <5>1, <6>2, <6>3
        <5>4. ReadUnsigned(1, Skip(cut, 1)) = Decoded(BigEndian(0, Cut(Skip(s, 1), 1)), Skip(cut, 2))
          BY <4>2, <5>1, <5>2, <5>3
        <5>5. ReadUnsigned(1, Skip(cut, 1)) # Err
          BY <5>4 DEF Decoded, Ok, Err
        <5> QED
          BY <1>2, <1>3, <1>6, <3>2, <4>3, <5>4, <5>5 DEF ReadOption, Decoded, Ok
      <4>4. CASE ~(2 <= m)
        <5>1. ReadUnsigned(1, Skip(cut, 1)) = Err
          BY <4>2, <4>4
        <5> QED
          BY <1>2, <1>3, <1>6, <3>2, <4>4, <5>1 DEF ReadOption
      <4> QED
        BY <4>3, <4>4
    <3> QED
      BY <3>1, <3>2
  <2> HIDE DEF v
  <2> QED
    BY <1>1, <2>3, <2>4, KnownWidth
<1> QED
  BY <1>1, <1>4, <1>5, <1>6

LEMMA VLBytesOfCut ==
  ASSUME NEW s \in Seq(Octets), NEW m \in 0 .. Len(s), NEW mls \in BOOLEAN, mls => m <= MAX_MLS_LEN
  PROVE  Follows(VLBytesOfSlice(s, mls), s, VLBytesOfReader(Cut(s, m), mls), m)
<1> DEFINE cut == Cut(s, m)
           r == ReadVarInt(s, mls)
           c == ReadVarInt(cut, mls)
<1>1. /\ IsSequence(s) /\ Len(s) \in Nat
      /\ IsSequence(cut) /\ Len(cut) = m
  BY CutShape, OfItsElements
<1>2. Follows(r, s, c, m)
  BY VarIntOfCut
<1>3. MAX_MLS_LEN \in Int
  BY Numbers
<1>4. CASE r = Err
  <2>1. c = Err
    BY <1>2, <1>4 DEF Follows
  <2>2. VLBytesOfSlice(s, mls) = Err /\ VLBytesOfReader(cut, mls) = Err
    BY <1>4, <2>1 DEF VLBytesOfSlice, VLBytesOfReader, ReadLengthBytes, ReadLengthRead
  <2> QED
    BY <2>2 DEF Follows
<1>5. CASE r # Err
  <2>1. PICK w \in Widths, n \in Nat : w <= Len(s) /\ r = Decoded(n, Skip(s, w))
    BY <1>5, VarIntDecodes
  <2> DEFINE v == Cut(Skip(s, w), n)
  <2> HIDE DEF r, c, cut
  <2>2. w \in Nat /\ w \in 0 .. Len(s)
    BY <1>1, <2>1 DEF Widths
  <2>3. r[1].value = n /\ r[1].rest = Skip(s, w) /\ Took(r, s) = w
    BY <2>1, <2>2, TookOf
  <2>4. IsSequence(Skip(s, w)) /\ Len(Skip(s, w)) = Len(s) - w
    BY <1>1, <2>2, CutShape
  <2>5. VLBytesOfSlice(s, mls) = IF w + n <= Len(s) THEN Decoded(v, Skip(s, w + n)) ELSE Err
    <3>1. VLBytesOfSlice(s, mls) = IF Len(s) - w < n THEN Err ELSE Decoded(v, Skip(Skip(s, w), n))
      BY <1>5, <2>3, <2>4 DEF VLBytesOfSlice, ReadLengthBytes, r, Cut
    <3>2. w + n <= Len(s) => Skip(Skip(s, w), n) = Skip(s, w + n)
      BY <1>1, <2>2, SkipTwice
    <3>3. Len(s) - w < n <=> ~(w + n <= Len(s))
      BY <1>1, <2>2
    <3> QED
      BY <3>1, <3>2, <3>3
  <2>6. CASE w > m
    <3>1. c = Err
      BY <1>2, <2>3, <2>6 DEF Follows
    <3>2. VLBytesOfReader(cut, mls) = Err
      BY <3>1 DEF VLBytesOfReader, ReadLengthRead, c
    <3>3. VLBytesOfReader(cut, mls) = IF w + n <= m THEN Decoded(v, Skip(cut, w + n)) ELSE Err
      BY <2>2, <2>6, <3>2
    <3> QED
      BY <1>1, <2>2, <2>5, <3>3, KnownWidth DEF cut
  <2>7. CASE w <= m
    <3>1. c # Err /\ c[1].value = n /\ c[1].rest = Skip(cut, w)
      BY <1>2, <1>5, <2>2, <2>3, <2>7 DEF Follows, cut
    <3>2. w \in 0 .. m /\ m - w \in 0 .. Len(s) - w
      BY <2>2, <2>7
    <3>3. /\ Skip(cut, w) = Cut(Skip(s, w), m - w)
          /\ IsSequence(Skip(cut, w)) /\ Len(Skip(cut, w)) = m - w
      BY <1>1, <3>2, SkipOfCut, CutShape DEF cut
    <3>4. VLBytesOfReader(cut, mls) =
            IF mls /\ n > MAX_MLS_LEN THEN Err ELSE read_bytes_bounded(Skip(cut, w), n)
      <4>1. ReadLengthRead(cut, mls) = IF mls /\ n > MAX_MLS_LEN THEN Err ELSE c
        BY <3>1 DEF ReadLengthRead, new, c, Ok, Err
      <4> QED
        BY <3>1, <4>1 DEF VLBytesOfReader
    <3>5. read_bytes_bounded(Skip(cut, w), n) = IF w + n <= m THEN Decoded(v, Skip(cut, w + n)) ELSE Err
      <4>1. read_bytes_bounded(Skip(cut, w), n) =
              IF n <= m - w THEN Decoded(Cut(Skip(cut, w), n), Skip(Skip(cut, w), n)) ELSE Err
        BY <3>3, BoundedReads
      <4>2. n <= m - w => Skip(Skip(cut, w), n) = Skip(cut, w + n)
        BY <1>1, <2>2, SkipTwice
      <4>3. n <= m - w => Cut(Skip(cut, w), n) = v
        BY <2>4, <3>2, <3>3, CutOfCut
      <4>4. n <= m - w <=> w + n <= m
        BY <2>2
      <4> QED
        BY <4>1, <4>2, <4>3, <4>4
    <3>6. mls /\ n > MAX_MLS_LEN => ~(w + n <= m)
      BY <1>3, <2>2
    <3>7. VLBytesOfReader(cut, mls) = IF w + n <= m THEN Decoded(v, Skip(cut, w + n)) ELSE Err
      BY <3>4, <3>5, <3>6
    <3> QED
      BY <1>1, <2>2, <2>5, <3>7, KnownWidth DEF cut
  <2> QED
    BY <2>2, <2>6, <2>7
<1> QED
  BY <1>4, <1>5

LEMMA VLBytesDecodes ==
  ASSUME NEW s \in Seq(Octets), NEW mls \in BOOLEAN
  PROVE  Decodes(VLBytesOfSlice(s, mls), s) /\ Decodes(VLBytesOfReader(s, mls), s)
<1> DEFINE r == ReadVarInt(s, mls)
<1>1. IsSequence(s) /\ Len(s) \in Nat
  BY OfItsElements
<1>2. CASE r = Err
  BY <1>2 DEF VLBytesOfSlice, VLBytesOfReader, ReadLengthBytes, ReadLengthRead, Decodes
<1>3. CASE r # Err
  <2>1. PICK w \in Widths, n \in Nat : w <= Len(s) /\ r = Decoded(n, Skip(s, w))
    BY <1>3, VarIntDecodes
  <2> HIDE DEF r
  <2>2. w \in Nat /\ w \in 0 .. Len(s)
    BY <1>1, <2>1 DEF Widths
  <2>3. r[1].value = n /\ r[1].rest = Skip(s, w)
    BY <2>1, <2>2, TookOf
  <2>4. IsSequence(Skip(s, w)) /\ Len(Skip(s, w)) = Len(s) - w
    BY <1>1, <2>2, CutShape
  <2>5. \A v : n <= Len(s) - w => Decodes(Decoded(v, Skip(Skip(s, w), n)), s)
    <3>1. n <= Len(s) - w => Skip(Skip(s, w), n) = Skip(s, w + n) /\ w + n \in 0 .. Len(s)
      BY <1>1, <2>2, SkipTwice
    <3> QED
      BY <1>1, <3>1, TookOf
  <2>6. Decodes(Err, s)
    BY DEF Decodes
  <2>7. Decodes(VLBytesOfSlice(s, mls), s)
    <3>1. VLBytesOfSlice(s, mls) =
            IF Len(s) - w < n THEN Err ELSE Decoded(SubSeq(Skip(s, w), 1, n), Skip(Skip(s, w), n))
      BY <1>3, <2>3, <2>4 DEF VLBytesOfSlice, ReadLengthBytes, r
    <3>2. ~(Len(s) - w < n) => n <= Len(s) - w
      BY <1>1, <2>2
    <3> QED
      BY <2>5, <2>6, <3>1, <3>2
  <2>8. Decodes(VLBytesOfReader(s, mls), s)
    <3>1. \/ VLBytesOfReader(s, mls) = Err
          \/ VLBytesOfReader(s, mls) = read_bytes_bounded(Skip(s, w), n)
      BY <1>3, <2>3 DEF VLBytesOfReader, ReadLengthRead, r
    <3>2. read_bytes_bounded(Skip(s, w), n) =
            IF n <= Len(s) - w THEN Decoded(Cut(Skip(s, w), n), Skip(Skip(s, w), n)) ELSE Err
      BY <2>4, BoundedReads
    <3> QED
      BY <2>5, <2>6, <3>1, <3>2
  <2> QED
    BY <2>7, <2>8
<1> QED
  BY <1>2, <1>3

--------------------------------------------------------------------------------
(* An element of any kind, read from a slice and from a reader that ends   *)
(* within it: the reader gives the same where it can, and an error where   *)
(* the element would go on behind the end.                                 *)
LEMMA LimitedReads ==
  ASSUME NEW kind \in Kinds, NEW s \in Seq(Octets), NEW m \in 0 .. Len(s),
         NEW mls \in BOOLEAN, mls => m <= MAX_MLS_LEN
  PROVE  Follows(Read(kind, "bytes", s, mls), s, Read(kind, "read", Cut(s, m), mls), m)
<1>1. IsSequence(s) /\ Len(s) \in Nat
  BY OfItsElements
<1>2. CASE kind = "u8"
  BY <1>1, <1>2, UnsignedOfCut DEF Read
<1>3. CASE kind = "u16"
  BY <1>1, <1>3, UnsignedOfCut DEF Read
<1>4. CASE kind = "unit"
  <2>1. Skip(s, 0) = s /\ Skip(Cut(s, m), 0) = Cut(s, m)
    BY Cuts DEF Skip
  <2>2. /\ Read(kind, "bytes", s, mls) = IF 0 <= Len(s) THEN Decoded("()", Skip(s, 0)) ELSE Err
        /\ Read(kind, "read", Cut(s, m), mls) = IF 0 <= m THEN Decoded("()", Skip(Cut(s, m), 0)) ELSE Err
    BY <1>1, <1>4, <2>1 DEF Read
  <2> QED
    BY <1>1, <2>2, KnownWidth
<1>5. CASE kind = "option"
  BY <1>5, OptionOfCut DEF Read
<1>6. CASE kind = "VLBytes"
  BY <1>6, VLBytesOfCut DEF Read
<1> QED
  BY <1>2, <1>3, <1>4, <1>5, <1>6 DEF Kinds

LEMMA ElementDecodes ==
  ASSUME NEW kind \in Kinds, NEW p \in Paths, NEW s \in Seq(Octets), NEW mls \in BOOLEAN
  PROVE  Decodes(Read(kind, p, s, mls), s)
<1>1. IsSequence(s) /\ Len(s) \in Nat /\ 0 \in 0 .. Len(s)
  BY OfItsElements
<1>2. CASE kind = "u8"
  BY <1>1, <1>2, UnsignedOfCut DEF Read
<1>3. CASE kind = "u16"
  BY <1>1, <1>3, UnsignedOfCut DEF Read
<1>4. CASE kind = "unit"
  <2>1. Skip(s, 0) = s
    BY DEF Skip
  <2> QED
    BY <1>1, <1>4, <2>1 DEF Read, Decodes, Decoded, Ok
<1>5. CASE kind = "option"
  BY <1>1, <1>5, OptionOfCut DEF Read
<1>6. CASE kind = "VLBytes"
  BY <1>6, VLBytesDecodes DEF Read
<1> QED
  BY <1>2, <1>3, <1>4, <1>5, <1>6 DEF Kinds

--------------------------------------------------------------------------------
(* What is written is octets.                                              *)
LEMMA UnsignedWrites ==
  ASSUME NEW n \in Nat, NEW v \in Nat
  PROVE  WriteUnsigned(n, v) \in Seq(Octets)
<1>1. ASSUME NEW i \in 1 .. n PROVE (v \div Weight(n - i)) % ByteBase \in Octets
  <2>1. Weight(n - i) \in Nat \ {0}
    BY Weights
  <2>2. v \div Weight(n - i) \in Nat
    BY <2>1
  <2> QED
    BY <2>2, Numbers DEF Octets
<1> QED
  BY <1>1 DEF WriteUnsigned

LEMMA Quotients ==
  ASSUME NEW v \in Nat, NEW p \in Nat \ {0}, NEW f \in Nat, v < f * p
  PROVE  v \div p \in Nat /\ v \div p < f
  BY SMT

--------------------------------------------------------------------------------
(* Numbers and their octets.                                               *)

LEMMA ShiftsAgree ==
  ASSUME NEW first \in Nat, NEW s \in Seq(Nat), NEW t \in Seq(Nat), Len(s) <= Len(t),
         \A i \in 1 .. Len(s) : s[i] = t[i],
         NEW v, NEW u, Shifts(first, s, v), Shifts(first, t, u)
  PROVE  v[Len(s)] = u[Len(s)]
<1> DEFINE Same == {k \in Nat : k <= Len(s) => v[k] = u[k]}
<1>1. Len(s) \in Nat /\ Len(t) \in Nat
  OBVIOUS
<1>2. 0 \in Same
  BY <1>1 DEF Shifts
<1>3. ASSUME NEW k \in Same PROVE k + 1 \in Same
  <2> SUFFICES ASSUME k + 1 <= Len(s) PROVE v[k + 1] = u[k + 1]
    OBVIOUS
  <2>1. v[k] = u[k] /\ k + 1 \in 0 .. Len(s) /\ k + 1 \in 0 .. Len(t) /\ k + 1 # 0 /\ k + 1 - 1 = k
        /\ s[k + 1] = t[k + 1]
    BY <1>1
  <2>2. v[k + 1] = v[k] * ByteBase + s[k + 1]
    BY <2>1 DEF Shifts
  <2>3. u[k + 1] = u[k] * ByteBase + t[k + 1]
    BY <2>1 DEF Shifts
  <2> QED
    BY <2>1, <2>2, <2>3
<1> HIDE DEF Same
<1>4. Same \in SUBSET Nat
  BY DEF Same
<1>5. Same = Nat
  BY <1>2, <1>3, <1>4, Induction
<1> QED
  BY <1>1, <1>5 DEF Same

LEMMA BigEndianOfNone ==
  ASSUME NEW first \in Nat
  PROVE  BigEndian(first, <<>>) = first
<1>1. PICK v : Shifts(first, <<>>, v) /\ BigEndian(first, <<>>) = v[Len(<<>>)]
  <2>1. <<>> \in Seq(Nat)
    OBVIOUS
  <2> QED
    BY <2>1, BigEndianShifts
<1> QED
  BY <1>1 DEF Shifts

LEMMA BigEndianOfMore ==
  ASSUME NEW first \in Nat, NEW s \in Seq(Nat), NEW t \in Seq(Nat), Len(t) = Len(s) + 1,
         \A i \in 1 .. Len(s) : t[i] = s[i]
  PROVE  BigEndian(first, t) = BigEndian(first, s) * ByteBase + t[Len(t)]
<1> DEFINE n == Len(s)
<1>1. n \in Nat /\ Len(s) = n /\ Len(t) = n + 1
  OBVIOUS
<1> HIDE DEF n
<1>2. PICK v : Shifts(first, s, v) /\ BigEndian(first, s) = v[n]
  BY <1>1, BigEndianShifts
<1>3. PICK u : Shifts(first, t, u) /\ BigEndian(first, t) = u[n + 1]
  BY <1>1, BigEndianShifts
<1>4. v[n] = u[n]
  BY <1>1, <1>2, <1>3, ShiftsAgree
<1>6. u[n + 1] = u[n] * ByteBase + t[n + 1]
  <2> DEFINE m == n + 1
  <2>1. m \in 0 .. Len(t) /\ m # 0 /\ m - 1 = n
    BY <1>1
  <2> HIDE DEF m
  <2>2. u[m] = u[m - 1] * ByteBase + t[m]
    BY <1>3, <2>1 DEF Shifts
  <2> QED
    BY <2>1, <2>2 DEF m
<1> QED
  BY <1>1, <1>2, <1>3, <1>4, <1>6

LEMMA WeightOfMore ==
  ASSUME NEW n \in Nat
  PROVE  Weight(n + 1) = Weight(n) * ByteBase
<1> DEFINE zeros == [i \in 1 .. n |-> 0]
           more == [i \in 1 .. n + 1 |-> 0]
<1>1. zeros \in Seq(Nat) /\ more \in Seq(Nat) /\ Len(zeros) = n /\ Len(more) = n + 1
      /\ (\A i \in 1 .. n : more[i] = zeros[i]) /\ more[n + 1] = 0
  OBVIOUS
<1>2. Weight(n + 1) = BigEndian(1, more) /\ Weight(n) = BigEndian(1, zeros)
  BY DEF Weight
<1> HIDE DEF zeros, more
<1>3. BigEndian(1, more) = BigEndian(1, zeros) * ByteBase + 0
  BY <1>1, BigEndianOfMore
<1>4. BigEndian(1, zeros) \in Nat
  BY <1>1, BigEndianIsNatural
<1> QED
  BY <1>2, <1>3, <1>4, Numbers

LEMMA FirstWeights == Weight(0) = 1 /\ Weight(1) = ByteBase
<1>1. Weight(0) = 1
  <2>1. [i \in 1 .. 0 |-> 0] = <<>>
    OBVIOUS
  <2> QED
    BY <2>1, BigEndianOfNone DEF Weight
<1>2. Weight(0 + 1) = Weight(0) * ByteBase
  BY WeightOfMore
<1> QED
  BY <1>1, <1>2, Numbers

(* Dividing by the weight of one octet more.                               *)
LEMMA DividedByMore ==
  ASSUME NEW a \in Nat, NEW n \in Nat
  PROVE  a \div Weight(n + 1) = (a \div Weight(n)) \div ByteBase
<1>1. Weight(n) \in Nat \ {0} /\ ByteBase \in Nat \ {0}
  BY Weights, Numbers
<1>2. a \div (Weight(n) * ByteBase) = (a \div Weight(n)) \div ByteBase
  BY <1>1, DividedTwice
<1> QED
  BY <1>2, WeightOfMore

LEMMA DividedByOne ==
  ASSUME NEW a \in Nat
  PROVE  a \div Weight(0) = a
<1>1. a \div 1 = a
  OBVIOUS
<1> QED
  BY <1>1, FirstWeights

(* The octets behind the first are the digits of the number.               *)
LEMMA LastDigit ==
  ASSUME NEW f \in Nat, NEW s \in Seq(Octets), NEW k \in 1 .. Len(s)
  PROVE  /\ BigEndian(f, Cut(s, k)) \in Nat
         /\ BigEndian(f, Cut(s, k)) \div ByteBase = BigEndian(f, Cut(s, k - 1))
         /\ BigEndian(f, Cut(s, k)) % ByteBase = s[k]
<1> DEFINE whole == Cut(s, k)
           less == Cut(s, k - 1)
           b == BigEndian(f, less)
<1>1. k \in 0 .. Len(s) /\ k - 1 \in 0 .. Len(s) /\ k \in 1 .. k /\ s[k] \in Octets
  OBVIOUS
<1>2. /\ whole \in Seq(Octets) /\ Len(whole) = k /\ \A i \in 1 .. k : whole[i] = s[i]
      /\ less \in Seq(Octets) /\ Len(less) = k - 1 /\ \A i \in 1 .. k - 1 : less[i] = s[i]
  BY <1>1, Cuts
<1> HIDE DEF whole, less
<1>3. whole \in Seq(Nat) /\ less \in Seq(Nat)
  BY <1>2, Numbers, OfMore
<1>4. BigEndian(f, whole) = b * ByteBase + s[k]
  <2>1. Len(whole) = Len(less) + 1 /\ \A i \in 1 .. Len(less) : whole[i] = less[i]
    BY <1>2
  <2>2. BigEndian(f, whole) = BigEndian(f, less) * ByteBase + whole[Len(whole)]
    BY <1>3, <2>1, BigEndianOfMore
  <2> QED
    BY <1>1, <1>2, <2>2
<1>5. b \in Nat /\ BigEndian(f, whole) \in Nat
  BY <1>3, BigEndianIsNatural
<1>6. s[k] \in 0 .. ByteBase - 1 /\ ByteBase \in Nat \ {0}
  BY <1>1, Numbers DEF Octets
<1> HIDE DEF b
<1>7. (b * ByteBase + s[k]) \div ByteBase = b /\ (b * ByteBase + s[k]) % ByteBase = s[k]
  BY <1>5, <1>6, QuotientIs
<1> QED
  BY <1>4, <1>5, <1>7 DEF b, whole, less

LEMMA ReadDigits ==
  ASSUME NEW f \in Nat, NEW s \in Seq(Octets), NEW k \in 0 .. Len(s)
  PROVE  BigEndian(f, s) \div Weight(Len(s) - k) = BigEndian(f, Cut(s, k))
<1> DEFINE n == Len(s)
           a == BigEndian(f, s)
           Good == {j \in Nat : j <= n => a \div Weight(j) = BigEndian(f, Cut(s, n - j))}
<1>1. n \in Nat /\ IsSequence(s)
  BY OfItsElements
<1>2. a \in Nat
  BY OfMore, Numbers, BigEndianIsNatural
<1>3. 0 \in Good
  <2>1. Cut(s, n - 0) = s
    BY <1>1, WholeSegment DEF Cut
  <2> QED
    BY <1>2, <2>1, DividedByOne
<1>4. ASSUME NEW j \in Good PROVE j + 1 \in Good
  <2> SUFFICES ASSUME j + 1 <= n PROVE a \div Weight(j + 1) = BigEndian(f, Cut(s, n - (j + 1)))
    OBVIOUS
  <2> DEFINE m == n - j
  <2>1. j \in Nat /\ m \in 1 .. Len(s) /\ m - 1 = n - (j + 1) /\ j <= n
    BY <1>1
  <2>2. a \div Weight(j) = BigEndian(f, Cut(s, m))
    BY <2>1
  <2> HIDE DEF m, n, a
  <2>3. BigEndian(f, Cut(s, m)) \div ByteBase = BigEndian(f, Cut(s, m - 1))
    BY <2>1, LastDigit
  <2>4. a \div Weight(j + 1) = (a \div Weight(j)) \div ByteBase
    BY <1>2, <2>1, DividedByMore
  <2> QED
    BY <2>1, <2>2, <2>3, <2>4
<1>5. Good = Nat
  <2> HIDE DEF Good
  <2>1. Good \in SUBSET Nat
    BY DEF Good
  <2> QED
    BY <1>3, <1>4, <2>1, Induction
<1> DEFINE j == n - k
<1>6. j \in Nat /\ j <= n /\ n - j = k
  BY <1>1
<1> HIDE DEF a
<1>7. a \div Weight(j) = BigEndian(f, Cut(s, n - j))
  <2> HIDE DEF j
  <2> QED
    BY <1>5, <1>6
<1> QED
  BY <1>6, <1>7 DEF a

(* A number is that of its digits.                                         *)
Digits(a, m, k) == [i \in 1 .. k |-> (a \div Weight(m - i)) % ByteBase]

LEMMA DigitsAre ==
  ASSUME NEW a \in Nat, NEW m \in Nat, NEW k \in 0 .. m
  PROVE  Digits(a, m, k) \in Seq(Octets) /\ Digits(a, m, k) \in Seq(Nat) /\ Len(Digits(a, m, k)) = k
<1>1. ASSUME NEW i \in 1 .. k PROVE (a \div Weight(m - i)) % ByteBase \in Octets
  <2> DEFINE q == a \div Weight(m - i)
  <2>1. Weight(m - i) \in Nat \ {0}
    <3>1. m - i \in Nat
      OBVIOUS
    <3> QED
      BY <3>1, Weights
  <2>2. q \in Nat
    BY <2>1
  <2> HIDE DEF q
  <2>3. q % ByteBase \in Octets
    BY <2>2, Numbers DEF Octets
  <2> QED
    BY <2>3 DEF q
<1>2. Digits(a, m, k) \in Seq(Octets) /\ Len(Digits(a, m, k)) = k
  BY <1>1 DEF Digits
<1> QED
  BY <1>2, Numbers, OfMore

LEMMA WrittenDigits ==
  ASSUME NEW a \in Nat, NEW m \in Nat
  PROVE  BigEndian(a \div Weight(m), Digits(a, m, m)) = a
<1> DEFINE f == a \div Weight(m)
           Good == {k \in Nat : k <= m => BigEndian(f, Digits(a, m, k)) = a \div Weight(m - k)}
<1>1. f \in Nat
  BY Weights
<1>2. 0 \in Good
  <2>1. Digits(a, m, 0) = <<>>
    BY DEF Digits
  <2>2. BigEndian(f, <<>>) = f
    <3> HIDE DEF f
    <3> QED
      BY <1>1, BigEndianOfNone
  <2> QED
    BY <2>1, <2>2
<1> HIDE DEF f
<1>3. ASSUME NEW k \in Good PROVE k + 1 \in Good
  <2> SUFFICES ASSUME k + 1 <= m PROVE BigEndian(f, Digits(a, m, k + 1)) = a \div Weight(m - (k + 1))
    OBVIOUS
  <2> DEFINE n == m - (k + 1)
             q == a \div Weight(n)
             s == Digits(a, m, k)
             t == Digits(a, m, k + 1)
  <2>1. k \in Nat /\ k <= m /\ n \in Nat /\ n + 1 = m - k /\ k \in 0 .. m /\ k + 1 \in 0 .. m
    OBVIOUS
  <2>2. BigEndian(f, s) = a \div Weight(n + 1)
    BY <2>1
  <2>3. s \in Seq(Nat) /\ Len(s) = k /\ t \in Seq(Nat) /\ Len(t) = k + 1
    BY <2>1, DigitsAre, ZenonT(60)
  <2>4. t[k + 1] = q % ByteBase /\ \A i \in 1 .. k : t[i] = s[i]
    BY <2>1 DEF Digits
  <2> HIDE DEF s, t, n
  <2>5. BigEndian(f, t) = BigEndian(f, s) * ByteBase + t[k + 1]
    <3>1. Len(t) = Len(s) + 1 /\ \A i \in 1 .. Len(s) : t[i] = s[i]
      BY <2>3, <2>4
    <3>2. BigEndian(f, t) = BigEndian(f, s) * ByteBase + t[Len(t)]
      BY <1>1, <2>3, <3>1, BigEndianOfMore
    <3> QED
      BY <2>3, <3>2
  <2>6. a \div Weight(n + 1) = q \div ByteBase
    BY <2>1, DividedByMore
  <2>7. q \in Nat
    <3>1. Weight(n) \in Nat \ {0}
      BY <2>1, Weights
    <3> QED
      BY <3>1
  <2> HIDE DEF q
  <2>8. q = (q \div ByteBase) * ByteBase + (q % ByteBase)
    BY <2>7, Numbers, Divided, ZenonT(60)
  <2>9. BigEndian(f, t) = q
    BY <2>2, <2>4, <2>5, <2>6, <2>8
  <2> QED
    BY <2>9 DEF t, q, n
<1>4. Good = Nat
  <2> HIDE DEF Good
  <2>1. Good \in SUBSET Nat
    BY DEF Good
  <2> QED
    BY <1>2, <1>3, <2>1, Induction
<1>5. BigEndian(f, Digits(a, m, m)) = a \div Weight(m - m)
  BY <1>4
<1>6. m - m = 0
  OBVIOUS
<1> QED
  BY <1>5, <1>6, DividedByOne DEF f

(* An unsigned integer of n octets.                                        *)
LEMMA UnsignedBack ==
  ASSUME NEW n \in Nat, NEW a \in Nat, a < Weight(n)
  PROVE  BigEndian(0, WriteUnsigned(n, a)) = a
<1>1. a \div Weight(n) = 0
  <2> DEFINE w == Weight(n)
  <2>1. w \in Nat \ {0} /\ a \in 0 .. w - 1
    BY Weights
  <2> HIDE DEF w
  <2>2. (0 * w + a) \div w = 0
    BY <2>1, QuotientIs
  <2>3. 0 * w + a = a
    BY <2>1
  <2> QED
    BY <2>2, <2>3 DEF w
<1>2. WriteUnsigned(n, a) = Digits(a, n, n)
  BY DEF WriteUnsigned, Digits
<1> QED
  BY <1>1, <1>2, WrittenDigits

LEMMA UnsignedUnique ==
  ASSUME NEW s \in Seq(Octets)
  PROVE  WriteUnsigned(Len(s), BigEndian(0, s)) = s
<1> DEFINE n == Len(s)
           a == BigEndian(0, s)
<1>0. s \in Seq(Nat)
  BY OfMore, Numbers
<1>1. n \in Nat /\ a \in Nat
  BY <1>0, BigEndianIsNatural
<1>2. ASSUME NEW i \in 1 .. n PROVE (a \div Weight(n - i)) % ByteBase = s[i]
  <2>1. a \div Weight(n - i) = BigEndian(0, Cut(s, i))
    BY ReadDigits
  <2> QED
    BY <2>1, LastDigit
<1> HIDE DEF n, a
<1>3. IsSequence(WriteUnsigned(n, a)) /\ Len(WriteUnsigned(n, a)) = n
  <2>1. WriteUnsigned(n, a) \in Seq(Octets)
    BY <1>1, UnsignedWrites
  <2>2. Len(WriteUnsigned(n, a)) = n
    BY <1>1 DEF WriteUnsigned
  <2> QED
    BY <2>1, <2>2, OfItsElements
<1>4. \A i \in 1 .. n : WriteUnsigned(n, a)[i] = s[i]
  BY <1>2 DEF WriteUnsigned
<1>5. IsSequence(s) /\ Len(s) = n
  BY OfItsElements DEF n
<1>6. WriteUnsigned(n, a) = s
  BY <1>3, <1>4, <1>5, SequencesEqual
<1> QED
  BY <1>6 DEF n, a

--------------------------------------------------------------------------------
(* Variable-length integers.                                               *)
LEMMA WidthIs ==
  ASSUME NEW a \in Nat, NEW w \in Widths, a < Room(w)
  PROVE  /\ bytes_len(a) \in Widths /\ a < Room(bytes_len(a))
         /\ \A x \in Widths : a < Room(x) => bytes_len(a) <= x
<1>1. \E n \in Widths : a < Room(n) /\ \A x \in Widths : a < Room(x) => n <= x
  <2>1. CASE a < Room(1)
    BY <2>1 DEF Widths
  <2>2. CASE ~(a < Room(1)) /\ a < Room(2)
    BY <2>2 DEF Widths
  <2>3. CASE ~(a < Room(1)) /\ ~(a < Room(2)) /\ a < Room(4)
    BY <2>3 DEF Widths
  <2>4. CASE ~(a < Room(1)) /\ ~(a < Room(2)) /\ ~(a < Room(4))
    BY <2>4 DEF Widths
  <2> QED
    BY <2>1, <2>2, <2>3, <2>4
<1> QED
  BY <1>1 DEF bytes_len

LEMMA Rooms ==
  /\ \A w \in Widths : w \in Nat \ {0} /\ Room(w) \in Nat \ {0} /\ Room(w) <= Room(8)
  /\ ByteBase - 1 <= MAX_MLS_LEN /\ MAX_MLS_LEN <= MAX
  /\ MAX_MLS_LEN \in Nat /\ MAX \in Nat
<1>1. ASSUME NEW n \in Nat PROVE Weight(n) <= Weight(n + 1) /\ Weight(n) \in Nat \ {0}
  BY Weights, WeightOfMore, Multiplied, Numbers
<1>2. /\ Weight(0) <= Weight(1) /\ Weight(1) <= Weight(2) /\ Weight(2) <= Weight(3)
      /\ Weight(3) <= Weight(4) /\ Weight(4) <= Weight(5) /\ Weight(5) <= Weight(6) /\ Weight(6) <= Weight(7)
  <2>1. /\ Weight(0) <= Weight(0 + 1) /\ Weight(1) <= Weight(1 + 1) /\ Weight(2) <= Weight(2 + 1)
        /\ Weight(3) <= Weight(3 + 1) /\ Weight(4) <= Weight(4 + 1) /\ Weight(5) <= Weight(5 + 1)
        /\ Weight(6) <= Weight(6 + 1)
    BY <1>1
  <2> QED
    BY <2>1
<1>3. /\ Weight(0) \in Nat \ {0} /\ Weight(1) \in Nat \ {0} /\ Weight(2) \in Nat \ {0} /\ Weight(3) \in Nat \ {0}
      /\ Weight(4) \in Nat \ {0} /\ Weight(5) \in Nat \ {0} /\ Weight(6) \in Nat \ {0} /\ Weight(7) \in Nat \ {0}
  BY <1>1
<1>4. /\ Weight(0) <= Weight(7) /\ Weight(1) <= Weight(7) /\ Weight(3) <= Weight(7) /\ Weight(1) <= Weight(3)
  BY <1>2, <1>3
<1>5. ASSUME NEW a \in Nat \ {0}, NEW b \in Nat \ {0}, a <= b
      PROVE  /\ FirstBase * a \in Nat \ {0} /\ FirstBase * a <= FirstBase * b
             /\ a <= FirstBase * a
  <2>1. FirstBase \in Nat \ {0} /\ b - a \in Nat
    BY <1>5, Numbers
  <2>2. FirstBase * a \in Nat /\ FirstBase * (b - a) \in Nat /\ a * FirstBase \in Nat /\ a * FirstBase >= a
    BY <2>1, Multiplied
  <2>3. FirstBase * (b - a) = FirstBase * b - FirstBase * a /\ a * FirstBase = FirstBase * a
    BY <2>1
  <2>4. FirstBase * b \in Nat
    BY <2>1, Multiplied
  <2> QED
    BY <2>2, <2>3, <2>4
<1>6. /\ Room(1) = FirstBase * Weight(0) /\ Room(2) = FirstBase * Weight(1)
      /\ Room(4) = FirstBase * Weight(3) /\ Room(8) = FirstBase * Weight(7)
  BY DEF Room
<1>7. /\ Room(1) \in Nat \ {0} /\ Room(2) \in Nat \ {0} /\ Room(4) \in Nat \ {0} /\ Room(8) \in Nat \ {0}
      /\ Room(1) <= Room(8) /\ Room(2) <= Room(8) /\ Room(4) <= Room(8)
  BY <1>3, <1>4, <1>5, <1>6
<1>8. ByteBase <= Room(4)
  <2>1. Weight(3) <= FirstBase * Weight(3)
    BY <1>3, <1>5
  <2> QED
    BY <1>3, <1>4, <1>6, <1>7, <2>1, FirstWeights, Numbers
<1> QED
  BY <1>7, <1>8, Numbers DEF Widths, MAX, MAX_MLS_LEN

LEMMA Tags ==
  /\ \A w \in Widths : Tag(w) \in 0 .. 3 /\ 2 ^ Tag(w) = w
  /\ \A t \in 0 .. 3 : 2 ^ t \in Widths /\ Tag(2 ^ t) = t
<1>1. 2 ^ 0 = 1 /\ 2 ^ 1 = 2 /\ 2 ^ 2 = 4 /\ 2 ^ 3 = 8
  BY SMT
<1>2. \A t \in 0 .. 3 : t = 0 \/ t = 1 \/ t = 2 \/ t = 3
  OBVIOUS
<1>3. ASSUME NEW w \in Widths PROVE \E t \in 0 .. 3 : 2 ^ t = w
  BY <1>1 DEF Widths
<1>4. ASSUME NEW t \in 0 .. 3, NEW u \in 0 .. 3, 2 ^ t = 2 ^ u PROVE t = u
  <2>1. (t = 0 /\ 2 ^ t = 1) \/ (t = 1 /\ 2 ^ t = 2) \/ (t = 2 /\ 2 ^ t = 4) \/ (t = 3 /\ 2 ^ t = 8)
    BY <1>1, <1>2
  <2>2. (u = 0 /\ 2 ^ u = 1) \/ (u = 1 /\ 2 ^ u = 2) \/ (u = 2 /\ 2 ^ u = 4) \/ (u = 3 /\ 2 ^ u = 8)
    BY <1>1, <1>2
  <2> DEFINE x == 2 ^ t
             y == 2 ^ u
  <2>3. x = y
    BY <1>4
  <2> HIDE DEF x, y
  <2> QED
    BY <2>1, <2>2, <2>3 DEF x, y
<1>5. ASSUME NEW w \in Widths PROVE Tag(w) \in 0 .. 3 /\ 2 ^ Tag(w) = w
  BY <1>3 DEF Tag
<1>6. \A t \in 0 .. 3 : 2 ^ t \in Widths
  BY <1>1, <1>2 DEF Widths
<1> QED
  BY <1>4, <1>5, <1>6

(* The first octet holds the tag and the first of the digits.              *)
LEMMA TaggedOctet ==
  ASSUME NEW w \in Widths, NEW q \in 0 .. FirstBase - 1
  PROVE  /\ q + Tag(w) * FirstBase \in Octets
         /\ calculate_value(q + Tag(w) * FirstBase) = [value |-> q, len |-> w]
<1> DEFINE t == Tag(w)
           o == t * FirstBase + q
<1>1. t \in 0 .. 3 /\ 2 ^ t = w
  BY Tags
<1> HIDE DEF t
<1>2. FirstBase \in Nat \ {0} /\ ByteBase = 4 * FirstBase /\ t \in Nat
  BY <1>1, Numbers
<1>3. o \div FirstBase = t /\ o % FirstBase = q
  BY <1>2, QuotientIs
<1>4. q + t * FirstBase = o /\ o \in Octets
  <2>1. t * FirstBase \in 0 .. 3 * FirstBase
    BY <1>1, <1>2
  <2> QED
    BY <1>2, <2>1 DEF Octets
<1> HIDE DEF o
<1>5. calculate_value(o) = [value |-> q, len |-> w]
  BY <1>1, <1>3 DEF calculate_value
<1> QED
  BY <1>4, <1>5 DEF t

LEMMA LengthOctetsAre ==
  ASSUME NEW a \in Nat, NEW w \in Widths, w = bytes_len(a), a < Room(w)
  PROVE  /\ write_bytes(a) \in Seq(Octets) /\ Len(write_bytes(a)) = w
         /\ a \div Weight(w - 1) \in 0 .. FirstBase - 1
         /\ write_bytes(a)[1] = (a \div Weight(w - 1)) + Tag(w) * FirstBase
         /\ \A i \in 1 .. w - 1 : write_bytes(a)[i + 1] = (a \div Weight(w - 1 - i)) % ByteBase
<1>1. w \in Nat \ {0}
  BY DEF Widths
<1> DEFINE octet(i) == (a \div Weight(w - i)) % ByteBase
           q == a \div Weight(w - 1)
<1>2. write_bytes(a) = [i \in 1 .. w |-> octet(i) + (IF i = 1 THEN Tag(w) * FirstBase ELSE 0)]
  BY DEF write_bytes
<1>3. q \in 0 .. FirstBase - 1
  <2>1. Weight(w - 1) \in Nat \ {0} /\ a < FirstBase * Weight(w - 1)
    BY <1>1, Weights DEF Room
  <2> QED
    BY <2>1, Numbers, Quotients
<1>4. octet(1) = q
  <2>1. q % ByteBase = q
    <3> HIDE DEF q
    <3> QED
      BY <1>3, Numbers
  <2> QED
    BY <2>1
<1>5. ASSUME NEW i \in 1 .. w PROVE octet(i) \in Octets
  <2> DEFINE p == a \div Weight(w - i)
  <2>1. Weight(w - i) \in Nat \ {0}
    <3>1. w - i \in Nat
      BY <1>1
    <3> QED
      BY <3>1, Weights
  <2>2. p \in Nat
    BY <2>1
  <2> HIDE DEF p
  <2>3. p % ByteBase \in Octets
    BY <2>2, Numbers DEF Octets
  <2> QED
    BY <2>3 DEF p
<1>6. q + Tag(w) * FirstBase \in Octets
  <2> HIDE DEF q
  <2> QED
    BY <1>3, TaggedOctet
<1>7. ASSUME NEW i \in 1 .. w - 1 PROVE octet(i + 1) = (a \div Weight(w - 1 - i)) % ByteBase
  <2>1. w - (i + 1) = w - 1 - i
    BY <1>1
  <2> QED
    BY <2>1
<1> HIDE DEF octet, q
<1>8. ASSUME NEW i \in 1 .. w
      PROVE  write_bytes(a)[i] = IF i = 1 THEN q + Tag(w) * FirstBase ELSE octet(i)
  <2> DEFINE o == octet(i)
  <2>0. o \in Octets
    BY <1>5
  <2> HIDE DEF o
  <2>1. o \in Nat /\ o + 0 = o
    BY <2>0, Numbers
  <2>2. write_bytes(a)[i] = octet(i) + (IF i = 1 THEN Tag(w) * FirstBase ELSE 0)
    BY <1>2
  <2>3. CASE i = 1
    BY <1>4, <2>2, <2>3
  <2>4. CASE i # 1
    BY <2>1, <2>2, <2>4 DEF o
  <2> QED
    BY <2>3, <2>4
<1>9. write_bytes(a) = [i \in 1 .. w |-> IF i = 1 THEN q + Tag(w) * FirstBase ELSE octet(i)]
  BY <1>2, <1>8
<1>10. write_bytes(a) \in Seq(Octets) /\ Len(write_bytes(a)) = w
  BY <1>1, <1>5, <1>6, <1>9
<1> QED
  BY <1>1, <1>3, <1>7, <1>8, <1>10 DEF q

(* What is written for a number is read as that number.                    *)
LEMMA VarIntBack ==
  ASSUME NEW a \in Nat, a <= MAX, NEW tail \in Seq(Octets), NEW mls \in BOOLEAN
  PROVE  /\ bytes_len(a) \in Widths /\ write_bytes(a) \in Seq(Octets) /\ Len(write_bytes(a)) = bytes_len(a)
         /\ ReadVarInt(write_bytes(a) \o tail, mls) = Decoded(a, tail)
<1> DEFINE w == bytes_len(a)
           out == write_bytes(a)
           s == out \o tail
           q == a \div Weight(w - 1)
           digits == Digits(a, w - 1, w - 1)
<1>1. w \in Widths /\ a < Room(w)
  <2>1. 8 \in Widths /\ a < Room(8)
    BY Rooms DEF MAX, Widths
  <2> QED
    BY <2>1, WidthIs
<1>2. w \in Nat \ {0} /\ w - 1 \in Nat
  BY <1>1, Rooms
<1>3. /\ out \in Seq(Octets) /\ Len(out) = w
      /\ q \in 0 .. FirstBase - 1 /\ out[1] = q + Tag(w) * FirstBase
      /\ \A i \in 1 .. w - 1 : out[i + 1] = (a \div Weight(w - 1 - i)) % ByteBase
  BY <1>1, LengthOctetsAre
<1>4. calculate_value(out[1]) = [value |-> q, len |-> w]
  <2> HIDE DEF w, out, q
  <2> QED
    BY <1>1, <1>3, TaggedOctet
<1>5. BigEndian(q, digits) = a
  <2> HIDE DEF w
  <2> QED
    BY <1>2, WrittenDigits
<1>6. IsSequence(digits) /\ Len(digits) = w - 1 /\ \A i \in 1 .. w - 1 : digits[i] = (a \div Weight(w - 1 - i)) % ByteBase
  <2>1. w - 1 \in 0 .. w - 1
    BY <1>2
  <2> HIDE DEF w
  <2>2. digits \in Seq(Octets) /\ Len(digits) = w - 1
    BY <1>2, <2>1, DigitsAre
  <2> QED
    BY <1>2, <2>2, OfItsElements DEF Digits
<1>e. w = bytes_len(a)
  OBVIOUS
<1> HIDE DEF w, out, q, digits
<1>7. IsSequence(out) /\ IsSequence(tail) /\ Len(tail) \in Nat
  BY <1>3, OfItsElements
<1>8. /\ IsSequence(s) /\ Len(s) = w + Len(tail)
      /\ \A i \in 1 .. w : s[i] = out[i]
      /\ \A i \in 1 .. Len(tail) : s[w + i] = tail[i]
  BY <1>3, <1>7, ConcatFacts, SMTT(30)
<1>9. s # <<>> /\ s[1] = out[1] /\ ~(Len(s) < w)
  BY <1>2, <1>7, <1>8, SequenceShape
<1> HIDE DEF s
<1>10. SubSeq(s, 2, w) = digits
  <2> DEFINE p == 1
  <2>1. p \in Nat /\ w \in Nat /\ p <= w /\ w <= Len(s)
    BY <1>2, <1>7, <1>8
  <2>e. p = 1 /\ p + 1 = 2
    OBVIOUS
  <2> HIDE DEF p
  <2>2. IsSequence(SubSeq(s, p + 1, w)) /\ Len(SubSeq(s, p + 1, w)) = w - p
        /\ \A i \in 1 .. w - p : SubSeq(s, p + 1, w)[i] = s[p + i]
    BY <1>8, <2>1, SegmentFacts
  <2>3. ASSUME NEW i \in 1 .. w - 1 PROVE SubSeq(s, p + 1, w)[i] = digits[i]
    <3>1. i + 1 \in 1 .. w /\ p + i = i + 1 /\ i \in 1 .. w - p
      BY <1>2, <2>e
    <3> QED
      BY <1>3, <1>6, <1>8, <2>2, <3>1, ZenonT(60)
  <2>4. SubSeq(s, p + 1, w) = digits
    BY <1>6, <2>2, <2>3, <2>e, SequencesEqual
  <2> QED
    BY <2>4, <2>e
<1>11. Skip(s, w) = tail
  <2>1. w \in 0 .. Len(s)
    BY <1>2, <1>7, <1>8
  <2>2. IsSequence(Skip(s, w)) /\ Len(Skip(s, w)) = Len(tail)
    BY <1>7, <1>8, <2>1, CutShape
  <2>3. \A i \in 1 .. Len(s) - w : Skip(s, w)[i] = s[w + i]
    <3> DEFINE S == Elements(s)
    <3>1. s \in Seq(S)
      BY <1>8 DEF IsSequence
    <3> HIDE DEF S
    <3> QED
      BY <2>1, <3>1, Skips
  <2>4. \A i \in 1 .. Len(tail) : Skip(s, w)[i] = tail[i]
    BY <1>2, <1>7, <1>8, <2>3
  <2> QED
    BY <1>7, <2>2, <2>4, SequencesEqual
<1>12. check_min_len(a, w, mls)
  BY <1>e DEF check_min_len
<1>13. ReadVarInt(s, mls) = Decoded(a, tail)
  <2>1. calculate_value(s[1]).value = q /\ calculate_value(s[1]).len = w
    BY <1>4, <1>9
  <2> QED
    BY <1>5, <1>9, <1>10, <1>11, <1>12, <2>1 DEF ReadVarInt
<1> QED
  BY <1>1, <1>3, <1>13, <1>e DEF s, out

(* Where lengths must be minimal, a number is read only from the octets    *)
(* that are written for it.                                                *)
LEMMA VarIntUnique ==
  ASSUME NEW s \in Seq(Octets), ReadVarInt(s, TRUE) # Err
  PROVE  \E w \in Widths, v \in Nat :
           /\ w <= Len(s) /\ ReadVarInt(s, TRUE) = Decoded(v, Skip(s, w))
           /\ v <= MAX /\ bytes_len(v) = w /\ write_bytes(v) = Cut(s, w)
<1> DEFINE first == calculate_value(s[1])
           w == first.len
           f == first.value
           others == SubSeq(s, 2, w)
           v == BigEndian(f, others)
<1>1. s # <<>> /\ s[1] \in Octets
  <2>1. s # <<>>
    BY DEF ReadVarInt
  <2> QED
    BY <2>1
<1>2. f \in Nat /\ w \in Widths
  BY <1>1, FirstOctet
<1>3. /\ s[1] = f + Tag(w) * FirstBase /\ f \in 0 .. FirstBase - 1
  <2>1. s[1] \in Nat /\ s[1] < 4 * FirstBase /\ FirstBase \in Nat \ {0}
    BY <1>1, Numbers DEF Octets
  <2>2. /\ s[1] \div FirstBase \in Nat /\ s[1] % FirstBase \in 0 .. FirstBase - 1
        /\ s[1] = (s[1] \div FirstBase) * FirstBase + (s[1] % FirstBase)
    BY <2>1, Divided
  <2>3. f = s[1] % FirstBase /\ w = 2 ^ (s[1] \div FirstBase)
    BY DEF calculate_value
  <2> DEFINE t == s[1] \div FirstBase
  <2>4. t \in Nat /\ t * FirstBase <= s[1] /\ w = 2 ^ t /\ s[1] = t * FirstBase + f
    <3> DEFINE u == t * FirstBase
               x == s[1] % FirstBase
               y == s[1]
    <3>1. u \in Nat
      BY <2>1, <2>2, Multiplied
    <3>2. y = u + x /\ x \in Nat /\ y \in Nat
      BY <2>1, <2>2
    <3> HIDE DEF u, x, y
    <3>4. u <= y
      BY <3>1, <3>2
    <3>3. u <= s[1]
      BY <3>4 DEF y
    <3> QED
      BY <2>2, <2>3, <3>3 DEF u
  <2>5. t \in 0 .. 3
    <3> HIDE DEF t, w, f
    <3> SUFFICES ASSUME t >= 4 PROVE FALSE
      BY <2>4
    <3>1. (t - 4) * FirstBase \in Nat /\ (t - 4) * FirstBase = t * FirstBase - 4 * FirstBase
      <4>1. t - 4 \in Nat
        BY <2>4
      <4>2. (t - 4) * FirstBase \in Nat
        BY <2>1, <4>1, Multiplied
      <4>3. (t - 4) * FirstBase = t * FirstBase - 4 * FirstBase
        BY <2>1, <2>4
      <4> QED
        BY <4>2, <4>3
    <3>2. t * FirstBase \in Nat
      BY <2>1, <2>4, Multiplied
    <3> QED
      BY <2>1, <2>4, <3>1, <3>2
  <2> HIDE DEF t, w, f
  <2>6. Tag(w) = t
    BY <2>4, <2>5, Tags
  <2>7. t * FirstBase \in Nat /\ f \in Nat
    BY <2>1, <2>2, <2>3, <2>4, Multiplied
  <2> QED
    BY <2>2, <2>3, <2>4, <2>6, <2>7
<1> HIDE DEF first
<1>4. /\ w <= Len(s) /\ ReadVarInt(s, TRUE) = Decoded(v, Skip(s, w)) /\ bytes_len(v) = w
  BY <1>1, <1>2 DEF ReadVarInt, first, Widths, check_min_len
<1>5. w \in Nat \ {0} /\ Room(w) <= Room(8) /\ Room(w) \in Nat /\ Room(8) \in Nat
  <2>1. 8 \in Widths
    BY DEF Widths
  <2> QED
    BY <1>2, <2>1, Rooms
<1>e. v = BigEndian(f, others)
  OBVIOUS
<1> HIDE DEF w, f, v
<1>6. /\ others \in Seq(Octets) /\ Len(others) = w - 1 /\ \A i \in 1 .. w - 1 : others[i] = s[i + 1]
  <2>1. IsSequence(s) /\ Len(s) \in Nat
    BY OfItsElements
  <2>2. 2 \in Nat \ {0} /\ w \in Nat /\ w <= Len(s) /\ 2 <= w + 1 /\ w - 2 + 1 = w - 1
    BY <1>4, <1>5
  <2>3. Len(others) = w - 1 /\ \A i \in 1 .. w - 1 : others[i] = s[2 - 1 + i]
    BY <2>1, <2>2, SubSeqFacts
  <2>4. others \in Seq(Octets)
    BY <2>2
  <2>5. \A i \in 1 .. w - 1 : 2 - 1 + i = i + 1
    OBVIOUS
  <2> QED
    BY <2>3, <2>4, <2>5
<1> HIDE DEF others
<1>7. v \in Nat
  BY <1>2, <1>6, <1>e, OfMore, Numbers, BigEndianIsNatural
<1>8. v \div Weight(w - 1) = f
  <2>1. v \div Weight(Len(others) - 0) = BigEndian(f, Cut(others, 0))
    BY <1>2, <1>6, <1>e, ReadDigits
  <2>2. Cut(others, 0) = <<>>
    BY <1>6 DEF Cut
  <2>3. Len(others) - 0 = w - 1
    BY <1>5, <1>6
  <2> QED
    BY <1>2, <2>1, <2>2, <2>3, BigEndianOfNone
<1>9. v < Room(w)
  <2> DEFINE p == Weight(w - 1)
             r == v % p
  <2>1. p \in Nat \ {0}
    <3>1. w - 1 \in Nat
      BY <1>5
    <3> QED
      BY <3>1, Weights
  <2>2. r \in 0 .. p - 1 /\ v = f * p + r
    BY <1>7, <1>8, <2>1, Divided
  <2>3. (FirstBase - 1 - f) * p \in Nat /\ f * p \in Nat
    <3>1. FirstBase - 1 - f \in Nat
      BY <1>3, Numbers
    <3> QED
      BY <1>2, <2>1, <3>1, Multiplied
  <2>4. (FirstBase - 1 - f) * p = FirstBase * p - p - f * p
    BY <1>2, <2>1, Numbers
  <2>5. Room(w) = FirstBase * p
    BY DEF Room
  <2> HIDE DEF p, r
  <2>6. FirstBase * p \in Nat
    BY <2>1, Numbers, Multiplied
  <2> QED
    BY <2>1, <2>2, <2>3, <2>4, <2>5, <2>6
<1>10. v <= MAX
  BY <1>5, <1>7, <1>9 DEF MAX
<1>11. write_bytes(v) = Cut(s, w)
  <2>1. /\ write_bytes(v) \in Seq(Octets) /\ Len(write_bytes(v)) = w
        /\ write_bytes(v)[1] = f + Tag(w) * FirstBase
        /\ \A i \in 1 .. w - 1 : write_bytes(v)[i + 1] = (v \div Weight(w - 1 - i)) % ByteBase
    BY <1>2, <1>4, <1>7, <1>8, <1>9, LengthOctetsAre
  <2>2. Cut(s, w) \in Seq(Octets) /\ Len(Cut(s, w)) = w /\ \A i \in 1 .. w : Cut(s, w)[i] = s[i]
    <3>1. w \in 0 .. Len(s)
      BY <1>4, <1>5
    <3> QED
      BY <3>1, Cuts
  <2>3. ASSUME NEW i \in 1 .. w PROVE write_bytes(v)[i] = Cut(s, w)[i]
    <3>1. CASE i = 1
      BY <1>3, <2>1, <2>2, <3>1
    <3>2. CASE i # 1
      <4> DEFINE j == i - 1
      <4>1. j \in 1 .. w - 1 /\ j + 1 = i /\ j \in 1 .. Len(others) /\ j \in 0 .. Len(others)
        BY <1>5, <1>6, <3>2
      <4> HIDE DEF j
      <4>2. v \div Weight(Len(others) - j) = BigEndian(f, Cut(others, j))
        BY <1>2, <1>6, <1>e, <4>1, ReadDigits
      <4>3. BigEndian(f, Cut(others, j)) % ByteBase = others[j]
        BY <1>2, <1>6, <4>1, LastDigit
      <4> QED
        BY <1>6, <2>1, <2>2, <4>1, <4>2, <4>3
    <3> QED
      BY <3>1, <3>2
  <2>4. IsSequence(write_bytes(v)) /\ IsSequence(Cut(s, w)) /\ Len(write_bytes(v)) = Len(Cut(s, w))
    BY <2>1, <2>2, OfItsElements
  <2> QED
    BY <2>1, <2>3, <2>4, SequencesEqual
<1> QED
  BY <1>2, <1>4, <1>7, <1>10, <1>11

--------------------------------------------------------------------------------
(* A sequence in two parts.                                                *)
LEMMA PartsOf ==
  ASSUME NEW s, NEW t, IsSequence(s), IsSequence(t)
  PROVE  Cut(s \o t, Len(s)) = s /\ Skip(s \o t, Len(s)) = t
<1> DEFINE S == Elements(s) \union Elements(t)
           both == s \o t
           n == Len(s)
<1>1. s \in Seq(S) /\ t \in Seq(S)
  BY DEF IsSequence
<1> HIDE DEF S
<1>2. n \in Nat /\ Len(t) \in Nat /\ both \in Seq(S) /\ Len(both) = n + Len(t)
      /\ (\A i \in 1 .. n : both[i] = s[i]) /\ \A i \in 1 .. Len(t) : both[n + i] = t[i]
  BY <1>1
<1>e. Len(s) = n
  OBVIOUS
<1> HIDE DEF both, n
<1>3. n \in 0 .. Len(both)
  BY <1>2
<1>4. Cut(both, n) = s
  <2>1. Cut(both, n) \in Seq(S) /\ Len(Cut(both, n)) = n /\ \A i \in 1 .. n : Cut(both, n)[i] = both[i]
    BY <1>2, <1>3, Cuts
  <2>2. IsSequence(Cut(both, n))
    BY <2>1, OfItsElements
  <2>3. \A i \in 1 .. Len(Cut(both, n)) : Cut(both, n)[i] = s[i]
    BY <1>2, <2>1
  <2> QED
    BY <1>e, <2>1, <2>2, <2>3, SequencesEqual
<1>5. Skip(both, n) = t
  <2>1. Skip(both, n) \in Seq(S) /\ Len(Skip(both, n)) = Len(both) - n
        /\ \A i \in 1 .. Len(both) - n : Skip(both, n)[i] = both[n + i]
    BY <1>2, <1>3, Skips
  <2>2. IsSequence(Skip(both, n)) /\ Len(Skip(both, n)) = Len(t)
    BY <1>2, <2>1, OfItsElements
  <2>3. \A i \in 1 .. Len(t) : Skip(both, n)[i] = t[i]
    BY <1>2, <2>1
  <2> QED
    BY <2>2, <2>3, SequencesEqual
<1> QED
  BY <1>4, <1>5 DEF both, n

LEMMA PartsJoin ==
  ASSUME NEW s, IsSequence(s), NEW n \in 0 .. Len(s)
  PROVE  Cut(s, n) \o Skip(s, n) = s
<1> DEFINE p == 0
           q == n
           r == Len(s)
<1>1. p \in Nat /\ q \in Nat /\ r \in Nat /\ p <= q /\ q <= r /\ r <= Len(s) /\ p + 1 = 1
  BY SequenceShape
<1>2. q = n /\ r = Len(s)
  OBVIOUS
<1> HIDE DEF p, q, r
<1>3. SubSeq(s, p + 1, q) \o SubSeq(s, q + 1, r) = SubSeq(s, p + 1, r)
  BY <1>1, SegmentsJoin
<1> QED
  BY <1>1, <1>2, <1>3, WholeSegment DEF Cut, Skip

LEMMA LengthWritten ==
  ASSUME NEW n \in Nat, NEW mls \in BOOLEAN
  PROVE  IF n <= MAX /\ (mls => n <= MAX_MLS_LEN)
         THEN WriteLength(n, mls) = Ok(write_bytes(n)) /\ WriteLength(n, mls) # Err /\ LengthWidth(n, mls) = bytes_len(n)
         ELSE WriteLength(n, mls) = Err /\ LengthWidth(n, mls) = 0
<1>1. new(n, mls) = Err <=> mls /\ ~(n <= MAX_MLS_LEN)
  BY Rooms DEF new, Ok, Err
<1>2. n > MAX <=> ~(n <= MAX)
  BY Rooms
<1>3. Ok(write_bytes(n)) # Err
  BY DEF Ok, Err
<1> QED
  BY <1>1, <1>2, <1>3 DEF WriteLength, LengthWidth

(* Octets with their length, written and read back.                        *)
LEMMA VLBytesBack ==
  ASSUME NEW v \in Seq(Octets), NEW mls \in BOOLEAN, WriteVLBytes(v, mls) # Err, NEW tail \in Seq(Octets)
  PROVE  /\ WriteVLBytes(v, mls)[1] \in Seq(Octets)
         /\ Len(WriteVLBytes(v, mls)[1]) = tls_serialize_bytes_len(Len(v), mls)
         /\ tls_serialize_bytes_len(Len(v), mls) \in Nat \ {0}
         /\ VLBytesOfSlice(WriteVLBytes(v, mls)[1] \o tail, mls) = Decoded(v, tail)
<1> DEFINE n == Len(v)
           out == write_bytes(n)
           w == bytes_len(n)
           more == v \o tail
<1>1. n \in Nat /\ WriteLength(n, mls) # Err
  BY DEF WriteVLBytes
<1>2. n <= MAX /\ WriteLength(n, mls) = Ok(out) /\ LengthWidth(n, mls) = w
  BY <1>1, LengthWritten
<1>3. WriteVLBytes(v, mls)[1] = out \o v
  BY <1>1, <1>2 DEF WriteVLBytes, Ok
<1>4. more \in Seq(Octets)
  OBVIOUS
<1>5. /\ w \in Widths /\ out \in Seq(Octets) /\ Len(out) = w
      /\ ReadVarInt(out \o more, mls) = Decoded(n, more)
  <2> HIDE DEF n, more
  <2> QED
    BY <1>1, <1>2, <1>4, VarIntBack
<1>6. tls_serialize_bytes_len(n, mls) = n + w
  BY <1>2 DEF tls_serialize_bytes_len
<1>7. w \in Nat \ {0}
  BY <1>5, Rooms
<1>e. n = Len(v) /\ more = v \o tail
  OBVIOUS
<1> HIDE DEF n, out, w, more
<1>8. (out \o v) \in Seq(Octets) /\ Len(out \o v) = w + n
  BY <1>5, <1>e
<1>9. IsSequence(v) /\ IsSequence(tail) /\ IsSequence(out) /\ Len(tail) \in Nat
  BY <1>5, OfItsElements
<1>10. (out \o v) \o tail = out \o more
  BY ONLY <1>9, <1>e, ConcatAssociates, SMTT(30)
<1>11. Cut(more, n) = v /\ Skip(more, n) = tail /\ Len(more) = n + Len(tail)
  BY <1>9, <1>e, PartsOf, ConcatFacts
<1>12. VLBytesOfSlice(out \o more, mls) = Decoded(v, tail)
  <2> DEFINE r == ReadVarInt(out \o more, mls)
  <2>1. r # Err /\ r[1].value = n /\ r[1].rest = more
    BY <1>5 DEF Decoded, Ok, Err
  <2> HIDE DEF r
  <2>2. ~(Len(more) < n)
    BY <1>1, <1>9, <1>11
  <2>3. VLBytesOfSlice(out \o more, mls) = Decoded(Cut(more, n), Skip(more, n))
    BY <2>1, <2>2 DEF VLBytesOfSlice, ReadLengthBytes, r, Cut
  <2> QED
    BY <1>11, <2>3
<1>13. w + n = n + w /\ n + w \in Nat \ {0}
  BY <1>1, <1>7
<1> QED
  BY <1>3, <1>6, <1>8, <1>10, <1>12, <1>13, <1>e

LEMMA VLBytesUnique ==
  ASSUME NEW s \in Seq(Octets), VLBytesOfSlice(s, TRUE) # Err, Took(VLBytesOfSlice(s, TRUE), s) <= MAX_MLS_LEN
  PROVE  \E n \in 0 .. Len(s), v \in Seq(Octets) :
           /\ VLBytesOfSlice(s, TRUE) = Decoded(v, Skip(s, n))
           /\ WriteVLBytes(v, TRUE) = Ok(Cut(s, n)) /\ tls_serialize_bytes_len(Len(v), TRUE) = n
<1>1. IsSequence(s) /\ Len(s) \in Nat
  BY OfItsElements
<1>2. ReadVarInt(s, TRUE) # Err
  BY DEF VLBytesOfSlice, ReadLengthBytes
<1>3. PICK w \in Widths, a \in Nat :
        /\ w <= Len(s) /\ ReadVarInt(s, TRUE) = Decoded(a, Skip(s, w))
        /\ a <= MAX /\ bytes_len(a) = w /\ write_bytes(a) = Cut(s, w)
  BY <1>2, VarIntUnique
<1>4. w \in Nat \ {0} /\ w \in 0 .. Len(s)
  BY <1>1, <1>3, Rooms
<1> DEFINE rest1 == Skip(s, w)
           v == Cut(rest1, a)
           n == w + a
<1>5. rest1 \in Seq(Octets) /\ IsSequence(rest1) /\ Len(rest1) = Len(s) - w
  BY <1>4, Skips, OfItsElements
<1>6. ~(Len(rest1) < a) /\ VLBytesOfSlice(s, TRUE) = Decoded(v, Skip(rest1, a))
  <2> DEFINE r == ReadVarInt(s, TRUE)
  <2>0. r = Decoded(a, rest1)
    BY <1>3
  <2> HIDE DEF r, rest1
  <2>1. r # Err /\ r[1].value = a /\ r[1].rest = rest1
    BY <2>0 DEF Decoded, Ok, Err
  <2>2. VLBytesOfSlice(s, TRUE) =
          IF Len(rest1) < a THEN Err ELSE Decoded(SubSeq(rest1, 1, a), Skip(rest1, a))
    BY <2>1 DEF VLBytesOfSlice, ReadLengthBytes, r
  <2> QED
    BY <2>2 DEF Cut
<1>7. n \in 0 .. Len(s) /\ a \in 0 .. Len(rest1) /\ n \in Nat /\ n = w + a
  BY <1>1, <1>4, <1>5, <1>6
<1>8. VLBytesOfSlice(s, TRUE) = Decoded(v, Skip(s, n))
  <2>1. w + a <= Len(s)
    BY <1>7
  <2>2. Skip(Skip(s, w), a) = Skip(s, w + a)
    BY <1>1, <1>4, <2>1, SkipTwice
  <2> QED
    BY <1>6, <2>2
<1>9. v \in Seq(Octets) /\ Len(v) = a
  <2> HIDE DEF rest1
  <2> QED
    BY <1>5, <1>7, Cuts
<1>10. a <= MAX_MLS_LEN
  <2> HIDE DEF v, n
  <2>1. Took(Decoded(v, Skip(s, n)), s) = n
    BY <1>7, TookOf
  <2>2. n <= MAX_MLS_LEN
    BY <1>8, <2>1
  <2>3. MAX_MLS_LEN \in Nat
    BY Rooms
  <2> QED
    BY <1>4, <1>7, <2>2, <2>3
<1>11. WriteLength(a, TRUE) = Ok(write_bytes(a)) /\ WriteLength(a, TRUE) # Err /\ LengthWidth(a, TRUE) = w
  BY <1>3, <1>10, LengthWritten
<1>12. Cut(s, w) \o v = Cut(s, n)
  <2> DEFINE cut == Cut(s, n)
  <2>1. IsSequence(cut) /\ Len(cut) = n
    BY <1>1, <1>7, CutShape
  <2>2. w \in 0 .. n /\ n - w = a
    BY <1>4, <1>7
  <2>3. Cut(cut, w) = Cut(s, w)
    BY <1>1, <1>7, <2>2, CutOfCut
  <2>4. Skip(cut, w) = Cut(Skip(s, w), n - w)
    BY <1>1, <1>7, <2>2, SkipOfCut
  <2> HIDE DEF cut, n
  <2>5. Cut(cut, w) \o Skip(cut, w) = cut
    BY <2>1, <2>2, PartsJoin
  <2> QED
    BY <2>2, <2>3, <2>4, <2>5 DEF cut
<1> HIDE DEF v, n
<1>13. WriteVLBytes(v, TRUE) = Ok(Cut(s, n))
  <2>0. Ok(write_bytes(a))[1] = write_bytes(a)
    BY DEF Ok
  <2>1. WriteLength(Len(v), TRUE) # Err /\ WriteLength(Len(v), TRUE)[1] = Cut(s, w)
    BY <1>3, <1>9, <1>11, <2>0
  <2> QED
    BY <1>12, <2>1 DEF WriteVLBytes
<1>14. tls_serialize_bytes_len(Len(v), TRUE) = n
  <2>1. a + w = n
    BY <1>4, <1>7
  <2> QED
    BY <1>9, <1>11, <2>1 DEF tls_serialize_bytes_len
<1> QED
  BY <1>7, <1>8, <1>9, <1>13, <1>14

LEMMA SecondWeight == Weight(2) = ByteBase * ByteBase
<1>1. Weight(1 + 1) = Weight(1) * ByteBase
  BY WeightOfMore
<1> QED
  BY <1>1, FirstWeights

(* A value of any kind, written, is read back by whoever reads a slice.    *)
LEMMA UnsignedIsBack ==
  ASSUME NEW n \in Nat, NEW a \in Nat, a < Weight(n), NEW tail \in Seq(Octets)
  PROVE  /\ WriteUnsigned(n, a) \in Seq(Octets) /\ Len(WriteUnsigned(n, a)) = n
         /\ ReadUnsigned(n, WriteUnsigned(n, a) \o tail) = Decoded(a, tail)
<1> DEFINE out == WriteUnsigned(n, a)
           s == out \o tail
<1>1. out \in Seq(Octets) /\ Len(out) = n
  <2>1. Len(out) = n
    BY DEF WriteUnsigned
  <2> QED
    BY <2>1, UnsignedWrites
<1>2. BigEndian(0, out) = a
  BY UnsignedBack
<1> HIDE DEF out
<1>3. IsSequence(out) /\ IsSequence(tail) /\ Len(tail) \in Nat
  BY <1>1, OfItsElements
<1>4. IsSequence(s) /\ Len(s) = n + Len(tail) /\ Cut(s, n) = out /\ Skip(s, n) = tail
  BY <1>1, <1>3, ConcatFacts, PartsOf
<1> HIDE DEF s
<1>5. ReadUnsigned(n, s) = Decoded(a, tail)
  <2>1. n <= Len(s)
    BY <1>3, <1>4
  <2> QED
    BY <1>2, <1>4, <2>1, UnsignedReads
<1> QED
  BY <1>1, <1>5 DEF s, out

LEMMA OptionIsBack ==
  ASSUME NEW v \in Values("option"), NEW tail \in Seq(Octets)
  PROVE  /\ (<<Len(v)>> \o v) \in Seq(Octets) /\ Len(<<Len(v)>> \o v) = 1 + Len(v) /\ Len(v) \in Nat
         /\ ReadOption((<<Len(v)>> \o v) \o tail) = Decoded(v, tail)
<1>0. v = <<>> \/ \E octet \in Octets : v = <<octet>>
  BY DEF Values
<1>1. 0 \in Octets /\ 1 \in Octets
  <2>1. ByteBase >= 4
    BY Numbers
  <2> QED
    BY <2>1, Numbers DEF Octets
<1>2. IsSequence(tail) /\ Len(tail) \in Nat
  BY OfItsElements
<1>3. CASE v = <<>>
  <2> DEFINE out == <<0>>
             s == out \o tail
  <2>1. out \in Seq(Octets) /\ Len(out) = 1 /\ out[1] = 0 /\ <<Len(v)>> \o v = out /\ Len(v) = 0
    BY <1>1, <1>3
  <2>2. IsSequence(out)
    BY <2>1, OfItsElements
  <2> HIDE DEF out
  <2>6. IsSequence(s) /\ Len(s) = Len(out) + Len(tail) /\ \A i \in 1 .. Len(out) : s[i] = out[i]
    BY <1>2, <2>2, ConcatFacts
  <2>7. Skip(s, Len(out)) = tail
    BY <1>2, <2>2, PartsOf
  <2>3. IsSequence(s) /\ Len(s) = 1 + Len(tail) /\ s[1] = 0 /\ Skip(s, 1) = tail
    BY <2>1, <2>6, <2>7
  <2>4. s # <<>>
    BY <1>2, <2>3, SequenceShape
  <2> HIDE DEF s
  <2>5. ReadOption(s) = Decoded(v, tail)
    BY <1>3, <2>3, <2>4 DEF ReadOption
  <2> QED
    BY <2>1, <2>5 DEF s
<1>4. CASE \E octet \in Octets : v = <<octet>>
  <2>1. PICK octet \in Octets : v = <<octet>>
    BY <1>4
  <2> DEFINE one == <<1>>
             more == v \o tail
             s == one \o more
  <2>2. /\ one \in Seq(Octets) /\ Len(one) = 1 /\ one[1] = 1 /\ <<Len(v)>> \o v = one \o v /\ Len(v) = 1
        /\ v \in Seq(Octets) /\ v[1] = octet /\ octet \in Nat
    BY <1>1, <2>1, Numbers
  <2>3. IsSequence(one) /\ IsSequence(v)
    BY <2>2, OfItsElements
  <2>4. IsSequence(more) /\ Len(more) = 1 + Len(tail) /\ Cut(more, 1) = v /\ Skip(more, 1) = tail
    <3>1. IsSequence(more) /\ Len(more) = Len(v) + Len(tail)
      BY <1>2, <2>3, ConcatFacts
    <3>2. Cut(more, Len(v)) = v /\ Skip(more, Len(v)) = tail
      BY <1>2, <2>3, PartsOf
    <3> QED
      BY <2>2, <3>1, <3>2
  <2>5. (one \o v) \o tail = s
    BY <1>2, <2>3, ConcatAssociates
  <2>9. (one \o v) \in Seq(Octets) /\ Len(one \o v) = 1 + 1
    <3> HIDE DEF one
    <3> QED
      BY <2>2
  <2> HIDE DEF more, one
  <2>6. IsSequence(s) /\ Len(s) = 1 + (1 + Len(tail)) /\ s[1] = 1 /\ Skip(s, 1) = more
    <3>1. IsSequence(s) /\ Len(s) = Len(one) + Len(more) /\ \A i \in 1 .. Len(one) : s[i] = one[i]
      BY <2>3, <2>4, ConcatFacts
    <3>2. Skip(s, Len(one)) = more
      BY <2>3, <2>4, PartsOf
    <3> QED
      BY <2>2, <2>4, <3>1, <3>2
  <2>7. s # <<>>
    BY <1>2, <2>6, SequenceShape
  <2> HIDE DEF s
  <2>8. ReadUnsigned(1, more) = Decoded(octet, tail)
    <3>1. BigEndian(0, v) = octet
      <4>1. v \in Seq(Nat) /\ <<>> \in Seq(Nat) /\ Len(v) = Len(<<>>) + 1 /\ \A i \in 1 .. Len(<<>>) : v[i] = <<>>[i]
        BY <2>2, Numbers, OfMore
      <4>2. BigEndian(0, v) = BigEndian(0, <<>>) * ByteBase + v[Len(v)]
        BY <4>1, BigEndianOfMore
      <4>3. BigEndian(0, <<>>) = 0
        BY BigEndianOfNone
      <4> QED
        BY <2>2, <4>2, <4>3, Numbers
    <3>2. 1 <= Len(more)
      BY <1>2, <2>4
    <3> QED
      BY <2>4, <3>1, <3>2, UnsignedReads
  <2>10. ReadOption(s) = Decoded(v, tail)
    <3> DEFINE r == ReadUnsigned(1, Skip(s, 1))
    <3>1. r # Err /\ r[1].value = octet /\ r[1].rest = tail
      BY <2>6, <2>8 DEF Decoded, Ok, Err
    <3> HIDE DEF r
    <3>2. ReadOption(s) = Decoded(<<octet>>, tail)
      BY <2>6, <2>7, <3>1 DEF ReadOption, r
    <3> QED
      BY <2>1, <3>2
  <2> DEFINE head == <<Len(v)>> \o v
  <2>11. head = one \o v /\ Len(v) = 1
    BY <2>2
  <2> HIDE DEF head
  <2>12. head \in Seq(Octets) /\ Len(head) = 1 + Len(v) /\ Len(v) \in Nat
    BY <2>9, <2>11
  <2>13. ReadOption(head \o tail) = Decoded(v, tail)
    BY <2>5, <2>10, <2>11
  <2> QED
    BY <2>12, <2>13 DEF head
<1> QED
  BY <1>0, <1>3, <1>4

LEMMA ElementBack ==
  ASSUME NEW kind \in Kinds, NEW v \in Values(kind), NEW mls \in BOOLEAN,
         Write(kind, v, mls) # Err, NEW tail \in Seq(Octets)
  PROVE  /\ Write(kind, v, mls)[1] \in Seq(Octets)
         /\ Len(Write(kind, v, mls)[1]) = tls_serialized_len(kind, v, mls)
         /\ Read(kind, "bytes", Write(kind, v, mls)[1] \o tail, mls) = Decoded(v, tail)
<1>0. ByteBase \in Nat \ {0}
  BY Numbers
<1>1. CASE kind = "u8"
  <2>1. v \in Nat /\ v < Weight(1)
    <3>1. v \in 0 .. ByteBase - 1
      BY <1>1 DEF Values, Octets
    <3> QED
      BY <1>0, <3>1, FirstWeights
  <2> DEFINE out == WriteUnsigned(1, v)
  <2>2. out \in Seq(Octets) /\ Len(out) = 1 /\ ReadUnsigned(1, out \o tail) = Decoded(v, tail)
    BY <2>1, UnsignedIsBack
  <2>3. Write(kind, v, mls)[1] = out
    BY <1>1 DEF Write, Ok
  <2> HIDE DEF out
  <2> QED
    BY <1>1, <2>2, <2>3 DEF tls_serialized_len, Read
<1>2. CASE kind = "u16"
  <2>1. v \in Nat /\ v < Weight(2)
    <3>1. v \in 0 .. ByteBase * ByteBase - 1 /\ ByteBase * ByteBase \in Nat
      BY <1>0, <1>2, Multiplied DEF Values
    <3> DEFINE b == ByteBase * ByteBase
    <3> HIDE DEF b
    <3>2. v \in 0 .. b - 1 /\ b \in Nat /\ Weight(2) = b
      BY <3>1, SecondWeight DEF b
    <3> QED
      BY <3>2
  <2> DEFINE out == WriteUnsigned(2, v)
  <2>2. out \in Seq(Octets) /\ Len(out) = 2 /\ ReadUnsigned(2, out \o tail) = Decoded(v, tail)
    BY <2>1, UnsignedIsBack
  <2>3. Write(kind, v, mls)[1] = out
    BY <1>2 DEF Write, Ok
  <2> HIDE DEF out
  <2> QED
    BY <1>2, <2>2, <2>3 DEF tls_serialized_len, Read
<1>3. CASE kind = "unit"
  <2>1. v = "()" /\ <<>> \in Seq(Octets) /\ <<>> \o tail = tail
    BY <1>3 DEF Values
  <2>2. Write(kind, v, mls)[1] = <<>>
    BY <1>3 DEF Write, Ok
  <2>3. Len(<<>>) = tls_serialized_len(kind, v, mls)
    BY <1>3 DEF tls_serialized_len
  <2>4. Read(kind, "bytes", tail, mls) = Decoded(v, tail)
    BY <1>3, <2>1 DEF Read
  <2> QED
    BY <2>1, <2>2, <2>3, <2>4
<1>4. CASE kind = "option"
  <2>1. v \in Values("option")
    BY <1>4
  <2> DEFINE out == <<Len(v)>> \o v
  <2>2. out \in Seq(Octets) /\ Len(out) = 1 + Len(v) /\ ReadOption(out \o tail) = Decoded(v, tail)
    BY <2>1, OptionIsBack
  <2>3. Write(kind, v, mls)[1] = out
    BY <1>4 DEF Write, Ok
  <2> HIDE DEF out
  <2> QED
    BY <1>4, <2>2, <2>3 DEF tls_serialized_len, Read
<1>5. CASE kind = "VLBytes"
  <2>1. v \in Seq(Octets) /\ WriteVLBytes(v, mls) # Err
    BY <1>5 DEF Values, Write
  <2> DEFINE out == WriteVLBytes(v, mls)[1]
  <2>2. /\ out \in Seq(Octets) /\ Len(out) = tls_serialize_bytes_len(Len(v), mls)
        /\ VLBytesOfSlice(out \o tail, mls) = Decoded(v, tail)
    BY <2>1, VLBytesBack
  <2>3. Write(kind, v, mls)[1] = out
    BY <1>5 DEF Write
  <2> HIDE DEF out
  <2> QED
    BY <1>5, <2>2, <2>3 DEF tls_serialized_len, Read
<1> QED
  BY <1>1, <1>2, <1>3, <1>4, <1>5 DEF Kinds

(* An element is refused only if it is octets that are too many.           *)
LEMMA ElementRefused ==
  ASSUME NEW kind \in Kinds, NEW v \in Values(kind), NEW mls \in BOOLEAN
  PROVE  /\ tls_serialized_len(kind, v, mls) \in Nat
         /\ kind # "unit" /\ Write(kind, v, mls) # Err => tls_serialized_len(kind, v, mls) > 0
         /\ kind = "unit" => tls_serialized_len(kind, v, mls) = 0
         /\ Write(kind, v, mls) = Err =>
              \/ mls /\ tls_serialized_len(kind, v, mls) > MAX_MLS_LEN
              \/ ~mls /\ tls_serialized_len(kind, v, mls) > MAX
<1>1. CASE kind # "VLBytes" /\ kind # "option"
  <2>1. tls_serialized_len(kind, v, mls) \in Nat /\ (kind # "unit" => tls_serialized_len(kind, v, mls) > 0)
        /\ (kind = "unit" => tls_serialized_len(kind, v, mls) = 0)
    BY <1>1 DEF tls_serialized_len, Kinds
  <2>2. Write(kind, v, mls) # Err
    BY <1>1 DEF Write, Kinds, Ok, Err
  <2> QED
    BY <2>1, <2>2
<1>2. CASE kind = "option"
  <2>1. v \in Values("option")
    BY <1>2
  <2>2. Len(v) \in Nat
    <3>1. <<>> \in Seq(Octets)
      OBVIOUS
    <3> QED
      BY <2>1, <3>1, OptionIsBack
  <2>3. tls_serialized_len(kind, v, mls) = 1 + Len(v)
    BY <1>2 DEF tls_serialized_len
  <2>4. Write(kind, v, mls) # Err
    BY <1>2 DEF Write, Ok, Err
  <2> QED
    BY <1>2, <2>2, <2>3, <2>4
<1>3. CASE kind = "VLBytes"
  <2>1. v \in Seq(Octets) /\ Len(v) \in Nat
    BY <1>3 DEF Values
  <2>2. tls_serialized_len(kind, v, mls) = Len(v) + LengthWidth(Len(v), mls)
    BY <1>3 DEF tls_serialized_len, tls_serialize_bytes_len
  <2>3. Write(kind, v, mls) = Err <=> WriteLength(Len(v), mls) = Err
    BY <1>3 DEF Write, WriteVLBytes, Ok, Err
  <2> DEFINE n == Len(v)
  <2> HIDE DEF n
  <2>4. n \in Nat
    BY <2>1 DEF n
  <2>5. CASE n <= MAX /\ (mls => n <= MAX_MLS_LEN)
    <3>1. WriteLength(n, mls) # Err /\ LengthWidth(n, mls) = bytes_len(n)
      BY <2>4, <2>5, LengthWritten
    <3>2. bytes_len(n) \in Nat \ {0}
      <4>1. <<>> \in Seq(Octets)
        OBVIOUS
      <4>2. bytes_len(n) \in Widths
        BY <2>4, <2>5, <4>1, VarIntBack
      <4> QED
        BY <4>2, Rooms
    <3>3. n + bytes_len(n) \in Nat /\ n + bytes_len(n) > 0
      BY <2>4, <3>2
    <3> QED
      BY <1>3, <2>2, <2>3, <3>1, <3>3 DEF n
  <2>6. CASE ~(n <= MAX /\ (mls => n <= MAX_MLS_LEN))
    <3>1. WriteLength(n, mls) = Err /\ LengthWidth(n, mls) = 0
      BY <2>4, <2>6, LengthWritten
    <3>2. tls_serialized_len(kind, v, mls) = n
      BY <2>2, <2>4, <3>1 DEF n
    <3>3. (mls /\ n > MAX_MLS_LEN) \/ (~mls /\ n > MAX)
      BY <2>4, <2>6, Rooms
    <3>4. Write(kind, v, mls) = Err
      BY <2>3, <3>1 DEF n
    <3> QED
      BY <1>3, <2>4, <3>2, <3>3, <3>4
  <2> QED
    BY <2>5, <2>6
<1> QED
  BY <1>1, <1>2, <1>3

(* Where lengths must be minimal, a value has one encoding.                *)
LEMMA OptionIsUnique ==
  ASSUME NEW s \in Seq(Octets), ReadOption(s) # Err
  PROVE  \E n, v :
           n \in 0 .. Len(s) /\ ReadOption(s) = Decoded(v, Skip(s, n)) /\ <<Len(v)>> \o v = Cut(s, n) /\ 1 + Len(v) = n
<1>1. s # <<>> /\ ~(s[1] > 1) /\ Len(s) \in Nat /\ IsSequence(s)
  BY OfItsElements DEF ReadOption
<1>2. Len(s) >= 1 /\ s[1] \in Nat
  <2>1. Len(s) # 0
    BY <1>1, SequenceShape
  <2>2. s[1] \in Octets
    BY <1>1, <2>1
  <2>3. s[1] \in Nat
    BY <2>2, Numbers
  <2>4. Len(s) >= 1
    BY <1>1, <2>1
  <2> QED
    BY <2>3, <2>4
<1>3. CASE s[1] = 0
  <2>1. ReadOption(s) = Decoded(<<>>, Skip(s, 1))
    BY <1>1, <1>3 DEF ReadOption
  <2>2. 1 \in 0 .. Len(s)
    BY <1>1, <1>2
  <2>3. IsSequence(Cut(s, 1)) /\ Len(Cut(s, 1)) = 1 /\ Cut(s, 1)[1] = s[1]
    <3>1. IsSequence(Cut(s, 1)) /\ Len(Cut(s, 1)) = 1
      BY <1>1, <2>2, CutShape
    <3>2. \A i \in 1 .. 1 : Cut(s, 1)[i] = s[i]
      BY <2>2, Cuts
    <3> QED
      BY <3>1, <3>2
  <2>4. <<Len(<<>>)>> \o <<>> = <<0>> /\ IsSequence(<<0>>) /\ Len(<<0>>) = 1 /\ <<0>>[1] = 0
    BY DEF IsSequence, Elements
  <2>5. <<0>> = Cut(s, 1)
    BY <1>3, <2>3, <2>4, SequencesEqual
  <2> DEFINE v == <<>>
  <2>6. ReadOption(s) = Decoded(v, Skip(s, 1)) /\ <<Len(v)>> \o v = Cut(s, 1) /\ 1 + Len(v) = 1
    BY <2>1, <2>4, <2>5
  <2> HIDE DEF v
  <2> QED
    BY <2>2, <2>6
<1>4. CASE s[1] # 0
  <2>0. s[1] = 1
    BY <1>1, <1>2, <1>4
  <2> DEFINE t == Skip(s, 1)
             r == ReadUnsigned(1, t)
  <2>1. r # Err /\ ReadOption(s) = Decoded(<<r[1].value>>, r[1].rest)
    BY <1>1, <1>4 DEF ReadOption
  <2>2. 1 \in 0 .. Len(s)
    BY <1>1, <1>2
  <2>3. t \in Seq(Octets) /\ Len(t) = Len(s) - 1 /\ (\A i \in 1 .. Len(s) - 1 : t[i] = s[1 + i]) /\ IsSequence(t)
    BY <2>2, Skips, OfItsElements
  <2>t. t = Skip(s, 1)
    OBVIOUS
  <2> HIDE DEF t
  <2>4. 1 <= Len(t) /\ r = Decoded(BigEndian(0, Cut(t, 1)), Skip(t, 1))
    BY <2>1, <2>3, UnsignedReads
  <2>5. 2 \in 0 .. Len(s) /\ 1 \in 1 .. Len(s) - 1 /\ 1 \in 0 .. Len(t) /\ 1 + 1 <= Len(s)
    BY <1>1, <2>3, <2>4
  <2>6. r[1].value = s[2] /\ r[1].rest = Skip(s, 2)
    <3>1. t[1] = s[2]
      <4>1. t[1] = s[1 + 1]
        BY <2>3, <2>5
      <4> QED
        BY <4>1
    <3>2. Cut(t, 1) \in Seq(Octets) /\ Len(Cut(t, 1)) = 1 /\ Cut(t, 1)[1] = t[1]
      <4>1. Cut(t, 1) \in Seq(Octets) /\ Len(Cut(t, 1)) = 1 /\ \A i \in 1 .. 1 : Cut(t, 1)[i] = t[i]
        BY <2>3, <2>5, Cuts
      <4> QED
        BY <4>1
    <3>3. BigEndian(0, Cut(t, 1)) = t[1]
      <4> DEFINE c == Cut(t, 1)
      <4>0. c \in Seq(Octets) /\ Len(c) = 1
        BY <3>2
      <4> HIDE DEF c
      <4>6. c \in Seq(Nat)
        BY <4>0, Numbers, OfMore
      <4>1. c \in Seq(Nat) /\ <<>> \in Seq(Nat) /\ Len(c) = Len(<<>>) + 1 /\ \A i \in 1 .. Len(<<>>) : c[i] = <<>>[i]
        BY <4>0, <4>6
      <4>2. BigEndian(0, c) = BigEndian(0, <<>>) * ByteBase + c[Len(c)]
        BY <4>1, BigEndianOfMore
      <4>3. BigEndian(0, <<>>) = 0
        BY BigEndianOfNone
      <4>4. c[1] = t[1] /\ Len(c) = 1 /\ c[1] \in Nat
        BY <3>2, <4>1 DEF c
      <4>5. BigEndian(0, c) = t[1]
        BY <4>2, <4>3, <4>4, Numbers
      <4> QED
        BY <4>5 DEF c
    <3>4. Skip(Skip(s, 1), 1) = Skip(s, 1 + 1)
      BY <1>1, <2>5, SkipTwice
    <3>5. r[1].value = BigEndian(0, Cut(t, 1)) /\ r[1].rest = Skip(t, 1)
      BY <2>4 DEF Decoded, Ok
    <3> QED
      BY <2>t, <3>1, <3>3, <3>4, <3>5
  <2> HIDE DEF r
  <2> DEFINE v == <<s[2]>>
             c == Cut(s, 2)
             p == <<1>> \o v
  <2>7. <<Len(v)>> \o v = p /\ Len(v) = 1 /\ IsSequence(p) /\ Len(p) = 2 /\ p[1] = 1 /\ p[2] = s[2]
    <3> DEFINE one == <<1>>
    <3>1. s[2] \in Octets /\ 1 \in Octets
      BY <1>1, <1>2, <2>0, <2>5
    <3>2. Len(one) = 1 /\ one[1] = 1 /\ Len(v) = 1 /\ v[1] = s[2] /\ one \in Seq(Octets) /\ v \in Seq(Octets)
      BY <3>1
    <3>3. IsSequence(one) /\ IsSequence(v)
      BY <3>2, OfItsElements
    <3>4. p = one \o v /\ <<Len(v)>> \o v = p
      BY <3>2
    <3> HIDE DEF one, v, p
    <3>5. /\ IsSequence(p) /\ Len(p) = Len(one) + Len(v)
          /\ \A i \in 1 .. Len(one) : p[i] = one[i]
          /\ \A i \in 1 .. Len(v) : p[Len(one) + i] = v[i]
      BY <3>3, <3>4, ConcatFacts
    <3>6. Len(p) = 2 /\ p[1] = 1 /\ p[1 + 1] = s[2]
      BY <3>2, <3>5
    <3>7. p[2] = s[2]
      BY <3>6
    <3> QED
      BY <3>2, <3>4, <3>5, <3>6, <3>7
  <2>8. IsSequence(c) /\ Len(c) = 2 /\ c[1] = s[1] /\ c[2] = s[2]
    <3>1. IsSequence(c) /\ Len(c) = 2
      BY <1>1, <2>5, CutShape
    <3>2. \A i \in 1 .. 2 : c[i] = s[i]
      BY <2>5, Cuts
    <3> QED
      BY <3>1, <3>2
  <2> HIDE DEF c, p
  <2>9. p = c
    <3>1. \A i \in 1 .. 2 : i = 1 \/ i = 2
      OBVIOUS
    <3> QED
      BY <2>0, <2>7, <2>8, <3>1, SequencesEqual
  <2>10. ReadOption(s) = Decoded(v, Skip(s, 2))
    BY <2>1, <2>6
  <2>11. <<Len(v)>> \o v = Cut(s, 2) /\ 1 + Len(v) = 2
    BY <2>7, <2>9 DEF c
  <2> QED
    BY <2>5, <2>10, <2>11
<1> QED
  BY <1>3, <1>4

LEMMA UnsignedIsUnique ==
  ASSUME NEW s \in Seq(Octets), NEW n \in Nat, ReadUnsigned(n, s) # Err
  PROVE  /\ n \in 0 .. Len(s) /\ ReadUnsigned(n, s) = Decoded(BigEndian(0, Cut(s, n)), Skip(s, n))
         /\ WriteUnsigned(n, BigEndian(0, Cut(s, n))) = Cut(s, n)
<1>1. IsSequence(s) /\ Len(s) \in Nat
  BY OfItsElements
<1>2. n <= Len(s) /\ ReadUnsigned(n, s) = Decoded(BigEndian(0, Cut(s, n)), Skip(s, n))
  BY <1>1, UnsignedReads
<1>3. n \in 0 .. Len(s)
  BY <1>1, <1>2
<1>4. Cut(s, n) \in Seq(Octets) /\ Len(Cut(s, n)) = n
  BY <1>3, Cuts
<1>5. WriteUnsigned(Len(Cut(s, n)), BigEndian(0, Cut(s, n))) = Cut(s, n)
  BY <1>4, UnsignedUnique
<1> QED
  BY <1>2, <1>3, <1>4, <1>5

LEMMA ElementUnique ==
  ASSUME NEW kind \in Kinds, NEW s \in Seq(Octets), NEW mls \in BOOLEAN, kind = "VLBytes" => mls,
         Read(kind, "bytes", s, mls) # Err, mls => Took(Read(kind, "bytes", s, mls), s) <= MAX_MLS_LEN
  PROVE  \E n, v :
           /\ n \in 0 .. Len(s)
           /\ Read(kind, "bytes", s, mls) = Decoded(v, Skip(s, n))
           /\ Write(kind, v, mls) = Ok(Cut(s, n)) /\ tls_serialized_len(kind, v, mls) = n
<1>1. CASE kind = "u8"
  <2>1. ReadUnsigned(1, s) # Err
    BY <1>1 DEF Read
  <2> DEFINE v == BigEndian(0, Cut(s, 1))
  <2>2. 1 \in 0 .. Len(s) /\ ReadUnsigned(1, s) = Decoded(v, Skip(s, 1)) /\ WriteUnsigned(1, v) = Cut(s, 1)
    BY <2>1, UnsignedIsUnique
  <2> HIDE DEF v
  <2>3. Read(kind, "bytes", s, mls) = Decoded(v, Skip(s, 1))
    BY <1>1, <2>2 DEF Read
  <2>4. Write(kind, v, mls) = Ok(Cut(s, 1)) /\ tls_serialized_len(kind, v, mls) = 1
    BY <1>1, <2>2 DEF Write, tls_serialized_len
  <2> QED
    BY <2>2, <2>3, <2>4
<1>2. CASE kind = "u16"
  <2>1. ReadUnsigned(2, s) # Err
    BY <1>2 DEF Read
  <2> DEFINE v == BigEndian(0, Cut(s, 2))
  <2>2. 2 \in 0 .. Len(s) /\ ReadUnsigned(2, s) = Decoded(v, Skip(s, 2)) /\ WriteUnsigned(2, v) = Cut(s, 2)
    BY <2>1, UnsignedIsUnique
  <2> HIDE DEF v
  <2>3. Read(kind, "bytes", s, mls) = Decoded(v, Skip(s, 2))
    BY <1>2, <2>2 DEF Read
  <2>4. Write(kind, v, mls) = Ok(Cut(s, 2)) /\ tls_serialized_len(kind, v, mls) = 2
    BY <1>2, <2>2 DEF Write, tls_serialized_len
  <2> QED
    BY <2>2, <2>3, <2>4
<1>3. CASE kind = "unit"
  <2>1. Skip(s, 0) = s /\ Cut(s, 0) = <<>> /\ 0 \in 0 .. Len(s)
    BY DEF Skip, Cut
  <2>2. Read(kind, "bytes", s, mls) = Decoded("()", Skip(s, 0))
    BY <1>3, <2>1 DEF Read
  <2>3. Write(kind, "()", mls) = Ok(Cut(s, 0)) /\ tls_serialized_len(kind, "()", mls) = 0
    BY <1>3, <2>1 DEF Write, tls_serialized_len
  <2> QED
    BY <2>1, <2>2, <2>3
<1>4. CASE kind = "option"
  <2>1. ReadOption(s) # Err
    BY <1>4 DEF Read
  <2>2. PICK n, v :
          n \in 0 .. Len(s) /\ ReadOption(s) = Decoded(v, Skip(s, n)) /\ <<Len(v)>> \o v = Cut(s, n) /\ 1 + Len(v) = n
    BY <2>1, OptionIsUnique
  <2>3. Read(kind, "bytes", s, mls) = Decoded(v, Skip(s, n))
    BY <1>4, <2>2 DEF Read
  <2>4. Write(kind, v, mls) = Ok(Cut(s, n)) /\ tls_serialized_len(kind, v, mls) = n
    BY <1>4, <2>2 DEF Write, tls_serialized_len
  <2> QED
    BY <2>2, <2>3, <2>4
<1>5. CASE kind = "VLBytes"
  <2>1. mls = TRUE /\ VLBytesOfSlice(s, TRUE) # Err /\ Took(VLBytesOfSlice(s, TRUE), s) <= MAX_MLS_LEN
    BY <1>5 DEF Read
  <2>2. PICK n \in 0 .. Len(s), v \in Seq(Octets) :
          /\ VLBytesOfSlice(s, TRUE) = Decoded(v, Skip(s, n))
          /\ WriteVLBytes(v, TRUE) = Ok(Cut(s, n)) /\ tls_serialize_bytes_len(Len(v), TRUE) = n
    BY <2>1, VLBytesUnique
  <2>3. Read(kind, "bytes", s, mls) = Decoded(v, Skip(s, n))
    BY <1>5, <2>1, <2>2 DEF Read
  <2>4. Write(kind, v, mls) = Ok(Cut(s, n)) /\ tls_serialized_len(kind, v, mls) = n
    BY <1>5, <2>1, <2>2 DEF Write, tls_serialized_len
  <2> QED
    BY <2>3, <2>4
<1> QED
  BY <1>1, <1>2, <1>3, <1>4, <1>5 DEF Kinds

--------------------------------------------------------------------------------
(* The length of the contents is the sum of those of the elements.         *)
SizeOf(kind, v, mls, i) == tls_serialized_len(kind, v[i], mls)
Largest(s) == Max(s)
Folds(kind, v, mls, f, k) ==
  f = [s \in SUBSET (1 .. k) |->
         IF s = {} THEN 0 ELSE f[s \ {Largest(s)}] + SizeOf(kind, v, mls, Largest(s))]

LEMMA LargestIs ==
  ASSUME NEW k \in Nat, NEW s \in SUBSET (1 .. k + 1), k + 1 \in s
  PROVE  Largest(s) = k + 1 /\ s \ {k + 1} \in SUBSET (1 .. k)
<1>1. \A y \in s : k + 1 >= y
  OBVIOUS
<1>2. \A x \in s : (\A y \in s : x >= y) => x = k + 1
  OBVIOUS
<1>3. Largest(s) = k + 1
  BY <1>1, <1>2 DEF Largest, Max
<1>4. s \ {k + 1} \in SUBSET (1 .. k)
  OBVIOUS
<1> QED
  BY <1>3, <1>4

LEMMA FoldsExist ==
  ASSUME NEW kind, NEW v, NEW mls, NEW k \in Nat
  PROVE  \E f : Folds(kind, v, mls, f, k)
<1> DEFINE Exists == {n \in Nat : \E f : Folds(kind, v, mls, f, n)}
<1>1. 0 \in Exists
  <2> DEFINE g == [s \in SUBSET (1 .. 0) |-> 0]
  <2>1. \A s \in SUBSET (1 .. 0) : s = {}
    OBVIOUS
  <2>2. Folds(kind, v, mls, g, 0)
    BY <2>1 DEF Folds
  <2> HIDE DEF g
  <2> QED
    BY <2>2
<1>2. ASSUME NEW n \in Exists PROVE n + 1 \in Exists
  <2>1. PICK f : Folds(kind, v, mls, f, n)
    OBVIOUS
  <2>2. n \in Nat
    OBVIOUS
  <2> DEFINE Of(s) == IF n + 1 \in s THEN f[s \ {n + 1}] + SizeOf(kind, v, mls, n + 1) ELSE f[s]
             g == [s \in SUBSET (1 .. n + 1) |-> Of(s)]
  <2>3. ASSUME NEW s \in SUBSET (1 .. n + 1)
        PROVE  Of(s) = IF s = {} THEN 0 ELSE g[s \ {Largest(s)}] + SizeOf(kind, v, mls, Largest(s))
    <3>1. CASE n + 1 \in s
      <4>1. Largest(s) = n + 1 /\ s \ {n + 1} \in SUBSET (1 .. n)
        BY <2>2, <3>1, LargestIs
      <4>2. g[s \ {n + 1}] = f[s \ {n + 1}]
        OBVIOUS
      <4>3. s # {} /\ Of(s) = f[s \ {n + 1}] + SizeOf(kind, v, mls, n + 1)
        BY <3>1
      <4> HIDE DEF Of, g
      <4> QED
        BY <4>1, <4>2, <4>3
    <3>2. CASE n + 1 \notin s
      <4>1. s \in SUBSET (1 .. n)
        BY <2>2, <3>2
      <4>2. f[s] = IF s = {} THEN 0 ELSE f[s \ {Largest(s)}] + SizeOf(kind, v, mls, Largest(s))
        BY <2>1, <4>1 DEF Folds
      <4>3. g[s \ {Largest(s)}] = f[s \ {Largest(s)}]
        BY <3>2
      <4>4. Of(s) = f[s]
        BY <3>2
      <4> HIDE DEF Of, g
      <4> QED
        BY <4>2, <4>3, <4>4
    <3> QED
      BY <3>1, <3>2
  <2>4. g = [s \in SUBSET (1 .. n + 1) |->
               IF s = {} THEN 0 ELSE g[s \ {Largest(s)}] + SizeOf(kind, v, mls, Largest(s))]
    <3> HIDE DEF Of
    <3> QED
      BY <2>3
  <2> HIDE DEF g
  <2>5. Folds(kind, v, mls, g, n + 1)
    BY <2>4 DEF Folds
  <2> QED
    BY <2>2, <2>5
<1>3. Exists = Nat
  <2> HIDE DEF Exists
  <2>1. Exists \in SUBSET Nat
    BY DEF Exists
  <2> QED
    BY <1>1, <1>2, <2>1, Induction
<1> QED
  BY <1>3

LEMMA ContentLengthFolds ==
  ASSUME NEW kind, kind # "octets", NEW v, IsSequence(v), NEW mls
  PROVE  \E f : Folds(kind, v, mls, f, Len(v)) /\ ContentLength(kind, v, mls) = f[1 .. Len(v)]
<1> DEFINE f == CHOOSE g : Folds(kind, v, mls, g, Len(v))
<1>1. DOMAIN v = 1 .. Len(v) /\ Len(v) \in Nat
  BY SequenceShape
<1>2. Folds(kind, v, mls, f, Len(v))
  BY <1>1, FoldsExist
<1>3. ContentLength(kind, v, mls) = f[DOMAIN v]
  BY <1>1 DEF ContentLength, FoldLeft, MapThenFoldSet, Folds, Largest, SizeOf
<1> HIDE DEF f
<1> QED
  BY <1>1, <1>2, <1>3

LEMMA FoldStep ==
  ASSUME NEW kind, NEW v, NEW mls, NEW f, NEW k \in Nat, Folds(kind, v, mls, f, k)
  PROVE  /\ f[1 .. 0] = 0
         /\ \A n \in 0 .. k - 1 : f[1 .. n + 1] = f[1 .. n] + SizeOf(kind, v, mls, n + 1)
<1>0. \A s \in SUBSET (1 .. k) :
        f[s] = IF s = {} THEN 0 ELSE f[s \ {Largest(s)}] + SizeOf(kind, v, mls, Largest(s))
  BY DEF Folds
<1>1. f[1 .. 0] = 0
  <2>1. 1 .. 0 = {} /\ {} \in SUBSET (1 .. k)
    OBVIOUS
  <2> QED
    BY <1>0, <2>1
<1>2. ASSUME NEW n \in 0 .. k - 1 PROVE f[1 .. n + 1] = f[1 .. n] + SizeOf(kind, v, mls, n + 1)
  <2> DEFINE s == 1 .. n + 1
  <2>1. n \in Nat /\ s \in SUBSET (1 .. k) /\ s # {} /\ n + 1 \in s /\ s \ {n + 1} = 1 .. n
    OBVIOUS
  <2>2. Largest(s) = n + 1
    <3>1. s \in SUBSET (1 .. n + 1)
      OBVIOUS
    <3> HIDE DEF s
    <3> QED
      BY <2>1, <3>1, LargestIs
  <2> HIDE DEF s
  <2>3. f[s] = f[1 .. n] + SizeOf(kind, v, mls, n + 1)
    BY <1>0, <2>1, <2>2
  <2> QED
    BY <2>3 DEF s
<1> QED
  BY <1>1, <1>2

LEMMA LengthOfNone ==
  ASSUME NEW kind, kind # "octets", NEW mls
  PROVE  ContentLength(kind, <<>>, mls) = 0
<1>1. IsSequence(<<>>) /\ Len(<<>>) = 0 /\ 0 \in Nat
  BY EmptyIsSequence
<1>2. PICK f : Folds(kind, <<>>, mls, f, 0) /\ ContentLength(kind, <<>>, mls) = f[1 .. 0]
  BY <1>1, ContentLengthFolds
<1> QED
  BY <1>1, <1>2, FoldStep

LEMMA LengthOfMore ==
  ASSUME NEW kind, kind # "octets", NEW mls, NEW v, IsSequence(v), NEW e
  PROVE  ContentLength(kind, Append(v, e), mls) = ContentLength(kind, v, mls) + tls_serialized_len(kind, e, mls)
<1> DEFINE u == Append(v, e)
           n == Len(v)
<1>1. /\ IsSequence(u) /\ Len(u) = n + 1 /\ n \in Nat /\ u[n + 1] = e
      /\ \A i \in 1 .. n : u[i] = v[i]
  BY AppendFacts, SequenceShape
<1>e. n = Len(v)
  OBVIOUS
<1> HIDE DEF u, n
<1>2. PICK f : Folds(kind, v, mls, f, n) /\ ContentLength(kind, v, mls) = f[1 .. n]
  BY <1>e, ContentLengthFolds
<1>3. PICK g : Folds(kind, u, mls, g, n + 1) /\ ContentLength(kind, u, mls) = g[1 .. n + 1]
  BY <1>1, ContentLengthFolds
<1> DEFINE Same == {k \in Nat : k <= n => f[1 .. k] = g[1 .. k]}
<1>4. 0 \in Same
  <2>1. f[1 .. 0] = 0 /\ g[1 .. 0] = 0
    BY <1>1, <1>2, <1>3, FoldStep
  <2> QED
    BY <2>1
<1>5. ASSUME NEW k \in Same PROVE k + 1 \in Same
  <2> SUFFICES ASSUME k + 1 <= n PROVE f[1 .. k + 1] = g[1 .. k + 1]
    OBVIOUS
  <2>1. k \in 0 .. n - 1 /\ k \in 0 .. (n + 1) - 1 /\ k + 1 \in 1 .. n /\ n + 1 \in Nat
    BY <1>1
  <2>2. f[1 .. k] = g[1 .. k]
    BY <1>1
  <2>3. f[1 .. k + 1] = f[1 .. k] + SizeOf(kind, v, mls, k + 1)
    BY <1>1, <1>2, <2>1, FoldStep
  <2>4. g[1 .. k + 1] = g[1 .. k] + SizeOf(kind, u, mls, k + 1)
    BY <1>3, <2>1, FoldStep
  <2>5. SizeOf(kind, v, mls, k + 1) = SizeOf(kind, u, mls, k + 1)
    BY <1>1, <2>1 DEF SizeOf
  <2> QED
    BY <2>2, <2>3, <2>4, <2>5
<1>6. Same = Nat
  <2> HIDE DEF Same
  <2>1. Same \in SUBSET Nat
    BY DEF Same
  <2> QED
    BY <1>4, <1>5, <2>1, Induction
<1>7. f[1 .. n] = g[1 .. n]
  BY <1>1, <1>6
<1>8. g[1 .. n + 1] = g[1 .. n] + SizeOf(kind, u, mls, n + 1)
  <2>1. n + 1 \in Nat /\ n \in 0 .. (n + 1) - 1
    BY <1>1
  <2> QED
    BY <1>3, <2>1, FoldStep
<1> QED
  BY <1>1, <1>2, <1>3, <1>7, <1>8 DEF SizeOf, u

--------------------------------------------------------------------------------
(* Joining one sequence more.                                              *)
Joining(t, v) == \A i \in 1 .. Len(t) : v[i] = IF i = 1 THEN t[i] ELSE v[i - 1] \o t[i]

LEMMA FlattenJoins ==
  ASSUME NEW t, IsSequence(t), Len(t) # 0
  PROVE  \E v : Joining(t, v) /\ FlattenSeq(t) = v[Len(t)]
<1> DEFINE Joined(x, i) == x \o t[i]
           Joins(f, k) == f = [i \in 1 .. k |-> IF i = 1 THEN t[i] ELSE Joined(f[i - 1], i)]
           Exists == {k \in Nat : k <= Len(t) => \E f : Joins(f, k)}
           v == CHOOSE f : Joins(f, Len(t))
<1>0. Len(t) \in Nat
  BY SequenceShape
<1> HIDE DEF Joined
<1>2. 0 \in Exists
  <2> DEFINE g == [i \in 1 .. 0 |-> <<>>]
  <2>1. Joins(g, 0)
    OBVIOUS
  <2> HIDE DEF g, Joins
  <2> QED
    BY <2>1
<1>3. ASSUME NEW k \in Exists PROVE k + 1 \in Exists
  <2> SUFFICES ASSUME k + 1 <= Len(t) PROVE \E f : Joins(f, k + 1)
    OBVIOUS
  <2>1. PICK f : Joins(f, k)
    BY <1>0
  <2> DEFINE g == [i \in 1 .. k + 1 |->
                     IF i = k + 1 THEN (IF k = 0 THEN t[1] ELSE Joined(f[k], k + 1)) ELSE f[i]]
  <2>2. \A i \in 1 .. k + 1 : g[i] = IF i = 1 THEN t[i] ELSE Joined(g[i - 1], i)
    BY <2>1, SMTT(30)
  <2>3. Joins(g, k + 1)
    BY <2>2
  <2> HIDE DEF g, Joins
  <2> QED
    BY <2>3
<1>4. Exists = Nat
  <2> HIDE DEF Exists
  <2>1. Exists \in SUBSET Nat
    BY DEF Exists
  <2> QED
    BY <1>2, <1>3, <2>1, Induction
<1>5. Joins(v, Len(t))
  <2> HIDE DEF Joins
  <2>1. \E f : Joins(f, Len(t))
    <3>1. Len(t) \in Exists
      BY <1>0, <1>4
    <3> QED
      BY <3>1
  <2> QED
    BY <2>1
<1>6. FlattenSeq(t) = v[Len(t)]
  BY DEF FlattenSeq, Joined
<1>7. Joining(t, v)
  <2> HIDE DEF v
  <2> QED
    BY <1>0, <1>5 DEF Joining, Joined
<1> HIDE DEF v
<1> QED
  BY <1>6, <1>7

LEMMA FlattenOfMore ==
  ASSUME NEW t, IsSequence(t), NEW e, IsSequence(e)
  PROVE  FlattenSeq(Append(t, e)) = FlattenSeq(t) \o e
<1> DEFINE u == Append(t, e)
           n == Len(t)
<1>1. /\ IsSequence(u) /\ Len(u) = n + 1 /\ n \in Nat /\ u[n + 1] = e /\ Len(u) # 0
      /\ \A i \in 1 .. n : u[i] = t[i]
  BY AppendFacts, SequenceShape
<1>e. n = Len(t)
  OBVIOUS
<1> HIDE DEF u, n
<1>2. PICK g : Joining(u, g) /\ FlattenSeq(u) = g[n + 1]
  BY <1>1, FlattenJoins
<1>3. CASE n = 0
  <2>1. t = <<>> /\ FlattenSeq(t) = t
    BY <1>3, <1>e, SequenceShape DEF FlattenSeq
  <2>2. 1 \in 1 .. Len(u) /\ n + 1 = 1
    BY <1>1, <1>3
  <2>3. FlattenSeq(u) = e
    BY <1>1, <1>2, <2>2 DEF Joining
  <2> QED
    BY <2>1, <2>3, NothingAdded DEF u
<1>4. CASE n # 0
  <2>1. PICK f : Joining(t, f) /\ FlattenSeq(t) = f[n]
    BY <1>4, <1>e, FlattenJoins
  <2> DEFINE Same == {k \in Nat : k + 1 <= n => f[k + 1] = g[k + 1]}
  <2>2. 0 \in Same
    <3>1. 1 \in 1 .. Len(t) /\ 1 \in 1 .. Len(u) /\ t[1] = u[1]
      BY <1>1, <1>4, <1>e
    <3>2. f[1] = t[1] /\ g[1] = u[1]
      BY <1>2, <2>1, <3>1 DEF Joining
    <3> QED
      BY <3>1, <3>2
  <2>3. ASSUME NEW k \in Same PROVE k + 1 \in Same
    <3> SUFFICES ASSUME (k + 1) + 1 <= n PROVE f[(k + 1) + 1] = g[(k + 1) + 1]
      OBVIOUS
    <3> DEFINE i == (k + 1) + 1
    <3>1. i \in 1 .. Len(t) /\ i \in 1 .. Len(u) /\ i # 1 /\ i - 1 = k + 1 /\ t[i] = u[i]
      BY <1>1, <1>e
    <3>2. f[k + 1] = g[k + 1]
      BY <1>1
    <3> HIDE DEF i
    <3>3. f[i] = f[i - 1] \o t[i]
      BY <2>1, <3>1 DEF Joining
    <3>4. g[i] = g[i - 1] \o u[i]
      BY <1>2, <3>1 DEF Joining
    <3>5. f[i] = g[i]
      BY <3>1, <3>2, <3>3, <3>4
    <3> QED
      BY <3>5 DEF i
  <2>4. Same = Nat
    <3> HIDE DEF Same
    <3>1. Same \in SUBSET Nat
      BY DEF Same
    <3> QED
      BY <2>2, <2>3, <3>1, Induction
  <2>5. f[n] = g[n]
    <3>1. n - 1 \in Nat /\ (n - 1) + 1 = n /\ n <= n
      BY <1>1, <1>4
    <3>2. n - 1 \in Same
      BY <2>4, <3>1
    <3>3. f[(n - 1) + 1] = g[(n - 1) + 1]
      BY <3>1, <3>2
    <3> QED
      BY <3>1, <3>3
  <2>6. g[n + 1] = g[n] \o u[n + 1]
    <3> DEFINE i == n + 1
    <3>1. i \in 1 .. Len(u) /\ i # 1 /\ i - 1 = n
      BY <1>1, <1>4
    <3> HIDE DEF i
    <3>2. g[i] = g[i - 1] \o u[i]
      BY <1>2, <3>1 DEF Joining
    <3> QED
      BY <3>1, <3>2 DEF i
  <2> QED
    BY <1>1, <1>2, <2>1, <2>5, <2>6 DEF u
<1> QED
  BY <1>3, <1>4

--------------------------------------------------------------------------------
(* The contents of a vector: what its elements are written as, joined.     *)
Parts(kind, v, mls) == [i \in DOMAIN v |-> Write(kind, v[i], mls)[1]]
Joined(kind, v, mls) == FlattenSeq(Parts(kind, v, mls))
IsWritten(kind, e, mls) ==
  /\ Write(kind, e, mls) # Err
  /\ Write(kind, e, mls)[1] \in Seq(Octets)
  /\ Len(Write(kind, e, mls)[1]) = tls_serialized_len(kind, e, mls)
Writable(kind, v, mls) == IsSequence(v) /\ \A i \in DOMAIN v : IsWritten(kind, v[i], mls)

LEMMA ElementIsWritten ==
  ASSUME NEW kind \in Kinds, NEW v \in Values(kind), NEW mls \in BOOLEAN, Write(kind, v, mls) # Err
  PROVE  IsWritten(kind, v, mls)
<1>1. <<>> \in Seq(Octets)
  OBVIOUS
<1> QED
  BY <1>1, ElementBack DEF IsWritten

LEMMA WrittenSoFar ==
  ASSUME NEW kind, NEW mls, NEW v, Writable(kind, v, mls), NEW k \in 0 .. Len(v)
  PROVE  Writable(kind, Cut(v, k), mls) /\ Len(Cut(v, k)) = k
<1> DEFINE S == Elements(v)
<1>1. v \in Seq(S) /\ DOMAIN v = 1 .. Len(v) /\ Len(v) \in Nat
  BY SequenceShape DEF Writable, IsSequence
<1> HIDE DEF S
<1>2. Cut(v, k) \in Seq(S) /\ Len(Cut(v, k)) = k /\ \A i \in 1 .. k : Cut(v, k)[i] = v[i]
  BY <1>1, Cuts
<1>3. IsSequence(Cut(v, k))
  BY <1>2, OfItsElements
<1>4. DOMAIN Cut(v, k) = 1 .. k
  BY <1>2, <1>3, SequenceShape
<1>5. \A i \in 1 .. k : i \in DOMAIN v
  BY <1>1
<1> QED
  BY <1>2, <1>3, <1>4, <1>5 DEF Writable

LEMMA CutOfMore ==
  ASSUME NEW v, IsSequence(v), NEW k \in 0 .. Len(v) - 1
  PROVE  /\ Cut(v, k + 1) = Append(Cut(v, k), v[k + 1])
         /\ IsSequence(Cut(v, k)) /\ Len(Cut(v, k)) = k
<1> DEFINE S == Elements(v)
           m == k + 1
           a == Cut(v, k)
           b == Cut(v, m)
<1>1. v \in Seq(S) /\ Len(v) \in Nat
  BY SequenceShape DEF IsSequence
<1>2. k \in Nat /\ k \in 0 .. Len(v) /\ m \in 0 .. Len(v) /\ m = k + 1
  BY <1>1
<1> HIDE DEF S, m
<1>3. a \in Seq(S) /\ Len(a) = k /\ \A i \in 1 .. k : a[i] = v[i]
  BY <1>1, <1>2, Cuts
<1>4. b \in Seq(S) /\ Len(b) = m /\ \A i \in 1 .. m : b[i] = v[i]
  BY <1>1, <1>2, Cuts
<1> HIDE DEF a, b
<1>5. IsSequence(a) /\ IsSequence(b)
  BY <1>3, <1>4, OfItsElements
<1> DEFINE e == v[m]
           c == Append(a, e)
<1> HIDE DEF e
<1>6. IsSequence(c) /\ Len(c) = k + 1 /\ (\A i \in 1 .. k : c[i] = a[i]) /\ c[k + 1] = e
  BY <1>3, <1>5, AppendFacts
<1> HIDE DEF c
<1>7. \A i \in 1 .. m : c[i] = b[i]
  <2>1. \A i \in 1 .. m : i \in 1 .. k \/ i = k + 1
    BY <1>2
  <2>2. c[k + 1] = b[m]
    BY <1>2, <1>4, <1>6 DEF e
  <2> QED
    BY <1>2, <1>3, <1>4, <1>6, <2>1, <2>2
<1>8. b = c
  BY <1>2, <1>4, <1>5, <1>6, <1>7, SequencesEqual
<1> QED
  BY <1>3, <1>5, <1>8 DEF a, b, c, e, m

LEMMA PartsOfMore ==
  ASSUME NEW kind, NEW mls, NEW v, IsSequence(v), NEW e
  PROVE  /\ IsSequence(Parts(kind, v, mls))
         /\ Parts(kind, Append(v, e), mls) = Append(Parts(kind, v, mls), Write(kind, e, mls)[1])
<1> DEFINE u == Append(v, e)
           n == Len(v)
           p == Parts(kind, v, mls)
           q == Parts(kind, u, mls)
           w == Write(kind, e, mls)[1]
           a == Append(p, w)
<1>0. n \in Nat /\ DOMAIN v = 1 .. n
  BY SequenceShape
<1>1. /\ DOMAIN u = 1 .. n + 1 /\ u[n + 1] = e
      /\ \A i \in 1 .. n : u[i] = v[i]
  BY AppendFacts
<1> HIDE DEF u
<1>2. /\ p = [i \in 1 .. n |-> Write(kind, v[i], mls)[1]]
      /\ q = [i \in 1 .. n + 1 |-> Write(kind, u[i], mls)[1]]
  BY <1>0, <1>1 DEF Parts
<1> HIDE DEF n, p, q, w
<1>3. IsSequence(p) /\ Len(p) = n
  <2>1. p \in Seq({p[i] : i \in 1 .. n}) /\ Len(p) = n
    BY <1>0, <1>2
  <2> QED
    BY <2>1, OfItsElements
<1>4. IsSequence(q) /\ Len(q) = n + 1
  <2> DEFINE m == n + 1
  <2>1. m \in Nat /\ q = [i \in 1 .. m |-> Write(kind, u[i], mls)[1]]
    BY <1>0, <1>2
  <2> HIDE DEF m
  <2>2. q \in Seq({q[i] : i \in 1 .. m}) /\ Len(q) = m
    BY <2>1
  <2> QED
    BY <2>2, OfItsElements DEF m
<1>5. IsSequence(a) /\ Len(a) = n + 1 /\ (\A i \in 1 .. n : a[i] = p[i]) /\ a[n + 1] = w
  BY <1>3, AppendFacts
<1> HIDE DEF a
<1>6. ASSUME NEW i \in 1 .. n + 1 PROVE q[i] = a[i]
  <2>1. i \in 1 .. n \/ i = n + 1
    BY <1>0
  <2>2. CASE i \in 1 .. n
    BY <1>1, <1>2, <1>5, <2>2
  <2>3. CASE i = n + 1
    <3>1. q[i] = Write(kind, u[i], mls)[1] /\ u[i] = e
      BY <1>1, <1>2, <2>3
    <3> QED
      BY <1>5, <2>3, <3>1 DEF w
  <2> QED
    BY <2>1, <2>2, <2>3
<1>7. q = a
  BY <1>4, <1>5, <1>6, SequencesEqual
<1> QED
  BY <1>3, <1>7 DEF p, q, a, w, u

LEMMA JoinedOfNone ==
  ASSUME NEW kind, NEW mls
  PROVE  Joined(kind, <<>>, mls) = <<>> /\ Writable(kind, <<>>, mls)
<1>1. Parts(kind, <<>>, mls) = <<>>
  BY EmptyIsSequence DEF Parts
<1> QED
  BY <1>1, EmptyIsSequence DEF Joined, FlattenSeq, Writable

LEMMA JoinedOfMore ==
  ASSUME NEW kind, NEW mls, NEW v, Writable(kind, v, mls), NEW e, IsWritten(kind, e, mls)
  PROVE  /\ Writable(kind, Append(v, e), mls)
         /\ Joined(kind, Append(v, e), mls) = Joined(kind, v, mls) \o Write(kind, e, mls)[1]
<1>1. IsSequence(v) /\ DOMAIN v = 1 .. Len(v) /\ Len(v) \in Nat
  BY SequenceShape DEF Writable
<1>2. Writable(kind, Append(v, e), mls)
  <2> DEFINE u == Append(v, e)
  <2>1. /\ IsSequence(u) /\ DOMAIN u = 1 .. Len(v) + 1 /\ u[Len(v) + 1] = e
        /\ \A i \in 1 .. Len(v) : u[i] = v[i]
    BY <1>1, AppendFacts
  <2> HIDE DEF u
  <2>2. \A i \in DOMAIN u : i \in 1 .. Len(v) \/ i = Len(v) + 1
    BY <1>1, <2>1
  <2>3. \A i \in DOMAIN u : IsWritten(kind, u[i], mls)
    BY <1>1, <2>1, <2>2 DEF Writable
  <2> QED
    BY <2>1, <2>3 DEF Writable, u
<1>3. IsSequence(Write(kind, e, mls)[1])
  BY OfItsElements DEF IsWritten
<1>4. /\ IsSequence(Parts(kind, v, mls))
      /\ Parts(kind, Append(v, e), mls) = Append(Parts(kind, v, mls), Write(kind, e, mls)[1])
  BY <1>1, PartsOfMore
<1>5. FlattenSeq(Append(Parts(kind, v, mls), Write(kind, e, mls)[1]))
        = FlattenSeq(Parts(kind, v, mls)) \o Write(kind, e, mls)[1]
  BY <1>3, <1>4, FlattenOfMore
<1> QED
  BY <1>2, <1>4, <1>5 DEF Joined

(* Written up to an element, and with it.                                  *)
LEMMA OneMore ==
  ASSUME NEW kind, kind # "octets", NEW mls, NEW v, Writable(kind, v, mls), NEW k \in 0 .. Len(v) - 1
  PROVE  /\ IsWritten(kind, v[k + 1], mls) /\ Cut(v, k + 1) = Append(Cut(v, k), v[k + 1])
         /\ Joined(kind, Cut(v, k + 1), mls) = Joined(kind, Cut(v, k), mls) \o Write(kind, v[k + 1], mls)[1]
         /\ ContentLength(kind, Cut(v, k + 1), mls)
              = ContentLength(kind, Cut(v, k), mls) + tls_serialized_len(kind, v[k + 1], mls)
<1>1. IsSequence(v) /\ DOMAIN v = 1 .. Len(v) /\ Len(v) \in Nat
  BY SequenceShape DEF Writable
<1>2. k \in 0 .. Len(v) /\ k + 1 \in DOMAIN v
  BY <1>1
<1>3. IsWritten(kind, v[k + 1], mls) /\ Writable(kind, Cut(v, k), mls)
  BY <1>2, WrittenSoFar DEF Writable
<1>4. Cut(v, k + 1) = Append(Cut(v, k), v[k + 1]) /\ IsSequence(Cut(v, k))
  BY <1>1, CutOfMore
<1> QED
  BY <1>3, <1>4, JoinedOfMore, LengthOfMore

LEMMA JoinedIsWritten ==
  ASSUME NEW kind, kind # "octets", NEW mls, NEW v, Writable(kind, v, mls)
  PROVE  /\ Contents(kind, v, mls) = Ok(Joined(kind, v, mls))
         /\ Joined(kind, v, mls) \in Seq(Octets)
         /\ Len(Joined(kind, v, mls)) = ContentLength(kind, v, mls)
         /\ ContentLength(kind, v, mls) \in Nat
<1> DEFINE J(n) == Joined(kind, Cut(v, n), mls)
           C(n) == ContentLength(kind, Cut(v, n), mls)
           Fits == {n \in Nat : n <= Len(v) => J(n) \in Seq(Octets) /\ Len(J(n)) = C(n)}
<1>0. IsSequence(v) /\ DOMAIN v = 1 .. Len(v) /\ Len(v) \in Nat
  BY SequenceShape DEF Writable
<1>1. 0 \in Fits
  <2>1. Cut(v, 0) = <<>>
    BY <1>0 DEF Cut
  <2>2. Joined(kind, <<>>, mls) = <<>> /\ ContentLength(kind, <<>>, mls) = 0
    BY JoinedOfNone, LengthOfNone
  <2>3. <<>> \in Seq(Octets) /\ Len(<<>>) = 0
    OBVIOUS
  <2> QED
    BY <2>1, <2>2, <2>3
<1>2. ASSUME NEW n \in Fits PROVE n + 1 \in Fits
  <2> SUFFICES ASSUME n + 1 <= Len(v) PROVE J(n + 1) \in Seq(Octets) /\ Len(J(n + 1)) = C(n + 1)
    OBVIOUS
  <2>1. n \in 0 .. Len(v) - 1 /\ J(n) \in Seq(Octets) /\ Len(J(n)) = C(n)
    BY <1>0
  <2> DEFINE w == Write(kind, v[n + 1], mls)[1]
             size == tls_serialized_len(kind, v[n + 1], mls)
  <2>2. w \in Seq(Octets) /\ Len(w) = size
    BY <2>1, OneMore DEF IsWritten
  <2> DEFINE before == J(n)
             after == J(n + 1)
             c == C(n)
             d == C(n + 1)
  <2>3. after = before \o w /\ d = c + size
    BY <2>1, OneMore, ZenonT(60)
  <2>4. before \in Seq(Octets) /\ Len(before) = c
    BY <2>1
  <2> HIDE DEF w, size, before, after, c, d
  <2>5. (before \o w) \in Seq(Octets) /\ Len(before \o w) = Len(before) + Len(w)
    <3>1. before \in Seq(Octets) /\ w \in Seq(Octets)
      BY <2>2, <2>4
    <3>2. IsSequence(before) /\ IsSequence(w)
      BY <3>1, OfItsElements
    <3> QED
      BY <3>1, <3>2, ConcatFacts
  <2>6. d = Len(before) + Len(w)
    BY <2>2, <2>3, <2>4
  <2> QED
    BY <2>3, <2>5, <2>6 DEF after, d
<1>3. Fits = Nat
  <2> HIDE DEF Fits
  <2>1. Fits \in SUBSET Nat
    BY DEF Fits
  <2> QED
    BY <1>1, <1>2, <2>1, Induction
<1>4. J(Len(v)) \in Seq(Octets) /\ Len(J(Len(v))) = C(Len(v))
  BY <1>0, <1>3
<1>5. Cut(v, Len(v)) = v
  BY <1>0, WholeSegment DEF Cut
<1>6. Contents(kind, v, mls) = Ok(Joined(kind, v, mls))
  BY DEF Contents, Joined, Parts, Writable, IsWritten
<1>7. Joined(kind, v, mls) \in Seq(Octets) /\ Len(Joined(kind, v, mls)) = ContentLength(kind, v, mls)
  BY <1>4, <1>5
<1> QED
  BY <1>6, <1>7

(* What is written up to an element begins what is written of the vector.  *)
LEMMA WrittenAhead ==
  ASSUME NEW kind, kind # "octets", NEW mls, NEW v, Writable(kind, v, mls), NEW k \in 0 .. Len(v)
  PROVE  /\ \E t \in Seq(Octets) : Joined(kind, v, mls) = Joined(kind, Cut(v, k), mls) \o t
         /\ ContentLength(kind, Cut(v, k), mls) \in Nat
         /\ ContentLength(kind, Cut(v, k), mls) <= ContentLength(kind, v, mls)
<1> DEFINE J(n) == Joined(kind, Cut(v, n), mls)
           Begins == {d \in Nat : k + d <= Len(v) => \E t \in Seq(Octets) : J(k + d) = J(k) \o t}
<1>0. IsSequence(v) /\ Len(v) \in Nat /\ k \in Nat
  BY SequenceShape DEF Writable
<1>j. \A n \in 0 .. Len(v) : /\ J(n) \in Seq(Octets) /\ IsSequence(J(n))
                             /\ Len(J(n)) = ContentLength(kind, Cut(v, n), mls)
  BY WrittenSoFar, JoinedIsWritten, OfItsElements
<1>1. 0 \in Begins
  <2>1. k + 0 = k /\ <<>> \in Seq(Octets)
    BY <1>0
  <2>2. J(k) = J(k) \o <<>>
    BY <1>j, NothingAdded
  <2> HIDE DEF J
  <2> QED
    BY <2>1, <2>2
<1>2. ASSUME NEW d \in Begins PROVE d + 1 \in Begins
  <2>0. d \in Nat /\ d + 1 \in Nat
    OBVIOUS
  <2> SUFFICES ASSUME k + (d + 1) <= Len(v) PROVE \E t \in Seq(Octets) : J(k + (d + 1)) = J(k) \o t
    BY <2>0
  <2> DEFINE n == k + d
  <2>1. d \in Nat /\ n \in 0 .. Len(v) - 1 /\ k + (d + 1) = n + 1 /\ k + d <= Len(v)
    BY <1>0
  <2>2. PICK t \in Seq(Octets) : J(n) = J(k) \o t
    BY <2>1
  <2> HIDE DEF n
  <2> DEFINE w == Write(kind, v[n + 1], mls)[1]
  <2>3. w \in Seq(Octets) /\ J(n + 1) = J(n) \o w
    BY <2>1, OneMore DEF IsWritten
  <2> DEFINE a == J(k)
             b == J(n)
             c == J(n + 1)
  <2>4. a \in Seq(Octets) /\ b = a \o t /\ c = b \o w
    BY <1>j, <2>2, <2>3
  <2> HIDE DEF w, a, b, c
  <2>5. (t \o w) \in Seq(Octets)
    BY <2>3
  <2>6. IsSequence(a) /\ IsSequence(t) /\ IsSequence(w)
    BY <2>3, <2>4, OfItsElements
  <2>7. c = a \o (t \o w)
    <3>1. (a \o t) \o w = a \o (t \o w)
      BY ONLY <2>6, ConcatAssociates, SMTT(30)
    <3> QED
      BY <2>4, <3>1
  <2> QED
    BY <2>1, <2>5, <2>7 DEF a, c
<1>3. Begins = Nat
  <2> HIDE DEF Begins
  <2>1. Begins \in SUBSET Nat
    BY DEF Begins
  <2> QED
    BY <1>1, <1>2, <2>1, Induction
<1>4. PICK t \in Seq(Octets) : J(Len(v)) = J(k) \o t
  <2> DEFINE d == Len(v) - k
  <2>1. d \in Nat /\ k + d = Len(v) /\ k + d <= Len(v)
    BY <1>0
  <2> HIDE DEF d
  <2>2. \E t \in Seq(Octets) : J(k + d) = J(k) \o t
    BY <1>3, <2>1
  <2> QED
    BY <2>1, <2>2
<1>5. Cut(v, Len(v)) = v
  BY <1>0, WholeSegment DEF Cut
<1>6. Len(J(k)) = ContentLength(kind, Cut(v, k), mls) /\ J(k) \in Seq(Octets)
  BY <1>j
<1>7. Len(J(Len(v))) = ContentLength(kind, v, mls)
  BY <1>0, <1>5, <1>j
<1>8. Len(J(Len(v))) = Len(J(k)) + Len(t) /\ Len(J(k)) \in Nat /\ Len(t) \in Nat
  <2> DEFINE a == J(k)
             b == J(Len(v))
  <2>1. a \in Seq(Octets) /\ b = a \o t
    BY <1>4, <1>6
  <2> HIDE DEF a, b
  <2>2. Len(b) = Len(a) + Len(t) /\ Len(a) \in Nat /\ Len(t) \in Nat
    BY <2>1
  <2> QED
    BY <2>2 DEF a, b
<1>9. Joined(kind, v, mls) = Joined(kind, Cut(v, k), mls) \o t
  BY <1>4, <1>5
<1> HIDE DEF J
<1>10. ContentLength(kind, Cut(v, k), mls) \in Nat
  BY <1>6, <1>8
<1>11. ContentLength(kind, Cut(v, k), mls) <= ContentLength(kind, v, mls)
  BY <1>6, <1>7, <1>8
<1> QED
  BY <1>9, <1>10, <1>11

(* Whatever the elements, the sum is no less than what one of them adds.   *)
LEMMA LengthOfAny ==
  ASSUME NEW kind \in Kinds, NEW mls \in BOOLEAN, NEW v \in Seq(Values(kind))
  PROVE  /\ ContentLength(kind, v, mls) \in Nat
         /\ \A i \in DOMAIN v : tls_serialized_len(kind, v[i], mls) <= ContentLength(kind, v, mls)
<1> DEFINE C(n) == ContentLength(kind, Cut(v, n), mls)
           size(i) == tls_serialized_len(kind, v[i], mls)
           Bounds == {n \in Nat : n <= Len(v) => C(n) \in Nat /\ \A i \in 1 .. n : size(i) <= C(n)}
<1>0. IsSequence(v) /\ DOMAIN v = 1 .. Len(v) /\ Len(v) \in Nat /\ kind # "octets"
  BY OfItsElements, SequenceShape DEF Kinds
<1>1. 0 \in Bounds
  <2>1. Cut(v, 0) = <<>>
    BY <1>0 DEF Cut
  <2>2. C(0) = 0
    BY <1>0, <2>1, LengthOfNone
  <2> HIDE DEF C, size
  <2> QED
    BY <2>2
<1>2. ASSUME NEW n \in Bounds PROVE n + 1 \in Bounds
  <2>0. n \in Nat /\ n + 1 \in Nat
    OBVIOUS
  <2> SUFFICES ASSUME n + 1 <= Len(v) PROVE C(n + 1) \in Nat /\ \A i \in 1 .. n + 1 : size(i) <= C(n + 1)
    BY <2>0
  <2>1. n \in 0 .. Len(v) - 1 /\ n + 1 \in 1 .. Len(v) /\ n <= Len(v)
    BY <1>0, <2>0
  <2>2. C(n) \in Nat /\ \A i \in 1 .. n : size(i) <= C(n)
    BY <2>0, <2>1
  <2>3. \A i \in 1 .. Len(v) : size(i) \in Nat
    <3> SUFFICES ASSUME NEW i \in 1 .. Len(v) PROVE size(i) \in Nat
      OBVIOUS
    <3>1. v[i] \in Values(kind)
      OBVIOUS
    <3> QED
      BY <3>1, ElementRefused
  <2>4. C(n + 1) = C(n) + size(n + 1)
    <3> DEFINE before == Cut(v, n)
               e == v[n + 1]
    <3>1. Cut(v, n + 1) = Append(before, e) /\ IsSequence(before)
      BY <1>0, <2>1, CutOfMore
    <3> HIDE DEF before, e
    <3>2. ContentLength(kind, Append(before, e), mls)
            = ContentLength(kind, before, mls) + tls_serialized_len(kind, e, mls)
      BY <1>0, <3>1, LengthOfMore
    <3> QED
      BY <3>1, <3>2 DEF before, e
  <2> DEFINE before == C(n)
             after == C(n + 1)
  <2>5. before \in Nat /\ after = before + size(n + 1) /\ \A i \in 1 .. n : size(i) <= before
    BY <2>2, <2>4
  <2> HIDE DEF before, after, size
  <2>6. size(n + 1) \in Nat
    BY <2>1, <2>3
  <2>7. after \in Nat /\ before <= after /\ size(n + 1) <= after
    BY <2>5, <2>6
  <2>8. ASSUME NEW i \in 1 .. n + 1 PROVE size(i) <= after
    <3>1. i \in 1 .. n \/ i = n + 1
      BY <2>0
    <3>2. CASE i \in 1 .. n
      <4>1. size(i) <= before /\ size(i) \in Nat
        BY <2>0, <2>1, <2>3, <2>5, <3>2
      <4> QED
        BY <2>5, <2>7, <4>1
    <3>3. CASE i = n + 1
      BY <2>7, <3>3
    <3> QED
      BY <3>1, <3>2, <3>3
  <2> QED
    BY <2>7, <2>8 DEF after
<1>3. Bounds = Nat
  <2> HIDE DEF Bounds
  <2>1. Bounds \in SUBSET Nat
    BY DEF Bounds
  <2> QED
    BY <1>1, <1>2, <2>1, Induction
<1>4. C(Len(v)) \in Nat /\ \A i \in 1 .. Len(v) : size(i) <= C(Len(v))
  <2>1. Len(v) \in Bounds
    BY <1>0, <1>3
  <2> QED
    BY <1>0, <2>1
<1>5. Cut(v, Len(v)) = v
  BY <1>0, WholeSegment DEF Cut
<1> QED
  BY <1>0, <1>4, <1>5

--------------------------------------------------------------------------------
(* The length in front: what fits it, and how it is read.                  *)
Longest(lengths, mls) == IF lengths # "varint" THEN ByteBase - 1 ELSE IF mls THEN MAX_MLS_LEN ELSE MAX
HeadWidth(lengths, n, mls) == IF lengths = "varint" THEN LengthWidth(n, mls) ELSE 1

LEMMA HeadOf ==
  ASSUME NEW lengths \in {"varint", "u8"}, NEW n \in Nat, NEW mls \in BOOLEAN
  PROVE  /\ LengthOctets(lengths, n, mls) = Err <=> n > Longest(lengths, mls)
         /\ LengthOctets(lengths, n, mls) # Err =>
              /\ LengthOctets(lengths, n, mls)[1] \in Seq(Octets)
              /\ Len(LengthOctets(lengths, n, mls)[1]) = HeadWidth(lengths, n, mls)
              /\ \A tail \in Seq(Octets) :
                   LengthOfInput("bytes", lengths, LengthOctets(lengths, n, mls)[1] \o tail, mls) = Decoded(n, tail)
<1>1. CASE lengths = "varint"
  <2>1. MAX_MLS_LEN <= MAX /\ MAX_MLS_LEN \in Nat /\ MAX \in Nat
    BY Rooms
  <2>2. LengthOctets(lengths, n, mls) = WriteLength(n, mls)
    BY <1>1 DEF LengthOctets
  <2>3. Longest(lengths, mls) = IF mls THEN MAX_MLS_LEN ELSE MAX
    BY <1>1 DEF Longest
  <2>4. CASE n > Longest(lengths, mls)
    <3>1. ~(n <= MAX /\ (mls => n <= MAX_MLS_LEN))
      BY <2>1, <2>3, <2>4
    <3>2. WriteLength(n, mls) = Err
      BY <3>1, LengthWritten
    <3> QED
      BY <2>2, <2>4, <3>2
  <2>5. CASE ~(n > Longest(lengths, mls))
    <3>1. n <= MAX /\ (mls => n <= MAX_MLS_LEN)
      BY <2>1, <2>3, <2>5
    <3>2. WriteLength(n, mls) = Ok(write_bytes(n)) /\ WriteLength(n, mls) # Err /\ LengthWidth(n, mls) = bytes_len(n)
      BY <3>1, LengthWritten
    <3>3. <<>> \in Seq(Octets)
      OBVIOUS
    <3>4. write_bytes(n) \in Seq(Octets) /\ Len(write_bytes(n)) = bytes_len(n)
      BY <3>1, <3>3, VarIntBack
    <3>5. \A tail \in Seq(Octets) : ReadVarInt(write_bytes(n) \o tail, mls) = Decoded(n, tail)
      BY <3>1, VarIntBack
    <3>6. LengthOctets(lengths, n, mls)[1] = write_bytes(n)
      BY <2>2, <3>2 DEF Ok
    <3>7. \A s : LengthOfInput("bytes", lengths, s, mls) = ReadVarInt(s, mls)
      BY <1>1 DEF LengthOfInput, ReadLengthBytes
    <3>8. HeadWidth(lengths, n, mls) = bytes_len(n)
      BY <1>1, <3>2 DEF HeadWidth
    <3> QED
      BY <2>2, <2>5, <3>2, <3>4, <3>5, <3>6, <3>7, <3>8
  <2> QED
    BY <2>4, <2>5
<1>2. CASE lengths = "u8"
  <2>1. LengthOctets(lengths, n, mls) = get_content_lengths(n) /\ Longest(lengths, mls) = ByteBase - 1
    BY <1>2 DEF LengthOctets, Longest
  <2>2. CASE n > ByteBase - 1
    BY <2>1, <2>2 DEF get_content_lengths
  <2>3. CASE ~(n > ByteBase - 1)
    <3>1. n \in Octets /\ n < ByteBase
      BY <2>3, Numbers DEF Octets
    <3>2. LengthOctets(lengths, n, mls) = << <<n>> >>
      BY <2>1, <2>3 DEF get_content_lengths, Ok
    <3> DEFINE head == <<n>>
    <3>3. head \in Seq(Octets) /\ Len(head) = 1
      BY <3>1
    <3>4. WriteUnsigned(1, n) = head /\ n < Weight(1)
      <4>1. n \div Weight(1 - 1) = n /\ Weight(1) = ByteBase
        BY DividedByOne, FirstWeights
      <4>2. (n \div Weight(1 - 1)) % ByteBase = n
        <5>1. n % ByteBase = n
          BY <3>1, Numbers
        <5> QED
          BY <4>1, <5>1
      <4>3. WriteUnsigned(1, n) = [i \in 1 .. 1 |-> n]
        <5>1. \A i \in 1 .. 1 : i = 1
          OBVIOUS
        <5> QED
          BY <4>2, <5>1 DEF WriteUnsigned
      <4>4. [i \in 1 .. 1 |-> n] = <<n>>
        OBVIOUS
      <4> QED
        BY <3>1, <4>1, <4>3, <4>4
    <3>5. \A tail \in Seq(Octets) : ReadUnsigned(1, WriteUnsigned(1, n) \o tail) = Decoded(n, tail)
      BY <3>4, UnsignedIsBack
    <3>6. \A s : LengthOfInput("bytes", lengths, s, mls) = ReadUnsigned(1, s)
      BY <1>2 DEF LengthOfInput
    <3>7. HeadWidth(lengths, n, mls) = 1
      BY <1>2 DEF HeadWidth
    <3>8. LengthOctets(lengths, n, mls) = <<head>> /\ LengthOctets(lengths, n, mls) # Err
      BY <3>2 DEF Err
    <3> HIDE DEF head
    <3>9. \A tail \in Seq(Octets) : LengthOfInput("bytes", lengths, head \o tail, mls) = Decoded(n, tail)
      BY <3>4, <3>5, <3>6
    <3> QED
      BY <2>1, <2>3, <3>3, <3>7, <3>8, <3>9
  <2> QED
    BY <2>2, <2>3
<1> QED
  BY <1>1, <1>2

(* What a vector is written as.                                            *)
Body(kind, v, mls) == IF kind = "octets" THEN v ELSE Joined(kind, v, mls)
Complete(kind, v, mls) == IF kind = "octets" THEN v \in Seq(Octets) ELSE Writable(kind, v, mls)

LEMMA SerializedAs ==
  ASSUME NEW kind, NEW mls, NEW v, Complete(kind, v, mls), NEW lengths
  PROVE  /\ Body(kind, v, mls) \in Seq(Octets) /\ Len(Body(kind, v, mls)) = ContentLength(kind, v, mls)
         /\ ContentLength(kind, v, mls) \in Nat
         /\ Serialize(lengths, kind, v, mls) =
              IF LengthOctets(lengths, ContentLength(kind, v, mls), mls) = Err THEN Err
              ELSE Ok(LengthOctets(lengths, ContentLength(kind, v, mls), mls)[1] \o Body(kind, v, mls))
<1>1. CASE kind = "octets"
  <2>1. v \in Seq(Octets) /\ Body(kind, v, mls) = v /\ ContentLength(kind, v, mls) = Len(v) /\ Len(v) \in Nat
    <3>1. v \in Seq(Octets)
      BY <1>1 DEF Complete
    <3>2. Body(kind, v, mls) = v /\ ContentLength(kind, v, mls) = Len(v)
      BY <1>1 DEF Body, ContentLength
    <3> QED
      BY <3>1, <3>2
  <2>2. Serialize(lengths, kind, v, mls) =
          IF LengthOctets(lengths, Len(v), mls) = Err THEN Err ELSE Ok(LengthOctets(lengths, Len(v), mls)[1] \o v)
    BY <1>1 DEF Serialize, SerializeOctets, LengthOctets, WriteVLBytes
  <2> QED
    BY <2>1, <2>2
<1>2. CASE kind # "octets"
  <2>1. /\ Contents(kind, v, mls) = Ok(Joined(kind, v, mls))
        /\ Joined(kind, v, mls) \in Seq(Octets)
        /\ Len(Joined(kind, v, mls)) = ContentLength(kind, v, mls)
        /\ ContentLength(kind, v, mls) \in Nat
    BY <1>2, JoinedIsWritten DEF Complete
  <2>2. Body(kind, v, mls) = Joined(kind, v, mls)
    BY <1>2 DEF Body
  <2>3. Contents(kind, v, mls) # Err /\ Contents(kind, v, mls)[1] = Joined(kind, v, mls)
    BY <2>1 DEF Ok, Err
  <2>4. Serialize(lengths, kind, v, mls) =
          IF LengthOctets(lengths, ContentLength(kind, v, mls), mls) = Err THEN Err
          ELSE Ok(LengthOctets(lengths, ContentLength(kind, v, mls), mls)[1] \o Joined(kind, v, mls))
    BY <1>2, <2>1, <2>3 DEF Serialize, SerializeElements
  <2> QED
    BY <2>1, <2>2, <2>4
<1> QED
  BY <1>1, <1>2

(* It is refused if the length does not fit, and then only: an element that*)
(* cannot be written is longer than any length.                            *)
LEMMA RefusedIfTooLong ==
  ASSUME NEW lengths \in {"varint", "u8"}, NEW kind \in Kinds \cup {"octets"}, NEW mls \in BOOLEAN,
         NEW v \in Seq(Values(kind))
  PROVE  /\ ContentLength(kind, v, mls) \in Nat
         /\ Serialize(lengths, kind, v, mls) = Err <=> ContentLength(kind, v, mls) > Longest(lengths, mls)
         /\ Serialize(lengths, kind, v, mls) # Err => Complete(kind, v, mls)
<1> DEFINE n == ContentLength(kind, v, mls)
           head == LengthOctets(lengths, n, mls)
           out == Serialize(lengths, kind, v, mls)
<1>1. ASSUME Complete(kind, v, mls)
      PROVE  n \in Nat /\ (out = Err <=> n > Longest(lengths, mls))
  <2>1. n \in Nat /\ out = IF head = Err THEN Err ELSE Ok(head[1] \o Body(kind, v, mls))
    BY <1>1, SerializedAs
  <2>2. head = Err <=> n > Longest(lengths, mls)
    BY <2>1, HeadOf
  <2> HIDE DEF head, out, n
  <2>3. \A x : Ok(x) # Err
    BY DEF Ok, Err
  <2> QED
    BY <2>1, <2>2, <2>3
<1>2. CASE kind = "octets"
  <2>1. Complete(kind, v, mls)
    BY <1>2 DEF Complete, Values
  <2> QED
    BY <1>1, <2>1
<1>3. CASE kind # "octets" /\ \A i \in DOMAIN v : Write(kind, v[i], mls) # Err
  <2>1. \A i \in DOMAIN v : v[i] \in Values(kind)
    OBVIOUS
  <2>2. kind \in Kinds /\ IsSequence(v)
    BY <1>3, OfItsElements
  <2>3. Complete(kind, v, mls)
    BY <1>3, <2>1, <2>2, ElementIsWritten DEF Complete, Writable
  <2> QED
    BY <1>1, <2>3
<1>4. CASE kind # "octets" /\ \E i \in DOMAIN v : Write(kind, v[i], mls) = Err
  <2>1. PICK i \in DOMAIN v : Write(kind, v[i], mls) = Err
    BY <1>4
  <2>2. v[i] \in Values(kind) /\ kind \in Kinds
    BY <1>4
  <2> DEFINE size == tls_serialized_len(kind, v[i], mls)
  <2>3. size \in Nat /\ (mls => size > MAX_MLS_LEN) /\ (~mls => size > MAX)
    BY <2>1, <2>2, ElementRefused
  <2>4. n \in Nat /\ size <= n
    BY <2>2, LengthOfAny
  <2>5. out = Err
    BY <1>4 DEF Serialize, SerializeElements, Contents
  <2>6. /\ ByteBase - 1 <= MAX_MLS_LEN /\ MAX_MLS_LEN <= MAX /\ MAX_MLS_LEN \in Nat /\ MAX \in Nat
        /\ ByteBase - 1 \in Nat
    BY Rooms, Numbers
  <2> HIDE DEF size, n, out
  <2>7. n > MAX_MLS_LEN /\ (~mls => n > MAX)
    BY <2>3, <2>4, <2>6
  <2>8. n > Longest(lengths, mls)
    BY <2>4, <2>6, <2>7 DEF Longest
  <2> QED
    BY <2>4, <2>5, <2>8 DEF n, out
<1> QED
  BY <1>2, <1>3, <1>4

(* The octets of a vector, and what is read off them first.                *)
LEMMA WholeVector ==
  ASSUME NEW lengths \in {"varint", "u8"}, NEW kind \in Kinds \cup {"octets"}, NEW mls \in BOOLEAN,
         NEW v \in Seq(Values(kind)), Serialize(lengths, kind, v, mls) # Err, NEW suffix \in Seq(Octets)
  PROVE  /\ Complete(kind, v, mls)
         /\ Len(Serialize(lengths, kind, v, mls)[1] \o suffix) = Size(lengths, kind, v, mls) + Len(suffix)
         /\ LengthOfInput("bytes", lengths, Serialize(lengths, kind, v, mls)[1] \o suffix, mls)
              = Decoded(ContentLength(kind, v, mls), Body(kind, v, mls) \o suffix)
<1> DEFINE n == ContentLength(kind, v, mls)
           size == LengthOctets(lengths, n, mls)
           head == size[1]
           body == Body(kind, v, mls)
<1>1. Complete(kind, v, mls) /\ n \in Nat
  BY RefusedIfTooLong
<1>2. /\ body \in Seq(Octets) /\ Len(body) = n
      /\ Serialize(lengths, kind, v, mls) = IF size = Err THEN Err ELSE Ok(head \o body)
  BY <1>1, SerializedAs
<1>3. size # Err /\ Serialize(lengths, kind, v, mls)[1] = head \o body
  BY <1>2 DEF Ok
<1>4. /\ head \in Seq(Octets) /\ Len(head) = HeadWidth(lengths, n, mls)
      /\ \A tail \in Seq(Octets) : LengthOfInput("bytes", lengths, head \o tail, mls) = Decoded(n, tail)
  BY <1>1, <1>3, HeadOf
<1>5. Size(lengths, kind, v, mls) = n + HeadWidth(lengths, n, mls)
  <2>1. CASE kind = "octets"
    <3>1. n = Len(v)
      BY <2>1 DEF ContentLength
    <3>2. Size(lengths, kind, v, mls) = IF lengths = "varint" THEN n + LengthWidth(n, mls) ELSE 1 + n
      BY <2>1, <3>1 DEF Size, ByteSize, tls_serialize_bytes_len
    <3> HIDE DEF n
    <3> QED
      BY <1>1, <3>2 DEF HeadWidth
  <2>2. CASE kind # "octets"
    BY <2>2 DEF Size, ElementsSize, HeadWidth
  <2> QED
    BY <2>1, <2>2
<1> HIDE DEF n, size, head, body
<1>6. (body \o suffix) \in Seq(Octets) /\ (head \o body) \o suffix = head \o (body \o suffix)
  <2>1. IsSequence(head) /\ IsSequence(body) /\ IsSequence(suffix)
    BY <1>2, <1>4, OfItsElements
  <2>2. (body \o suffix) \in Seq(Octets)
    BY <1>2
  <2> QED
    BY <2>1, <2>2, ConcatAssociates
<1>7. Len((head \o body) \o suffix) = (Len(head) + Len(body)) + Len(suffix)
  <2> DEFINE both == head \o body
  <2>1. both \in Seq(Octets) /\ Len(both) = Len(head) + Len(body)
    <3>1. head \in Seq(Octets) /\ body \in Seq(Octets)
      BY <1>2, <1>4
    <3>2. IsSequence(head) /\ IsSequence(body)
      BY <3>1, OfItsElements
    <3> QED
      BY <3>1, <3>2, ConcatFacts
  <2> HIDE DEF both
  <2>2. Len(both \o suffix) = Len(both) + Len(suffix)
    BY <2>1
  <2> QED
    BY <2>1, <2>2 DEF both
<1>8. Len(head) \in Nat /\ Len(suffix) \in Nat
  BY <1>4
<1>9. (Len(head) + Len(body)) + Len(suffix) = (n + HeadWidth(lengths, n, mls)) + Len(suffix)
  BY <1>1, <1>2, <1>4, <1>8
<1>10. LengthOfInput("bytes", lengths, head \o (body \o suffix), mls) = Decoded(n, body \o suffix)
  BY <1>4, <1>6
<1> QED
  BY <1>1, <1>3, <1>5, <1>6, <1>7, <1>9, <1>10 DEF n, body

(* What is written is octets.                                              *)
LEMMA VectorWrites ==
  ASSUME NEW lengths \in {"varint", "u8"}, NEW kind \in Kinds \cup {"octets"}, NEW mls \in BOOLEAN,
         NEW v \in Seq(Values(kind)), Serialize(lengths, kind, v, mls) # Err
  PROVE  Serialize(lengths, kind, v, mls)[1] \in Seq(Octets)
<1> DEFINE n == ContentLength(kind, v, mls)
           size == LengthOctets(lengths, n, mls)
           body == Body(kind, v, mls)
<1>1. Complete(kind, v, mls) /\ n \in Nat
  BY RefusedIfTooLong
<1>2. body \in Seq(Octets) /\ Serialize(lengths, kind, v, mls) = IF size = Err THEN Err ELSE Ok(size[1] \o body)
  BY <1>1, SerializedAs
<1>3. size[1] \in Seq(Octets)
  BY <1>1, <1>2, HeadOf
<1> HIDE DEF size, body
<1>4. (size[1] \o body) \in Seq(Octets)
  BY <1>2, <1>3
<1> QED
  BY <1>2, <1>4 DEF Ok

LEMMA UnitsAreNone ==
  ASSUME NEW v, IsSequence(v), NEW mls
  PROVE  ContentLength("unit", v, mls) = 0
<1> DEFINE None == {n \in Nat : n <= Len(v) => ContentLength("unit", Cut(v, n), mls) = 0}
<1>0. Len(v) \in Nat /\ "unit" # "octets"
  BY SequenceShape
<1>1. 0 \in None
  <2>1. Cut(v, 0) = <<>>
    BY <1>0 DEF Cut, IsSequence
  <2>2. ContentLength("unit", <<>>, mls) = 0
    BY <1>0, LengthOfNone
  <2> QED
    BY <2>1, <2>2
<1>2. ASSUME NEW n \in None PROVE n + 1 \in None
  <2>0. n \in Nat /\ n + 1 \in Nat
    OBVIOUS
  <2> SUFFICES ASSUME n + 1 <= Len(v) PROVE ContentLength("unit", Cut(v, n + 1), mls) = 0
    BY <2>0
  <2>1. n \in 0 .. Len(v) - 1 /\ n <= Len(v)
    BY <1>0, <2>0
  <2>2. ContentLength("unit", Cut(v, n), mls) = 0
    BY <2>0, <2>1
  <2> DEFINE before == Cut(v, n)
             e == v[n + 1]
  <2>3. Cut(v, n + 1) = Append(before, e) /\ IsSequence(before)
    BY <2>1, CutOfMore
  <2>4. ContentLength("unit", before, mls) = 0
    BY <2>2
  <2> HIDE DEF before, e
  <2>5. ContentLength("unit", Append(before, e), mls) = 0 + tls_serialized_len("unit", e, mls)
    BY <1>0, <2>3, <2>4, LengthOfMore
  <2>6. tls_serialized_len("unit", e, mls) = 0
    BY DEF tls_serialized_len
  <2>7. ContentLength("unit", Append(before, e), mls) = 0
    BY <2>5, <2>6
  <2> QED
    BY <2>3, <2>7
<1>3. None = Nat
  <2> HIDE DEF None
  <2>1. None \in SUBSET Nat
    BY DEF None
  <2> QED
    BY <1>1, <1>2, <2>1, Induction
<1>4. Cut(v, Len(v)) = v
  BY WholeSegment DEF Cut
<1> QED
  BY <1>0, <1>3, <1>4

(* The element behind those that have been read.                           *)
BeginsWith(s, w) == \E t \in Seq(Octets) : s = w \o t

LEMMA NextElement ==
  ASSUME NEW kind, kind # "octets", NEW mls, NEW v, Writable(kind, v, mls), NEW suffix \in Seq(Octets),
         NEW k \in 0 .. Len(v) - 1
  PROVE  BeginsWith(Skip(Joined(kind, v, mls) \o suffix, ContentLength(kind, Cut(v, k), mls)),
                    Write(kind, v[k + 1], mls)[1])
<1>0. Len(v) \in Nat /\ k \in 0 .. Len(v) /\ k + 1 \in 0 .. Len(v)
  BY SequenceShape DEF Writable
<1> DEFINE all == Joined(kind, v, mls)
           ahead == Joined(kind, Cut(v, k), mls)
           w == Write(kind, v[k + 1], mls)[1]
           n == ContentLength(kind, Cut(v, k), mls)
<1>1. w \in Seq(Octets) /\ Joined(kind, Cut(v, k + 1), mls) = ahead \o w
  BY OneMore DEF IsWritten
<1>2. PICK t \in Seq(Octets) : all = Joined(kind, Cut(v, k + 1), mls) \o t
  <2> DEFINE m == k + 1
  <2>1. m \in 0 .. Len(v)
    BY <1>0
  <2> HIDE DEF m
  <2>2. \E t \in Seq(Octets) : all = Joined(kind, Cut(v, m), mls) \o t
    BY <2>1, WrittenAhead
  <2> QED
    BY <2>2 DEF m
<1>3. ahead \in Seq(Octets) /\ Len(ahead) = n
  BY <1>0, WrittenSoFar, JoinedIsWritten
<1>4. all = (ahead \o w) \o t
  BY <1>1, <1>2
<1> HIDE DEF all, ahead, w, n
<1>5. IsSequence(ahead) /\ IsSequence(w) /\ IsSequence(t) /\ IsSequence(suffix)
  BY <1>1, <1>3, OfItsElements
<1>6. IsSequence(w \o t) /\ IsSequence(t \o suffix)
  BY <1>5, ConcatFacts
<1>7. (t \o suffix) \in Seq(Octets)
  OBVIOUS
<1> DEFINE more == t \o suffix
<1>8. all \o suffix = ahead \o (w \o more)
  <2>1. all = ahead \o (w \o t)
    BY ONLY <1>4, <1>5, ConcatAssociates, SMTT(30)
  <2>2. (ahead \o (w \o t)) \o suffix = ahead \o ((w \o t) \o suffix)
    <3> DEFINE rem == w \o t
    <3>1. IsSequence(ahead) /\ IsSequence(rem) /\ IsSequence(suffix)
      BY <1>5, <1>6
    <3> HIDE DEF rem
    <3>2. (ahead \o rem) \o suffix = ahead \o (rem \o suffix)
      BY ONLY <3>1, ConcatAssociates, SMTT(30)
    <3> QED
      BY <3>2 DEF rem
  <2>3. (w \o t) \o suffix = w \o more
    BY ONLY <1>5, ConcatAssociates, SMTT(30) DEF more
  <2> QED
    BY <2>1, <2>2, <2>3
<1> HIDE DEF more
<1>9. IsSequence(w \o more)
  BY <1>5, <1>6, ConcatFacts DEF more
<1>10. Skip(ahead \o (w \o more), Len(ahead)) = w \o more
  BY <1>5, <1>9, PartsOf
<1>11. Skip(all \o suffix, n) = w \o more
  BY <1>3, <1>8, <1>10
<1> QED
  BY <1>7, <1>11 DEF BeginsWith, all, n, w, more

(* A part, and the part behind it.                                         *)
LEMMA CutsJoin ==
  ASSUME NEW s, IsSequence(s), NEW m \in Nat, NEW n \in Nat, m + n <= Len(s)
  PROVE  Cut(s, m) \o Cut(Skip(s, m), n) = Cut(s, m + n)
<1> DEFINE S == Elements(s)
           rem == Skip(s, m)
           sum == m + n
<1>s. s \in Seq(S) /\ Len(s) \in Nat
  BY DEF IsSequence
<1>0. m \in 0 .. Len(s) /\ sum \in 0 .. Len(s) /\ n \in 0 .. Len(s) - m
  BY <1>s
<1> HIDE DEF S
<1>1. rem \in Seq(S) /\ Len(rem) = Len(s) - m /\ \A i \in 1 .. Len(s) - m : rem[i] = s[m + i]
  BY <1>s, <1>0, Skips
<1>2. Cut(s, m) \in Seq(S) /\ Len(Cut(s, m)) = m /\ \A i \in 1 .. m : Cut(s, m)[i] = s[i]
  BY <1>s, <1>0, Cuts
<1> HIDE DEF rem
<1>3. Cut(rem, n) \in Seq(S) /\ Len(Cut(rem, n)) = n /\ \A i \in 1 .. n : Cut(rem, n)[i] = rem[i]
  <2>1. n \in 0 .. Len(rem)
    BY <1>0, <1>1
  <2> QED
    BY <1>1, <2>1, Cuts
<1> DEFINE a == Cut(s, m)
           b == Cut(rem, n)
           c == Cut(s, sum)
           both == a \o b
<1>e. sum = m + n
  OBVIOUS
<1> HIDE DEF sum
<1>4. c \in Seq(S) /\ Len(c) = sum /\ \A i \in 1 .. sum : c[i] = s[i]
  BY <1>s, <1>0, Cuts
<1>5. /\ IsSequence(a) /\ IsSequence(b) /\ IsSequence(c) /\ Len(a) = m /\ Len(b) = n
      /\ \A i \in 1 .. m : a[i] = s[i]
      /\ \A i \in 1 .. n : b[i] = rem[i]
  BY <1>2, <1>3, <1>4, OfItsElements
<1> HIDE DEF a, b, c
<1>f. /\ IsSequence(a \o b) /\ Len(a \o b) = Len(a) + Len(b)
      /\ \A i \in 1 .. Len(a) : (a \o b)[i] = a[i]
      /\ \A i \in 1 .. Len(b) : (a \o b)[Len(a) + i] = b[i]
  BY <1>5, ConcatFacts
<1>6. /\ IsSequence(both) /\ Len(both) = m + n
      /\ \A i \in 1 .. m : both[i] = a[i]
      /\ \A i \in 1 .. n : both[m + i] = b[i]
  BY <1>5, <1>f
<1> HIDE DEF both
<1>7. ASSUME NEW i \in 1 .. sum PROVE both[i] = c[i]
  <2>1. CASE i <= m
    <3>1. i \in 1 .. m
      BY <1>e, <2>1
    <3> QED
      BY <1>4, <1>5, <1>6, <3>1
  <2>2. CASE i > m
    <3> DEFINE j == i - m
    <3>1. j \in 1 .. n /\ m + j = i /\ j \in 1 .. Len(s) - m
      BY <1>0, <1>e, <2>2
    <3> HIDE DEF j
    <3>2. both[m + j] = b[j] /\ b[j] = rem[j] /\ rem[j] = s[m + j]
      BY <1>1, <1>5, <1>6, <3>1
    <3>3. c[i] = s[i]
      BY <1>4
    <3> QED
      BY <3>1, <3>2, <3>3
  <2> QED
    BY <1>e, <2>1, <2>2
<1>8. both = c
  BY <1>4, <1>5, <1>6, <1>7, <1>e, SequencesEqual
<1> QED
  BY <1>8, <1>e DEF both, a, b, c, rem

(* A length that is minimal is the one that is written.                    *)
LEMMA HeadIsUnique ==
  ASSUME NEW lengths \in {"varint", "u8"}, NEW mls \in BOOLEAN, NEW s \in Seq(Octets), lengths = "varint" => mls,
         LengthOfInput("bytes", lengths, s, mls) # Err,
         mls => LengthOfInput("bytes", lengths, s, mls)[1].value <= MAX_MLS_LEN
  PROVE  \E w \in 0 .. Len(s), n \in Nat :
           /\ LengthOfInput("bytes", lengths, s, mls) = Decoded(n, Skip(s, w))
           /\ LengthOctets(lengths, n, mls) = Ok(Cut(s, w))
<1> DEFINE r == LengthOfInput("bytes", lengths, s, mls)
<1>1. CASE lengths = "varint"
  <2>1. mls = TRUE /\ r = ReadVarInt(s, TRUE)
    BY <1>1 DEF LengthOfInput, ReadLengthBytes
  <2>2. PICK w \in Widths, n \in Nat :
          /\ w <= Len(s) /\ ReadVarInt(s, TRUE) = Decoded(n, Skip(s, w))
          /\ n <= MAX /\ bytes_len(n) = w /\ write_bytes(n) = Cut(s, w)
    BY <2>1, VarIntUnique
  <2>3. r[1].value = n
    <3> DEFINE rem == Skip(s, w)
    <3>1. Decoded(n, rem)[1].value = n
      BY DEF Decoded, Ok
    <3>2. r = Decoded(n, rem)
      BY <2>1, <2>2
    <3> HIDE DEF r, rem
    <3> QED
      BY ONLY <3>1, <3>2
  <2>4. n <= MAX_MLS_LEN
    BY <2>1, <2>3
  <2>5. WriteLength(n, TRUE) = Ok(write_bytes(n))
    BY <2>2, <2>4, LengthWritten
  <2>6. LengthOctets(lengths, n, mls) = Ok(Cut(s, w))
    BY <1>1, <2>1, <2>2, <2>5 DEF LengthOctets
  <2>7. w \in 0 .. Len(s)
    BY <2>2 DEF Widths
  <2> HIDE DEF r
  <2>8. r = Decoded(n, Skip(s, w))
    BY <2>1, <2>2
  <2> QED
    BY <2>6, <2>7, <2>8 DEF r
<1>2. CASE lengths = "u8"
  <2> DEFINE one == Cut(s, 1)
             n == BigEndian(0, one)
  <2>1. r = ReadUnsigned(1, s)
    BY <1>2 DEF LengthOfInput
  <2>2. 1 \in 0 .. Len(s) /\ r = Decoded(n, Skip(s, 1)) /\ WriteUnsigned(1, n) = one
    BY <2>1, UnsignedIsUnique
  <2>3. one \in Seq(Octets) /\ Len(one) = 1
    BY <2>2, Cuts
  <2> HIDE DEF one
  <2>4. one[1] \in Octets
    <3>1. 1 \in 1 .. Len(one) /\ one \in Seq(Octets)
      BY <2>3
    <3> QED
      BY ONLY <3>1
  <2>5. one = <<one[1]>>
    BY <2>3
  <2>6. n = one[1]
    <3>0. one \in Seq(Nat)
      BY <2>3, Numbers, OfMore
    <3>z. <<>> \in Seq(Nat) /\ Len(<<>>) = 0
      OBVIOUS
    <3>1. <<>> \in Seq(Nat) /\ Len(<<>>) = 0 /\ one \in Seq(Nat) /\ Len(one) = Len(<<>>) + 1
      BY <2>3, <3>0, <3>z
    <3>2. \A i \in 1 .. Len(<<>>) : one[i] = <<>>[i]
      BY <3>1
    <3>3. BigEndian(0, one) = BigEndian(0, <<>>) * ByteBase + one[Len(one)]
      BY <3>1, <3>2, BigEndianOfMore
    <3>4. BigEndian(0, <<>>) = 0
      BY BigEndianOfNone
    <3>5. 0 * ByteBase + one[1] = one[1]
      <4> DEFINE x == one[1]
      <4>0. x \in Octets /\ Octets \subseteq Nat /\ ByteBase \in Nat
        BY <2>4, Numbers
      <4> HIDE DEF x
      <4>1. x \in Int /\ ByteBase \in Int
        BY ONLY <4>0
      <4>2. 0 * ByteBase + x = x
        BY ONLY <4>1
      <4> QED
        BY <4>2 DEF x
    <3> QED
      BY <2>3, <3>3, <3>4, <3>5
  <2> HIDE DEF n
  <2>7. n \in Nat /\ ~(n > ByteBase - 1)
    BY <2>4, <2>6, Numbers DEF Octets
  <2>8. LengthOctets(lengths, n, mls) = Ok(<<n>>)
    BY <1>2, <2>7 DEF LengthOctets, get_content_lengths
  <2>9. <<n>> = one
    BY <2>5, <2>6
  <2> HIDE DEF r
  <2> QED
    BY <2>2, <2>7, <2>8, <2>9 DEF r, one
<1> QED
  BY <1>1, <1>2

--------------------------------------------------------------------------------
(* The loop of tls_deserialize_bytes, whose states are the octets that are *)
(* left, the octets taken and the elements: where it stops, where it goes, *)
(* and what it returns.  It leads to an answer if all states of a set do   *)
(* that are entered from it, one after the other.                          *)
Stuck(kind, mls, x) ==
  LET r == Read(kind, "bytes", x[1], mls) IN r = Err \/ Len(r[1].rest) = Len(x[1])
After(kind, mls, x) ==
  LET r == Read(kind, "bytes", x[1], mls)
  IN  <<r[1].rest, x[2] + Took(r, x[1]), Append(x[3], r[1].value)>>
Ending(n, x) == IF x[2] # n THEN Failed ELSE Success(x[3], x[1])

LeadsOn(kind, mls, n, x, all) == x[2] < n /\ ~Stuck(kind, mls, x) /\ After(kind, mls, x) \in all
LeadsOut(kind, mls, n, x, answer) ==
  \/ x[2] < n /\ Stuck(kind, mls, x) /\ answer = Failed
  \/ ~(x[2] < n) /\ answer = Ending(n, x)

LeadsTo(kind, mls, n, x, answer) ==
  \E all : x \in all /\ \A y \in all : LeadsOn(kind, mls, n, y, all) \/ LeadsOut(kind, mls, n, y, answer)

LEMMA GoingOn ==
  ASSUME NEW kind, NEW mls, NEW n, NEW x, NEW answer, x[2] < n, ~Stuck(kind, mls, x)
  PROVE  LeadsTo(kind, mls, n, x, answer) <=> LeadsTo(kind, mls, n, After(kind, mls, x), answer)
<1> DEFINE On(y, all) == LeadsOn(kind, mls, n, y, all)
           Out(y) == LeadsOut(kind, mls, n, y, answer)
           next == After(kind, mls, x)
<1>1. ~Out(x)
  BY DEF LeadsOut
<1>2. ASSUME NEW all, x \in all, \A y \in all : On(y, all) \/ Out(y)
      PROVE  next \in all
  BY <1>1, <1>2 DEF LeadsOn
<1>3. ASSUME NEW all, next \in all, \A y \in all : On(y, all) \/ Out(y)
      PROVE  \A y \in all \cup {x} : On(y, all \cup {x}) \/ Out(y)
  <2>1. \A y \in all : On(y, all) => On(y, all \cup {x})
    BY DEF LeadsOn
  <2>2. On(x, all \cup {x})
    BY <1>3 DEF LeadsOn
  <2> HIDE DEF On, Out
  <2> QED
    BY <1>3, <2>1, <2>2
<1>4. LeadsTo(kind, mls, n, x, answer) => LeadsTo(kind, mls, n, next, answer)
  <2> HIDE DEF next
  <2> QED
    BY <1>2 DEF LeadsTo
<1>5. LeadsTo(kind, mls, n, next, answer) => LeadsTo(kind, mls, n, x, answer)
  <2> SUFFICES ASSUME NEW all, next \in all, \A y \in all : On(y, all) \/ Out(y)
               PROVE  \E any : x \in any /\ \A y \in any : On(y, any) \/ Out(y)
    BY DEF LeadsTo
  <2> DEFINE any == all \cup {x}
  <2>1. x \in any /\ \A y \in any : On(y, any) \/ Out(y)
    BY <1>3
  <2> HIDE DEF any, On, Out
  <2> QED
    BY <2>1
<1> QED
  BY <1>4, <1>5

LEMMA GoingOut ==
  ASSUME NEW kind, NEW mls, NEW n, NEW x, NEW answer
  PROVE  /\ x[2] < n /\ Stuck(kind, mls, x) => (LeadsTo(kind, mls, n, x, answer) <=> answer = Failed)
         /\ ~(x[2] < n) => (LeadsTo(kind, mls, n, x, answer) <=> answer = Ending(n, x))
<1>1. LeadsOut(kind, mls, n, x, answer) => LeadsTo(kind, mls, n, x, answer)
  <2> SUFFICES ASSUME LeadsOut(kind, mls, n, x, answer)
               PROVE  \E all : x \in all /\ \A y \in all :
                        LeadsOn(kind, mls, n, y, all) \/ LeadsOut(kind, mls, n, y, answer)
    BY DEF LeadsTo
  <2> DEFINE all == {x}
  <2>1. x \in all /\ \A y \in all : LeadsOut(kind, mls, n, y, answer)
    OBVIOUS
  <2> HIDE DEF all
  <2> QED
    BY <2>1
<1>2. LeadsTo(kind, mls, n, x, answer) =>
        LeadsOut(kind, mls, n, x, answer) \/ (x[2] < n /\ ~Stuck(kind, mls, x))
  BY DEF LeadsTo, LeadsOn
<1> QED
  BY <1>1, <1>2 DEF LeadsOut

--------------------------------------------------------------------------------
(* The inductive invariant.                                                *)
Start(p) == LengthOfInput(p, job.lengths, job.input, job.mls)
Origin == <<Declared.rest, 0, <<>>>>
Here == <<rest, read, result>>
LoopLeadsTo(x, answer) == LeadsTo(job.kind, job.mls, Declared.value, x, answer)

TypeOK ==
  /\ job = Job(job.lengths, job.kind, job.mls, job.input, job.written, job.suffix)
  /\ job.lengths \in {"varint", "u8"} /\ job.kind \in Kinds \cup {"octets"} /\ job.mls \in BOOLEAN
  /\ job.input \in Seq(Octets)
  /\ job.written # Err => job.written[1] \in Vectors[job.kind] /\ job.suffix \in Seq(Octets)
  /\ path \in Paths
  /\ phase \in {"write", "length", "elements", "octets", "refused", "done"}
  /\ rest \in Seq(Octets) /\ length \in Nat /\ read \in Nat
  /\ answers = [p \in Paths |-> answers[p]]

(* Which decoders have answered, and where the phases belong.              *)
InOrder ==
  /\ phase \in {"write", "refused"} => path = "bytes"
  /\ phase = "write" => job.written # Err
  /\ phase = "done" => path = "read"
  /\ phase \in {"write", "length"} => length = 0 /\ read = 0 /\ result = <<>>
  /\ phase = "length" => rest = job.input
  /\ phase = "elements" => job.kind \in Kinds
  /\ phase = "octets" => job.kind = "octets"
  /\ path = "bytes" => answers["bytes"] = Pending
  /\ path = "read" => answers["bytes"] = Failed \/ Succeeded("bytes")
  /\ phase # "done" => answers["read"] = Pending
  /\ phase = "done" => answers["read"] = Failed \/ Succeeded("read")

(* The octets a decoder has left are those behind what it has taken of the *)
(* vector, which for a reader is never more than the vector.               *)
Placed ==
  phase \in {"elements", "octets"} =>
    /\ Start("bytes") # Err /\ length = Declared.value
    /\ read <= Len(Declared.rest) /\ rest = Skip(Declared.rest, read)
    /\ path = "read" => read <= length
    /\ phase = "octets" => read = 0

(* The answer of tls_deserialize_bytes is that of its loop; tls_deserialize*)
(* goes through states from which that loop leads to the same answer.      *)
BytesLeads ==
  path = "bytes" /\ phase = "elements" => \A answer : LoopLeadsTo(Here, answer) => LoopLeadsTo(Origin, answer)
Answered(answer) ==
  /\ Start("bytes") = Err => answer = Failed
  /\ Start("bytes") # Err /\ job.kind \in Kinds => LoopLeadsTo(Origin, answer)
  /\ Start("bytes") # Err /\ job.kind = "octets" =>
       answer = IF Declared.value <= Len(Declared.rest)
                THEN Success(Cut(Declared.rest, Declared.value), Skip(Declared.rest, Declared.value))
                ELSE Failed
BytesAnswered == path = "read" => Answered(answers["bytes"])
ReadFollows ==
  path = "read" /\ phase = "elements" /\ WithinMls => LoopLeadsTo(Here, answers["bytes"])

Inv == TypeOK /\ InOrder /\ Placed /\ BytesLeads /\ BytesAnswered /\ ReadFollows /\ PathsAgree

--------------------------------------------------------------------------------
(* The length that an input declares, to either decoder.                   *)
LEMMA DeclaredLength ==
  ASSUME TypeOK
  PROVE  /\ Start("bytes") # Err =>
              /\ Declared.value \in Nat /\ Declared.rest \in Seq(Octets)
              /\ Start("bytes") = Decoded(Declared.value, Declared.rest)
         /\ Start("read") # Err => Start("read") = Start("bytes")
         /\ Start("read") = Err => Start("bytes") = Err \/ ~WithinMls
<1>1. job.input \in Seq(Octets) /\ IsSequence(job.input) /\ Len(job.input) \in Nat /\ job.mls \in BOOLEAN
  BY OfItsElements DEF TypeOK
<1>2. CASE job.lengths = "u8"
  <2>1. Start("bytes") = ReadUnsigned(1, job.input) /\ Start("read") = ReadUnsigned(1, job.input)
    BY <1>2 DEF Start, LengthOfInput
  <2>2. ASSUME Start("bytes") # Err
        PROVE  \E v \in Nat : Start("bytes") = Decoded(v, Skip(job.input, 1)) /\ 1 \in 0 .. Len(job.input)
    <3>1. 1 <= Len(job.input) /\ Start("bytes") = Decoded(BigEndian(0, Cut(job.input, 1)), Skip(job.input, 1))
      BY <1>1, <2>1, <2>2, UnsignedReads
    <3>2. 1 \in 0 .. Len(job.input)
      BY <1>1, <3>1
    <3>3. Cut(job.input, 1) \in Seq(Nat)
      BY <1>1, <3>2, Cuts, Numbers, OfMore
    <3>4. BigEndian(0, Cut(job.input, 1)) \in Nat
      BY <3>3, BigEndianIsNatural
    <3> QED
      BY <3>1, <3>2, <3>4
  <2>3. ASSUME NEW v \in Nat, Start("bytes") = Decoded(v, Skip(job.input, 1)), 1 \in 0 .. Len(job.input)
        PROVE  Declared.value = v /\ Declared.rest = Skip(job.input, 1) /\ Skip(job.input, 1) \in Seq(Octets)
    BY <1>1, <2>3, TookOf, Skips DEF Declared, Start
  <2> QED
    BY <2>1, <2>2, <2>3
<1>3. CASE job.lengths = "varint"
  <2>1. /\ Start("bytes") = ReadVarInt(job.input, job.mls)
        /\ Start("read") = ReadLengthRead(job.input, job.mls)
    BY <1>3 DEF Start, LengthOfInput, ReadLengthBytes
  <2>2. ASSUME Start("bytes") # Err
        PROVE  /\ Declared.value \in Nat /\ Declared.rest \in Seq(Octets)
               /\ Start("bytes") = Decoded(Declared.value, Declared.rest)
    <3>1. PICK w \in Widths, v \in Nat : w <= Len(job.input) /\ Start("bytes") = Decoded(v, Skip(job.input, w))
      BY <1>1, <2>1, <2>2, VarIntDecodes
    <3>2. w \in 0 .. Len(job.input)
      BY <1>1, <3>1 DEF Widths
    <3>3. Declared.value = v /\ Declared.rest = Skip(job.input, w) /\ Skip(job.input, w) \in Seq(Octets)
      BY <1>1, <3>1, <3>2, TookOf, Skips DEF Declared, Start
    <3> QED
      BY <3>1, <3>3
  <2>3. Start("read") = IF Start("bytes") # Err /\ job.mls /\ Declared.value > MAX_MLS_LEN THEN Err
                        ELSE Start("bytes")
    BY <2>1 DEF ReadLengthRead, new, Ok, Err, Declared, Start
  <2> QED
    BY <2>2, <2>3, Numbers DEF WithinMls
<1> QED
  BY <1>2, <1>3 DEF TypeOK

LEMMA SameJob ==
  ASSUME job' = job
  PROVE  /\ Declared' = Declared /\ Origin' = Origin /\ WithinMls' = WithinMls
         /\ \A p : Start(p)' = Start(p)
         /\ \A x, a : LoopLeadsTo(x, a)' = LoopLeadsTo(x, a)
         /\ \A a : Answered(a)' = Answered(a)
<1>1. Declared' = Declared /\ WithinMls' = WithinMls
  BY DEF Declared, WithinMls
<1>2. \A p : Start(p)' = Start(p)
  BY DEF Start
<1>3. Origin' = Origin
  BY <1>1 DEF Origin
<1>4. \A x, a : LoopLeadsTo(x, a)' = LoopLeadsTo(x, a)
  BY <1>1 DEF LoopLeadsTo
<1>5. \A a : Answered(a)' = Answered(a)
  BY <1>1, <1>2, <1>3, <1>4 DEF Answered
<1> QED
  BY <1>1, <1>2, <1>3, <1>4, <1>5

(* An answer that takes what is declared.                                  *)
Exact(answer) ==
  \/ answer = Failed
  \/ /\ answer.state = "Ok"
     /\ answer.rest = Skip(Declared.rest, Declared.value)
     /\ Len(Declared.rest) >= Declared.value

LEMMA BytesReturns ==
  ASSUME Inv, path = "bytes", phase \in {"length", "elements", "octets"},
         NEW answer, Return(answer), Exact(answer), Answered(answer)
  PROVE  Inv'
<1>1. /\ answers' = [answers EXCEPT !["bytes"] = answer]
      /\ length' = 0 /\ read' = 0 /\ result' = <<>> /\ job' = job
      /\ path' = "read" /\ phase' = "length" /\ rest' = job.input
  BY DEF Return
<1>2. answers'["bytes"] = answer /\ answers'["read"] = Pending /\ answers' = [p \in Paths |-> answers'[p]]
  BY <1>1 DEF Inv, TypeOK, InOrder, Paths
<1>3. TypeOK'
  BY <1>1, <1>2 DEF Inv, TypeOK, Paths
<1>4. answer = Failed \/ answer.state = "Ok"
  BY DEF Exact
<1>5. InOrder'
  BY <1>1, <1>2, <1>4 DEF InOrder, Succeeded
<1>6. Placed' /\ BytesLeads' /\ ReadFollows'
  BY <1>1 DEF Placed, BytesLeads, ReadFollows
<1>7. BytesAnswered'
  BY <1>1, <1>2, SameJob DEF BytesAnswered
<1>8. PathsAgree'
  <2>1. Failed.state # "Ok" /\ Pending.state # "Ok"
    BY DEF Failed, Pending
  <2>2. DeclaredLengthIsExact'
    BY <1>1, <1>2, <2>1, SameJob DEF DeclaredLengthIsExact, Succeeded, Exact, Paths
  <2> QED
    BY <1>1, <2>2 DEF PathsAgree
<1> QED
  BY <1>3, <1>5, <1>6, <1>7, <1>8 DEF Inv

LEMMA ReadReturns ==
  ASSUME Inv, path = "read", phase \in {"length", "elements", "octets"},
         NEW answer, Return(answer), Exact(answer), WithinMls => answer = answers["bytes"]
  PROVE  Inv'
<1>1. /\ answers' = [answers EXCEPT !["read"] = answer]
      /\ length' = 0 /\ read' = 0 /\ result' = <<>> /\ job' = job
      /\ path' = "read" /\ phase' = "done" /\ rest' = <<>>
  BY DEF Return
<1>2. /\ answers'["read"] = answer /\ answers'["bytes"] = answers["bytes"]
      /\ answers' = [p \in Paths |-> answers'[p]]
  BY <1>1 DEF Inv, TypeOK, Paths
<1>3. TypeOK'
  <2>1. <<>> \in Seq(Octets)
    OBVIOUS
  <2> QED
    BY <1>1, <1>2, <2>1 DEF Inv, TypeOK, Paths
<1>4. /\ answer = Failed \/ answer.state = "Ok"
      /\ answers["bytes"] = Failed \/ Succeeded("bytes")
  BY DEF Exact, Inv, InOrder
<1>5. InOrder'
  BY <1>1, <1>2, <1>4 DEF InOrder, Succeeded
<1>6. Placed' /\ BytesLeads' /\ ReadFollows'
  BY <1>1 DEF Placed, BytesLeads, ReadFollows
<1>7. BytesAnswered'
  BY <1>1, <1>2, SameJob DEF BytesAnswered, Inv
<1>8. PathsAgree'
  <2>1. Failed.state # "Ok"
    BY DEF Failed
  <2>2. DeclaredLengthIsExact'
    BY <1>1, <1>2, <2>1, SameJob DEF DeclaredLengthIsExact, Succeeded, Exact, Paths, Inv, PathsAgree
  <2>3. ({p \in Paths : Succeeded(p)} # {} => WithinMls)' => answers'["bytes"] = answers'["read"]
    <3>1. CASE WithinMls
      BY <1>2, <3>1
    <3>2. CASE ~WithinMls
      <4> SUFFICES ASSUME ({p \in Paths : Succeeded(p)} # {} => WithinMls)'
                   PROVE  answers'["bytes"] = answers'["read"]
        OBVIOUS
      <4>1. ~WithinMls'
        BY <1>1, <3>2, SameJob
      <4>2. \A p \in Paths : answers'[p].state # "Ok"
        BY <4>1 DEF Succeeded
      <4> QED
        BY <1>2, <1>4, <4>2 DEF Paths, Succeeded
    <3> QED
      BY <3>1, <3>2
  <2> QED
    BY <2>2, <2>3 DEF PathsAgree
<1> QED
  BY <1>3, <1>5, <1>6, <1>7, <1>8 DEF Inv

LEMMA Beginnings == Init => Inv
<1> SUFFICES ASSUME Init PROVE Inv
  OBVIOUS
<1>1. /\ path = "bytes" /\ length = 0 /\ read = 0 /\ result = <<>>
      /\ answers = [p \in Paths |-> Pending]
  BY DEF Init
<1>2. PICK lengths \in {"varint", "u8"}, kind \in Kinds \cup {"octets"}, mls \in BOOLEAN :
        \/ \E s \in Inputs \cup (IF kind = "octets" THEN LongInputs ELSE {}) :
             job = Job(lengths, kind, mls, s, Err, <<>>) /\ phase = "length" /\ rest = s
        \/ \E v \in Vectors[kind], suffix \in Tails :
             job = Job(lengths, kind, mls, <<>>, Ok(v), suffix) /\ phase = "write" /\ rest = <<>>
  BY DEF Init
<1>3. CASE \E s \in Inputs \cup (IF kind = "octets" THEN LongInputs ELSE {}) :
             job = Job(lengths, kind, mls, s, Err, <<>>) /\ phase = "length" /\ rest = s
  <2>1. PICK s \in Seq(Octets) : job = Job(lengths, kind, mls, s, Err, <<>>) /\ phase = "length" /\ rest = s
    BY <1>3, InputsAssumption
  <2> QED
    BY <1>1, <2>1
       DEF Inv, TypeOK, InOrder, Placed, BytesLeads, BytesAnswered, ReadFollows, PathsAgree,
           DeclaredLengthIsExact, Succeeded, Pending, Job, Paths
<1>4. CASE \E v \in Vectors[kind], suffix \in Tails :
             job = Job(lengths, kind, mls, <<>>, Ok(v), suffix) /\ phase = "write" /\ rest = <<>>
  <2>1. PICK v \in Vectors[kind], suffix \in Tails :
               job = Job(lengths, kind, mls, <<>>, Ok(v), suffix) /\ phase = "write" /\ rest = <<>>
    BY <1>4
  <2>2. suffix \in Seq(Octets) /\ <<>> \in Seq(Octets)
    BY InputsAssumption
  <2> QED
    BY <1>1, <2>1, <2>2
       DEF Inv, TypeOK, InOrder, Placed, BytesLeads, BytesAnswered, ReadFollows, PathsAgree,
           DeclaredLengthIsExact, Succeeded, Pending, Job, Paths, Ok, Err
<1> QED
  BY <1>2, <1>3, <1>4

LEMMA Writing ==
  ASSUME Inv, WriteVector
  PROVE  Inv'
<1> DEFINE out == Serialize(job.lengths, job.kind, job.written[1], job.mls)
<1>1. /\ path' = path /\ length' = length /\ read' = read /\ result' = result /\ answers' = answers
      /\ phase = "write" /\ path = "bytes" /\ job.written # Err
      /\ answers["bytes"] = Pending /\ answers["read"] = Pending
  BY DEF WriteVector, Inv, InOrder
<1>2. \/ out = Err /\ phase' = "refused" /\ job' = job /\ rest' = rest
      \/ /\ out # Err /\ phase' = "length"
         /\ job' = [job EXCEPT !.input = out[1] \o job.suffix]
         /\ rest' = out[1] \o job.suffix
  BY DEF WriteVector
<1>3. PathsAgree'
  <2>1. \A p \in Paths : answers'[p] = Pending
    BY <1>1 DEF Paths
  <2>2. phase' # "done"
    BY <1>2
  <2> QED
    BY <2>1, <2>2 DEF PathsAgree, DeclaredLengthIsExact, Succeeded, Pending
<1>4. Placed' /\ BytesLeads' /\ BytesAnswered' /\ ReadFollows'
  BY <1>1, <1>2 DEF Placed, BytesLeads, BytesAnswered, ReadFollows
<1>5. CASE out = Err
  <2>1. phase' = "refused" /\ job' = job /\ rest' = rest
    BY <1>2, <1>5
  <2>2. TypeOK' /\ InOrder'
    BY <1>1, <2>1 DEF Inv, TypeOK, InOrder
  <2> QED
    BY <1>3, <1>4, <2>2 DEF Inv
<1>6. CASE out # Err
  <2>1. out[1] \in Seq(Octets)
    <3>1. /\ job.kind \in Kinds \cup {"octets"} /\ job.mls \in BOOLEAN /\ job.written[1] \in Seq(Values(job.kind))
          /\ job.lengths \in {"varint", "u8"}
      BY <1>1, InputsAssumption DEF Inv, TypeOK
    <3> QED
      BY <1>6, <3>1, VectorWrites
  <2> HIDE DEF out
  <2>2. (out[1] \o job.suffix) \in Seq(Octets)
    BY <1>1, <2>1 DEF Inv, TypeOK
  <2> DEFINE input == out[1] \o job.suffix
  <2>3. phase' = "length" /\ job' = [job EXCEPT !.input = input] /\ rest' = input /\ input \in Seq(Octets)
    BY <1>2, <1>6, <2>2
  <2> HIDE DEF input
  <2>4. job' = Job(job.lengths, job.kind, job.mls, input, job.written, job.suffix)
    BY <2>3 DEF Inv, TypeOK, Job
  <2>5. TypeOK'
    BY <1>1, <2>3, <2>4 DEF Inv, TypeOK, Job
  <2>6. InOrder'
    BY <1>1, <2>3, <2>4 DEF Inv, InOrder, Job
  <2> QED
    BY <1>3, <1>4, <2>5, <2>6 DEF Inv
<1> QED
  BY <1>5, <1>6

LEMMA LengthReading ==
  ASSUME Inv, ReadLength
  PROVE  Inv'
<1>1. phase = "length" /\ rest = job.input /\ read = 0 /\ result = <<>> /\ path \in Paths /\ TypeOK
  BY DEF ReadLength, Inv, InOrder, TypeOK
<1>2. IF Start(path) = Err THEN Return(Failed) ELSE Enter(Start(path)[1])
  BY <1>1 DEF ReadLength, Start
<1>3. CASE Start(path) = Err
  <2>1. Return(Failed) /\ Exact(Failed)
    BY <1>2, <1>3 DEF Exact
  <2>2. CASE path = "bytes"
    <3>1. Answered(Failed)
      BY <1>3, <2>2 DEF Answered
    <3> QED
      BY <1>1, <2>1, <2>2, <3>1, BytesReturns
  <2>3. CASE path = "read"
    <3>1. WithinMls => answers["bytes"] = Failed
      BY <1>1, <1>3, <2>3, DeclaredLength DEF Inv, BytesAnswered, Answered
    <3> QED
      BY <1>1, <2>1, <2>3, <3>1, ReadReturns
  <2> QED
    BY <1>1, <2>2, <2>3 DEF Paths
<1>4. CASE Start(path) # Err
  <2>1. Start("bytes") # Err /\ Start(path) = Start("bytes")
    BY <1>1, <1>4, DeclaredLength DEF Paths
  <2>2. Declared.value \in Nat /\ Declared.rest \in Seq(Octets) /\ Declared = Start(path)[1]
    BY <1>1, <2>1, DeclaredLength DEF Declared, Start
  <2>3. /\ length' = Declared.value /\ rest' = Declared.rest
        /\ phase' = (IF job.kind = "octets" THEN "octets" ELSE "elements")
        /\ job' = job /\ path' = path /\ read' = read /\ result' = result /\ answers' = answers
    BY <1>2, <1>4, <2>2 DEF Enter
  <2>4. TypeOK' /\ InOrder'
    BY <1>1, <2>2, <2>3 DEF TypeOK, InOrder, Inv, Succeeded
  <2>5. Placed'
    <3>1. Skip(Declared.rest, 0) = Declared.rest /\ 0 <= Len(Declared.rest) /\ 0 <= Declared.value
      BY <2>2 DEF Skip
    <3> QED
      BY <1>1, <2>1, <2>3, <3>1, SameJob DEF Placed
  <2>6. Here' = Origin
    BY <1>1, <2>3 DEF Here, Origin
  <2>7. BytesLeads'
    BY <2>3, <2>6, SameJob DEF BytesLeads
  <2>8. BytesAnswered'
    BY <2>3, SameJob DEF BytesAnswered, Inv
  <2>9. ReadFollows'
    <3> SUFFICES ASSUME path' = "read", phase' = "elements", WithinMls'
                 PROVE  LoopLeadsTo(Here, answers["bytes"])'
      BY DEF ReadFollows
    <3>1. LoopLeadsTo(Origin, answers["bytes"])
      BY <1>1, <2>1, <2>3 DEF Inv, BytesAnswered, Answered, TypeOK
    <3>2. \A x, a : LoopLeadsTo(x, a)' = LoopLeadsTo(x, a)
      BY <2>3, SameJob
    <3> QED
      BY <2>3, <2>6, <3>1, <3>2 DEF LoopLeadsTo, Declared
  <2>10. PathsAgree'
    BY <1>1, <2>3, SameJob DEF Inv, PathsAgree, DeclaredLengthIsExact, Succeeded
  <2> QED
    BY <2>4, <2>5, <2>7, <2>8, <2>9, <2>10 DEF Inv
<1> QED
  BY <1>3, <1>4

(* What holds where a loop is at work, or octets are taken.                *)
LEMMA AtWork ==
  ASSUME Inv, phase \in {"elements", "octets"}
  PROVE  /\ rest \in Seq(Octets) /\ IsSequence(rest) /\ Len(rest) \in Nat /\ Len(rest) = Len(Declared.rest) - read
         /\ read \in Nat /\ length \in Nat /\ length = Declared.value
         /\ Declared.rest \in Seq(Octets) /\ IsSequence(Declared.rest) /\ Len(Declared.rest) \in Nat
         /\ read <= Len(Declared.rest) /\ rest = Skip(Declared.rest, read)
         /\ Start("bytes") # Err /\ job.mls \in BOOLEAN
<1>1. /\ Start("bytes") # Err /\ length = Declared.value
      /\ read <= Len(Declared.rest) /\ rest = Skip(Declared.rest, read)
  BY DEF Inv, Placed
<1>2. Declared.rest \in Seq(Octets) /\ read \in Nat /\ rest \in Seq(Octets) /\ length \in Nat /\ job.mls \in BOOLEAN
  BY <1>1, DeclaredLength DEF Inv, TypeOK
<1>3. read \in 0 .. Len(Declared.rest)
  BY <1>1, <1>2
<1>4. Len(rest) = Len(Declared.rest) - read
  BY <1>1, <1>2, <1>3, Skips
<1> QED
  BY <1>1, <1>2, <1>4, OfItsElements

(* Going on by the octets of an element.                                   *)
LEMMA Advance ==
  ASSUME Inv, phase = "elements", NEW n \in 0 .. Len(rest)
  PROVE  /\ Skip(rest, n) \in Seq(Octets) /\ Len(Skip(rest, n)) = Len(rest) - n
         /\ read + n <= Len(Declared.rest) /\ Skip(rest, n) = Skip(Declared.rest, read + n)
<1>1. Skip(rest, n) \in Seq(Octets) /\ Len(Skip(rest, n)) = Len(rest) - n
  BY AtWork, Skips
<1>2. n \in Nat /\ read + n <= Len(Declared.rest)
  BY AtWork
<1>3. Skip(Skip(Declared.rest, read), n) = Skip(Declared.rest, read + n)
  BY <1>2, AtWork, SkipTwice
<1> QED
  BY <1>1, <1>2, <1>3, AtWork

LEMMA BytesGoesOn ==
  ASSUME Inv, BytesElement
  PROVE  /\ Inv'
         /\ phase' = "elements" => Len(rest') < Len(rest) /\ read' > read
<1> DEFINE r == Read(job.kind, "bytes", rest, job.mls)
<1>1. path = "bytes" /\ phase = "elements" /\ read < length /\ job.kind \in Kinds /\ job.mls \in BOOLEAN
  BY DEF BytesElement, Inv, InOrder, TypeOK
<1>2. /\ rest \in Seq(Octets) /\ Len(rest) \in Nat /\ read \in Nat /\ length = Declared.value
      /\ Start("bytes") # Err
  BY <1>1, AtWork
<1>3. Here[1] = rest /\ Here[2] = read /\ Here[3] = result
  BY DEF Here
<1>4. CASE r = Err \/ Len(r[1].rest) = Len(rest)
  <2>1. Return(Failed)
    BY <1>1, <1>4 DEF BytesElement
  <2>2. LoopLeadsTo(Here, Failed)
    BY <1>1, <1>2, <1>3, <1>4, GoingOut DEF LoopLeadsTo, Stuck
  <2>3. Answered(Failed)
    BY <1>1, <1>2, <2>2 DEF Inv, BytesLeads, Answered, Kinds
  <2>4. Inv'
    BY <1>1, <2>1, <2>3, BytesReturns DEF Exact
  <2>5. phase' = "length"
    BY <1>1, <2>1 DEF Return
  <2> QED
    BY <2>4, <2>5
<1>5. CASE ~(r = Err \/ Len(r[1].rest) = Len(rest))
  <2>1. /\ rest' = r[1].rest /\ read' = read + (Len(rest) - Len(r[1].rest))
        /\ result' = Append(result, r[1].value)
        /\ job' = job /\ path' = path /\ phase' = phase /\ length' = length /\ answers' = answers
    BY <1>1, <1>5 DEF BytesElement
  <2>2. PICK n \in 0 .. Len(rest) : r[1].rest = Skip(rest, n)
    BY <1>1, <1>2, <1>5, ElementDecodes DEF Decodes, Paths
  <2>3. /\ Skip(rest, n) \in Seq(Octets) /\ Len(Skip(rest, n)) = Len(rest) - n
        /\ read + n <= Len(Declared.rest) /\ Skip(rest, n) = Skip(Declared.rest, read + n)
    BY <1>1, Advance
  <2> HIDE DEF r
  <2>4. n \in Nat /\ n > 0 /\ Took(r, rest) = n
    <3>1. Len(r[1].rest) = Len(rest) - n
      BY <2>2, <2>3
    <3>2. Len(rest) - n # Len(rest) /\ Len(rest) - (Len(rest) - n) = n
      BY <1>2, <1>5, <3>1
    <3> QED
      BY <3>1, <3>2 DEF Took
  <2>5. rest' = Skip(rest, n) /\ read' = read + n /\ read' \in Nat
    <3>1. rest' = Skip(rest, n) /\ read' = read + Took(r, rest)
      BY <2>1, <2>2 DEF Took, r
    <3> QED
      BY <1>2, <2>4, <3>1
  <2>6. TypeOK' /\ InOrder'
    BY <1>1, <2>1, <2>3, <2>5 DEF Inv, TypeOK, InOrder, Succeeded
  <2>7. Placed'
    BY <1>1, <1>2, <2>1, <2>3, <2>5, SameJob DEF Placed
  <2>8. BytesLeads'
    <3>1. Here' = After(job.kind, job.mls, Here)
      BY <1>3, <2>1, <2>2, <2>4, <2>5 DEF Here, After, r
    <3>2. \A a : LoopLeadsTo(Here, a) <=> LoopLeadsTo(After(job.kind, job.mls, Here), a)
      BY <1>1, <1>2, <1>3, <1>5, GoingOn DEF LoopLeadsTo, Stuck, r
    <3>3. \A a : LoopLeadsTo(After(job.kind, job.mls, Here), a) => LoopLeadsTo(Origin, a)
      BY <1>1, <3>2 DEF Inv, BytesLeads
    <3>4. \A a : LoopLeadsTo(Here', a) => LoopLeadsTo(Origin, a)
      BY <3>1, <3>3
    <3>5. Declared' = Declared /\ Origin' = Origin
      BY <2>1, SameJob
    <3> QED
      BY <2>1, <3>4, <3>5 DEF BytesLeads, LoopLeadsTo
  <2>9. BytesAnswered' /\ ReadFollows'
    BY <1>1, <2>1 DEF BytesAnswered, ReadFollows
  <2>10. PathsAgree'
    BY <1>1, <2>1, SameJob DEF Inv, PathsAgree, DeclaredLengthIsExact, Succeeded
  <2>11. Len(rest') < Len(rest) /\ read' > read
    BY <1>2, <2>3, <2>4, <2>5
  <2> QED
    BY <2>6, <2>7, <2>8, <2>9, <2>10, <2>11 DEF Inv
<1> QED
  BY <1>4, <1>5

LEMMA BytesEnds ==
  ASSUME Inv, BytesLoopEnds
  PROVE  Inv'
<1> DEFINE answer == IF read # length THEN Failed ELSE Success(result, rest)
<1>1. path = "bytes" /\ phase = "elements" /\ read >= length /\ job.kind \in Kinds /\ Return(answer)
  BY DEF BytesLoopEnds, Inv, InOrder
<1>2. /\ read \in Nat /\ length = Declared.value /\ Start("bytes") # Err
      /\ read <= Len(Declared.rest) /\ rest = Skip(Declared.rest, read)
      /\ Len(Declared.rest) \in Nat /\ length \in Nat
  BY <1>1, AtWork
<1>3. Here[1] = rest /\ Here[2] = read /\ Here[3] = result
  BY DEF Here
<1>4. LoopLeadsTo(Here, answer)
  <2>1. ~(read < Declared.value)
    BY <1>1, <1>2
  <2>2. answer = Ending(Declared.value, Here)
    BY <1>2, <1>3 DEF Ending
  <2> HIDE DEF answer
  <2> QED
    BY <1>3, <2>1, <2>2, GoingOut DEF LoopLeadsTo
<1>5. Exact(answer)
  BY <1>2 DEF Exact, Success
<1> HIDE DEF answer
<1>6. Answered(answer)
  BY <1>1, <1>2, <1>4 DEF Inv, BytesLeads, Answered, Kinds
<1> QED
  BY <1>1, <1>5, <1>6, BytesReturns

LEMMA ReadGoesOn ==
  ASSUME Inv, ReadElement
  PROVE  /\ Inv'
         /\ phase' = "elements" => Len(rest') < Len(rest) /\ read' > read
<1> DEFINE m == IF length - read < Len(rest) THEN length - read ELSE Len(rest)
           sub == Cut(rest, m)
           r == Read(job.kind, "read", sub, job.mls)
           b == Read(job.kind, "bytes", rest, job.mls)
<1>1. path = "read" /\ phase = "elements" /\ read < length /\ job.kind \in Kinds /\ job.mls \in BOOLEAN
  BY DEF ReadElement, Inv, InOrder, TypeOK
<1>2. /\ rest \in Seq(Octets) /\ IsSequence(rest) /\ Len(rest) \in Nat /\ read \in Nat
      /\ length \in Nat /\ length = Declared.value
      /\ Start("bytes") # Err
  BY <1>1, AtWork
<1>3. Here[1] = rest /\ Here[2] = read /\ Here[3] = result
  BY DEF Here
<1>4. m \in 0 .. Len(rest) /\ m \in Nat /\ m <= length - read /\ (m < length - read => m = Len(rest))
  BY <1>1, <1>2
<1>5. IF r = Err \/ Len(r[1].rest) = Len(sub) THEN Return(Failed)
      ELSE /\ rest' = Skip(rest, Took(r, sub)) /\ read' = read + Took(r, sub)
           /\ result' = Append(result, r[1].value)
           /\ job' = job /\ path' = path /\ phase' = phase /\ length' = length /\ answers' = answers
  <2> HIDE DEF r
  <2>1. r = Read(job.kind, path, SubSeq(rest, 1, m), job.mls) /\ sub = SubSeq(rest, 1, m)
    BY <1>1 DEF r, Cut
  <2>2. IF r = Err \/ Len(r[1].rest) = Len(sub) THEN Return(Failed)
        ELSE /\ rest' = Skip(rest, Len(sub) - Len(r[1].rest)) /\ read' = read + (Len(sub) - Len(r[1].rest))
             /\ result' = Append(result, r[1].value)
             /\ UNCHANGED <<job, path, phase, length, answers>>
    BY <1>1, <2>1 DEF ReadElement
  <2> QED
    BY <2>2 DEF Took
<1> HIDE DEF m
<1>6. sub \in Seq(Octets) /\ Len(sub) = m
  BY <1>2, <1>4, Cuts
<1>7. WithinMls => LoopLeadsTo(Here, answers["bytes"]) /\ Follows(b, rest, r, m)
  <2> SUFFICES ASSUME WithinMls PROVE LoopLeadsTo(Here, answers["bytes"]) /\ Follows(b, rest, r, m)
    OBVIOUS
  <2>1. job.mls => m <= MAX_MLS_LEN
    BY <1>2, <1>4, Numbers DEF WithinMls
  <2> QED
    BY <1>1, <1>2, <1>4, <2>1, LimitedReads DEF Inv, ReadFollows
<1>8. Decodes(b, rest) /\ Decodes(r, sub)
  BY <1>1, <1>2, <1>6, ElementDecodes DEF Paths
<1> HIDE DEF sub, r, b
<1>9. CASE r = Err \/ Len(r[1].rest) = Len(sub)
  <2>1. Return(Failed) /\ phase' = "done"
    BY <1>1, <1>5, <1>9 DEF Return
  <2>2. WithinMls => answers["bytes"] = Failed
    <3> SUFFICES ASSUME WithinMls PROVE answers["bytes"] = Failed
      OBVIOUS
    <3>1. CASE b = Err
      BY <1>1, <1>2, <1>3, <1>7, <3>1, GoingOut DEF LoopLeadsTo, Stuck, b
    <3>2. CASE b # Err
      <4>1. PICK n \in 0 .. Len(rest) : b[1].rest = Skip(rest, n)
        BY <1>8, <3>2 DEF Decodes
      <4>2. n \in Nat /\ Len(b[1].rest) = Len(rest) - n /\ Took(b, rest) = n
        <5>1. Len(Skip(rest, n)) = Len(rest) - n
          BY <1>2, Skips
        <5>2. Len(rest) - (Len(rest) - n) = n
          BY <1>2
        <5> QED
          BY <4>1, <5>1, <5>2 DEF Took
      <4>3. CASE n > m
        <5>1. m = length - read /\ n # 0
          BY <1>2, <1>4, <4>2, <4>3
        <5>2. Len(b[1].rest) # Len(rest)
          BY <1>2, <4>2, <5>1
        <5> DEFINE next == After(job.kind, job.mls, Here)
        <5>3. LoopLeadsTo(next, answers["bytes"])
          BY <1>1, <1>2, <1>3, <1>7, <3>2, <5>2, GoingOn DEF LoopLeadsTo, Stuck, b
        <5>4. next[2] = read + n
          BY <1>3, <4>2 DEF After, b
        <5> HIDE DEF next
        <5>5. ~(next[2] < Declared.value) /\ next[2] # Declared.value
          BY <1>2, <4>2, <4>3, <5>1, <5>4
        <5> QED
          BY <5>3, <5>5, GoingOut DEF LoopLeadsTo, Ending
      <4>4. CASE ~(n > m)
        <5>1. r # Err /\ r[1].rest = Skip(sub, n)
          BY <1>7, <3>2, <4>2, <4>4 DEF Follows, sub
        <5>2. n \in 0 .. Len(sub)
          BY <1>4, <1>6, <4>2, <4>4
        <5>3. Len(r[1].rest) = Len(sub) - n
          BY <1>6, <5>1, <5>2, Skips
        <5>4. n = 0
          BY <1>4, <1>6, <1>9, <4>2, <5>1, <5>3
        <5>5. Len(b[1].rest) = Len(rest)
          BY <1>2, <4>2, <5>4
        <5> QED
          BY <1>1, <1>2, <1>3, <1>7, <5>5, GoingOut DEF LoopLeadsTo, Stuck, b
      <4> QED
        BY <4>3, <4>4
    <3> QED
      BY <3>1, <3>2
  <2>3. Inv'
    BY <1>1, <2>1, <2>2, ReadReturns DEF Exact
  <2> QED
    BY <2>1, <2>3
<1>10. CASE ~(r = Err \/ Len(r[1].rest) = Len(sub))
  <2>1. PICK n \in 0 .. Len(sub) : r[1].rest = Skip(sub, n)
    BY <1>8, <1>10 DEF Decodes
  <2>2. n \in Nat /\ n <= m /\ n \in 0 .. Len(rest)
    BY <1>4, <1>6
  <2>3. Took(r, sub) = n /\ n > 0
    <3>1. Len(r[1].rest) = Len(sub) - n
      BY <1>6, <2>1, Skips
    <3>2. Len(sub) - n # Len(sub) /\ Len(sub) - (Len(sub) - n) = n
      BY <1>4, <1>6, <1>10, <2>2, <3>1
    <3> QED
      BY <2>2, <3>1, <3>2 DEF Took
  <2>4. /\ rest' = Skip(rest, n) /\ read' = read + n /\ result' = Append(result, r[1].value)
        /\ job' = job /\ path' = path /\ phase' = phase /\ length' = length /\ answers' = answers
    BY <1>5, <1>10, <2>3
  <2>5. /\ Skip(rest, n) \in Seq(Octets) /\ Len(Skip(rest, n)) = Len(rest) - n
        /\ read + n <= Len(Declared.rest) /\ Skip(rest, n) = Skip(Declared.rest, read + n)
    BY <1>1, <2>2, Advance
  <2>6. read + n \in Nat /\ read + n <= length
    BY <1>2, <1>4, <2>2
  <2>7. TypeOK' /\ InOrder'
    BY <1>1, <2>4, <2>5, <2>6 DEF Inv, TypeOK, InOrder, Succeeded
  <2>8. Placed'
    BY <1>1, <1>2, <2>4, <2>5, <2>6, SameJob DEF Placed
  <2>9. ReadFollows'
    <3> SUFFICES ASSUME WithinMls' PROVE LoopLeadsTo(Here, answers["bytes"])'
      BY DEF ReadFollows
    <3>1. WithinMls
      BY <2>4, SameJob
    <3>2. b # Err /\ ~(Took(b, rest) > m) /\ r[1].value = b[1].value /\ r[1].rest = Skip(sub, Took(b, rest))
      BY <1>7, <1>10, <3>1 DEF Follows, sub
    <3>3. PICK k \in 0 .. Len(rest) : b[1].rest = Skip(rest, k)
      BY <1>8, <3>2 DEF Decodes
    <3>4. Took(b, rest) = k /\ k \in Nat /\ Len(b[1].rest) = Len(rest) - k
      <4>1. Len(Skip(rest, k)) = Len(rest) - k
        BY <1>2, Skips
      <4>2. Len(rest) - (Len(rest) - k) = k
        BY <1>2
      <4> QED
        BY <3>3, <4>1, <4>2 DEF Took
    <3>5. k = n
      <4>1. k \in 0 .. Len(sub)
        BY <1>4, <1>6, <3>2, <3>4
      <4>2. Len(Skip(sub, k)) = Len(sub) - k /\ Len(Skip(sub, n)) = Len(sub) - n
        BY <1>6, <4>1, Skips
      <4>3. Len(sub) - k = Len(sub) - n
        BY <2>1, <3>2, <3>4, <4>2
      <4> QED
        BY <1>4, <1>6, <2>2, <3>4, <4>3
    <3>6. Here' = After(job.kind, job.mls, Here)
      BY <1>3, <2>4, <3>2, <3>3, <3>4, <3>5 DEF Here, After, b
    <3>7. Len(b[1].rest) # Len(rest)
      BY <1>2, <2>2, <2>3, <3>4, <3>5
    <3>8. LoopLeadsTo(After(job.kind, job.mls, Here), answers["bytes"])
      BY <1>1, <1>2, <1>3, <1>7, <3>1, <3>2, <3>7, GoingOn DEF LoopLeadsTo, Stuck, b
    <3>9. Declared' = Declared
      BY <2>4, SameJob
    <3> QED
      BY <2>4, <3>6, <3>8, <3>9 DEF LoopLeadsTo
  <2>10. BytesLeads' /\ BytesAnswered'
    BY <1>1, <2>4, SameJob DEF BytesLeads, BytesAnswered, Inv
  <2>11. PathsAgree'
    BY <1>1, <2>4, SameJob DEF Inv, PathsAgree, DeclaredLengthIsExact, Succeeded
  <2>12. Len(rest') < Len(rest) /\ read' > read
    BY <1>2, <2>2, <2>3, <2>4, <2>5
  <2> QED
    BY <2>7, <2>8, <2>9, <2>10, <2>11, <2>12 DEF Inv
<1> QED
  BY <1>9, <1>10

LEMMA ReadEnds ==
  ASSUME Inv, ReadLoopEnds
  PROVE  Inv'
<1> DEFINE answer == Success(result, rest)
<1>1. path = "read" /\ phase = "elements" /\ read >= length /\ Return(answer)
  BY DEF ReadLoopEnds
<1>2. /\ read \in Nat /\ length = Declared.value /\ length \in Nat
      /\ read <= Len(Declared.rest) /\ rest = Skip(Declared.rest, read) /\ Len(Declared.rest) \in Nat
  BY <1>1, AtWork
<1>3. read = length
  BY <1>1, <1>2 DEF Inv, Placed
<1>4. Exact(answer)
  BY <1>2, <1>3 DEF Exact, Success
<1>5. Here[1] = rest /\ Here[2] = read /\ Here[3] = result
  BY DEF Here
<1>6. answer = Ending(Declared.value, Here) /\ ~(read < Declared.value)
  BY <1>2, <1>3, <1>5 DEF Ending
<1> HIDE DEF answer
<1>7. WithinMls => answer = answers["bytes"]
  BY <1>1, <1>5, <1>6, GoingOut DEF Inv, ReadFollows, LoopLeadsTo
<1> QED
  BY <1>1, <1>4, <1>7, ReadReturns

LEMMA OctetsTaken ==
  ASSUME Inv, SliceOctets \/ ReadOctets
  PROVE  Inv'
<1>1. phase = "octets"
  BY DEF SliceOctets, ReadOctets
<1>2. /\ IsSequence(rest) /\ Len(rest) \in Nat /\ length \in Nat /\ length = Declared.value
      /\ Declared.rest \in Seq(Octets) /\ Start("bytes") # Err
  BY <1>1, AtWork
<1>3. rest = Declared.rest /\ job.kind = "octets"
  <2>1. rest = Skip(Declared.rest, 0) /\ job.kind = "octets"
    BY <1>1 DEF Inv, Placed, InOrder
  <2> QED
    BY <1>2, <2>1 DEF Skip
<1> DEFINE answer == IF Declared.value <= Len(Declared.rest)
                     THEN Success(Cut(Declared.rest, Declared.value), Skip(Declared.rest, Declared.value))
                     ELSE Failed
<1>4. Exact(answer)
  BY <1>2, <1>3 DEF Exact, Success
<1>5. CASE SliceOctets
  <2>1. path = "bytes" /\ Return(answer)
    BY <1>2, <1>3, <1>5 DEF SliceOctets, Cut
  <2>2. Answered(answer)
    BY <1>2, <1>3 DEF Answered, Kinds
  <2> HIDE DEF answer
  <2> QED
    BY <1>1, <1>4, <2>1, <2>2, BytesReturns
<1>6. CASE ReadOctets
  <2> DEFINE r == read_bytes_bounded(rest, length)
  <2>1. r = IF length <= Len(rest) THEN Decoded(Cut(rest, length), Skip(rest, length)) ELSE Err
    BY <1>2, BoundedReads
  <2>2. (IF r = Err THEN Failed ELSE Success(r[1].value, r[1].rest)) = answer
    BY <1>2, <1>3, <2>1 DEF Decoded, Ok, Err
  <2>3. path = "read" /\ Return(answer)
    BY <1>6, <2>2 DEF ReadOctets
  <2>4. answers["bytes"] = answer
    BY <1>2, <1>3, <2>3 DEF Inv, BytesAnswered, Answered
  <2> HIDE DEF answer
  <2> QED
    BY <1>1, <1>4, <2>3, <2>4, ReadReturns
<1> QED
  BY <1>5, <1>6

LEMMA Stuttering ==
  ASSUME Inv, UNCHANGED vars
  PROVE  Inv'
<1>1. job' = job
  BY DEF vars
<1>2. /\ path' = path /\ phase' = phase /\ rest' = rest /\ length' = length /\ read' = read
      /\ result' = result /\ answers' = answers
  BY DEF vars
<1>3. TypeOK' /\ InOrder'
  BY <1>1, <1>2 DEF Inv, TypeOK, InOrder, Succeeded
<1>4. Placed' /\ BytesAnswered'
  BY <1>1, <1>2, SameJob DEF Inv, Placed, BytesAnswered
<1>5. BytesLeads' /\ ReadFollows'
  BY <1>1, <1>2 DEF Inv, BytesLeads, ReadFollows, LoopLeadsTo, Here, Origin, Declared, WithinMls
<1>6. PathsAgree'
  BY <1>1, <1>2 DEF Inv, PathsAgree, DeclaredLengthIsExact, Succeeded, Declared, WithinMls
<1> QED
  BY <1>3, <1>4, <1>5, <1>6 DEF Inv

LEMMA Inductive == Inv /\ [Next]_vars => Inv'
  BY Writing, LengthReading, BytesGoesOn, BytesEnds, ReadGoesOn, ReadEnds, OctetsTaken, Stuttering DEF Next

--------------------------------------------------------------------------------
(* Whatever the octets, the two decoders of a vector accept the same ones, *)
(* with the same elements and the same remainder, and take exactly what is *)
(* declared (quic_vec.rs, tls_vec.rs).                                     *)
THEOREM Agreement == Spec => []PathsAgree
<1>1. Inv => PathsAgree
  BY DEF Inv
<1> QED
  BY <1>1, Beginnings, Inductive, PTL DEF Spec

(* Every turn of an element loop takes octets off its input: it ends       *)
(* whatever length is declared (quic_vec.rs:112, tls_vec.rs:107).          *)
THEOREM Advancing == Spec => LoopsAdvance
<1>1. Inv /\ [Next]_vars
        => [phase = "elements" /\ phase' = "elements" /\ path' = path
              => Len(rest') < Len(rest) /\ read' > read]_vars
  <2> SUFFICES ASSUME Inv, Next, phase = "elements", phase' = "elements", path' = path
               PROVE  Len(rest') < Len(rest) /\ read' > read
    OBVIOUS
  <2>1. CASE BytesElement
    BY <2>1, BytesGoesOn
  <2>2. CASE ReadElement
    BY <2>2, ReadGoesOn
  <2>3. BytesElement \/ ReadElement
    BY DEF Next, WriteVector, ReadLength, BytesLoopEnds, ReadLoopEnds, SliceOctets, ReadOctets, Return
  <2> QED
    BY <2>1, <2>2, <2>3
<1> QED
  BY <1>1, Beginnings, Inductive, PTL DEF Spec, LoopsAdvance

--------------------------------------------------------------------------------
(* The decoders are given what was written, and the loop of                *)
(* tls_deserialize_bytes has read the first elements of it.                *)
Out == Serialize(job.lengths, job.kind, job.written[1], job.mls)
WrittenAnswer == Success(IF job.kind = "unit" THEN <<>> ELSE job.written[1], job.suffix)
Progress ==
  \E k \in 0 .. Len(job.written[1]) :
    /\ result = Cut(job.written[1], k) /\ read = ContentLength(job.kind, Cut(job.written[1], k), job.mls)
    /\ job.kind = "unit" => k = 0
AsWritten ==
  job.written # Err =>
    /\ phase = "refused" => Out = Err
    /\ phase \notin {"write", "refused"} => Out # Err /\ job.input = Out[1] \o job.suffix
    /\ path = "bytes" /\ phase = "elements" => Progress
    /\ path = "read" => answers["bytes"] = WrittenAnswer

LEMMA WhatIsWritten ==
  ASSUME Inv, job.written # Err
  PROVE  /\ job.lengths \in {"varint", "u8"} /\ job.kind \in Kinds \cup {"octets"} /\ job.mls \in BOOLEAN
         /\ job.written[1] \in Seq(Values(job.kind)) /\ job.suffix \in Seq(Octets)
  BY InputsAssumption DEF Inv, TypeOK

LEMMA WhatIsRead ==
  ASSUME Inv, AsWritten, job.written # Err, phase \notin {"write", "refused"}
  PROVE  /\ Complete(job.kind, job.written[1], job.mls)
         /\ ContentLength(job.kind, job.written[1], job.mls) \in Nat
         /\ Start("bytes") # Err
         /\ Declared.value = ContentLength(job.kind, job.written[1], job.mls)
         /\ Declared.rest = Body(job.kind, job.written[1], job.mls) \o job.suffix
         /\ Cut(Declared.rest, Declared.value) = Body(job.kind, job.written[1], job.mls)
         /\ Skip(Declared.rest, Declared.value) = job.suffix
         /\ Declared.value <= Len(Declared.rest)
         /\ Len(job.input) = Size(job.lengths, job.kind, job.written[1], job.mls) + Len(job.suffix)
         /\ WithinMls
<1> DEFINE v == job.written[1]
           n == ContentLength(job.kind, v, job.mls)
           body == Body(job.kind, v, job.mls)
<1>1. /\ job.lengths \in {"varint", "u8"} /\ job.kind \in Kinds \cup {"octets"} /\ job.mls \in BOOLEAN
      /\ v \in Seq(Values(job.kind)) /\ job.suffix \in Seq(Octets)
  BY WhatIsWritten
<1>2. Out # Err /\ job.input = Out[1] \o job.suffix
  BY DEF AsWritten
<1>3. /\ Complete(job.kind, v, job.mls)
      /\ Len(job.input) = Size(job.lengths, job.kind, v, job.mls) + Len(job.suffix)
      /\ Start("bytes") = Decoded(n, body \o job.suffix)
  <2> DEFINE out == Serialize(job.lengths, job.kind, v, job.mls)
  <2>1. out # Err /\ job.input = out[1] \o job.suffix
    BY <1>2 DEF Out
  <2>2. /\ Complete(job.kind, v, job.mls)
        /\ Len(out[1] \o job.suffix) = Size(job.lengths, job.kind, v, job.mls) + Len(job.suffix)
        /\ LengthOfInput("bytes", job.lengths, out[1] \o job.suffix, job.mls) = Decoded(n, body \o job.suffix)
    <3> HIDE DEF v
    <3> QED
      BY <1>1, <2>1, WholeVector, ZenonT(60)
  <2> HIDE DEF out, v, n, body
  <2> QED
    BY <2>1, <2>2 DEF Start
<1>4. body \in Seq(Octets) /\ Len(body) = n /\ n \in Nat
  BY <1>3, SerializedAs
<1>5. n <= Longest(job.lengths, job.mls)
  <2>1. Out = Err <=> n > Longest(job.lengths, job.mls)
    BY <1>1, RefusedIfTooLong DEF Out
  <2>2. Longest(job.lengths, job.mls) \in Nat
    BY Rooms, Numbers DEF Longest
  <2> HIDE DEF n
  <2> QED
    BY <1>2, <1>4, <2>1, <2>2
<1>6. Start("bytes") # Err /\ Declared.value = n /\ Declared.rest = body \o job.suffix
  <2> HIDE DEF v, n, body
  <2>1. Declared = Start("bytes")[1]
    BY DEF Declared, Start
  <2> DEFINE all == body \o job.suffix
  <2>2. Decoded(n, all) # Err /\ Decoded(n, all)[1].value = n /\ Decoded(n, all)[1].rest = all
    BY DEF Decoded, Ok, Err
  <2>3. Start("bytes") = Decoded(n, all)
    BY <1>3
  <2> HIDE DEF all
  <2>4. Start("bytes") # Err /\ Declared.value = n /\ Declared.rest = all
    BY ONLY <2>1, <2>2, <2>3
  <2> QED
    BY <2>4 DEF all
<1> HIDE DEF v, n, body
<1>7. WithinMls
  <2>1. ByteBase - 1 <= MAX_MLS_LEN /\ MAX_MLS_LEN \in Nat /\ ByteBase - 1 \in Nat
    BY Rooms, Numbers
  <2> SUFFICES ASSUME job.mls PROVE Declared.value <= MAX_MLS_LEN
    BY DEF WithinMls
  <2>2. Longest(job.lengths, job.mls) = ByteBase - 1 \/ Longest(job.lengths, job.mls) = MAX_MLS_LEN
    BY DEF Longest
  <2> DEFINE longest == Longest(job.lengths, job.mls)
  <2>3. n <= longest /\ n \in Nat /\ (longest = ByteBase - 1 \/ longest = MAX_MLS_LEN)
    BY <1>4, <1>5, <2>2
  <2> HIDE DEF longest
  <2>4. n <= MAX_MLS_LEN
    BY ONLY <2>1, <2>3
  <2> QED
    BY <1>6, <2>4
<1>8. IsSequence(body) /\ IsSequence(job.suffix)
  BY <1>1, <1>4, OfItsElements
<1>9. Cut(Declared.rest, Declared.value) = body /\ Skip(Declared.rest, Declared.value) = job.suffix
  BY <1>4, <1>6, <1>8, PartsOf
<1>10. Declared.value <= Len(Declared.rest)
  <2>1. Len(body \o job.suffix) = Len(body) + Len(job.suffix) /\ Len(job.suffix) \in Nat
    BY <1>8, ConcatFacts, SequenceShape
  <2> QED
    BY <1>4, <1>6, <2>1
<1> QED
  BY <1>3, <1>4, <1>6, <1>7, <1>9, <1>10 DEF v, n, body

LEMMA AsWrittenAtFirst == Init => AsWritten
<1> SUFFICES ASSUME Init, job.written # Err PROVE AsWritten
  BY DEF AsWritten
<1>1. path = "bytes" /\ phase = "write"
  BY DEF Init, Job
<1> QED
  BY <1>1 DEF AsWritten

(* Once tls_deserialize_bytes has answered, nothing that is said changes.  *)
LEMMA AsWrittenStays ==
  ASSUME AsWritten, job' = job, path = "read", path' = "read", answers'["bytes"] = answers["bytes"],
         phase \notin {"write", "refused"}, phase' \notin {"write", "refused"}
  PROVE  AsWritten'
<1>1. Out' = Out /\ WrittenAnswer' = WrittenAnswer
  BY DEF Out, WrittenAnswer
<1> QED
  BY <1>1 DEF AsWritten

LEMMA AsWrittenReturns ==
  ASSUME Inv, AsWritten, path = "bytes", phase \in {"length", "elements", "octets"}, NEW answer, Return(answer),
         job.written # Err => answer = WrittenAnswer
  PROVE  AsWritten'
<1>1. job' = job /\ path' = "read" /\ phase' = "length" /\ answers'["bytes"] = answer
  BY DEF Return, Inv, TypeOK, Paths
<1>2. Out' = Out /\ WrittenAnswer' = WrittenAnswer
  BY <1>1 DEF Out, WrittenAnswer
<1> QED
  BY <1>1, <1>2 DEF AsWritten

LEMMA WritesVector ==
  ASSUME Inv, AsWritten, WriteVector
  PROVE  AsWritten'
<1>1. phase = "write" /\ path = "bytes" /\ path' = path
  BY DEF WriteVector, Inv, InOrder
<1>2. CASE Out = Err
  <2>1. phase' = "refused" /\ job' = job
    BY <1>2 DEF WriteVector, Out
  <2>2. Out' = Out
    BY <2>1 DEF Out
  <2> QED
    BY <1>1, <1>2, <2>1, <2>2 DEF AsWritten
<1>3. CASE Out # Err
  <2>1. phase' = "length" /\ job' = [job EXCEPT !.input = Out[1] \o job.suffix]
    BY <1>3 DEF WriteVector, Out
  <2>2. /\ job'.lengths = job.lengths /\ job'.kind = job.kind /\ job'.written = job.written
        /\ job'.mls = job.mls /\ job'.suffix = job.suffix /\ job'.input = Out[1] \o job.suffix
    BY <2>1 DEF Inv, TypeOK, Job
  <2>3. Out' = Out
    BY <2>2 DEF Out
  <2> QED
    BY <1>1, <1>3, <2>1, <2>2, <2>3 DEF AsWritten
<1> QED
  BY <1>2, <1>3

LEMMA ReadsLength ==
  ASSUME Inv, AsWritten, ReadLength
  PROVE  AsWritten'
<1>1. phase = "length" /\ rest = job.input /\ read = 0 /\ result = <<>> /\ path \in Paths
  BY DEF ReadLength, Inv, InOrder, TypeOK
<1>2. IF Start(path) = Err THEN Return(Failed) ELSE Enter(Start(path)[1])
  BY <1>1 DEF ReadLength, Start
<1>3. CASE path = "read"
  <2>1. job' = job /\ path' = "read" /\ answers'["bytes"] = answers["bytes"] /\ phase' \notin {"write", "refused"}
    BY <1>2, <1>3 DEF Return, Enter, Inv, TypeOK, Paths
  <2> QED
    BY <1>1, <1>3, <2>1, AsWrittenStays
<1>4. CASE path = "bytes" /\ job.written = Err
  <2>1. job' = job
    BY <1>2 DEF Return, Enter
  <2> QED
    BY <1>4, <2>1 DEF AsWritten
<1>5. CASE path = "bytes" /\ job.written # Err
  <2>1. Start("bytes") # Err
    BY <1>1, <1>5, WhatIsRead
  <2>2. /\ job' = job /\ path' = path /\ read' = 0 /\ result' = <<>>
        /\ phase' = IF job.kind = "octets" THEN "octets" ELSE "elements"
    BY <1>1, <1>2, <1>5, <2>1 DEF Enter
  <2>3. Out' = Out
    BY <2>2 DEF Out
  <2>4. phase' = "elements" => Progress'
    <3> SUFFICES ASSUME job.kind # "octets" PROVE Progress'
      BY <2>2
    <3> DEFINE v == job.written[1]
    <3>1. IsSequence(v)
      BY <1>5, WhatIsWritten, OfItsElements
    <3>2. Len(v) \in Nat /\ Cut(v, 0) = <<>>
      BY <3>1, SequenceShape DEF Cut, IsSequence
    <3>3. ContentLength(job.kind, <<>>, job.mls) = 0
      BY LengthOfNone
    <3>4. 0 \in 0 .. Len(v) /\ result' = Cut(v, 0) /\ read' = ContentLength(job.kind, Cut(v, 0), job.mls)
      BY <2>2, <3>2, <3>3
    <3> QED
      BY <2>2, <3>4 DEF Progress
  <2> QED
    BY <1>1, <1>5, <2>2, <2>3, <2>4 DEF AsWritten
<1> QED
  BY <1>1, <1>3, <1>4, <1>5 DEF Paths

(* An element that was written is read, and takes what it was written as.  *)
LEMMA ReadsAnElement ==
  ASSUME Inv, AsWritten, BytesElement
  PROVE  AsWritten'
<1> DEFINE r == Read(job.kind, "bytes", rest, job.mls)
<1>1. path = "bytes" /\ phase = "elements" /\ read < length
  BY DEF BytesElement
<1>2. IF r = Err \/ Len(r[1].rest) = Len(rest) THEN Return(Failed)
      ELSE /\ rest' = r[1].rest /\ read' = read + (Len(rest) - Len(r[1].rest))
           /\ result' = Append(result, r[1].value)
           /\ job' = job /\ path' = path /\ phase' = phase
  BY <1>1 DEF BytesElement
<1>3. CASE job.written = Err
  <2>1. job' = job
    BY <1>2 DEF Return
  <2> QED
    BY <1>3, <2>1 DEF AsWritten
<1>4. CASE job.written # Err
  <2> DEFINE v == job.written[1]
             C(m) == ContentLength(job.kind, Cut(v, m), job.mls)
  <2>1. /\ job.kind \in Kinds /\ job.kind # "octets" /\ v \in Seq(Values(job.kind)) /\ job.mls \in BOOLEAN
        /\ job.suffix \in Seq(Octets)
    BY <1>1, <1>4, WhatIsWritten DEF Inv, InOrder, Kinds
  <2>2. /\ Writable(job.kind, v, job.mls) /\ length = ContentLength(job.kind, v, job.mls)
        /\ Declared.rest = Joined(job.kind, v, job.mls) \o job.suffix
    BY <1>1, <1>4, <2>1, WhatIsRead, AtWork DEF Complete, Body
  <2>3. PICK k \in 0 .. Len(v) : result = Cut(v, k) /\ read = C(k) /\ (job.kind = "unit" => k = 0)
    BY <1>1, <1>4 DEF AsWritten, Progress
  <2>4. IsSequence(v) /\ Len(v) \in Nat /\ DOMAIN v = 1 .. Len(v)
    BY <2>1, OfItsElements, SequenceShape
  <2>5. rest = Skip(Declared.rest, read) /\ read \in Nat /\ length \in Nat /\ rest \in Seq(Octets)
    BY <1>1, AtWork
  <2>6. k # Len(v)
    <3>1. Cut(v, Len(v)) = v
      BY <2>4, WholeSegment DEF Cut
    <3> SUFFICES ASSUME k = Len(v) PROVE FALSE
      OBVIOUS
    <3>2. read = length
      BY <2>2, <2>3, <3>1
    <3> QED
      BY <1>1, <2>5, <3>2
  <2>7. job.kind # "unit"
    <3> SUFFICES ASSUME job.kind = "unit" PROVE FALSE
      OBVIOUS
    <3>1. length = 0
      BY <2>2, <2>4, UnitsAreNone
    <3> QED
      BY <1>1, <2>5, <3>1
  <2>8. k \in 0 .. Len(v) - 1 /\ k + 1 \in 0 .. Len(v) /\ k + 1 \in DOMAIN v
    BY <2>4, <2>6
  <2> DEFINE e == v[k + 1]
             w == Write(job.kind, e, job.mls)[1]
             size == tls_serialized_len(job.kind, e, job.mls)
  <2>9. IsWritten(job.kind, e, job.mls) /\ Cut(v, k + 1) = Append(Cut(v, k), e) /\ C(k + 1) = C(k) + size
    <3> HIDE DEF v
    <3>1. job.kind # "octets" /\ Writable(job.kind, v, job.mls) /\ k \in 0 .. Len(v) - 1
      BY <2>1, <2>2, <2>8
    <3> QED
      BY ONLY <3>1, OneMore, ZenonT(60)
  <2>10. PICK t \in Seq(Octets) : Skip(Declared.rest, C(k)) = w \o t
    <3> HIDE DEF v
    <3>1. /\ job.kind # "octets" /\ Writable(job.kind, v, job.mls) /\ k \in 0 .. Len(v) - 1
          /\ job.suffix \in Seq(Octets)
      BY <2>1, <2>2, <2>8
    <3>2. BeginsWith(Skip(Joined(job.kind, v, job.mls) \o job.suffix, ContentLength(job.kind, Cut(v, k), job.mls)),
                     Write(job.kind, v[k + 1], job.mls)[1])
      BY ONLY <3>1, NextElement
    <3> QED
      BY <2>2, <3>2 DEF BeginsWith
  <2>11. rest = w \o t
    BY <2>3, <2>5, <2>10
  <2>12. e \in Values(job.kind)
    BY <2>1, <2>8
  <2>13. w \in Seq(Octets) /\ Len(w) = size /\ size \in Nat /\ size > 0
    BY <2>1, <2>7, <2>9, <2>12, ElementRefused DEF IsWritten
  <2>14. r = Decoded(e, t)
    BY <2>1, <2>9, <2>11, <2>12, ElementBack DEF IsWritten
  <2>15. Len(rest) = size + Len(t) /\ Len(t) \in Nat
    <3> HIDE DEF w, size
    <3>1. IsSequence(w) /\ IsSequence(t)
      BY <2>13, OfItsElements
    <3> QED
      BY <2>11, <2>13, <3>1, ConcatFacts, SequenceShape
  <2>16. r # Err /\ r[1].rest = t /\ r[1].value = e
    BY <2>14 DEF Decoded, Ok, Err
  <2> HIDE DEF r, w, size, e, C
  <2>17. Len(t) # Len(rest) /\ Len(rest) - Len(t) = size
    BY <2>13, <2>15
  <2>18. /\ read' = read + size /\ result' = Append(result, e)
         /\ job' = job /\ path' = path /\ phase' = phase
    BY <1>2, <2>16, <2>17
  <2>19. read' = C(k + 1) /\ result' = Cut(v, k + 1)
    BY <2>3, <2>9, <2>18
  <2>20. Progress'
    <3> DEFINE m == k + 1
    <3>1. m \in 0 .. Len(v) /\ read' = C(m) /\ result' = Cut(v, m)
      BY <2>8, <2>19
    <3> HIDE DEF m
    <3> QED
      BY <2>7, <2>18, <3>1 DEF Progress, C
  <2>21. Out' = Out
    BY <2>18 DEF Out
  <2> QED
    BY <1>1, <1>4, <2>18, <2>20, <2>21 DEF AsWritten
<1> QED
  BY <1>3, <1>4

LEMMA EndsAsWritten ==
  ASSUME Inv, AsWritten, BytesLoopEnds
  PROVE  AsWritten'
<1> DEFINE answer == IF read # length THEN Failed ELSE Success(result, rest)
<1>1. path = "bytes" /\ phase = "elements" /\ read >= length /\ Return(answer)
  BY DEF BytesLoopEnds
<1>2. ASSUME job.written # Err PROVE answer = WrittenAnswer
  <2> DEFINE v == job.written[1]
             C(m) == ContentLength(job.kind, Cut(v, m), job.mls)
  <2>1. job.kind \in Kinds /\ job.kind # "octets" /\ v \in Seq(Values(job.kind)) /\ job.mls \in BOOLEAN
    BY <1>1, <1>2, WhatIsWritten DEF Inv, InOrder, Kinds
  <2>2. /\ Writable(job.kind, v, job.mls) /\ length = ContentLength(job.kind, v, job.mls) /\ length = Declared.value
        /\ Skip(Declared.rest, Declared.value) = job.suffix
    BY <1>1, <1>2, <2>1, WhatIsRead, AtWork DEF Complete
  <2>3. PICK k \in 0 .. Len(v) : result = Cut(v, k) /\ read = C(k) /\ (job.kind = "unit" => k = 0)
    BY <1>1, <1>2 DEF AsWritten, Progress
  <2>4. IsSequence(v) /\ Len(v) \in Nat /\ DOMAIN v = 1 .. Len(v)
    BY <2>1, OfItsElements, SequenceShape
  <2>5. rest = Skip(Declared.rest, read) /\ read \in Nat /\ length \in Nat
    BY <1>1, AtWork
  <2>6. read = length
    <3>1. C(k) <= ContentLength(job.kind, v, job.mls)
      BY <2>1, <2>2, WrittenAhead
    <3> HIDE DEF C
    <3> QED
      BY <1>1, <2>2, <2>3, <2>5, <3>1
  <2>7. rest = job.suffix
    BY <2>2, <2>5, <2>6
  <2>8. result = IF job.kind = "unit" THEN <<>> ELSE v
    <3>1. CASE job.kind = "unit"
      <4>1. Cut(v, 0) = <<>>
        BY <2>4 DEF Cut, IsSequence
      <4> QED
        BY <2>3, <3>1, <4>1
    <3>2. CASE job.kind # "unit"
      <4>1. k = Len(v)
        <5> SUFFICES ASSUME k # Len(v) PROVE FALSE
          OBVIOUS
        <5>1. k \in 0 .. Len(v) - 1 /\ k + 1 \in DOMAIN v /\ k + 1 \in 0 .. Len(v)
          BY <2>4
        <5> DEFINE e == v[k + 1]
                   size == tls_serialized_len(job.kind, e, job.mls)
        <5>2. IsWritten(job.kind, e, job.mls) /\ C(k + 1) = C(k) + size
          <6> HIDE DEF v
          <6>1. job.kind # "octets" /\ Writable(job.kind, v, job.mls) /\ k \in 0 .. Len(v) - 1
            BY <2>1, <2>2, <5>1
          <6> QED
            BY ONLY <6>1, OneMore
        <5>3. e \in Values(job.kind)
          BY <2>1, <5>1
        <5>4. size \in Nat /\ size > 0
          BY <2>1, <3>2, <5>2, <5>3, ElementRefused DEF IsWritten
        <5> DEFINE m == k + 1
        <5>5. m \in 0 .. Len(v)
          BY <5>1
        <5> HIDE DEF m
        <5>6. C(m) <= ContentLength(job.kind, v, job.mls)
          BY <2>1, <2>2, <5>5, WrittenAhead
        <5> HIDE DEF C, size
        <5>7. C(m) = read + size /\ C(m) <= length
          BY <2>2, <2>3, <5>2, <5>6 DEF m
        <5> QED
          BY <2>5, <2>6, <5>4, <5>7
      <4>2. Cut(v, Len(v)) = v
        BY <2>4, WholeSegment DEF Cut
      <4> QED
        BY <2>3, <3>2, <4>1, <4>2
    <3> QED
      BY <3>1, <3>2
  <2> QED
    BY <2>6, <2>7, <2>8 DEF WrittenAnswer
<1> HIDE DEF answer
<1> QED
  BY <1>1, <1>2, AsWrittenReturns

LEMMA OctetsAsWritten ==
  ASSUME Inv, AsWritten, SliceOctets
  PROVE  AsWritten'
<1> DEFINE answer == IF Len(rest) < length THEN Failed ELSE Success(SubSeq(rest, 1, length), Skip(rest, length))
<1>1. path = "bytes" /\ phase = "octets" /\ Return(answer)
  BY DEF SliceOctets
<1>2. ASSUME job.written # Err PROVE answer = WrittenAnswer
  <2>1. job.kind = "octets"
    BY <1>1 DEF Inv, InOrder
  <2>2. /\ length = Declared.value /\ Declared.value <= Len(Declared.rest)
        /\ Cut(Declared.rest, Declared.value) = job.written[1] /\ Skip(Declared.rest, Declared.value) = job.suffix
    BY <1>1, <1>2, <2>1, WhatIsRead, AtWork DEF Body
  <2>3. rest = Declared.rest
    <3>1. rest = Skip(Declared.rest, 0) /\ IsSequence(Declared.rest)
      BY <1>1, AtWork DEF Inv, Placed
    <3> QED
      BY <3>1, WholeSegment DEF Skip
  <2>4. Len(rest) \in Nat /\ length \in Nat
    BY <1>1, AtWork
  <2>5. ~(Len(rest) < length)
    BY <2>2, <2>3, <2>4
  <2>6. Cut(rest, length) = job.written[1] /\ Skip(rest, length) = job.suffix
    BY <2>2, <2>3
  <2> QED
    BY <2>1, <2>5, <2>6 DEF WrittenAnswer, Cut
<1> HIDE DEF answer
<1> QED
  BY <1>1, <1>2, AsWrittenReturns

LEMMA SecondDecoder ==
  ASSUME Inv, AsWritten, ReadElement \/ ReadLoopEnds \/ ReadOctets
  PROVE  AsWritten'
<1>1. path = "read" /\ phase \in {"elements", "octets"}
  BY DEF ReadElement, ReadLoopEnds, ReadOctets
<1>2. ASSUME NEW answer, Return(answer) PROVE AsWritten'
  <2>1. job' = job /\ path' = "read" /\ answers'["bytes"] = answers["bytes"] /\ phase' = "done"
    BY <1>1, <1>2 DEF Return, Inv, TypeOK, Paths
  <2> QED
    BY <1>1, <2>1, AsWrittenStays
<1>3. CASE ReadElement
  <2>1. Return(Failed) \/ UNCHANGED <<job, path, phase, length, answers>>
    BY <1>3 DEF ReadElement
  <2>2. CASE UNCHANGED <<job, path, phase, length, answers>>
    BY <1>1, <2>2, AsWrittenStays
  <2> QED
    BY <1>2, <2>1, <2>2
<1>4. CASE ReadLoopEnds
  BY <1>2, <1>4 DEF ReadLoopEnds
<1>5. CASE ReadOctets
  <2>1. \E answer : Return(answer)
    BY <1>5 DEF ReadOctets
  <2> QED
    BY <1>2, <2>1
<1> QED
  BY <1>3, <1>4, <1>5

LEMMA AsWrittenUnchanged ==
  ASSUME AsWritten, UNCHANGED vars
  PROVE  AsWritten'
  BY DEF vars, AsWritten, Out, WrittenAnswer, Progress

LEMMA AsWrittenInductive == Inv /\ AsWritten /\ [Next]_vars => AsWritten'
  BY WritesVector, ReadsLength, ReadsAnElement, EndsAsWritten, OctetsAsWritten, SecondDecoder, AsWrittenUnchanged
     DEF Next

LEMMA AsWrittenMeans ==
  ASSUME Inv, AsWritten
  PROVE  ReadsBackWhatWasWritten
<1> SUFFICES ASSUME job.written # Err PROVE ReadsBackWhatWasWritten
  BY DEF ReadsBackWhatWasWritten
<1> DEFINE v == job.written[1]
           size == ContentLength(job.kind, v, job.mls)
<1>1. /\ job.lengths \in {"varint", "u8"} /\ job.kind \in Kinds \cup {"octets"} /\ job.mls \in BOOLEAN
      /\ v \in Seq(Values(job.kind))
  BY WhatIsWritten
<1>2. Out = Err <=> size > Limit
  <2>1. Limit = Longest(job.lengths, job.mls)
    BY DEF Limit, Longest, IsVarInt
  <2> QED
    BY <1>1, <2>1, RefusedIfTooLong DEF Out
<1>3. phase = "refused" <=> phase # "write" /\ size > Limit
  <2> HIDE DEF size
  <2> QED
    BY <1>2 DEF AsWritten
<1>4. phase \notin {"write", "refused"} =>
        Len(job.input) = Size(job.lengths, job.kind, v, job.mls) + Len(job.suffix)
  BY WhatIsRead
<1>5. answers["bytes"].state \in {"Ok", "Err"} => answers["bytes"] = WrittenAnswer
  <2>1. path = "bytes" => answers["bytes"].state = "pending"
    BY DEF Inv, InOrder, Pending
  <2> QED
    BY <2>1 DEF AsWritten, Inv, TypeOK, Paths
<1>6. answers["read"].state \in {"Ok", "Err"} => answers["read"] = WrittenAnswer
  <2> SUFFICES ASSUME answers["read"].state \in {"Ok", "Err"} PROVE answers["read"] = WrittenAnswer
    OBVIOUS
  <2>1. phase = "done" /\ path = "read"
    BY DEF Inv, InOrder, Pending
  <2>2. answers["bytes"] = WrittenAnswer
    BY <2>1 DEF AsWritten
  <2>3. WithinMls
    BY <2>1, WhatIsRead
  <2>4. answers["bytes"] = answers["read"]
    BY <2>1, <2>3 DEF Inv, PathsAgree
  <2> QED
    BY <2>2, <2>4
<1>7. \A p \in Paths : answers[p].state \in {"Ok", "Err"} => answers[p] = WrittenAnswer
  BY <1>5, <1>6 DEF Paths
<1> HIDE DEF size
<1>8. \A p \in Paths : answers[p].state \in {"Ok", "Err"} =>
        answers[p] = Success(IF job.kind = "unit" THEN <<>> ELSE v, job.suffix)
  BY <1>7 DEF WrittenAnswer
<1> QED
  BY <1>3, <1>4, <1>8 DEF ReadsBackWhatWasWritten, size

(* A vector is refused only if its length does not fit, and otherwise what *)
(* is written has the announced length and both decoders give it back.     *)
THEOREM ReadingBack == Spec => []ReadsBackWhatWasWritten
<1>1. Init => AsWritten
  BY AsWrittenAtFirst
<1>2. Inv /\ AsWritten /\ [Next]_vars => AsWritten'
  BY AsWrittenInductive
<1>3. Inv /\ AsWritten => ReadsBackWhatWasWritten
  BY AsWrittenMeans
<1> QED
  BY <1>1, <1>2, <1>3, Beginnings, Inductive, PTL DEF Spec

--------------------------------------------------------------------------------
(* What has been read so far is written as the octets it was read from.    *)
Minimal == WithinMls /\ (job.mls \/ (~IsVarInt /\ job.kind # "VLBytes"))
Rewritten(v, n) ==
  /\ Writable(job.kind, v, job.mls) /\ Joined(job.kind, v, job.mls) = Cut(Declared.rest, n)
  /\ ContentLength(job.kind, v, job.mls) = n
OneEncoding ==
  /\ Minimal /\ path = "bytes" /\ phase = "elements" /\ read <= Declared.value => Rewritten(result, read)
  /\ Minimal /\ Succeeded("bytes") =>
       Serialize(job.lengths, job.kind, answers["bytes"].value, job.mls) = Ok(Consumed("bytes"))

LEMMA SameEncoding ==
  ASSUME job' = job
  PROVE  /\ Minimal' = Minimal
         /\ \A v, n : Rewritten(v, n)' = Rewritten(v, n)
<1>1. Declared' = Declared /\ WithinMls' = WithinMls
  BY SameJob
<1> QED
  BY <1>1 DEF Minimal, Rewritten, IsVarInt

LEMMA AnswerIsUnique ==
  ASSUME Inv, Minimal, Start("bytes") # Err, NEW v, Complete(job.kind, v, job.mls),
         ContentLength(job.kind, v, job.mls) = Declared.value, Declared.value <= Len(Declared.rest),
         Body(job.kind, v, job.mls) = Cut(Declared.rest, Declared.value)
  PROVE  Serialize(job.lengths, job.kind, v, job.mls)
           = Ok(Cut(job.input, Len(job.input) - Len(Skip(Declared.rest, Declared.value))))
<1> DEFINE s == job.input
<1>1. job.lengths \in {"varint", "u8"} /\ job.mls \in BOOLEAN /\ s \in Seq(Octets) /\ IsSequence(s)
  BY OfItsElements DEF Inv, TypeOK
<1>2. job.lengths = "varint" => job.mls
  BY DEF Minimal, IsVarInt
<1>3. Declared = Start("bytes")[1] /\ (job.mls => Declared.value <= MAX_MLS_LEN)
  BY DEF Declared, Start, Minimal, WithinMls
<1>4. PICK w \in 0 .. Len(s), n \in Nat :
        Start("bytes") = Decoded(n, Skip(s, w)) /\ LengthOctets(job.lengths, n, job.mls) = Ok(Cut(s, w))
  <2> HIDE DEF s
  <2>1. \E w \in 0 .. Len(s), n \in Nat :
          /\ LengthOfInput("bytes", job.lengths, s, job.mls) = Decoded(n, Skip(s, w))
          /\ LengthOctets(job.lengths, n, job.mls) = Ok(Cut(s, w))
    BY <1>1, <1>2, <1>3, HeadIsUnique DEF Start, s
  <2> QED
    BY <2>1 DEF Start, s
<1>5. Declared.value = n /\ Declared.rest = Skip(s, w)
  <2> DEFINE rem == Skip(s, w)
  <2>1. Decoded(n, rem)[1].value = n /\ Decoded(n, rem)[1].rest = rem
    BY DEF Decoded, Ok
  <2>2. Start("bytes") = Decoded(n, rem)
    BY <1>4
  <2> HIDE DEF rem
  <2>3. Declared.value = n /\ Declared.rest = rem
    BY ONLY <1>3, <2>1, <2>2
  <2> QED
    BY <2>3 DEF rem
<1> HIDE DEF s
<1>6. /\ Body(job.kind, v, job.mls) = Cut(Skip(s, w), n)
      /\ Serialize(job.lengths, job.kind, v, job.mls) = Ok(Cut(s, w) \o Cut(Skip(s, w), n))
  <2>1. Serialize(job.lengths, job.kind, v, job.mls) =
          IF LengthOctets(job.lengths, n, job.mls) = Err THEN Err
          ELSE Ok(LengthOctets(job.lengths, n, job.mls)[1] \o Body(job.kind, v, job.mls))
    BY <1>5, SerializedAs
  <2>2. LengthOctets(job.lengths, n, job.mls) # Err /\ LengthOctets(job.lengths, n, job.mls)[1] = Cut(s, w)
    BY <1>4 DEF Ok, Err
  <2>3. Body(job.kind, v, job.mls) = Cut(Skip(s, w), n)
    BY <1>5
  <2> QED
    BY <2>1, <2>2, <2>3
<1>7. Len(Skip(s, w)) = Len(s) - w /\ Skip(s, w) \in Seq(Octets)
  BY <1>1, Skips
<1>8. n <= Len(s) - w /\ w \in Nat /\ w + n <= Len(s) /\ Len(s) \in Nat
  BY <1>1, <1>5, <1>7
<1>9. Cut(s, w) \o Cut(Skip(s, w), n) = Cut(s, w + n)
  BY <1>1, <1>8, CutsJoin
<1>10. Len(Skip(Skip(s, w), n)) = Len(s) - w - n
  <2> DEFINE rem == Skip(s, w)
  <2>1. rem \in Seq(Octets) /\ Len(rem) = Len(s) - w
    BY <1>7
  <2> HIDE DEF rem
  <2>2. n \in 0 .. Len(rem)
    BY <1>8, <2>1
  <2>3. Len(Skip(rem, n)) = Len(rem) - n
    BY <2>1, <2>2, Skips
  <2> QED
    BY <2>1, <2>3 DEF rem
<1>11. Len(s) - Len(Skip(Skip(s, w), n)) = w + n
  BY <1>8, <1>10
<1> QED
  BY <1>5, <1>6, <1>9, <1>11 DEF s

(* An answer without a value, or with one that is written as what was read.*)
LEMMA UniqueReturns ==
  ASSUME Inv, path = "bytes", phase \in {"length", "elements", "octets"}, NEW answer, Return(answer), Exact(answer),
         answer # Failed /\ Minimal =>
           /\ Start("bytes") # Err /\ Complete(job.kind, answer.value, job.mls)
           /\ ContentLength(job.kind, answer.value, job.mls) = Declared.value
           /\ Declared.value <= Len(Declared.rest)
           /\ Body(job.kind, answer.value, job.mls) = Cut(Declared.rest, Declared.value)
  PROVE  OneEncoding'
<1>1. job' = job /\ path' = "read" /\ answers'["bytes"] = answer
  BY DEF Return, Inv, TypeOK, Paths
<1>2. ASSUME Minimal', Succeeded("bytes")'
      PROVE  (Serialize(job.lengths, job.kind, answers["bytes"].value, job.mls) = Ok(Consumed("bytes")))'
  <2>1. answer # Failed /\ Minimal
    <3>1. answer.state = "Ok"
      BY <1>1, <1>2 DEF Succeeded
    <3>2. Failed.state # "Ok"
      BY DEF Failed
    <3>3. Minimal
      BY <1>1, <1>2, SameEncoding
    <3> QED
      BY <3>1, <3>2, <3>3
  <2>2. answer.rest = Skip(Declared.rest, Declared.value)
    BY <2>1 DEF Exact
  <2>3. Serialize(job.lengths, job.kind, answer.value, job.mls)
          = Ok(Cut(job.input, Len(job.input) - Len(answer.rest)))
    BY <2>1, <2>2, AnswerIsUnique
  <2> QED
    BY <1>1, <2>3 DEF Consumed, Cut
<1> QED
  BY <1>1, <1>2 DEF OneEncoding

LEMMA EncodingStays ==
  ASSUME OneEncoding, job' = job, answers'["bytes"] = answers["bytes"],
         ~(path' = "bytes" /\ phase' = "elements")
  PROVE  OneEncoding'
<1>1. Minimal' = Minimal
  BY SameEncoding
<1> QED
  BY <1>1 DEF OneEncoding, Consumed, Succeeded

LEMMA EncodingAtFirst == Init => OneEncoding
<1> SUFFICES ASSUME Init PROVE OneEncoding
  OBVIOUS
<1>1. phase # "elements" /\ answers["bytes"] = Pending
  BY DEF Init, Paths
<1> QED
  BY <1>1 DEF OneEncoding, Succeeded, Pending

LEMMA EncodingOfLength ==
  ASSUME Inv, OneEncoding, ReadLength
  PROVE  OneEncoding'
<1>1. phase = "length" /\ rest = job.input /\ read = 0 /\ result = <<>> /\ path \in Paths
  BY DEF ReadLength, Inv, InOrder, TypeOK
<1>2. IF Start(path) = Err THEN Return(Failed) ELSE Enter(Start(path)[1])
  BY <1>1 DEF ReadLength, Start
<1>3. CASE path = "read"
  <2>1. job' = job /\ path' = "read" /\ answers'["bytes"] = answers["bytes"]
    BY <1>2, <1>3 DEF Return, Enter, Inv, TypeOK, Paths
  <2> QED
    BY <1>3, <2>1, EncodingStays
<1>4. CASE path = "bytes" /\ Start("bytes") = Err
  <2>1. Return(Failed) /\ Exact(Failed)
    BY <1>2, <1>4 DEF Exact
  <2> QED
    BY <1>1, <1>4, <2>1, UniqueReturns
<1>5. CASE path = "bytes" /\ Start("bytes") # Err
  <2>1. /\ job' = job /\ path' = path /\ read' = 0 /\ result' = <<>> /\ answers' = answers
        /\ phase' = (IF job.kind = "octets" THEN "octets" ELSE "elements")
        /\ job.kind \in Kinds \cup {"octets"}
    BY <1>1, <1>2, <1>5 DEF Enter, Inv, TypeOK
  <2>2. Declared.rest \in Seq(Octets)
    BY <1>5, DeclaredLength DEF Inv
  <2>3. phase' = "elements" => Rewritten(<<>>, 0)
    <3> SUFFICES ASSUME job.kind # "octets" PROVE Rewritten(<<>>, 0)
      BY <2>1
    <3>1. Joined(job.kind, <<>>, job.mls) = <<>> /\ Writable(job.kind, <<>>, job.mls)
      BY JoinedOfNone
    <3>2. ContentLength(job.kind, <<>>, job.mls) = 0
      BY LengthOfNone
    <3>3. Cut(Declared.rest, 0) = <<>>
      BY <2>2 DEF Cut
    <3> QED
      BY <3>1, <3>2, <3>3 DEF Rewritten
  <2>4. (Minimal /\ path = "bytes" /\ phase = "elements" /\ read <= Declared.value => Rewritten(result, read))'
    <3>1. phase' = "elements" => Rewritten(<<>>, 0)'
      BY <2>1, <2>3, SameEncoding
    <3>2. Rewritten(result, read)' <=> Rewritten(<<>>, 0)'
      BY <2>1 DEF Rewritten
    <3> QED
      BY <3>1, <3>2
  <2>5. ~Succeeded("bytes")'
    BY <1>5, <2>1 DEF Succeeded, Pending, Inv, InOrder
  <2> QED
    BY <2>4, <2>5 DEF OneEncoding
<1> QED
  BY <1>1, <1>3, <1>4, <1>5 DEF Paths

LEMMA EncodingOfElement ==
  ASSUME Inv, OneEncoding, BytesElement
  PROVE  OneEncoding'
<1> DEFINE r == Read(job.kind, "bytes", rest, job.mls)
<1>1. path = "bytes" /\ phase = "elements" /\ read < length
  BY DEF BytesElement
<1>2. IF r = Err \/ Len(r[1].rest) = Len(rest) THEN Return(Failed)
      ELSE /\ rest' = r[1].rest /\ read' = read + Took(r, rest)
           /\ result' = Append(result, r[1].value)
           /\ job' = job /\ path' = path /\ phase' = phase /\ answers' = answers
  BY <1>1 DEF BytesElement, Took
<1>3. /\ job.kind \in Kinds /\ job.kind # "octets" /\ job.mls \in BOOLEAN
      /\ rest \in Seq(Octets) /\ IsSequence(rest) /\ rest = Skip(Declared.rest, read) /\ read \in Nat
      /\ Declared.rest \in Seq(Octets) /\ IsSequence(Declared.rest) /\ read <= Len(Declared.rest)
      /\ length = Declared.value /\ length \in Nat /\ Len(rest) = Len(Declared.rest) - read
      /\ Len(Declared.rest) \in Nat
  BY <1>1, AtWork DEF Inv, InOrder, Kinds
<1>4. CASE r = Err \/ Len(r[1].rest) = Len(rest)
  <2>1. Return(Failed) /\ Exact(Failed)
    BY <1>2, <1>4 DEF Exact
  <2> QED
    BY <1>1, <2>1, UniqueReturns
<1>5. CASE ~(r = Err \/ Len(r[1].rest) = Len(rest))
  <2>1. /\ rest' = r[1].rest /\ read' = read + Took(r, rest) /\ result' = Append(result, r[1].value)
        /\ job' = job /\ path' = path /\ phase' = phase /\ answers' = answers
    BY <1>2, <1>5
  <2>2. ~Succeeded("bytes")'
    BY <1>1, <2>1 DEF Succeeded, Pending, Inv, InOrder
  <2>3. ASSUME Minimal, read' <= Declared.value PROVE Rewritten(result, read)'
    <3>1. r # Err
      BY <1>5
    <3>2. PICK m \in 0 .. Len(rest) : r[1].rest = Skip(rest, m)
      BY <1>3, <3>1, ElementDecodes DEF Decodes, Paths
    <3>3. Took(r, rest) = m /\ m \in Nat
      <4>1. Len(Skip(rest, m)) = Len(rest) - m
        BY <1>3, Skips
      <4>2. Len(rest) - (Len(rest) - m) = m
        BY <1>3
      <4> QED
        BY <3>2, <4>1, <4>2 DEF Took
    <3>4. m <= length
      <4> HIDE DEF r
      <4> QED
        BY <1>3, <2>1, <2>3, <3>3
    <3>5. job.mls => m <= MAX_MLS_LEN
      <4> SUFFICES ASSUME job.mls PROVE m <= MAX_MLS_LEN
        OBVIOUS
      <4>1. length <= MAX_MLS_LEN
        BY <1>3, <2>3 DEF Minimal, WithinMls
      <4>2. MAX_MLS_LEN \in Nat
        BY Rooms
      <4> QED
        BY <1>3, <3>3, <3>4, <4>1, <4>2
    <3>6. job.kind = "VLBytes" => job.mls
      BY <2>3 DEF Minimal
    <3>7. PICK n, v :
            /\ n \in 0 .. Len(rest)
            /\ r = Decoded(v, Skip(rest, n))
            /\ Write(job.kind, v, job.mls) = Ok(Cut(rest, n)) /\ tls_serialized_len(job.kind, v, job.mls) = n
      BY <1>3, <3>1, <3>3, <3>5, <3>6, ElementUnique
    <3>8. n \in Nat /\ n <= Len(rest) /\ Took(r, rest) = n /\ r[1].value = v
      BY <1>3, <3>7, TookOf
    <3>9. IsWritten(job.kind, v, job.mls) /\ Write(job.kind, v, job.mls)[1] = Cut(rest, n)
      <4>1. Cut(rest, n) \in Seq(Octets) /\ Len(Cut(rest, n)) = n
        BY <1>3, <3>7, Cuts
      <4>2. Write(job.kind, v, job.mls) # Err /\ Write(job.kind, v, job.mls)[1] = Cut(rest, n)
        BY <3>7 DEF Ok, Err
      <4> QED
        BY <3>7, <4>1, <4>2 DEF IsWritten
    <3>10. Rewritten(result, read)
      <4>1. read <= Declared.value
        BY <1>1, <1>3
      <4> QED
        BY <1>1, <2>3, <4>1 DEF OneEncoding
    <3>11. /\ Writable(job.kind, result, job.mls) /\ Joined(job.kind, result, job.mls) = Cut(Declared.rest, read)
           /\ ContentLength(job.kind, result, job.mls) = read /\ IsSequence(result)
      BY <3>10 DEF Rewritten, Writable
    <3>12. result' = Append(result, v) /\ read' = read + n
      BY <2>1, <3>8
    <3> HIDE DEF r
    <3>13. /\ Writable(job.kind, Append(result, v), job.mls)
           /\ Joined(job.kind, Append(result, v), job.mls) = Cut(Declared.rest, read) \o Cut(rest, n)
      <4>1. Writable(job.kind, result, job.mls) /\ IsWritten(job.kind, v, job.mls)
        BY <3>9, <3>11
      <4>2. /\ Writable(job.kind, Append(result, v), job.mls)
            /\ Joined(job.kind, Append(result, v), job.mls)
                 = Joined(job.kind, result, job.mls) \o Write(job.kind, v, job.mls)[1]
        BY ONLY <4>1, JoinedOfMore
      <4> QED
        BY <3>9, <3>11, <4>2
    <3>14. ContentLength(job.kind, Append(result, v), job.mls) = read + n
      BY <1>3, <3>7, <3>11, LengthOfMore
    <3>15. Cut(Declared.rest, read) \o Cut(rest, n) = Cut(Declared.rest, read + n)
      <4>1. read + n <= Len(Declared.rest)
        BY <1>3, <3>8
      <4> QED
        BY <1>3, <3>8, <4>1, CutsJoin
    <3>16. Rewritten(Append(result, v), read + n)
      BY <3>13, <3>14, <3>15 DEF Rewritten
    <3> QED
      BY <2>1, <3>12, <3>16, SameJob DEF Rewritten
  <2>4. (Minimal /\ path = "bytes" /\ phase = "elements" /\ read <= Declared.value => Rewritten(result, read))'
    BY <2>1, <2>3, SameJob, SameEncoding
  <2> QED
    BY <2>2, <2>4 DEF OneEncoding
<1> QED
  BY <1>4, <1>5

LEMMA EncodingAtEnd ==
  ASSUME Inv, OneEncoding, BytesLoopEnds
  PROVE  OneEncoding'
<1> DEFINE answer == IF read # length THEN Failed ELSE Success(result, rest)
<1>1. path = "bytes" /\ phase = "elements" /\ read >= length /\ Return(answer)
  BY DEF BytesLoopEnds
<1>2. /\ read \in Nat /\ length = Declared.value /\ Start("bytes") # Err /\ job.kind # "octets"
      /\ read <= Len(Declared.rest) /\ rest = Skip(Declared.rest, read) /\ length \in Nat
  BY <1>1, AtWork DEF Inv, InOrder, Kinds
<1>3. Exact(answer)
  BY <1>2 DEF Exact, Success
<1>4. ASSUME answer # Failed, Minimal
      PROVE  /\ Complete(job.kind, answer.value, job.mls)
             /\ ContentLength(job.kind, answer.value, job.mls) = Declared.value
             /\ Declared.value <= Len(Declared.rest)
             /\ Body(job.kind, answer.value, job.mls) = Cut(Declared.rest, Declared.value)
  <2>1. read = Declared.value /\ answer.value = result
    BY <1>2, <1>4 DEF Success
  <2>2. Rewritten(result, read)
    BY <1>1, <1>2, <1>4, <2>1 DEF OneEncoding
  <2> QED
    BY <1>2, <2>1, <2>2 DEF Rewritten, Complete, Body
<1> HIDE DEF answer
<1> QED
  BY <1>1, <1>2, <1>3, <1>4, UniqueReturns

LEMMA EncodingOfOctets ==
  ASSUME Inv, OneEncoding, SliceOctets
  PROVE  OneEncoding'
<1> DEFINE answer == IF Len(rest) < length THEN Failed ELSE Success(SubSeq(rest, 1, length), Skip(rest, length))
<1>1. path = "bytes" /\ phase = "octets" /\ Return(answer) /\ job.kind = "octets"
  BY DEF SliceOctets, Inv, InOrder
<1>2. /\ Len(rest) \in Nat /\ length \in Nat /\ length = Declared.value
      /\ Declared.rest \in Seq(Octets) /\ Start("bytes") # Err
  BY <1>1, AtWork
<1>3. rest = Declared.rest
  <2>1. rest = Skip(Declared.rest, 0)
    BY <1>1 DEF Inv, Placed
  <2> QED
    BY <1>2, <2>1 DEF Skip
<1>4. Exact(answer)
  BY <1>2, <1>3 DEF Exact, Success
<1>5. ASSUME answer # Failed
      PROVE  /\ Complete(job.kind, answer.value, job.mls)
             /\ ContentLength(job.kind, answer.value, job.mls) = Declared.value
             /\ Declared.value <= Len(Declared.rest)
             /\ Body(job.kind, answer.value, job.mls) = Cut(Declared.rest, Declared.value)
  <2>1. answer.value = Cut(Declared.rest, Declared.value) /\ Declared.value <= Len(Declared.rest)
    BY <1>2, <1>3, <1>5 DEF Success, Cut
  <2>2. Declared.value \in 0 .. Len(Declared.rest)
    BY <1>2, <2>1
  <2>3. answer.value \in Seq(Octets) /\ Len(answer.value) = Declared.value
    BY <1>2, <2>1, <2>2, Cuts
  <2> HIDE DEF answer
  <2> QED
    BY <1>1, <2>1, <2>3 DEF Complete, ContentLength, Body
<1> HIDE DEF answer
<1> QED
  BY <1>1, <1>2, <1>4, <1>5, UniqueReturns

LEMMA EncodingOtherwise ==
  ASSUME Inv, OneEncoding, WriteVector \/ ReadElement \/ ReadLoopEnds \/ ReadOctets \/ UNCHANGED vars
  PROVE  OneEncoding'
<1>1. CASE WriteVector
  <2>1. answers' = answers /\ path = "bytes" /\ phase' # "elements"
    BY <1>1 DEF WriteVector, Inv, InOrder
  <2>2. ~Succeeded("bytes")'
    BY <2>1 DEF Succeeded, Pending, Inv, InOrder
  <2> QED
    BY <2>1, <2>2 DEF OneEncoding
<1>2. CASE ReadElement \/ ReadLoopEnds \/ ReadOctets
  <2>1. path = "read"
    BY <1>2 DEF ReadElement, ReadLoopEnds, ReadOctets
  <2>2. (\E answer : Return(answer)) \/ UNCHANGED <<job, path, phase, length, answers>>
    BY <1>2 DEF ReadElement, ReadLoopEnds, ReadOctets
  <2>3. job' = job /\ path' = "read" /\ answers'["bytes"] = answers["bytes"]
    BY <2>1, <2>2 DEF Return, Inv, TypeOK, Paths
  <2> QED
    BY <2>3, EncodingStays
<1>3. CASE UNCHANGED vars
  <2>1. job' = job /\ path' = path /\ phase' = phase /\ read' = read /\ result' = result /\ answers' = answers
    BY <1>3 DEF vars
  <2>2. Minimal' = Minimal /\ Declared' = Declared /\ Rewritten(result, read)' = Rewritten(result, read)
    BY <2>1, SameJob, SameEncoding DEF Rewritten
  <2> QED
    BY <2>1, <2>2 DEF OneEncoding, Consumed, Succeeded
<1> QED
  BY <1>1, <1>2, <1>3

LEMMA EncodingInductive == Inv /\ OneEncoding /\ [Next]_vars => OneEncoding'
  BY EncodingOfLength, EncodingOfElement, EncodingAtEnd, EncodingOfOctets, EncodingOtherwise DEF Next

LEMMA EncodingMeans ==
  ASSUME Inv, OneEncoding
  PROVE  EncodingsAreUnique
<1> SUFFICES ASSUME NEW p \in Paths, Succeeded(p), Minimal
             PROVE  Serialize(job.lengths, job.kind, answers[p].value, job.mls) = Ok(Consumed(p))
  BY DEF EncodingsAreUnique, Minimal
<1>1. CASE p = "bytes"
  BY <1>1 DEF OneEncoding
<1>2. CASE p = "read"
  <2>1. phase = "done"
    BY <1>2 DEF Inv, InOrder, Succeeded, Pending
  <2>2. answers["bytes"] = answers["read"]
    BY <2>1 DEF Inv, PathsAgree, Minimal
  <2> QED
    BY <1>2, <2>2 DEF OneEncoding, Succeeded, Consumed
<1> QED
  BY <1>1, <1>2 DEF Paths

(* Where lengths must be minimal, what was read is written as the octets it*)
(* was read from: a value has one encoding (quic_vec.rs:6).                *)
THEOREM Uniqueness == Spec => []EncodingsAreUnique
<1>1. Init => OneEncoding
  BY EncodingAtFirst
<1>2. Inv /\ OneEncoding /\ [Next]_vars => OneEncoding'
  BY EncodingInductive
<1>3. Inv /\ OneEncoding => EncodingsAreUnique
  BY EncodingMeans
<1> QED
  BY <1>1, <1>2, <1>3, Beginnings, Inductive, PTL DEF Spec

================================================================================
