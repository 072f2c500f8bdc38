----------------------------- MODULE SequenceLemmas -----------------------------
(***************************************************************************)
(* Facts about sequences and natural numbers that the proofs of several    *)
(* components rest on.  A sequence is typed here by its own elements, so   *)
(* that the lemmas apply whatever the elements are.                        *)
(***************************************************************************)
EXTENDS Integers, Sequences, WellFoundedInduction, TLAPS

Elements(s) == {s[i] : i \in DOMAIN s}
IsSequence(s) == s \in Seq(Elements(s))

LEMMA SequenceShape ==
  ASSUME NEW s, IsSequence(s)
  PROVE  Len(s) \in Nat /\ DOMAIN s = 1 .. Len(s) /\ (s = <<>> <=> Len(s) = 0)
  BY DEF IsSequence

LEMMA OfItsElements ==
  ASSUME NEW S, NEW s \in Seq(S)
  PROVE  IsSequence(s)
  BY DEF IsSequence, Elements

LEMMA OfMore ==
  ASSUME NEW S, NEW T, S \subseteq T, NEW s \in Seq(S)
  PROVE  s \in Seq(T)
<1>1. Len(s) \in Nat /\ s = [i \in 1 .. Len(s) |-> s[i]]
  OBVIOUS
<1>2. \A i \in 1 .. Len(s) : s[i] \in T
  OBVIOUS
<1> QED
  BY <1>1, <1>2

LEMMA EmptyIsSequence == IsSequence(<<>>) /\ Len(<<>>) = 0 /\ DOMAIN <<>> = {}
  BY DEF IsSequence, Elements

LEMMA AppendFacts ==
  ASSUME NEW s, IsSequence(s), NEW e
  PROVE  /\ IsSequence(Append(s, e))
         /\ Len(Append(s, e)) = Len(s) + 1
         /\ DOMAIN Append(s, e) = 1 .. Len(s) + 1
         /\ \A i \in 1 .. Len(s) : Append(s, e)[i] = s[i]
         /\ Append(s, e)[Len(s) + 1] = e
         /\ Append(s, e) # <<>>
<1> DEFINE S == Elements(s) \union {e}
<1>1. s \in Seq(S)
  BY DEF IsSequence
<1>2. Append(s, e) \in Seq(S)
  BY <1>1
<1>3. IsSequence(Append(s, e))
  BY <1>2, OfItsElements
<1> QED
  BY <1>1, <1>2, <1>3

LEMMA ConcatFacts ==
  ASSUME NEW s, NEW t, IsSequence(s), IsSequence(t)
  PROVE  /\ IsSequence(s \o t)
         /\ Len(s \o t) = Len(s) + Len(t)
         /\ DOMAIN (s \o t) = 1 .. Len(s) + Len(t)
         /\ \A i \in 1 .. Len(s) : (s \o t)[i] = s[i]
         /\ \A i \in 1 .. Len(t) : (s \o t)[Len(s) + i] = t[i]
<1> DEFINE S == Elements(s) \union Elements(t)
<1>1. s \in Seq(S) /\ t \in Seq(S)
  BY DEF IsSequence
<1>2. (s \o t) \in Seq(S)
  BY <1>1
<1>3. IsSequence(s \o t)
  BY <1>2, OfItsElements
<1> QED
  BY <1>1, <1>2, <1>3

LEMMA SubSeqFacts ==
  ASSUME NEW s, IsSequence(s), NEW m \in Nat \ {0}, NEW n \in Nat, n <= Len(s), m <= n + 1
  PROVE  /\ IsSequence(SubSeq(s, m, n))
         /\ Len(SubSeq(s, m, n)) = n - m + 1
         /\ DOMAIN SubSeq(s, m, n) = 1 .. n - m + 1
         /\ \A i \in 1 .. n - m + 1 : SubSeq(s, m, n)[i] = s[m - 1 + i]
<1> DEFINE S == Elements(s)
<1>1. s \in Seq(S)
  BY DEF IsSequence
<1> HIDE DEF S
<1>2. SubSeq(s, m, n) \in Seq(S)
  BY <1>1
<1>3. IsSequence(SubSeq(s, m, n))
  BY <1>2, OfItsElements
<1> QED
  BY <1>1, <1>2, <1>3

LEMMA SegmentFacts ==
  ASSUME NEW s, IsSequence(s), NEW p \in Nat, NEW q \in Nat, p <= q, q <= Len(s)
  PROVE  /\ IsSequence(SubSeq(s, p + 1, q))
         /\ Len(SubSeq(s, p + 1, q)) = q - p
         /\ \A i \in 1 .. q - p : SubSeq(s, p + 1, q)[i] = s[p + i]
<1> DEFINE m == p + 1
<1>1. m \in Nat \ {0} /\ m <= q + 1 /\ q - m + 1 = q - p /\ \A i \in Int : m - 1 + i = p + i
  OBVIOUS
<1> HIDE DEF m
<1>2. /\ IsSequence(SubSeq(s, m, q))
      /\ Len(SubSeq(s, m, q)) = q - m + 1
      /\ \A i \in 1 .. q - m + 1 : SubSeq(s, m, q)[i] = s[m - 1 + i]
  BY <1>1, SubSeqFacts
<1> QED
  BY <1>1, <1>2 DEF m

LEMMA SequencesEqual ==
  ASSUME NEW s, NEW t, IsSequence(s), IsSequence(t), Len(s) = Len(t),
         \A i \in 1 .. Len(s) : s[i] = t[i]
  PROVE  s = t
<1> DEFINE S == Elements(s) \union Elements(t)
<1>1. s \in Seq(S) /\ t \in Seq(S)
  BY DEF IsSequence
<1> HIDE DEF S
<1> QED
  BY <1>1

LEMMA WholeSegment ==
  ASSUME NEW s, IsSequence(s)
  PROVE  SubSeq(s, 1, Len(s)) = s
<1> DEFINE p == 0
<1> DEFINE n == Len(s)
<1>1. p \in Nat /\ n \in Nat /\ p <= n /\ n <= Len(s) /\ n - p = n /\ p + 1 = 1
      /\ \A i \in 1 .. n : p + i = i
  BY SequenceShape
<1> HIDE DEF p, n
<1>2. /\ IsSequence(SubSeq(s, p + 1, n)) /\ Len(SubSeq(s, p + 1, n)) = n - p
      /\ \A i \in 1 .. n - p : SubSeq(s, p + 1, n)[i] = s[p + i]
  BY <1>1, SegmentFacts
<1>3. SubSeq(s, p + 1, n) = s
  BY <1>1, <1>2, SequencesEqual DEF n
<1> QED
  BY <1>1, <1>3 DEF n

LEMMA SegmentOfSegment ==
  ASSUME NEW s, IsSequence(s), NEW p \in Nat, NEW q \in Nat, p <= q, q <= Len(s),
         NEW x \in Nat, NEW y \in Nat, x <= y, y <= q - p
  PROVE  SubSeq(SubSeq(s, p + 1, q), x + 1, y) = SubSeq(s, p + x + 1, p + y)
<1> DEFINE outer == SubSeq(s, p + 1, q)
<1> DEFINE px == p + x
<1> DEFINE py == p + y
<1>1. IsSequence(outer) /\ Len(outer) = q - p /\ \A i \in 1 .. q - p : outer[i] = s[p + i]
  BY SegmentFacts
<1>2. px \in Nat /\ py \in Nat /\ px <= py /\ py <= Len(s) /\ py - px = y - x
      /\ y <= Len(outer)
  BY <1>1, SequenceShape
<1> HIDE DEF outer
<1>3. /\ IsSequence(SubSeq(outer, x + 1, y))
      /\ Len(SubSeq(outer, x + 1, y)) = y - x
      /\ \A i \in 1 .. y - x : SubSeq(outer, x + 1, y)[i] = outer[x + i]
  BY <1>1, <1>2, SegmentFacts
<1>6. \A i \in 1 .. y - x : x + i \in 1 .. q - p /\ p + (x + i) = px + i
  OBVIOUS
<1> HIDE DEF px, py
<1>4. /\ IsSequence(SubSeq(s, px + 1, py))
      /\ Len(SubSeq(s, px + 1, py)) = py - px
      /\ \A i \in 1 .. py - px : SubSeq(s, px + 1, py)[i] = s[px + i]
  BY <1>2, SegmentFacts
<1>5. \A i \in 1 .. y - x : SubSeq(outer, x + 1, y)[i] = SubSeq(s, px + 1, py)[i]
  BY <1>1, <1>2, <1>3, <1>4, <1>6
<1>7. SubSeq(outer, x + 1, y) = SubSeq(s, px + 1, py)
  BY <1>2, <1>3, <1>4, <1>5, SequencesEqual
<1> QED
  BY <1>7 DEF outer, px, py

LEMMA SegmentsJoin ==
  ASSUME NEW s, IsSequence(s), NEW p \in Nat, NEW q \in Nat, NEW r \in Nat,
         p <= q, q <= r, r <= Len(s)
  PROVE  SubSeq(s, p + 1, q) \o SubSeq(s, q + 1, r) = SubSeq(s, p + 1, r)
<1> DEFINE first == SubSeq(s, p + 1, q)
           second == SubSeq(s, q + 1, r)
           both == SubSeq(s, p + 1, r)
           n == Len(s)
<1>1. n \in Nat /\ q <= n /\ p <= r
  BY SequenceShape
<1>2. /\ IsSequence(first) /\ Len(first) = q - p /\ \A i \in 1 .. q - p : first[i] = s[p + i]
      /\ IsSequence(second) /\ Len(second) = r - q /\ \A i \in 1 .. r - q : second[i] = s[q + i]
      /\ IsSequence(both) /\ Len(both) = r - p /\ \A i \in 1 .. r - p : both[i] = s[p + i]
  BY <1>1, SegmentFacts
<1> HIDE DEF first, second, both, n
<1>3. /\ IsSequence(first \o second) /\ Len(first \o second) = Len(first) + Len(second)
      /\ \A i \in 1 .. Len(first) : (first \o second)[i] = first[i]
      /\ \A i \in 1 .. Len(second) : (first \o second)[Len(first) + i] = second[i]
  <2>1. IsSequence(first) /\ IsSequence(second)
    BY <1>2
  <2> QED
    BY <2>1, ConcatFacts
<1>4. ASSUME NEW i \in 1 .. r - p PROVE (first \o second)[i] = both[i]
  <2>1. CASE i <= q - p
    BY <1>2, <1>3, <2>1
  <2>2. CASE i > q - p
    <3> DEFINE j == i - (q - p)
    <3>1. j \in 1 .. r - q /\ (q - p) + j = i /\ q + j = p + i
      BY <2>2
    <3> HIDE DEF j
    <3>3. j \in 1 .. Len(second) /\ Len(first) = q - p
      BY <1>2, <3>1
    <3>2. (first \o second)[Len(first) + j] = second[j]
      BY <1>3, <3>3
    <3>4. second[j] = s[q + j] /\ both[i] = s[p + i]
      BY <1>2, <3>1
    <3>5. Len(first) + j = i
      BY <3>1, <3>3
    <3>6. s[q + j] = s[p + i]
      BY <3>1
    <3>7. (first \o second)[i] = second[j]
      BY <3>2, <3>5
    <3> QED
      BY <3>4, <3>6, <3>7
  <2>3. i <= q - p \/ i > q - p
    OBVIOUS
  <2> QED
    BY <2>1, <2>2, <2>3
<1>5. Len(first \o second) = Len(both)
  BY <1>2, <1>3
<1>6. first \o second = both
  BY <1>2, <1>3, <1>4, <1>5, SequencesEqual
<1> QED
  BY <1>6 DEF first, second, both

LEMMA ConcatAssociates ==
  ASSUME NEW s, NEW t, NEW u, IsSequence(s), IsSequence(t), IsSequence(u)
  PROVE  (s \o t) \o u = s \o (t \o u)
<1> DEFINE S == Elements(s) \union Elements(t) \union Elements(u)
<1>1. s \in Seq(S) /\ t \in Seq(S) /\ u \in Seq(S)
  BY DEF IsSequence
<1> HIDE DEF S
<1> QED
  BY <1>1

LEMMA NothingAdded ==
  ASSUME NEW s, IsSequence(s)
  PROVE  s \o <<>> = s /\ <<>> \o s = s
<1>1. s \in Seq(Elements(s))
  BY DEF IsSequence
<1> QED
  BY <1>1

--------------------------------------------------------------------------------
(* Induction over the natural numbers, with a set for the property: what no*)
(* number is the least one to miss, all have.                              *)
Smaller == {p \in Nat \X Nat : p[1] < p[2]}

LEMMA SmallerIsWellFounded == IsWellFoundedOn(Smaller, Nat)
  BY NatLessThanWellFounded DEF OpToRel, Smaller

LEMMA Least ==
  ASSUME NEW T \in SUBSET Nat, T # {}
  PROVE  \E x \in T : \A y \in T : x <= y
<1>1. PICK x \in T : \A y \in T : ~(<<y, x>> \in Smaller)
  BY SmallerIsWellFounded, WFMin
<1>2. ASSUME NEW y \in T PROVE x <= y
  <2>1. x \in Nat /\ y \in Nat
    OBVIOUS
  <2>2. y < x => <<y, x>> \in Smaller
    BY <2>1 DEF Smaller
  <2> QED
    BY <1>1, <2>1, <2>2
<1> QED
  BY <1>2

LEMMA Induction ==
  ASSUME NEW S \in SUBSET Nat, 0 \in S, \A n \in S : n + 1 \in S
  PROVE  S = Nat
<1> SUFFICES ASSUME Nat \ S # {} PROVE FALSE
  OBVIOUS
<1>1. PICK n \in Nat \ S : \A m \in Nat \ S : n <= m
  BY Least
<1>2. n # 0 /\ n - 1 \in Nat
  OBVIOUS
<1>3. n - 1 \in S
  BY <1>1, <1>2
<1> QED
  BY <1>1, <1>2, <1>3

(* What justifies a recursive function on 0 .. last: there is one, and its *)
(* values are where the steps lead.                                        *)
Unfolds(f, base, step, last) == f[0] = base /\ \A k \in 1 .. last : f[k] = step[k][f[k - 1]]
GoWith(f, g, last) == f[0] = g[0] /\ \A k \in 1 .. last : f[k - 1] = g[k - 1] => f[k] = g[k]

LEMMA Recursion ==
  ASSUME NEW last \in Nat, NEW V, NEW base \in V, NEW step \in [1 .. last -> [V -> V]]
  PROVE  \E f \in [0 .. last -> V] : Unfolds(f, base, step, last)
<1> DEFINE Upto(n, f) == f[0] = base /\ \A k \in 1 .. n : f[k] = step[k][f[k - 1]]
           Exists == {n \in Nat : n <= last => \E f \in [0 .. n -> V] : Upto(n, f)}
<1>1. 0 \in Exists
  <2> DEFINE g == [k \in 0 .. 0 |-> base]
  <2>1. g \in [0 .. 0 -> V] /\ Upto(0, g)
    OBVIOUS
  <2> HIDE DEF g, Upto
  <2> QED
    BY <2>1
<1>2. ASSUME NEW n \in Exists PROVE n + 1 \in Exists
  <2> SUFFICES ASSUME n + 1 <= last PROVE \E f \in [0 .. n + 1 -> V] : Upto(n + 1, f)
    OBVIOUS
  <2>1. n \in Nat /\ n <= last
    OBVIOUS
  <2>2. PICK f \in [0 .. n -> V] : Upto(n, f)
    BY <2>1
  <2> DEFINE m == n + 1
             g == [k \in 0 .. m |-> IF k = m THEN step[m][f[n]] ELSE f[k]]
  <2>3. m \in 1 .. last /\ m - 1 = n /\ n \in 0 .. n /\ 0 \in 0 .. n /\ m # 0
        /\ \A k \in 1 .. m : k # m => k \in 1 .. n /\ k - 1 \in 0 .. n /\ k \in 0 .. n
    BY <2>1
  <2>4. step[m][f[n]] \in V
    BY <2>3
  <2>5. /\ \A k \in 0 .. m : g[k] = IF k = m THEN step[m][f[n]] ELSE f[k]
        /\ 0 \in 0 .. m /\ \A k \in 1 .. m : k \in 0 .. m /\ k - 1 \in 0 .. m /\ k - 1 # m
    BY <2>1
  <2>6. g \in [0 .. m -> V]
    <3>1. \A k \in 0 .. m : k = m \/ k \in 0 .. n
      BY <2>1
    <3> HIDE DEF m
    <3> QED
      BY <2>4, <3>1
  <2> HIDE DEF m, g
  <2>7. g[0] = base
    BY <2>2, <2>3, <2>5
  <2>8. ASSUME NEW k \in 1 .. m PROVE g[k] = step[k][g[k - 1]]
    <3>1. CASE k = m
      BY <2>3, <2>5, <3>1
    <3>2. CASE k # m
      <4>1. f[k] = step[k][f[k - 1]]
        BY <2>2, <2>3, <3>2
      <4> QED
        BY <2>5, <3>2, <4>1
    <3> QED
      BY <3>1, <3>2
  <2>9. Upto(m, g)
    BY <2>7, <2>8
  <2> HIDE DEF Upto
  <2> QED
    BY <2>6, <2>9 DEF m
<1>3. Exists = Nat
  <2> HIDE DEF Exists
  <2>1. Exists \in SUBSET Nat
    BY DEF Exists
  <2> QED
    BY <1>1, <1>2, <2>1, Induction
<1>4. \E f \in [0 .. last -> V] : Upto(last, f)
  <2>1. last \in Exists
    <3> HIDE DEF Exists
    <3> QED
      BY <1>3
  <2> HIDE DEF Upto
  <2> QED
    BY <2>1
<1> QED
  BY <1>4 DEF Unfolds

LEMMA SameSteps ==
  ASSUME NEW last \in Nat, NEW f, NEW g, GoWith(f, g, last)
  PROVE  \A k \in 0 .. last : f[k] = g[k]
<1> DEFINE Same == {k \in Nat : k <= last => f[k] = g[k]}
<1>1. 0 \in Same
  BY DEF GoWith
<1>2. ASSUME NEW k \in Same PROVE k + 1 \in Same
  <2> SUFFICES ASSUME k + 1 <= last PROVE f[k + 1] = g[k + 1]
    OBVIOUS
  <2> DEFINE m == k + 1
  <2>1. m \in 1 .. last /\ m - 1 = k /\ k \in Nat /\ f[k] = g[k]
    OBVIOUS
  <2> HIDE DEF m
  <2>2. f[m] = g[m]
    BY <2>1 DEF GoWith
  <2> QED
    BY <2>2 DEF m
<1>3. Same = Nat
  <2> HIDE DEF Same
  <2>1. Same \in SUBSET Nat
    BY DEF Same
  <2> QED
    BY <1>1, <1>2, <2>1, Induction
<1> QED
  BY <1>3

--------------------------------------------------------------------------------
(* Products and quotients of natural numbers.                              *)
LEMMA Multiplied ==
  ASSUME NEW a \in Nat, NEW b \in Nat \ {0}
  PROVE  a * b \in Nat /\ a * b >= a
<1>1. a * (b - 1) \in Nat /\ a * b = a * (b - 1) + a
  OBVIOUS
<1> QED
  BY <1>1

LEMMA Divided ==
  ASSUME NEW a \in Nat, NEW b \in Nat \ {0}
  PROVE  /\ a \div b \in Nat /\ a % b \in 0 .. b - 1
         /\ a = (a \div b) * b + (a % b)
  OBVIOUS

LEMMA QuotientIs ==
  ASSUME NEW q \in Nat, NEW b \in Nat \ {0}, NEW r \in 0 .. b - 1
  PROVE  (q * b + r) \div b = q /\ (q * b + r) % b = r
<1> DEFINE a == q * b + r
           p == a \div b
           t == a % b
<1>1. a \in Nat /\ a = q * b + r
  BY Multiplied
<1> HIDE DEF a
<1>2. p \in Nat /\ t \in 0 .. b - 1 /\ a = p * b + t
  BY <1>1
<1> HIDE DEF p, t
<1>3. ASSUME NEW x \in Nat, NEW y \in Nat, x < y PROVE y * b >= x * b + b
  <2>1. y - x - 1 \in Nat
    BY <1>3
  <2>2. (y - x - 1) * b \in Nat
    BY <2>1, Multiplied
  <2>3. (y - x - 1) * b = y * b - x * b - b
    BY <2>1
  <2>4. x * b \in Nat /\ y * b \in Nat
    BY Multiplied
  <2> QED
    BY <2>2, <2>3, <2>4
<1>4. p * b \in Nat /\ q * b \in Nat
  BY <1>2, Multiplied
<1>5. p = q
  <2>1. CASE p < q
    BY <1>1, <1>2, <1>3, <1>4, <2>1
  <2>2. CASE q < p
    BY <1>1, <1>2, <1>3, <1>4, <2>2
  <2> QED
    BY <1>2, <2>1, <2>2
<1>6. t = r
  BY <1>1, <1>2, <1>4, <1>5
<1> QED
  BY <1>5, <1>6 DEF p, t, a

LEMMA DividedTwice ==
  ASSUME NEW a \in Nat, NEW b \in Nat \ {0}, NEW c \in Nat \ {0}
  PROVE  a \div (b * c) = (a \div b) \div c
<1> DEFINE q == a \div b
           r == a % b
           p == q \div c
           t == q % c
           n == t * b + r
<1>1. q \in Nat /\ r \in 0 .. b - 1 /\ a = q * b + r
  BY Divided
<1> HIDE DEF q, r
<1>2. p \in Nat /\ t \in 0 .. c - 1 /\ q = p * c + t
  BY <1>1, Divided
<1> HIDE DEF p, t
<1>3. b * c \in Nat \ {0} /\ (c - 1 - t) * b \in Nat /\ t * b \in Nat
  <2>1. c - 1 - t \in Nat
    BY <1>2
  <2> QED
    BY <1>2, <2>1, Multiplied
<1>4. (c - 1 - t) * b = b * c - b - t * b
  BY <1>2
<1>5. n \in 0 .. b * c - 1
  <2> DEFINE x == b * c
             y == t * b
             z == (c - 1 - t) * b
  <2>1. x \in Nat /\ y \in Nat /\ z \in Nat /\ z = x - b - y /\ n = y + r
    BY <1>3, <1>4
  <2> HIDE DEF x, y, z, n
  <2>2. n \in 0 .. x - 1
    BY <1>1, <2>1
  <2> QED
    BY <2>2 DEF x
<1>6. a = p * (b * c) + n
  <2>1. (p * c + t) * b = p * (b * c) + t * b
    BY <1>2
  <2> QED
    BY <1>1, <1>2, <1>3, <2>1
<1> HIDE DEF n
<1>7. a \div (b * c) = p
  <2> DEFINE x == b * c
  <2>1. x \in Nat \ {0} /\ n \in 0 .. x - 1 /\ a = p * x + n
    BY <1>3, <1>5, <1>6
  <2> HIDE DEF x
  <2>2. (p * x + n) \div x = p
    BY <1>2, <2>1, QuotientIs
  <2> QED
    BY <2>1, <2>2 DEF x
<1> QED
  BY <1>7 DEF p, q

================================================================================
