------------------------- MODULE ObjectIdentifierProofs -------------------------
(***************************************************************************)
(* Proofs about ObjectIdentifier, for octets, arcs, arrays and radixes of  *)
(* any size, all texts, octets and arcs: first what the operators of       *)
(* OidEncoding compute, then what the specification does with them.        *)
(***************************************************************************)
EXTENDS ObjectIdentifier, SequenceLemmas

--------------------------------------------------------------------------------
(* Powers of Base, and the numbers that octets spell.                      *)
LEMMA PowerSteps ==
  ASSUME NEW n \in Nat
  PROVE  \E p \in [0 .. n -> Nat \ {0}] :
           p[0] = 1 /\ Power(n) = p[n] /\ \A k \in 1 .. n : p[k] = p[k - 1] * Base
<1> DEFINE V == Nat \ {0}
           step == [k \in 1 .. n |-> [v \in V |-> v * Base]]
           Has(f) == f = [k \in 0 .. n |-> IF k = 0 THEN 1 ELSE f[k - 1] * Base]
           p == CHOOSE f : Has(f)
<1>1. 1 \in V /\ step \in [1 .. n -> [V -> V]]
  <2>1. \A v \in V : v * Base \in V
    BY OidAssumption, Multiplied
  <2> QED
    BY <2>1
<1>2. \A k \in 1 .. n : \A v \in V : step[k][v] = v * Base
  OBVIOUS
<1> HIDE DEF V, step
<1>3. PICK f \in [0 .. n -> V] : Unfolds(f, 1, step, n)
  BY <1>1, Recursion
<1>4. f[0] = 1 /\ \A k \in 1 .. n : f[k] = f[k - 1] * Base
  BY <1>2, <1>3 DEF Unfolds
<1>5. Has(f)
  <2>1. \A k \in 0 .. n : f[k] = IF k = 0 THEN 1 ELSE f[k - 1] * Base
    BY <1>3, <1>4
  <2> QED
    BY <1>3, <2>1
<1>6. Has(p)
  <2> HIDE DEF Has
  <2> QED
    BY <1>5
<1>7. Power(n) = p[n]
  BY DEF Power
<1>8. p[0] = 1 /\ \A k \in 1 .. n : p[k] = p[k - 1] * Base
  <2> HIDE DEF p
  <2>1. \A k \in 0 .. n : p[k] = IF k = 0 THEN 1 ELSE p[k - 1] * Base
    BY <1>6
  <2>2. 0 \in 0 .. n /\ \A k \in 1 .. n : k \in 0 .. n /\ k # 0
    OBVIOUS
  <2> QED
    BY <2>1, <2>2
<1> HIDE DEF p
<1>9. \A k \in 0 .. n : p[k] = f[k]
  <2>1. GoWith(p, f, n)
    BY <1>4, <1>8 DEF GoWith
  <2> QED
    BY <2>1, SameSteps
<1>10. p \in [0 .. n -> Nat \ {0}]
  <2> HIDE DEF Has
  <2>1. p = [k \in 0 .. n |-> p[k]]
    BY <1>6 DEF Has
  <2> QED
    BY <1>3, <1>9, <2>1 DEF V
<1> QED
  BY <1>7, <1>8, <1>10

LEMMA Powers ==
  ASSUME NEW n \in Nat
  PROVE  Power(n) \in Nat \ {0} /\ Power(0) = 1 /\ Power(n + 1) = Power(n) * Base
<1> DEFINE m == n + 1
<1>1. m \in Nat /\ 0 \in Nat /\ n \in 0 .. n /\ m - 1 = n /\ m \in 1 .. m
      /\ \A k \in 1 .. n : k \in 1 .. m
  OBVIOUS
<1> HIDE DEF m
<1>2. PICK p \in [0 .. n -> Nat \ {0}] :
        p[0] = 1 /\ Power(n) = p[n] /\ \A k \in 1 .. n : p[k] = p[k - 1] * Base
  BY PowerSteps
<1>3. PICK q \in [0 .. m -> Nat \ {0}] :
        q[0] = 1 /\ Power(m) = q[m] /\ \A k \in 1 .. m : q[k] = q[k - 1] * Base
  BY <1>1, PowerSteps
<1>4. PICK o \in [0 .. 0 -> Nat \ {0}] :
        o[0] = 1 /\ Power(0) = o[0] /\ \A k \in 1 .. 0 : o[k] = o[k - 1] * Base
  BY <1>1, PowerSteps
<1>5. p[n] = q[n]
  <2>1. GoWith(p, q, n)
    BY <1>1, <1>2, <1>3 DEF GoWith
  <2> QED
    BY <1>1, <2>1, SameSteps
<1>6. Power(m) = Power(n) * Base
  BY <1>1, <1>2, <1>3, <1>5
<1>7. Power(n) \in Nat \ {0}
  BY <1>1, <1>2
<1> QED
  BY <1>4, <1>6, <1>7 DEF m

LEMMA OidNumbers ==
  /\ Base \in Nat \ {0} /\ ArcMax \in Nat \ {0} /\ ArcBytes \in Nat \ {0}
  /\ ARC_MAX_SECOND \in Nat \ {0} /\ MaxSize \in Nat \ {0}
  /\ Octets \subseteq Nat /\ Arcs \subseteq Nat /\ ARC_MAX_FIRST = 2
  /\ 3 * (ARC_MAX_SECOND + 1) <= Base /\ 2 <= ArcMax /\ ARC_MAX_SECOND <= ArcMax
  /\ Power(ArcBytes - 1) <= ArcMax /\ ArcMax < Power(ArcBytes)
  BY OidAssumption DEF Octets, Arcs, ARC_MAX_FIRST

(* A length within the array is the same as a u8.                          *)
LEMMA LengthsFit ==
  ASSUME NEW n \in 0 .. MaxSize
  PROVE  as_u8(n) = n
<1>1. n \in Nat /\ Base \in Nat /\ MaxSize \in Nat /\ n <= MaxSize /\ MaxSize < 2 * Base
  BY OidAssumption
<1>2. n % (2 * Base) = n
  <2> DEFINE m == 2 * Base
  <2>1. m \in Nat /\ n < m
    BY <1>1
  <2> HIDE DEF m
  <2>2. n % m = n
    BY <1>1, <2>1
  <2> QED
    BY <2>2 DEF m
<1> QED
  BY <1>2 DEF as_u8

AreOctets(bytes, offset, n) == \A k \in 1 .. n : bytes[offset + k] \in Octets
SpellOut(v, bytes, offset, n) ==
  /\ v[0] = 0 /\ Spelled(bytes, offset, n) = v[n]
  /\ \A k \in 1 .. n : v[k] = v[k - 1] * Base + (bytes[offset + k] % Base)

LEMMA SpelledSteps ==
  ASSUME NEW bytes, NEW offset \in Nat, NEW n \in Nat, AreOctets(bytes, offset, n)
  PROVE  \E v \in [0 .. n -> Nat] : SpellOut(v, bytes, offset, n)
<1> DEFINE step == [k \in 1 .. n |-> [v \in Nat |-> v * Base + (bytes[offset + k] % Base)]]
           Has(f) == f = [k \in 0 .. n |-> IF k = 0 THEN 0 ELSE f[k - 1] * Base + (bytes[offset + k] % Base)]
           p == CHOOSE f : Has(f)
<1>1. 0 \in Nat /\ step \in [1 .. n -> [Nat -> Nat]]
  <2>1. ASSUME NEW k \in 1 .. n, NEW v \in Nat PROVE v * Base + (bytes[offset + k] % Base) \in Nat
    <3>1. v * Base \in Nat
      BY OidNumbers, Multiplied
    <3>2. bytes[offset + k] % Base \in Nat
      <4> DEFINE octet == bytes[offset + k]
      <4>1. octet \in Nat
        BY OidNumbers DEF AreOctets
      <4> HIDE DEF octet
      <4>2. octet % Base \in 0 .. Base - 1
        BY <4>1, OidNumbers, Divided
      <4> QED
        BY <4>2 DEF octet
    <3> QED
      BY <3>1, <3>2
  <2> QED
    BY <2>1
<1>2. \A k \in 1 .. n : \A v \in Nat : step[k][v] = v * Base + (bytes[offset + k] % Base)
  OBVIOUS
<1> HIDE DEF step
<1>3. PICK f \in [0 .. n -> Nat] : Unfolds(f, 0, step, n)
  BY <1>1, Recursion
<1>4. f[0] = 0 /\ \A k \in 1 .. n : f[k] = f[k - 1] * Base + (bytes[offset + k] % Base)
  <2>1. \A k \in 1 .. n : k - 1 \in 0 .. n /\ f[k - 1] \in Nat
    BY <1>3
  <2>2. f[0] = 0 /\ \A k \in 1 .. n : f[k] = step[k][f[k - 1]]
    BY <1>3 DEF Unfolds
  <2> QED
    BY ONLY <1>2, <2>1, <2>2
<1>5. Has(f)
  <2>1. \A k \in 0 .. n : f[k] = IF k = 0 THEN 0 ELSE f[k - 1] * Base + (bytes[offset + k] % Base)
    BY <1>3, <1>4
  <2> QED
    BY <1>3, <2>1
<1>6. Has(p)
  <2> HIDE DEF Has
  <2> QED
    BY <1>5
<1>7. Spelled(bytes, offset, n) = p[n]
  BY DEF Spelled
<1>8. p[0] = 0 /\ \A k \in 1 .. n : p[k] = p[k - 1] * Base + (bytes[offset + k] % Base)
  <2> HIDE DEF p
  <2>1. \A k \in 0 .. n : p[k] = IF k = 0 THEN 0 ELSE p[k - 1] * Base + (bytes[offset + k] % Base)
    BY <1>6
  <2>2. 0 \in 0 .. n /\ \A k \in 1 .. n : k \in 0 .. n /\ k # 0
    OBVIOUS
  <2> QED
    BY <2>1, <2>2
<1> HIDE DEF p
<1>9. \A k \in 0 .. n : p[k] = f[k]
  <2>1. GoWith(p, f, n)
    BY <1>4, <1>8 DEF GoWith
  <2> QED
    BY <2>1, SameSteps
<1>10. p \in [0 .. n -> Nat]
  <2> HIDE DEF Has
  <2>1. p = [k \in 0 .. n |-> p[k]]
    BY <1>6 DEF Has
  <2> QED
    BY <1>3, <1>9, <2>1
<1> QED
  BY <1>7, <1>8, <1>10 DEF SpellOut

LEMMA SpelledOfMore ==
  ASSUME NEW bytes, NEW offset \in Nat, NEW n \in Nat, AreOctets(bytes, offset, n + 1)
  PROVE  /\ Spelled(bytes, offset, n) \in Nat
         /\ Spelled(bytes, offset, n + 1)
              = Spelled(bytes, offset, n) * Base + (bytes[offset + (n + 1)] % Base)
<1> DEFINE m == n + 1
<1>1. m \in Nat /\ n \in 0 .. n /\ m - 1 = n /\ m \in 1 .. m
      /\ \A k \in 1 .. n : k \in 1 .. m
  OBVIOUS
<1>2. AreOctets(bytes, offset, m) /\ AreOctets(bytes, offset, n)
  BY DEF AreOctets
<1> HIDE DEF m
<1>3. PICK p \in [0 .. n -> Nat] : SpellOut(p, bytes, offset, n)
  BY <1>2, SpelledSteps
<1>4. PICK q \in [0 .. m -> Nat] : SpellOut(q, bytes, offset, m)
  BY <1>1, <1>2, SpelledSteps
<1>5. p[n] = q[n]
  <2>1. GoWith(p, q, n)
    BY <1>1, <1>3, <1>4 DEF GoWith, SpellOut
  <2> QED
    BY <1>1, <2>1, SameSteps
<1>6. Spelled(bytes, offset, m) = Spelled(bytes, offset, n) * Base + (bytes[offset + m] % Base)
  BY <1>1, <1>3, <1>4, <1>5 DEF SpellOut
<1>7. Spelled(bytes, offset, n) \in Nat
  BY <1>1, <1>3 DEF SpellOut
<1> QED
  BY <1>6, <1>7 DEF m

LEMMA SpelledOfNone ==
  ASSUME NEW bytes, NEW offset \in Nat
  PROVE  Spelled(bytes, offset, 0) = 0
<1>1. AreOctets(bytes, offset, 0)
  BY DEF AreOctets
<1>2. PICK v \in [0 .. 0 -> Nat] : SpellOut(v, bytes, offset, 0)
  BY <1>1, SpelledSteps
<1> QED
  BY <1>2 DEF SpellOut

--------------------------------------------------------------------------------
(* The octets of an arc.                                                   *)
LEMMA MinIs ==
  ASSUME NEW S \in SUBSET Nat, S # {}
  PROVE  Min(S) \in S /\ \A y \in S : Min(S) <= y
<1>1. \E x \in S : \A y \in S : x <= y
  BY Least
<1> QED
  BY <1>1 DEF Min

LEMMA LengthOfArc ==
  ASSUME NEW a \in Nat
  PROVE  base128_len(a) \in 1 .. ArcBytes /\ (a \in Arcs => a < Power(base128_len(a)))
<1> DEFINE S == {n \in 1 .. ArcBytes : a < Power(n)} \union {ArcBytes}
<1>1. S \in SUBSET Nat /\ S # {} /\ S \subseteq 1 .. ArcBytes
  BY OidNumbers
<1>2. ASSUME NEW n \in S, a \in Arcs PROVE a < Power(n)
  <2>1. a < Power(ArcBytes)
    <3>1. a \in Nat /\ a <= ArcMax /\ Power(ArcBytes) \in Nat
      BY <1>2, OidNumbers, Powers DEF Arcs
    <3> QED
      BY <3>1, OidNumbers
  <2> QED
    BY <2>1
<1> HIDE DEF S
<1>3. Min(S) \in S
  BY <1>1, MinIs
<1>4. base128_len(a) = Min(S)
  BY DEF base128_len, S
<1> QED
  BY <1>1, <1>2, <1>3, <1>4

LEMMA OctetOfArc ==
  ASSUME NEW a \in Nat, NEW n \in Nat, NEW i \in 1 .. n
  PROVE  /\ base128_byte(a, i - 1, n) \in Octets
         /\ base128_byte(a, i - 1, n) % Base = (a \div Power(n - i)) % Base
         /\ base128_byte(a, i - 1, n) < Base <=> i = n
<1> DEFINE q == a \div Power(n - i)
           r == q % Base
<1>1. n - i \in Nat /\ n - (i - 1) - 1 = n - i /\ (i - 1 + 1 = n <=> i = n)
  OBVIOUS
<1>2. q \in Nat
  <2> DEFINE p == Power(n - i)
  <2>1. p \in Nat \ {0}
    BY <1>1, Powers
  <2> HIDE DEF p
  <2>2. a \div p \in Nat
    BY <2>1, Divided
  <2> QED
    BY <2>2 DEF p
<1>3. base128_byte(a, i - 1, n) = r + (IF i = n THEN 0 ELSE Base)
  BY <1>1 DEF base128_byte
<1> HIDE DEF q
<1>4. r \in 0 .. Base - 1
  BY <1>2, OidNumbers, Divided
<1> HIDE DEF r
<1>5. (0 * Base + r) % Base = r /\ (1 * Base + r) % Base = r
  BY <1>4, OidNumbers, QuotientIs
<1>6. 0 * Base + r = r /\ 1 * Base + r = r + Base
  BY <1>4, OidNumbers
<1>7. r \in Octets /\ r + Base \in Octets /\ r < Base /\ ~(r + Base < Base) /\ r + 0 = r
  BY <1>4, OidNumbers DEF Octets
<1>8. CASE i = n
  BY <1>3, <1>5, <1>6, <1>7, <1>8 DEF r, q
<1>9. CASE i # n
  BY <1>3, <1>5, <1>6, <1>7, <1>9 DEF r, q
<1> QED
  BY <1>8, <1>9

LEMMA PowersDivide ==
  ASSUME NEW a \in Nat, NEW n \in Nat
  PROVE  a \div Power(n + 1) = (a \div Power(n)) \div Base /\ a \div Power(n) \in Nat
<1>1. Power(n) \in Nat \ {0} /\ Base \in Nat \ {0} /\ Power(n + 1) = Power(n) * Base
  BY Powers, OidNumbers
<1> DEFINE p == Power(n)
<1> HIDE DEF p
<1>2. a \div (p * Base) = (a \div p) \div Base /\ a \div p \in Nat
  <2>1. p \in Nat \ {0}
    BY <1>1 DEF p
  <2> QED
    BY <1>1, <2>1, DividedTwice, Divided
<1> QED
  BY <1>1, <1>2 DEF p

(* What has been written is spelled.                                       *)
LEMMA SpelledBack ==
  ASSUME NEW a \in Nat, NEW n \in Nat, a < Power(n), NEW bytes, NEW offset \in Nat,
         \A i \in 1 .. n : bytes[offset + i] = base128_byte(a, i - 1, n)
  PROVE  Spelled(bytes, offset, n) = a
<1> DEFINE Good == {k \in Nat : k <= n => Spelled(bytes, offset, k) = a \div Power(n - k)}
<1>1. 0 \in Good
  <2> DEFINE p == Power(n)
  <2>1. p \in Nat \ {0} /\ a \in 0 .. p - 1
    BY Powers
  <2> HIDE DEF p
  <2>2. (0 * p + a) \div p = 0
    BY <2>1, QuotientIs
  <2>3. 0 * p + a = a
    BY <2>1
  <2>4. a \div Power(n) = 0
    BY <2>2, <2>3 DEF p
  <2>5. Spelled(bytes, offset, 0) = 0 /\ n - 0 = n
    BY SpelledOfNone
  <2> QED
    BY <2>4, <2>5
<1>2. ASSUME NEW k \in Good PROVE k + 1 \in Good
  <2> SUFFICES ASSUME k + 1 <= n PROVE Spelled(bytes, offset, k + 1) = a \div Power(n - (k + 1))
    OBVIOUS
  <2> DEFINE m == k + 1
             l == n - m
             q == a \div Power(l)
             octet == bytes[offset + m]
  <2>1. k \in Nat /\ m \in 1 .. n /\ l \in Nat /\ l + 1 = n - k /\ k <= n
        /\ \A i \in 1 .. m : i \in 1 .. n
    OBVIOUS
  <2>2. Spelled(bytes, offset, k) = a \div Power(l + 1)
    BY <2>1
  <2> HIDE DEF m, l
  <2>3. AreOctets(bytes, offset, m)
    <3>1. ASSUME NEW i \in 1 .. m PROVE bytes[offset + i] \in Octets
      <4>1. bytes[offset + i] = base128_byte(a, i - 1, n) /\ i \in 1 .. n
        BY <2>1
      <4> QED
        BY <4>1, OctetOfArc
    <3> QED
      BY <3>1 DEF AreOctets
  <2>4. Spelled(bytes, offset, m) = Spelled(bytes, offset, k) * Base + (octet % Base)
    <3>1. AreOctets(bytes, offset, k + 1) /\ k \in Nat
      BY <2>1, <2>3 DEF m
    <3> HIDE DEF Good
    <3>2. Spelled(bytes, offset, k + 1) = Spelled(bytes, offset, k) * Base + (bytes[offset + (k + 1)] % Base)
      BY <3>1, SpelledOfMore
    <3> QED
      BY <3>2 DEF m
  <2>5. octet % Base = q % Base
    <3>1. octet = base128_byte(a, m - 1, n)
      BY <2>1
    <3>2. base128_byte(a, m - 1, n) % Base = (a \div Power(n - m)) % Base
      BY <2>1, OctetOfArc
    <3> QED
      BY <3>1, <3>2 DEF l
  <2>6. a \div Power(l + 1) = q \div Base /\ q \in Nat
    BY <2>1, PowersDivide
  <2> HIDE DEF q, octet
  <2>7. q = (q \div Base) * Base + (q % Base)
    BY <2>6, OidNumbers, Divided
  <2>8. Spelled(bytes, offset, m) = q
    BY <2>2, <2>4, <2>5, <2>6, <2>7
  <2> QED
    BY <2>8 DEF m, q, l
<1>3. Good = Nat
  <2> HIDE DEF Good
  <2>1. Good \in SUBSET Nat
    BY DEF Good
  <2> QED
    BY <1>1, <1>2, <2>1, Induction
<1>4. Spelled(bytes, offset, n) = a \div Power(n - n) /\ n - n = 0
  BY <1>3
<1>5. a \div 1 = a
  OBVIOUS
<1> QED
  BY <1>4, <1>5, Powers

--------------------------------------------------------------------------------
(* What octets mean, octet by octet.                                       *)
Readings == [arcs : Seq(Nat), open : Nat]
HasOctets(bytes, n) == \A k \in 1 .. n : bytes[k] \in Octets

LEMMA ReadOctetTyped ==
  ASSUME NEW v \in Readings, NEW octet \in Octets
  PROVE  ReadOctet(v, octet) \in Readings
<1> DEFINE w == ARC_MAX_SECOND + 1
<1>1. octet \in Nat /\ w \in Nat \ {0} /\ Base \in Nat \ {0}
  BY OidNumbers
<1>2. octet \div w \in Nat /\ octet % w \in Nat
  <2> HIDE DEF w
  <2>1. octet \div w \in Nat /\ octet % w \in 0 .. w - 1
    BY <1>1, Divided
  <2> QED
    BY <1>1, <2>1
<1>3. v.arcs \in Seq(Nat) /\ v.open \in Nat /\ v = [arcs |-> v.arcs, open |-> v.open]
  BY DEF Readings
<1>4. v.open * Base \in Nat
  BY <1>1, <1>3, Multiplied
<1>5. CASE v = Unread
  <2>1. ReadOctet(v, octet) = [arcs |-> <<octet \div w, octet % w>>, open |-> 0]
    BY <1>5 DEF ReadOctet
  <2> HIDE DEF w
  <2> QED
    BY <1>2, <2>1 DEF Readings
<1>6. CASE v # Unread /\ octet >= Base
  <2>1. ReadOctet(v, octet) = [arcs |-> v.arcs, open |-> v.open * Base + (octet - Base)]
    BY <1>3, <1>6 DEF ReadOctet
  <2>2. octet - Base \in Nat
    BY <1>1, <1>6
  <2>3. v.open * Base + (octet - Base) \in Nat
    BY <1>4, <2>2
  <2> QED
    BY <1>3, <2>1, <2>3 DEF Readings
<1>7. CASE v # Unread /\ ~(octet >= Base)
  <2>1. ReadOctet(v, octet) = [arcs |-> Append(v.arcs, v.open * Base + octet), open |-> 0]
    BY <1>7 DEF ReadOctet
  <2>2. v.open * Base + octet \in Nat
    BY <1>1, <1>4
  <2>3. Append(v.arcs, v.open * Base + octet) \in Seq(Nat)
    BY <1>3, <2>2
  <2> QED
    BY <2>1, <2>3 DEF Readings
<1> QED
  BY <1>5, <1>6, <1>7

Reads(f, bytes, n) ==
  /\ f[0] = Unread /\ Reading(bytes, n) = f[n]
  /\ \A k \in 1 .. n : f[k] = ReadOctet(f[k - 1], bytes[k])

LEMMA ReadsSteps ==
  ASSUME NEW bytes, NEW n \in Nat, HasOctets(bytes, n)
  PROVE  \E f \in [0 .. n -> Readings] : Reads(f, bytes, n)
<1> DEFINE last == n
           step == [k \in 1 .. last |-> [v \in Readings |-> ReadOctet(v, bytes[k])]]
           Has(f) == f = [k \in 0 .. last |-> IF k = 0 THEN Unread ELSE ReadOctet(f[k - 1], bytes[k])]
           p == CHOOSE f : Has(f)
<1>1. last \in Nat /\ Unread \in Readings /\ step \in [1 .. last -> [Readings -> Readings]]
  <2>1. Unread \in Readings
    BY DEF Unread, Readings
  <2>2. \A k \in 1 .. n : \A v \in Readings : ReadOctet(v, bytes[k]) \in Readings
    BY ReadOctetTyped DEF HasOctets
  <2> QED
    BY <2>1, <2>2
<1>2. \A k \in 1 .. last : \A v \in Readings : step[k][v] = ReadOctet(v, bytes[k])
  OBVIOUS
<1>3. Reading(bytes, n) = p[last]
  BY DEF Reading
<1> HIDE DEF step, last
<1>4. PICK f \in [0 .. last -> Readings] : Unfolds(f, Unread, step, last)
  BY <1>1, Recursion
<1>5. f[0] = Unread /\ \A k \in 1 .. last : f[k] = ReadOctet(f[k - 1], bytes[k])
  <2>1. \A k \in 1 .. last : f[k - 1] \in Readings
    BY <1>1, <1>4
  <2> QED
    BY <1>2, <1>4, <2>1 DEF Unfolds
<1>6. Has(f)
  <2>1. \A k \in 0 .. last : f[k] = IF k = 0 THEN Unread ELSE ReadOctet(f[k - 1], bytes[k])
    BY <1>1, <1>4, <1>5
  <2> QED
    BY <1>4, <2>1
<1>7. Has(p)
  <2> HIDE DEF Has
  <2> QED
    BY <1>6
<1>8. p[0] = Unread /\ \A k \in 1 .. last : p[k] = ReadOctet(p[k - 1], bytes[k])
  <2> HIDE DEF p
  <2>1. \A k \in 0 .. last : p[k] = IF k = 0 THEN Unread ELSE ReadOctet(p[k - 1], bytes[k])
    BY <1>7
  <2>2. 0 \in 0 .. last /\ \A k \in 1 .. last : k \in 0 .. last /\ k # 0
    BY <1>1
  <2> QED
    BY <2>1, <2>2
<1> HIDE DEF p
<1>9. \A k \in 0 .. last : p[k] = f[k]
  <2>1. GoWith(p, f, last)
    BY <1>5, <1>8 DEF GoWith
  <2> QED
    BY <1>1, <2>1, SameSteps
<1>10. p \in [0 .. last -> Readings]
  <2> HIDE DEF Has
  <2>1. p = [k \in 0 .. last |-> p[k]]
    BY <1>7 DEF Has
  <2> QED
    BY <1>4, <1>9, <2>1
<1> QED
  BY <1>3, <1>8, <1>10 DEF Reads, last

LEMMA ReadingOfMore ==
  ASSUME NEW bytes, NEW n \in Nat, HasOctets(bytes, n + 1)
  PROVE  /\ Reading(bytes, n) \in Readings
         /\ Reading(bytes, n + 1) = ReadOctet(Reading(bytes, n), bytes[n + 1])
<1> DEFINE m == n + 1
<1>1. m \in Nat /\ n \in 0 .. n /\ m - 1 = n /\ m \in 1 .. m
      /\ \A k \in 1 .. n : k \in 1 .. m
  OBVIOUS
<1>2. HasOctets(bytes, m) /\ HasOctets(bytes, n)
  BY DEF HasOctets
<1> HIDE DEF m
<1>3. PICK p \in [0 .. n -> Readings] : Reads(p, bytes, n)
  BY <1>2, ReadsSteps
<1>4. PICK q \in [0 .. m -> Readings] : Reads(q, bytes, m)
  BY <1>1, <1>2, ReadsSteps
<1>5. p[n] = q[n]
  <2>1. GoWith(p, q, n)
    BY <1>1, <1>3, <1>4 DEF GoWith, Reads
  <2> QED
    BY <1>1, <2>1, SameSteps
<1>6. Reading(bytes, m) = ReadOctet(Reading(bytes, n), bytes[m])
  BY <1>1, <1>3, <1>4, <1>5 DEF Reads
<1>7. Reading(bytes, n) \in Readings
  BY <1>1, <1>3 DEF Reads
<1> QED
  BY <1>6, <1>7 DEF m

LEMMA ReadingIs ==
  ASSUME NEW bytes, NEW n \in Nat, HasOctets(bytes, n)
  PROVE  Reading(bytes, n) \in Readings /\ Reading(bytes, 0) = Unread
<1>1. PICK p \in [0 .. n -> Readings] : Reads(p, bytes, n)
  BY ReadsSteps
<1>2. HasOctets(bytes, 0) /\ 0 \in Nat
  BY DEF HasOctets
<1>3. PICK q \in [0 .. 0 -> Readings] : Reads(q, bytes, 0)
  BY <1>2, ReadsSteps
<1> QED
  BY <1>1, <1>3 DEF Reads

LEMMA ReadingSame ==
  ASSUME NEW bytes, NEW other, NEW n \in Nat, HasOctets(bytes, n), \A k \in 1 .. n : other[k] = bytes[k]
  PROVE  Reading(other, n) = Reading(bytes, n)
<1>1. HasOctets(other, n)
  BY DEF HasOctets
<1>2. PICK p \in [0 .. n -> Readings] : Reads(p, bytes, n)
  BY ReadsSteps
<1>3. PICK q \in [0 .. n -> Readings] : Reads(q, other, n)
  BY <1>1, ReadsSteps
<1>4. GoWith(q, p, n)
  BY <1>2, <1>3 DEF GoWith, Reads
<1>5. q[n] = p[n] /\ n \in 0 .. n
  BY <1>4, SameSteps
<1> QED
  BY <1>2, <1>3, <1>5 DEF Reads

LEMMA ReadingOfOne ==
  ASSUME NEW bytes, HasOctets(bytes, 1)
  PROVE  Reading(bytes, 1) = [arcs |-> <<bytes[1] \div (ARC_MAX_SECOND + 1), bytes[1] % (ARC_MAX_SECOND + 1)>>,
                              open |-> 0]
<1>1. 0 \in Nat /\ 0 + 1 = 1
  OBVIOUS
<1>2. Reading(bytes, 0 + 1) = ReadOctet(Reading(bytes, 0), bytes[0 + 1])
  BY <1>1, ReadingOfMore
<1>3. Reading(bytes, 0) = Unread
  BY <1>1, ReadingIs
<1> QED
  BY <1>1, <1>2, <1>3 DEF ReadOctet

(* Once the root is read, reading only adds arcs.                          *)
Rooted(reading) == reading \in Readings /\ Len(reading.arcs) >= 2
Extends(t, s) == Len(s) <= Len(t) /\ \A i \in 1 .. Len(s) : t[i] = s[i]

LEMMA ReadOctetAdds ==
  ASSUME NEW v, Rooted(v), NEW octet \in Octets
  PROVE  /\ Rooted(ReadOctet(v, octet)) /\ Extends(ReadOctet(v, octet).arcs, v.arcs)
         /\ ReadOctet(v, octet) = IF octet >= Base
                                  THEN [arcs |-> v.arcs, open |-> v.open * Base + (octet - Base)]
                                  ELSE [arcs |-> Append(v.arcs, v.open * Base + octet), open |-> 0]
<1>1. v \in Readings /\ v.arcs \in Seq(Nat) /\ v.open \in Nat /\ v = [arcs |-> v.arcs, open |-> v.open]
      /\ Len(v.arcs) >= 2
  BY DEF Readings, Rooted
<1>2. v # Unread
  <2>1. Unread.arcs = <<>> /\ Len(<<>>) = 0
    BY DEF Unread
  <2> QED
    BY <1>1, <2>1
<1>3. ReadOctet(v, octet) = IF octet >= Base
                            THEN [arcs |-> v.arcs, open |-> v.open * Base + (octet - Base)]
                            ELSE [arcs |-> Append(v.arcs, v.open * Base + octet), open |-> 0]
  BY <1>1, <1>2 DEF ReadOctet
<1>4. ReadOctet(v, octet) \in Readings
  BY <1>1, ReadOctetTyped
<1>5. Extends(ReadOctet(v, octet).arcs, v.arcs)
  <2>1. CASE octet >= Base
    BY <1>1, <1>3, <2>1 DEF Extends
  <2>2. CASE ~(octet >= Base)
    <3> DEFINE a == v.open * Base + octet
    <3>1. ReadOctet(v, octet).arcs = Append(v.arcs, a)
      BY <1>3, <2>2
    <3> HIDE DEF a
    <3>2. IsSequence(v.arcs)
      BY <1>1, OfItsElements
    <3>3. Len(Append(v.arcs, a)) = Len(v.arcs) + 1 /\ \A i \in 1 .. Len(v.arcs) : Append(v.arcs, a)[i] = v.arcs[i]
      BY <3>2, AppendFacts
    <3> QED
      BY <1>1, <3>1, <3>3 DEF Extends
  <2> QED
    BY <2>1, <2>2
<1>6. Len(ReadOctet(v, octet).arcs) >= 2
  <2> DEFINE s == ReadOctet(v, octet).arcs
  <2>1. s \in Seq(Nat)
    BY <1>4 DEF Readings
  <2> HIDE DEF s
  <2>2. Len(s) >= Len(v.arcs)
    BY <1>5 DEF Extends, s
  <2>3. Len(s) >= 2
    BY <1>1, <2>1, <2>2
  <2> QED
    BY <2>3 DEF s
<1> QED
  BY <1>3, <1>4, <1>5, <1>6 DEF Rooted

LEMMA ReadingRooted ==
  ASSUME NEW bytes, NEW n \in Nat \ {0}, HasOctets(bytes, n)
  PROVE  Rooted(Reading(bytes, n))
<1> DEFINE Good == {k \in Nat : k + 1 <= n => Rooted(Reading(bytes, k + 1))}
<1>1. \A k \in 1 .. n : HasOctets(bytes, k) /\ bytes[k] \in Octets
  BY DEF HasOctets
<1>2. 0 \in Good
  <2>1. HasOctets(bytes, 1) /\ 1 \in Nat
    BY <1>1
  <2>2. Reading(bytes, 1) \in Readings
    BY <2>1, ReadingIs
  <2>3. Len(Reading(bytes, 1).arcs) = 2
    BY <2>1, ReadingOfOne
  <2>4. Rooted(Reading(bytes, 1))
    <3> DEFINE l == Len(Reading(bytes, 1).arcs)
    <3>1. l >= 2
      BY <2>3
    <3> QED
      BY <2>2, <3>1 DEF Rooted
  <2>5. 0 + 1 = 1
    OBVIOUS
  <2> QED
    BY <2>4, <2>5
<1>3. ASSUME NEW k \in Good PROVE k + 1 \in Good
  <2> DEFINE m == k + 1
  <2> SUFFICES ASSUME m + 1 <= n PROVE Rooted(Reading(bytes, m + 1))
    OBVIOUS
  <2>1. m \in Nat /\ m + 1 \in 1 .. n /\ Rooted(Reading(bytes, m))
    OBVIOUS
  <2> HIDE DEF m, Good
  <2>2. Reading(bytes, m + 1) = ReadOctet(Reading(bytes, m), bytes[m + 1])
    BY <1>1, <2>1, ReadingOfMore
  <2> QED
    BY <1>1, <2>1, <2>2, ReadOctetAdds
<1>4. Good = Nat
  <2> HIDE DEF Good
  <2>1. Good \in SUBSET Nat
    BY DEF Good
  <2> QED
    BY <1>2, <1>3, <2>1, Induction
<1> DEFINE d == n - 1
<1>5. d \in Nat /\ d + 1 = n /\ d + 1 <= n
  OBVIOUS
<1>6. d \in Good
  <2> HIDE DEF d, Good
  <2> QED
    BY <1>4, <1>5
<1>7. Rooted(Reading(bytes, d + 1))
  <2> HIDE DEF d
  <2> QED
    BY <1>5, <1>6
<1> QED
  BY <1>5, <1>7

LEMMA ExtendsOn ==
  ASSUME NEW s \in Seq(Nat), NEW t \in Seq(Nat), NEW u \in Seq(Nat), Extends(t, s), Extends(u, t)
  PROVE  Extends(u, s)
<1>1. Len(s) \in Nat /\ Len(t) \in Nat /\ Len(u) \in Nat /\ Len(s) <= Len(t) /\ Len(t) <= Len(u)
  BY DEF Extends
<1>2. ASSUME NEW i \in 1 .. Len(s) PROVE u[i] = s[i]
  <2>1. i \in 1 .. Len(t)
    BY <1>1
  <2> QED
    BY <2>1 DEF Extends
<1> QED
  BY <1>1, <1>2 DEF Extends

LEMMA ReadingGrows ==
  ASSUME NEW bytes, NEW n \in Nat, HasOctets(bytes, n), NEW k \in 1 .. n
  PROVE  Extends(Reading(bytes, n).arcs, Reading(bytes, k).arcs)
<1> DEFINE s == Reading(bytes, k).arcs
           Good == {d \in Nat : k + d <= n => Extends(Reading(bytes, k + d).arcs, s)}
<1>1. \A m \in 1 .. n : HasOctets(bytes, m) /\ bytes[m] \in Octets /\ m \in Nat \ {0}
  BY DEF HasOctets
<1>2. \A m \in 1 .. n : Rooted(Reading(bytes, m)) /\ Reading(bytes, m).arcs \in Seq(Nat)
  <2>1. ASSUME NEW m \in 1 .. n PROVE Rooted(Reading(bytes, m))
    BY <1>1, ReadingRooted
  <2> QED
    BY <2>1 DEF Rooted, Readings
<1>3. s \in Seq(Nat)
  BY <1>2
<1> HIDE DEF s
<1>4. 0 \in Good
  <2>1. k + 0 = k /\ Extends(s, s)
    BY <1>3 DEF Extends
  <2> QED
    BY <2>1 DEF s
<1>5. ASSUME NEW d \in Good PROVE d + 1 \in Good
  <2> DEFINE m == k + d
  <2> SUFFICES ASSUME m + 1 <= n PROVE Extends(Reading(bytes, m + 1).arcs, s)
    OBVIOUS
  <2>1. m \in 1 .. n /\ m + 1 \in 1 .. n /\ m \in Nat /\ Extends(Reading(bytes, m).arcs, s)
    OBVIOUS
  <2> HIDE DEF m, Good
  <2>2. Reading(bytes, m + 1) = ReadOctet(Reading(bytes, m), bytes[m + 1])
    BY <1>1, <2>1, ReadingOfMore
  <2>3. Extends(Reading(bytes, m + 1).arcs, Reading(bytes, m).arcs)
    BY <1>1, <1>2, <2>1, <2>2, ReadOctetAdds
  <2> QED
    BY <1>2, <1>3, <2>1, <2>3, ExtendsOn
<1>6. Good = Nat
  <2> HIDE DEF Good
  <2>1. Good \in SUBSET Nat
    BY DEF Good
  <2> QED
    BY <1>4, <1>5, <2>1, Induction
<1> DEFINE d == n - k
<1>7. d \in Nat /\ k + d = n /\ k + d <= n
  OBVIOUS
<1>8. d \in Good
  <2> HIDE DEF d, Good
  <2> QED
    BY <1>6, <1>7
<1>9. Extends(Reading(bytes, k + d).arcs, s)
  <2> HIDE DEF d
  <2> QED
    BY <1>7, <1>8
<1> QED
  BY <1>7, <1>9 DEF s

(* Octets that leave an arc open and one that closes it are one arc more.  *)
LEMMA ReadingOfRun ==
  ASSUME NEW bytes, NEW c \in Nat \ {0}, NEW n \in Nat \ {0}, HasOctets(bytes, c + n),
         Reading(bytes, c).open = 0, \A j \in 1 .. n - 1 : bytes[c + j] >= Base, bytes[c + n] < Base
  PROVE  Reading(bytes, c + n) = [arcs |-> Append(Reading(bytes, c).arcs, Spelled(bytes, c, n)), open |-> 0]
<1> DEFINE A == Reading(bytes, c).arcs
           Read(j) == [arcs |-> A, open |-> Spelled(bytes, c, j)]
           Good == {j \in Nat : j < n => Reading(bytes, c + j) = Read(j)}
<1>1. /\ \A j \in 0 .. n : HasOctets(bytes, c + j) /\ AreOctets(bytes, c, j) /\ Rooted(Reading(bytes, c + j))
      /\ \A j \in 1 .. n : bytes[c + j] \in Octets
  <2>1. ASSUME NEW j \in 0 .. n PROVE HasOctets(bytes, c + j) /\ AreOctets(bytes, c, j) /\ c + j \in Nat \ {0}
    BY DEF HasOctets, AreOctets
  <2>2. ASSUME NEW j \in 0 .. n PROVE Rooted(Reading(bytes, c + j))
    BY <2>1, ReadingRooted
  <2>3. ASSUME NEW j \in 1 .. n PROVE bytes[c + j] \in Octets
    BY DEF HasOctets
  <2> QED
    BY <2>1, <2>2, <2>3
<1>2. 0 \in Good
  <2>1. c + 0 = c /\ Reading(bytes, c) \in Readings
    BY <1>1 DEF Rooted
  <2>2. Reading(bytes, c) = [arcs |-> A, open |-> 0]
    BY <2>1 DEF Readings
  <2>3. Spelled(bytes, c, 0) = 0
    BY SpelledOfNone
  <2> QED
    BY <2>1, <2>2, <2>3
<1>3. ASSUME NEW j \in Nat, j < n, Reading(bytes, c + j) = Read(j)
      PROVE  /\ Reading(bytes, c + (j + 1)) = ReadOctet(Read(j), bytes[c + (j + 1)])
             /\ Rooted(Read(j)) /\ Read(j).open * Base \in Nat /\ A \in Seq(Nat)
             /\ Spelled(bytes, c, j + 1) = Read(j).open * Base + (bytes[c + (j + 1)] % Base)
  <2> DEFINE m == c + j
  <2>1. m \in Nat /\ m + 1 = c + (j + 1) /\ j \in 0 .. n /\ j + 1 \in 0 .. n
    BY <1>3
  <2> HIDE DEF m
  <2>2. HasOctets(bytes, m + 1)
    BY <1>1, <2>1
  <2>3. Reading(bytes, m + 1) = ReadOctet(Reading(bytes, m), bytes[m + 1])
    BY <2>1, <2>2, ReadingOfMore
  <2>4. Reading(bytes, c + (j + 1)) = ReadOctet(Read(j), bytes[c + (j + 1)])
    BY <1>3, <2>1, <2>3 DEF m
  <2>5. Rooted(Read(j)) /\ Read(j).open * Base \in Nat /\ A \in Seq(Nat)
    <3>1. Rooted(Read(j))
      BY <1>1, <1>3, <2>1
    <3>2. Read(j).open \in Nat /\ Read(j).arcs \in Seq(Nat)
      <4> HIDE DEF Read
      <4> QED
        BY <3>1 DEF Rooted, Readings
    <3>3. Read(j).open * Base \in Nat
      <4> HIDE DEF Read
      <4> QED
        BY <3>2, OidNumbers, Multiplied
    <3> QED
      BY <3>1, <3>2, <3>3
  <2>6. AreOctets(bytes, c, j + 1)
    BY <1>1, <2>1
  <2>7. Spelled(bytes, c, j + 1) = Spelled(bytes, c, j) * Base + (bytes[c + (j + 1)] % Base)
    BY <1>3, <2>6, SpelledOfMore
  <2> QED
    BY <2>4, <2>5, <2>7
<1>4. ASSUME NEW octet \in Octets PROVE octet % Base = IF octet >= Base THEN octet - Base ELSE octet
  <2>1. octet \in Nat /\ octet < 2 * Base /\ Base \in Nat \ {0}
    BY OidNumbers DEF Octets
  <2>2. CASE octet >= Base
    <3> DEFINE r == octet - Base
    <3>1. r \in 0 .. Base - 1 /\ 1 * Base + r = octet
      BY <2>1, <2>2
    <3> HIDE DEF r
    <3>2. (1 * Base + r) % Base = r
      <4>1. r \in 0 .. Base - 1 /\ Base \in Nat \ {0} /\ 1 \in Nat
        BY <2>1, <3>1
      <4> QED
        BY ONLY <4>1, QuotientIs
    <3> QED
      BY <2>2, <3>1, <3>2 DEF r
  <2>3. CASE ~(octet >= Base)
    <3>1. octet \in 0 .. Base - 1 /\ 0 * Base + octet = octet
      BY <2>1, <2>3
    <3>2. (0 * Base + octet) % Base = octet
      BY <2>1, <3>1, QuotientIs
    <3> QED
      BY <2>3, <3>1, <3>2
  <2> QED
    BY <2>2, <2>3
<1>5. ASSUME NEW j \in Good PROVE j + 1 \in Good
  <2> SUFFICES ASSUME j + 1 < n PROVE Reading(bytes, c + (j + 1)) = Read(j + 1)
    OBVIOUS
  <2> DEFINE octet == bytes[c + (j + 1)]
  <2>1. j \in Nat /\ j < n /\ Reading(bytes, c + j) = Read(j) /\ j + 1 \in 1 .. n - 1 /\ j + 1 \in 1 .. n
    OBVIOUS
  <2> HIDE DEF Good, Read
  <2>2. /\ Reading(bytes, c + (j + 1)) = ReadOctet(Read(j), octet) /\ Rooted(Read(j))
        /\ Spelled(bytes, c, j + 1) = Read(j).open * Base + (octet % Base)
    BY <1>3, <2>1
  <2>3. octet \in Octets /\ octet >= Base
    BY <1>1, <2>1
  <2> HIDE DEF octet
  <2>4. ReadOctet(Read(j), octet) = [arcs |-> Read(j).arcs, open |-> Read(j).open * Base + (octet - Base)]
    BY <2>2, <2>3, ReadOctetAdds
  <2>5. octet % Base = octet - Base
    BY <1>4, <2>3
  <2> QED
    BY <2>2, <2>4, <2>5 DEF Read
<1>6. Good = Nat
  <2> HIDE DEF Good
  <2>1. Good \in SUBSET Nat
    BY DEF Good
  <2> QED
    BY <1>2, <1>5, <2>1, Induction
<1> DEFINE j == n - 1
           octet == bytes[c + n]
<1>7. j \in Nat /\ j < n /\ j + 1 = n /\ n \in 1 .. n
  OBVIOUS
<1>8. Reading(bytes, c + j) = Read(j)
  <2>1. j \in Good
    <3> HIDE DEF j, Good
    <3> QED
      BY <1>6, <1>7
  <2> HIDE DEF j, Read
  <2> QED
    BY <1>7, <2>1
<1> HIDE DEF j, Good, Read
<1>9. /\ Reading(bytes, c + n) = ReadOctet(Read(j), octet) /\ Rooted(Read(j))
      /\ Spelled(bytes, c, n) = Read(j).open * Base + (octet % Base)
  BY <1>3, <1>7, <1>8
<1>10. octet \in Octets /\ ~(octet >= Base)
  <2>1. octet \in Octets
    BY <1>1, <1>7
  <2>2. octet \in Nat /\ Base \in Nat /\ octet < Base
    BY <2>1, OidNumbers
  <2> QED
    BY <2>1, <2>2
<1> HIDE DEF octet
<1>11. ReadOctet(Read(j), octet) = [arcs |-> Append(Read(j).arcs, Read(j).open * Base + octet), open |-> 0]
  BY <1>9, <1>10, ReadOctetAdds
<1>12. octet % Base = octet
  BY <1>4, <1>10
<1> QED
  BY <1>9, <1>11, <1>12 DEF Read

--------------------------------------------------------------------------------
(* The iterator.  Where it stands between two arcs, and what it accepts.   *)
CutAt(bytes, c) ==
  /\ c \in 1 .. Len(bytes) /\ bytes[1] < 3 * (ARC_MAX_SECOND + 1) /\ (c = 1 \/ bytes[c] < Base)
  /\ Reading(bytes, c).arcs \in Seq(Arcs)
WellFormed(bytes) == CutAt(bytes, Len(bytes))

LEMMA OctetsOf ==
  ASSUME NEW bytes \in Seq(Octets)
  PROVE  /\ Len(bytes) \in Nat /\ IsSequence(bytes) /\ \A c \in 0 .. Len(bytes) : HasOctets(bytes, c)
         /\ \A c \in 1 .. Len(bytes) : bytes[c] \in Octets
<1>1. IsSequence(bytes)
  BY OfItsElements
<1> QED
  BY <1>1 DEF HasOctets

LEMMA NothingOpen ==
  ASSUME NEW bytes \in Seq(Octets), NEW c \in 1 .. Len(bytes), c = 1 \/ bytes[c] < Base
  PROVE  Reading(bytes, c).open = 0 /\ Rooted(Reading(bytes, c))
<1>1. c \in Nat \ {0} /\ HasOctets(bytes, c) /\ bytes[c] \in Octets
  BY OctetsOf
<1>2. Rooted(Reading(bytes, c))
  BY <1>1, ReadingRooted
<1>3. CASE c = 1
  <2>1. Reading(bytes, 1).open = 0
    BY <1>1, <1>3, ReadingOfOne
  <2> QED
    BY <1>2, <1>3, <2>1
<1>4. CASE c # 1
  <2> DEFINE n == c - 1
             octet == bytes[c]
  <2>1. n \in Nat \ {0} /\ n + 1 = c
    BY <1>1, <1>4
  <2> HIDE DEF n
  <2>2. HasOctets(bytes, n)
    BY <1>1, <2>1 DEF HasOctets
  <2>3. Reading(bytes, n + 1) = ReadOctet(Reading(bytes, n), bytes[n + 1])
    BY <1>1, <2>1, ReadingOfMore
  <2>4. Rooted(Reading(bytes, n))
    BY <2>1, <2>2, ReadingRooted
  <2>5. octet \in Octets /\ ~(octet >= Base)
    <3>1. octet \in Nat /\ Base \in Nat /\ octet < Base
      BY <1>1, <1>4, OidNumbers
    <3> QED
      BY <1>1, <3>1
  <2>6. Reading(bytes, c) = ReadOctet(Reading(bytes, n), octet)
    BY <2>1, <2>3
  <2> HIDE DEF octet
  <2>7. ReadOctet(Reading(bytes, n), octet)
          = [arcs |-> Append(Reading(bytes, n).arcs, Reading(bytes, n).open * Base + octet), open |-> 0]
    BY <2>4, <2>5, ReadOctetAdds
  <2> QED
    BY <1>2, <2>6, <2>7
<1> QED
  BY <1>3, <1>4

(* From one cut the iterator goes to the next, and where it does not, the  *)
(* octets are no OID.                                                      *)
LEMMA NextBodyIs ==
  ASSUME NEW bytes \in Seq(Octets), NEW c, CutAt(bytes, c), c < Len(bytes)
  PROVE  \/ /\ ~ IsOk(NextBody(bytes, c))
            /\ NextBody(bytes, c).error \in {"ArcTooBig", "Base128"} /\ ~ WellFormed(bytes)
         \/ \E n \in 1 .. Len(bytes) - c :
              /\ NextBody(bytes, c) = Ok(<<Spelled(bytes, c, n), c + n>>)
              /\ CutAt(bytes, c + n)
              /\ Reading(bytes, c + n).arcs = Append(Reading(bytes, c).arcs, Spelled(bytes, c, n))
<1> DEFINE rest == Len(bytes) - c
           closing == {n \in 1 .. rest : bytes[c + n] < Base}
           n == IF closing = {} THEN rest ELSE Min(closing)
           value == Spelled(bytes, c, n)
           last == Len(bytes)
<1>1. last \in Nat /\ c \in 1 .. last /\ c \in Nat \ {0} /\ rest \in Nat \ {0} /\ c + rest = last
      /\ last \in 1 .. last
  BY OctetsOf DEF CutAt
<1>2. NextBody(bytes, c) = IF value > ArcMax THEN Err("ArcTooBig")
                           ELSE IF closing = {} THEN Err("Base128")
                           ELSE Ok(<<value, c + n>>)
  BY <1>1 DEF NextBody
<1>3. closing \subseteq 1 .. rest /\ \A j \in 1 .. rest : j \in closing <=> bytes[c + j] < Base
  OBVIOUS
<1>13. c < last /\ last = Len(bytes)
  OBVIOUS
<1>14. (closing = {} => n = rest) /\ (closing # {} => n = Min(closing))
  OBVIOUS
<1>15. value = Spelled(bytes, c, n)
  OBVIOUS
<1> HIDE DEF closing, rest, last, n, value
<1>16. closing # {} => n \in closing /\ \A j \in closing : n <= j
  <2>1. closing \in SUBSET Nat
    BY <1>1, <1>3
  <2> QED
    BY <1>14, <2>1, MinIs
<1>4. n \in 1 .. rest
  <2>1. rest \in 1 .. rest
    BY <1>1
  <2> QED
    BY <1>3, <1>14, <1>16, <2>1
<1>5. \A j \in 1 .. n - 1 : bytes[c + j] >= Base
  <2> SUFFICES ASSUME NEW j \in 1 .. n - 1 PROVE bytes[c + j] >= Base
    OBVIOUS
  <2>1. j \in 1 .. rest /\ ~(n <= j)
    BY <1>1, <1>4
  <2>2. j \notin closing
    BY <1>16, <2>1
  <2>3. ~(bytes[c + j] < Base)
    BY <1>3, <2>1, <2>2
  <2>4. c + j \in 1 .. last
    BY <1>1, <2>1
  <2>5. bytes[c + j] \in Nat
    BY <1>13, <2>4, OctetsOf, OidNumbers
  <2> QED
    BY <2>3, <2>5, OidNumbers
<1>6. value \in Nat /\ Reading(bytes, c).open = 0 /\ n \in Nat \ {0} /\ HasOctets(bytes, c + n)
      /\ c + n \in 1 .. last
  <2>1. n \in Nat \ {0} /\ c + n \in 1 .. last /\ c + n \in 0 .. last
    BY <1>1, <1>4
  <2>2. HasOctets(bytes, c + n)
    BY <1>13, <2>1, OctetsOf
  <2>3. AreOctets(bytes, c, n)
    <3>1. ASSUME NEW k \in 1 .. n PROVE bytes[c + k] \in Octets
      <4>1. c + k \in 1 .. c + n
        BY <1>1, <2>1
      <4> QED
        BY <2>2, <4>1 DEF HasOctets
    <3> QED
      BY <3>1 DEF AreOctets
  <2>4. value \in Nat
    <3>1. PICK v \in [0 .. n -> Nat] : SpellOut(v, bytes, c, n)
      BY <1>1, <2>1, <2>3, SpelledSteps
    <3> QED
      BY <1>15, <2>1, <3>1 DEF SpellOut
  <2>5. Reading(bytes, c).open = 0
    BY <1>1, <1>13, NothingOpen DEF CutAt
  <2> QED
    BY <2>1, <2>2, <2>4, <2>5
<1> DEFINE Closes == closing # {}
<1>7. Closes => Reading(bytes, c + n) = [arcs |-> Append(Reading(bytes, c).arcs, value), open |-> 0]
                /\ bytes[c + n] < Base
  <2> SUFFICES ASSUME Closes PROVE Reading(bytes, c + n) = [arcs |-> Append(Reading(bytes, c).arcs, value), open |-> 0]
                                   /\ bytes[c + n] < Base
    OBVIOUS
  <2>1. bytes[c + n] < Base
    BY <1>3, <1>4, <1>16
  <2>2. Reading(bytes, c + n) = [arcs |-> Append(Reading(bytes, c).arcs, Spelled(bytes, c, n)), open |-> 0]
    BY <1>1, <1>5, <1>6, <2>1, ReadingOfRun
  <2> QED
    BY <1>15, <2>1, <2>2
<1>8. ~Closes => bytes[last] >= Base
  <2> SUFFICES ASSUME ~Closes PROVE bytes[last] >= Base
    OBVIOUS
  <2>1. rest \in 1 .. rest /\ c + rest = last
    BY <1>1
  <2>2. ~(bytes[last] < Base)
    BY <1>3, <2>1
  <2>3. bytes[last] \in Nat /\ Base \in Nat
    BY <1>1, <1>13, OctetsOf, OidNumbers
  <2> QED
    BY <2>2, <2>3
<1>9. ~Closes => ~ WellFormed(bytes)
  <2> SUFFICES ASSUME ~Closes PROVE ~ WellFormed(bytes)
    OBVIOUS
  <2>1. bytes[last] >= Base
    BY <1>8
  <2>2. bytes[last] \in Nat /\ Base \in Nat
    BY <1>1, <1>13, OctetsOf, OidNumbers
  <2>3. last # 1 /\ ~(bytes[last] < Base)
    BY <1>1, <1>13, <2>1, <2>2
  <2> QED
    BY <1>13, <2>3 DEF WellFormed, CutAt
<1>10. Closes /\ value > ArcMax => ~ WellFormed(bytes)
  <2> SUFFICES ASSUME Closes, value > ArcMax, WellFormed(bytes) PROVE FALSE
    OBVIOUS
  <2> DEFINE whole == Reading(bytes, last).arcs
             part == Reading(bytes, c + n).arcs
             before == Reading(bytes, c).arcs
  <2>1. Extends(whole, part)
    <3>1. last \in Nat /\ HasOctets(bytes, last) /\ c + n \in 1 .. last
      <4>1. last \in 0 .. last
        BY <1>1
      <4> QED
        BY <1>1, <1>6, <1>13, <4>1, OctetsOf
    <3> QED
      BY <3>1, ReadingGrows
  <2>2. part = Append(before, value) /\ before \in Seq(Arcs)
    BY <1>7 DEF CutAt
  <2>3. whole \in Seq(Arcs)
    BY <1>13 DEF WellFormed, CutAt
  <2> HIDE DEF whole, part, before
  <2>4. IsSequence(before)
    BY <2>2, OfItsElements
  <2>5. Len(part) = Len(before) + 1 /\ part[Len(before) + 1] = value /\ Len(before) \in Nat
    BY <2>2, <2>4, AppendFacts, SequenceShape
  <2>6. Len(before) + 1 \in 1 .. Len(part) /\ Len(before) + 1 \in 1 .. Len(whole)
    BY <2>1, <2>3, <2>5 DEF Extends
  <2>7. whole[Len(before) + 1] = value
    BY <2>1, <2>5, <2>6 DEF Extends
  <2>8. value \in Arcs
    BY <2>3, <2>6, <2>7
  <2> QED
    BY <1>6, <2>8, OidNumbers DEF Arcs
<1>11. CASE Closes /\ ~(value > ArcMax)
  <2>1. NextBody(bytes, c) = Ok(<<value, c + n>>)
    BY <1>2, <1>11
  <2>2. Reading(bytes, c + n).arcs = Append(Reading(bytes, c).arcs, value) /\ bytes[c + n] < Base
    BY <1>7, <1>11
  <2>3. value \in Arcs
    BY <1>6, <1>11, OidNumbers DEF Arcs
  <2>4. Append(Reading(bytes, c).arcs, value) \in Seq(Arcs)
    BY <2>3 DEF CutAt
  <2>5. CutAt(bytes, c + n)
    BY <1>6, <1>13, <2>2, <2>4 DEF CutAt
  <2>6. n \in 1 .. Len(bytes) - c
    BY <1>4 DEF rest
  <2> QED
    BY <1>15, <2>1, <2>2, <2>5, <2>6
<1>12. CASE ~Closes \/ value > ArcMax
  <2>1. NextBody(bytes, c) \in {Err("ArcTooBig"), Err("Base128")}
    BY <1>2, <1>12
  <2>2. ~ IsOk(NextBody(bytes, c)) /\ NextBody(bytes, c).error \in {"ArcTooBig", "Base128"}
    BY <2>1 DEF IsOk, Err
  <2> QED
    BY <1>9, <1>10, <1>12, <2>2
<1> QED
  BY <1>11, <1>12

(* Where the iterator can stand after n calls.                             *)
AtStart == [cursor |-> <<>>, arcs |-> <<>>, state |-> "more"]
AtRoot(bytes) == [cursor |-> <<0>>, arcs |-> <<bytes[1] \div (ARC_MAX_SECOND + 1)>>, state |-> "more"]
AtCut(bytes, c) == [cursor |-> <<c>>, arcs |-> Reading(bytes, c).arcs, state |-> "more"]
RootIsGood(bytes) == bytes # <<>> /\ bytes[1] < 3 * (ARC_MAX_SECOND + 1)
Refusals == {"Empty", "ArcInvalid", "ArcTooBig", "Base128"}
Stations == [cursor : Seq(Nat), arcs : Seq(Nat), state : {"more", "done"} \union Refusals]
StandsAt(bytes, n, st) ==
  /\ st \in Stations
  /\ \/ n = 0 /\ st = AtStart
     \/ n = 1 /\ RootIsGood(bytes) /\ st = AtRoot(bytes)
     \/ \E c \in 1 .. Len(bytes) : CutAt(bytes, c) /\ c >= n - 1 /\ st = AtCut(bytes, c)
     \/ WellFormed(bytes) /\ st.state = "done" /\ st.arcs = Meaning(bytes)
     \/ ~ WellFormed(bytes) /\ st.state \in Refusals

LEMMA RootIs ==
  ASSUME NEW octet \in Octets
  PROVE  /\ octet \div (ARC_MAX_SECOND + 1) \in Nat
         /\ octet < 3 * (ARC_MAX_SECOND + 1) =>
              /\ RootArcs(octet) = Ok(<<octet \div (ARC_MAX_SECOND + 1), octet % (ARC_MAX_SECOND + 1)>>)
              /\ octet \div (ARC_MAX_SECOND + 1) \in Arcs /\ octet % (ARC_MAX_SECOND + 1) \in Arcs
         /\ ~(octet < 3 * (ARC_MAX_SECOND + 1)) => RootArcs(octet) = Err("ArcInvalid")
<1> DEFINE w == ARC_MAX_SECOND + 1
           q == octet \div w
           r == octet % w
<1>1. w \in Nat \ {0} /\ octet \in Nat /\ w - 1 <= ArcMax /\ 2 <= ArcMax /\ ArcMax \in Nat
  BY OidNumbers
<1>2. RootArcs(octet) = IF q > 2 THEN Err("ArcInvalid") ELSE Ok(<<q, r>>)
  BY DEF RootArcs, ARC_MAX_FIRST
<1> HIDE DEF w
<1>3. q \in Nat /\ r \in 0 .. w - 1 /\ octet = q * w + r
  BY <1>1, Divided
<1> HIDE DEF q, r
<1>4. q * w \in Nat
  BY <1>1, <1>3, Multiplied
<1>5. q <= 2 => octet < 3 * w
  <2>1. q = 0 \/ q = 1 \/ q = 2 \/ q > 2
    BY <1>3
  <2>2. 0 * w = 0 /\ 1 * w = w /\ 2 * w = w + w /\ 3 * w = w + w + w
    BY <1>1
  <2> QED
    BY <1>1, <1>3, <2>1, <2>2
<1>6. q > 2 => ~(octet < 3 * w)
  <2> SUFFICES ASSUME q > 2 PROVE ~(octet < 3 * w)
    OBVIOUS
  <2> DEFINE d == q - 3
  <2>1. d \in Nat /\ q = d + 3
    BY <1>3
  <2> HIDE DEF d
  <2>2. d * w \in Nat /\ q * w = d * w + 3 * w /\ 3 * w \in Nat
    BY <1>1, <2>1, Multiplied
  <2> QED
    BY <1>1, <1>3, <1>4, <2>2
<1>7. q <= 2 => q \in Arcs /\ r \in Arcs
  BY <1>1, <1>3 DEF Arcs
<1>8. q <= 2 \/ q > 2
  BY <1>3
<1>9. q \in Nat /\ (octet < 3 * w => RootArcs(octet) = Ok(<<q, r>>) /\ q \in Arcs /\ r \in Arcs)
      /\ (~(octet < 3 * w) => RootArcs(octet) = Err("ArcInvalid"))
  BY <1>2, <1>3, <1>5, <1>6, <1>7, <1>8
<1> QED
  BY <1>9 DEF q, r, w

LEMMA FirstCut ==
  ASSUME NEW bytes \in Seq(Octets), RootIsGood(bytes)
  PROVE  CutAt(bytes, 1) /\ AtRoot(bytes) \in Stations
         /\ Reading(bytes, 1).arcs
              = <<bytes[1] \div (ARC_MAX_SECOND + 1), bytes[1] % (ARC_MAX_SECOND + 1)>>
<1>1. Len(bytes) \in Nat /\ Len(bytes) # 0 /\ 1 \in 1 .. Len(bytes) /\ bytes[1] \in Octets /\ HasOctets(bytes, 1)
  BY OctetsOf, SequenceShape DEF RootIsGood
<1> DEFINE q == bytes[1] \div (ARC_MAX_SECOND + 1)
           r == bytes[1] % (ARC_MAX_SECOND + 1)
<1>2. q \in Arcs /\ r \in Arcs /\ bytes[1] < 3 * (ARC_MAX_SECOND + 1)
  BY <1>1, RootIs DEF RootIsGood
<1>3. Reading(bytes, 1).arcs = <<q, r>>
  BY <1>1, ReadingOfOne
<1>5. AtRoot(bytes) = [cursor |-> <<0>>, arcs |-> <<q>>, state |-> "more"]
  BY DEF AtRoot
<1> HIDE DEF q, r
<1>4. <<q, r>> \in Seq(Arcs) /\ <<q>> \in Seq(Nat) /\ <<0>> \in Seq(Nat)
  BY <1>2, OidNumbers
<1>6. CutAt(bytes, 1)
  <2> DEFINE read == Reading(bytes, 1).arcs
  <2>1. read \in Seq(Arcs)
    BY <1>3, <1>4
  <2> HIDE DEF read
  <2>2. Reading(bytes, 1).arcs \in Seq(Arcs)
    BY <2>1 DEF read
  <2> QED
    BY <1>1, <1>2, <2>2 DEF CutAt
<1>7. AtRoot(bytes) \in Stations
  BY <1>4, <1>5 DEF Stations
<1> QED
  BY <1>3, <1>6, <1>7 DEF q, r

LEMMA CutTyped ==
  ASSUME NEW bytes \in Seq(Octets), NEW c, CutAt(bytes, c)
  PROVE  AtCut(bytes, c) \in Stations /\ c \in 1 .. Len(bytes) /\ c \in Nat \ {0}
<1>1. c \in 1 .. Len(bytes) /\ Len(bytes) \in Nat
  BY OctetsOf DEF CutAt
<1>2. c \in Nat \ {0} /\ <<c>> \in Seq(Nat)
  BY <1>1
<1>3. Reading(bytes, c).arcs \in Seq(Nat)
  BY OidNumbers, OfMore DEF CutAt
<1> QED
  BY <1>1, <1>2, <1>3 DEF AtCut, Stations

LEMMA AdvanceStands ==
  ASSUME NEW bytes \in Seq(Octets), NEW n \in Nat, NEW st, StandsAt(bytes, n, st)
  PROVE  StandsAt(bytes, n + 1, Advance(bytes, st))
<1> DEFINE next == Advance(bytes, st)
           call == try_next(bytes, st.cursor)
<1>1. next = IF st.state # "more" THEN st
             ELSE IF ~ IsOk(call) THEN [st EXCEPT !.state = call.error]
             ELSE IF call.value.arc = <<>> THEN [st EXCEPT !.state = "done"]
             ELSE [cursor |-> call.value.cursor, arcs |-> st.arcs \o call.value.arc, state |-> "more"]
  BY DEF Advance
<1>2. st \in Stations /\ st = [cursor |-> st.cursor, arcs |-> st.arcs, state |-> st.state]
  BY DEF StandsAt, Stations
<1> HIDE DEF next, call
<1>3. ASSUME st.state = "more", NEW e \in Refusals, call = Err(e), ~ WellFormed(bytes)
      PROVE  StandsAt(bytes, n + 1, next)
  <2>1. next = [st EXCEPT !.state = e]
    BY <1>1, <1>3 DEF IsOk, Err
  <2>2. next = [cursor |-> st.cursor, arcs |-> st.arcs, state |-> e]
    BY <1>2, <2>1
  <2> QED
    BY <1>2, <1>3, <2>2 DEF StandsAt, Stations
<1>4. ASSUME st.state = "more", NEW a, NEW o, call = Ok([arc |-> <<a>>, cursor |-> <<o>>])
      PROVE  next = [cursor |-> <<o>>, arcs |-> st.arcs \o <<a>>, state |-> "more"]
  BY <1>1, <1>4 DEF IsOk, Ok
<1>5. CASE n = 0 /\ st = AtStart
  <2>1. st.cursor = <<>> /\ st.state = "more" /\ st.arcs = <<>>
    BY <1>5 DEF AtStart
  <2> DEFINE root == IF bytes = <<>> THEN Err("Empty") ELSE RootArcs(bytes[1])
  <2>2. call = IF IsOk(root) THEN Ok([arc |-> <<root.value[1]>>, cursor |-> <<0>>]) ELSE root
    BY <2>1 DEF call, try_next
  <2>3. CASE RootIsGood(bytes)
    <3>1. bytes[1] \in Octets /\ bytes # <<>> /\ bytes[1] < 3 * (ARC_MAX_SECOND + 1)
      BY <2>3, OctetsOf, SequenceShape DEF RootIsGood
    <3> DEFINE q == bytes[1] \div (ARC_MAX_SECOND + 1)
    <3>2. root = Ok(<<q, bytes[1] % (ARC_MAX_SECOND + 1)>>)
      BY <3>1, RootIs
    <3> HIDE DEF q, root
    <3>3. call = Ok([arc |-> <<q>>, cursor |-> <<0>>])
      BY <2>2, <3>2 DEF IsOk, Ok
    <3>4. next = [cursor |-> <<0>>, arcs |-> <<>> \o <<q>>, state |-> "more"]
      BY <1>4, <2>1, <3>3
    <3>5. <<>> \o <<q>> = <<q>>
      <4>1. IsSequence(<<q>>)
        BY DEF IsSequence, Elements
      <4> QED
        BY <4>1, NothingAdded
    <3>6. next = AtRoot(bytes)
      BY <3>4, <3>5 DEF AtRoot, q
    <3>7. n + 1 = 1 /\ AtRoot(bytes) \in Stations
      BY <1>5, <2>3, FirstCut
    <3>8. StandsAt(bytes, n + 1, next)
      BY <2>3, <3>6, <3>7 DEF StandsAt
    <3> QED
      BY <3>8 DEF next
  <2>4. CASE ~ RootIsGood(bytes)
    <3>1. root \in {Err("Empty"), Err("ArcInvalid")} /\ ~ WellFormed(bytes)
      <4>1. CASE bytes = <<>>
        <5>1. Len(bytes) = 0
          BY <4>1
        <5> QED
          BY <4>1, <5>1 DEF WellFormed, CutAt
      <4>2. CASE bytes # <<>>
        <5>1. bytes[1] \in Octets
          BY <4>2, OctetsOf, SequenceShape
        <5> QED
          BY <2>4, <4>2, <5>1, RootIs DEF RootIsGood, WellFormed, CutAt
      <4> QED
        BY <4>1, <4>2
    <3> HIDE DEF root
    <3>2. call \in {Err("Empty"), Err("ArcInvalid")}
      BY <2>2, <3>1 DEF IsOk, Err
    <3>3. StandsAt(bytes, n + 1, next)
      BY <1>3, <2>1, <3>1, <3>2 DEF Refusals
    <3> QED
      BY <3>3 DEF next
  <2> QED
    BY <2>3, <2>4
<1>6. CASE n = 1 /\ RootIsGood(bytes) /\ st = AtRoot(bytes)
  <2> DEFINE q == bytes[1] \div (ARC_MAX_SECOND + 1)
             r == bytes[1] % (ARC_MAX_SECOND + 1)
             root == IF bytes = <<>> THEN Err("Empty") ELSE RootArcs(bytes[1])
  <2>1. st.cursor = <<0>> /\ st.state = "more" /\ st.arcs = <<q>> /\ <<0>> # <<>>
    BY <1>6 DEF AtRoot
  <2>2. call = IF IsOk(root) THEN Ok([arc |-> <<root.value[2]>>, cursor |-> <<1>>]) ELSE root
    BY <2>1 DEF call, try_next
  <2>3. bytes[1] \in Octets /\ bytes # <<>> /\ bytes[1] < 3 * (ARC_MAX_SECOND + 1)
    BY <1>6, OctetsOf, SequenceShape DEF RootIsGood
  <2>4. root = Ok(<<q, r>>)
    BY <2>3, RootIs
  <2>5. Reading(bytes, 1).arcs = <<q, r>> /\ CutAt(bytes, 1)
    BY <1>6, FirstCut
  <2> HIDE DEF q, r, root
  <2>6. call = Ok([arc |-> <<r>>, cursor |-> <<1>>])
    BY <2>2, <2>4 DEF IsOk, Ok
  <2>7. next = [cursor |-> <<1>>, arcs |-> <<q>> \o <<r>>, state |-> "more"]
    BY <1>4, <2>1, <2>6
  <2>8. <<q>> \o <<r>> = <<q, r>>
    <3>1. IsSequence(<<q>>) /\ IsSequence(<<r>>) /\ IsSequence(<<q, r>>)
      BY DEF IsSequence, Elements
    <3>2. IsSequence(<<q>> \o <<r>>) /\ Len(<<q>> \o <<r>>) = 2
          /\ (<<q>> \o <<r>>)[1] = q /\ (<<q>> \o <<r>>)[2] = r
      BY <3>1, ConcatFacts
    <3> DEFINE s == <<q>> \o <<r>>
               t == <<q, r>>
    <3>3. Len(t) = 2 /\ t[1] = q /\ t[2] = r /\ IsSequence(s) /\ IsSequence(t) /\ Len(s) = 2 /\ s[1] = q /\ s[2] = r
      BY <3>1, <3>2
    <3> HIDE DEF s, t
    <3>4. \A i \in 1 .. 2 : s[i] = t[i]
      BY <3>3
    <3>5. s = t
      BY <3>3, <3>4, SequencesEqual
    <3> QED
      BY <3>5 DEF s, t
  <2>9. next = AtCut(bytes, 1)
    BY <2>5, <2>7, <2>8 DEF AtCut
  <2>10. AtCut(bytes, 1) \in Stations /\ 1 \in 1 .. Len(bytes) /\ 1 >= n + 1 - 1
    BY <1>6, <2>5, CutTyped
  <2>11. StandsAt(bytes, n + 1, next)
    BY <2>5, <2>9, <2>10 DEF StandsAt
  <2> QED
    BY <2>11 DEF next
<1>7. CASE \E c \in 1 .. Len(bytes) : CutAt(bytes, c) /\ c >= n - 1 /\ st = AtCut(bytes, c)
  <2>1. PICK c \in 1 .. Len(bytes) : CutAt(bytes, c) /\ c >= n - 1 /\ st = AtCut(bytes, c)
    BY <1>7
  <2>2. st.cursor = <<c>> /\ st.state = "more" /\ st.arcs = Reading(bytes, c).arcs /\ c \in Nat \ {0}
        /\ <<c>> # <<>> /\ <<c>> # <<0>> /\ <<c>>[1] = c
    BY <2>1 DEF AtCut
  <2> DEFINE body == NextBody(bytes, c)
  <2>3. call = IF ~ IsOk(body) THEN body
               ELSE IF body.value = <<>> THEN Ok([arc |-> <<>>, cursor |-> <<c>>])
               ELSE Ok([arc |-> <<body.value[1]>>, cursor |-> <<body.value[2]>>])
    BY <2>2 DEF call, try_next
  <2>4. CASE c < Len(bytes) /\ ~ IsOk(body)
    <3>1. body.error \in Refusals /\ ~ WellFormed(bytes)
      BY <2>1, <2>4, NextBodyIs DEF Refusals, IsOk, Ok
    <3>2. body = Err(body.error)
      <4>1. IsOk(body) \/ body \in {Err("ArcTooBig"), Err("Base128")}
        BY DEF NextBody, IsOk, Ok
      <4> HIDE DEF body
      <4> QED
        BY <2>4, <4>1 DEF Err
    <3>3. StandsAt(bytes, n + 1, next)
      BY <1>3, <2>2, <2>3, <2>4, <3>1, <3>2
    <3> QED
      BY <3>3 DEF next
  <2>5. CASE c < Len(bytes) /\ IsOk(body)
    <3>1. PICK k \in 1 .. Len(bytes) - c :
            /\ body = Ok(<<Spelled(bytes, c, k), c + k>>) /\ CutAt(bytes, c + k)
            /\ Reading(bytes, c + k).arcs = Append(Reading(bytes, c).arcs, Spelled(bytes, c, k))
      BY <2>1, <2>5, NextBodyIs
    <3> DEFINE v == Spelled(bytes, c, k)
               o == c + k
    <3>2. o \in 1 .. Len(bytes) /\ o >= n + 1 - 1
      BY <2>1, OctetsOf
    <3>3. body = Ok(<<v, o>>) /\ CutAt(bytes, o) /\ Reading(bytes, o).arcs = Append(Reading(bytes, c).arcs, v)
      BY <3>1
    <3> HIDE DEF v, o, body
    <3>4. call = Ok([arc |-> <<v>>, cursor |-> <<o>>])
      <4>1. IsOk(body) /\ body.value = <<v, o>> /\ <<v, o>> # <<>>
        BY <3>3 DEF IsOk, Ok
      <4> QED
        BY <2>3, <4>1
    <3>5. next = [cursor |-> <<o>>, arcs |-> st.arcs \o <<v>>, state |-> "more"]
      BY <1>4, <2>2, <3>4
    <3>6. st.arcs \o <<v>> = Append(st.arcs, v)
      <4>1. st.arcs \in Seq(Nat)
        BY <1>2 DEF Stations
      <4> QED
        BY <4>1
    <3>7. next = AtCut(bytes, o)
      BY <2>2, <3>3, <3>5, <3>6 DEF AtCut
    <3>8. AtCut(bytes, o) \in Stations
      BY <3>3, CutTyped
    <3>9. StandsAt(bytes, n + 1, next)
      BY <3>2, <3>3, <3>7, <3>8 DEF StandsAt
    <3> QED
      BY <3>9 DEF next
  <2>6. CASE ~(c < Len(bytes))
    <3>1. c = Len(bytes)
      BY <2>6, OctetsOf
    <3>2. body = Ok(<<>>)
      <4>1. Len(bytes) - c = 0
        BY <3>1, OctetsOf
      <4> QED
        BY <4>1 DEF NextBody
    <3> HIDE DEF body
    <3>3. call = Ok([arc |-> <<>>, cursor |-> <<c>>])
      BY <2>3, <3>2 DEF IsOk, Ok
    <3>4. next = [st EXCEPT !.state = "done"]
      BY <1>1, <2>2, <3>3 DEF IsOk, Ok
    <3>5. next = [cursor |-> st.cursor, arcs |-> st.arcs, state |-> "done"]
      BY <1>2, <3>4
    <3>6. WellFormed(bytes) /\ st.arcs = Meaning(bytes)
      BY <2>1, <2>2, <3>1 DEF WellFormed, Meaning
    <3>7. StandsAt(bytes, n + 1, next)
      BY <1>2, <3>5, <3>6 DEF StandsAt, Stations
    <3> QED
      BY <3>7 DEF next
  <2> QED
    BY <2>4, <2>5, <2>6
<1>8. CASE st.state # "more"
  <2>1. next = st
    BY <1>1, <1>8
  <2>2. ~(st = AtStart) /\ ~(st = AtRoot(bytes)) /\ \A c : ~(st = AtCut(bytes, c))
    BY <1>8 DEF AtStart, AtRoot, AtCut
  <2>3. StandsAt(bytes, n + 1, next)
    BY <2>1, <2>2 DEF StandsAt
  <2> QED
    BY <2>3 DEF next
<1> QED
  BY <1>5, <1>6, <1>7, <1>8 DEF StandsAt, Refusals

Reached(bytes) == {st \in Stations : \E n \in Nat : StandsAt(bytes, n, st)}

LEMMA ReachedOn ==
  ASSUME NEW bytes \in Seq(Octets)
  PROVE  AtStart \in Reached(bytes) /\ StandsAt(bytes, 0, AtStart)
         /\ \A st \in Reached(bytes) : Advance(bytes, st) \in Reached(bytes)
<1>1. <<>> \in Seq(Nat)
  OBVIOUS
<1>2. AtStart \in Stations
  BY <1>1 DEF AtStart, Stations
<1>3. StandsAt(bytes, 0, AtStart)
  BY <1>2 DEF StandsAt
<1>4. AtStart \in Reached(bytes)
  BY <1>2, <1>3 DEF Reached
<1>5. ASSUME NEW st \in Reached(bytes) PROVE Advance(bytes, st) \in Reached(bytes)
  <2>1. PICK n \in Nat : StandsAt(bytes, n, st)
    BY DEF Reached
  <2> DEFINE m == n + 1
             next == Advance(bytes, st)
  <2>2. m \in Nat /\ StandsAt(bytes, m, next)
    BY <2>1, AdvanceStands
  <2> HIDE DEF m, next
  <2>3. next \in Stations
    BY <2>2 DEF StandsAt
  <2>4. next \in Reached(bytes)
    BY <2>2, <2>3 DEF Reached
  <2> QED
    BY <2>4 DEF next
<1> QED
  BY <1>3, <1>4, <1>5

Iterates(f, bytes, n) ==
  /\ f[0] = AtStart /\ Iterate(bytes, n) = f[n]
  /\ \A k \in 1 .. n : f[k] = Advance(bytes, f[k - 1])

LEMMA IteratesSteps ==
  ASSUME NEW bytes \in Seq(Octets), NEW n \in Nat
  PROVE  \E f \in [0 .. n -> Reached(bytes)] : Iterates(f, bytes, n)
<1> DEFINE last == n
           step == [k \in 1 .. last |-> [v \in Reached(bytes) |-> Advance(bytes, v)]]
           Has(f) == f = [k \in 0 .. last |-> IF k = 0 THEN AtStart ELSE Advance(bytes, f[k - 1])]
           p == CHOOSE f : Has(f)
<1>1. last \in Nat /\ AtStart \in Reached(bytes) /\ step \in [1 .. last -> [Reached(bytes) -> Reached(bytes)]]
  <2>1. \A st \in Reached(bytes) : Advance(bytes, st) \in Reached(bytes)
    BY ReachedOn
  <2> QED
    BY <2>1, ReachedOn
<1>2. \A k \in 1 .. last : \A v \in Reached(bytes) : step[k][v] = Advance(bytes, v)
  OBVIOUS
<1>3. Iterate(bytes, n) = p[last]
  BY DEF Iterate, AtStart
<1> HIDE DEF step, last
<1>4. PICK f \in [0 .. last -> Reached(bytes)] : Unfolds(f, AtStart, step, last)
  BY <1>1, Recursion
<1>5. f[0] = AtStart /\ \A k \in 1 .. last : f[k] = Advance(bytes, f[k - 1])
  <2>1. \A k \in 1 .. last : f[k - 1] \in Reached(bytes)
    BY <1>1, <1>4
  <2> QED
    BY <1>2, <1>4, <2>1 DEF Unfolds
<1>6. Has(f)
  <2>1. \A k \in 0 .. last : f[k] = IF k = 0 THEN AtStart ELSE Advance(bytes, f[k - 1])
    BY <1>1, <1>4, <1>5
  <2> QED
    BY <1>4, <2>1
<1>7. Has(p)
  <2> HIDE DEF Has
  <2> QED
    BY <1>6
<1>8. p[0] = AtStart /\ \A k \in 1 .. last : p[k] = Advance(bytes, p[k - 1])
  <2> HIDE DEF p
  <2>1. \A k \in 0 .. last : p[k] = IF k = 0 THEN AtStart ELSE Advance(bytes, p[k - 1])
    BY <1>7
  <2>2. 0 \in 0 .. last /\ \A k \in 1 .. last : k \in 0 .. last /\ k # 0
    BY <1>1
  <2> QED
    BY <2>1, <2>2
<1> HIDE DEF p
<1>9. \A k \in 0 .. last : p[k] = f[k]
  <2>1. GoWith(p, f, last)
    BY <1>5, <1>8 DEF GoWith
  <2> QED
    BY <1>1, <2>1, SameSteps
<1>10. p \in [0 .. last -> Reached(bytes)]
  <2> HIDE DEF Has
  <2>1. p = [k \in 0 .. last |-> p[k]]
    BY <1>7 DEF Has
  <2> QED
    BY <1>4, <1>9, <2>1
<1> QED
  BY <1>3, <1>8, <1>10 DEF Iterates, last

(* What the iterator yields, and what makes it refuse.                     *)
LEMMA ArcsOfIs ==
  ASSUME NEW bytes \in Seq(Octets)
  PROVE  /\ WellFormed(bytes) => ArcsOf(bytes) = Ok(Meaning(bytes))
         /\ ~ WellFormed(bytes) => ~ IsOk(ArcsOf(bytes))
<1> DEFINE n == Len(bytes) + 2
           last == Iterate(bytes, n)
           Good(f) == {k \in Nat : k <= n => StandsAt(bytes, k, f[k])}
<1>1. n \in Nat /\ Len(bytes) \in Nat
  BY OctetsOf
<1>2. PICK f \in [0 .. n -> Reached(bytes)] : Iterates(f, bytes, n)
  BY <1>1, IteratesSteps
<1>3. 0 \in Good(f)
  BY <1>2, ReachedOn DEF Iterates
<1>4. ASSUME NEW k \in Good(f) PROVE k + 1 \in Good(f)
  <2> DEFINE m == k + 1
  <2> SUFFICES ASSUME m <= n PROVE StandsAt(bytes, m, f[m])
    OBVIOUS
  <2>1. m \in 1 .. n /\ m - 1 = k /\ k \in Nat /\ StandsAt(bytes, k, f[k])
    BY <1>1
  <2>2. f[m] = Advance(bytes, f[k])
    <3> HIDE DEF m, Good
    <3> QED
      BY <1>2, <2>1 DEF Iterates
  <2>3. StandsAt(bytes, k + 1, Advance(bytes, f[k]))
    <3> HIDE DEF m, Good
    <3> QED
      BY <2>1, AdvanceStands
  <2> QED
    BY <2>2, <2>3
<1>5. Good(f) = Nat
  <2> HIDE DEF Good
  <2>1. Good(f) \in SUBSET Nat
    BY DEF Good
  <2> QED
    BY <1>3, <1>4, <2>1, Induction
<1>6. StandsAt(bytes, n, last)
  <2>1. n \in Good(f)
    <3> HIDE DEF Good, n
    <3> QED
      BY <1>1, <1>5
  <2>2. StandsAt(bytes, n, f[n])
    <3> HIDE DEF n
    <3> QED
      BY <1>1, <2>1
  <2> QED
    BY <1>2, <2>2 DEF Iterates
<1>7. ArcsOf(bytes) = IF last.state = "done" THEN Ok(last.arcs) ELSE Err(last.state)
  BY DEF ArcsOf
<1> HIDE DEF last
<1>8. \/ WellFormed(bytes) /\ last.state = "done" /\ last.arcs = Meaning(bytes)
      \/ ~ WellFormed(bytes) /\ last.state \in Refusals
  <2>1. n # 0 /\ n # 1 /\ \A c \in 1 .. Len(bytes) : ~(c >= n - 1)
    BY <1>1
  <2> HIDE DEF n
  <2> QED
    BY <1>6, <2>1 DEF StandsAt
<1> QED
  BY <1>7, <1>8 DEF IsOk, Ok, Err, Refusals

--------------------------------------------------------------------------------
(* The encoder.  What writing an arc of n octets leaves in the array.      *)
Arrays == [1 .. MaxSize -> Octets]
Writes(b, e, a, n) ==
  /\ \A i \in 1 .. e.cursor : b[i] = e.bytes[i]
  /\ \A i \in e.cursor + n + 1 .. MaxSize : b[i] = e.bytes[i]
  /\ \A j \in 1 .. n - 1 : b[e.cursor + j] >= Base
  /\ b[e.cursor + n] < Base /\ Spelled(b, e.cursor, n) = a

LEMMA EncoderIs ==
  ASSUME NEW e \in Encoders
  PROVE  /\ e = encoder(e.state, e.first, e.bytes, e.cursor)
         /\ e.state \in {"Initial", "FirstArc", "Body"} /\ e.first \in 0 .. 2 /\ e.bytes \in Arrays
         /\ e.cursor \in 0 .. MaxSize /\ e.cursor \in Nat
  BY OidNumbers DEF Encoders, encoder, Arrays

LEMMA BodyWrites ==
  ASSUME NEW e \in Encoders, NEW a \in Arcs, NEW n, n = base128_len(a)
  PROVE  /\ n \in 1 .. ArcBytes /\ n \in Nat \ {0}
         /\ e.cursor + n > MaxSize => encode_base128(e, a) = Err("Length")
         /\ ~(e.cursor + n > MaxSize) =>
              \E b \in Arrays : Writes(b, e, a, n)
                                /\ encode_base128(e, a) = Ok(encoder(e.state, e.first, b, e.cursor + n))
<1>1. a \in Nat /\ n \in 1 .. ArcBytes /\ n \in Nat \ {0} /\ a < Power(n)
  BY OidNumbers, LengthOfArc
<1> DEFINE c == e.cursor
           b == [i \in 1 .. MaxSize |-> IF i \in c + 1 .. c + n THEN base128_byte(a, i - c - 1, n) ELSE e.bytes[i]]
<1>2. encode_base128(e, a) = IF c + n > MaxSize THEN Err("Length") ELSE Ok(encoder(e.state, e.first, b, c + n))
  BY DEF encode_base128
<1>3. c \in 0 .. MaxSize /\ c \in Nat /\ MaxSize \in Nat /\ e.bytes \in Arrays
  BY EncoderIs, OidNumbers
<1> HIDE DEF c
<1>4. ASSUME ~(c + n > MaxSize) PROVE b \in Arrays /\ Writes(b, e, a, n)
  <2>1. /\ \A i \in 1 .. MaxSize : b[i] = IF i \in c + 1 .. c + n THEN base128_byte(a, i - c - 1, n) ELSE e.bytes[i]
        /\ DOMAIN b = 1 .. MaxSize /\ b = [i \in 1 .. MaxSize |-> b[i]]
    OBVIOUS
  <2> HIDE DEF b
  <2>2. ASSUME NEW j \in 1 .. n PROVE b[c + j] = base128_byte(a, j - 1, n)
    <3> DEFINE i == c + j
    <3>1. i \in 1 .. MaxSize /\ i \in c + 1 .. c + n /\ i - c - 1 = j - 1
      BY <1>1, <1>3, <1>4
    <3> HIDE DEF i
    <3>2. b[i] = base128_byte(a, j - 1, n)
      BY <2>1, <3>1
    <3> QED
      BY <3>2 DEF i
  <2>3. ASSUME NEW i \in 1 .. MaxSize PROVE b[i] \in Octets
    <3>1. CASE i \in c + 1 .. c + n
      <4> DEFINE j == i - c
      <4>1. j \in 1 .. n /\ c + j = i
        BY <1>1, <1>3, <3>1
      <4> HIDE DEF j
      <4>2. b[c + j] = base128_byte(a, j - 1, n) /\ base128_byte(a, j - 1, n) \in Octets
        BY <1>1, <2>2, <4>1, OctetOfArc
      <4> QED
        BY <4>1, <4>2
    <3>2. CASE ~(i \in c + 1 .. c + n)
      BY <1>3, <2>1, <3>2 DEF Arrays
    <3> QED
      BY <3>1, <3>2
  <2>4. b \in Arrays
    BY <2>1, <2>3 DEF Arrays
  <2>5. \A i \in 1 .. c : b[i] = e.bytes[i]
    BY <1>3, <2>1
  <2>6. \A i \in c + n + 1 .. MaxSize : b[i] = e.bytes[i]
    BY <1>1, <1>3, <2>1
  <2>7. ASSUME NEW j \in 1 .. n - 1 PROVE b[c + j] >= Base
    <3>1. j \in 1 .. n /\ j # n
      BY <1>1
    <3>2. b[c + j] = base128_byte(a, j - 1, n) /\ base128_byte(a, j - 1, n) \in Octets
          /\ ~(base128_byte(a, j - 1, n) < Base)
      BY <1>1, <2>2, <3>1, OctetOfArc
    <3>3. base128_byte(a, j - 1, n) \in Nat /\ Base \in Nat
      BY <3>2, OidNumbers
    <3> QED
      BY <3>2, <3>3
  <2>8. b[c + n] < Base
    <3>1. n \in 1 .. n
      BY <1>1
    <3> QED
      BY <1>1, <2>2, <3>1, OctetOfArc
  <2>9. Spelled(b, c, n) = a
    BY <1>1, <1>3, <2>2, SpelledBack
  <2> QED
    BY <2>4, <2>5, <2>6, <2>7, <2>8, <2>9 DEF Writes, c
<1> HIDE DEF b
<1>5. e.cursor = c
  BY DEF c
<1> QED
  BY <1>1, <1>2, <1>4, <1>5

(* What an encoder holds after the arcs s: nothing, the first root arc, or *)
(* octets that mean s; and nothing lies behind its cursor.                 *)
Nothing == [i \in 1 .. MaxSize |-> 0]
Closed(b, c) == c \in 1 .. MaxSize /\ b[1] < 3 * (ARC_MAX_SECOND + 1) /\ (c = 1 \/ b[c] < Base)
InBody(e, s) ==
  /\ e \in Encoders /\ e.state = "Body" /\ e.first = 0 /\ Closed(e.bytes, e.cursor)
  /\ Reading(e.bytes, e.cursor) = [arcs |-> s, open |-> 0]
  /\ \A i \in e.cursor + 1 .. MaxSize : e.bytes[i] = 0
Encodes(e, s) ==
  /\ s \in Seq(Arcs)
  /\ \/ Len(s) = 0 /\ e = NewEncoder
     \/ Len(s) = 1 /\ e = encoder("FirstArc", s[1], Nothing, 0) /\ s[1] \in 0 .. 2
     \/ Len(s) >= 2 /\ InBody(e, s)

LEMMA ArraysHaveOctets ==
  ASSUME NEW b \in Arrays, NEW c \in 0 .. MaxSize
  PROVE  HasOctets(b, c) /\ c \in Nat
<1>1. c \in Nat /\ \A k \in 1 .. c : k \in 1 .. MaxSize
  BY OidNumbers
<1> QED
  BY <1>1 DEF HasOctets, Arrays

LEMMA ArcInBody ==
  ASSUME NEW s \in Seq(Arcs), NEW e, InBody(e, s), NEW a \in Arcs
  PROVE  /\ arc(e, a) = encode_base128(e, a)
         /\ IsOk(arc(e, a)) =>
              arc(e, a) = Ok(arc(e, a).value) /\ InBody(arc(e, a).value, Append(s, a))
<1> DEFINE n == base128_len(a)
           c == e.cursor
<1>1. e \in Encoders /\ e.state = "Body" /\ e.first = 0 /\ Closed(e.bytes, c)
      /\ Reading(e.bytes, c) = [arcs |-> s, open |-> 0] /\ \A i \in c + 1 .. MaxSize : e.bytes[i] = 0
  BY DEF InBody
<1>2. arc(e, a) = encode_base128(e, a)
  BY <1>1 DEF arc
<1>3. c \in 0 .. MaxSize /\ c \in Nat \ {0} /\ MaxSize \in Nat /\ e.bytes \in Arrays
  BY <1>1, EncoderIs, OidNumbers DEF Closed
<1>4. /\ n \in Nat \ {0}
      /\ c + n > MaxSize => encode_base128(e, a) = Err("Length")
      /\ ~(c + n > MaxSize) => \E b \in Arrays : Writes(b, e, a, n)
                                 /\ encode_base128(e, a) = Ok(encoder(e.state, e.first, b, c + n))
  BY <1>1, BodyWrites
<1> HIDE DEF n
<1>5. ASSUME IsOk(arc(e, a)) PROVE arc(e, a) = Ok(arc(e, a).value) /\ InBody(arc(e, a).value, Append(s, a))
  <2>1. ~(c + n > MaxSize)
    BY <1>2, <1>4, <1>5 DEF IsOk, Err
  <2>2. PICK b \in Arrays : Writes(b, e, a, n) /\ encode_base128(e, a) = Ok(encoder(e.state, e.first, b, c + n))
    BY <1>4, <2>1
  <2> DEFINE d == c + n
             f == encoder("Body", 0, b, d)
  <2>3. arc(e, a) = Ok(f) /\ arc(e, a).value = f
    BY <1>1, <1>2, <2>2 DEF Ok
  <2>4. d \in 1 .. MaxSize /\ d \in Nat \ {0} /\ d \in 0 .. MaxSize
    BY <1>3, <1>4, <2>1
  <2>5. HasOctets(b, d)
    <3> HIDE DEF d
    <3> QED
      BY <2>4, ArraysHaveOctets
  <2>6. Reading(b, c) = Reading(e.bytes, c)
    BY <1>3, <2>2, ArraysHaveOctets, ReadingSame DEF Writes
  <2>7. Reading(b, c) = [arcs |-> s, open |-> 0]
    BY <1>1, <2>6
  <2>8. Reading(b, d) = [arcs |-> Append(s, a), open |-> 0]
    <3>1. Reading(b, c).open = 0 /\ Reading(b, c).arcs = s
      BY <2>7
    <3>2. /\ \A j \in 1 .. n - 1 : b[c + j] >= Base
          /\ b[c + n] < Base /\ Spelled(b, c, n) = a
      BY <2>2 DEF Writes
    <3> HIDE DEF c
    <3>3. Reading(b, c + n) = [arcs |-> Append(Reading(b, c).arcs, Spelled(b, c, n)), open |-> 0]
      BY <1>3, <1>4, <2>5, <3>1, <3>2, ReadingOfRun
    <3> QED
      BY <3>1, <3>2, <3>3
  <2>9. Closed(b, d)
    <3>1. b[1] = e.bytes[1]
      BY <1>3, <2>2 DEF Writes
    <3> QED
      BY <1>1, <2>2, <2>4, <3>1 DEF Closed, Writes
  <2>10. \A i \in d + 1 .. MaxSize : b[i] = 0
    <3>1. ASSUME NEW i \in d + 1 .. MaxSize PROVE b[i] = 0
      <4>1. i \in c + 1 .. MaxSize
        BY <1>3, <1>4
      <4> QED
        BY <1>1, <2>2, <4>1 DEF Writes
    <3> QED
      BY <3>1
  <2> HIDE DEF d
  <2>11. f \in Encoders /\ f.state = "Body" /\ f.first = 0 /\ f.bytes = b /\ f.cursor = d
    BY <2>4, OidNumbers DEF encoder, Encoders, Arrays
  <2> HIDE DEF f
  <2>12. InBody(f, Append(s, a))
    BY <2>8, <2>9, <2>10, <2>11 DEF InBody
  <2> QED
    BY <2>3, <2>12
<1> QED
  BY <1>2, <1>5

(* The root octet is its two arcs.                                         *)
LEMMA RootOctet ==
  ASSUME NEW q \in 0 .. 2, NEW r \in 0 .. ARC_MAX_SECOND
  PROVE  LET octet == (ARC_MAX_SECOND + 1) * q + r IN
         /\ octet \in Octets /\ octet < 3 * (ARC_MAX_SECOND + 1)
         /\ octet \div (ARC_MAX_SECOND + 1) = q /\ octet % (ARC_MAX_SECOND + 1) = r
<1> DEFINE w == ARC_MAX_SECOND + 1
           octet == w * q + r
<1>1. w \in Nat \ {0} /\ q \in Nat /\ r \in 0 .. w - 1 /\ 3 * w <= Base /\ Base \in Nat
  BY OidNumbers
<1> HIDE DEF w
<1>2. (q * w + r) \div w = q /\ (q * w + r) % w = r
  BY <1>1, QuotientIs
<1>3. w * q = q * w /\ q * w \in Nat /\ octet = q * w + r
  BY <1>1, Multiplied
<1>4. q * w <= 2 * w
  <2>1. q = 0 \/ q = 1 \/ q = 2
    OBVIOUS
  <2>2. 0 * w = 0 /\ 1 * w = w /\ 2 * w = w + w
    BY <1>1
  <2> QED
    BY <1>1, <2>1, <2>2
<1>5. octet < 3 * w /\ octet \in Nat
  <2>1. 2 * w = w + w /\ 3 * w = w + w + w
    BY <1>1
  <2> QED
    BY <1>1, <1>3, <1>4, <2>1
<1>6. octet \in Octets
  <2> HIDE DEF octet
  <2>1. 3 * w \in Nat
    BY <1>1
  <2> QED
    BY <1>1, <1>5, <2>1 DEF Octets
<1>7. octet \div w = q /\ octet % w = r
  BY <1>2, <1>3
<1> QED
  BY <1>5, <1>6, <1>7 DEF octet, w

LEMMA ArcAtRoot ==
  ASSUME NEW q \in 0 .. 2, NEW a \in Arcs
  PROVE  LET e == encoder("FirstArc", q, Nothing, 0) IN
         /\ IsOk(arc(e, a)) => arc(e, a) = Ok(arc(e, a).value) /\ InBody(arc(e, a).value, <<q, a>>)
         /\ IsOk(arc(e, a)) <=> a <= ARC_MAX_SECOND
<1> DEFINE e == encoder("FirstArc", q, Nothing, 0)
           octet == (ARC_MAX_SECOND + 1) * q + a
           b == [Nothing EXCEPT ![1] = octet]
           f == encoder("Body", 0, b, 1)
<1>1. e.state = "FirstArc" /\ e.first = q /\ e.bytes = Nothing
  BY DEF encoder
<1>2. arc(e, a) = IF a > ARC_MAX_SECOND THEN Err("ArcInvalid") ELSE Ok(f)
  BY <1>1 DEF arc
<1> HIDE DEF e
<1>3. a \in Nat /\ ARC_MAX_SECOND \in Nat /\ MaxSize \in Nat \ {0} /\ 0 \in Octets /\ 1 \in 1 .. MaxSize
  BY OidNumbers DEF Octets
<1>4. ASSUME ~(a > ARC_MAX_SECOND) PROVE InBody(f, <<q, a>>)
  <2>1. a \in 0 .. ARC_MAX_SECOND
    BY <1>3, <1>4
  <2>2. octet \in Octets /\ octet < 3 * (ARC_MAX_SECOND + 1)
        /\ octet \div (ARC_MAX_SECOND + 1) = q /\ octet % (ARC_MAX_SECOND + 1) = a
    BY <2>1, RootOctet
  <2> HIDE DEF octet
  <2>3. b \in Arrays /\ b[1] = octet /\ \A i \in 2 .. MaxSize : b[i] = 0
    BY <1>3, <2>2 DEF Arrays, Nothing
  <2> HIDE DEF b
  <2>4. HasOctets(b, 1)
    BY <1>3, <2>3, ArraysHaveOctets
  <2>5. Reading(b, 1) = [arcs |-> <<q, a>>, open |-> 0]
    BY <2>2, <2>3, <2>4, ReadingOfOne
  <2>6. f \in Encoders /\ f.state = "Body" /\ f.first = 0 /\ f.bytes = b /\ f.cursor = 1
    BY <1>3, <2>3, OidNumbers DEF encoder, Encoders, Arrays
  <2>7. Closed(b, 1)
    BY <1>3, <2>2, <2>3 DEF Closed
  <2>8. 1 + 1 = 2
    OBVIOUS
  <2> HIDE DEF f
  <2> QED
    BY <2>3, <2>5, <2>6, <2>7, <2>8 DEF InBody
<1> HIDE DEF f
<1>5. IsOk(arc(e, a)) <=> ~(a > ARC_MAX_SECOND)
  BY <1>2 DEF IsOk, Ok, Err
<1>6. ASSUME IsOk(arc(e, a)) PROVE arc(e, a) = Ok(arc(e, a).value) /\ InBody(arc(e, a).value, <<q, a>>)
  <2>1. arc(e, a) = Ok(f)
    BY <1>2, <1>5, <1>6
  <2> QED
    BY <1>4, <1>5, <1>6, <2>1 DEF Ok
<1>7. ~(a > ARC_MAX_SECOND) <=> a <= ARC_MAX_SECOND
  BY <1>3
<1> QED
  BY <1>5, <1>6, <1>7 DEF e

LEMMA NothingIs ==
  NewEncoder \in Encoders /\ NewEncoder = encoder("Initial", 0, Nothing, 0) /\ Nothing \in Arrays
<1>1. 0 \in Octets /\ MaxSize \in Nat
  BY OidNumbers DEF Octets
<1> QED
  BY <1>1 DEF NewEncoder, Nothing, Arrays, Encoders, encoder, ARC_MAX_FIRST

LEMMA ArcEncodes ==
  ASSUME NEW s, NEW e, Encodes(e, s), NEW a \in Arcs
  PROVE  /\ e \in Encoders
         /\ IsOk(arc(e, a)) => arc(e, a) = Ok(arc(e, a).value) /\ Encodes(arc(e, a).value, Append(s, a))
<1> DEFINE t == Append(s, a)
<1>1. s \in Seq(Arcs) /\ t \in Seq(Arcs) /\ Len(t) = Len(s) + 1 /\ Len(s) \in Nat /\ t[Len(s) + 1] = a
  BY DEF Encodes
<1>2. CASE Len(s) = 0 /\ e = NewEncoder
  <2> DEFINE f == encoder("FirstArc", a, Nothing, 0)
  <2>1. arc(e, a) = IF a > 2 THEN Err("ArcInvalid") ELSE Ok(f)
    BY <1>2, NothingIs DEF arc, encoder, ARC_MAX_FIRST
  <2>2. t[1] = a /\ Len(t) = 1 /\ a \in Nat
    BY <1>1, <1>2, OidNumbers
  <2> HIDE DEF t
  <2>3. ASSUME IsOk(arc(e, a)) PROVE arc(e, a) = Ok(f) /\ a \in 0 .. 2
    BY <2>1, <2>2, <2>3 DEF IsOk, Err
  <2>4. ASSUME a \in 0 .. 2 PROVE Encodes(f, t)
    BY <1>1, <2>2, <2>4 DEF Encodes
  <2> HIDE DEF f
  <2>5. IsOk(arc(e, a)) => arc(e, a) = Ok(arc(e, a).value) /\ Encodes(arc(e, a).value, t)
    BY <2>3, <2>4 DEF Ok
  <2> QED
    BY <1>2, <2>5, NothingIs DEF t
<1>3. CASE Len(s) = 1 /\ e = encoder("FirstArc", s[1], Nothing, 0) /\ s[1] \in 0 .. 2
  <2> DEFINE q == s[1]
  <2>1. t = <<q, a>>
    <3>1. IsSequence(s) /\ IsSequence(<<q, a>>)
      BY <1>1, OfItsElements DEF IsSequence, Elements
    <3>2. IsSequence(t) /\ Len(t) = 2 /\ t[1] = q /\ t[2] = a
      BY <1>1, <1>3, <3>1, AppendFacts
    <3> DEFINE u == <<q, a>>
    <3>3. IsSequence(u) /\ Len(u) = 2 /\ u[1] = q /\ u[2] = a
      BY <3>1
    <3> HIDE DEF t, u
    <3>4. \A i \in 1 .. 2 : t[i] = u[i]
      BY <3>2, <3>3
    <3>5. t = u
      BY <3>2, <3>3, <3>4, SequencesEqual
    <3> QED
      BY <3>5 DEF u
  <2>2. IsOk(arc(e, a)) => arc(e, a) = Ok(arc(e, a).value) /\ InBody(arc(e, a).value, <<q, a>>)
    BY <1>3, ArcAtRoot
  <2>3. e \in Encoders
    BY <1>3, NothingIs, OidNumbers DEF encoder, Encoders, Arrays
  <2>4. Len(t) >= 2
    BY <1>1, <1>3
  <2> HIDE DEF t
  <2> QED
    BY <1>1, <2>1, <2>2, <2>3, <2>4 DEF Encodes, t
<1>4. CASE Len(s) >= 2 /\ InBody(e, s)
  <2>1. IsOk(arc(e, a)) => arc(e, a) = Ok(arc(e, a).value) /\ InBody(arc(e, a).value, t)
    BY <1>1, <1>4, ArcInBody
  <2>2. e \in Encoders /\ Len(t) >= 2
    BY <1>1, <1>4 DEF InBody
  <2> HIDE DEF t
  <2> QED
    BY <1>1, <2>1, <2>2 DEF Encodes, t
<1> QED
  BY <1>2, <1>3, <1>4 DEF Encodes

LEMMA ArcRefuses ==
  ASSUME NEW e \in Encoders, NEW a \in Arcs, ~ IsOk(arc(e, a))
  PROVE  arc(e, a) \in {Err("ArcInvalid"), Err("Length")}
<1>1. CASE e.state = "Initial" \/ e.state = "FirstArc"
  BY <1>1 DEF arc, IsOk, Ok
<1>2. CASE e.state = "Body"
  <2>1. arc(e, a) = encode_base128(e, a)
    BY <1>2 DEF arc
  <2> QED
    BY <2>1 DEF encode_base128, IsOk, Ok
<1> QED
  BY <1>1, <1>2, EncoderIs

(* An arc leaves what is written as it is.                                 *)
LEMMA ArcKeeps ==
  ASSUME NEW s, NEW e, Encodes(e, s), NEW a \in Arcs, IsOk(arc(e, a))
  PROVE  /\ e.cursor \in 0 .. MaxSize /\ arc(e, a).value.cursor \in 0 .. MaxSize
         /\ e.cursor <= arc(e, a).value.cursor
         /\ \A i \in 1 .. e.cursor : arc(e, a).value.bytes[i] = e.bytes[i]
<1> DEFINE f == arc(e, a).value
<1>1. f \in Encoders /\ e \in Encoders
  <2>1. Encodes(f, Append(s, a))
    BY ArcEncodes
  <2> HIDE DEF f
  <2>2. 0 \in Arcs
    BY OidNumbers DEF Arcs
  <2> QED
    BY <2>1, <2>2, ArcEncodes
<1>2. f.cursor \in 0 .. MaxSize /\ e.cursor \in 0 .. MaxSize /\ MaxSize \in Nat
  <2> HIDE DEF f
  <2> QED
    BY <1>1, EncoderIs, OidNumbers
<1>3. CASE e.cursor = 0
  BY <1>2, <1>3
<1>4. CASE e.cursor # 0
  <2> DEFINE n == base128_len(a)
             c == e.cursor
  <2>1. arc(e, a) = encode_base128(e, a)
    BY <1>4, NothingIs, ArcInBody DEF Encodes, encoder
  <2>2. /\ n \in Nat \ {0}
        /\ c + n > MaxSize => encode_base128(e, a) = Err("Length")
        /\ ~(c + n > MaxSize) => \E b \in Arrays : Writes(b, e, a, n)
                                   /\ encode_base128(e, a) = Ok(encoder(e.state, e.first, b, c + n))
    BY <1>1, BodyWrites
  <2> HIDE DEF n
  <2>3. PICK b \in Arrays : Writes(b, e, a, n) /\ encode_base128(e, a) = Ok(encoder(e.state, e.first, b, c + n))
    BY <2>1, <2>2 DEF IsOk, Err
  <2>4. f.cursor = c + n /\ f.bytes = b
    BY <2>1, <2>3 DEF Ok, encoder
  <2>5. \A i \in 1 .. e.cursor : b[i] = e.bytes[i]
    BY <2>3 DEF Writes
  <2> HIDE DEF f
  <2>6. e.cursor <= f.cursor /\ \A i \in 1 .. e.cursor : f.bytes[i] = e.bytes[i]
    BY <1>2, <2>2, <2>4, <2>5
  <2> QED
    BY <1>2, <2>6 DEF f
<1> QED
  BY <1>3, <1>4

(* Arc after arc.                                                          *)
Working == {e \in Encoders : \E s \in Seq(Arcs) : Encodes(e, s)}
Encodings == {Ok(e) : e \in Working} \union {Err("ArcInvalid"), Err("Length")}
OneMore(was, a) == IF IsOk(was) THEN arc(was.value, a) ELSE was

LEMMA OneMoreEncodes ==
  ASSUME NEW was \in Encodings, NEW a \in Arcs
  PROVE  OneMore(was, a) \in Encodings
<1>1. CASE IsOk(was)
  <2>1. PICK e \in Working : was = Ok(e)
    BY <1>1 DEF Encodings, IsOk, Err
  <2>2. PICK s \in Seq(Arcs) : Encodes(e, s)
    BY DEF Working
  <2> DEFINE r == arc(e, a)
             t == Append(s, a)
  <2>3. OneMore(was, a) = r /\ e \in Encoders
    BY <2>1 DEF OneMore, IsOk, Ok, Working
  <2>4. CASE IsOk(r)
    <3>1. r = Ok(r.value) /\ Encodes(r.value, t) /\ t \in Seq(Arcs) /\ 0 \in Arcs
      BY <2>2, <2>4, ArcEncodes, OidNumbers DEF Arcs
    <3> HIDE DEF r, t
    <3>2. r.value \in Encoders
      BY <3>1, ArcEncodes
    <3>3. r.value \in Working
      BY <3>1, <3>2 DEF Working
    <3> QED
      BY <2>3, <3>1, <3>3 DEF Encodings
  <2>5. CASE ~ IsOk(r)
    BY <2>3, <2>5, ArcRefuses DEF Encodings
  <2> QED
    BY <2>4, <2>5
<1>2. CASE ~ IsOk(was)
  BY <1>2 DEF OneMore
<1> QED
  BY <1>1, <1>2

EncodesAll(f, e, s) ==
  /\ f[0] = Ok(e) /\ EncodeArcs(e, s) = f[Len(s)]
  /\ \A k \in 1 .. Len(s) : f[k] = OneMore(f[k - 1], s[k])

LEMMA EncodesAllSteps ==
  ASSUME NEW e \in Working, NEW s \in Seq(Arcs)
  PROVE  \E f \in [0 .. Len(s) -> Encodings] : EncodesAll(f, e, s)
<1> DEFINE last == Len(s)
           step == [k \in 1 .. last |-> [v \in Encodings |-> OneMore(v, s[k])]]
           Has(f) == f = [k \in 0 .. last |-> IF k = 0 THEN Ok(e) ELSE OneMore(f[k - 1], s[k])]
           p == CHOOSE f : Has(f)
<1>1. last \in Nat /\ Ok(e) \in Encodings /\ step \in [1 .. last -> [Encodings -> Encodings]]
  <2>1. Len(s) \in Nat /\ \A k \in 1 .. Len(s) : s[k] \in Arcs
    OBVIOUS
  <2>2. Ok(e) \in Encodings
    BY DEF Encodings
  <2> QED
    BY <2>1, <2>2, OneMoreEncodes
<1>2. \A k \in 1 .. last : \A v \in Encodings : step[k][v] = OneMore(v, s[k])
  OBVIOUS
<1>3. EncodeArcs(e, s) = p[last]
  BY DEF EncodeArcs, OneMore
<1> HIDE DEF step, last
<1>4. PICK f \in [0 .. last -> Encodings] : Unfolds(f, Ok(e), step, last)
  BY <1>1, Recursion
<1>5. f[0] = Ok(e) /\ \A k \in 1 .. last : f[k] = OneMore(f[k - 1], s[k])
  <2>1. \A k \in 1 .. last : f[k - 1] \in Encodings
    BY <1>1, <1>4
  <2> QED
    BY <1>2, <1>4, <2>1 DEF Unfolds
<1>6. Has(f)
  <2>1. \A k \in 0 .. last : f[k] = IF k = 0 THEN Ok(e) ELSE OneMore(f[k - 1], s[k])
    BY <1>1, <1>4, <1>5
  <2> QED
    BY <1>4, <2>1
<1>7. Has(p)
  <2> HIDE DEF Has
  <2> QED
    BY <1>6
<1>8. p[0] = Ok(e) /\ \A k \in 1 .. last : p[k] = OneMore(p[k - 1], s[k])
  <2> HIDE DEF p
  <2>1. \A k \in 0 .. last : p[k] = IF k = 0 THEN Ok(e) ELSE OneMore(p[k - 1], s[k])
    BY <1>7
  <2>2. 0 \in 0 .. last /\ \A k \in 1 .. last : k \in 0 .. last /\ k # 0
    BY <1>1
  <2> QED
    BY <2>1, <2>2
<1> HIDE DEF p
<1>9. \A k \in 0 .. last : p[k] = f[k]
  <2>1. GoWith(p, f, last)
    BY <1>5, <1>8 DEF GoWith
  <2> QED
    BY <1>1, <2>1, SameSteps
<1>10. p \in [0 .. last -> Encodings]
  <2> HIDE DEF Has
  <2>1. p = [k \in 0 .. last |-> p[k]]
    BY <1>7 DEF Has
  <2> QED
    BY <1>4, <1>9, <2>1
<1> QED
  BY <1>3, <1>8, <1>10 DEF EncodesAll, last

LEMMA EncodeMore ==
  ASSUME NEW e \in Working, NEW s \in Seq(Arcs), NEW a \in Arcs
  PROVE  /\ EncodeArcs(e, Append(s, a)) = OneMore(EncodeArcs(e, s), a)
         /\ EncodeArcs(e, s) \in Encodings
<1> DEFINE t == Append(s, a)
           n == Len(s)
           m == Len(t)
<1>1. t \in Seq(Arcs) /\ n \in Nat /\ m = n + 1 /\ t[m] = a /\ \A k \in 1 .. n : t[k] = s[k]
  OBVIOUS
<1> HIDE DEF t
<1>2. PICK p \in [0 .. n -> Encodings] : EncodesAll(p, e, s)
  BY EncodesAllSteps
<1>3. PICK q \in [0 .. m -> Encodings] : EncodesAll(q, e, t)
  BY <1>1, EncodesAllSteps
<1>4. p[n] = q[n]
  <2>1. GoWith(p, q, n)
    <3>1. \A k \in 1 .. n : k \in 1 .. m
      BY <1>1
    <3> QED
      BY <1>1, <1>2, <1>3, <3>1 DEF GoWith, EncodesAll
  <2>2. n \in 0 .. n
    BY <1>1
  <2> HIDE DEF n
  <2> QED
    BY <1>1, <2>1, <2>2, SameSteps
<1>5. q[m] = OneMore(q[n], a)
  <2>1. m \in 1 .. m /\ m - 1 = n
    BY <1>1
  <2> QED
    BY <1>1, <1>3, <2>1 DEF EncodesAll
<1>6. EncodeArcs(e, s) = p[n] /\ EncodeArcs(e, t) = q[m] /\ n \in 0 .. n
  BY <1>1, <1>2, <1>3 DEF EncodesAll
<1> QED
  BY <1>2, <1>4, <1>5, <1>6 DEF t

LEMMA EncodeNone ==
  ASSUME NEW e \in Working
  PROVE  EncodeArcs(e, <<>>) = Ok(e)
<1>1. <<>> \in Seq(Arcs) /\ Len(<<>>) = 0
  OBVIOUS
<1>2. PICK p \in [0 .. Len(<<>>) -> Encodings] : EncodesAll(p, e, <<>>)
  BY <1>1, EncodesAllSteps
<1> QED
  BY <1>1, <1>2 DEF EncodesAll

LEMMA AtWork ==
  ASSUME NEW s, NEW e, Encodes(e, s)
  PROVE  e \in Working
<1>1. 0 \in Arcs
  BY OidNumbers DEF Arcs
<1>2. e \in Encoders /\ s \in Seq(Arcs)
  BY <1>1, ArcEncodes DEF Encodes
<1> QED
  BY <1>2 DEF Working

LEMMA NewAtWork == Encodes(NewEncoder, <<>>) /\ NewEncoder \in Working
<1>1. <<>> \in Seq(Arcs) /\ Len(<<>>) = 0
  OBVIOUS
<1>2. Encodes(NewEncoder, <<>>)
  BY <1>1 DEF Encodes
<1> QED
  BY <1>2, AtWork

(* A sequence is what it was before its last element was appended.         *)
LEMMA LastOff ==
  ASSUME NEW S, NEW s \in Seq(S), NEW k \in Nat, Len(s) = k + 1
  PROVE  /\ SubSeq(s, 1, k) \in Seq(S) /\ Len(SubSeq(s, 1, k)) = k /\ s[k + 1] \in S
         /\ s = Append(SubSeq(s, 1, k), s[k + 1])
<1> DEFINE p == SubSeq(s, 1, k)
           a == s[k + 1]
           t == Append(p, a)
<1>1. k + 1 \in 1 .. Len(s) /\ a \in S /\ IsSequence(s)
  BY OfItsElements
<1>2. p \in Seq(S) /\ IsSequence(p) /\ Len(p) = k /\ \A i \in 1 .. k : p[i] = s[i]
  <2>1. IsSequence(p) /\ Len(p) = k - 1 + 1 /\ \A i \in 1 .. k - 1 + 1 : p[i] = s[1 - 1 + i]
    BY <1>1, SubSeqFacts
  <2>2. p \in Seq(S)
    BY <1>1
  <2> HIDE DEF p
  <2> QED
    BY <2>1, <2>2
<1> HIDE DEF p, a
<1>3. IsSequence(t) /\ Len(t) = k + 1 /\ (\A i \in 1 .. k : t[i] = p[i]) /\ t[k + 1] = a
  BY <1>2, AppendFacts
<1> HIDE DEF t
<1>4. \A i \in 1 .. Len(s) : s[i] = t[i]
  <2>1. \A i \in 1 .. Len(s) : i \in 1 .. k \/ i = k + 1
    OBVIOUS
  <2> QED
    BY <1>2, <1>3, <2>1 DEF a
<1>5. s = t
  BY <1>1, <1>3, <1>4, SequencesEqual
<1> QED
  BY <1>1, <1>2, <1>5 DEF t, p, a

(* The encoder that has taken s holds s.                                   *)
LEMMA EncodingIs ==
  ASSUME NEW s \in Seq(Arcs), IsOk(EncodeArcs(NewEncoder, s))
  PROVE  /\ EncodeArcs(NewEncoder, s) = Ok(EncodeArcs(NewEncoder, s).value)
         /\ Encodes(EncodeArcs(NewEncoder, s).value, s)
<1> DEFINE Enc(t) == EncodeArcs(NewEncoder, t)
           Holds(t) == IsOk(Enc(t)) => Enc(t) = Ok(Enc(t).value) /\ Encodes(Enc(t).value, t)
           Good == {k \in Nat : \A t \in Seq(Arcs) : Len(t) = k => Holds(t)}
<1>1. 0 \in Good
  <2>1. Enc(<<>>) = Ok(NewEncoder) /\ Encodes(NewEncoder, <<>>)
    BY EncodeNone, NewAtWork
  <2> HIDE DEF Enc
  <2>2. Holds(<<>>)
    BY <2>1 DEF Ok
  <2>3. \A t \in Seq(Arcs) : Len(t) = 0 => t = <<>>
    OBVIOUS
  <2> HIDE DEF Holds
  <2> QED
    BY <2>2, <2>3
<1>2. ASSUME NEW k \in Good PROVE k + 1 \in Good
  <2> SUFFICES ASSUME NEW t \in Seq(Arcs), Len(t) = k + 1 PROVE Holds(t)
    OBVIOUS
  <2> DEFINE p == SubSeq(t, 1, k)
             a == t[k + 1]
  <2>1. k \in Nat /\ p \in Seq(Arcs) /\ Len(p) = k /\ a \in Arcs /\ t = Append(p, a)
    BY LastOff
  <2>2. Holds(p)
    <3> HIDE DEF p, Holds
    <3> QED
      BY <2>1
  <2> HIDE DEF p, a, Good
  <2>3. Enc(t) = OneMore(Enc(p), a)
    BY <2>1, EncodeMore, NewAtWork
  <2> HIDE DEF Enc
  <2> SUFFICES ASSUME IsOk(Enc(t)) PROVE Enc(t) = Ok(Enc(t).value) /\ Encodes(Enc(t).value, t)
    OBVIOUS
  <2>4. IsOk(Enc(p)) /\ Enc(t) = arc(Enc(p).value, a)
    BY <2>3 DEF OneMore
  <2>5. Encodes(Enc(p).value, p)
    BY <2>2, <2>4
  <2> QED
    BY <2>1, <2>4, <2>5, ArcEncodes
<1>3. Good = Nat
  <2> HIDE DEF Good
  <2>1. Good \in SUBSET Nat
    BY DEF Good
  <2> QED
    BY <1>1, <1>2, <2>1, Induction
<1>4. Holds(s)
  <2>1. Len(s) \in Nat
    OBVIOUS
  <2> HIDE DEF Holds
  <2> QED
    BY <1>3, <2>1
<1> QED
  BY <1>4

(* What the encoder held after the first k arcs is still there.            *)
Keeps(e, d) == d.cursor \in Nat /\ e.cursor \in Nat /\ d.cursor <= e.cursor
               /\ \A i \in 1 .. d.cursor : e.bytes[i] = d.bytes[i]

LEMMA EncodeGrows ==
  ASSUME NEW s \in Seq(Arcs), IsOk(EncodeArcs(NewEncoder, s)), NEW k \in 0 .. Len(s)
  PROVE  /\ IsOk(EncodeArcs(NewEncoder, SubSeq(s, 1, k)))
         /\ Keeps(EncodeArcs(NewEncoder, s).value, EncodeArcs(NewEncoder, SubSeq(s, 1, k)).value)
<1> DEFINE Enc(t) == EncodeArcs(NewEncoder, t)
           Holds(t) == \A j \in 0 .. Len(t) : IsOk(Enc(t)) => IsOk(Enc(SubSeq(t, 1, j)))
                                                              /\ Keeps(Enc(t).value, Enc(SubSeq(t, 1, j)).value)
           Good == {n \in Nat : \A t \in Seq(Arcs) : Len(t) = n => Holds(t)}
<1>1. \A t \in Seq(Arcs) : SubSeq(t, 1, Len(t)) = t
  <2>1. \A t \in Seq(Arcs) : IsSequence(t)
    BY OfItsElements
  <2> QED
    BY <2>1, WholeSegment
<1>2. ASSUME NEW t \in Seq(Arcs), IsOk(Enc(t)) PROVE Keeps(Enc(t).value, Enc(t).value)
  <2>1. Encodes(Enc(t).value, t) /\ 0 \in Arcs
    BY <1>2, EncodingIs, OidNumbers DEF Arcs
  <2> HIDE DEF Enc
  <2>2. Enc(t).value \in Encoders
    BY <2>1, ArcEncodes
  <2>3. Enc(t).value.cursor \in Nat
    BY <2>2, EncoderIs
  <2> QED
    BY <2>3 DEF Keeps
<1>3. 0 \in Good
  <2> SUFFICES ASSUME NEW t \in Seq(Arcs), Len(t) = 0 PROVE Holds(t)
    OBVIOUS
  <2> SUFFICES ASSUME NEW j \in 0 .. Len(t), IsOk(Enc(t))
               PROVE  IsOk(Enc(SubSeq(t, 1, j))) /\ Keeps(Enc(t).value, Enc(SubSeq(t, 1, j)).value)
    OBVIOUS
  <2>1. j = Len(t)
    OBVIOUS
  <2>2. SubSeq(t, 1, j) = t
    BY <1>1, <2>1
  <2> HIDE DEF Enc
  <2> QED
    BY <1>2, <2>2
<1>4. ASSUME NEW n \in Good PROVE n + 1 \in Good
  <2> SUFFICES ASSUME NEW t \in Seq(Arcs), Len(t) = n + 1 PROVE Holds(t)
    OBVIOUS
  <2> DEFINE p == SubSeq(t, 1, n)
             a == t[n + 1]
  <2>1. n \in Nat /\ p \in Seq(Arcs) /\ Len(p) = n /\ a \in Arcs /\ t = Append(p, a)
    BY LastOff
  <2>2. Holds(p)
    <3> HIDE DEF p, Holds
    <3> QED
      BY <2>1
  <2>3. ASSUME NEW j \in 0 .. n PROVE SubSeq(t, 1, j) = SubSeq(p, 1, j)
    <3>1. IsSequence(t) /\ IsSequence(p)
      BY <2>1, OfItsElements
    <3>2. IsSequence(SubSeq(t, 1, j)) /\ Len(SubSeq(t, 1, j)) = j /\ \A i \in 1 .. j : SubSeq(t, 1, j)[i] = t[i]
      <4>1. IsSequence(SubSeq(t, 1, j)) /\ Len(SubSeq(t, 1, j)) = j - 1 + 1
            /\ \A i \in 1 .. j - 1 + 1 : SubSeq(t, 1, j)[i] = t[1 - 1 + i]
        BY <2>1, <3>1, SubSeqFacts
      <4> QED
        BY <4>1
    <3> HIDE DEF p
    <3>3. IsSequence(SubSeq(p, 1, j)) /\ Len(SubSeq(p, 1, j)) = j /\ \A i \in 1 .. j : SubSeq(p, 1, j)[i] = p[i]
      <4>1. IsSequence(SubSeq(p, 1, j)) /\ Len(SubSeq(p, 1, j)) = j - 1 + 1
            /\ \A i \in 1 .. j - 1 + 1 : SubSeq(p, 1, j)[i] = p[1 - 1 + i]
        BY <2>1, <3>1, SubSeqFacts
      <4> QED
        BY <4>1
    <3>4. \A i \in 1 .. n : t[i] = p[i]
      BY <2>1, <3>1, AppendFacts
    <3> DEFINE u == SubSeq(t, 1, j)
               v == SubSeq(p, 1, j)
    <3>5. IsSequence(u) /\ IsSequence(v) /\ Len(u) = Len(v) /\ \A i \in 1 .. Len(u) : u[i] = v[i]
      BY <2>1, <3>2, <3>3, <3>4
    <3> HIDE DEF u, v
    <3>6. u = v
      BY <3>5, SequencesEqual
    <3> QED
      BY <3>6 DEF u, v
  <2> SUFFICES ASSUME NEW j \in 0 .. Len(t), IsOk(Enc(t))
               PROVE  IsOk(Enc(SubSeq(t, 1, j))) /\ Keeps(Enc(t).value, Enc(SubSeq(t, 1, j)).value)
    OBVIOUS
  <2>4. CASE j = Len(t)
    <3>1. SubSeq(t, 1, j) = t
      BY <1>1, <2>4
    <3> HIDE DEF Enc
    <3> QED
      BY <1>2, <3>1
  <2>5. CASE j # Len(t)
    <3>1. j \in 0 .. n /\ j \in 0 .. Len(p)
      BY <2>1, <2>5
    <3>2. SubSeq(t, 1, j) = SubSeq(p, 1, j)
      BY <2>3, <3>1
    <3> HIDE DEF p, a, Good
    <3>3. Enc(t) = OneMore(Enc(p), a)
      BY <2>1, EncodeMore, NewAtWork
    <3> DEFINE q == SubSeq(p, 1, j)
    <3> HIDE DEF q, Enc
    <3>4. IsOk(Enc(p)) /\ Enc(t) = arc(Enc(p).value, a) /\ IsOk(arc(Enc(p).value, a))
      BY <3>3 DEF OneMore
    <3>5. Encodes(Enc(p).value, p)
      BY <2>1, <3>4, EncodingIs DEF Enc
    <3>6. IsOk(Enc(q)) /\ Keeps(Enc(p).value, Enc(q).value)
      BY <2>2, <3>1, <3>4 DEF q
    <3>7. Keeps(Enc(t).value, Enc(p).value)
      <4> DEFINE f == Enc(t).value
                 e == Enc(p).value
      <4>1. e.cursor \in 0 .. MaxSize /\ f.cursor \in 0 .. MaxSize /\ e.cursor <= f.cursor
            /\ \A i \in 1 .. e.cursor : f.bytes[i] = e.bytes[i]
        BY <2>1, <3>4, <3>5, ArcKeeps
      <4> HIDE DEF f, e
      <4>2. Keeps(f, e)
        BY <4>1, OidNumbers DEF Keeps
      <4> QED
        BY <4>2 DEF f, e
    <3>8. Keeps(Enc(t).value, Enc(q).value)
      <4> DEFINE f == Enc(t).value
                 e == Enc(p).value
                 d == Enc(q).value
      <4>1. Keeps(f, e) /\ Keeps(e, d)
        BY <3>6, <3>7
      <4> HIDE DEF f, e, d
      <4>2. Keeps(f, d)
        <5>1. \A i \in 1 .. d.cursor : i \in 1 .. e.cursor
          BY <4>1 DEF Keeps
        <5> QED
          BY <4>1, <5>1 DEF Keeps
      <4> QED
        BY <4>2 DEF f, d
    <3> QED
      BY <3>2, <3>6, <3>8 DEF q
  <2> QED
    BY <2>4, <2>5
<1>5. Good = Nat
  <2> HIDE DEF Good
  <2>1. Good \in SUBSET Nat
    BY DEF Good
  <2> QED
    BY <1>3, <1>4, <2>1, Induction
<1>6. Holds(s)
  <2>1. Len(s) \in Nat
    OBVIOUS
  <2> HIDE DEF Holds
  <2> QED
    BY <1>5, <2>1
<1> QED
  BY <1>6

--------------------------------------------------------------------------------
(* An OID as the library holds one: as long as it says, with nothing       *)
(* behind its octets, which mean at least the two arcs of the root.        *)
OidBuffers == [length : 0 .. MaxSize, bytes : Arrays]
Means(ber, s) ==
  /\ ber \in OidBuffers /\ s \in Seq(Arcs) /\ Len(s) >= 2 /\ InBody(extend(ber), s)

LEMMA MeansIs ==
  ASSUME NEW ber, NEW s, Means(ber, s)
  PROVE  /\ ber = [length |-> ber.length, bytes |-> ber.bytes] /\ ber.bytes \in Arrays
         /\ ber.length \in 1 .. MaxSize /\ ber.length \in Nat \ {0} /\ ber.length \in 0 .. MaxSize
         /\ Closed(ber.bytes, ber.length)
         /\ Reading(ber.bytes, ber.length) = [arcs |-> s, open |-> 0]
         /\ \A i \in ber.length + 1 .. MaxSize : ber.bytes[i] = 0
<1>1. extend(ber).bytes = ber.bytes /\ extend(ber).cursor = ber.length
  BY DEF extend, encoder
<1>2. ber = [length |-> ber.length, bytes |-> ber.bytes] /\ ber.bytes \in Arrays
  BY DEF Means, OidBuffers
<1>3. Closed(ber.bytes, ber.length) /\ Reading(ber.bytes, ber.length) = [arcs |-> s, open |-> 0]
      /\ \A i \in ber.length + 1 .. MaxSize : ber.bytes[i] = 0
  BY <1>1 DEF Means, InBody
<1> QED
  BY <1>2, <1>3, OidNumbers DEF Closed

LEMMA AsBytesIs ==
  ASSUME NEW b \in Arrays, NEW n \in 0 .. MaxSize
  PROVE  LET t == SubSeq(b, 1, n) IN
         t \in Seq(Octets) /\ Len(t) = n /\ \A i \in 1 .. n : t[i] = b[i]
<1>1. b \in Seq(Octets) /\ Len(b) = MaxSize
  BY OidNumbers DEF Arrays
<1>2. IsSequence(b) /\ n \in Nat /\ n <= Len(b)
  BY <1>1, OfItsElements, OidNumbers
<1> DEFINE t == SubSeq(b, 1, n)
<1>3. IsSequence(t) /\ Len(t) = n - 1 + 1 /\ \A i \in 1 .. n - 1 + 1 : t[i] = b[1 - 1 + i]
  BY <1>2, SubSeqFacts
<1> HIDE DEF t
<1>4. Len(t) = n /\ \A i \in 1 .. n : t[i] = b[i]
  BY <1>2, <1>3
<1>5. t \in Seq(Octets)
  <2>1. \A i \in 1 .. Len(t) : t[i] \in Octets
    BY <1>4, ArraysHaveOctets DEF HasOctets
  <2>2. t \in Seq(Elements(t)) /\ Elements(t) \subseteq Octets
    BY <1>3, <1>4, <2>1, SequenceShape DEF IsSequence, Elements
  <2> QED
    BY <2>2, OfMore
<1> QED
  BY <1>4, <1>5 DEF t

(* Its iterator yields what it means.                                      *)
LEMMA MeansWhatItYields ==
  ASSUME NEW ber, NEW s, Means(ber, s)
  PROVE  /\ ArcsOf(as_bytes(ber)) = Ok(s)
         /\ as_bytes(ber) \in Seq(Octets) /\ Len(as_bytes(ber)) = ber.length
         /\ \A i \in 1 .. ber.length : as_bytes(ber)[i] = ber.bytes[i]
<1> DEFINE t == as_bytes(ber)
           n == ber.length
<1>1. ber.bytes \in Arrays /\ n \in 1 .. MaxSize /\ n \in Nat \ {0} /\ n \in 0 .. MaxSize
      /\ Closed(ber.bytes, n) /\ Reading(ber.bytes, n) = [arcs |-> s, open |-> 0]
  BY MeansIs
<1>2. t \in Seq(Octets) /\ Len(t) = n /\ \A i \in 1 .. n : t[i] = ber.bytes[i]
  BY <1>1, AsBytesIs DEF as_bytes
<1> HIDE DEF t, n
<1>3. Reading(t, n) = Reading(ber.bytes, n)
  BY <1>1, <1>2, ArraysHaveOctets, ReadingSame
<1>4. Reading(t, n).arcs = s /\ Meaning(t) = s
  BY <1>1, <1>2, <1>3 DEF Meaning
<1>5. s \in Seq(Arcs)
  BY DEF Means
<1>6. WellFormed(t)
  <2>1. n \in 1 .. Len(t) /\ 1 \in 1 .. n /\ n \in 1 .. n
    BY <1>1, <1>2
  <2> QED
    BY <1>1, <1>2, <1>4, <1>5, <2>1 DEF WellFormed, CutAt, Closed
<1>7. ArcsOf(t) = Ok(s)
  BY <1>2, <1>4, <1>6, ArcsOfIs
<1> QED
  BY <1>2, <1>7 DEF t, n

LEMMA FinishIs ==
  ASSUME NEW e, NEW s, Encodes(e, s)
  PROVE  /\ IsOk(finish(e)) <=> Len(s) >= 2
         /\ ~ IsOk(finish(e)) => finish(e) = Err("Empty")
         /\ IsOk(finish(e)) => finish(e) = Ok(finish(e).value) /\ Means(finish(e).value, s)
                               /\ extend(finish(e).value) = e
<1> DEFINE b == [length |-> e.cursor, bytes |-> e.bytes]
<1>1. finish(e) = IF e.cursor = 0 THEN Err("Empty") ELSE Ok(b)
  <2>1. CASE e = NewEncoder \/ e = encoder("FirstArc", s[1], Nothing, 0)
    BY <2>1, NothingIs DEF finish, encoder
  <2>2. CASE InBody(e, s)
    <3>1. e.cursor \in 0 .. MaxSize
      BY <2>2 DEF InBody, Encoders
    <3>2. as_u8(e.cursor) = e.cursor
      BY <3>1, LengthsFit
    <3> QED
      BY <3>2 DEF finish
  <2> QED
    BY <2>1, <2>2 DEF Encodes
<1> DEFINE m == Len(s)
<1>2. s \in Seq(Arcs) /\ m \in Nat
  BY DEF Encodes
<1>3. ASSUME ~(m >= 2)
      PROVE  finish(e) = Err("Empty")
  <2>1. e = NewEncoder \/ e = encoder("FirstArc", s[1], Nothing, 0)
    BY <1>3 DEF Encodes
  <2>2. e.cursor = 0
    BY <2>1, NothingIs DEF encoder
  <2> QED
    BY <1>1, <2>2
<1>4. ASSUME m >= 2
      PROVE  finish(e) = Ok(finish(e).value) /\ Means(finish(e).value, s) /\ extend(finish(e).value) = e
  <2>1. InBody(e, s)
    <3>1. m # 0 /\ m # 1
      <4> HIDE DEF m
      <4> QED
        BY <1>2, <1>4
    <3> QED
      BY <3>1 DEF Encodes
  <2>2. e \in Encoders /\ e.state = "Body" /\ e.first = 0 /\ e.cursor \in 1 .. MaxSize
    BY <2>1 DEF InBody, Closed
  <2>3. e = encoder("Body", 0, e.bytes, e.cursor) /\ e.bytes \in Arrays /\ e.cursor \in 0 .. MaxSize /\ e.cursor # 0
    BY <2>2, EncoderIs
  <2>4. extend(b) = e /\ b \in OidBuffers
    BY <2>3 DEF extend, OidBuffers
  <2>5. finish(e) = Ok(b)
    BY <1>1, <2>3
  <2> HIDE DEF b
  <2>6. Means(b, s)
    BY <1>2, <1>4, <2>1, <2>4 DEF Means
  <2> QED
    BY <2>4, <2>5, <2>6 DEF Ok
<1> HIDE DEF m
<1>5. /\ IsOk(finish(e)) <=> m >= 2
      /\ ~ IsOk(finish(e)) => finish(e) = Err("Empty")
      /\ IsOk(finish(e)) => finish(e) = Ok(finish(e).value) /\ Means(finish(e).value, s)
                            /\ extend(finish(e).value) = e
  <2>1. IsOk(finish(e)) <=> m >= 2
    <3>1. CASE m >= 2
      BY <1>4, <3>1 DEF IsOk, Ok
    <3>2. CASE ~(m >= 2)
      BY <1>3, <3>2 DEF IsOk, Err
    <3> QED
      BY <3>1, <3>2
  <2> QED
    BY <1>3, <1>4, <2>1
<1> QED
  BY <1>5 DEF m

LEMMA FromArcsIs ==
  ASSUME NEW s \in Seq(Arcs)
  PROVE  /\ IsOk(from_arcs(s)) <=> IsOk(EncodeArcs(NewEncoder, s)) /\ Len(s) >= 2
         /\ IsOk(EncodeArcs(NewEncoder, s)) => from_arcs(s) = finish(EncodeArcs(NewEncoder, s).value)
         /\ IsOk(from_arcs(s)) =>
              from_arcs(s) = Ok(from_arcs(s).value) /\ Means(from_arcs(s).value, s)
              /\ EncodeArcs(NewEncoder, s) = Ok(extend(from_arcs(s).value))
<1> DEFINE r == EncodeArcs(NewEncoder, s)
           e == r.value
<1>1. from_arcs(s) = IF IsOk(r) THEN finish(e) ELSE r
  BY DEF from_arcs, EncodeAll
<1>2. IsOk(r) => r = Ok(e) /\ Encodes(e, s)
  BY EncodingIs
<1> HIDE DEF r, e
<1>3. CASE IsOk(r)
  <2>1. Encodes(e, s) /\ from_arcs(s) = finish(e) /\ r = Ok(e)
    BY <1>1, <1>2, <1>3
  <2>2. /\ IsOk(finish(e)) <=> Len(s) >= 2
        /\ IsOk(finish(e)) => finish(e) = Ok(finish(e).value) /\ Means(finish(e).value, s)
                               /\ extend(finish(e).value) = e
    BY <2>1, FinishIs
  <2> QED
    BY <1>3, <2>1, <2>2 DEF r, e
<1>4. CASE ~ IsOk(r)
  BY <1>1, <1>4 DEF r
<1> QED
  BY <1>3, <1>4

LEMMA PushIs ==
  ASSUME NEW ber, NEW s, Means(ber, s), NEW a \in Arcs
  PROVE  /\ IsOk(push_arc(ber, a)) =>
              push_arc(ber, a) = Ok(push_arc(ber, a).value) /\ Means(push_arc(ber, a).value, Append(s, a))
         /\ from_arcs(s) = Ok(ber) => from_arcs(Append(s, a)) = push_arc(ber, a)
<1> DEFINE e == extend(ber)
           t == Append(s, a)
           r == arc(e, a)
<1>1. s \in Seq(Arcs) /\ Len(s) >= 2 /\ InBody(e, s) /\ t \in Seq(Arcs) /\ Len(t) >= 2
  BY DEF Means
<1> HIDE DEF e, t
<1>2. Encodes(e, s)
  BY <1>1 DEF Encodes
<1>3. e \in Working
  BY <1>2, AtWork
<1>4. EncodeArcs(e, <<a>>) = r
  <2>1. <<>> \in Seq(Arcs) /\ Append(<<>>, a) = <<a>>
    OBVIOUS
  <2>2. EncodeArcs(e, <<>>) = Ok(e)
    BY <1>3, EncodeNone
  <2>3. EncodeArcs(e, Append(<<>>, a)) = OneMore(EncodeArcs(e, <<>>), a)
    BY <1>3, <2>1, EncodeMore
  <2> QED
    BY <2>1, <2>2, <2>3 DEF OneMore, IsOk, Ok
<1>5. push_arc(ber, a) = IF IsOk(r) THEN finish(r.value) ELSE r
  BY <1>4 DEF push_arc, EncodeAll, e
<1>6. IsOk(r) => r = Ok(r.value) /\ Encodes(r.value, t)
  BY <1>2, ArcEncodes DEF t
<1> HIDE DEF r
<1>7. ASSUME IsOk(push_arc(ber, a))
      PROVE  push_arc(ber, a) = Ok(push_arc(ber, a).value) /\ Means(push_arc(ber, a).value, t)
  <2>1. IsOk(r) /\ push_arc(ber, a) = finish(r.value)
    BY <1>5, <1>7
  <2> QED
    BY <1>6, <1>7, <2>1, FinishIs
<1>8. ASSUME from_arcs(s) = Ok(ber) PROVE from_arcs(t) = push_arc(ber, a)
  <2>1. IsOk(from_arcs(s)) /\ from_arcs(s).value = ber
    BY <1>8 DEF IsOk, Ok
  <2>2. EncodeArcs(NewEncoder, s) = Ok(e)
    BY <1>1, <2>1, FromArcsIs DEF e
  <2>3. EncodeArcs(NewEncoder, t) = OneMore(EncodeArcs(NewEncoder, s), a)
    BY <1>1, EncodeMore, NewAtWork DEF t
  <2>4. EncodeArcs(NewEncoder, t) = r
    BY <2>2, <2>3 DEF OneMore, IsOk, Ok, r
  <2> QED
    BY <1>5, <2>4 DEF from_arcs, EncodeAll
<1> QED
  BY <1>7, <1>8 DEF t

LEMMA ParentIs ==
  ASSUME NEW ber, NEW s, Means(ber, s)
  PROVE  parent(ber) = from_arcs(SubSeq(s, 1, Len(s) - 1))
<1>1. ArcsOf(as_bytes(ber)).value = s
  BY MeansWhatItYields DEF Ok
<1> QED
  BY <1>1 DEF parent

LEMMA FromBytesIs ==
  ASSUME NEW bytes \in Seq(Octets), IsOk(from_bytes(bytes))
  PROVE  /\ from_bytes(bytes) = Ok(from_bytes(bytes).value)
         /\ Means(from_bytes(bytes).value, Meaning(bytes))
<1> DEFINE n == Len(bytes)
           b == [i \in 1 .. MaxSize |-> IF i <= n THEN bytes[i] ELSE 0]
           ber == [length |-> n, bytes |-> b]
           s == Meaning(bytes)
<1>1. IsOk(ArcsOf(bytes)) /\ ~(n > MaxSize) /\ from_bytes(bytes) = Ok(ber)
  <2>1. IsOk(ArcsOf(bytes)) /\ ~(n > MaxSize)
        /\ from_bytes(bytes) = Ok([length |-> as_u8(n), bytes |-> b])
    BY DEF from_bytes, IsOk, Err
  <2>2. n \in 0 .. MaxSize
    BY <2>1, OidNumbers
  <2> QED
    BY <2>1, <2>2, LengthsFit
<1>2. WellFormed(bytes)
  BY <1>1, ArcsOfIs
<1>3. n \in Nat /\ MaxSize \in Nat /\ n \in 1 .. n /\ bytes[1] < 3 * (ARC_MAX_SECOND + 1)
      /\ (n = 1 \/ bytes[n] < Base) /\ s \in Seq(Arcs) /\ HasOctets(bytes, n) /\ 1 \in 1 .. n
      /\ \A i \in 1 .. n : bytes[i] \in Octets
  BY <1>2, OctetsOf, OidNumbers DEF WellFormed, CutAt, Meaning
<1>4. n \in 1 .. MaxSize /\ n \in 0 .. MaxSize
  BY <1>1, <1>3
<1> HIDE DEF n
<1>5. Rooted(Reading(bytes, n)) /\ Reading(bytes, n).open = 0 /\ Reading(bytes, n).arcs = s
  BY <1>3, NothingOpen DEF n, Meaning
<1>6. Reading(bytes, n) = [arcs |-> s, open |-> 0] /\ Len(s) >= 2
  BY <1>5 DEF Rooted, Readings
<1>7. b \in Arrays /\ (\A i \in 1 .. n : b[i] = bytes[i]) /\ (\A i \in n + 1 .. MaxSize : b[i] = 0)
  <2>1. \A i \in 1 .. MaxSize : b[i] = IF i <= n THEN bytes[i] ELSE 0
    OBVIOUS
  <2>2. \A i \in 1 .. n : i \in 1 .. MaxSize /\ i <= n
    BY <1>3, <1>4
  <2>3. \A i \in n + 1 .. MaxSize : i \in 1 .. MaxSize /\ ~(i <= n)
    BY <1>4
  <2>4. \A i \in 1 .. MaxSize : b[i] \in Octets
    <3>1. 0 \in Octets
      BY OidNumbers DEF Octets
    <3>2. \A i \in 1 .. MaxSize : i <= n => i \in 1 .. n
      BY <1>4
    <3> HIDE DEF b
    <3> QED
      BY <1>3, <2>1, <3>1, <3>2
  <2>5. b = [i \in 1 .. MaxSize |-> b[i]]
    OBVIOUS
  <2> HIDE DEF b
  <2> QED
    BY <2>1, <2>2, <2>3, <2>4, <2>5 DEF Arrays
<1> HIDE DEF b, s
<1>8. Reading(b, n) = [arcs |-> s, open |-> 0]
  BY <1>3, <1>6, <1>7, ReadingSame
<1>9. Closed(b, n)
  BY <1>3, <1>4, <1>7 DEF Closed
<1> DEFINE e == extend(ber)
<1>10. e.state = "Body" /\ e.first = 0 /\ e.bytes = b /\ e.cursor = n /\ ber \in OidBuffers
  BY <1>4, <1>7 DEF extend, encoder, OidBuffers
<1>11. e \in Encoders
  BY <1>4, <1>7 DEF extend, encoder, Encoders, Arrays, ARC_MAX_FIRST
<1> HIDE DEF e
<1>12. InBody(e, s)
  BY <1>7, <1>8, <1>9, <1>10, <1>11 DEF InBody
<1> HIDE DEF ber
<1>13. Means(ber, s)
  BY <1>3, <1>6, <1>10, <1>12 DEF Means, e
<1> QED
  BY <1>1, <1>13 DEF Ok, s

--------------------------------------------------------------------------------
(* Comparing OIDs.                                                         *)
LEMMA PrefixIs ==
  ASSUME NEW t \in Seq(Arcs), NEW s \in Seq(Arcs)
  PROVE  /\ IsPrefix(t, s) <=> Extends(s, t)
         /\ IsPrefix(t, s) => Len(t) \in 0 .. Len(s) /\ SubSeq(s, 1, Len(t)) = t
<1> DEFINE n == Len(t)
           u == SubSeq(s, 1, n)
<1>1. IsSequence(s) /\ IsSequence(t) /\ n \in Nat /\ Len(s) \in Nat
  BY OfItsElements
<1>2. SubSeq(t, 1, n) = t
  BY <1>1, WholeSegment
<1>3. IsPrefix(t, s) <=> n <= Len(s) /\ t = u
  BY <1>2 DEF IsPrefix
<1> HIDE DEF n
<1>4. n <= Len(s) => IsSequence(u) /\ Len(u) = n /\ \A i \in 1 .. n : u[i] = s[i]
  <2> SUFFICES ASSUME n <= Len(s) PROVE IsSequence(u) /\ Len(u) = n /\ \A i \in 1 .. n : u[i] = s[i]
    OBVIOUS
  <2>1. IsSequence(u) /\ Len(u) = n - 1 + 1 /\ \A i \in 1 .. n - 1 + 1 : u[i] = s[1 - 1 + i]
    BY <1>1, SubSeqFacts
  <2> HIDE DEF u
  <2> QED
    BY <1>1, <2>1
<1> HIDE DEF u
<1>5. n = Len(t)
  BY DEF n
<1>6. IsPrefix(t, s) => Extends(s, t)
  BY <1>3, <1>4, <1>5 DEF Extends
<1>7. Extends(s, t) => IsPrefix(t, s)
  <2> SUFFICES ASSUME Extends(s, t) PROVE IsPrefix(t, s)
    OBVIOUS
  <2>1. n <= Len(s) /\ \A i \in 1 .. n : s[i] = t[i]
    BY <1>5 DEF Extends
  <2>2. t = u
    BY <1>1, <1>4, <1>5, <2>1, SequencesEqual
  <2> QED
    BY <1>3, <2>1, <2>2
<1>8. IsPrefix(t, s) => n \in 0 .. Len(s) /\ u = t
  BY <1>1, <1>3
<1> QED
  BY <1>6, <1>7, <1>8 DEF u, n

(* OIDs built from arcs are equal exactly if their arcs are.               *)
LEMMA SameOids ==
  ASSUME NEW o, NEW s, Means(o, s), from_arcs(s) = Ok(o),
         NEW p, NEW t, Means(p, t), from_arcs(t) = Ok(p)
  PROVE  o = p <=> s = t
<1>1. o = p => s = t
  <2>1. ArcsOf(as_bytes(o)) = Ok(s) /\ ArcsOf(as_bytes(p)) = Ok(t)
    BY MeansWhatItYields
  <2> QED
    BY <2>1 DEF Ok
<1>2. s = t => o = p
  BY DEF Ok
<1> QED
  BY <1>1, <1>2

LEMMA StartsWithIs ==
  ASSUME NEW o, NEW s, Means(o, s), from_arcs(s) = Ok(o),
         NEW p, NEW t, Means(p, t), from_arcs(t) = Ok(p)
  PROVE  starts_with(o, p) <=> IsPrefix(t, s)
<1> DEFINE n == o.length
           m == p.length
<1>1. /\ o.bytes \in Arrays /\ n \in Nat \ {0} /\ n \in 0 .. MaxSize
      /\ Reading(o.bytes, n) = [arcs |-> s, open |-> 0] /\ s \in Seq(Arcs)
  BY MeansIs DEF Means
<1>2. /\ p.bytes \in Arrays /\ m \in Nat \ {0} /\ m \in 0 .. MaxSize
      /\ Reading(p.bytes, m) = [arcs |-> t, open |-> 0] /\ t \in Seq(Arcs)
  BY MeansIs DEF Means
<1>3. starts_with(o, p) <=> m <= n /\ \A i \in 1 .. m : o.bytes[i] = p.bytes[i]
  BY DEF starts_with
<1> HIDE DEF n, m
<1>4. ASSUME m <= n, \A i \in 1 .. m : o.bytes[i] = p.bytes[i] PROVE Extends(s, t)
  <2>1. Reading(o.bytes, m) = Reading(p.bytes, m)
    BY <1>2, <1>4, ArraysHaveOctets, ReadingSame
  <2>2. HasOctets(o.bytes, n) /\ m \in 1 .. n
    BY <1>1, <1>2, <1>4, ArraysHaveOctets
  <2>3. Extends(Reading(o.bytes, n).arcs, Reading(o.bytes, m).arcs)
    BY <1>1, <2>2, ReadingGrows
  <2> QED
    BY <1>1, <1>2, <2>1, <2>3
<1>5. ASSUME IsPrefix(t, s) PROVE m <= n /\ \A i \in 1 .. m : o.bytes[i] = p.bytes[i]
  <2>1. IsOk(from_arcs(s)) /\ from_arcs(s).value = o /\ IsOk(from_arcs(t)) /\ from_arcs(t).value = p
    BY DEF IsOk, Ok
  <2>2. EncodeArcs(NewEncoder, s) = Ok(extend(o)) /\ EncodeArcs(NewEncoder, t) = Ok(extend(p))
    BY <1>1, <1>2, <2>1, FromArcsIs
  <2>3. Len(t) \in 0 .. Len(s) /\ SubSeq(s, 1, Len(t)) = t
    BY <1>1, <1>2, <1>5, PrefixIs
  <2>4. Keeps(EncodeArcs(NewEncoder, s).value, EncodeArcs(NewEncoder, SubSeq(s, 1, Len(t))).value)
    <3>1. IsOk(EncodeArcs(NewEncoder, s))
      BY <2>2 DEF IsOk, Ok
    <3> QED
      BY <1>1, <2>3, <3>1, EncodeGrows
  <2>5. Keeps(extend(o), extend(p))
    <3>1. EncodeArcs(NewEncoder, SubSeq(s, 1, Len(t))).value = extend(p)
      <4>1. EncodeArcs(NewEncoder, SubSeq(s, 1, Len(t))) = EncodeArcs(NewEncoder, t)
        BY <2>3
      <4> QED
        BY <2>2, <4>1 DEF Ok
    <3>2. EncodeArcs(NewEncoder, s).value = extend(o)
      BY <2>2 DEF Ok
    <3> QED
      BY <2>4, <3>1, <3>2
  <2> QED
    BY <2>5 DEF Keeps, extend, encoder, n, m
<1>6. IsPrefix(t, s) <=> Extends(s, t)
  BY <1>1, <1>2, PrefixIs
<1> QED
  BY <1>3, <1>4, <1>5, <1>6

LEMMA FirstDifferenceIs ==
  ASSUME NEW s, NEW t, NEW n \in Nat, DOMAIN s = 1 .. n,
         NEW i \in 1 .. n, s[i] # t[i], \A j \in 1 .. i - 1 : s[j] = t[j]
  PROVE  FirstDifference(s, t) = i
<1> DEFINE First(k) == s[k] # t[k] /\ \A j \in 1 .. k - 1 : s[j] = t[j]
<1>1. FirstDifference(s, t) = CHOOSE k \in 1 .. n : First(k)
  BY DEF FirstDifference
<1>2. First(i)
  OBVIOUS
<1>3. ASSUME NEW k \in 1 .. n, First(k) PROVE k = i
  <2>1. CASE k < i
    <3>1. k \in 1 .. i - 1
      BY <2>1
    <3> QED
      BY <1>3, <3>1
  <2>2. CASE i < k
    <3>1. i \in 1 .. k - 1
      BY <2>2
    <3> QED
      BY <1>3, <3>1
  <2> QED
    BY <2>1, <2>2
<1> HIDE DEF First
<1> QED
  BY <1>1, <1>2, <1>3

LEMMA ThereIsAFirst ==
  ASSUME NEW s, NEW t, NEW n \in Nat, NEW k \in 1 .. n, s[k] # t[k]
  PROVE  \E i \in 1 .. n : s[i] # t[i] /\ \A j \in 1 .. i - 1 : s[j] = t[j]
<1> DEFINE S == {i \in 1 .. n : s[i] # t[i]}
<1>1. S \in SUBSET Nat /\ S # {}
  OBVIOUS
<1>2. \E i \in S : \A j \in S : i <= j
  <2> HIDE DEF S
  <2> QED
    BY <1>1, Least
<1>3. PICK i \in S : \A j \in S : i <= j
  BY <1>2
<1>4. ASSUME NEW j \in 1 .. i - 1 PROVE s[j] = t[j]
  <2>1. j \in 1 .. n /\ ~(i <= j)
    OBVIOUS
  <2> QED
    BY <1>3, <2>1
<1> QED
  BY <1>4

LEMMA SortsAsDer ==
  ASSUME NEW o, NEW s, Means(o, s), NEW p, NEW t, Means(p, t)
  PROVE  Less(o, p) <=> LessRef(<<o.length>> \o as_bytes(o), <<p.length>> \o as_bytes(p))
<1> DEFINE n == o.length
           m == p.length
           x == <<n>> \o as_bytes(o)
           y == <<m>> \o as_bytes(p)
           k == IF Len(x) < Len(y) THEN Len(x) ELSE Len(y)
           u == SubSeq(x, 1, k)
           v == SubSeq(y, 1, k)
<1>1. Less(o, p) <=> IF n # m THEN n < m
                     ELSE o.bytes # p.bytes /\ o.bytes[FirstDifference(o.bytes, p.bytes)]
                                                 < p.bytes[FirstDifference(o.bytes, p.bytes)]
  BY DEF Less
<1>2. LessRef(x, y) <=> IF u = v THEN Len(x) < Len(y) ELSE x[FirstDifference(u, v)] < y[FirstDifference(u, v)]
  BY DEF LessRef
<1>3. /\ o.bytes \in Arrays /\ n \in 1 .. MaxSize /\ n \in Nat \ {0}
      /\ \A i \in n + 1 .. MaxSize : o.bytes[i] = 0
      /\ as_bytes(o) \in Seq(Octets) /\ Len(as_bytes(o)) = n /\ \A i \in 1 .. n : as_bytes(o)[i] = o.bytes[i]
  BY MeansIs, MeansWhatItYields
<1>4. /\ p.bytes \in Arrays /\ m \in 1 .. MaxSize /\ m \in Nat \ {0}
      /\ \A i \in m + 1 .. MaxSize : p.bytes[i] = 0
      /\ as_bytes(p) \in Seq(Octets) /\ Len(as_bytes(p)) = m /\ \A i \in 1 .. m : as_bytes(p)[i] = p.bytes[i]
  BY MeansIs, MeansWhatItYields
<1>5. ASSUME NEW l \in Nat, NEW w, w \in Seq(Octets), Len(w) = l
      PROVE  IsSequence(<<l>> \o w) /\ Len(<<l>> \o w) = l + 1 /\ (<<l>> \o w)[1] = l
             /\ \A i \in 1 .. l : (<<l>> \o w)[i + 1] = w[i]
  <2>1. IsSequence(<<l>>) /\ Len(<<l>>) = 1 /\ <<l>>[1] = l /\ IsSequence(w)
    BY <1>5, OfItsElements DEF IsSequence, Elements
  <2> DEFINE h == <<l>>
  <2>2. IsSequence(h) /\ Len(h) = 1 /\ h[1] = l
    BY <2>1
  <2> HIDE DEF h
  <2>3. IsSequence(h \o w) /\ Len(h \o w) = 1 + l /\ (\A i \in 1 .. 1 : (h \o w)[i] = h[i])
        /\ \A i \in 1 .. l : (h \o w)[1 + i] = w[i]
    <3>1. IsSequence(h \o w) /\ Len(h \o w) = Len(h) + Len(w) /\ (\A i \in 1 .. Len(h) : (h \o w)[i] = h[i])
          /\ \A i \in 1 .. Len(w) : (h \o w)[Len(h) + i] = w[i]
      <4>1. IsSequence(h) /\ IsSequence(w)
        BY <2>1, <2>2
      <4> QED
        BY ONLY <4>1, ConcatFacts
    <3> QED
      BY <1>5, <2>2, <3>1
  <2>4. IsSequence(h \o w) /\ Len(h \o w) = l + 1 /\ (h \o w)[1] = l /\ \A i \in 1 .. l : (h \o w)[i + 1] = w[i]
    BY <2>2, <2>3
  <2> QED
    BY <2>4 DEF h
<1>6. IsSequence(x) /\ Len(x) = n + 1 /\ x[1] = n /\ \A i \in 1 .. n : x[i + 1] = o.bytes[i]
  BY <1>3, <1>5
<1>7. IsSequence(y) /\ Len(y) = m + 1 /\ y[1] = m /\ \A i \in 1 .. m : y[i + 1] = p.bytes[i]
  BY <1>4, <1>5
<1> HIDE DEF n, m, x, y
<1>8. k \in Nat \ {0} /\ k <= Len(x) /\ k <= Len(y) /\ 1 \in 1 .. k /\ k <= n + 1 /\ k <= m + 1
      /\ (n = m => k = n + 1)
  BY <1>3, <1>4, <1>6, <1>7
<1> HIDE DEF k
<1>9. IsSequence(u) /\ Len(u) = k /\ \A i \in 1 .. k : u[i] = x[i]
  <2>1. IsSequence(u) /\ Len(u) = k - 1 + 1 /\ \A i \in 1 .. k - 1 + 1 : u[i] = x[1 - 1 + i]
    BY <1>6, <1>8, SubSeqFacts
  <2> HIDE DEF u
  <2> QED
    BY <1>8, <2>1
<1>10. IsSequence(v) /\ Len(v) = k /\ \A i \in 1 .. k : v[i] = y[i]
  <2>1. IsSequence(v) /\ Len(v) = k - 1 + 1 /\ \A i \in 1 .. k - 1 + 1 : v[i] = y[1 - 1 + i]
    BY <1>7, <1>8, SubSeqFacts
  <2> HIDE DEF v
  <2> QED
    BY <1>8, <2>1
<1> HIDE DEF u, v
<1>11. DOMAIN u = 1 .. k
  BY <1>9, SequenceShape
<1>12. CASE n # m
  <2>1. u[1] = n /\ v[1] = m
    BY <1>6, <1>7, <1>8, <1>9, <1>10
  <2>2. FirstDifference(u, v) = 1
    <3>1. \A j \in 1 .. 1 - 1 : u[j] = v[j]
      OBVIOUS
    <3>2. u[1] # v[1] /\ k \in Nat
      BY <1>8, <1>12, <2>1
    <3> QED
      BY <1>8, <1>11, <3>1, <3>2, FirstDifferenceIs
  <2>3. u # v
    BY <1>12, <2>1
  <2>4. LessRef(x, y) <=> n < m
    BY <1>2, <1>6, <1>7, <2>2, <2>3
  <2> QED
    BY <1>1, <1>12, <2>4 DEF x, y, n, m
<1>13. CASE n = m /\ o.bytes = p.bytes
  <2>1. \A i \in 1 .. k : i = 1 \/ i - 1 \in 1 .. n
    BY <1>3, <1>8, <1>13
  <2>2. \A i \in 1 .. k : i = 1 \/ (i - 1) + 1 = i
    OBVIOUS
  <2>3. ASSUME NEW i \in 1 .. k PROVE u[i] = v[i]
    <3>1. CASE i = 1
      BY <1>6, <1>7, <1>8, <1>9, <1>10, <1>13, <3>1
    <3>2. CASE i # 1
      <4> DEFINE j == i - 1
      <4>1. j \in 1 .. n /\ j + 1 = i
        BY <2>1, <2>2, <3>2
      <4> HIDE DEF j
      <4>2. x[j + 1] = o.bytes[j] /\ y[j + 1] = p.bytes[j]
        BY <1>6, <1>7, <1>13, <4>1
      <4> QED
        BY <1>9, <1>10, <1>13, <4>1, <4>2
    <3> QED
      BY <3>1, <3>2
  <2>4. u = v
    BY <1>9, <1>10, <2>3, SequencesEqual
  <2>5. ~ LessRef(x, y)
    BY <1>2, <1>3, <1>6, <1>7, <1>13, <2>4
  <2> QED
    BY <1>1, <1>13, <2>5 DEF x, y, n, m
<1>14. CASE n = m /\ o.bytes # p.bytes
  <2> DEFINE f == o.bytes
             g == p.bytes
  <2>1. PICK d \in 1 .. MaxSize : f[d] # g[d]
    <3>1. f \in Arrays /\ g \in Arrays /\ f # g
      BY <1>3, <1>4, <1>14
    <3> HIDE DEF f, g
    <3>2. f = [i \in 1 .. MaxSize |-> f[i]] /\ g = [i \in 1 .. MaxSize |-> g[i]]
      BY <3>1 DEF Arrays
    <3> SUFFICES ASSUME \A i \in 1 .. MaxSize : f[i] = g[i] PROVE FALSE
      OBVIOUS
    <3>3. [i \in 1 .. MaxSize |-> f[i]] = [i \in 1 .. MaxSize |-> g[i]]
      OBVIOUS
    <3> QED
      BY <3>1, <3>2, <3>3
  <2>2. d \in 1 .. n
    <3>1. d \in 1 .. n \/ d \in n + 1 .. MaxSize
      BY <1>3
    <3> QED
      BY <1>3, <1>4, <1>14, <2>1, <3>1
  <2>3. PICK i \in 1 .. n : f[i] # g[i] /\ \A j \in 1 .. i - 1 : f[j] = g[j]
    <3>1. n \in Nat /\ f[d] # g[d]
      BY <1>3, <2>1
    <3> HIDE DEF f, g
    <3>2. \E i \in 1 .. n : f[i] # g[i] /\ \A j \in 1 .. i - 1 : f[j] = g[j]
      BY ONLY <2>2, <3>1, ThereIsAFirst
    <3> QED
      BY <3>2
  <2>4. FirstDifference(o.bytes, p.bytes) = i
    <3>1. DOMAIN o.bytes = 1 .. MaxSize /\ i \in 1 .. MaxSize /\ MaxSize \in Nat
      BY <1>3, OidNumbers DEF Arrays
    <3> QED
      BY <2>3, <3>1, FirstDifferenceIs
  <2> DEFINE h == i + 1
  <2>5. h \in 1 .. k /\ h - 1 = i
    BY <1>3, <1>8, <1>14
  <2>6. x[h] = o.bytes[i] /\ y[h] = p.bytes[i]
    BY <1>6, <1>7, <1>14
  <2> HIDE DEF h
  <2>7. u[h] = o.bytes[i] /\ v[h] = p.bytes[i]
    BY <1>9, <1>10, <2>5, <2>6
  <2>8. ASSUME NEW j \in 1 .. h - 1 PROVE u[j] = v[j]
    <3>1. j \in 1 .. k
      BY <1>8, <2>5
    <3>2. CASE j = 1
      BY <1>6, <1>7, <1>8, <1>9, <1>10, <1>14, <3>2
    <3>3. CASE j # 1
      <4> DEFINE l == j - 1
      <4>1. l \in 1 .. i - 1 /\ l + 1 = j /\ l \in 1 .. n
        BY <1>3, <2>5, <3>3
      <4> HIDE DEF l
      <4>2. x[l + 1] = o.bytes[l] /\ y[l + 1] = p.bytes[l] /\ o.bytes[l] = p.bytes[l]
        BY <1>6, <1>7, <1>14, <2>3, <4>1
      <4> QED
        BY <1>9, <1>10, <3>1, <4>1, <4>2
    <3> QED
      BY <3>2, <3>3
  <2>9. FirstDifference(u, v) = h
    <3>1. u[h] # v[h] /\ k \in Nat
      BY <1>8, <2>3, <2>7
    <3> QED
      BY <1>11, <2>5, <2>8, <3>1, FirstDifferenceIs
  <2>10. u # v
    BY <2>3, <2>7
  <2>11. LessRef(x, y) <=> o.bytes[i] < p.bytes[i]
    BY <1>2, <2>6, <2>9, <2>10
  <2> QED
    BY <1>1, <1>14, <2>4, <2>11 DEF x, y, n, m
<1> QED
  BY <1>12, <1>13, <1>14

--------------------------------------------------------------------------------
(* The numbers of a text.                                                  *)
LEMMA RadixIs == Radix \in Nat \ {0} /\ DOT \in Nat /\ LETTER = DOT + 1 /\ Digits = 0 .. DOT - 1
  BY TextAssumption DEF DOT, LETTER, Digits

Counts(f, digits) ==
  /\ f[0] = 0 /\ Number(digits) = f[Len(digits)]
  /\ \A k \in 1 .. Len(digits) : f[k] = f[k - 1] * Radix + digits[k]

LEMMA CountsSteps ==
  ASSUME NEW digits \in Seq(Nat)
  PROVE  \E f \in [0 .. Len(digits) -> Nat] : Counts(f, digits)
<1> DEFINE last == Len(digits)
           step == [k \in 1 .. last |-> [v \in Nat |-> v * Radix + digits[k]]]
           Has(f) == f = [k \in 0 .. last |-> IF k = 0 THEN 0 ELSE f[k - 1] * Radix + digits[k]]
           p == CHOOSE f : Has(f)
<1>1. last \in Nat /\ 0 \in Nat /\ step \in [1 .. last -> [Nat -> Nat]]
  <2>1. Len(digits) \in Nat /\ \A k \in 1 .. Len(digits) : digits[k] \in Nat
    OBVIOUS
  <2>2. ASSUME NEW k \in 1 .. Len(digits), NEW v \in Nat PROVE v * Radix + digits[k] \in Nat
    <3>1. v * Radix \in Nat /\ digits[k] \in Nat
      BY <2>1, RadixIs, Multiplied
    <3> QED
      BY <3>1
  <2> QED
    BY <2>1, <2>2
<1>2. \A k \in 1 .. last : \A v \in Nat : step[k][v] = v * Radix + digits[k]
  OBVIOUS
<1>3. Number(digits) = p[last]
  BY DEF Number
<1> HIDE DEF step, last
<1>4. PICK f \in [0 .. last -> Nat] : Unfolds(f, 0, step, last)
  BY <1>1, Recursion
<1>5. f[0] = 0 /\ \A k \in 1 .. last : f[k] = f[k - 1] * Radix + digits[k]
  <2>1. \A k \in 1 .. last : f[k - 1] \in Nat
    BY <1>1, <1>4
  <2> QED
    BY <1>2, <1>4, <2>1 DEF Unfolds
<1>6. Has(f)
  <2>1. \A k \in 0 .. last : f[k] = IF k = 0 THEN 0 ELSE f[k - 1] * Radix + digits[k]
    BY <1>1, <1>4, <1>5
  <2> QED
    BY <1>4, <2>1
<1>7. Has(p)
  <2> HIDE DEF Has
  <2> QED
    BY <1>6
<1>8. p[0] = 0 /\ \A k \in 1 .. last : p[k] = p[k - 1] * Radix + digits[k]
  <2> HIDE DEF p
  <2>1. \A k \in 0 .. last : p[k] = IF k = 0 THEN 0 ELSE p[k - 1] * Radix + digits[k]
    BY <1>7
  <2>2. 0 \in 0 .. last /\ \A k \in 1 .. last : k \in 0 .. last /\ k # 0
    BY <1>1
  <2> QED
    BY <2>1, <2>2
<1> HIDE DEF p
<1>9. \A k \in 0 .. last : p[k] = f[k]
  <2>1. GoWith(p, f, last)
    BY <1>5, <1>8 DEF GoWith
  <2> QED
    BY <1>1, <2>1, SameSteps
<1>10. p \in [0 .. last -> Nat]
  <2> HIDE DEF Has
  <2>1. p = [k \in 0 .. last |-> p[k]]
    BY <1>7 DEF Has
  <2> QED
    BY <1>4, <1>9, <2>1
<1> QED
  BY <1>3, <1>8, <1>10 DEF Counts, last

LEMMA NumberOfMore ==
  ASSUME NEW s \in Seq(Nat), NEW c \in Nat
  PROVE  /\ Number(s) \in Nat /\ Number(Append(s, c)) = Number(s) * Radix + c
         /\ Number(Append(s, c)) \in Nat /\ Number(s) <= Number(Append(s, c))
<1> DEFINE t == Append(s, c)
           n == Len(s)
           m == Len(t)
<1>1. t \in Seq(Nat) /\ n \in Nat /\ m = n + 1 /\ t[m] = c /\ \A k \in 1 .. n : t[k] = s[k]
  OBVIOUS
<1> HIDE DEF t
<1>2. PICK p \in [0 .. n -> Nat] : Counts(p, s)
  BY CountsSteps
<1>3. PICK q \in [0 .. m -> Nat] : Counts(q, t)
  BY <1>1, CountsSteps
<1>4. p[n] = q[n]
  <2>1. GoWith(p, q, n)
    <3>1. \A k \in 1 .. n : k \in 1 .. m
      BY <1>1
    <3> QED
      BY <1>1, <1>2, <1>3, <3>1 DEF GoWith, Counts
  <2>2. n \in 0 .. n
    BY <1>1
  <2> HIDE DEF n
  <2> QED
    BY <1>1, <2>1, <2>2, SameSteps
<1>5. q[m] = q[n] * Radix + c
  <2>1. m \in 1 .. m /\ m - 1 = n
    BY <1>1
  <2> QED
    BY <1>1, <1>3, <2>1 DEF Counts
<1>6. Number(s) = p[n] /\ Number(t) = q[m] /\ n \in 0 .. n /\ m \in 0 .. m
  BY <1>1, <1>2, <1>3 DEF Counts
<1>7. Number(s) \in Nat /\ Number(t) \in Nat
  BY <1>2, <1>3, <1>6
<1>8. Number(t) = Number(s) * Radix + c
  BY <1>4, <1>5, <1>6
<1>9. Number(s) <= Number(t)
  <2> DEFINE a == Number(s)
  <2>1. a \in Nat /\ Number(t) = a * Radix + c
    BY <1>7, <1>8
  <2> HIDE DEF a
  <2>2. a * Radix \in Nat /\ a * Radix >= a
    BY <2>1, RadixIs, Multiplied
  <2>3. a <= Number(t)
    BY <1>7, <2>1, <2>2
  <2> QED
    BY <2>3 DEF a
<1> QED
  BY <1>7, <1>8, <1>9 DEF t

LEMMA NumberOfNone == Number(<<>>) = 0
<1>1. <<>> \in Seq(Nat) /\ Len(<<>>) = 0
  OBVIOUS
<1>2. PICK p \in [0 .. Len(<<>>) -> Nat] : Counts(p, <<>>)
  BY <1>1, CountsSteps
<1> QED
  BY <1>1, <1>2 DEF Counts

(* The fields of a text.                                                   *)
Characters == 0 .. LETTER
FieldLists == {fields \in Seq(Seq(Characters)) : Len(fields) >= 1}
LastField(fields) == fields[Len(fields)]

LEMMA AddCharacterIs ==
  ASSUME NEW fields \in FieldLists, NEW c \in Characters
  PROVE  /\ AddCharacter(fields, c) \in FieldLists
         /\ c = DOT => /\ Len(AddCharacter(fields, c)) = Len(fields) + 1
                       /\ LastField(AddCharacter(fields, c)) = <<>>
                       /\ \A i \in 1 .. Len(fields) : AddCharacter(fields, c)[i] = fields[i]
         /\ c # DOT => /\ Len(AddCharacter(fields, c)) = Len(fields)
                       /\ LastField(AddCharacter(fields, c)) = Append(LastField(fields), c)
                       /\ \A i \in 1 .. Len(fields) - 1 : AddCharacter(fields, c)[i] = fields[i]
<1> DEFINE n == Len(fields)
           d == fields[n]
           S == Seq(Characters)
<1>1. fields \in Seq(S) /\ n \in Nat \ {0} /\ n \in 1 .. n
  BY DEF FieldLists
<1>2. d \in S
  BY <1>1
<1>3. <<>> \in S /\ Append(d, c) \in S
  BY <1>2
<1> HIDE DEF S
<1>4. CASE c = DOT
  <2> DEFINE t == Append(fields, <<>>)
  <2>1. t \in Seq(S) /\ Len(t) = n + 1 /\ t[n + 1] = <<>> /\ \A i \in 1 .. n : t[i] = fields[i]
    BY <1>1, <1>3
  <2>2. AddCharacter(fields, c) = t
    BY <1>4 DEF AddCharacter
  <2> HIDE DEF t
  <2>3. t \in FieldLists
    BY <1>1, <2>1 DEF FieldLists, S
  <2> QED
    BY <1>4, <2>1, <2>2, <2>3 DEF LastField
<1>5. CASE c # DOT
  <2> DEFINE e == Append(d, c)
             t == [fields EXCEPT ![n] = e]
  <2>1. AddCharacter(fields, c) = t
    BY <1>5 DEF AddCharacter
  <2>2. e \in S
    BY <1>3
  <2> HIDE DEF e
  <2>3. t \in Seq(S) /\ Len(t) = n /\ t[n] = e /\ \A i \in 1 .. n - 1 : t[i] = fields[i]
    BY <1>1, <2>2
  <2> HIDE DEF t
  <2>4. t \in FieldLists
    BY <1>1, <2>3 DEF FieldLists, S
  <2> QED
    BY <1>5, <2>1, <2>3, <2>4 DEF LastField, e
<1> QED
  BY <1>4, <1>5

Blank == << <<>> >>
Splits(f, t, n) ==
  /\ f[0] = Blank /\ Fields(t, n) = f[n]
  /\ \A k \in 1 .. n : f[k] = AddCharacter(f[k - 1], t[k])

LEMMA SplitsSteps ==
  ASSUME NEW t \in Seq(Characters), NEW n \in 0 .. Len(t)
  PROVE  \E f \in [0 .. n -> FieldLists] : Splits(f, t, n)
<1> DEFINE last == n
           step == [k \in 1 .. last |-> [v \in FieldLists |-> AddCharacter(v, t[k])]]
           Has(f) == f = [k \in 0 .. last |-> IF k = 0 THEN Blank ELSE AddCharacter(f[k - 1], t[k])]
           p == CHOOSE f : Has(f)
<1>1. last \in Nat /\ Blank \in FieldLists /\ step \in [1 .. last -> [FieldLists -> FieldLists]]
  <2>1. n \in Nat /\ \A k \in 1 .. n : t[k] \in Characters
    OBVIOUS
  <2>2. Blank \in FieldLists
    BY DEF FieldLists, Blank
  <2> QED
    BY <2>1, <2>2, AddCharacterIs
<1>2. \A k \in 1 .. last : \A v \in FieldLists : step[k][v] = AddCharacter(v, t[k])
  OBVIOUS
<1>3. Fields(t, n) = p[last]
  BY DEF Fields, Blank
<1> HIDE DEF step, last
<1>4. PICK f \in [0 .. last -> FieldLists] : Unfolds(f, Blank, step, last)
  BY <1>1, Recursion
<1>5. f[0] = Blank /\ \A k \in 1 .. last : f[k] = AddCharacter(f[k - 1], t[k])
  <2>1. \A k \in 1 .. last : f[k - 1] \in FieldLists
    BY <1>1, <1>4
  <2> QED
    BY <1>2, <1>4, <2>1 DEF Unfolds
<1>6. Has(f)
  <2>1. \A k \in 0 .. last : f[k] = IF k = 0 THEN Blank ELSE AddCharacter(f[k - 1], t[k])
    BY <1>1, <1>4, <1>5
  <2> QED
    BY <1>4, <2>1
<1>7. Has(p)
  <2> HIDE DEF Has
  <2> QED
    BY <1>6
<1>8. p[0] = Blank /\ \A k \in 1 .. last : p[k] = AddCharacter(p[k - 1], t[k])
  <2> HIDE DEF p
  <2>1. \A k \in 0 .. last : p[k] = IF k = 0 THEN Blank ELSE AddCharacter(p[k - 1], t[k])
    BY <1>7
  <2>2. 0 \in 0 .. last /\ \A k \in 1 .. last : k \in 0 .. last /\ k # 0
    BY <1>1
  <2> QED
    BY <2>1, <2>2
<1> HIDE DEF p
<1>9. \A k \in 0 .. last : p[k] = f[k]
  <2>1. GoWith(p, f, last)
    BY <1>5, <1>8 DEF GoWith
  <2> QED
    BY <1>1, <2>1, SameSteps
<1>10. p \in [0 .. last -> FieldLists]
  <2> HIDE DEF Has
  <2>1. p = [k \in 0 .. last |-> p[k]]
    BY <1>7 DEF Has
  <2> QED
    BY <1>4, <1>9, <2>1
<1> QED
  BY <1>3, <1>8, <1>10 DEF Splits, last

LEMMA FieldsOfMore ==
  ASSUME NEW t \in Seq(Characters), NEW n \in Nat, n + 1 <= Len(t)
  PROVE  Fields(t, n) \in FieldLists /\ Fields(t, n + 1) = AddCharacter(Fields(t, n), t[n + 1])
<1> DEFINE m == n + 1
<1>1. m \in 0 .. Len(t) /\ n \in 0 .. Len(t) /\ n \in 0 .. n /\ m - 1 = n /\ m \in 1 .. m
      /\ \A k \in 1 .. n : k \in 1 .. m
  OBVIOUS
<1> HIDE DEF m
<1>2. PICK p \in [0 .. n -> FieldLists] : Splits(p, t, n)
  BY <1>1, SplitsSteps
<1>3. PICK q \in [0 .. m -> FieldLists] : Splits(q, t, m)
  BY <1>1, SplitsSteps
<1>4. p[n] = q[n]
  <2>1. GoWith(p, q, n)
    BY <1>1, <1>2, <1>3 DEF GoWith, Splits
  <2> QED
    BY <1>1, <2>1, SameSteps
<1>5. Fields(t, m) = AddCharacter(Fields(t, n), t[m])
  BY <1>1, <1>2, <1>3, <1>4 DEF Splits
<1>6. Fields(t, n) \in FieldLists
  BY <1>1, <1>2 DEF Splits
<1> QED
  BY <1>5, <1>6 DEF m

LEMMA FieldsIs ==
  ASSUME NEW t \in Seq(Characters), NEW n \in 0 .. Len(t)
  PROVE  Fields(t, n) \in FieldLists /\ Fields(t, 0) = << <<>> >>
<1>1. PICK p \in [0 .. n -> FieldLists] : Splits(p, t, n)
  BY SplitsSteps
<1>2. 0 \in 0 .. Len(t) /\ n \in 0 .. n
  OBVIOUS
<1>3. PICK q \in [0 .. 0 -> FieldLists] : Splits(q, t, 0)
  BY <1>2, SplitsSteps
<1> QED
  BY <1>1, <1>2, <1>3 DEF Splits, Blank

--------------------------------------------------------------------------------
(* Which arcs an OID can hold.                                             *)

Measures(f, numbers) ==
  /\ f[0] = 1 /\ OctetsNeeded(numbers) = f[Len(numbers)]
  /\ \A k \in 1 .. Len(numbers) : f[k] = f[k - 1] + (IF k <= 2 THEN 0 ELSE base128_len(numbers[k]))

LEMMA MeasuresSteps ==
  ASSUME NEW numbers \in Seq(Nat)
  PROVE  \E f \in [0 .. Len(numbers) -> Nat] : Measures(f, numbers)
<1> DEFINE last == Len(numbers)
           step == [k \in 1 .. last |-> [v \in Nat |-> v + (IF k <= 2 THEN 0 ELSE base128_len(numbers[k]))]]
           Has(f) == f = [k \in 0 .. last |-> IF k = 0 THEN 1 ELSE f[k - 1] + (IF k <= 2 THEN 0 ELSE base128_len(numbers[k]))]
           p == CHOOSE f : Has(f)
<1>1. last \in Nat /\ 1 \in Nat /\ step \in [1 .. last -> [Nat -> Nat]]
  <2>1. Len(numbers) \in Nat /\ \A k \in 1 .. Len(numbers) : numbers[k] \in Nat
    OBVIOUS
  <2>2. ASSUME NEW k \in 1 .. Len(numbers), NEW v \in Nat
        PROVE  v + (IF k <= 2 THEN 0 ELSE base128_len(numbers[k])) \in Nat
    <3>1. base128_len(numbers[k]) \in Nat
      <4>1. base128_len(numbers[k]) \in 1 .. ArcBytes /\ ArcBytes \in Nat
        BY <2>1, LengthOfArc, OidNumbers
      <4> QED
        BY <4>1
    <3> QED
      BY <3>1
  <2> QED
    BY <2>1, <2>2
<1>2. \A k \in 1 .. last : \A v \in Nat : step[k][v] = v + (IF k <= 2 THEN 0 ELSE base128_len(numbers[k]))
  OBVIOUS
<1>3. OctetsNeeded(numbers) = p[last]
  BY DEF OctetsNeeded
<1> HIDE DEF step, last
<1>4. PICK f \in [0 .. last -> Nat] : Unfolds(f, 1, step, last)
  BY <1>1, Recursion
<1>5. f[0] = 1 /\ \A k \in 1 .. last : f[k] = f[k - 1] + (IF k <= 2 THEN 0 ELSE base128_len(numbers[k]))
  <2>1. \A k \in 1 .. last : f[k - 1] \in Nat
    BY <1>1, <1>4
  <2> QED
    BY <1>2, <1>4, <2>1 DEF Unfolds
<1>6. Has(f)
  <2>1. \A k \in 0 .. last : f[k] = IF k = 0 THEN 1 ELSE f[k - 1] + (IF k <= 2 THEN 0 ELSE base128_len(numbers[k]))
    BY <1>1, <1>4, <1>5
  <2> QED
    BY <1>4, <2>1
<1>7. Has(p)
  <2> HIDE DEF Has
  <2> QED
    BY <1>6
<1>8. p[0] = 1 /\ \A k \in 1 .. last : p[k] = p[k - 1] + (IF k <= 2 THEN 0 ELSE base128_len(numbers[k]))
  <2> HIDE DEF p
  <2>1. \A k \in 0 .. last : p[k] = IF k = 0 THEN 1 ELSE p[k - 1] + (IF k <= 2 THEN 0 ELSE base128_len(numbers[k]))
    BY <1>7
  <2>2. 0 \in 0 .. last /\ \A k \in 1 .. last : k \in 0 .. last /\ k # 0
    BY <1>1
  <2> QED
    BY <2>1, <2>2
<1> HIDE DEF p
<1>9. \A k \in 0 .. last : p[k] = f[k]
  <2>1. GoWith(p, f, last)
    BY <1>5, <1>8 DEF GoWith
  <2> QED
    BY <1>1, <2>1, SameSteps
<1>10. p \in [0 .. last -> Nat]
  <2> HIDE DEF Has
  <2>1. p = [k \in 0 .. last |-> p[k]]
    BY <1>7 DEF Has
  <2> QED
    BY <1>4, <1>9, <2>1
<1> QED
  BY <1>3, <1>8, <1>10 DEF Measures, last

LEMMA OctetsOfMore ==
  ASSUME NEW s \in Seq(Nat), NEW a \in Nat
  PROVE  /\ OctetsNeeded(s) \in Nat
         /\ OctetsNeeded(Append(s, a)) = OctetsNeeded(s) + (IF Len(s) < 2 THEN 0 ELSE base128_len(a))
<1> DEFINE t == Append(s, a)
           n == Len(s)
           m == Len(t)
           more == IF n < 2 THEN 0 ELSE base128_len(a)
<1>1. t \in Seq(Nat) /\ n \in Nat /\ m = n + 1 /\ t[m] = a /\ \A k \in 1 .. n : t[k] = s[k]
  OBVIOUS
<1> HIDE DEF t
<1>2. PICK p \in [0 .. n -> Nat] : Measures(p, s)
  BY MeasuresSteps
<1>3. PICK q \in [0 .. m -> Nat] : Measures(q, t)
  BY <1>1, MeasuresSteps
<1>4. p[n] = q[n]
  <2>1. GoWith(p, q, n)
    <3>1. \A k \in 1 .. n : k \in 1 .. m
      BY <1>1
    <3> QED
      BY <1>1, <1>2, <1>3, <3>1 DEF GoWith, Measures
  <2>2. n \in 0 .. n
    BY <1>1
  <2> HIDE DEF n
  <2> QED
    BY <1>1, <2>1, <2>2, SameSteps
<1>5. q[m] = q[n] + more
  <2>1. m \in 1 .. m /\ m - 1 = n /\ (m <= 2 <=> n < 2)
    BY <1>1
  <2>2. q[m] = q[m - 1] + (IF m <= 2 THEN 0 ELSE base128_len(t[m]))
    BY <1>3, <2>1 DEF Measures
  <2> HIDE DEF m, n
  <2> QED
    BY <1>1, <2>1, <2>2 DEF more
<1> HIDE DEF more
<1>6. OctetsNeeded(s) = p[n] /\ OctetsNeeded(t) = q[m] /\ n \in 0 .. n
  BY <1>1, <1>2, <1>3 DEF Measures
<1> QED
  BY <1>2, <1>4, <1>5, <1>6 DEF t, more

LEMMA OctetsOfNone == OctetsNeeded(<<>>) = 1
<1>1. <<>> \in Seq(Nat) /\ Len(<<>>) = 0
  OBVIOUS
<1>2. PICK p \in [0 .. Len(<<>>) -> Nat] : Measures(p, <<>>)
  BY <1>1, MeasuresSteps
<1> QED
  BY <1>1, <1>2 DEF Measures

(* The encoder takes the arcs that fit, and counts their octets.           *)
Fits(s) ==
  /\ Len(s) >= 1 => s[1] <= 2
  /\ Len(s) >= 2 => s[2] <= ARC_MAX_SECOND
  /\ OctetsNeeded(s) <= MaxSize
TakesWhatFits(s) ==
  /\ IsOk(EncodeArcs(NewEncoder, s)) <=> Fits(s)
  /\ IsOk(EncodeArcs(NewEncoder, s)) /\ Len(s) >= 2 =>
       EncodeArcs(NewEncoder, s).value.cursor = OctetsNeeded(s)
  /\ Len(s) <= 2 => OctetsNeeded(s) = 1

LEMMA OneMoreFits ==
  ASSUME NEW p \in Seq(Arcs), TakesWhatFits(p), NEW a \in Arcs
  PROVE  TakesWhatFits(Append(p, a))
<1> DEFINE t == Append(p, a)
           n == Len(p)
           Enc(s) == EncodeArcs(NewEncoder, s)
           e == Enc(p).value
           k == base128_len(a)
<1>1. t \in Seq(Arcs) /\ n \in Nat /\ Len(t) = n + 1 /\ t[n + 1] = a /\ (\A i \in 1 .. n : t[i] = p[i])
      /\ p \in Seq(Nat) /\ a \in Nat /\ MaxSize \in Nat \ {0} /\ ARC_MAX_SECOND \in Nat
  <2>1. t \in Seq(Arcs) /\ n \in Nat /\ Len(t) = n + 1 /\ t[n + 1] = a /\ \A i \in 1 .. n : t[i] = p[i]
    OBVIOUS
  <2>2. p \in Seq(Nat) /\ a \in Nat /\ MaxSize \in Nat \ {0} /\ ARC_MAX_SECOND \in Nat
    BY OidNumbers, OfMore
  <2> HIDE DEF t, n
  <2> QED
    BY <2>1, <2>2
<1>2. Enc(t) = OneMore(Enc(p), a)
  BY EncodeMore, NewAtWork
<1>3. OctetsNeeded(p) \in Nat /\ OctetsNeeded(t) = OctetsNeeded(p) + (IF n < 2 THEN 0 ELSE k)
  BY <1>1, OctetsOfMore
<1>4. k \in Nat \ {0}
  BY BodyWrites, NothingIs
<1> HIDE DEF t, n, k
<1>5. IsOk(Enc(p)) => Enc(p) = Ok(e) /\ Encodes(e, p)
  BY EncodingIs
<1>6. (IsOk(Enc(p)) <=> Fits(p)) /\ (IsOk(Enc(p)) /\ n >= 2 => e.cursor = OctetsNeeded(p))
      /\ (n <= 2 => OctetsNeeded(p) = 1)
  BY DEF TakesWhatFits, n
<1> HIDE DEF Enc, e
<1>7. Fits(t) => Fits(p)
  <2> SUFFICES ASSUME Fits(t) PROVE Fits(p)
    OBVIOUS
  <2>1. OctetsNeeded(p) <= OctetsNeeded(t) /\ OctetsNeeded(t) \in Nat
    BY <1>1, <1>3, <1>4
  <2>2. OctetsNeeded(t) <= MaxSize /\ (Len(t) >= 1 => t[1] <= 2) /\ (Len(t) >= 2 => t[2] <= ARC_MAX_SECOND)
    BY DEF Fits
  <2>3. OctetsNeeded(p) <= MaxSize
    BY <1>1, <1>3, <2>1, <2>2
  <2>4. n >= 1 => p[1] <= 2
    BY <1>1, <2>2
  <2>5. n >= 2 => p[2] <= ARC_MAX_SECOND
    BY <1>1, <2>2
  <2> QED
    BY <2>3, <2>4, <2>5 DEF Fits, n
<1>8. CASE ~ IsOk(Enc(p))
  <2>1. ~ IsOk(Enc(t)) /\ ~ Fits(t)
    BY <1>2, <1>6, <1>7, <1>8 DEF OneMore
  <2>2. Len(t) <= 2 => OctetsNeeded(t) = 1
    BY <1>1, <1>3, <1>6
  <2> QED
    BY <2>1, <2>2 DEF TakesWhatFits, Enc, t
<1>9. CASE IsOk(Enc(p))
  <2>1. Enc(t) = arc(e, a) /\ Encodes(e, p) /\ Fits(p)
    BY <1>2, <1>5, <1>6, <1>9 DEF OneMore, e
  <2>2. CASE n = 0
    <3>1. e = NewEncoder
      BY <2>1, <2>2 DEF Encodes, n
    <3>2. arc(e, a) = IF a > 2 THEN Err("ArcInvalid") ELSE Ok(encoder("FirstArc", a, e.bytes, 0))
      BY <3>1, NothingIs DEF arc, encoder, ARC_MAX_FIRST
    <3>3. IsOk(Enc(t)) <=> a <= 2
      BY <1>1, <2>1, <3>2 DEF IsOk, Ok, Err
    <3>4. OctetsNeeded(t) = 1 /\ Len(t) = 1 /\ t[1] = a
      BY <1>1, <1>3, <1>6, <2>2
    <3>5. Fits(t) <=> a <= 2
      BY <1>1, <3>4 DEF Fits
    <3> QED
      BY <3>3, <3>4, <3>5 DEF TakesWhatFits, Enc, t
  <2>3. CASE n = 1
    <3>1. e = encoder("FirstArc", p[1], Nothing, 0) /\ p[1] \in 0 .. 2
      BY <2>1, <2>3 DEF Encodes, n
    <3>2. IsOk(arc(e, a)) <=> a <= ARC_MAX_SECOND
      BY <3>1, ArcAtRoot
    <3>3. OctetsNeeded(t) = 1 /\ Len(t) = 2 /\ t[1] = p[1] /\ t[2] = a
      BY <1>1, <1>3, <1>6, <2>3
    <3>4. IsOk(Enc(t)) <=> Fits(t)
      <4>1. Fits(t) <=> a <= ARC_MAX_SECOND
        <5>1. t[1] <= 2 /\ Len(t) >= 1 /\ Len(t) >= 2
          BY <3>1, <3>3
        <5>2. OctetsNeeded(t) <= MaxSize
          BY <1>1, <3>3
        <5> QED
          BY <3>3, <5>1, <5>2 DEF Fits
      <4> QED
        BY <2>1, <3>2, <4>1
    <3>5. IsOk(Enc(t)) => Enc(t).value.cursor = 1
      <4> SUFFICES ASSUME IsOk(Enc(t)) PROVE Enc(t).value.cursor = 1
        OBVIOUS
      <4>1. arc(e, a) = Ok(encoder("Body", 0, [e.bytes EXCEPT ![1] = (ARC_MAX_SECOND + 1) * e.first + a], 1))
        BY <2>1, <3>1 DEF arc, encoder, IsOk, Err
      <4> QED
        BY <2>1, <4>1 DEF Ok, encoder
    <3> QED
      BY <3>3, <3>4, <3>5 DEF TakesWhatFits, Enc, t
  <2>4. CASE n >= 2
    <3>1. InBody(e, p) /\ e \in Encoders /\ e.cursor \in Nat
      <4>1. n # 0 /\ n # 1
        BY <2>4
      <4>2. InBody(e, p)
        BY <2>1, <4>1 DEF Encodes, n
      <4> QED
        BY <4>2, EncoderIs DEF InBody
    <3>2. arc(e, a) = encode_base128(e, a)
      BY <3>1, ArcInBody
    <3>3. /\ e.cursor + k > MaxSize => encode_base128(e, a) = Err("Length")
          /\ ~(e.cursor + k > MaxSize) =>
               \E b \in Arrays : Writes(b, e, a, k)
                                 /\ encode_base128(e, a) = Ok(encoder(e.state, e.first, b, e.cursor + k))
      BY <3>1, BodyWrites DEF k
    <3>4. OctetsNeeded(t) = e.cursor + k /\ ~(Len(t) <= 2)
      BY <1>1, <1>3, <1>6, <1>9, <2>4
    <3>5. IsOk(Enc(t)) <=> OctetsNeeded(t) <= MaxSize
      <4>1. OctetsNeeded(t) <= MaxSize <=> ~(e.cursor + k > MaxSize)
        BY <1>1, <1>4, <3>1, <3>4
      <4> QED
        BY <2>1, <3>2, <3>3, <4>1 DEF IsOk, Ok, Err
    <3>6. IsOk(Enc(t)) => Enc(t).value.cursor = OctetsNeeded(t)
      <4>1. e.cursor + k > MaxSize => ~ IsOk(Enc(t))
        BY <2>1, <3>2, <3>3 DEF IsOk, Err
      <4> QED
        BY <2>1, <3>2, <3>3, <3>4, <4>1 DEF Ok, encoder
    <3>7. (Len(t) >= 1 => t[1] <= 2) /\ (Len(t) >= 2 => t[2] <= ARC_MAX_SECOND)
      <4>1. 1 \in 1 .. n /\ 2 \in 1 .. n
        BY <1>1, <2>4
      <4> QED
        BY <1>1, <2>1, <2>4, <4>1 DEF Fits, n
    <3>8. IsOk(Enc(t)) <=> Fits(t)
      BY <3>5, <3>7 DEF Fits
    <3> QED
      BY <3>4, <3>6, <3>8 DEF TakesWhatFits, Enc, t
  <2> QED
    BY <1>1, <2>2, <2>3, <2>4
<1> QED
  BY <1>8, <1>9

LEMMA FittingIs ==
  ASSUME NEW s \in Seq(Arcs)
  PROVE  TakesWhatFits(s)
<1> DEFINE Good == {k \in Nat : \A t \in Seq(Arcs) : Len(t) = k => TakesWhatFits(t)}
<1>1. 0 \in Good
  <2>1. \A t \in Seq(Arcs) : Len(t) = 0 => t = <<>>
    OBVIOUS
  <2>2. EncodeArcs(NewEncoder, <<>>) = Ok(NewEncoder) /\ OctetsNeeded(<<>>) = 1 /\ Len(<<>>) = 0
    BY EncodeNone, NewAtWork, OctetsOfNone
  <2>3. Fits(<<>>)
    BY <2>2, OidNumbers DEF Fits
  <2>4. TakesWhatFits(<<>>)
    BY <2>2, <2>3 DEF TakesWhatFits, IsOk, Ok
  <2> QED
    BY <2>1, <2>4
<1>2. ASSUME NEW k \in Good PROVE k + 1 \in Good
  <2> SUFFICES ASSUME NEW t \in Seq(Arcs), Len(t) = k + 1 PROVE TakesWhatFits(t)
    OBVIOUS
  <2> DEFINE p == SubSeq(t, 1, k)
             a == t[k + 1]
  <2>1. k \in Nat /\ p \in Seq(Arcs) /\ Len(p) = k /\ a \in Arcs /\ t = Append(p, a)
    BY LastOff
  <2>2. TakesWhatFits(p)
    <3> HIDE DEF p
    <3> QED
      BY <2>1
  <2> HIDE DEF p, a, Good
  <2> QED
    BY <2>1, <2>2, OneMoreFits
<1>3. Good = Nat
  <2> HIDE DEF Good
  <2>1. Good \in SUBSET Nat
    BY DEF Good
  <2> QED
    BY <1>1, <1>2, <2>1, Induction
<1>4. Len(s) \in Nat
  OBVIOUS
<1> QED
  BY <1>3, <1>4

LEMMA RepresentableIs ==
  ASSUME NEW s \in Seq(Nat)
  PROVE  Representable(s) <=> s \in Seq(Arcs) /\ IsOk(from_arcs(s))
<1>1. s \in Seq(Arcs) <=> \A k \in 1 .. Len(s) : s[k] \in Arcs
  <2>1. ASSUME \A k \in 1 .. Len(s) : s[k] \in Arcs PROVE s \in Seq(Arcs)
    <3>1. IsSequence(s) /\ DOMAIN s = 1 .. Len(s)
      BY OfItsElements
    <3>2. s \in Seq(Elements(s)) /\ Elements(s) \subseteq Arcs
      BY <2>1, <3>1 DEF IsSequence, Elements
    <3> QED
      BY <3>2, OfMore
  <2> QED
    BY <2>1
<1>2. Representable(s) <=> /\ Len(s) >= 2 /\ s[1] <= 2 /\ s[2] <= ARC_MAX_SECOND
                           /\ (\A k \in 1 .. Len(s) : s[k] \in Arcs) /\ OctetsNeeded(s) <= MaxSize
  <2>1. AreArcs(s) <=> /\ Len(s) >= 2 /\ s[1] <= 2 /\ s[2] <= ARC_MAX_SECOND
                       /\ \A k \in 1 .. Len(s) : s[k] \in Arcs
    BY OidNumbers DEF AreArcs
  <2>2. OctetsNeeded(s) \in Nat /\ Len(s) \in Nat /\ MaxSize \in Nat \ {0}
    BY OctetsOfMore, OidNumbers
  <2>3. AreArcs(s) /\ Len(s) = 2 => OctetsNeeded(s) = 1
    <3>1. (\A k \in 1 .. Len(s) : s[k] \in Arcs) => s \in Seq(Arcs)
      BY <1>1
    <3>2. AreArcs(s) => TakesWhatFits(s)
      BY <2>1, <3>1, FittingIs
    <3> QED
      BY <2>2, <3>2 DEF TakesWhatFits
  <2>4. AreArcs(s) => Len(s) >= 2
    BY <2>1
  <2>5. ASSUME AreArcs(s)
        PROVE  (Len(s) >= 3 /\ OctetsNeeded(s) < MaxSize) \/ (Len(s) = 2 \/ OctetsNeeded(s) = MaxSize)
                 <=> OctetsNeeded(s) <= MaxSize
    <3> DEFINE n == Len(s)
               o == OctetsNeeded(s)
    <3>1. n \in Nat /\ o \in Nat /\ n >= 2 /\ (n = 2 => o = 1) /\ MaxSize \in Nat \ {0}
      BY <2>2, <2>3, <2>4, <2>5
    <3> HIDE DEF n, o
    <3>2. (n >= 3 /\ o < MaxSize) \/ (n = 2 \/ o = MaxSize) <=> o <= MaxSize
      BY <3>1
    <3> QED
      BY <3>2 DEF n, o
  <2>6. Representable(s) <=> AreArcs(s) /\ OctetsNeeded(s) <= MaxSize
    BY <2>5, Zenon DEF Representable, MeetsCriteria, IsBeyondCriteria
  <2> QED
    BY <2>1, <2>6
<1>3. ASSUME s \in Seq(Arcs)
      PROVE  IsOk(from_arcs(s)) <=> Fits(s) /\ Len(s) >= 2
  BY <1>3, FromArcsIs, FittingIs DEF TakesWhatFits
<1>4. Len(s) >= 2 => (Fits(s) <=> s[1] <= 2 /\ s[2] <= ARC_MAX_SECOND /\ OctetsNeeded(s) <= MaxSize)
  <2>1. Len(s) >= 2 => Len(s) >= 1
    OBVIOUS
  <2> QED
    BY <2>1 DEF Fits
<1> QED
  BY <1>1, <1>2, <1>3, <1>4

--------------------------------------------------------------------------------
(* The numbers of the fields, those that a dot has closed, and how fields  *)
(* grow as more of the text is read.                                       *)
Totals(fields) == [i \in DOMAIN fields |-> Number(fields[i])]
Done(fields) == SubSeq(Totals(fields), 1, Len(fields) - 1)
Grown(G, F) ==
  /\ Len(F) <= Len(G) /\ \A i \in 1 .. Len(F) - 1 : G[i] = F[i]
  /\ Number(LastField(F)) <= Number(G[Len(F)])

LEMMA FieldIs ==
  ASSUME NEW F \in FieldLists
  PROVE  /\ Len(F) \in Nat \ {0} /\ DOMAIN F = 1 .. Len(F) /\ IsSequence(F)
         /\ \A i \in 1 .. Len(F) : F[i] \in Seq(Characters) /\ F[i] \in Seq(Nat) /\ Number(F[i]) \in Nat
         /\ LastField(F) \in Seq(Characters) /\ LastField(F) \in Seq(Nat) /\ Number(LastField(F)) \in Nat
<1> DEFINE S == Seq(Characters)
           n == Len(F)
<1>1. F \in Seq(S) /\ n \in Nat \ {0} /\ DOMAIN F = 1 .. n /\ n \in 1 .. n
  BY DEF FieldLists
<1>2. \A i \in 1 .. n : F[i] \in S
  BY <1>1
<1>3. IsSequence(F)
  <2> HIDE DEF S
  <2> QED
    BY <1>1, OfItsElements
<1>4. Characters \subseteq Nat
  BY RadixIs DEF Characters
<1>5. ASSUME NEW d \in S PROVE d \in Seq(Nat) /\ Number(d) \in Nat
  <2>1. d \in Seq(Nat)
    BY <1>4, OfMore
  <2> QED
    BY <2>1, NumberOfMore
<1> HIDE DEF S, n
<1>6. \A i \in 1 .. n : F[i] \in S /\ F[i] \in Seq(Nat) /\ Number(F[i]) \in Nat
  BY <1>2, <1>5
<1>7. F[n] \in S /\ F[n] \in Seq(Nat) /\ Number(F[n]) \in Nat
  BY <1>1, <1>6
<1> QED
  BY <1>1, <1>3, <1>6, <1>7 DEF S, n, LastField

LEMMA TotalsAre ==
  ASSUME NEW F \in FieldLists
  PROVE  /\ Totals(F) \in Seq(Nat) /\ Len(Totals(F)) = Len(F)
         /\ \A i \in 1 .. Len(F) : Totals(F)[i] = Number(F[i])
         /\ Done(F) \in Seq(Nat) /\ Len(Done(F)) = Len(F) - 1
         /\ \A i \in 1 .. Len(F) - 1 : Done(F)[i] = Number(F[i])
         /\ Totals(F) = Append(Done(F), Number(LastField(F)))
<1> DEFINE n == Len(F)
           t == Totals(F)
           d == Done(F)
           k == n - 1
<1>1. n \in Nat \ {0} /\ DOMAIN F = 1 .. n /\ \A i \in 1 .. n : Number(F[i]) \in Nat
  BY FieldIs
<1>2. t \in Seq(Nat) /\ Len(t) = n /\ \A i \in 1 .. n : t[i] = Number(F[i])
  <2>1. t = [i \in 1 .. n |-> Number(F[i])]
    BY <1>1 DEF Totals
  <2> HIDE DEF t, n
  <2> QED
    BY <1>1, <2>1
<1>3. k \in Nat /\ k + 1 = n /\ n \in 1 .. n
  BY <1>1
<1>4. d = SubSeq(t, 1, k)
  BY DEF Done
<1> HIDE DEF t, d, k
<1>5. d \in Seq(Nat) /\ Len(d) = k /\ t = Append(d, t[n])
  BY <1>2, <1>3, <1>4, LastOff
<1>6. \A i \in 1 .. k : d[i] = t[i]
  <2>1. IsSequence(d)
    BY <1>5, OfItsElements
  <2> QED
    BY <1>5, <2>1, AppendFacts
<1>7. \A i \in 1 .. k : d[i] = Number(F[i])
  <2>1. \A i \in 1 .. k : i \in 1 .. n
    BY <1>1, <1>3
  <2> QED
    BY <1>2, <1>6, <2>1
<1>8. t[n] = Number(LastField(F))
  BY <1>2, <1>3 DEF LastField
<1> QED
  BY <1>2, <1>5, <1>7, <1>8 DEF t, d, k

LEMMA DoneAfter ==
  ASSUME NEW F \in FieldLists, NEW c \in Characters
  PROVE  /\ c = DOT => Done(AddCharacter(F, c)) = Totals(F)
         /\ c # DOT => Done(AddCharacter(F, c)) = Done(F)
<1> DEFINE G == AddCharacter(F, c)
           n == Len(F)
           s == Done(G)
<1>1. /\ G \in FieldLists
      /\ c = DOT => Len(G) = n + 1 /\ \A i \in 1 .. n : G[i] = F[i]
      /\ c # DOT => Len(G) = n /\ \A i \in 1 .. n - 1 : G[i] = F[i]
  BY AddCharacterIs
<1> HIDE DEF G
<1>2. n \in Nat \ {0}
  BY FieldIs
<1>3. s \in Seq(Nat) /\ Len(s) = Len(G) - 1 /\ (\A i \in 1 .. Len(G) - 1 : s[i] = Number(G[i])) /\ IsSequence(s)
  BY <1>1, TotalsAre, OfItsElements
<1> HIDE DEF s
<1>4. ASSUME c = DOT PROVE s = Totals(F)
  <2> DEFINE t == Totals(F)
  <2>1. t \in Seq(Nat) /\ Len(t) = n /\ (\A i \in 1 .. n : t[i] = Number(F[i])) /\ IsSequence(t)
    BY TotalsAre, OfItsElements
  <2> HIDE DEF t, n
  <2>2. Len(s) = n /\ \A i \in 1 .. n : s[i] = t[i]
    <3>1. Len(G) - 1 = n
      BY <1>1, <1>2, <1>4
    <3>2. Len(s) = n /\ \A i \in 1 .. n : s[i] = Number(G[i])
      BY <1>3, <3>1
    <3> QED
      BY <1>1, <1>4, <2>1, <3>2
  <2>3. s = t
    BY <1>3, <2>1, <2>2, SequencesEqual
  <2> QED
    BY <2>3 DEF t
<1>5. ASSUME c # DOT PROVE s = Done(F)
  <2> DEFINE t == Done(F)
  <2>1. t \in Seq(Nat) /\ Len(t) = n - 1 /\ (\A i \in 1 .. n - 1 : t[i] = Number(F[i])) /\ IsSequence(t)
    BY TotalsAre, OfItsElements
  <2> HIDE DEF t, n
  <2>2. Len(s) = n - 1 /\ \A i \in 1 .. n - 1 : s[i] = t[i]
    BY <1>1, <1>2, <1>3, <1>5, <2>1
  <2>3. s = t
    BY <1>3, <2>1, <2>2, SequencesEqual
  <2> QED
    BY <2>3 DEF t
<1> QED
  BY <1>4, <1>5 DEF s, G

LEMMA GrownOn ==
  ASSUME NEW F \in FieldLists, NEW G \in FieldLists, Grown(G, F), NEW c \in Characters
  PROVE  Grown(AddCharacter(G, c), F)
<1> DEFINE H == AddCharacter(G, c)
           n == Len(F)
           m == Len(G)
<1>1. /\ H \in FieldLists
      /\ c = DOT => Len(H) = m + 1 /\ \A i \in 1 .. m : H[i] = G[i]
      /\ c # DOT => Len(H) = m /\ LastField(H) = Append(LastField(G), c) /\ \A i \in 1 .. m - 1 : H[i] = G[i]
  BY AddCharacterIs
<1> HIDE DEF H
<1>2. n \in Nat \ {0} /\ m \in Nat \ {0} /\ n <= m /\ Number(LastField(F)) \in Nat
      /\ (\A i \in 1 .. n - 1 : G[i] = F[i]) /\ Number(LastField(F)) <= Number(G[n])
  BY FieldIs DEF Grown
<1>3. n <= Len(H) /\ \A i \in 1 .. n - 1 : H[i] = F[i]
  <2> HIDE DEF n, m
  <2>1. \A i \in 1 .. n - 1 : i \in 1 .. m /\ i \in 1 .. m - 1
    BY <1>2
  <2> QED
    BY <1>1, <1>2, <2>1
<1>4. Number(LastField(F)) <= Number(H[n])
  <2>1. CASE c = DOT \/ n # m
    <3>1. c # DOT => n \in 1 .. m - 1
      BY <1>2, <2>1
    <3>2. n \in 1 .. m
      BY <1>2
    <3>3. H[n] = G[n]
      BY <1>1, <3>1, <3>2
    <3> QED
      BY <1>2, <3>3
  <2>2. CASE c # DOT /\ n = m
    <3> DEFINE d == LastField(G)
    <3>1. d \in Seq(Nat) /\ c \in Nat
      BY FieldIs, RadixIs DEF Characters
    <3>2. H[n] = Append(d, c) /\ G[n] = d
      BY <1>1, <2>2 DEF LastField
    <3> HIDE DEF d
    <3>3. Number(d) <= Number(Append(d, c)) /\ Number(d) \in Nat /\ Number(Append(d, c)) \in Nat
      BY <3>1, NumberOfMore
    <3> QED
      BY <1>2, <3>2, <3>3
  <2> QED
    BY <2>1, <2>2
<1> QED
  BY <1>3, <1>4 DEF Grown, H

LEMMA FieldsGrow ==
  ASSUME NEW t \in Seq(Characters), NEW k \in 0 .. Len(t)
  PROVE  Grown(AllFields(t), Fields(t, k)) /\ Fields(t, k) \in FieldLists /\ AllFields(t) \in FieldLists
<1> DEFINE F == Fields(t, k)
           Good == {d \in Nat : k + d <= Len(t) => Grown(Fields(t, k + d), F)}
<1>1. F \in FieldLists /\ \A n \in 0 .. Len(t) : Fields(t, n) \in FieldLists
  BY FieldsIs
<1>2. Len(t) \in Nat
  OBVIOUS
<1> HIDE DEF F
<1>3. 0 \in Good
  <2>1. k + 0 = k /\ Grown(F, F)
    BY <1>1, FieldIs DEF Grown, LastField
  <2> QED
    BY <2>1 DEF F
<1>4. ASSUME NEW d \in Good PROVE d + 1 \in Good
  <2> DEFINE m == k + d
  <2> SUFFICES ASSUME m + 1 <= Len(t) PROVE Grown(Fields(t, m + 1), F)
    OBVIOUS
  <2>1. m \in Nat /\ m \in 0 .. Len(t) /\ m + 1 \in 1 .. Len(t) /\ Grown(Fields(t, m), F)
    OBVIOUS
  <2> HIDE DEF m, Good
  <2>2. t[m + 1] \in Characters
    BY <2>1
  <2>3. Fields(t, m + 1) = AddCharacter(Fields(t, m), t[m + 1])
    BY <2>1, FieldsOfMore
  <2> QED
    BY <1>1, <2>1, <2>2, <2>3, GrownOn
<1>5. Good = Nat
  <2> HIDE DEF Good
  <2>1. Good \in SUBSET Nat
    BY DEF Good
  <2> QED
    BY <1>3, <1>4, <2>1, Induction
<1> DEFINE d == Len(t) - k
<1>6. d \in Nat /\ k + d = Len(t) /\ k + d <= Len(t)
  BY <1>2
<1>7. d \in Good
  <2> HIDE DEF d, Good
  <2> QED
    BY <1>5, <1>6
<1>8. Grown(Fields(t, k + d), F)
  <2> HIDE DEF d
  <2> QED
    BY <1>6, <1>7
<1>9. Len(t) \in 0 .. Len(t) /\ AllFields(t) = Fields(t, Len(t))
  BY <1>2 DEF AllFields
<1> QED
  BY <1>1, <1>6, <1>8, <1>9 DEF F

LEMMA NumbersAre ==
  ASSUME NEW t \in Seq(Characters)
  PROVE  /\ Numbers(t) = Totals(AllFields(t)) /\ Numbers(t) \in Seq(Nat)
         /\ Len(Numbers(t)) = Len(AllFields(t))
         /\ \A i \in 1 .. Len(AllFields(t)) : Numbers(t)[i] = Number(AllFields(t)[i])
<1>1. 0 \in 0 .. Len(t)
  OBVIOUS
<1>2. AllFields(t) \in FieldLists
  BY <1>1, FieldsGrow
<1>3. Numbers(t) = Totals(AllFields(t))
  BY DEF Numbers, Totals
<1> QED
  BY <1>2, <1>3, TotalsAre

--------------------------------------------------------------------------------
(* What ObjectIdentifier::new should accept, and what settles before the   *)
(* end of the text that it is not to be accepted.                          *)
Accepted(t) ==
  t # <<>> /\ Dotted(t) /\ Numbers(t) \in Seq(Arcs) /\ IsOk(from_arcs(Numbers(t)))

LEMMA AcceptedIs ==
  ASSUME NEW t \in Seq(Characters)
  PROVE  Accepted(t) <=> t # <<>> /\ Dotted(t) /\ Representable(Numbers(t))
  BY NumbersAre, RepresentableIs DEF Accepted

LEMMA RefusedForAField ==
  ASSUME NEW t \in Seq(Characters), NEW k \in 0 .. Len(t),
         NEW i \in 1 .. Len(Fields(t, k)) - 1, Fields(t, k)[i] = <<>>
  PROVE  ~ Accepted(t)
<1> DEFINE F == Fields(t, k)
           G == AllFields(t)
<1>1. Grown(G, F) /\ F \in FieldLists /\ G \in FieldLists
  BY FieldsGrow
<1>2. i \in 1 .. Len(F) - 1 /\ F[i] = <<>>
  OBVIOUS
<1> HIDE DEF F, G
<1>3. DOMAIN G = 1 .. Len(G) /\ Len(F) <= Len(G) /\ Len(F) \in Nat \ {0} /\ Len(G) \in Nat
  BY <1>1, FieldIs DEF Grown
<1>4. i \in DOMAIN G /\ G[i] = <<>>
  BY <1>1, <1>2, <1>3 DEF Grown
<1> QED
  BY <1>4 DEF Accepted, Dotted, G

LEMMA RefusedForALetter ==
  ASSUME NEW t \in Seq(Characters), NEW k \in 1 .. Len(t), t[k] = LETTER
  PROVE  ~ Accepted(t)
<1>1. k \in DOMAIN t
  OBVIOUS
<1> QED
  BY <1>1 DEF Accepted, Dotted

LEMMA RefusedForANumber ==
  ASSUME NEW t \in Seq(Characters), NEW k \in 0 .. Len(t), Number(LastField(Fields(t, k))) > ArcMax
  PROVE  ~ Accepted(t)
<1> DEFINE F == Fields(t, k)
           G == AllFields(t)
           n == Len(F)
           v == Number(LastField(F))
<1>1. Grown(G, F) /\ F \in FieldLists /\ G \in FieldLists /\ v > ArcMax
  BY FieldsGrow
<1> HIDE DEF F, G
<1>2. n \in Nat \ {0} /\ n <= Len(G) /\ Len(G) \in Nat /\ v \in Nat /\ v <= Number(G[n])
  BY <1>1, FieldIs DEF Grown
<1> HIDE DEF n, v
<1>3. n \in 1 .. Len(G)
  BY <1>2
<1>4. Numbers(t)[n] = Number(G[n]) /\ Number(G[n]) \in Nat /\ Len(Numbers(t)) = Len(G)
  BY <1>1, <1>3, NumbersAre, FieldIs DEF G
<1>5. Number(G[n]) > ArcMax
  BY <1>1, <1>2, <1>4, OidNumbers
<1>6. Numbers(t) \in Seq(Arcs) => Numbers(t)[n] \in Arcs
  BY <1>3, <1>4
<1>7. ~(Number(G[n]) \in Arcs)
  BY <1>4, <1>5, OidNumbers DEF Arcs
<1> QED
  BY <1>4, <1>6, <1>7 DEF Accepted

LEMMA RefusedForAnArc ==
  ASSUME NEW t \in Seq(Characters), NEW k \in 0 .. Len(t), ~ IsOk(EncodeArcs(NewEncoder, Done(Fields(t, k))))
  PROVE  ~ Accepted(t)
<1> DEFINE F == Fields(t, k)
           G == AllFields(t)
           n == Len(F) - 1
           s == Numbers(t)
           d == Done(F)
           p == SubSeq(s, 1, n)
<1>1. Grown(G, F) /\ F \in FieldLists /\ G \in FieldLists
  BY FieldsGrow
<1> HIDE DEF F
<1>2. d \in Seq(Nat) /\ Len(d) = n /\ (\A i \in 1 .. n : d[i] = Number(F[i])) /\ IsSequence(d)
  BY <1>1, TotalsAre, OfItsElements
<1>3. s \in Seq(Nat) /\ Len(s) = Len(G) /\ (\A i \in 1 .. Len(G) : s[i] = Number(G[i])) /\ IsSequence(s)
  BY NumbersAre, OfItsElements
<1> HIDE DEF s, d, G
<1>4. n \in Nat /\ n <= Len(G) /\ n \in 0 .. Len(G) /\ Len(G) \in Nat /\ \A i \in 1 .. n : i \in 1 .. Len(G) /\ G[i] = F[i]
  <2>1. Len(F) \in Nat \ {0} /\ Len(F) <= Len(G) /\ Len(G) \in Nat
    BY <1>1, FieldIs DEF Grown
  <2>2. \A i \in 1 .. n : G[i] = F[i]
    BY <1>1 DEF Grown
  <2> QED
    BY <2>1, <2>2
<1> HIDE DEF n
<1>5. IsSequence(p) /\ Len(p) = n /\ \A i \in 1 .. n : p[i] = s[i]
  <2>1. IsSequence(p) /\ Len(p) = n - 1 + 1 /\ \A i \in 1 .. n - 1 + 1 : p[i] = s[1 - 1 + i]
    BY <1>3, <1>4, SubSeqFacts
  <2> HIDE DEF p
  <2> QED
    BY <1>4, <2>1
<1> HIDE DEF p
<1>6. p = d
  <2>1. \A i \in 1 .. n : p[i] = d[i]
    BY <1>2, <1>3, <1>4, <1>5
  <2> QED
    BY <1>2, <1>5, <2>1, SequencesEqual
<1>7. ~ IsOk(EncodeArcs(NewEncoder, d))
  BY DEF d, F
<1>8. ASSUME s \in Seq(Arcs), IsOk(EncodeArcs(NewEncoder, s)) PROVE FALSE
  <2>1. n \in 0 .. Len(s)
    BY <1>3, <1>4
  <2>2. IsOk(EncodeArcs(NewEncoder, SubSeq(s, 1, n)))
    BY <1>8, <2>1, EncodeGrows
  <2> QED
    BY <1>6, <1>7, <2>2 DEF p
<1>9. s \in Seq(Arcs) => ~ IsOk(from_arcs(s))
  BY <1>8, FromArcsIs
<1> QED
  BY <1>9 DEF Accepted, s

(* What the parser carries after the fields F of the text: the number of   *)
(* the last of them, and an encoder that has taken the numbers before it.  *)
Carries(F, cur, e) ==
  /\ \A i \in 1 .. Len(F) - 1 : F[i] # <<>>
  /\ cur = IF LastField(F) = <<>> THEN <<>> ELSE <<Number(LastField(F))>>
  /\ Number(LastField(F)) \in Arcs
  /\ Done(F) \in Seq(Arcs) /\ EncodeArcs(NewEncoder, Done(F)) = Ok(e)

LEMMA DigitCarries ==
  ASSUME NEW F \in FieldLists, NEW cur, NEW e, Carries(F, cur, e), NEW c \in Digits
  PROVE  LET longer == (IF cur = <<>> THEN 0 ELSE cur[1]) * Radix + c IN
         /\ AddCharacter(F, c) \in FieldLists
         /\ Number(LastField(AddCharacter(F, c))) = longer /\ longer \in Nat
         /\ longer \in Arcs => Carries(AddCharacter(F, c), <<longer>>, e)
<1> DEFINE d == LastField(F)
           G == AddCharacter(F, c)
           v == IF cur = <<>> THEN 0 ELSE cur[1]
           longer == v * Radix + c
<1>1. c \in Characters /\ c # DOT /\ c \in Nat /\ Radix \in Nat
  BY RadixIs DEF Characters
<1>2. /\ G \in FieldLists /\ Len(G) = Len(F) /\ LastField(G) = Append(d, c)
      /\ \A i \in 1 .. Len(F) - 1 : G[i] = F[i]
  BY <1>1, AddCharacterIs
<1>3. Done(G) = Done(F)
  BY <1>1, DoneAfter
<1>4. d \in Seq(Nat)
  BY FieldIs
<1>5. v = Number(d)
  <2>1. CASE d = <<>>
    <3>1. cur = <<>>
      BY <2>1 DEF Carries
    <3> QED
      BY <2>1, <3>1, NumberOfNone
  <2>2. CASE d # <<>>
    <3> DEFINE x == Number(d)
    <3>1. cur = <<x>>
      BY <2>2 DEF Carries
    <3> HIDE DEF x
    <3>2. cur # <<>> /\ cur[1] = x
      BY <3>1
    <3> QED
      BY <3>2 DEF x
  <2> QED
    BY <2>1, <2>2
<1>6. Append(d, c) # <<>>
  <2>1. IsSequence(d)
    BY <1>4, OfItsElements
  <2> QED
    BY <2>1, AppendFacts
<1> HIDE DEF d, G, v
<1>7. Number(LastField(G)) = longer /\ longer \in Nat
  BY <1>1, <1>2, <1>4, <1>5, NumberOfMore
<1> HIDE DEF longer
<1>8. ASSUME longer \in Arcs PROVE Carries(G, <<longer>>, e)
  <2>1. \A i \in 1 .. Len(F) - 1 : F[i] # <<>>
    BY DEF Carries
  <2>2. \A i \in 1 .. Len(G) - 1 : G[i] # <<>>
    BY <1>2, <2>1
  <2>3. Done(G) \in Seq(Arcs) /\ EncodeArcs(NewEncoder, Done(G)) = Ok(e)
    BY <1>3 DEF Carries
  <2>4. LastField(G) # <<>>
    BY <1>2, <1>6
  <2> QED
    BY <1>7, <1>8, <2>2, <2>3, <2>4 DEF Carries
<1> QED
  BY <1>2, <1>7, <1>8 DEF G, longer, v

LEMMA DotCarries ==
  ASSUME NEW F \in FieldLists, NEW cur, NEW e, Carries(F, cur, e), cur # <<>>
  PROVE  /\ AddCharacter(F, DOT) \in FieldLists
         /\ EncodeArcs(NewEncoder, Done(AddCharacter(F, DOT))) = arc(e, cur[1])
         /\ EncodeArcs(NewEncoder, Totals(F)) = arc(e, cur[1]) /\ Totals(F) \in Seq(Arcs)
         /\ \A i \in 1 .. Len(F) : F[i] # <<>>
         /\ IsOk(arc(e, cur[1])) =>
              arc(e, cur[1]) = Ok(arc(e, cur[1]).value)
              /\ Carries(AddCharacter(F, DOT), <<>>, arc(e, cur[1]).value)
<1> DEFINE d == LastField(F)
           G == AddCharacter(F, DOT)
           x == Number(d)
           n == Len(F)
           s == Totals(F)
           r == arc(e, cur[1])
<1>1. DOT \in Characters
  BY RadixIs DEF Characters
<1>2. /\ G \in FieldLists /\ Len(G) = n + 1 /\ LastField(G) = <<>>
      /\ \A i \in 1 .. n : G[i] = F[i]
  BY <1>1, AddCharacterIs
<1>3. Done(G) = s /\ s = Append(Done(F), x)
  BY <1>1, DoneAfter, TotalsAre
<1>4. d # <<>> /\ cur = <<x>> /\ x \in Arcs /\ Done(F) \in Seq(Arcs) /\ EncodeArcs(NewEncoder, Done(F)) = Ok(e)
      /\ \A i \in 1 .. n - 1 : F[i] # <<>>
  BY DEF Carries
<1>5. n \in Nat \ {0}
  BY FieldIs
<1> HIDE DEF x, G, s
<1>6. r = arc(e, x)
  <2>1. cur[1] = x
    BY <1>4
  <2> QED
    BY <2>1
<1> HIDE DEF r
<1>7. s \in Seq(Arcs) /\ EncodeArcs(NewEncoder, s) = r
  <2>1. EncodeArcs(NewEncoder, Append(Done(F), x)) = OneMore(EncodeArcs(NewEncoder, Done(F)), x)
    BY <1>4, EncodeMore, NewAtWork
  <2>2. EncodeArcs(NewEncoder, s) = r
    BY <1>3, <1>4, <1>6, <2>1 DEF OneMore, IsOk, Ok
  <2> QED
    BY <1>3, <1>4, <2>2
<1>8. \A i \in 1 .. n : F[i] # <<>>
  <2>1. \A i \in 1 .. n : i \in 1 .. n - 1 \/ i = n
    BY <1>5
  <2> QED
    BY <1>4, <2>1 DEF LastField
<1>9. ASSUME IsOk(r) PROVE r = Ok(r.value) /\ Carries(G, <<>>, r.value)
  <2>1. r = Ok(r.value)
    <3>1. IsOk(EncodeArcs(NewEncoder, s))
      BY <1>7, <1>9
    <3>2. EncodeArcs(NewEncoder, s) = Ok(EncodeArcs(NewEncoder, s).value)
      BY <1>7, <3>1, EncodingIs
    <3> QED
      BY <1>7, <3>2
  <2>2. \A i \in 1 .. Len(G) - 1 : G[i] # <<>>
    <3>1. Len(G) - 1 = n
      BY <1>2, <1>5
    <3> QED
      BY <1>2, <1>8, <3>1
  <2>3. 0 \in Arcs
    BY OidNumbers DEF Arcs
  <2>4. EncodeArcs(NewEncoder, Done(G)) = Ok(r.value) /\ Done(G) \in Seq(Arcs)
    BY <1>3, <1>7, <2>1
  <2> QED
    BY <1>2, <2>1, <2>2, <2>3, <2>4, NumberOfNone DEF Carries
<1> QED
  BY <1>2, <1>3, <1>7, <1>8, <1>9 DEF G, r, s

--------------------------------------------------------------------------------
(* The inductive invariant.  In the middle of a text the parser carries    *)
(* what the characters read so far amount to; its answer is right.         *)
MidwayAt(t, rest, cur, e, k) ==
  /\ k \in 0 .. Len(t) /\ rest = SubSeq(t, k + 1, Len(t))
  /\ \A i \in 1 .. k : t[i] # LETTER
  /\ Carries(Fields(t, k), cur, e)
Midway(t, rest, cur, e) ==
  t \in Seq(Characters) /\ t # <<>> /\ \E k \in 0 .. Len(t) : MidwayAt(t, rest, cur, e, k)
Answered(t, r) ==
  /\ t \in Seq(Characters)
  /\ \/ Accepted(t) /\ r = Ok(r.value) /\ r = from_arcs(Numbers(t))
     \/ ~ Accepted(t) /\ r = Err(r.error)
ParserIsRight ==
  \/ result = Idle /\ text = <<>> /\ remaining = <<>> /\ current_arc = <<>> /\ enc = NewEncoder
  \/ result = Running /\ Midway(text, remaining, current_arc, enc)
  \/ Answered(text, result)

Carried == {<<>>} \union {<<a>> : a \in Arcs}
ParserTyped == text \in Seq(Characters) /\ remaining \in Seq(Characters) /\ current_arc \in Carried /\ enc \in Encoders

(* The OID means what it is meant to, and was built from it if made "arcs".*)
OidIsRight ==
  /\ made \in {"none", "arcs", "bytes"}
  /\ Held => Means(oid, meant) /\ result = Idle
  /\ ~ Held => oid = NoOid /\ meant = <<>>
  /\ made = "arcs" => from_arcs(meant) = Ok(oid)

IInv == ParserTyped /\ ParserIsRight /\ OidIsRight

LEMMA RestOf ==
  ASSUME NEW S, NEW s \in Seq(S), NEW k \in 0 .. Len(s), NEW rest, rest = SubSeq(s, k + 1, Len(s))
  PROVE  /\ rest \in Seq(S) /\ (rest = <<>> <=> k = Len(s))
         /\ rest # <<>> => /\ k + 1 \in 1 .. Len(s) /\ Head(rest) = s[k + 1]
                           /\ Tail(rest) \in Seq(S) /\ Tail(rest) = SubSeq(s, (k + 1) + 1, Len(s))
                           /\ (Tail(rest) = <<>> <=> k + 1 = Len(s))
<1> DEFINE n == Len(s)
           m == k + 1
           tail == SubSeq(s, m + 1, n)
           l == n - k
<1>1. n \in Nat /\ k \in Nat /\ k <= n /\ k \in 0 .. n /\ l \in Nat
  OBVIOUS
<1>2. IsSequence(s)
  BY OfItsElements
<1>3. rest \in Seq(S)
  OBVIOUS
<1>4. IsSequence(rest) /\ Len(rest) = l /\ \A i \in 1 .. l : rest[i] = s[k + i]
  BY <1>1, <1>2, SegmentFacts
<1> HIDE DEF n
<1>5. rest = <<>> <=> k = n
  <2>1. rest = <<>> <=> l = 0
    BY <1>4, SequenceShape
  <2> QED
    BY <1>1, <2>1
<1>6. ASSUME rest # <<>>
      PROVE  /\ m \in 1 .. n /\ Head(rest) = s[m] /\ Tail(rest) \in Seq(S)
             /\ Tail(rest) = tail /\ (Tail(rest) = <<>> <=> m = n)
  <2> DEFINE t == Tail(rest)
  <2>1. k < n /\ m \in 1 .. n /\ m \in Nat /\ m <= n /\ l >= 1 /\ 1 \in 1 .. l
    BY <1>1, <1>5, <1>6
  <2> HIDE DEF l
  <2>2. Head(rest) = rest[1] /\ t \in Seq(S) /\ Len(t) = l - 1 /\ \A i \in 1 .. l - 1 : t[i] = rest[i + 1]
    BY <1>3, <1>4, <1>6, <2>1
  <2>3. Head(rest) = s[m]
    BY <1>4, <2>1, <2>2
  <2>4. IsSequence(t)
    BY <2>2, OfItsElements
  <2> HIDE DEF t, m
  <2>5. IsSequence(tail) /\ Len(tail) = n - m /\ \A i \in 1 .. n - m : tail[i] = s[m + i]
    BY <1>1, <1>2, <2>1, SegmentFacts DEF n
  <2> HIDE DEF tail
  <2>6. n - m = l - 1 /\ \A i \in Nat : k + (i + 1) = m + i
    BY <1>1 DEF l, m
  <2>7. ASSUME NEW i \in 1 .. n - m PROVE t[i] = tail[i]
    <3> DEFINE j == i + 1
    <3>1. i \in 1 .. l - 1 /\ j \in 1 .. l /\ i \in Nat /\ k + j = m + i
      BY <1>1, <2>1, <2>6
    <3>2. t[i] = rest[j]
      BY <2>2, <3>1
    <3> HIDE DEF j
    <3>3. rest[j] = s[m + i]
      BY <1>4, <3>1
    <3> QED
      BY <2>5, <3>2, <3>3
  <2>8. t = tail
    <3>1. Len(t) = n - m
      BY <2>2, <2>6
    <3> QED
      BY <2>4, <2>5, <2>7, <3>1, SequencesEqual
  <2>9. t = <<>> <=> n - m = 0
    BY <2>5, <2>8, SequenceShape
  <2>10. n - m = 0 <=> m = n
    BY <1>1, <2>1
  <2> QED
    BY <2>1, <2>2, <2>3, <2>8, <2>9, <2>10 DEF t
<1> QED
  BY <1>3, <1>5, <1>6 DEF tail, m, n

LEMMA CarriesTyped ==
  ASSUME NEW F \in FieldLists, NEW cur, NEW e, Carries(F, cur, e)
  PROVE  cur \in Carried /\ e \in Encoders /\ (cur # <<>> => cur[1] \in Arcs)
<1> DEFINE x == Number(LastField(F))
<1>1. x \in Arcs /\ (cur = <<>> \/ cur = <<x>>)
  BY DEF Carries
<1>2. EncodeArcs(NewEncoder, Done(F)) = Ok(e) /\ Done(F) \in Seq(Arcs)
  BY DEF Carries
<1> HIDE DEF x
<1>3. cur \in Carried /\ (cur # <<>> => cur[1] \in Arcs)
  BY <1>1 DEF Carried
<1>4. Encodes(e, Done(F)) /\ 0 \in Arcs
  <2>1. IsOk(EncodeArcs(NewEncoder, Done(F))) /\ EncodeArcs(NewEncoder, Done(F)).value = e
    BY <1>2 DEF IsOk, Ok
  <2> QED
    BY <1>2, <2>1, EncodingIs, OidNumbers DEF Arcs
<1> QED
  BY <1>3, <1>4, ArcEncodes

(* At the end of the text the answer is that of from_arcs for its numbers. *)
LEMMA EndIs ==
  ASSUME NEW t \in Seq(Characters), t # <<>>, NEW rest, NEW cur, NEW e,
         NEW k, MidwayAt(t, rest, cur, e, k), rest = <<>>
  PROVE  /\ cur = <<>> => ~ Accepted(t)
         /\ cur # <<>> /\ ~ IsOk(arc(e, cur[1])) => ~ Accepted(t)
         /\ cur # <<>> /\ IsOk(arc(e, cur[1])) =>
              Answered(t, finish(arc(e, cur[1]).value)) /\ arc(e, cur[1]).value \in Encoders
<1> DEFINE F == AllFields(t)
           s == Numbers(t)
           r == arc(e, cur[1])
<1>1. k \in 0 .. Len(t) /\ rest = SubSeq(t, k + 1, Len(t)) /\ (\A i \in 1 .. k : t[i] # LETTER)
      /\ Carries(Fields(t, k), cur, e)
  BY DEF MidwayAt
<1>2. k = Len(t)
  BY <1>1, RestOf
<1>3. Carries(F, cur, e) /\ (\A i \in 1 .. Len(t) : t[i] # LETTER) /\ F \in FieldLists
  BY <1>1, <1>2, FieldsGrow DEF AllFields
<1>4. s = Totals(F)
  BY NumbersAre
<1>5. DOMAIN F = 1 .. Len(F) /\ Len(F) \in Nat \ {0} /\ Len(F) \in 1 .. Len(F)
  BY <1>3, FieldIs
<1>6. Dotted(t) <=> \A i \in 1 .. Len(F) : F[i] # <<>>
  <2>1. DOMAIN t = 1 .. Len(t)
    OBVIOUS
  <2> QED
    BY <1>3, <1>5, <2>1 DEF Dotted
<1> HIDE DEF F, s
<1>7. ASSUME cur = <<>> PROVE ~ Accepted(t)
  <2>1. F[Len(F)] = <<>>
    <3> DEFINE x == Number(LastField(F))
    <3>1. cur = IF LastField(F) = <<>> THEN <<>> ELSE <<x>>
      BY <1>3 DEF Carries
    <3> HIDE DEF x
    <3>2. <<x>> # <<>>
      OBVIOUS
    <3> QED
      BY <1>7, <3>1, <3>2 DEF LastField
  <2> QED
    BY <1>5, <1>6, <2>1 DEF Accepted
<1>8. ASSUME cur # <<>>
      PROVE  EncodeArcs(NewEncoder, s) = r /\ s \in Seq(Arcs) /\ Dotted(t)
  <2>1. EncodeArcs(NewEncoder, Totals(F)) = r /\ Totals(F) \in Seq(Arcs) /\ \A i \in 1 .. Len(F) : F[i] # <<>>
    BY <1>3, <1>8, DotCarries
  <2> QED
    BY <1>4, <1>6, <2>1
<1>9. ASSUME cur # <<>>, ~ IsOk(r) PROVE ~ Accepted(t)
  BY <1>8, <1>9, FromArcsIs DEF Accepted, s
<1>10. ASSUME cur # <<>>, IsOk(r) PROVE Answered(t, finish(r.value)) /\ r.value \in Encoders
  <2> DEFINE f == r.value
  <2>1. EncodeArcs(NewEncoder, s) = r /\ s \in Seq(Arcs) /\ Dotted(t)
    BY <1>8, <1>10
  <2> HIDE DEF r
  <2>2. Encodes(f, s) /\ 0 \in Arcs
    BY <1>10, <2>1, EncodingIs, OidNumbers DEF Arcs
  <2>3. from_arcs(s) = finish(f)
    BY <1>10, <2>1, FromArcsIs
  <2> HIDE DEF f
  <2>4. f \in Encoders
    BY <2>2, ArcEncodes
  <2>5. CASE IsOk(finish(f))
    <3>1. finish(f) = Ok(finish(f).value)
      BY <2>2, <2>5, FinishIs
    <3>2. Accepted(t)
      BY <2>1, <2>3, <2>5 DEF Accepted, s
    <3> QED
      BY <2>3, <2>4, <3>1, <3>2 DEF Answered, s, f
  <2>6. CASE ~ IsOk(finish(f))
    <3>1. finish(f) = Err("Empty") /\ finish(f) = Err(finish(f).error)
      BY <2>2, <2>6, FinishIs DEF Err
    <3>2. ~ Accepted(t)
      BY <2>3, <2>6 DEF Accepted, s
    <3> QED
      BY <2>4, <3>1, <3>2 DEF Answered, f
  <2> QED
    BY <2>5, <2>6 DEF f
<1> QED
  BY <1>7, <1>9, <1>10 DEF r

(* One character more.                                                     *)
LEMMA DigitIs ==
  ASSUME NEW t \in Seq(Characters), NEW rest, NEW cur, NEW e,
         NEW k, MidwayAt(t, rest, cur, e, k), rest # <<>>, Head(rest) \in Digits
  PROVE  LET longer == (IF cur = <<>> THEN 0 ELSE cur[1]) * Radix + Head(rest) IN
         /\ longer > ArcMax => ~ Accepted(t)
         /\ ~(longer > ArcMax) => MidwayAt(t, Tail(rest), <<longer>>, e, k + 1)
<1> DEFINE c == Head(rest)
           F == Fields(t, k)
           m == k + 1
           G == AddCharacter(F, c)
           longer == (IF cur = <<>> THEN 0 ELSE cur[1]) * Radix + c
<1>1. k \in 0 .. Len(t) /\ rest = SubSeq(t, k + 1, Len(t)) /\ (\A i \in 1 .. k : t[i] # LETTER)
      /\ Carries(F, cur, e)
  BY DEF MidwayAt
<1>2. /\ m \in 1 .. Len(t) /\ c = t[m] /\ Tail(rest) = SubSeq(t, m + 1, Len(t))
  BY <1>1, RestOf
<1>3. F \in FieldLists /\ Fields(t, m) = G
  <2>1. k \in Nat /\ k + 1 <= Len(t)
    BY <1>1, <1>2
  <2> QED
    BY <1>2, <2>1, FieldsOfMore
<1> HIDE DEF F, c
<1>4. /\ Number(LastField(G)) = longer /\ longer \in Nat
      /\ longer \in Arcs => Carries(G, <<longer>>, e)
  BY <1>1, <1>3, DigitCarries DEF c
<1> HIDE DEF G, longer
<1>5. ASSUME longer > ArcMax PROVE ~ Accepted(t)
  <2>1. m \in 0 .. Len(t) /\ Number(LastField(Fields(t, m))) > ArcMax
    BY <1>2, <1>3, <1>4, <1>5
  <2> HIDE DEF m
  <2> QED
    BY <2>1, RefusedForANumber
<1>6. ASSUME ~(longer > ArcMax) PROVE MidwayAt(t, Tail(rest), <<longer>>, e, m)
  <2>1. longer \in Arcs
    BY <1>4, <1>6, OidNumbers DEF Arcs
  <2>2. \A i \in 1 .. m : t[i] # LETTER
    <3>1. \A i \in 1 .. m : i \in 1 .. k \/ i = m
      BY <1>1
    <3>2. t[m] # LETTER
      BY <1>2, RadixIs DEF c
    <3> QED
      BY <1>1, <3>1, <3>2
  <2>3. m \in 0 .. Len(t)
    BY <1>2
  <2> HIDE DEF m
  <2> QED
    BY <1>2, <1>3, <1>4, <2>1, <2>2, <2>3 DEF MidwayAt
<1> QED
  BY <1>5, <1>6 DEF longer, c, m

LEMMA DotIs ==
  ASSUME NEW t \in Seq(Characters), NEW rest, NEW cur, NEW e,
         NEW k, MidwayAt(t, rest, cur, e, k), rest # <<>>, Head(rest) = DOT
  PROVE  /\ cur = <<>> \/ Tail(rest) = <<>> \/ ~ IsOk(arc(e, cur[1])) => ~ Accepted(t)
         /\ cur # <<>> /\ IsOk(arc(e, cur[1])) => MidwayAt(t, Tail(rest), <<>>, arc(e, cur[1]).value, k + 1)
<1> DEFINE F == Fields(t, k)
           m == k + 1
           G == AddCharacter(F, DOT)
           r == arc(e, cur[1])
<1>1. k \in 0 .. Len(t) /\ rest = SubSeq(t, k + 1, Len(t)) /\ (\A i \in 1 .. k : t[i] # LETTER)
      /\ Carries(F, cur, e)
  BY DEF MidwayAt
<1>2. /\ m \in 1 .. Len(t) /\ DOT = t[m] /\ Tail(rest) = SubSeq(t, m + 1, Len(t))
      /\ (Tail(rest) = <<>> <=> m = Len(t))
  BY <1>1, RestOf
<1>3. F \in FieldLists /\ Fields(t, m) = G
  <2>1. k \in Nat /\ k + 1 <= Len(t)
    BY <1>1, <1>2
  <2> QED
    BY <1>2, <2>1, FieldsOfMore
<1> HIDE DEF F
<1>4. /\ G \in FieldLists /\ Len(G) = Len(F) + 1 /\ LastField(G) = <<>> /\ (\A i \in 1 .. Len(F) : G[i] = F[i])
      /\ Len(F) \in Nat \ {0}
  <2>1. DOT \in Characters
    BY RadixIs DEF Characters
  <2> QED
    BY <1>3, <2>1, AddCharacterIs, FieldIs
<1>5. m \in 0 .. Len(t)
  BY <1>2
<1>6. ASSUME cur # <<>>
      PROVE  /\ EncodeArcs(NewEncoder, Done(G)) = r
             /\ IsOk(r) => Carries(G, <<>>, r.value)
  BY <1>1, <1>3, <1>6, DotCarries
<1> HIDE DEF G, m, r
<1>7. ASSUME cur = <<>> PROVE ~ Accepted(t)
  <2>1. F[Len(F)] = <<>>
    <3> DEFINE x == Number(LastField(F))
    <3>1. cur = IF LastField(F) = <<>> THEN <<>> ELSE <<x>>
      BY <1>1 DEF Carries
    <3> HIDE DEF x
    <3>2. <<x>> # <<>>
      OBVIOUS
    <3> QED
      BY <1>7, <3>1, <3>2 DEF LastField
  <2> DEFINE i == Len(F)
  <2>2. i \in 1 .. Len(G) - 1 /\ i \in 1 .. Len(F) /\ F[i] = <<>>
    BY <1>4, <2>1
  <2> HIDE DEF i
  <2>3. G[i] = <<>>
    BY <1>4, <2>2
  <2>4. i \in 1 .. Len(Fields(t, m)) - 1 /\ Fields(t, m)[i] = <<>>
    BY <1>3, <2>2, <2>3
  <2> QED
    BY <1>5, <2>4, RefusedForAField
<1>8. ASSUME Tail(rest) = <<>> PROVE ~ Accepted(t)
  <2>1. AllFields(t) = G
    BY <1>2, <1>3, <1>8 DEF AllFields
  <2>2. Len(G) \in DOMAIN G /\ G[Len(G)] = <<>>
    <3>1. Len(G) \in Nat \ {0} /\ DOMAIN G = 1 .. Len(G)
      BY <1>4, FieldIs
    <3> QED
      BY <1>4, <3>1 DEF LastField
  <2> QED
    BY <2>1, <2>2 DEF Accepted, Dotted
<1>9. ASSUME cur # <<>>, ~ IsOk(r) PROVE ~ Accepted(t)
  <2>1. ~ IsOk(EncodeArcs(NewEncoder, Done(Fields(t, m))))
    BY <1>3, <1>6, <1>9
  <2> QED
    BY <1>5, <2>1, RefusedForAnArc
<1>10. ASSUME cur # <<>>, IsOk(r) PROVE MidwayAt(t, Tail(rest), <<>>, r.value, m)
  <2>1. \A i \in 1 .. m : t[i] # LETTER
    <3>1. \A i \in 1 .. m : i \in 1 .. k \/ i = m
      BY <1>1 DEF m
    <3>2. t[m] # LETTER
      BY <1>2, RadixIs
    <3> QED
      BY <1>1, <3>1, <3>2
  <2> QED
    BY <1>2, <1>3, <1>5, <1>6, <1>10, <2>1 DEF MidwayAt
<1> QED
  BY <1>7, <1>8, <1>9, <1>10 DEF r, m

LEMMA LetterIs ==
  ASSUME NEW t \in Seq(Characters), NEW rest, NEW cur, NEW e,
         NEW k, MidwayAt(t, rest, cur, e, k), rest # <<>>, Head(rest) = LETTER
  PROVE  ~ Accepted(t)
<1>1. k \in 0 .. Len(t) /\ rest = SubSeq(t, k + 1, Len(t))
  BY DEF MidwayAt
<1> DEFINE m == k + 1
<1>2. m \in 1 .. Len(t) /\ t[m] = LETTER
  BY <1>1, RestOf
<1> HIDE DEF m
<1> QED
  BY <1>2, RefusedForALetter

--------------------------------------------------------------------------------
(* A text is looked at once before the parser begins.                      *)
LEMMA BlankIs == Blank \in FieldLists /\ Len(Blank) = 1 /\ Blank[1] = <<>> /\ LastField(Blank) = <<>>
<1>1. <<>> \in Seq(Characters)
  OBVIOUS
<1>2. Blank \in Seq(Seq(Characters)) /\ Len(Blank) = 1 /\ Blank[1] = <<>>
  BY <1>1 DEF Blank
<1>3. Blank \in FieldLists
  <2>1. Len(Blank) >= 1
    BY <1>2
  <2> QED
    BY <1>2, <2>1 DEF FieldLists
<1>4. LastField(Blank) = <<>>
  BY ONLY <1>2 DEF LastField
<1> QED
  BY <1>2, <1>3, <1>4

LEMMA Begins ==
  ASSUME NEW t \in Seq(Characters), t # <<>>
  PROVE  Midway(t, t, <<>>, NewEncoder)
<1> DEFINE n == Len(t)
<1>1. n \in Nat /\ 0 \in 0 .. n /\ t = SubSeq(t, 0 + 1, n)
  <2>1. IsSequence(t)
    BY OfItsElements
  <2>2. t = SubSeq(t, 1, n) /\ n \in Nat
    BY <2>1, WholeSegment, SequenceShape
  <2> QED
    BY <2>2
<1>2. Fields(t, 0) = Blank
  BY <1>1, FieldsIs DEF Blank
<1>3. Carries(Blank, <<>>, NewEncoder)
  <2>1. Done(Blank) = <<>>
    <3>1. Done(Blank) \in Seq(Nat) /\ Len(Done(Blank)) = 0
      <4>1. Done(Blank) \in Seq(Nat) /\ Len(Done(Blank)) = Len(Blank) - 1
        BY BlankIs, TotalsAre
      <4>2. Len(Blank) = 1
        BY BlankIs
      <4> QED
        BY ONLY <4>1, <4>2
    <3>2. IsSequence(Done(Blank))
      BY <3>1, OfItsElements
    <3> QED
      BY <3>1, <3>2, SequenceShape
  <2>2. EncodeArcs(NewEncoder, <<>>) = Ok(NewEncoder)
    BY NewAtWork, EncodeNone
  <2>3. <<>> \in Seq(Arcs) /\ 0 \in Arcs
    BY OidNumbers DEF Arcs
  <2>4. \A i \in 1 .. Len(Blank) - 1 : FALSE
    BY BlankIs
  <2> QED
    <3>1. LastField(Blank) = <<>> /\ Number(<<>>) = 0
      BY BlankIs, NumberOfNone
    <3>2. Done(Blank) \in Seq(Arcs) /\ EncodeArcs(NewEncoder, Done(Blank)) = Ok(NewEncoder)
      BY <2>1, <2>2, <2>3
    <3> QED
      BY <2>3, <2>4, <3>1, <3>2 DEF Carries
<1>4. MidwayAt(t, t, <<>>, NewEncoder, 0)
  BY <1>1, <1>2, <1>3 DEF MidwayAt
<1> QED
  BY <1>1, <1>4 DEF Midway

LEMMA RefusedAtOnce ==
  ASSUME NEW t \in Seq(Characters), t = <<>> \/ t[1] \notin Digits
  PROVE  ~ Accepted(t)
<1>1. CASE t = <<>>
  BY <1>1 DEF Accepted
<1>2. CASE t # <<>> /\ t[1] \notin Digits
  <2>1. 1 \in 1 .. Len(t) /\ t[1] \in Characters /\ 1 \in 0 .. Len(t) /\ 0 + 1 <= Len(t)
    BY <1>2
  <2>2. t[1] = DOT \/ t[1] = LETTER
    BY <1>2, <2>1, RadixIs DEF Characters
  <2>3. CASE t[1] = LETTER
    BY <2>1, <2>3, RefusedForALetter
  <2>4. CASE t[1] = DOT
    <3> DEFINE G == Fields(t, 1)
    <3>1. Fields(t, 0) = Blank
      BY <2>1, FieldsIs DEF Blank
    <3>2. G = AddCharacter(Blank, DOT)
      <4>1. Fields(t, 0 + 1) = AddCharacter(Fields(t, 0), t[0 + 1])
        BY <2>1, FieldsOfMore
      <4> QED
        BY <2>4, <3>1, <4>1
    <3>3. DOT \in Characters
      BY RadixIs DEF Characters
    <3> HIDE DEF G
    <3>4. Len(G) = 2 /\ G[1] = <<>>
      <4>1. Len(G) = Len(Blank) + 1 /\ \A i \in 1 .. Len(Blank) : G[i] = Blank[i]
        BY <3>2, <3>3, BlankIs, AddCharacterIs
      <4>2. Len(Blank) = 1 /\ Blank[1] = <<>> /\ 1 \in 1 .. 1
        BY BlankIs
      <4> QED
        BY ONLY <4>1, <4>2
    <3>5. 1 \in 1 .. Len(G) - 1
      BY <3>4
    <3> QED
      BY <2>1, <3>4, <3>5, RefusedForAField DEF G
  <2> QED
    BY <2>2, <2>3, <2>4
<1> QED
  BY <1>1, <1>2

(* An answer is told from no call and from a running one, and an OID that  *)
(* it holds is the one the numbers of the text are encoded as.             *)
LEMMA AnsweredIs ==
  ASSUME NEW t, NEW r, Answered(t, r)
  PROVE  /\ r.kind \in {"Ok", "Err"} /\ r # Idle /\ r # Running
         /\ t \in Seq(Characters) /\ (IsOk(r) <=> Accepted(t))
         /\ IsOk(r) => from_arcs(Numbers(t)) = Ok(r.value) /\ Means(r.value, Numbers(t))
<1>1. CASE Accepted(t) /\ r = Ok(r.value) /\ r = from_arcs(Numbers(t))
  <2>1. r.kind = "Ok" /\ r # Idle /\ r # Running
    BY <1>1 DEF Ok, Idle, Running
  <2>2. Means(r.value, Numbers(t))
    BY <1>1, FromArcsIs DEF Accepted
  <2> QED
    BY <1>1, <2>1, <2>2 DEF IsOk, Answered
<1>2. CASE ~ Accepted(t) /\ r = Err(r.error)
  <2>1. r.kind = "Err" /\ r # Idle /\ r # Running
    BY <1>2 DEF Err, Idle, Running
  <2> QED
    BY <1>2, <2>1 DEF IsOk, Answered
<1> QED
  BY <1>1, <1>2 DEF Answered

LEMMA RefusalIs ==
  ASSUME NEW t \in Seq(Characters), ~ Accepted(t), NEW x
  PROVE  Answered(t, Err(x))
<1>1. Err(x) = Err(Err(x).error)
  BY DEF Err
<1> QED
  BY <1>1 DEF Answered

--------------------------------------------------------------------------------
(* Every action keeps the invariant.  First what it says of a state in     *)
(* which the parser is idle, running or done.                              *)
LEMMA Apart == Idle # Running /\ (~ Held => made = "none") /\ (made = "none" => ~ Held)
  BY DEF Idle, Running, Held

LEMMA WhenIdle ==
  ASSUME IInv, result = Idle
  PROVE  text = <<>> /\ remaining = <<>> /\ current_arc = <<>> /\ enc = NewEncoder
  BY Apart, AnsweredIs DEF IInv, ParserIsRight

LEMMA WhenRunning ==
  ASSUME IInv, Parsing
  PROVE  /\ ~ Held /\ text \in Seq(Characters) /\ text # <<>>
         /\ \E k \in 0 .. Len(text) : MidwayAt(text, remaining, current_arc, enc, k)
<1>1. result # Idle /\ result = Running
  BY Apart DEF Parsing
<1>2. ~ Held
  BY <1>1 DEF IInv, OidIsRight
<1>3. Midway(text, remaining, current_arc, enc)
  BY <1>1, AnsweredIs DEF IInv, ParserIsRight
<1> QED
  BY <1>2, <1>3 DEF Midway

LEMMA WhenAnswered ==
  ASSUME IInv, result.kind \in {"Ok", "Err"}
  PROVE  Answered(text, result) /\ ~ Held
<1>1. result # Idle /\ result # Running
  BY DEF Idle, Running
<1> QED
  BY <1>1 DEF IInv, ParserIsRight, OidIsRight

LEMMA OidStays ==
  ASSUME IInv, UNCHANGED oid_vars, ~ Held \/ result' = Idle
  PROVE  OidIsRight'
<1>1. oid' = oid /\ meant' = meant /\ made' = made
  BY DEF oid_vars
<1> QED
  BY <1>1 DEF IInv, OidIsRight, Held

(* The caller holds a new OID that means s, or none, and no parser runs.   *)
LEMMA OidIsNew ==
  ASSUME NEW m \in {"arcs", "bytes"}, Means(oid', meant'), made' = m, result' = Idle,
         m = "arcs" => from_arcs(meant') = Ok(oid')
  PROVE  OidIsRight'
<1>1. made' # "none"
  OBVIOUS
<1> QED
  BY <1>1 DEF OidIsRight, Held

LEMMA ParserStays ==
  ASSUME IInv, UNCHANGED parser_vars
  PROVE  ParserTyped' /\ ParserIsRight' /\ result' = result
<1>1. text' = text /\ remaining' = remaining /\ current_arc' = current_arc /\ enc' = enc /\ result' = result
  BY DEF parser_vars
<1> QED
  BY <1>1 DEF IInv, ParserTyped, ParserIsRight

LEMMA ParserRests ==
  ASSUME text' = <<>>, remaining' = <<>>, current_arc' = <<>>, enc' = NewEncoder, result' = Idle
  PROVE  ParserTyped' /\ ParserIsRight'
<1>1. <<>> \in Seq(Characters) /\ <<>> \in Carried
  BY DEF Carried
<1>2. NewEncoder \in Encoders
  BY NewAtWork DEF Working
<1> QED
  BY <1>1, <1>2 DEF ParserTyped, ParserIsRight

LEMMA InitIInv == Init => IInv
<1> SUFFICES ASSUME Init PROVE IInv
  OBVIOUS
<1>1. text = <<>> /\ remaining = <<>> /\ current_arc = <<>> /\ enc = NewEncoder /\ result = Idle
  BY DEF Init, ParserInit
<1>2. ParserTyped /\ ParserIsRight
  <2>1. <<>> \in Seq(Characters) /\ <<>> \in Carried
    BY DEF Carried
  <2>2. NewEncoder \in Encoders
    BY NewAtWork DEF Working
  <2> QED
    BY <1>1, <2>1, <2>2 DEF ParserTyped, ParserIsRight
<1>3. OidIsRight
  BY Apart DEF Init, OidIsRight
<1> QED
  BY <1>2, <1>3 DEF IInv

LEMMA NewIInv ==
  ASSUME IInv, NEW t \in Texts, New(t)
  PROVE  IInv'
<1>1. t \in Seq(Characters)
  BY TextAssumption DEF Characters
<1>2. ~ Held /\ result = Idle /\ text' = t /\ remaining' = t /\ current_arc' = current_arc /\ enc' = enc
      /\ result' = (IF t = <<>> THEN Err("Empty") ELSE IF t[1] \notin Digits THEN Err("DigitExpected") ELSE Running)
      /\ UNCHANGED oid_vars
  BY DEF New, Parse
<1>3. current_arc' = <<>> /\ enc' = NewEncoder
  BY <1>2, WhenIdle
<1>4. ParserTyped'
  <2>1. <<>> \in Carried
    BY DEF Carried
  <2>2. NewEncoder \in Encoders
    BY NewAtWork DEF Working
  <2> QED
    BY <1>1, <1>2, <1>3, <2>1, <2>2 DEF ParserTyped
<1>5. CASE t # <<>> /\ t[1] \in Digits
  <2>1. result' = Running /\ Midway(text', remaining', current_arc', enc')
    BY <1>1, <1>2, <1>3, <1>5, Begins
  <2>2. ParserIsRight'
    BY <2>1 DEF ParserIsRight
  <2> QED
    BY <1>2, <1>4, <2>2, OidStays DEF IInv
<1>6. CASE t = <<>> \/ t[1] \notin Digits
  <2>1. ~ Accepted(t)
    BY <1>1, <1>6, RefusedAtOnce
  <2>2. \E x : result' = Err(x)
    BY <1>2, <1>6
  <2>3. Answered(text', result')
    BY <1>1, <1>2, <2>1, <2>2, RefusalIs
  <2>4. ParserIsRight'
    BY <2>3 DEF ParserIsRight
  <2> QED
    BY <1>2, <1>4, <2>4, OidStays DEF IInv
<1> QED
  BY <1>5, <1>6

(* A step of the parser refuses a text that is not to be accepted, answers *)
(* at its end, or goes on with what the characters so far amount to.       *)
LEMMA FailIInv ==
  ASSUME IInv, Parsing, ~ Accepted(text), NEW x, Fail(x), UNCHANGED oid_vars
  PROVE  IInv'
<1>1. text \in Seq(Characters) /\ ~ Held
  BY WhenRunning
<1>2. result' = Err(x) /\ text' = text /\ remaining' = remaining /\ current_arc' = current_arc /\ enc' = enc
  BY DEF Fail
<1>3. Answered(text', result')
  BY <1>1, <1>2, RefusalIs
<1>4. ParserTyped'
  BY <1>2 DEF IInv, ParserTyped
<1>5. ParserIsRight'
  BY <1>3 DEF ParserIsRight
<1> QED
  BY <1>1, <1>4, <1>5, OidStays DEF IInv

LEMMA GoOnIInv ==
  ASSUME IInv, Parsing, UNCHANGED <<text, result>>, UNCHANGED oid_vars,
         NEW k \in 0 .. Len(text), MidwayAt(text, remaining', current_arc', enc', k)
  PROVE  IInv'
<1>1. text \in Seq(Characters) /\ ~ Held /\ text # <<>> /\ result = Running
  BY WhenRunning DEF Parsing
<1>2. text' = text /\ result' = result
  OBVIOUS
<1>3. ParserTyped'
  <2>1. remaining' = SubSeq(text, k + 1, Len(text)) /\ Carries(Fields(text, k), current_arc', enc')
    BY DEF MidwayAt
  <2>2. remaining' \in Seq(Characters)
    BY <1>1, <2>1, RestOf
  <2>3. Fields(text, k) \in FieldLists
    BY <1>1, FieldsIs
  <2>4. current_arc' \in Carried /\ enc' \in Encoders
    BY <2>1, <2>3, CarriesTyped
  <2> QED
    BY <1>1, <1>2, <2>2, <2>4 DEF ParserTyped
<1>4. Midway(text', remaining', current_arc', enc')
  <2>1. Midway(text, remaining', current_arc', enc')
    BY <1>1 DEF Midway
  <2> QED
    BY <1>2, <2>1
<1>5. ParserIsRight'
  BY <1>1, <1>2, <1>4 DEF ParserIsRight
<1> QED
  BY <1>1, <1>3, <1>5, OidStays DEF IInv

LEMMA EndOfTextIInv ==
  ASSUME IInv, EndOfText, UNCHANGED oid_vars
  PROVE  IInv'
<1> DEFINE r == arc(enc, current_arc[1])
<1>1. Parsing /\ remaining = <<>>
  BY DEF EndOfText
<1>2. /\ current_arc = <<>> => Fail("TrailingDot")
      /\ current_arc # <<>> /\ ~ IsOk(r) => Fail(r.error)
      /\ current_arc # <<>> /\ IsOk(r) =>
           enc' = r.value /\ result' = finish(r.value) /\ UNCHANGED <<text, remaining, current_arc>>
  BY DEF EndOfText
<1>3. text \in Seq(Characters) /\ ~ Held /\ text # <<>>
  BY <1>1, WhenRunning
<1>4. PICK k \in 0 .. Len(text) : MidwayAt(text, remaining, current_arc, enc, k)
  BY <1>1, WhenRunning
<1>5. /\ current_arc = <<>> => ~ Accepted(text)
      /\ current_arc # <<>> /\ ~ IsOk(r) => ~ Accepted(text)
      /\ current_arc # <<>> /\ IsOk(r) => Answered(text, finish(r.value)) /\ r.value \in Encoders
  BY <1>1, <1>3, <1>4, EndIs
<1> HIDE DEF r
<1>6. CASE current_arc = <<>>
  BY <1>1, <1>2, <1>5, <1>6, FailIInv
<1>7. CASE current_arc # <<>> /\ ~ IsOk(r)
  BY <1>1, <1>2, <1>5, <1>7, FailIInv
<1>8. CASE current_arc # <<>> /\ IsOk(r)
  <2>1. enc' = r.value /\ result' = finish(r.value) /\ text' = text /\ remaining' = remaining /\ current_arc' = current_arc
    BY <1>2, <1>8
  <2>2. Answered(text', result') /\ enc' \in Encoders
    BY <1>5, <1>8, <2>1
  <2>3. ParserTyped'
    BY <2>1, <2>2 DEF IInv, ParserTyped
  <2>4. ParserIsRight'
    BY <2>2 DEF ParserIsRight
  <2> QED
    BY <1>3, <2>3, <2>4, OidStays DEF IInv
<1> QED
  BY <1>6, <1>7, <1>8

LEMMA DigitIInv ==
  ASSUME IInv, Digit, UNCHANGED oid_vars
  PROVE  IInv'
<1> DEFINE longer == (IF current_arc = <<>> THEN 0 ELSE current_arc[1]) * Radix + Head(remaining)
<1>1. Parsing /\ remaining # <<>> /\ Head(remaining) \in Digits
  BY DEF Digit
<1>2. /\ longer > ArcMax => Fail("ArcTooBig")
      /\ ~(longer > ArcMax) =>
           current_arc' = <<longer>> /\ remaining' = Tail(remaining) /\ UNCHANGED <<text, enc, result>>
  BY DEF Digit
<1>3. text \in Seq(Characters)
  BY <1>1, WhenRunning
<1>4. PICK k \in 0 .. Len(text) : MidwayAt(text, remaining, current_arc, enc, k)
  BY <1>1, WhenRunning
<1>5. /\ longer > ArcMax => ~ Accepted(text)
      /\ ~(longer > ArcMax) => MidwayAt(text, Tail(remaining), <<longer>>, enc, k + 1)
  BY <1>1, <1>3, <1>4, DigitIs
<1> HIDE DEF longer
<1>6. CASE longer > ArcMax
  BY <1>1, <1>2, <1>5, <1>6, FailIInv
<1>7. CASE ~(longer > ArcMax)
  <2> DEFINE m == k + 1
  <2>1. current_arc' = <<longer>> /\ remaining' = Tail(remaining) /\ text' = text /\ enc' = enc /\ result' = result
    BY <1>2, <1>7
  <2>2. MidwayAt(text, Tail(remaining), <<longer>>, enc, m)
    BY <1>5, <1>7
  <2> HIDE DEF m
  <2>3. MidwayAt(text, remaining', current_arc', enc', m)
    BY <2>1, <2>2
  <2>4. m \in 0 .. Len(text)
    BY <2>2 DEF MidwayAt
  <2> QED
    BY <1>1, <2>1, <2>3, <2>4, GoOnIInv
<1> QED
  BY <1>6, <1>7

LEMMA DotIInv ==
  ASSUME IInv, Dot, UNCHANGED oid_vars
  PROVE  IInv'
<1> DEFINE r == arc(enc, current_arc[1])
<1>1. Parsing /\ remaining # <<>> /\ Head(remaining) = DOT
  BY DEF Dot
<1>2. /\ current_arc = <<>> => Fail("RepeatedDot")
      /\ current_arc # <<>> /\ Tail(remaining) = <<>> => Fail("TrailingDot")
      /\ current_arc # <<>> /\ Tail(remaining) # <<>> /\ ~ IsOk(r) => Fail(r.error)
      /\ current_arc # <<>> /\ Tail(remaining) # <<>> /\ IsOk(r) =>
           enc' = r.value /\ current_arc' = <<>> /\ remaining' = Tail(remaining) /\ UNCHANGED <<text, result>>
  BY DEF Dot
<1>3. text \in Seq(Characters)
  BY <1>1, WhenRunning
<1>4. PICK k \in 0 .. Len(text) : MidwayAt(text, remaining, current_arc, enc, k)
  BY <1>1, WhenRunning
<1>5. /\ current_arc = <<>> \/ Tail(remaining) = <<>> \/ ~ IsOk(r) => ~ Accepted(text)
      /\ current_arc # <<>> /\ IsOk(r) => MidwayAt(text, Tail(remaining), <<>>, r.value, k + 1)
  BY <1>1, <1>3, <1>4, DotIs
<1> HIDE DEF r
<1>6. CASE current_arc = <<>>
  BY <1>1, <1>2, <1>5, <1>6, FailIInv
<1>7. CASE current_arc # <<>> /\ Tail(remaining) = <<>>
  BY <1>1, <1>2, <1>5, <1>7, FailIInv
<1>8. CASE current_arc # <<>> /\ Tail(remaining) # <<>> /\ ~ IsOk(r)
  BY <1>1, <1>2, <1>5, <1>8, FailIInv
<1>9. CASE current_arc # <<>> /\ Tail(remaining) # <<>> /\ IsOk(r)
  <2> DEFINE m == k + 1
  <2>1. enc' = r.value /\ current_arc' = <<>> /\ remaining' = Tail(remaining) /\ text' = text /\ result' = result
    BY <1>2, <1>9
  <2>2. MidwayAt(text, Tail(remaining), <<>>, r.value, m)
    BY <1>5, <1>9
  <2> HIDE DEF m
  <2>3. MidwayAt(text, remaining', current_arc', enc', m)
    BY <2>1, <2>2
  <2>4. m \in 0 .. Len(text)
    BY <2>2 DEF MidwayAt
  <2> QED
    BY <1>1, <2>1, <2>3, <2>4, GoOnIInv
<1> QED
  BY <1>6, <1>7, <1>8, <1>9

LEMMA LetterIInv ==
  ASSUME IInv, Letter, UNCHANGED oid_vars
  PROVE  IInv'
<1>1. Parsing /\ remaining # <<>> /\ Head(remaining) = LETTER /\ Fail("DigitExpected")
  BY DEF Letter
<1>2. text \in Seq(Characters)
  BY <1>1, WhenRunning
<1>3. PICK k \in 0 .. Len(text) : MidwayAt(text, remaining, current_arc, enc, k)
  BY <1>1, WhenRunning
<1>4. ~ Accepted(text)
  BY <1>1, <1>2, <1>3, LetterIs
<1> QED
  BY <1>1, <1>4, FailIInv

(* What the caller does with a right OID leaves it with a right one.       *)
LEMMA TakeParsedIInv ==
  ASSUME IInv, TakeParsed
  PROVE  IInv'
<1>1. /\ result.kind \in {"Ok", "Err"} /\ text' = <<>> /\ remaining' = <<>> /\ current_arc' = <<>>
      /\ enc' = NewEncoder /\ result' = Idle
      /\ Parsed => oid' = result.value /\ meant' = Numbers(text) /\ made' = "arcs"
      /\ ~ Parsed => UNCHANGED oid_vars
  BY DEF TakeParsed, Return
<1>2. ParserTyped' /\ ParserIsRight'
  BY <1>1, ParserRests
<1>3. Answered(text, result) /\ ~ Held
  BY <1>1, WhenAnswered
<1>4. CASE Parsed
  <2>1. from_arcs(Numbers(text)) = Ok(result.value) /\ Means(result.value, Numbers(text))
    BY <1>3, <1>4, AnsweredIs DEF Parsed
  <2>2. from_arcs(meant') = Ok(oid') /\ Means(oid', meant') /\ made' = "arcs"
    BY <1>1, <1>4, <2>1
  <2>3. OidIsRight'
    BY <1>1, <2>2, OidIsNew
  <2> QED
    BY <1>2, <2>3 DEF IInv
<1>5. CASE ~ Parsed
  BY <1>1, <1>2, <1>3, <1>5, OidStays DEF IInv
<1> QED
  BY <1>4, <1>5

LEMMA FromBytesIInv ==
  ASSUME IInv, NEW bytes \in ByteInputs, FromBytes(bytes)
  PROVE  IInv'
<1> DEFINE r == from_bytes(bytes)
<1>1. /\ ~ Held /\ result = Idle /\ UNCHANGED parser_vars
      /\ IsOk(r) => oid' = r.value /\ meant' = Meaning(bytes) /\ made' = "bytes"
      /\ ~ IsOk(r) => UNCHANGED oid_vars
  BY DEF FromBytes
<1>2. ParserTyped' /\ ParserIsRight' /\ result' = result
  BY <1>1, ParserStays
<1>3. bytes \in Seq(Octets)
  BY InputAssumption
<1>4. CASE IsOk(r)
  <2>1. Means(r.value, Meaning(bytes))
    BY <1>3, <1>4, FromBytesIs
  <2>2. Means(oid', meant') /\ made' = "bytes"
    BY <1>1, <1>4, <2>1
  <2>3. OidIsRight'
    BY <1>1, <1>2, <2>2, OidIsNew
  <2> QED
    BY <1>2, <2>3 DEF IInv
<1>5. CASE ~ IsOk(r)
  BY <1>1, <1>2, <1>5, OidStays DEF IInv
<1> QED
  BY <1>4, <1>5

LEMMA FromArcsIInv ==
  ASSUME IInv, NEW arcs \in ArcInputs, FromArcs(arcs)
  PROVE  IInv'
<1> DEFINE r == from_arcs(arcs)
<1>1. /\ ~ Held /\ result = Idle /\ UNCHANGED parser_vars
      /\ IsOk(r) => oid' = r.value /\ meant' = arcs /\ made' = "arcs"
      /\ ~ IsOk(r) => UNCHANGED oid_vars
  BY DEF FromArcs
<1>2. ParserTyped' /\ ParserIsRight' /\ result' = result
  BY <1>1, ParserStays
<1>3. arcs \in Seq(Arcs)
  BY InputAssumption
<1>4. CASE IsOk(r)
  <2>1. Means(r.value, arcs) /\ r = Ok(r.value)
    BY <1>3, <1>4, FromArcsIs
  <2>2. Means(oid', meant') /\ made' = "arcs" /\ from_arcs(meant') = Ok(oid')
    BY <1>1, <1>4, <2>1
  <2>3. OidIsRight'
    BY <1>1, <1>2, <2>2, OidIsNew
  <2> QED
    BY <1>2, <2>3 DEF IInv
<1>5. CASE ~ IsOk(r)
  BY <1>1, <1>2, <1>5, OidStays DEF IInv
<1> QED
  BY <1>4, <1>5

LEMMA WhenHeld ==
  ASSUME IInv, Held
  PROVE  /\ Means(oid, meant) /\ meant \in Seq(Arcs) /\ Len(meant) >= 2 /\ result = Idle
         /\ made \in {"arcs", "bytes"} /\ (made = "arcs" => from_arcs(meant) = Ok(oid))
  BY Apart DEF IInv, OidIsRight, Means

LEMMA PushArcIInv ==
  ASSUME IInv, NEW a \in Arcs, PushArc(a)
  PROVE  IInv'
<1> DEFINE r == push_arc(oid, a)
<1>1. /\ Held /\ UNCHANGED parser_vars
      /\ IsOk(r) => oid' = r.value /\ meant' = Append(meant, a) /\ made' = made
      /\ ~ IsOk(r) => UNCHANGED oid_vars
  BY DEF PushArc
<1>2. ParserTyped' /\ ParserIsRight' /\ result' = result
  BY <1>1, ParserStays
<1>3. Means(oid, meant) /\ result = Idle /\ made \in {"arcs", "bytes"} /\ (made = "arcs" => from_arcs(meant) = Ok(oid))
  BY <1>1, WhenHeld
<1>4. CASE IsOk(r)
  <2>1. r = Ok(r.value) /\ Means(r.value, Append(meant, a))
        /\ (from_arcs(meant) = Ok(oid) => from_arcs(Append(meant, a)) = r)
    BY <1>3, <1>4, PushIs
  <2>2. Means(oid', meant') /\ (made = "arcs" => from_arcs(meant') = Ok(oid'))
    BY <1>1, <1>3, <1>4, <2>1
  <2>3. OidIsRight'
    BY <1>1, <1>2, <1>3, <1>4, <2>2, OidIsNew
  <2> QED
    BY <1>2, <2>3 DEF IInv
<1>5. CASE ~ IsOk(r)
  BY <1>1, <1>2, <1>3, <1>5, OidStays DEF IInv
<1> QED
  BY <1>4, <1>5

LEMMA AllButTheLast ==
  ASSUME NEW S, NEW s \in Seq(S), Len(s) >= 2
  PROVE  SubSeq(s, 1, Len(s) - 1) \in Seq(S) /\ Len(SubSeq(s, 1, Len(s) - 1)) = Len(s) - 1
         /\ Front(s) = SubSeq(s, 1, Len(s) - 1)
<1> DEFINE k == Len(s) - 1
<1>1. k \in Nat /\ Len(s) = k + 1
  OBVIOUS
<1> HIDE DEF k
<1>2. SubSeq(s, 1, k) \in Seq(S) /\ Len(SubSeq(s, 1, k)) = k
  BY <1>1, LastOff
<1> QED
  BY <1>2 DEF k, Front

LEMMA ParentIInv ==
  ASSUME IInv, Parent
  PROVE  IInv'
<1> DEFINE r == parent(oid)
           s == SubSeq(meant, 1, Len(meant) - 1)
<1>1. /\ Held /\ UNCHANGED parser_vars
      /\ IsOk(r) => oid' = r.value /\ meant' = Front(meant) /\ made' = "arcs"
      /\ ~ IsOk(r) => UNCHANGED oid_vars
  BY DEF Parent
<1>2. ParserTyped' /\ ParserIsRight' /\ result' = result
  BY <1>1, ParserStays
<1>3. Means(oid, meant) /\ result = Idle /\ meant \in Seq(Arcs) /\ Len(meant) >= 2
  BY <1>1, WhenHeld
<1>4. r = from_arcs(s) /\ s \in Seq(Arcs) /\ Front(meant) = s
  BY <1>3, ParentIs, AllButTheLast
<1> HIDE DEF r, s
<1>5. CASE IsOk(r)
  <2>1. Means(r.value, s) /\ r = Ok(r.value)
    BY <1>4, <1>5, FromArcsIs
  <2>2. Means(oid', meant') /\ made' = "arcs" /\ from_arcs(meant') = Ok(oid')
    BY <1>1, <1>4, <1>5, <2>1
  <2>3. OidIsRight'
    BY <1>2, <1>3, <2>2, OidIsNew
  <2> QED
    BY <1>2, <2>3 DEF IInv
<1>6. CASE ~ IsOk(r)
  BY <1>1, <1>2, <1>3, <1>6, OidStays DEF IInv
<1> QED
  BY <1>5, <1>6

LEMMA DropIInv ==
  ASSUME IInv, Drop
  PROVE  IInv'
<1>1. UNCHANGED parser_vars /\ oid' = NoOid /\ meant' = <<>> /\ made' = "none"
  BY DEF Drop
<1>2. ParserTyped' /\ ParserIsRight'
  BY <1>1, ParserStays
<1>3. OidIsRight'
  BY <1>1 DEF OidIsRight, Held
<1> QED
  BY <1>2, <1>3 DEF IInv

LEMMA NextIInv == IInv /\ [Next]_vars => IInv'
<1> SUFFICES ASSUME IInv, [Next]_vars PROVE IInv'
  OBVIOUS
<1>1. ASSUME NEW t \in Texts, New(t) PROVE IInv'
  BY <1>1, NewIInv
<1>2. CASE Parser
  BY <1>2, EndOfTextIInv, DigitIInv, DotIInv, LetterIInv DEF Parser, ParseStep
<1>3. CASE TakeParsed
  BY <1>3, TakeParsedIInv
<1>4. ASSUME NEW bytes \in ByteInputs, FromBytes(bytes) PROVE IInv'
  BY <1>4, FromBytesIInv
<1>5. ASSUME NEW arcs \in ArcInputs, FromArcs(arcs) PROVE IInv'
  BY <1>5, FromArcsIInv
<1>6. ASSUME NEW a \in Arcs, PushArc(a) PROVE IInv'
  BY <1>6, PushArcIInv
<1>7. CASE Parent
  BY <1>7, ParentIInv
<1>8. CASE Drop
  BY <1>8, DropIInv
<1>9. CASE UNCHANGED vars
  <2>1. UNCHANGED parser_vars /\ UNCHANGED oid_vars
    BY <1>9 DEF vars, parser_vars, oid_vars
  <2>2. ParserTyped' /\ ParserIsRight' /\ result' = result
    BY <2>1, ParserStays
  <2>3. ~ Held \/ result' = Idle
    BY <2>2, WhenHeld
  <2> QED
    BY <2>1, <2>2, <2>3, OidStays DEF IInv
<1> QED
  BY <1>1, <1>2, <1>3, <1>4, <1>5, <1>6, <1>7, <1>8, <1>9 DEF Next

--------------------------------------------------------------------------------
(* The arcs the library encodes are the arcs it iterates over, and the     *)
(* octets it has written are octets it takes over, into the same array     *)
(* (ObjectIdentifier::from_arcs, arcs, as_bytes and from_bytes).           *)
THEOREM ReadingBack ==
  ASSUME NEW arcs \in Seq(Arcs), IsOk(from_arcs(arcs))
  PROVE  /\ ArcsOf(as_bytes(from_arcs(arcs).value)) = Ok(arcs)
         /\ from_bytes(as_bytes(from_arcs(arcs).value)) = Ok(from_arcs(arcs).value)
<1> DEFINE ber == from_arcs(arcs).value
           t == as_bytes(ber)
<1>1. Means(ber, arcs)
  BY FromArcsIs
<1> HIDE DEF ber
<1>2. ArcsOf(t) = Ok(arcs) /\ Len(t) = ber.length /\ \A i \in 1 .. ber.length : t[i] = ber.bytes[i]
  BY <1>1, MeansWhatItYields
<1>3. ber = [length |-> ber.length, bytes |-> ber.bytes] /\ ber.length \in 1 .. MaxSize
      /\ ber.bytes \in Arrays /\ \A i \in ber.length + 1 .. MaxSize : ber.bytes[i] = 0
  BY <1>1, MeansIs
<1> HIDE DEF t
<1> DEFINE b == [i \in 1 .. MaxSize |-> IF i <= Len(t) THEN t[i] ELSE 0]
<1>4. b = ber.bytes
  <2>1. ber.bytes = [i \in 1 .. MaxSize |-> ber.bytes[i]]
    BY <1>3 DEF Arrays
  <2>2. ASSUME NEW i \in 1 .. MaxSize PROVE b[i] = ber.bytes[i]
    <3>1. CASE i <= ber.length
      <4>1. i \in 1 .. ber.length
        BY <1>3, <3>1, OidNumbers
      <4> QED
        BY <1>2, <3>1, <4>1
    <3>2. CASE ~(i <= ber.length)
      <4>1. i \in ber.length + 1 .. MaxSize
        BY <1>3, <3>2, OidNumbers
      <4> QED
        BY <1>2, <1>3, <3>2, <4>1
    <3> QED
      BY <3>1, <3>2
  <2> QED
    BY <2>1, <2>2
<1>5. IsOk(ArcsOf(t)) /\ ~(Len(t) > MaxSize)
  BY <1>2, <1>3, OidNumbers DEF IsOk, Ok
<1>6. from_bytes(t) = Ok([length |-> Len(t), bytes |-> b])
  <2>1. from_bytes(t) = Ok([length |-> as_u8(Len(t)), bytes |-> b])
    BY <1>5 DEF from_bytes
  <2>2. Len(t) \in 0 .. MaxSize
    BY <1>2, <1>5, OidNumbers
  <2> QED
    BY <2>1, <2>2, LengthsFit
<1> QED
  BY <1>2, <1>3, <1>4, <1>6 DEF ber, t

--------------------------------------------------------------------------------
(* The invariant holds in every reachable state.                           *)
THEOREM Invariance == Spec => []IInv
<1>1. Init => IInv
  BY InitIInv
<1>2. IInv /\ [Next]_vars => IInv'
  BY NextIInv
<1> QED
  BY <1>1, <1>2, PTL DEF Spec

(* What the parser, the encoder, an answer and an OID are made of.         *)
TypeOK ==
  /\ text \in Seq(Characters) /\ remaining \in Seq(Characters)
  /\ current_arc \in Carried /\ enc \in Encoders
  /\ \/ result \in {Idle, Running} \/ result = Err(result.error)
     \/ result = Ok(result.value) /\ result.value \in OidBuffers
  /\ oid \in OidBuffers /\ meant \in Seq(Arcs) /\ made \in {"none", "arcs", "bytes"}

LEMMA IInvTyped == IInv => TypeOK
<1> SUFFICES ASSUME IInv PROVE TypeOK
  OBVIOUS
<1>1. ParserTyped /\ made \in {"none", "arcs", "bytes"}
  BY DEF IInv, OidIsRight
<1>2. oid \in OidBuffers /\ meant \in Seq(Arcs)
  <2>1. CASE Held
    BY <2>1, WhenHeld DEF Means
  <2>2. CASE ~ Held
    <3>1. oid = NoOid /\ meant = <<>>
      BY <2>2 DEF IInv, OidIsRight
    <3>2. 0 \in Octets /\ 0 \in 0 .. MaxSize
      BY OidNumbers DEF Octets
    <3>3. NoOid \in OidBuffers
      BY <3>2 DEF NoOid, OidBuffers, Arrays
    <3>4. <<>> \in Seq(Arcs)
      OBVIOUS
    <3> QED
      BY <3>1, <3>3, <3>4
  <2> QED
    BY <2>1, <2>2
<1>3. \/ result \in {Idle, Running} \/ result = Err(result.error)
      \/ result = Ok(result.value) /\ result.value \in OidBuffers
  <2>1. result = Idle \/ result = Running \/ Answered(text, result)
    BY DEF IInv, ParserIsRight
  <2>2. CASE Answered(text, result) /\ IsOk(result)
    <3>1. Means(result.value, Numbers(text)) /\ result = Ok(result.value)
      BY <2>2, AnsweredIs DEF Answered
    <3> QED
      BY <3>1 DEF Means
  <2>3. CASE Answered(text, result) /\ ~ IsOk(result)
    BY <2>3, AnsweredIs DEF Answered
  <2> QED
    BY <2>1, <2>2, <2>3
<1> QED
  BY <1>1, <1>2, <1>3 DEF TypeOK, ParserTyped

(* The fields of Parser, Encoder and ObjectIdentifier keep their types, a  *)
(* checked one for an arc and an array that is never overrun.              *)
THEOREM TypeCorrect == Spec => []TypeOK
  BY Invariance, IInvTyped, PTL

(* However an OID came about, by new, from_bytes, from_arcs, push_arc or   *)
(* parent, iterating over it (ObjectIdentifier::arcs) yields exactly the   *)
(* arcs it stands for.                                                     *)
THEOREM Iterating == Spec => []IteratesAsMeant
<1>1. IInv => IteratesAsMeant
  BY WhenHeld, MeansWhatItYields DEF IteratesAsMeant
<1> QED
  BY <1>1, Invariance, PTL

LEMMA KnownIs ==
  ASSUME NEW other \in Known
  PROVE  Means(other, ArcsIn(other)) /\ from_arcs(ArcsIn(other)) = Ok(other)
<1>1. PICK t \in ArcInputs : IsOk(from_arcs(t)) /\ other = from_arcs(t).value
  BY DEF Known
<1>2. t \in Seq(Arcs)
  BY InputAssumption
<1>3. Means(other, t) /\ from_arcs(t) = Ok(other)
  BY <1>1, <1>2, FromArcsIs
<1>4. ArcsIn(other) = t
  <2>1. ArcsOf(as_bytes(other)) = Ok(t)
    BY <1>3, MeansWhatItYields
  <2> QED
    BY <2>1 DEF ArcsIn, Ok
<1> QED
  BY <1>3, <1>4

(* For OIDs built from arcs the derived `==` on whole arrays is equality   *)
(* of the arcs, and starts_with on octets is being a prefix of the arcs.   *)
THEOREM Comparing == Spec => []ComparesByArcs
<1>1. IInv => ComparesByArcs
  <2> SUFFICES ASSUME IInv, made = "arcs", NEW other \in Known
               PROVE  /\ oid = other <=> meant = ArcsIn(other)
                      /\ starts_with(oid, other) <=> IsPrefix(ArcsIn(other), meant)
    BY DEF ComparesByArcs
  <2>1. Held
    BY DEF Held
  <2>2. Means(oid, meant) /\ from_arcs(meant) = Ok(oid)
    BY <2>1, WhenHeld
  <2>3. Means(other, ArcsIn(other)) /\ from_arcs(ArcsIn(other)) = Ok(other)
    BY KnownIs
  <2> QED
    BY <2>2, <2>3, SameOids, StartsWithIs
<1> QED
  BY <1>1, Invariance, PTL

(* The derived Ord of ObjectIdentifier, the length before the whole array, *)
(* is the order of the DER encodings (OrdIsValueOrd of der::asn1::oid).    *)
THEOREM Sorting == Spec => []SortsLikeDer
<1>1. IInv => SortsLikeDer
  <2> SUFFICES ASSUME IInv, Held, NEW other \in Known
               PROVE  Less(oid, other) <=> LessRef(<<oid.length>> \o as_bytes(oid), <<other.length>> \o as_bytes(other))
    BY DEF SortsLikeDer
  <2>1. Means(oid, meant) /\ Means(other, ArcsIn(other))
    BY WhenHeld, KnownIs
  <2> QED
    BY <2>1, SortsAsDer
<1> QED
  BY <1>1, Invariance, PTL

(* ObjectIdentifier::new accepts a text if and only if it is the dotted    *)
(* text of an OID that meets the documented criteria, or is beyond them by *)
(* having two arcs only or by filling the array.                           *)
THEOREM Accepting == Spec => []AcceptsDottedTexts
<1>1. IInv => AcceptsDottedTexts
  <2> SUFFICES ASSUME IInv, result.kind \in {"Ok", "Err"}
               PROVE  Parsed <=> text # <<>> /\ Dotted(text) /\ Representable(Numbers(text))
    BY DEF AcceptsDottedTexts
  <2>1. Answered(text, result)
    BY WhenAnswered
  <2>2. text \in Seq(Characters) /\ (Parsed <=> Accepted(text))
    BY <2>1, AnsweredIs DEF Parsed
  <2> QED
    BY <2>2, AcceptedIs
<1> QED
  BY <1>1, Invariance, PTL

LEMMA AppendedAndTakenOff ==
  ASSUME NEW S, NEW s \in Seq(S), NEW a \in S
  PROVE  SubSeq(Append(s, a), 1, Len(Append(s, a)) - 1) = s
<1> DEFINE t == Append(s, a)
           n == Len(s)
           u == SubSeq(t, 1, n)
<1>1. IsSequence(s) /\ n \in Nat
  BY OfItsElements
<1>2. IsSequence(t) /\ Len(t) = n + 1 /\ \A i \in 1 .. n : t[i] = s[i]
  BY <1>1, AppendFacts
<1> HIDE DEF t
<1>3. IsSequence(u) /\ Len(u) = n /\ \A i \in 1 .. n : u[i] = t[i]
  <2>1. 0 \in Nat /\ 0 <= n /\ n <= Len(t) /\ 0 + 1 = 1 /\ n - 0 = n
    BY <1>1, <1>2
  <2>2. IsSequence(SubSeq(t, 0 + 1, n)) /\ Len(SubSeq(t, 0 + 1, n)) = n - 0
        /\ \A i \in 1 .. n - 0 : SubSeq(t, 0 + 1, n)[i] = t[0 + i]
    BY <1>1, <1>2, <2>1, SegmentFacts
  <2> QED
    BY <1>1, <2>1, <2>2
<1>4. u = s
  <2> HIDE DEF u, n
  <2>1. Len(u) = Len(s) /\ \A i \in 1 .. Len(u) : u[i] = s[i]
    BY <1>2, <1>3 DEF n
  <2> QED
    BY <1>1, <1>3, <2>1, SequencesEqual
<1>5. Len(t) - 1 = n
  BY <1>1, <1>2
<1> QED
  BY <1>4, <1>5 DEF t

(* parent() undoes push_arc, octet for octet: the shorter OID is encoded   *)
(* anew and its array is the one that was pushed to.                       *)
THEOREM ParentOfPush == Spec => ParentUndoesPush
<1> DEFINE Longer == made = "arcs" /\ Len(meant') > Len(meant)
           Undone == Longer => parent(oid') = Ok(oid)
<1>1. ASSUME IInv, IInv', [Next]_vars PROVE [Undone]_vars
  <2> SUFFICES ASSUME Longer, Next PROVE parent(oid') = Ok(oid)
    BY <1>1
  <2>1. Held /\ Means(oid, meant) /\ meant \in Seq(Arcs) /\ Len(meant) >= 2 /\ result = Idle
        /\ from_arcs(meant) = Ok(oid)
    BY <1>1, WhenHeld DEF Held
  <2>2. ~ UNCHANGED oid_vars
    BY <2>1 DEF oid_vars
  <2>3. ASSUME NEW a \in Arcs, PushArc(a) PROVE parent(oid') = Ok(oid)
    <3> DEFINE r == push_arc(oid, a)
    <3>1. IsOk(r) /\ oid' = r.value
      BY <2>2, <2>3 DEF PushArc
    <3>2. Means(oid', Append(meant, a))
      BY <2>1, <3>1, PushIs
    <3>3. parent(oid') = from_arcs(SubSeq(Append(meant, a), 1, Len(Append(meant, a)) - 1))
      BY <3>2, ParentIs
    <3> QED
      BY <2>1, <3>3, AppendedAndTakenOff
  <2>4. ~ Parent
    <3>1. SUFFICES ASSUME Parent PROVE FALSE
      OBVIOUS
    <3>2. meant' = Front(meant)
      BY <2>2, <3>1 DEF Parent
    <3>3. Len(meant') = Len(meant) - 1
      BY <2>1, <3>2, AllButTheLast
    <3> QED
      BY <2>1, <3>3
  <2>5. ~ Drop
    <3>1. SUFFICES ASSUME Drop PROVE FALSE
      OBVIOUS
    <3>2. Len(meant') = 0
      BY <3>1 DEF Drop
    <3> QED
      BY <2>1, <3>2
  <2>6. ~ Parser
    BY <2>2 DEF Parser
  <2>7. ~ TakeParsed
    BY <2>1 DEF TakeParsed, Return, Idle
  <2>8. \A t \in Texts : ~ New(t)
    BY <2>1 DEF New
  <2>9. \A bytes \in ByteInputs : ~ FromBytes(bytes)
    BY <2>1 DEF FromBytes
  <2>10. \A arcs \in ArcInputs : ~ FromArcs(arcs)
    BY <2>1 DEF FromArcs
  <2> QED
    BY <2>3, <2>4, <2>5, <2>6, <2>7, <2>8, <2>9, <2>10 DEF Next
<1>2. IInv /\ IInv' /\ [Next]_vars => [Undone]_vars
  BY <1>1
<1> QED
  BY <1>2, Invariance, PTL DEF Spec, ParentUndoesPush
================================================================================
