-------------------------- MODULE Base64DecoderProofs --------------------------
(***************************************************************************)
(* Proofs about the streaming decoder of Base64Decoder, for all texts, line*)
(* widths and requests.                                                    *)
(***************************************************************************)
EXTENDS Base64Decoder, SequenceLemmas

--------------------------------------------------------------------------------
(* The octets of a text come from its blocks.                              *)
Octet(src, i) == decode_3bytes(Block(src, 4, (i - 1) \div 3))[((i - 1) % 3) + 1]

LEMMA DecodedLenFacts ==
  ASSUME NEW n \in Nat
  PROVE  /\ decoded_len(n) \in Nat /\ decoded_len(n) <= n
         /\ n % 4 = 0 => decoded_len(n) = 3 * (n \div 4)
         /\ \A a \in Nat : decoded_len(4 * a + n) = 3 * a + decoded_len(n)
         /\ \A k \in 0 .. n : decoded_len(k) <= decoded_len(n)
         /\ n \in 2 .. 4 => decoded_len(n) \in 1 .. 3
  BY DEF decoded_len

LEMMA DecodeShape ==
  ASSUME NEW src, IsSequence(src)
  PROVE  /\ IsSequence(DecodeSextets(src))
         /\ Len(DecodeSextets(src)) = decoded_len(Len(src))
         /\ \A i \in 1 .. decoded_len(Len(src)) : DecodeSextets(src)[i] = Octet(src, i)
<1>1. decoded_len(Len(src)) \in Nat
  BY SequenceShape, DecodedLenFacts
<1>2. DecodeSextets(src) = [i \in 1 .. decoded_len(Len(src)) |-> Octet(src, i)]
  BY DEF DecodeSextets, Octet
<1> DEFINE S == {Octet(src, i) : i \in 1 .. decoded_len(Len(src))}
<1>3. DecodeSextets(src) \in Seq(S) /\ Len(DecodeSextets(src)) = decoded_len(Len(src))
  BY <1>1, <1>2
<1> QED
  BY <1>2, <1>3, OfItsElements

SameBlock(s, k, t, m) ==
  \A j \in 1 .. 4 :
    IF 4 * k + j <= Len(s) THEN 4 * m + j <= Len(t) /\ t[4 * m + j] = s[4 * k + j]
    ELSE 4 * m + j > Len(t)

LEMMA BlocksAgree ==
  ASSUME NEW s, NEW t, Len(s) \in Nat, Len(t) \in Nat, NEW k \in Nat, NEW m \in Nat,
         SameBlock(s, k, t, m)
  PROVE  Block(s, 4, k) = Block(t, 4, m)
<1> DEFINE P(j) == IF 4 * k + j <= Len(s) THEN s[4 * k + j] ELSE 0
<1> DEFINE Q(j) == IF 4 * m + j <= Len(t) THEN t[4 * m + j] ELSE 0
<1>1. ASSUME NEW j \in 1 .. 4 PROVE P(j) = Q(j)
  <2>1. CASE 4 * k + j <= Len(s)
    BY <2>1 DEF SameBlock
  <2>2. CASE 4 * k + j > Len(s)
    BY <2>2 DEF SameBlock
  <2> QED
    BY <2>1, <2>2
<1>2. Block(s, 4, k) = [j \in 1 .. 4 |-> P(j)] /\ Block(t, 4, m) = [j \in 1 .. 4 |-> Q(j)]
  BY DEF Block
<1> QED
  BY <1>1, <1>2

(* A piece of whole blocks, or one to the end, has a piece of the octets.  *)
LEMMA PieceOctets ==
  ASSUME NEW t, IsSequence(t), NEW s, IsSequence(s), NEW a \in Nat,
         4 * a + Len(s) <= Len(t), Len(s) % 4 = 0 \/ 4 * a + Len(s) = Len(t),
         \A i \in 1 .. Len(s) : s[i] = t[4 * a + i]
  PROVE  /\ 3 * a + decoded_len(Len(s)) <= decoded_len(Len(t))
         /\ 4 * a + Len(s) = Len(t) => 3 * a + decoded_len(Len(s)) = decoded_len(Len(t))
         /\ DecodeSextets(s) = SubSeq(DecodeSextets(t), 3 * a + 1, 3 * a + decoded_len(Len(s)))
<1> DEFINE n == decoded_len(Len(s))
<1>0. Len(s) \in Nat /\ Len(t) \in Nat
  BY SequenceShape
<1>1. n \in Nat /\ 3 * a + n = decoded_len(4 * a + Len(s)) /\ 3 * a + n <= decoded_len(Len(t))
  BY <1>0, DecodedLenFacts
<1>2. ASSUME NEW i \in 1 .. n PROVE Octet(s, i) = Octet(t, 3 * a + i)
  <2> DEFINE k == (i - 1) \div 3
  <2>1. k \in Nat /\ (3 * a + i - 1) \div 3 = a + k /\ (3 * a + i - 1) % 3 = (i - 1) % 3
    BY <1>1
  <2>2. Len(s) % 4 = 0 => 4 * k + 4 <= Len(s)
    BY <1>0, <1>1 DEF decoded_len
  <2> HIDE DEF k
  <2> DEFINE m == a + k
  <2>5. m \in Nat /\ 4 * m = 4 * a + 4 * k
    BY <2>1
  <2>7. 3 * a + i \in Int /\ (3 * a + i - 1) \div 3 = m
    BY <1>1, <2>1
  <2> HIDE DEF m
  <2>3. ASSUME NEW j \in 1 .. 4, 4 * k + j <= Len(s)
        PROVE  4 * m + j <= Len(t) /\ t[4 * m + j] = s[4 * k + j]
    <3>1. 4 * k + j \in 1 .. Len(s) /\ 4 * a + (4 * k + j) = 4 * m + j
      BY <1>0, <2>1, <2>3, <2>5
    <3> QED
      BY <1>0, <2>1, <2>3, <2>5, <3>1
  <2>4. ASSUME NEW j \in 1 .. 4, 4 * k + j > Len(s) PROVE 4 * m + j > Len(t)
    BY <1>0, <2>1, <2>2, <2>4, <2>5
  <2>6. Block(s, 4, k) = Block(t, 4, m)
    <3>1. SameBlock(s, k, t, m)
      <4>1. ASSUME NEW j \in 1 .. 4
            PROVE  IF 4 * k + j <= Len(s) THEN 4 * m + j <= Len(t) /\ t[4 * m + j] = s[4 * k + j]
                   ELSE 4 * m + j > Len(t)
        <5>1. 4 * k + j <= Len(s) \/ 4 * k + j > Len(s)
          BY <1>0, <2>1
        <5> QED
          BY <2>3, <2>4, <5>1
      <4> QED
        BY <4>1 DEF SameBlock
    <3>3. k \in Nat /\ m \in Nat
      BY <2>1, <2>5
    <3> QED
      BY <1>0, <3>1, <3>3, BlocksAgree
  <2> QED
    BY <2>1, <2>6, <2>7 DEF Octet, k
<1>3. IsSequence(DecodeSextets(s)) /\ Len(DecodeSextets(s)) = n
      /\ \A i \in 1 .. n : DecodeSextets(s)[i] = Octet(s, i)
  BY DecodeShape
<1>4. IsSequence(DecodeSextets(t)) /\ Len(DecodeSextets(t)) = decoded_len(Len(t))
      /\ \A i \in 1 .. decoded_len(Len(t)) : DecodeSextets(t)[i] = Octet(t, i)
  BY DecodeShape
<1>8. 4 * a + Len(s) = Len(t) => 3 * a + n = decoded_len(Len(t))
  BY <1>1
<1> HIDE DEF n
<1> DEFINE piece == SubSeq(DecodeSextets(t), 3 * a + 1, 3 * a + n)
<1>5. IsSequence(piece) /\ Len(piece) = n /\ \A i \in 1 .. n : piece[i] = DecodeSextets(t)[3 * a + i]
  <2> DEFINE p == 3 * a
  <2> DEFINE q == 3 * a + n
  <2>1. p \in Nat /\ q \in Nat /\ p <= q /\ q <= Len(DecodeSextets(t)) /\ q - p = n
    BY <1>1, <1>4
  <2> HIDE DEF p, q
  <2>2. /\ IsSequence(SubSeq(DecodeSextets(t), p + 1, q))
        /\ Len(SubSeq(DecodeSextets(t), p + 1, q)) = q - p
        /\ \A i \in 1 .. q - p : SubSeq(DecodeSextets(t), p + 1, q)[i] = DecodeSextets(t)[p + i]
    BY <1>4, <2>1, SegmentFacts
  <2> QED
    BY <2>1, <2>2 DEF p, q
<1> HIDE DEF piece
<1>6. ASSUME NEW i \in 1 .. n PROVE piece[i] = DecodeSextets(s)[i]
  <2>1. 3 * a + i \in 1 .. decoded_len(Len(t))
    BY <1>0, <1>1, <1>4, DecodedLenFacts
  <2>2. Octet(s, i) = Octet(t, 3 * a + i)
    BY <1>2 DEF n
  <2> QED
    BY <1>3, <1>4, <1>5, <2>1, <2>2
<1>7. DecodeSextets(s) = piece
  BY <1>3, <1>5, <1>6, SequencesEqual
<1> QED
  BY <1>1, <1>7, <1>8 DEF n, piece

--------------------------------------------------------------------------------
(* When decode accepts a text, and what it then returns.                   *)
TextLen(padded, src) == IF padded THEN decode_padding(src) ELSE Len(src)
Start(src, len) == SubSeq(src, 1, len)

LEMMA StartFacts ==
  ASSUME NEW s, IsSequence(s), NEW len \in Nat, len <= Len(s)
  PROVE  /\ IsSequence(Start(s, len)) /\ Len(Start(s, len)) = len
         /\ \A i \in 1 .. len : Start(s, len)[i] = s[i]
<1> DEFINE p == 0
<1>1. p \in Nat /\ p <= len /\ len - p = len /\ p + 1 = 1 /\ \A i \in 1 .. len : p + i = i
  OBVIOUS
<1> HIDE DEF p
<1>2. /\ IsSequence(SubSeq(s, p + 1, len)) /\ Len(SubSeq(s, p + 1, len)) = len - p
      /\ \A i \in 1 .. len - p : SubSeq(s, p + 1, len)[i] = s[p + i]
  BY <1>1, SegmentFacts
<1> QED
  BY <1>1, <1>2 DEF Start

LEMMA PadsFacts ==
  ASSUME NEW src, Len(src) \in Nat
  PROVE  /\ PadsAtEnd(src) \in {0, 1, 2} /\ PadsAtEnd(src) <= Len(src)
         /\ Len(src) % 4 # 0 => decode_padding(src) = -1
         /\ Len(src) % 4 = 0 => decode_padding(src) \in Nat
         /\ Len(src) % 4 = 0 => decode_padding(src) = Len(src) - PadsAtEnd(src)
<1> DEFINE n == Len(src)
<1>1. PadAt(src, n) \in {0, 1} /\ PadAt(src, n - 1) \in {0, 1}
  BY DEF PadAt
<1>2. PadsAtEnd(src) = IF n < 2 THEN 0 ELSE PadAt(src, n - 1) + PadAt(src, n)
  BY DEF PadsAtEnd
<1>3. PadsAtEnd(src) \in {0, 1, 2} /\ PadsAtEnd(src) <= n
  BY <1>1, <1>2
<1>4. decode_padding(src) = IF n % 4 # 0 THEN -1 ELSE n - PadsAtEnd(src)
  BY DEF decode_padding
<1> HIDE DEF n
<1> QED
  BY <1>3, <1>4 DEF n

LEMMA DecodeAccepts ==
  ASSUME NEW padded \in BOOLEAN, NEW src, Len(src) \in Nat, NEW room \in Nat
  PROVE  /\ decode(padded, src, room).err = "None" <=>
              /\ TextLen(padded, src) # -1
              /\ decoded_len(TextLen(padded, src)) <= room
              /\ ~Misspelled(padded, src, TextLen(padded, src))
              /\ validate_last_block(padded, src, DecodeSextets(Start(src, TextLen(padded, src))))
         /\ decode(padded, src, room).err = "None" =>
              decode(padded, src, room) = Ok(DecodeSextets(Start(src, TextLen(padded, src))))
<1> DEFINE len == TextLen(padded, src)
<1> DEFINE octets == DecodeSextets(Start(src, len))
<1>2. decode(padded, src, room) =
        IF len = -1 THEN Err("InvalidEncoding")
        ELSE IF decoded_len(len) > room THEN Err("InvalidLength")
        ELSE IF Misspelled(padded, src, len) \/ ~validate_last_block(padded, src, octets)
        THEN Err("InvalidEncoding")
        ELSE Ok(octets)
  BY DEF decode, TextLen, Start
<1>3. Err("InvalidEncoding").err # "None" /\ Err("InvalidLength").err # "None" /\ Ok(octets).err = "None"
  BY DEF Err, Ok
<1>4. decoded_len(len) > room <=> ~(decoded_len(len) <= room)
  <2>1. len \in Int
    BY PadsFacts DEF TextLen
  <2> QED
    BY <2>1 DEF decoded_len
<1> HIDE DEF len, octets
<1> QED
  BY <1>2, <1>3, <1>4 DEF len, octets

--------------------------------------------------------------------------------
(* The joined text and its last block, which is decoded in advance.        *)
BareLen(padded, joined) == Len(joined) - IF padded THEN PadsAtEnd(joined) ELSE 0
DataOf(padded, joined) == DecodeSextets(AsSextets(Unpadded(padded, joined)))
TailStart(joined) == Len(joined) - LastBlockLen(Len(joined))
Tail4(joined) == SubSeq(joined, TailStart(joined) + 1, Len(joined))
Measured(padded, joined) == LenOfText(padded, joined).err = "None"

LEMMA PadsOfTheEnd ==
  ASSUME NEW t, IsSequence(t), NEW p \in Nat, p + 2 <= Len(t)
  PROVE  /\ PadsAtEnd(SubSeq(t, p + 1, Len(t))) = PadsAtEnd(t)
         /\ MisplacedPad(SubSeq(t, p + 1, Len(t))) = MisplacedPad(t)
<1> DEFINE s == SubSeq(t, p + 1, Len(t))
<1> DEFINE n == Len(t)
<1> DEFINE m == Len(s)
<1>1. n \in Nat /\ p + 2 <= n /\ m = n - p /\ \A i \in 1 .. n - p : s[i] = t[p + i]
  BY SequenceShape, SegmentFacts
<1> HIDE DEF s, n, m
<1>2. m \in Nat /\ m >= 2 /\ n >= 2 /\ m - 1 \in 1 .. n - p /\ m \in 1 .. n - p
      /\ p + (m - 1) = n - 1 /\ p + m = n
  BY <1>1
<1>3. s[m - 1] = t[n - 1] /\ s[m] = t[n]
  <2>1. s[m - 1] = t[p + (m - 1)] /\ s[m] = t[p + m]
    BY <1>1, <1>2
  <2> QED
    BY <1>2, <2>1
<1>4. PadsAtEnd(s) = PadAt(s, m - 1) + PadAt(s, m) /\ PadsAtEnd(t) = PadAt(t, n - 1) + PadAt(t, n)
  BY <1>2 DEF PadsAtEnd, m, n
<1>5. PadAt(s, m - 1) = PadAt(t, n - 1) /\ PadAt(s, m) = PadAt(t, n)
  BY <1>3 DEF PadAt
<1>6. PadsAtEnd(s) = PadsAtEnd(t)
  BY <1>4, <1>5
<1> QED
  BY <1>3, <1>6 DEF MisplacedPad, s, m, n

LEMMA TailAccepted ==
  ASSUME NEW padded \in BOOLEAN, NEW joined, IsSequence(joined), Measured(padded, joined)
  PROVE  /\ TailStart(joined) \in Nat /\ TailStart(joined) % 4 = 0
         /\ Len(joined) - TailStart(joined) \in 1 .. 4
         /\ Len(Tail4(joined)) = Len(joined) - TailStart(joined)
         /\ IsSequence(Tail4(joined))
         /\ \A i \in 1 .. Len(joined) - TailStart(joined) :
              Tail4(joined)[i] = joined[TailStart(joined) + i]
         /\ decode(padded, Tail4(joined), 3).err = "None"
         /\ LenOfText(padded, joined).len =
              decoded_len(TailStart(joined)) + Len(decode(padded, Tail4(joined), 3).out)
<1> DEFINE n == Len(joined)
<1> DEFINE e == TailStart(joined)
<1>1. n \in Nat
  BY SequenceShape
<1>2. e \in Int /\ e % 4 = 0 /\ n - e \in 1 .. 4
  <2>1. e = n - (IF n % 4 = 0 THEN 4 ELSE n % 4)
    BY DEF TailStart, LastBlockLen
  <2> HIDE DEF e, n
  <2> QED
    BY <1>1, <2>1
<1>3. LenOfText(padded, joined) = IF e < 0 THEN [err |-> "InvalidLength", len |-> 0]
                                  ELSE LenWith(e, decode(padded, Tail4(joined), 3))
  BY DEF LenOfText, LenOfJoined, TailStart, Tail4
<1>4. e >= 0
  BY <1>2, <1>3 DEF Measured
<1>5. LenOfText(padded, joined) = LenWith(e, decode(padded, Tail4(joined), 3))
  BY <1>2, <1>3, <1>4
<1>6. e \in Nat /\ e <= n /\ n \in Nat
  BY <1>1, <1>2, <1>4
<1> HIDE DEF e
<1>7. IsSequence(SubSeq(joined, e + 1, n)) /\ Len(SubSeq(joined, e + 1, n)) = n - e
      /\ \A i \in 1 .. n - e : SubSeq(joined, e + 1, n)[i] = joined[e + i]
  BY <1>6, SegmentFacts
<1> QED
  BY <1>2, <1>5, <1>6, <1>7 DEF Measured, LenWith, e, Tail4

LEMMA BitsFacts ==
  ASSUME NEW padded \in BOOLEAN, NEW joined, IsSequence(joined)
  PROVE  /\ BareLen(padded, joined) \in Nat /\ BareLen(padded, joined) <= Len(joined)
         /\ IsSequence(AsSextets(Unpadded(padded, joined)))
         /\ Len(AsSextets(Unpadded(padded, joined))) = BareLen(padded, joined)
         /\ \A i \in 1 .. BareLen(padded, joined) :
              AsSextets(Unpadded(padded, joined))[i] = IF joined[i] \in Sextets THEN joined[i] ELSE 0
         /\ IsSequence(DataOf(padded, joined))
         /\ Len(DataOf(padded, joined)) = decoded_len(BareLen(padded, joined))
<1> DEFINE bare == BareLen(padded, joined)
<1> DEFINE text == SubSeq(joined, 0 + 1, bare)
<1> DEFINE Bit(i) == IF text[i] \in Sextets THEN text[i] ELSE 0
<1>1. Len(joined) \in Nat /\ bare \in Nat /\ bare <= Len(joined)
  BY SequenceShape, PadsFacts DEF BareLen
<1>2. Unpadded(padded, joined) = text
  BY DEF Unpadded, BareLen
<1> HIDE DEF bare
<1>3. IsSequence(text) /\ Len(text) = bare - 0 /\ \A i \in 1 .. bare - 0 : text[i] = joined[0 + i]
  <2>1. 0 \in Nat /\ 0 <= bare
    BY <1>1
  <2> QED
    BY <1>1, <2>1, SegmentFacts
<1> HIDE DEF text
<1>4. Len(text) = bare /\ DOMAIN text = 1 .. bare /\ \A i \in 1 .. bare : text[i] = joined[i]
  BY <1>1, <1>3, SequenceShape
<1>5. AsSextets(text) = [i \in 1 .. bare |-> Bit(i)]
  BY <1>4 DEF AsSextets
<1>6. AsSextets(text) \in Seq({Bit(i) : i \in 1 .. bare}) /\ Len(AsSextets(text)) = bare
  BY <1>1, <1>5
<1>7. IsSequence(AsSextets(text))
  BY <1>6, OfItsElements
<1>8. \A i \in 1 .. bare : AsSextets(text)[i] = IF joined[i] \in Sextets THEN joined[i] ELSE 0
  BY <1>4, <1>5
<1>9. IsSequence(DecodeSextets(AsSextets(text))) /\ Len(DecodeSextets(AsSextets(text))) = decoded_len(bare)
  BY <1>6, <1>7, DecodeShape
<1> QED
  BY <1>1, <1>2, <1>6, <1>7, <1>8, <1>9 DEF bare, DataOf

LEMMA TailFacts ==
  ASSUME NEW padded \in BOOLEAN, NEW joined, IsSequence(joined), Measured(padded, joined)
  PROVE  /\ padded => Len(joined) % 4 = 0 /\ ~MisplacedPad(joined)
         /\ BareLen(padded, joined) - TailStart(joined) \in 2 .. 4
         /\ TextLen(padded, Tail4(joined)) = BareLen(padded, joined) - TailStart(joined)
         /\ \A i \in TailStart(joined) + 1 .. BareLen(padded, joined) : joined[i] \in Sextets
         /\ validate_last_block(padded, Tail4(joined),
              DecodeSextets(Start(Tail4(joined), BareLen(padded, joined) - TailStart(joined))))
         /\ LenOfText(padded, joined).len = Len(DataOf(padded, joined))
<1> DEFINE n == Len(joined)
<1> DEFINE e == TailStart(joined)
<1> DEFINE tail == Tail4(joined)
<1> DEFINE t == TextLen(padded, tail)
<1> DEFINE bare == BareLen(padded, joined)
<1> DEFINE room == 3
<1>1. /\ n \in Nat /\ e \in Nat /\ e % 4 = 0 /\ n - e \in 1 .. 4 /\ Len(tail) = n - e
      /\ IsSequence(tail) /\ \A i \in 1 .. n - e : tail[i] = joined[e + i]
      /\ decode(padded, tail, room).err = "None"
      /\ LenOfText(padded, joined).len = decoded_len(e) + Len(decode(padded, tail, room).out)
  BY SequenceShape, TailAccepted
<1>2. room \in Nat /\ Len(tail) \in Nat
  BY <1>1
<1> HIDE DEF room
<1>3. /\ t # -1 /\ ~Misspelled(padded, tail, t)
      /\ validate_last_block(padded, tail, DecodeSextets(Start(tail, t)))
      /\ decode(padded, tail, room) = Ok(DecodeSextets(Start(tail, t)))
  BY <1>1, <1>2, DecodeAccepts
<1>4. ASSUME padded PROVE bare - e = t /\ t \in 2 .. 4 /\ n % 4 = 0 /\ ~MisplacedPad(joined)
  <2>1. Len(tail) = 4 /\ t = 4 - PadsAtEnd(tail)
    <3>1. t = decode_padding(tail)
      BY <1>4 DEF TextLen
    <3>2. Len(tail) % 4 = 0
      BY <1>2, <1>3, <3>1, PadsFacts
    <3> HIDE DEF tail
    <3>3. Len(tail) = 4
      BY <1>1, <1>2, <3>2
    <3> QED
      BY <1>2, <3>1, <3>2, <3>3, PadsFacts
  <2>2. n = e + 4 /\ e + 2 <= n /\ n % 4 = 0
    <3> HIDE DEF n, e, tail
    <3>1. n \in Nat /\ e \in Nat /\ e % 4 = 0 /\ n - e = 4
      BY <1>1, <2>1
    <3>2. n = e + 4
      BY <3>1
    <3> QED
      BY <3>1, <3>2
  <2>3. PadsAtEnd(tail) = PadsAtEnd(joined) /\ MisplacedPad(tail) = MisplacedPad(joined)
    BY <1>1, <2>2, PadsOfTheEnd DEF Tail4
  <2>4. PadsAtEnd(tail) \in {0, 1, 2}
    BY <1>2, PadsFacts
  <2>5. bare = n - PadsAtEnd(joined)
    BY <1>4 DEF BareLen
  <2>6. ~MisplacedPad(tail)
    BY <1>3, <1>4 DEF Misspelled
  <2> HIDE DEF n, e, tail, t, bare
  <2>7. bare - e = t /\ t \in 2 .. 4
    BY <1>1, <2>1, <2>2, <2>3, <2>4, <2>5
  <2> QED
    BY <2>2, <2>3, <2>6, <2>7
<1>5. ASSUME ~padded PROVE bare - e = t /\ t \in 2 .. 4
  <2>1. t = n - e /\ bare = n
    <3>1. t = Len(tail)
      BY <1>5 DEF TextLen
    <3> QED
      BY <1>1, <1>5, <3>1 DEF BareLen
  <2>2. t % 4 # 1
    BY <1>3 DEF Misspelled
  <2> HIDE DEF n, e, tail, t, bare
  <2> QED
    BY <1>1, <2>1, <2>2
<1>6. bare - e = t /\ t \in 2 .. 4 /\ (padded => n % 4 = 0 /\ ~MisplacedPad(joined))
  BY <1>4, <1>5
<1>7. bare \in Nat /\ bare <= n
  BY BitsFacts
<1>8. ASSUME NEW i \in e + 1 .. bare PROVE joined[i] \in Sextets
  <2>1. \A j \in 1 .. t : tail[j] \in Sextets
    BY <1>3 DEF Misspelled
  <2> HIDE DEF n, e, tail, t, bare
  <2>2. i - e \in 1 .. t /\ i - e \in 1 .. n - e /\ e + (i - e) = i
    BY <1>1, <1>6, <1>7
  <2> QED
    BY <1>1, <2>1, <2>2
<1>9. LenOfText(padded, joined).len = Len(DataOf(padded, joined))
  <2>1. IsSequence(Start(tail, t)) /\ Len(Start(tail, t)) = t
    <3>1. t \in Nat /\ t <= Len(tail)
      BY <1>1, <1>6, <1>7
    <3> HIDE DEF t, tail
    <3> QED
      BY <1>1, <3>1, StartFacts
  <2>2. Len(DecodeSextets(Start(tail, t))) = decoded_len(t)
    BY <2>1, DecodeShape
  <2>3. decoded_len(bare) = decoded_len(e) + decoded_len(t)
    <3> HIDE DEF n, e, tail, t, bare
    <3>1. bare = e + t /\ t \in Nat
      BY <1>1, <1>6, <1>7
    <3> QED
      BY <1>1, <3>1 DEF decoded_len
  <2>4. Len(DataOf(padded, joined)) = decoded_len(bare)
    BY BitsFacts
  <2> QED
    BY <1>1, <1>3, <2>2, <2>3, <2>4 DEF Ok
<1> QED
  BY <1>3, <1>6, <1>8, <1>9

--------------------------------------------------------------------------------
(* validate_last_block looks at the last blocks only, and has nothing to   *)
(* say of whole ones.                                                      *)
LastOf(s, size) == SubSeq(s, LastBlockStart(Len(s), size) + 1, Len(s))

LEMMA SameEnds ==
  ASSUME NEW padded, NEW s, NEW octs, NEW s2, NEW octs2,
         LastOf(s, 4) = LastOf(s2, 4), LastOf(octs, 3) = LastOf(octs2, 3)
  PROVE  validate_last_block(padded, s, octs) = validate_last_block(padded, s2, octs2)
<1> DEFINE Agree(enc, dec) ==
      LET code == encode(padded, dec)
      IN  \A i \in DOMAIN code \intersect DOMAIN enc : code[i] = enc[i]
<1>1. validate_last_block(padded, s, octs) = Agree(LastOf(s, 4), LastOf(octs, 3))
  BY DEF validate_last_block, LastOf
<1>2. validate_last_block(padded, s2, octs2) = Agree(LastOf(s2, 4), LastOf(octs2, 3))
  BY DEF validate_last_block, LastOf
<1> QED
  BY <1>1, <1>2

LEMMA LastBlockStarts ==
  ASSUME NEW size \in {3, 4}, NEW c \in Nat, NEW k \in 1 .. size
  PROVE  LastBlockStart(size * c + k, size) = size * c
<1>1. CASE size = 3
  BY <1>1 DEF LastBlockStart
<1>2. CASE size = 4
  BY <1>2 DEF LastBlockStart
<1> QED
  BY <1>1, <1>2

LEMMA RoundTrip ==
  ASSUME NEW c, c[1] \in Sextets, c[2] \in Sextets, c[3] \in Sextets, c[4] \in Sextets
  PROVE  \A b : (\A j \in 1 .. 3 : b[j] = decode_3bytes(c)[j]) =>
           \A i \in 1 .. 4 : encode_3bytes(b)[i] = c[i]
<1> SUFFICES ASSUME NEW b, \A j \in 1 .. 3 : b[j] = decode_3bytes(c)[j]
             PROVE  \A i \in 1 .. 4 : encode_3bytes(b)[i] = c[i]
  OBVIOUS
<1>1. /\ b[1] = c[1] * 4 + c[2] \div 16
      /\ b[2] = (c[2] % 16) * 16 + c[3] \div 4
      /\ b[3] = (c[3] % 4) * 64 + c[4]
  BY DEF decode_3bytes
<1>2. /\ b[1] \div 4 = c[1]
      /\ (b[1] % 4) * 16 + b[2] \div 16 = c[2]
      /\ (b[2] % 16) * 4 + b[3] \div 64 = c[3]
      /\ b[3] % 64 = c[4]
  BY <1>1 DEF Sextets
<1> QED
  BY <1>2 DEF encode_3bytes

LEMMA WholeBlocksAreValid ==
  ASSUME NEW s, IsSequence(s), NEW m \in Nat, Len(s) = 4 * m + 4,
         \A i \in 1 .. Len(s) : s[i] \in Sextets
  PROVE  validate_last_block(FALSE, s, DecodeSextets(s))
<1> DEFINE octs == DecodeSextets(s)
<1> DEFINE enc == LastOf(s, 4)
<1> DEFINE dec == LastOf(octs, 3)
<1> DEFINE c == Block(s, 4, m)
<1> DEFINE code == encode(FALSE, dec)
<1>1. IsSequence(octs) /\ Len(octs) = 3 * m + 3 /\ \A i \in 1 .. 3 * m + 3 : octs[i] = Octet(s, i)
  <2>1. decoded_len(Len(s)) = 3 * m + 3
    BY DEF decoded_len
  <2> QED
    BY <2>1, DecodeShape
<1>2. enc = SubSeq(s, 4 * m + 1, Len(s)) /\ dec = SubSeq(octs, 3 * m + 1, Len(octs))
  <2>1. LastBlockStart(Len(s), 4) = 4 * m
    BY LastBlockStarts
  <2>2. LastBlockStart(Len(octs), 3) = 3 * m
    BY <1>1, LastBlockStarts
  <2> HIDE DEF octs
  <2> QED
    BY <2>1, <2>2 DEF LastOf
<1>3. Len(enc) = 4 /\ DOMAIN enc = 1 .. 4 /\ \A i \in 1 .. 4 : enc[i] = s[4 * m + i]
  <2> DEFINE p == 4 * m
  <2> DEFINE n == Len(s)
  <2>1. p \in Nat /\ n \in Nat /\ p <= n /\ n <= Len(s) /\ n - p = 4
    OBVIOUS
  <2> HIDE DEF p, n
  <2>2. /\ IsSequence(SubSeq(s, p + 1, n)) /\ Len(SubSeq(s, p + 1, n)) = n - p
        /\ \A i \in 1 .. n - p : SubSeq(s, p + 1, n)[i] = s[p + i]
    BY <2>1, SegmentFacts
  <2>3. IsSequence(enc) /\ Len(enc) = 4 /\ \A i \in 1 .. 4 : enc[i] = s[4 * m + i]
    BY <1>2, <2>1, <2>2 DEF p, n
  <2> QED
    BY <2>3, SequenceShape
<1>4. Len(dec) = 3 /\ \A i \in 1 .. 3 : dec[i] = octs[3 * m + i]
  <2> DEFINE p == 3 * m
  <2> DEFINE n == Len(octs)
  <2>1. p \in Nat /\ n \in Nat /\ p <= n /\ n <= Len(octs) /\ n - p = 3
    BY <1>1
  <2> HIDE DEF p, n, octs
  <2>2. /\ IsSequence(SubSeq(octs, p + 1, n)) /\ Len(SubSeq(octs, p + 1, n)) = n - p
        /\ \A i \in 1 .. n - p : SubSeq(octs, p + 1, n)[i] = octs[p + i]
    BY <1>1, <2>1, SegmentFacts
  <2> QED
    BY <1>2, <2>1, <2>2 DEF p, n
<1>5. \A i \in 1 .. 4 : c[i] = s[4 * m + i] /\ c[i] \in Sextets
  <2>1. \A i \in 1 .. 4 : 4 * m + i \in 1 .. Len(s)
    OBVIOUS
  <2>2. c = [i \in 1 .. 4 |-> IF 4 * m + i <= Len(s) THEN s[4 * m + i] ELSE 0]
    BY DEF Block
  <2> HIDE DEF c
  <2> QED
    BY <2>1, <2>2
<1>6. \A j \in 1 .. 3 : Block(dec, 3, 0)[j] = decode_3bytes(c)[j]
  <2>1. \A j \in 1 .. 3 : Octet(s, 3 * m + j) = decode_3bytes(c)[j]
    <3>1. \A j \in 1 .. 3 : (3 * m + j - 1) \div 3 = m /\ ((3 * m + j - 1) % 3) + 1 = j
      OBVIOUS
    <3> QED
      BY <3>1 DEF Octet
  <2>2. Block(dec, 3, 0) = [j \in 1 .. 3 |-> IF 3 * 0 + j <= Len(dec) THEN dec[3 * 0 + j] ELSE 0]
    BY DEF Block
  <2> HIDE DEF dec, c, octs
  <2>3. \A j \in 1 .. 3 : Block(dec, 3, 0)[j] = dec[j]
    BY <1>4, <2>2
  <2>4. \A j \in 1 .. 3 : 3 * m + j \in 1 .. 3 * m + 3
    OBVIOUS
  <2> QED
    BY <1>1, <1>4, <2>1, <2>3, <2>4
<1>7. \A i \in 1 .. 4 : encode_3bytes(Block(dec, 3, 0))[i] = c[i]
  <2>1. c[1] \in Sextets /\ c[2] \in Sextets /\ c[3] \in Sextets /\ c[4] \in Sextets
    <3> HIDE DEF c
    <3> QED
      BY <1>5
  <2> HIDE DEF c, dec
  <2> QED
    BY <1>6, <2>1, RoundTrip
<1>8. DOMAIN code = 1 .. 4 /\ \A i \in 1 .. 4 : code[i] = encode_3bytes(Block(dec, 3, 0))[i]
  <2>1. encoded_len(Len(dec), FALSE) = 4
    <3> HIDE DEF dec
    <3>1. 3 % 3 = 0 /\ 4 * ((3 + 2) \div 3) = 4
      OBVIOUS
    <3>2. encoded_len(3, FALSE) = 4
      BY <3>1 DEF encoded_len
    <3> QED
      BY <1>4, <3>2
  <2>2. code = [i \in 1 .. 4 |-> IF i > 4 THEN Pad
                 ELSE encode_3bytes(Block(dec, 3, (i - 1) \div 4))[((i - 1) % 4) + 1]]
    <3> HIDE DEF dec
    <3> QED
      BY <1>4, <2>1 DEF encode
  <2> HIDE DEF dec, code
  <2>3. \A i \in 1 .. 4 : (i - 1) \div 4 = 0 /\ ((i - 1) % 4) + 1 = i /\ ~(i > 4)
    OBVIOUS
  <2> QED
    BY <2>2, <2>3
<1>9. validate_last_block(FALSE, s, octs) =
        \A i \in DOMAIN code \intersect DOMAIN enc : code[i] = enc[i]
  BY DEF validate_last_block, LastOf
<1> HIDE DEF enc, code, c
<1> QED
  BY <1>3, <1>5, <1>7, <1>8, <1>9

--------------------------------------------------------------------------------
(* Any piece of whole blocks, or one to the end, is decoded like the whole *)
(* text: what perform_decode makes of it is a piece of the data, and it is *)
(* refused only for a character of its own.                                *)
Piece(joined, a, q) == SubSeq(joined, 4 * a + 1, q)

APiece(padded, joined, a, q, last) ==
  /\ padded \in BOOLEAN /\ IsSequence(joined) /\ Measured(padded, joined)
  /\ a \in Nat /\ q \in Nat /\ 4 * a < q /\ q <= Len(joined)
  /\ q % 4 = 0 \/ q = Len(joined)
  /\ last \in BOOLEAN /\ (last => q = Len(joined))

LEMMA PieceShape ==
  ASSUME NEW padded, NEW joined, NEW a, NEW q, NEW last, APiece(padded, joined, a, q, last)
  PROVE  /\ IsSequence(Piece(joined, a, q)) /\ Len(Piece(joined, a, q)) = q - 4 * a
         /\ Len(Piece(joined, a, q)) \in Nat
         /\ \A i \in 1 .. q - 4 * a : Piece(joined, a, q)[i] = joined[4 * a + i]
         /\ Len(joined) \in Nat /\ TailStart(joined) \in Nat
         /\ TailStart(joined) % 4 = 0 /\ 4 * a <= TailStart(joined)
         /\ Len(joined) - TailStart(joined) \in 1 .. 4
         /\ q < Len(joined) => q % 4 = 0 /\ q <= TailStart(joined)
         /\ BareLen(padded, joined) \in Nat
         /\ BareLen(padded, joined) - TailStart(joined) \in 2 .. 4
         /\ BareLen(padded, joined) <= Len(joined)
<1> USE DEF APiece
<1> DEFINE p == 4 * a
<1>1. p \in Nat /\ q \in Nat /\ p < q /\ q <= Len(joined) /\ p % 4 = 0 /\ p <= q
      /\ IsSequence(joined)
  OBVIOUS
<1> HIDE DEF p
<1>2. /\ IsSequence(SubSeq(joined, p + 1, q)) /\ Len(SubSeq(joined, p + 1, q)) = q - p
      /\ \A i \in 1 .. q - p : SubSeq(joined, p + 1, q)[i] = joined[p + i]
  BY <1>1, SegmentFacts
<1> DEFINE e == TailStart(joined)
<1> DEFINE n == Len(joined)
<1> DEFINE bare == BareLen(padded, joined)
<1>3. e \in Nat /\ e % 4 = 0 /\ n - e \in 1 .. 4 /\ n \in Nat
  BY TailAccepted, SequenceShape
<1>4. bare - e \in 2 .. 4 /\ bare \in Nat /\ bare <= n
  BY TailFacts, BitsFacts
<1>5. q <= n /\ (q < n => q % 4 = 0)
  OBVIOUS
<1> HIDE DEF e, n, bare, APiece
<1>6. p <= e /\ (q < n => q <= e)
  <2>1. n <= e + 4
    BY <1>3
  <2>2. p < e + 4 /\ (q < n => q < e + 4)
    BY <1>1, <1>3, <1>5, <2>1
  <2> QED
    BY <1>1, <1>3, <1>5, <2>2
<1>7. q - p \in Nat
  BY <1>1
<1> QED
  BY <1>2, <1>3, <1>4, <1>5, <1>6, <1>7 DEF Piece, p, e, n, bare

(* How much of a piece is text and not padding.                            *)
LEMMA PieceLength ==
  ASSUME NEW padded, NEW joined, NEW a, NEW q, NEW last, APiece(padded, joined, a, q, last),
         \/ (padded /\ last) \/ q < Len(joined) \/ ~padded
         \/ \A i \in 1 .. q - 4 * a : Piece(joined, a, q)[i] \in Sextets
  PROVE  /\ TextLen(padded /\ last, Piece(joined, a, q)) \in Nat
         /\ q < Len(joined) => TextLen(padded /\ last, Piece(joined, a, q)) = q - 4 * a
         /\ q = Len(joined) => 4 * a + TextLen(padded /\ last, Piece(joined, a, q))
                                 = BareLen(padded, joined)
<1> DEFINE s == Piece(joined, a, q)
<1> DEFINE n == Len(joined)
<1> DEFINE len == TextLen(padded /\ last, s)
<1> DEFINE bare == BareLen(padded, joined)
<1> DEFINE e == TailStart(joined)
<1>0. /\ padded \in BOOLEAN /\ last \in BOOLEAN /\ IsSequence(joined) /\ a \in Nat /\ q \in Nat
      /\ 4 * a < q /\ q <= n /\ (last => q = n) /\ Measured(padded, joined)
  BY DEF APiece
<1>1. /\ IsSequence(s) /\ Len(s) = q - 4 * a /\ Len(s) \in Nat
      /\ \A i \in 1 .. q - 4 * a : s[i] = joined[4 * a + i]
      /\ n \in Nat /\ bare \in Nat /\ bare <= n /\ e \in Nat /\ 4 * a <= e /\ bare - e \in 2 .. 4
  BY PieceShape
<1>2. padded => n % 4 = 0
  BY <1>0, TailFacts
<1>3. ASSUME padded, last PROVE len \in Nat /\ 4 * a + len = bare /\ q = n
  <2>1. q = n /\ Len(s) = n - 4 * a
    BY <1>0, <1>1, <1>3
  <2>2. len = decode_padding(s)
    BY <1>3 DEF TextLen
  <2>3. Len(s) % 4 = 0
    <3> HIDE DEF s, n
    <3> QED
      BY <1>0, <1>1, <1>2, <1>3, <2>1
  <2>4. len = Len(s) - PadsAtEnd(s) /\ len \in Nat
    BY <1>1, <2>2, <2>3, PadsFacts
  <2>5. PadsAtEnd(s) = PadsAtEnd(joined)
    <3> DEFINE p == 4 * a
    <3>1. p \in Nat /\ p + 2 <= Len(joined)
      BY <1>0, <1>1
    <3> HIDE DEF p
    <3>2. PadsAtEnd(SubSeq(joined, p + 1, Len(joined))) = PadsAtEnd(joined)
      BY <1>0, <3>1, PadsOfTheEnd
    <3> QED
      BY <2>1, <3>2 DEF p, Piece
  <2>6. bare = n - PadsAtEnd(joined)
    BY <1>3 DEF BareLen
  <2>7. PadsAtEnd(joined) \in Int
    BY <1>1, PadsFacts
  <2> HIDE DEF s, n, len, bare
  <2> QED
    BY <1>0, <1>1, <2>1, <2>4, <2>5, <2>6, <2>7
<1>4. ASSUME ~(padded /\ last) PROVE len = q - 4 * a
  BY <1>1, <1>4 DEF TextLen
<1>5. ASSUME ~padded PROVE bare = n
  BY <1>1, <1>5 DEF BareLen
<1>6. ASSUME padded, q = n, \A i \in 1 .. q - 4 * a : s[i] \in Sextets
      PROVE  bare = n
  <2>1. n - 1 \in Nat /\ n - 1 - 4 * a \in 1 .. q - 4 * a /\ n - 4 * a \in 1 .. q - 4 * a
    <3> HIDE DEF n, bare, e, s
    <3>1. q = n /\ n >= 4 * a + 2
      BY <1>0, <1>1, <1>6
    <3> QED
      BY <1>0, <1>1, <3>1
  <2>2. joined[n - 1] \in Sextets /\ joined[n] \in Sextets
    <3> HIDE DEF s, n
    <3>1. 4 * a + (n - 1 - 4 * a) = n - 1 /\ 4 * a + (n - 4 * a) = n
      BY <1>0, <1>1
    <3>2. s[n - 1 - 4 * a] = joined[4 * a + (n - 1 - 4 * a)] /\ s[n - 4 * a] = joined[4 * a + (n - 4 * a)]
      BY <1>1, <2>1
    <3> QED
      BY <1>6, <2>1, <3>1, <3>2
  <2>3. Pad \notin Sextets
    BY DEF Pad, Sextets
  <2>4. PadAt(joined, n - 1) = 0 /\ PadAt(joined, n) = 0
    BY <2>2, <2>3 DEF PadAt
  <2>5. PadsAtEnd(joined) = 0
    BY <2>4 DEF PadsAtEnd
  <2> QED
    BY <1>1, <1>6, <2>5 DEF BareLen
<1>7. q - 4 * a \in Nat
  BY <1>0
<1> HIDE DEF s, n, len, bare, e
<1>8. CASE padded /\ last
  <2>1. len \in Nat /\ 4 * a + len = bare /\ q = n
    BY <1>3, <1>8
  <2>2. ~(q < n)
    BY <1>1, <2>1
  <2> QED
    BY <2>1, <2>2 DEF s, n, len, bare
<1>9. CASE ~(padded /\ last)
  <2>1. len \in Nat /\ len = q - 4 * a
    BY <1>4, <1>7, <1>9
  <2>2. q = n => bare = n
    BY <1>0, <1>1, <1>5, <1>6, <1>9 DEF s, n
  <2>3. q = n => 4 * a + len = bare
    BY <1>0, <1>1, <2>1, <2>2
  <2> QED
    BY <2>1, <2>3 DEF s, n, len, bare
<1> QED
  BY <1>8, <1>9

LEMMA PieceOfData ==
  ASSUME NEW padded, NEW joined, NEW a, NEW q, NEW last, APiece(padded, joined, a, q, last),
         NEW len, len = TextLen(padded /\ last, Piece(joined, a, q)),
         \A i \in 1 .. len : Piece(joined, a, q)[i] \in Sextets,
         len \in Nat, q < Len(joined) => len = q - 4 * a,
         q = Len(joined) => 4 * a + len = BareLen(padded, joined)
  PROVE  LET octets == DecodeSextets(Start(Piece(joined, a, q), len))
             data == DataOf(padded, joined)
         IN  /\ Len(octets) = decoded_len(len)
             /\ octets = SubSeq(data, 3 * a + 1, 3 * a + Len(octets))
             /\ 3 * a + Len(octets) <= Len(data)
             /\ q < Len(joined) => 3 * a + Len(octets) = 3 * (q \div 4)
             /\ q = Len(joined) => 3 * a + Len(octets) = Len(data)
             /\ \A i \in 4 * a + 1 .. q : i <= BareLen(padded, joined) => joined[i] \in Sextets
<1> DEFINE s == Piece(joined, a, q)
<1> DEFINE n == Len(joined)
<1> DEFINE bare == BareLen(padded, joined)
<1> DEFINE e == TailStart(joined)
<1> DEFINE bits == AsSextets(Unpadded(padded, joined))
<1> DEFINE u == Start(s, len)
<1>0. /\ padded \in BOOLEAN /\ last \in BOOLEAN /\ IsSequence(joined) /\ a \in Nat /\ q \in Nat
      /\ 4 * a < q /\ q <= n /\ (last => q = n) /\ Measured(padded, joined)
  BY DEF APiece
<1>1. /\ IsSequence(s) /\ Len(s) = q - 4 * a /\ Len(s) \in Nat
      /\ \A i \in 1 .. q - 4 * a : s[i] = joined[4 * a + i]
      /\ n \in Nat /\ bare \in Nat /\ bare <= n /\ e \in Nat /\ 4 * a <= e /\ bare - e \in 2 .. 4
      /\ (q < n => q % 4 = 0 /\ q <= e)
  BY PieceShape
<1>2. len \in Nat /\ len <= q - 4 * a /\ (q < n => len = q - 4 * a) /\ (q = n => 4 * a + len = bare)
  <2> HIDE DEF s, n, bare, e
  <2> QED
    BY <1>0, <1>1 DEF n, bare
<1>3. IsSequence(u) /\ Len(u) = len /\ \A i \in 1 .. len : u[i] = s[i]
  <2> HIDE DEF s
  <2>1. len <= Len(s)
    BY <1>1, <1>2
  <2> QED
    BY <1>1, <1>2, <2>1, StartFacts
<1>4. /\ IsSequence(bits) /\ Len(bits) = bare
      /\ \A i \in 1 .. bare : bits[i] = IF joined[i] \in Sextets THEN joined[i] ELSE 0
      /\ Len(DataOf(padded, joined)) = decoded_len(bare)
  BY <1>0, BitsFacts
<1>5. 4 * a + len <= bare /\ (len % 4 = 0 \/ 4 * a + len = bare)
  <2> HIDE DEF s, n, bare, e
  <2>1. ASSUME q < n PROVE 4 * a + len = q /\ q <= bare /\ len % 4 = 0
    <3>1. len = q - 4 * a /\ q % 4 = 0 /\ q <= e
      BY <1>1, <1>2, <2>1
    <3>2. len % 4 = 0
      BY <1>0, <3>1
    <3> QED
      BY <1>0, <1>1, <3>1, <3>2
  <2> QED
    BY <1>0, <1>1, <1>2, <2>1
<1>6. ASSUME NEW i \in 1 .. len
      PROVE  joined[4 * a + i] \in Sextets /\ u[i] = bits[4 * a + i]
  <2> HIDE DEF n, bare, e, bits, u
  <2>1. 4 * a + i \in 1 .. bare /\ i \in 1 .. q - 4 * a
    BY <1>0, <1>1, <1>2, <1>5
  <2>2. joined[4 * a + i] = s[i] /\ s[i] \in Sextets /\ u[i] = s[i]
    BY <1>1, <1>3, <2>1
  <2> QED
    BY <1>4, <2>1, <2>2
<1>7. ASSUME NEW i \in 4 * a + 1 .. q, i <= bare PROVE joined[i] \in Sextets
  <2> DEFINE j == i - 4 * a
  <2> HIDE DEF s, n, bare, e, bits, u
  <2>1. q < n \/ q = n
    BY <1>0, <1>1
  <2>2. j \in 1 .. len /\ 4 * a + j = i
    BY <1>0, <1>1, <1>2, <1>7, <2>1
  <2> QED
    BY <1>6, <2>2
<1> DEFINE k == decoded_len(len)
<1>8. /\ 3 * a + k <= decoded_len(bare)
      /\ (4 * a + len = bare => 3 * a + k = decoded_len(bare))
      /\ DecodeSextets(u) = SubSeq(DecodeSextets(bits), 3 * a + 1, 3 * a + k)
  <2> HIDE DEF bits, u, bare
  <2>1. 4 * a + Len(u) <= Len(bits) /\ (Len(u) % 4 = 0 \/ 4 * a + Len(u) = Len(bits))
    BY <1>3, <1>4, <1>5
  <2>2. \A i \in 1 .. Len(u) : u[i] = bits[4 * a + i]
    BY <1>3, <1>6
  <2>3. /\ 3 * a + decoded_len(Len(u)) <= decoded_len(Len(bits))
        /\ (4 * a + Len(u) = Len(bits) => 3 * a + decoded_len(Len(u)) = decoded_len(Len(bits)))
        /\ DecodeSextets(u) = SubSeq(DecodeSextets(bits), 3 * a + 1, 3 * a + decoded_len(Len(u)))
    BY <1>0, <1>3, <1>4, <2>1, <2>2, PieceOctets
  <2> QED
    BY <1>3, <1>4, <2>3
<1>9. Len(DecodeSextets(u)) = k
  BY <1>3, DecodeShape
<1>10. q < n => 3 * a + k = 3 * (q \div 4)
  <2> HIDE DEF s, n, bare, e, k
  <2>1. ASSUME q < n PROVE 3 * a + k = 3 * (q \div 4)
    <3>1. len = q - 4 * a /\ q % 4 = 0
      BY <1>1, <1>2, <2>1
    <3>2. len \div 4 = (q \div 4) - a /\ len % 4 = 0 /\ len \in Nat
      BY <1>0, <1>2, <3>1
    <3>3. k = 3 * (len \div 4)
      BY <3>2, DecodedLenFacts DEF k
    <3> QED
      BY <1>0, <3>2, <3>3
  <2> QED
    BY <2>1
<1> HIDE DEF k, u, s, bits
<1> QED
  BY <1>2, <1>4, <1>7, <1>8, <1>9, <1>10 DEF u, s, bits, k, DataOf

LEMMA PieceAccepted ==
  ASSUME NEW padded, NEW joined, NEW a, NEW q, NEW last, APiece(padded, joined, a, q, last),
         NEW room \in Nat,
         decode(padded /\ last, Piece(joined, a, q), room).err = "None"
  PROVE  LET octets == decode(padded /\ last, Piece(joined, a, q), room).out
             data == DataOf(padded, joined)
         IN  /\ Len(octets) \in Nat /\ Len(octets) <= room
             /\ octets = SubSeq(data, 3 * a + 1, 3 * a + Len(octets))
             /\ 3 * a + Len(octets) <= Len(data)
             /\ q < Len(joined) => 3 * a + Len(octets) = 3 * (q \div 4)
             /\ q = Len(joined) => 3 * a + Len(octets) = Len(data)
             /\ \A i \in 4 * a + 1 .. q : i <= BareLen(padded, joined) => joined[i] \in Sextets
<1> DEFINE s == Piece(joined, a, q)
<1> DEFINE pd == padded /\ last
<1> DEFINE len == TextLen(pd, s)
<1> DEFINE octets == DecodeSextets(Start(s, len))
<1>1. padded \in BOOLEAN /\ last \in BOOLEAN /\ pd \in BOOLEAN
  BY DEF APiece
<1>2. Len(s) \in Nat /\ Len(s) = q - 4 * a
  BY PieceShape
<1> HIDE DEF pd, s
<1>3. /\ decoded_len(len) <= room /\ ~Misspelled(pd, s, len)
      /\ decode(pd, s, room) = Ok(octets)
  BY <1>1, <1>2, DecodeAccepts DEF pd, s
<1>4. \A i \in 1 .. len : s[i] \in Sextets
  BY <1>3 DEF Misspelled
<1>5. \/ padded /\ last
      \/ \A i \in 1 .. q - 4 * a : s[i] \in Sextets
  <2>1. ~pd => len = q - 4 * a
    BY <1>2 DEF TextLen
  <2> QED
    BY <1>1, <1>4, <2>1 DEF pd
<1>6. /\ len \in Nat /\ (q < Len(joined) => len = q - 4 * a)
      /\ (q = Len(joined) => 4 * a + len = BareLen(padded, joined))
  BY <1>5, PieceLength DEF pd, s
<1> HIDE DEF len
<1>7. /\ Len(octets) = decoded_len(len)
      /\ octets = SubSeq(DataOf(padded, joined), 3 * a + 1, 3 * a + Len(octets))
      /\ 3 * a + Len(octets) <= Len(DataOf(padded, joined))
      /\ (q < Len(joined) => 3 * a + Len(octets) = 3 * (q \div 4))
      /\ (q = Len(joined) => 3 * a + Len(octets) = Len(DataOf(padded, joined)))
      /\ \A i \in 4 * a + 1 .. q : i <= BareLen(padded, joined) => joined[i] \in Sextets
  BY <1>4, <1>6, PieceOfData DEF pd, s, len
<1>8. Len(octets) \in Nat /\ Len(octets) <= room
  BY <1>3, <1>6, <1>7, DecodedLenFacts
<1>9. decode(pd, s, room).out = octets
  BY <1>3 DEF Ok
<1> HIDE DEF octets
<1> QED
  BY <1>7, <1>8, <1>9 DEF pd, s

(* The last block of a piece to the end is the block decoded in advance.   *)
LEMMA EndIsValid ==
  ASSUME NEW padded, NEW joined, NEW a, NEW q, NEW last,
         APiece(padded, joined, a, q, last), q = Len(joined),
         NEW len, 4 * a + len = BareLen(padded, joined), len \in Nat
  PROVE  validate_last_block(padded, Piece(joined, a, q),
           DecodeSextets(Start(Piece(joined, a, q), len)))
<1> DEFINE s == Piece(joined, a, q)
<1> DEFINE e == TailStart(joined)
<1> DEFINE bare == BareLen(padded, joined)
<1> DEFINE tail == Tail4(joined)
<1> DEFINE t == bare - e
<1> DEFINE u == Start(s, len)
<1> DEFINE v == Start(tail, t)
<1> DEFINE octs == DecodeSextets(u)
<1> DEFINE octs2 == DecodeSextets(v)
<1> DEFINE c == (e \div 4) - a
<1>0. /\ padded \in BOOLEAN /\ IsSequence(joined) /\ a \in Nat /\ 4 * a < q /\ q \in Nat
      /\ Measured(padded, joined) /\ q = Len(joined)
  BY DEF APiece
<1>1. /\ IsSequence(s) /\ Len(s) = q - 4 * a /\ Len(s) \in Nat
      /\ \A i \in 1 .. q - 4 * a : s[i] = joined[4 * a + i]
      /\ bare \in Nat /\ bare <= q /\ e \in Nat /\ 4 * a <= e /\ t \in 2 .. 4
      /\ e % 4 = 0 /\ q - e \in 1 .. 4
  <2>1. /\ IsSequence(s) /\ Len(s) = q - 4 * a /\ Len(s) \in Nat
        /\ \A i \in 1 .. q - 4 * a : s[i] = joined[4 * a + i]
        /\ e \in Nat /\ e % 4 = 0 /\ 4 * a <= e /\ Len(joined) - e \in 1 .. 4
        /\ bare \in Nat /\ bare - e \in 2 .. 4 /\ bare <= Len(joined)
    BY PieceShape
  <2> QED
    BY <1>0, <2>1
<1>2. /\ IsSequence(tail) /\ Len(tail) = q - e
      /\ \A i \in 1 .. q - e : tail[i] = joined[e + i]
      /\ validate_last_block(padded, tail, octs2)
  BY <1>0, TailAccepted, TailFacts
<1>3. c \in Nat /\ e = 4 * a + 4 * c /\ len = 4 * c + t /\ len <= q - 4 * a /\ t <= q - e
  <2> HIDE DEF s, e, tail, bare
  <2>1. e \div 4 \in Nat /\ e = 4 * (e \div 4)
    BY <1>1
  <2> QED
    BY <1>0, <1>1, <2>1, SMTT(40) DEF bare
<1>4. LastOf(s, 4) = LastOf(tail, 4)
  <2> DEFINE p == 4 * a
  <2> DEFINE x == 4 * c
  <2> DEFINE y == q - 4 * a
  <2> HIDE DEF s, e, tail, bare, t, c
  <2>1. LastBlockStart(4 * c + (q - e), 4) = 4 * c
    BY <1>1, <1>3, LastBlockStarts
  <2>2. Len(s) = 4 * c + (q - e)
    BY <1>0, <1>1, <1>3
  <2>3. LastOf(s, 4) = SubSeq(s, x + 1, y)
    BY <1>1, <2>1, <2>2 DEF LastOf
  <2>4. /\ p \in Nat /\ q \in Nat /\ p <= q /\ q <= Len(joined) /\ x \in Nat /\ y \in Nat
        /\ x <= y /\ y <= q - p /\ p + x = e /\ p + y = q
    BY <1>0, <1>1, <1>3
  <2> HIDE DEF p, x, y
  <2>5. SubSeq(SubSeq(joined, p + 1, q), x + 1, y) = SubSeq(joined, p + x + 1, p + y)
    BY <1>0, <2>4, SegmentOfSegment
  <2>6. SubSeq(s, x + 1, y) = tail
    BY <1>0, <2>4, <2>5 DEF s, tail, Piece, Tail4, p, e
  <2>7. LastOf(tail, 4) = SubSeq(tail, 1, Len(tail))
    <3>1. LastBlockStart(4 * 0 + (q - e), 4) = 4 * 0
      BY <1>1, LastBlockStarts
    <3>2. 4 * 0 + (q - e) = q - e /\ 4 * 0 + 1 = 1
      BY <1>0, <1>1
    <3> QED
      BY <1>2, <3>1, <3>2 DEF LastOf
  <2> QED
    BY <1>2, <2>3, <2>6, <2>7, WholeSegment
<1>5. LastOf(octs, 3) = LastOf(octs2, 3)
  <2> HIDE DEF s, e, tail, bare, t, c
  <2>0. t \in Nat
    BY <1>1
  <2>1. IsSequence(u) /\ Len(u) = len /\ \A i \in 1 .. len : u[i] = s[i]
    BY <1>1, <1>3, StartFacts
  <2>2. IsSequence(v) /\ Len(v) = t /\ \A i \in 1 .. t : v[i] = tail[i]
    BY <1>2, <1>3, <2>0, StartFacts
  <2> HIDE DEF u, v
  <2>3. \A i \in 1 .. Len(v) : v[i] = u[4 * c + i]
    <3> SUFFICES ASSUME NEW i \in 1 .. t PROVE v[i] = u[4 * c + i]
      BY <2>2
    <3>1. 4 * c + i \in 1 .. len /\ 4 * c + i \in 1 .. q - 4 * a /\ i \in 1 .. q - e
          /\ 4 * a + (4 * c + i) = e + i
      BY <1>0, <1>1, <1>3
    <3> QED
      BY <1>1, <1>2, <2>1, <2>2, <3>1
  <2>4. /\ 3 * c + decoded_len(Len(v)) = decoded_len(Len(u))
        /\ octs2 = SubSeq(octs, 3 * c + 1, 3 * c + decoded_len(Len(v)))
    <3>1. 4 * c + Len(v) = Len(u) /\ 4 * c + Len(v) <= Len(u)
      BY <1>1, <1>3, <2>1, <2>2
    <3> QED
      BY <1>3, <2>1, <2>2, <2>3, <3>1, PieceOctets
  <2>5. /\ IsSequence(octs) /\ Len(octs) = 3 * c + decoded_len(t)
        /\ IsSequence(octs2) /\ Len(octs2) = decoded_len(t) /\ decoded_len(t) \in 1 .. 3
    BY <1>1, <2>0, <2>1, <2>2, <2>4, DecodeShape, DecodedLenFacts
  <2> HIDE DEF octs, octs2
  <2>6. LastOf(octs, 3) = octs2
    <3>1. LastBlockStart(3 * c + decoded_len(t), 3) = 3 * c
      BY <1>3, <2>5, LastBlockStarts
    <3> QED
      BY <2>2, <2>4, <2>5, <3>1 DEF LastOf
  <2>7. LastOf(octs2, 3) = SubSeq(octs2, 1, Len(octs2))
    <3>1. LastBlockStart(3 * 0 + decoded_len(t), 3) = 3 * 0
      BY <2>5, LastBlockStarts
    <3>2. 3 * 0 + decoded_len(t) = decoded_len(t) /\ 3 * 0 + 1 = 1
      BY <2>5
    <3> QED
      BY <2>5, <3>1, <3>2 DEF LastOf
  <2> QED
    BY <2>5, <2>6, <2>7, WholeSegment
<1> HIDE DEF s, octs, tail, octs2
<1> QED
  BY <1>2, <1>4, <1>5, SameEnds DEF s, octs

LEMMA RoomIsEnough ==
  ASSUME NEW len \in Nat, NEW size \in Nat, len <= size, NEW room \in Nat, 3 * size <= 4 * room
  PROVE  decoded_len(len) <= room
<1>1. 4 * decoded_len(len) <= 3 * len /\ decoded_len(len) \in Nat
  BY DEF decoded_len
<1> QED
  BY <1>1

LEMMA PieceIsAccepted ==
  ASSUME NEW padded, NEW joined, NEW a, NEW q, NEW last, APiece(padded, joined, a, q, last),
         q = Len(joined) => last \/ ~padded,
         \A i \in 4 * a + 1 .. q : i <= BareLen(padded, joined) => joined[i] \in Sextets,
         NEW room \in Nat, 3 * (q - 4 * a) <= 4 * room
  PROVE  decode(padded /\ last, Piece(joined, a, q), room).err = "None"
<1> DEFINE s == Piece(joined, a, q)
<1> DEFINE e == TailStart(joined)
<1> DEFINE n == Len(joined)
<1> DEFINE bare == BareLen(padded, joined)
<1> DEFINE pd == padded /\ last
<1> DEFINE len == TextLen(pd, s)
<1>0. /\ padded \in BOOLEAN /\ last \in BOOLEAN /\ IsSequence(joined) /\ a \in Nat /\ q \in Nat
      /\ 4 * a < q /\ q <= n /\ (last => q = n) /\ Measured(padded, joined)
      /\ pd \in BOOLEAN
  BY DEF APiece
<1>1. /\ IsSequence(s) /\ Len(s) = q - 4 * a /\ Len(s) \in Nat
      /\ \A i \in 1 .. q - 4 * a : s[i] = joined[4 * a + i]
      /\ n \in Nat /\ bare \in Nat /\ bare <= n /\ e \in Nat /\ 4 * a <= e /\ bare - e \in 2 .. 4
      /\ e % 4 = 0 /\ (q < n => q % 4 = 0 /\ q <= e)
  BY PieceShape
<1>2. len \in Nat /\ (q < n => len = q - 4 * a) /\ (q = n => 4 * a + len = bare)
  <2>1. (padded /\ last) \/ q < n \/ ~padded
    BY <1>0, <1>1
  <2> QED
    BY <2>1, PieceLength
<1>3. len <= q - 4 * a /\ 4 * a + len <= bare /\ q - 4 * a \in Nat
  <2> HIDE DEF s, n, len, bare, e, pd
  <2> QED
    BY <1>0, <1>1, <1>2
<1>4. \A i \in 1 .. len : s[i] \in Sextets
  <2> SUFFICES ASSUME NEW i \in 1 .. len PROVE s[i] \in Sextets
    OBVIOUS
  <2> HIDE DEF s, n, len, e, pd
  <2>1. i \in 1 .. q - 4 * a /\ 4 * a + i \in 4 * a + 1 .. q /\ 4 * a + i <= bare
    <3> HIDE DEF bare
    <3> QED
      BY <1>0, <1>1, <1>2, <1>3
  <2> QED
    BY <1>1, <2>1
<1>5. len % 4 # 1
  <2> HIDE DEF s, n, len, bare, e, pd
  <2>1. CASE q < n
    <3>1. len = q - 4 * a /\ q % 4 = 0
      BY <1>1, <1>2, <2>1
    <3>2. (q - 4 * a) % 4 = 0
      BY <1>0, <3>1
    <3> QED
      BY <3>1, <3>2
  <2>2. CASE q = n
    <3> DEFINE x == e - 4 * a
    <3> DEFINE y == bare - e
    <3>1. x \in Nat /\ x % 4 = 0 /\ y \in {2, 3, 4}
      BY <1>0, <1>1
    <3>2. len = x + y
      BY <1>0, <1>1, <1>2, <2>2
    <3> HIDE DEF x, y
    <3>3. \A v \in {2, 3, 4} : (x + v) % 4 # 1
      BY <3>1
    <3> QED
      BY <3>1, <3>2, <3>3
  <2> QED
    BY <1>0, <1>1, <2>1, <2>2
<1>6. ~(pd /\ MisplacedPad(s))
  <2> SUFFICES ASSUME padded, last PROVE ~MisplacedPad(s)
    OBVIOUS
  <2> DEFINE p == 4 * a
  <2>1. p \in Nat /\ p + 2 <= Len(joined) /\ q = Len(joined)
    <3> HIDE DEF s, len, bare, e, pd
    <3> QED
      BY <1>0, <1>1
  <2>2. MisplacedPad(SubSeq(joined, p + 1, Len(joined))) = MisplacedPad(joined)
    <3> HIDE DEF p
    <3> QED
      BY <1>0, <2>1, PadsOfTheEnd
  <2>3. ~MisplacedPad(joined)
    BY <1>0, TailFacts
  <2> QED
    BY <2>1, <2>2, <2>3 DEF Piece
<1>7. validate_last_block(pd, s, DecodeSextets(Start(s, len)))
  <2>1. CASE q < n
    <3>1. pd = FALSE /\ len = q - 4 * a /\ len % 4 = 0
      <4>1. ~last /\ len = q - 4 * a /\ q % 4 = 0
        BY <1>0, <1>1, <1>2, <2>1
      <4>2. (q - 4 * a) % 4 = 0
        BY <1>0, <4>1
      <4> QED
        BY <4>1, <4>2
    <3>2. Start(s, len) = s
      BY <1>1, <3>1, WholeSegment DEF Start
    <3> DEFINE m == (len \div 4) - 1
    <3>3. m \in Nat /\ Len(s) = 4 * m + 4
      <4> HIDE DEF s, len, bare, e, pd
      <4>1. len \in Nat /\ len > 0 /\ len % 4 = 0 /\ Len(s) = len
        BY <1>0, <1>1, <1>2, <3>1
      <4>2. len = 4 * (len \div 4) /\ len \div 4 \in Nat
        BY <4>1
      <4> QED
        BY <4>1, <4>2 DEF m
    <3>4. \A i \in 1 .. Len(s) : s[i] \in Sextets
      BY <1>1, <1>4, <3>1
    <3> HIDE DEF s, len, bare, e, pd, m
    <3>5. validate_last_block(FALSE, s, DecodeSextets(s))
      BY <1>1, <3>3, <3>4, WholeBlocksAreValid
    <3> QED
      BY <3>1, <3>2, <3>5
  <2>2. CASE q = n
    <3>1. pd = padded
      BY <1>0, <2>2
    <3>2. 4 * a + len = bare /\ len \in Nat
      BY <1>2, <2>2
    <3> HIDE DEF len, pd
    <3>3. validate_last_block(padded, s, DecodeSextets(Start(s, len)))
      BY <2>2, <3>2, EndIsValid
    <3> QED
      BY <3>1, <3>3
  <2> QED
    BY <1>0, <1>1, <2>1, <2>2
<1>8. decoded_len(len) <= room
  <2> DEFINE size == q - 4 * a
  <2>1. size \in Nat /\ len <= size /\ 3 * size <= 4 * room
    BY <1>3
  <2> HIDE DEF size, len
  <2> QED
    BY <1>2, <2>1, RoomIsEnough
<1>9. ~Misspelled(pd, s, len)
  <2> HIDE DEF s, len, pd
  <2> QED
    BY <1>4, <1>5, <1>6 DEF Misspelled
<1>10. len # -1
  BY <1>2
<1> HIDE DEF s, pd
<1> QED
  BY <1>0, <1>1, <1>7, <1>8, <1>9, <1>10, DecodeAccepts DEF s, pd

LEMMA NothingIsAccepted ==
  ASSUME NEW padded \in BOOLEAN, NEW room \in Nat
  PROVE  decode(padded, <<>>, room) = Ok(<<>>)
<1> DEFINE s == <<>>
<1> DEFINE len == TextLen(padded, s)
<1> DEFINE none == 0
<1>1. IsSequence(s) /\ Len(s) = 0
  BY EmptyIsSequence
<1>2. PadsAtEnd(s) = 0 /\ none \in Nat /\ none <= Len(s)
  BY <1>1 DEF PadsAtEnd
<1>3. len = none
  BY <1>1, <1>2 DEF TextLen, decode_padding
<1>4. ~MisplacedPad(s)
  BY <1>2 DEF MisplacedPad
<1> HIDE DEF s, len, none
<1>5. IsSequence(Start(s, none)) /\ Len(Start(s, none)) = none
  BY <1>1, <1>2, StartFacts
<1>6. decoded_len(0) = 0
  BY DEF decoded_len
<1>7. IsSequence(DecodeSextets(Start(s, none))) /\ Len(DecodeSextets(Start(s, none))) = 0
  BY <1>5, <1>6, DecodeShape DEF none
<1>8. DecodeSextets(Start(s, none)) = <<>>
  BY <1>7, SequenceShape
<1>9. ~Misspelled(padded, s, len)
  BY <1>3, <1>4 DEF Misspelled, none
<1>10. ASSUME NEW octets PROVE validate_last_block(padded, s, octets)
  <2>1. SubSeq(s, LastBlockStart(Len(s), 4) + 1, Len(s)) = <<>>
    <3>1. LastBlockStart(Len(s), 4) = 0
      BY <1>1 DEF LastBlockStart
    <3>2. SubSeq(s, 1, Len(s)) = s
      BY <1>1, WholeSegment
    <3> QED
      BY <3>1, <3>2 DEF s
  <2> QED
    BY <2>1, EmptyIsSequence DEF validate_last_block
<1>11. decoded_len(len) <= room /\ len # -1
  BY <1>3, <1>6 DEF none
<1> QED
  BY <1>1, <1>3, <1>8, <1>9, <1>10, <1>11, DecodeAccepts DEF s, len

LEMMA WholeText ==
  ASSUME NEW padded \in BOOLEAN, NEW joined, IsSequence(joined),
         joined = <<>> \/ Measured(padded, joined)
  PROVE  LET whole == decode(padded, joined, Len(joined))
         IN  /\ whole.err = "None" <=>
                  \A i \in 1 .. BareLen(padded, joined) : joined[i] \in Sextets
             /\ whole.err = "None" => whole = Ok(DataOf(padded, joined))
<1> DEFINE n == Len(joined)
<1> DEFINE whole == decode(padded, joined, n)
<1> DEFINE bare == BareLen(padded, joined)
<1> DEFINE data == DataOf(padded, joined)
<1>0. n \in Nat /\ bare \in Nat /\ bare <= n /\ IsSequence(data) /\ Len(data) = decoded_len(bare)
  BY SequenceShape, BitsFacts
<1>1. CASE joined = <<>>
  <2>1. n = 0 /\ bare = 0
    <3> HIDE DEF bare
    <3> QED
      BY <1>0, <1>1, EmptyIsSequence
  <2>2. Len(data) = 0
    BY <1>0, <2>1 DEF decoded_len
  <2>3. data = <<>>
    BY <1>0, <2>2, SequenceShape
  <2>4. decode(padded, <<>>, n) = Ok(<<>>)
    BY <1>0, NothingIsAccepted
  <2>5. whole = Ok(data)
    BY <1>1, <2>3, <2>4
  <2>6. whole.err = "None"
    BY <2>5 DEF Ok
  <2> HIDE DEF whole, data, bare
  <2> QED
    BY <2>1, <2>5, <2>6 DEF whole, data, bare
<1>2. CASE Measured(padded, joined)
  <2> DEFINE a == 0
  <2> DEFINE last == TRUE
  <2>1. a \in Nat /\ last \in BOOLEAN /\ 4 * a = 0 /\ 3 * a = 0 /\ last
    OBVIOUS
  <2>2. 0 < n
    BY <1>0, <1>2, TailAccepted
  <2> HIDE DEF a, last
  <2>3. APiece(padded, joined, a, n, last)
    BY <1>0, <1>2, <2>1, <2>2 DEF APiece
  <2>4. Piece(joined, a, n) = joined
    BY <2>1, WholeSegment DEF Piece
  <2>5. whole = decode(padded /\ last, Piece(joined, a, n), n)
    BY <2>1, <2>4
  <2> HIDE DEF n, bare, data, whole
  <2>6. ASSUME whole.err = "None"
        PROVE  whole.out = data /\ \A i \in 1 .. bare : joined[i] \in Sextets
    <3>1. /\ Len(whole.out) \in Nat
          /\ whole.out = SubSeq(data, 3 * a + 1, 3 * a + Len(whole.out))
          /\ (n = Len(joined) => 3 * a + Len(whole.out) = Len(data))
          /\ \A i \in 4 * a + 1 .. n : i <= bare => joined[i] \in Sextets
      BY <1>0, <2>3, <2>5, <2>6, PieceAccepted DEF bare, data
    <3>2. whole.out = SubSeq(data, 1, Len(data))
      <4>1. 3 * a + Len(whole.out) = Len(data) /\ 3 * a = 0
        BY <2>1, <3>1 DEF n
      <4>2. 3 * a + 1 = 1
        BY <4>1
      <4> QED
        BY <3>1, <4>1, <4>2
    <3>3. \A i \in 1 .. bare : i \in 4 * a + 1 .. n /\ i <= bare
      BY <1>0, <2>1
    <3> QED
      BY <1>0, <3>1, <3>2, <3>3, WholeSegment
  <2>7. ASSUME \A i \in 1 .. bare : joined[i] \in Sextets
        PROVE  whole.err = "None"
    <3>1. \A i \in 4 * a + 1 .. n : i <= bare => joined[i] \in Sextets
      BY <1>0, <2>1, <2>7
    <3>2. 3 * (n - 4 * a) <= 4 * n
      BY <1>0, <2>1
    <3> QED
      BY <1>0, <2>1, <2>3, <2>5, <3>1, <3>2, PieceIsAccepted, ZenonT(60) DEF bare
  <2>8. whole.err = "None" => whole = Ok(whole.out)
    <3>1. \A x : Ok(x).out = x
      BY DEF Ok
    <3>2. whole.err = "None" => whole = Ok(DecodeSextets(Start(joined, TextLen(padded, joined))))
      BY <1>0, DecodeAccepts DEF n, whole
    <3> QED
      BY <3>1, <3>2
  <2> QED
    BY <2>6, <2>7, <2>8 DEF n, whole, bare, data
<1> QED
  BY <1>1, <1>2

--------------------------------------------------------------------------------
(* Lines: what the reader returns, and how the lines add up to the text.   *)
LEMMA MinFacts ==
  ASSUME NEW a \in Nat, NEW b \in Nat
  PROVE  /\ MinOf(a, b) \in Nat /\ MinOf(a, b) <= a /\ MinOf(a, b) <= b
         /\ MinOf(a, b) = a \/ MinOf(a, b) = b
         /\ a <= b => MinOf(a, b) = a
         /\ b <= a => MinOf(a, b) = b
  BY DEF MinOf

LEMMA TakenFacts ==
  ASSUME NEW s, IsSequence(s), NEW n \in Nat
  PROVE  /\ IsSequence(Taken(s, n)) /\ Len(Taken(s, n)) = MinOf(n, Len(s))
         /\ \A i \in 1 .. MinOf(n, Len(s)) : Taken(s, n)[i] = s[i]
         /\ IsSequence(After(s, n)) /\ Len(After(s, n)) = Len(s) - MinOf(n, Len(s))
         /\ \A i \in 1 .. Len(s) - MinOf(n, Len(s)) : After(s, n)[i] = s[MinOf(n, Len(s)) + i]
<1> DEFINE k == MinOf(n, Len(s))
<1> DEFINE len == Len(s)
<1>1. len \in Nat /\ k \in Nat /\ k <= len
  BY SequenceShape, MinFacts
<1>2. Taken(s, n) = Start(s, k) /\ After(s, n) = SubSeq(s, k + 1, len)
  BY DEF Taken, Start, After
<1> HIDE DEF k
<1>3. IsSequence(Start(s, k)) /\ Len(Start(s, k)) = k /\ \A i \in 1 .. k : Start(s, k)[i] = s[i]
  BY <1>1, StartFacts
<1> HIDE DEF len
<1>4. /\ IsSequence(SubSeq(s, k + 1, len)) /\ Len(SubSeq(s, k + 1, len)) = len - k
      /\ \A i \in 1 .. len - k : SubSeq(s, k + 1, len)[i] = s[k + i]
  BY <1>1, SegmentFacts DEF len
<1> QED
  BY <1>2, <1>3, <1>4 DEF k, len

LEMMA TrimmedIsSequence ==
  ASSUME NEW s, IsSequence(s)
  PROVE  IsSequence(trim_end(s))
<1> DEFINE n == Len(s)
<1>1. n \in Nat
  BY SequenceShape
<1>2. \A m \in Nat : m <= n => IsSequence(SubSeq(s, 1, m))
  BY StartFacts DEF Start
<1>3. (n >= 2 => IsSequence(SubSeq(s, 1, n - 2))) /\ (n >= 1 => IsSequence(SubSeq(s, 1, n - 1)))
  <2> HIDE DEF n
  <2>1. (n >= 2 => n - 2 \in Nat /\ n - 2 <= n) /\ (n >= 1 => n - 1 \in Nat /\ n - 1 <= n)
    BY <1>1
  <2> QED
    BY <1>2, <2>1
<1> QED
  BY <1>3 DEF trim_end

LEMMA NextLineFacts ==
  ASSUME NEW text, IsSequence(text), text # <<>>, NEW width \in Nat
  PROVE  LET n == NextLine(text, width)
         IN  /\ n.kind \in {"Line", "End", "Error"}
             /\ IsSequence(n.line) /\ IsSequence(n.rest)
             /\ n.kind = "Line" => Len(n.rest) < Len(text)
             /\ n.kind # "Line" => n.line = <<>>
             /\ n.kind = "End" => width = 0
             /\ width = 0 => n.kind # "Error" /\ n.rest = <<>>
             /\ n.kind = "Line" /\ n.rest # <<>> => Len(n.line) = width
             /\ n.kind = "Line" /\ n.line = <<>> => n.rest = <<>>
<1> DEFINE n == NextLine(text, width)
<1>1. Len(text) \in Nat /\ Len(text) > 0 /\ IsSequence(<<>>) /\ Len(<<>>) = 0
  BY SequenceShape, EmptyIsSequence
<1>2. CASE width = 0 \/ Len(text) <= width
  <2> DEFINE line0 == trim_end(text)
  <2>1. n = LastLine(line0, width)
    BY <1>2 DEF NextLine
  <2>2. IsSequence(line0)
    BY TrimmedIsSequence
  <2> HIDE DEF n, line0
  <2>3. CASE line0 = <<>> /\ width = 0
    <3>1. n.kind = "End" /\ n.line = <<>> /\ n.rest = <<>>
      BY <2>1, <2>3 DEF LastLine, NoLine
    <3> QED
      BY <1>1, <2>3, <3>1 DEF n
  <2>4. CASE ~(line0 = <<>> /\ width = 0)
    <3>1. n.kind = "Line" /\ n.line = line0 /\ n.rest = <<>>
      BY <2>1, <2>4 DEF LastLine, ALine
    <3> QED
      BY <1>1, <2>2, <3>1 DEF n
  <2> QED
    BY <2>3, <2>4
<1>3. CASE ~(width = 0 \/ Len(text) <= width)
  <2> DEFINE eol == EolLen(After(text, width))
  <2>1. n = WholeLine(text, width, eol)
    BY <1>3 DEF NextLine
  <2>2. eol \in {0, 1, 2} /\ width > 0 /\ Len(text) > width
    BY <1>1, <1>3 DEF EolLen
  <2> HIDE DEF n, eol
  <2>3. CASE eol = 0
    <3>1. n.kind = "Error" /\ n.line = <<>> /\ n.rest = text
      BY <2>1, <2>3 DEF WholeLine
    <3> QED
      BY <1>1, <2>2, <3>1 DEF n
  <2>4. CASE eol # 0
    <3>1. n.kind = "Line" /\ n.line = Taken(text, width) /\ n.rest = After(text, width + eol)
      BY <2>1, <2>4 DEF WholeLine, ALine
    <3> DEFINE used == width + eol
    <3>2. used \in Nat /\ used > 0 /\ MinOf(width, Len(text)) = width
          /\ MinOf(used, Len(text)) \in Nat /\ MinOf(used, Len(text)) > 0
      BY <1>1, <2>2 DEF MinOf
    <3> HIDE DEF used
    <3>3. IsSequence(n.line) /\ Len(n.line) = width
      BY <3>1, <3>2, TakenFacts
    <3>4. IsSequence(n.rest) /\ Len(n.rest) = Len(text) - MinOf(used, Len(text))
      BY <3>1, <3>2, TakenFacts DEF used
    <3>5. Len(n.rest) < Len(text) /\ n.line # <<>>
      BY <1>1, <2>2, <3>2, <3>3, <3>4
    <3> QED
      BY <1>1, <2>2, <3>1, <3>3, <3>4, <3>5 DEF n
  <2> QED
    BY <2>3, <2>4
<1> QED
  BY <1>2, <1>3

FirstState(text) == [kind |-> "Line", rest |-> text, joined |-> <<>>, last |-> <<>>]

LEMMA LinesRecursion ==
  ASSUME NEW text, Len(text) \in Nat, NEW width
  PROVE  /\ Lines(text, width)[0] = FirstState(text)
         /\ \A k \in 0 .. Len(text) :
              Lines(text, width)[k + 1] = Advanced(Lines(text, width)[k], width)
<1> DEFINE K == Len(text) + 1
           Steps(f, k) == f = [j \in 0 .. k |-> IF j = 0 THEN FirstState(text)
                                                ELSE Advanced(f[j - 1], width)]
           Exists == {k \in Nat : \E f : Steps(f, k)}
           v == CHOOSE f : Steps(f, K)
<1>1. K \in Nat
  OBVIOUS
<1>2. 0 \in Exists
  <2> DEFINE g == [j \in 0 .. 0 |-> FirstState(text)]
  <2>1. Steps(g, 0)
    OBVIOUS
  <2> HIDE DEF g, Steps
  <2> QED
    BY <2>1
<1>3. ASSUME NEW k \in Exists PROVE k + 1 \in Exists
  <2>1. PICK f : Steps(f, k)
    OBVIOUS
  <2> DEFINE g == [j \in 0 .. k + 1 |-> IF j = k + 1 THEN Advanced(f[k], width) ELSE f[j]]
  <2>2. \A j \in 0 .. k + 1 : g[j] = IF j = 0 THEN FirstState(text) ELSE Advanced(g[j - 1], width)
    BY <2>1
  <2>3. Steps(g, k + 1)
    BY <2>2
  <2> HIDE DEF g, Steps
  <2> QED
    BY <2>3
<1>4. Exists = Nat
  <2> HIDE DEF Exists
  <2>1. Exists \in SUBSET Nat
    BY DEF Exists
  <2> QED
    BY <1>2, <1>3, <2>1, Induction
<1>5. Steps(v, K)
  <2>1. \E f : Steps(f, K)
    BY <1>1, <1>4
  <2> HIDE DEF Steps
  <2> QED
    BY <2>1
<1>6. \A j \in 0 .. K : v[j] = IF j = 0 THEN FirstState(text) ELSE Advanced(v[j - 1], width)
  BY <1>1, <1>5
<1>7. Lines(text, width) = v
  BY DEF Lines, FirstState
<1> HIDE DEF v
<1> QED
  BY <1>1, <1>6, <1>7

LEMMA WithLineFields ==
  ASSUME NEW was, NEW n
  PROVE  /\ WithLine(was, n).kind = n.kind /\ WithLine(was, n).rest = n.rest
         /\ WithLine(was, n).joined = was.joined \o n.line
         /\ WithLine(was, n).last = IF n.kind = "Line" THEN <<n.line>> ELSE was.last
<1> DEFINE latest == IF n.kind = "Line" THEN <<n.line>> ELSE was.last
<1> DEFINE sum == was.joined \o n.line
<1>1. WithLine(was, n) = [kind |-> n.kind, rest |-> n.rest, joined |-> sum, last |-> latest]
  BY DEF WithLine
<1> HIDE DEF latest, sum
<1>2. /\ WithLine(was, n).kind = n.kind /\ WithLine(was, n).rest = n.rest
      /\ WithLine(was, n).joined = sum /\ WithLine(was, n).last = latest
  BY <1>1
<1> QED
  BY <1>2 DEF latest, sum

(* One step of the reader, spelled out.                                    *)
LEMMA AdvancedFacts ==
  ASSUME NEW was, NEW width \in Nat, IsSequence(was.rest), IsSequence(was.joined),
         was.kind = "Line"
  PROVE  LET n == NextLine(was.rest, width)
             now == Advanced(was, width)
         IN  /\ now.kind = n.kind /\ now.rest = n.rest /\ now.joined = was.joined \o n.line
             /\ now.last = IF n.kind = "Line" THEN <<n.line>> ELSE was.last
             /\ n.kind \in {"Line", "End", "Error"}
             /\ IsSequence(n.line) /\ IsSequence(n.rest)
             /\ n.kind # "Line" => n.line = <<>>
             /\ was.rest = <<>> => n.kind = "End"
<1> DEFINE n == NextLine(was.rest, width)
<1>1. Advanced(was, width) = WithLine(was, n)
  BY DEF Advanced
<1>2. CASE was.rest = <<>>
  <2>1. n = NoLine
    BY <1>2 DEF NextLine
  <2>2. n.kind = "End" /\ n.line = <<>> /\ n.rest = <<>>
    BY <2>1 DEF NoLine
  <2> HIDE DEF n
  <2> QED
    BY <1>1, <2>2, EmptyIsSequence DEF WithLine, n
<1>3. CASE was.rest # <<>>
  <2>1. n.kind \in {"Line", "End", "Error"} /\ IsSequence(n.line) /\ IsSequence(n.rest)
        /\ (n.kind # "Line" => n.line = <<>>)
    BY <1>3, NextLineFacts
  <2> DEFINE now == Advanced(was, width)
  <2> HIDE DEF n
  <2>2. /\ now.kind = n.kind /\ now.rest = n.rest /\ now.joined = was.joined \o n.line
        /\ now.last = IF n.kind = "Line" THEN <<n.line>> ELSE was.last
    <3> DEFINE next == WithLine(was, n)
    <3>1. /\ next.kind = n.kind /\ next.rest = n.rest /\ next.joined = was.joined \o n.line
          /\ next.last = IF n.kind = "Line" THEN <<n.line>> ELSE was.last
      BY WithLineFields
    <3>2. now = next
      BY <1>1
    <3> HIDE DEF now, next
    <3> QED
      BY <3>1, <3>2
  <2>3. was.rest = <<>> => n.kind = "End"
    BY <1>3
  <2> HIDE DEF now
  <2>4. /\ now.kind = n.kind /\ now.rest = n.rest /\ now.joined = was.joined \o n.line
        /\ now.last = IF n.kind = "Line" THEN <<n.line>> ELSE was.last
        /\ n.kind \in {"Line", "End", "Error"}
        /\ IsSequence(n.line) /\ IsSequence(n.rest)
        /\ (n.kind # "Line" => n.line = <<>>)
        /\ (was.rest = <<>> => n.kind = "End")
    BY <2>1, <2>2, <2>3
  <2> QED
    BY <2>4 DEF n, now
<1> QED
  BY <1>2, <1>3

LineShape(s, k, text, width) ==
  /\ s.kind \in {"Line", "End", "Error"} /\ IsSequence(s.rest) /\ IsSequence(s.joined)
  /\ s.kind = "Line" => k + Len(s.rest) <= Len(text)
  /\ k = 0 => s.last = <<>>
  /\ width = 0 /\ k > 0 /\ s.kind = "Line" => s.rest = <<>>
  /\ s.last = <<>> => s.joined = <<>>

LEMMA LinesShape ==
  ASSUME NEW text, IsSequence(text), NEW width \in Nat, NEW k \in 0 .. Len(text) + 1
  PROVE  LineShape(Lines(text, width)[k], k, text, width)
<1> DEFINE L == Lines(text, width)
           Shaped == {j \in Nat : j <= Len(text) + 1 => LineShape(L[j], j, text, width)}
<1>1. Len(text) \in Nat
  BY SequenceShape
<1>2. 0 \in Shaped
  <2>1. L[0] = FirstState(text)
    BY <1>1, LinesRecursion
  <2> HIDE DEF L
  <2> QED
    BY <1>1, <2>1, EmptyIsSequence DEF LineShape, FirstState
<1>3. ASSUME NEW j \in Shaped PROVE j + 1 \in Shaped
  <2> SUFFICES ASSUME j + 1 <= Len(text) + 1 PROVE LineShape(L[j + 1], j + 1, text, width)
    OBVIOUS
  <2> DEFINE was == L[j]
             now == L[j + 1]
             n == NextLine(was.rest, width)
  <2>1. j \in 0 .. Len(text) /\ LineShape(was, j, text, width)
    BY <1>1
  <2>2. now = Advanced(was, width)
    BY <1>1, <2>1, LinesRecursion
  <2> HIDE DEF Shaped, was, now, L
  <2>3. CASE was.kind # "Line"
    <3>1. now = was
      BY <2>2, <2>3 DEF Advanced
    <3> QED
      BY <2>1, <2>3, <3>1 DEF LineShape, now
  <2>4. CASE was.kind = "Line"
    <3>1. IsSequence(was.rest) /\ IsSequence(was.joined) /\ j + Len(was.rest) <= Len(text)
          /\ (was.last = <<>> => was.joined = <<>>)
      BY <2>1, <2>4 DEF LineShape
    <3>2. /\ now.kind = n.kind /\ now.rest = n.rest /\ now.joined = was.joined \o n.line
          /\ now.last = IF n.kind = "Line" THEN <<n.line>> ELSE was.last
          /\ n.kind \in {"Line", "End", "Error"}
          /\ IsSequence(n.line) /\ IsSequence(n.rest)
          /\ (n.kind # "Line" => n.line = <<>>)
          /\ (was.rest = <<>> => n.kind = "End")
      BY <2>2, <2>4, <3>1, AdvancedFacts
    <3>3. n.kind = "Line" => Len(n.rest) < Len(was.rest) /\ (width = 0 => n.rest = <<>>)
      <4>1. CASE was.rest = <<>>
        BY <3>2, <4>1
      <4>2. CASE was.rest # <<>>
        BY <3>1, <4>2, NextLineFacts
      <4> QED
        BY <4>1, <4>2
    <3> HIDE DEF n
    <3>4. IsSequence(now.joined)
      BY <3>1, <3>2, ConcatFacts
    <3>5. now.kind = "Line" => j + 1 + Len(now.rest) <= Len(text)
      <4>1. Len(n.rest) \in Nat /\ Len(was.rest) \in Nat /\ j \in Nat
        BY <2>1, <3>1, <3>2, SequenceShape
      <4> SUFFICES ASSUME now.kind = "Line" PROVE j + 1 + Len(now.rest) <= Len(text)
        OBVIOUS
      <4>2. Len(n.rest) < Len(was.rest) /\ now.rest = n.rest
        BY <3>2, <3>3
      <4> DEFINE x == Len(n.rest)
                 y == Len(was.rest)
      <4>3. x \in Nat /\ y \in Nat /\ x < y /\ j + y <= Len(text) /\ Len(now.rest) = x
        BY <3>1, <4>1, <4>2
      <4> HIDE DEF x, y
      <4> QED
        BY <1>1, <4>1, <4>3
    <3>6. now.last = <<>> => now.joined = <<>>
      <4> SUFFICES ASSUME now.last = <<>> PROVE now.joined = <<>>
        OBVIOUS
      <4>1. n.kind # "Line"
        <5>1. Len(<<n.line>>) = 1 /\ Len(<<>>) = 0
          OBVIOUS
        <5>2. <<n.line>> # <<>>
          BY <5>1
        <5> QED
          BY <3>2, <5>2
      <4>2. was.joined = <<>> /\ now.joined = was.joined \o <<>>
        BY <3>1, <3>2, <4>1
      <4> QED
        BY <4>2, EmptyIsSequence, NothingAdded
    <3>7. j + 1 # 0
      BY <2>1
    <3> QED
      BY <3>2, <3>3, <3>4, <3>5, <3>6, <3>7 DEF LineShape, now
  <2> QED
    BY <2>3, <2>4
<1> QED
  <2> HIDE DEF Shaped
  <2>1. Shaped \in SUBSET Nat
    BY DEF Shaped
  <2>2. Shaped = Nat
    BY <1>2, <1>3, <2>1, Induction
  <2>3. k \in Nat /\ k <= Len(text) + 1
    BY <1>1
  <2> QED
    BY <2>2, <2>3 DEF Shaped

(* From any line on the text only grows, and after the last one it stays.  *)
Grows(now, all) ==
  /\ Len(now.joined) <= Len(all.joined)
  /\ \A i \in 1 .. Len(now.joined) : all.joined[i] = now.joined[i]
  /\ now.kind # "Line" => all = now

LEMMA LinesGrow ==
  ASSUME NEW text, IsSequence(text), NEW width \in Nat, NEW k \in 0 .. Len(text) + 1
  PROVE  Grows(Lines(text, width)[k], LinesOf(text, width))
<1> DEFINE L == Lines(text, width)
           K == Len(text) + 1
           all == LinesOf(text, width)
           Ahead == {m \in Nat : m <= K => Grows(L[K - m], all)}
<1>1. Len(text) \in Nat /\ K \in Nat
  BY SequenceShape
<1>2. 0 \in Ahead
  <2>1. L[K - 0] = all
    BY <1>1 DEF LinesOf
  <2>2. IsSequence(all.joined)
    <3>1. K \in 0 .. Len(text) + 1
      BY <1>1
    <3> QED
      BY <3>1, LinesShape DEF LinesOf, LineShape
  <2>3. Len(all.joined) \in Nat
    BY <2>2, SequenceShape
  <2> HIDE DEF L, all
  <2>4. Grows(all, all)
    BY <2>3 DEF Grows
  <2> QED
    BY <2>1, <2>4
<1>3. ASSUME NEW m \in Ahead PROVE m + 1 \in Ahead
  <2> SUFFICES ASSUME m + 1 <= K PROVE Grows(L[K - (m + 1)], all)
    OBVIOUS
  <2> DEFINE j == K - (m + 1)
             was == L[j]
             now == L[j + 1]
             n == NextLine(was.rest, width)
  <2>1. j \in 0 .. Len(text) /\ j \in 0 .. Len(text) + 1 /\ j + 1 \in 0 .. Len(text) + 1
        /\ j + 1 = K - m /\ m <= K
    BY <1>1
  <2>2. Grows(now, all)
    BY <2>1
  <2>3. now = Advanced(was, width)
    BY <1>1, <2>1, LinesRecursion
  <2>4. LineShape(was, j, text, width) /\ LineShape(now, j + 1, text, width)
    BY <2>1, LinesShape
  <2> HIDE DEF Ahead, was, now, L, K, all, j
  <2>5. CASE was.kind # "Line"
    <3>1. now = was
      BY <2>3, <2>5 DEF Advanced
    <3> QED
      BY <2>2, <3>1 DEF was, j
  <2>6. CASE was.kind = "Line"
    <3>1. /\ now.joined = was.joined \o n.line /\ IsSequence(n.line) /\ IsSequence(was.joined)
      BY <2>3, <2>4, <2>6, AdvancedFacts DEF LineShape
    <3> HIDE DEF n
    <3> DEFINE x == Len(was.joined)
               y == Len(n.line)
               sum == Len(now.joined)
    <3>7. x \in Nat /\ y \in Nat
      BY <3>1, SequenceShape
    <3>2. sum = x + y /\ \A i \in 1 .. x : now.joined[i] = was.joined[i]
      <4> DEFINE before == was.joined
                 more == n.line
      <4>1. IsSequence(before) /\ IsSequence(more) /\ now.joined = before \o more
        BY <3>1
      <4> HIDE DEF before, more
      <4>2. Len(before \o more) = Len(before) + Len(more)
            /\ \A i \in 1 .. Len(before) : (before \o more)[i] = before[i]
        BY <4>1, ConcatFacts
      <4> QED
        BY <4>1, <4>2 DEF before, more
    <3>3. IsSequence(all.joined) /\ Len(all.joined) \in Nat
      <4>1. K \in 0 .. Len(text) + 1
        BY <1>1 DEF K
      <4> QED
        BY <4>1, LinesShape, SequenceShape DEF LinesOf, LineShape, all, K
    <3>4. x <= Len(all.joined)
      <4>1. sum <= Len(all.joined)
        BY <2>2 DEF Grows
      <4> HIDE DEF x, y, sum
      <4> QED
        BY <3>2, <3>3, <3>7, <4>1
    <3>5. \A i \in 1 .. x : all.joined[i] = was.joined[i]
      <4>1. \A i \in 1 .. x : i \in 1 .. sum
        <5> HIDE DEF x, y, sum
        <5> QED
          BY <3>2, <3>7
      <4> QED
        BY <2>2, <3>2, <4>1 DEF Grows
    <3>6. Grows(was, all)
      BY <2>6, <3>4, <3>5 DEF Grows
    <3> QED
      BY <3>6 DEF was, j
  <2> QED
    BY <2>5, <2>6
<1> QED
  <2>1. Ahead = Nat
    <3>1. Ahead \in SUBSET Nat
      OBVIOUS
    <3> HIDE DEF Ahead
    <3> QED
      BY <1>2, <1>3, <3>1, Induction
  <2>2. K - k \in Nat /\ K - k <= K /\ K - (K - k) = k
    BY <1>1
  <2> HIDE DEF L, K, all
  <2> QED
    BY <2>1, <2>2 DEF L, all

(* What the reader has still to give when it is at a line.                 *)
StillToGive(text, width, k) ==
  LET now == Lines(text, width)[k]
      next == Lines(text, width)[k + 1]
      all == LinesOf(text, width)
      n == NextLine(now.rest, width)
  IN  /\ next.kind = n.kind /\ next.rest = n.rest /\ next.joined = now.joined \o n.line
      /\ n.kind = "Line" => k + 1 \in 0 .. Len(text)
      /\ IsSequence(n.line) /\ (n.kind # "Line" => n.line = <<>>)
      /\ now.rest = <<>> => all.joined = now.joined
      /\ now.rest # <<>> /\ all.kind # "Error" => n.kind \in {"Line", "End"}
      /\ now.rest # <<>> /\ all.kind # "Error" /\ all.last \notin {<<>>, <<<<>>>>} =>
           n.kind = "Line" /\ Len(now.joined) < Len(all.joined)

LEMMA AtALine ==
  ASSUME NEW text, IsSequence(text), NEW width \in Nat, NEW k \in 0 .. Len(text),
         Lines(text, width)[k].kind = "Line"
  PROVE  StillToGive(text, width, k)
<1> DEFINE L == Lines(text, width)
           now == L[k]
           next == L[k + 1]
           all == LinesOf(text, width)
           n == NextLine(now.rest, width)
           K == Len(text)
<1>1. K \in Nat /\ k \in 0 .. K + 1 /\ k + 1 \in 0 .. K + 1 /\ k \in Nat
  BY SequenceShape
<1>2. LineShape(now, k, text, width) /\ LineShape(next, k + 1, text, width)
  BY <1>1, LinesShape
<1>3. Grows(now, all) /\ Grows(next, all)
  BY <1>1, LinesGrow
<1>4. next = Advanced(now, width)
  BY <1>1, LinesRecursion
<1>5. /\ next.kind = n.kind /\ next.rest = n.rest /\ next.joined = now.joined \o n.line
      /\ next.last = IF n.kind = "Line" THEN <<n.line>> ELSE now.last
      /\ n.kind \in {"Line", "End", "Error"}
      /\ IsSequence(n.line) /\ IsSequence(n.rest)
      /\ (n.kind # "Line" => n.line = <<>>)
      /\ (now.rest = <<>> => n.kind = "End")
  <2>1. IsSequence(now.rest) /\ IsSequence(now.joined) /\ now.kind = "Line"
    BY <1>2 DEF LineShape
  <2> HIDE DEF now, next
  <2>2. LET n0 == NextLine(now.rest, width)
            next0 == Advanced(now, width)
        IN  /\ next0.kind = n0.kind /\ next0.rest = n0.rest /\ next0.joined = now.joined \o n0.line
            /\ next0.last = IF n0.kind = "Line" THEN <<n0.line>> ELSE now.last
            /\ n0.kind \in {"Line", "End", "Error"}
            /\ IsSequence(n0.line) /\ IsSequence(n0.rest)
            /\ n0.kind # "Line" => n0.line = <<>>
            /\ now.rest = <<>> => n0.kind = "End"
    BY <2>1, AdvancedFacts
  <2> QED
    BY <1>4, <2>2
<1>6. now.rest # <<>> =>
        /\ n.kind = "End" => width = 0
        /\ n.kind = "Line" /\ n.line = <<>> => n.rest = <<>>
  <2>1. IsSequence(now.rest)
    BY <1>2 DEF LineShape
  <2> HIDE DEF now
  <2> QED
    BY <2>1, NextLineFacts
<1>7. now.kind = "Line"
  OBVIOUS
<1> HIDE DEF L, now, next, all, n
<1>8. IsSequence(now.joined) /\ Len(now.joined) \in Nat /\ IsSequence(now.rest)
  BY <1>2, SequenceShape DEF LineShape
<1>9. n.kind # "Line" => all = next /\ next.joined = now.joined
  BY <1>3, <1>5, <1>8, NothingAdded DEF Grows
<1>10. n.kind = "Line" => k + 1 \in 0 .. K
  <2> SUFFICES ASSUME n.kind = "Line" PROVE k + 1 \in 0 .. K
    OBVIOUS
  <2>1. k + 1 + Len(next.rest) <= K /\ IsSequence(next.rest)
    BY <1>2, <1>5 DEF LineShape, K
  <2>2. Len(next.rest) \in Nat
    BY <2>1, SequenceShape
  <2> DEFINE r == Len(next.rest)
  <2>3. k + 1 + r <= K /\ r \in Nat /\ k \in Nat /\ K \in Nat
    BY <1>1, <2>1, <2>2
  <2> HIDE DEF K, r
  <2> QED
    BY <2>3
<1>11. now.rest = <<>> => all.joined = now.joined
  BY <1>5, <1>9
<1>12. now.rest # <<>> /\ all.kind # "Error" => n.kind \in {"Line", "End"}
  BY <1>5, <1>9
<1>13. ASSUME now.rest # <<>>, all.kind # "Error", all.last \notin {<<>>, <<<<>>>>}
       PROVE  n.kind = "Line"
  <2> SUFFICES ASSUME n.kind # "Line" PROVE FALSE
    OBVIOUS
  <2>1. n.kind = "End" /\ all = next /\ width = 0 /\ next.last = now.last
    BY <1>5, <1>6, <1>9, <1>12, <1>13
  <2>2. k = 0
    BY <1>1, <1>2, <1>7, <1>13, <2>1 DEF LineShape
  <2>3. now.last = <<>>
    BY <1>2, <2>2 DEF LineShape
  <2> QED
    BY <1>13, <2>1, <2>3
<1>14. ASSUME now.rest # <<>>, all.kind # "Error", all.last \notin {<<>>, <<<<>>>>}
       PROVE  Len(now.joined) < Len(all.joined)
  <2>1. n.kind = "Line" /\ next.last = <<n.line>> /\ next.kind = "Line"
    BY <1>5, <1>13, <1>14
  <2>2. k + 1 \in 0 .. K /\ k + 2 \in 0 .. K + 1 /\ k + 1 + 1 = k + 2
    <3> HIDE DEF K
    <3> QED
      BY <1>1, <1>10, <2>1
  <2>3. n.line # <<>>
    <3> SUFFICES ASSUME n.line = <<>> PROVE FALSE
      OBVIOUS
    <3>1. next.rest = <<>>
      BY <1>5, <1>6, <1>14, <2>1
    <3> DEFINE third == L[k + 2]
               m == NextLine(next.rest, width)
    <3>2. third = Advanced(next, width)
      BY <1>1, <2>2, LinesRecursion DEF L, next, K
    <3>3. IsSequence(next.rest) /\ IsSequence(next.joined)
      BY <1>2 DEF LineShape
    <3>4. LET n0 == NextLine(next.rest, width)
              next0 == Advanced(next, width)
          IN  /\ next0.kind = n0.kind
              /\ next0.last = IF n0.kind = "Line" THEN <<n0.line>> ELSE next.last
              /\ next.rest = <<>> => n0.kind = "End"
      BY <2>1, <3>3, AdvancedFacts
    <3>5. third.kind = "End" /\ third.last = next.last
      BY <3>1, <3>2, <3>4
    <3>6. Grows(third, all)
      BY <2>2, LinesGrow DEF L, all, K
    <3>7. all = third
      BY <3>5, <3>6 DEF Grows
    <3> QED
      BY <1>14, <2>1, <3>5, <3>7
  <2>4. Len(n.line) \in Nat /\ Len(n.line) > 0
    BY <1>5, <2>3, SequenceShape
  <2>5. Len(next.joined) = Len(now.joined) + Len(n.line)
    BY <1>5, <1>8, ConcatFacts
  <2>6. Len(next.joined) <= Len(all.joined) /\ Len(all.joined) \in Nat
    <3>1. K + 1 \in 0 .. K + 1
      BY <1>1
    <3>2. IsSequence(all.joined)
      BY <3>1, LinesShape DEF LinesOf, LineShape, all, K
    <3> QED
      BY <1>3, <3>2, SequenceShape DEF Grows
  <2> DEFINE x == Len(now.joined)
             y == Len(n.line)
             z == Len(all.joined)
  <2>7. x \in Nat /\ y \in Nat /\ y > 0 /\ z \in Nat /\ x + y <= z
    BY <1>8, <2>4, <2>5, <2>6
  <2> HIDE DEF x, y, z
  <2>8. x < z
    BY <2>7
  <2> QED
    BY <2>8 DEF x, z
<1> QED
  BY <1>5, <1>10, <1>11, <1>12, <1>13, <1>14 DEF StillToGive, L, now, next, all, n, K

--------------------------------------------------------------------------------
(* The reader is p characters into the joined text: l is left of the line  *)
(* it is at, and r comes after that line.                                  *)
OnLine(text, width, l, r, p) ==
  /\ p \in Nat /\ IsSequence(l)
  /\ \A i \in 1 .. Len(l) : l[i] = LinesOf(text, width).joined[p + i]
  /\ \E k \in 0 .. Len(text) :
       LET now == Lines(text, width)[k]
       IN  now.kind = "Line" /\ now.rest = r /\ Len(now.joined) = p + Len(l)

LEMMA OnLineFacts ==
  ASSUME NEW text, IsSequence(text), NEW width \in Nat, NEW l, NEW r, NEW p,
         OnLine(text, width, l, r, p)
  PROVE  LET all == LinesOf(text, width)
             n == NextLine(r, width)
         IN  /\ p \in Nat /\ Len(l) \in Nat /\ p + Len(l) <= Len(all.joined)
             /\ r = <<>> => p + Len(l) = Len(all.joined)
             /\ IsSequence(r)
             /\ r # <<>> /\ all.kind # "Error" => n.kind \in {"Line", "End"}
             /\ r # <<>> /\ all.kind # "Error" /\ all.last \notin {<<>>, <<<<>>>>} =>
                  n.kind = "Line" /\ p + Len(l) < Len(all.joined)
<1>1. PICK k \in 0 .. Len(text) :
        LET now == Lines(text, width)[k]
        IN  now.kind = "Line" /\ now.rest = r /\ Len(now.joined) = p + Len(l)
  BY DEF OnLine
<1> DEFINE now == Lines(text, width)[k]
           all == LinesOf(text, width)
           n == NextLine(now.rest, width)
<1>2. k \in 0 .. Len(text) + 1
  BY SequenceShape
<1>3. Grows(now, all) /\ LineShape(now, k, text, width)
  BY <1>2, LinesGrow, LinesShape
<1>4. /\ (now.rest = <<>> => all.joined = now.joined)
      /\ (now.rest # <<>> /\ all.kind # "Error" => n.kind \in {"Line", "End"})
      /\ (now.rest # <<>> /\ all.kind # "Error" /\ all.last \notin {<<>>, <<<<>>>>} =>
           n.kind = "Line" /\ Len(now.joined) < Len(all.joined))
  <2>1. Lines(text, width)[k].kind = "Line"
    BY <1>1
  <2>2. StillToGive(text, width, k)
    BY <2>1, AtALine
  <2> QED
    BY <2>2 DEF StillToGive
<1>5. p \in Nat /\ Len(l) \in Nat /\ now.kind = "Line" /\ now.rest = r
      /\ Len(now.joined) = p + Len(l)
  BY <1>1, SequenceShape DEF OnLine
<1> HIDE DEF now, all
<1> QED
  BY <1>3, <1>4, <1>5 DEF Grows, LineShape, all

(* Taking characters of the line moves on by as many.                      *)
Took(text, width, l, r, p, m, q) ==
  /\ q \in Nat /\ p <= q /\ q <= Len(LinesOf(text, width).joined)
  /\ OnLine(text, width, After(l, m), r, q)
  /\ Taken(l, m) = SubSeq(LinesOf(text, width).joined, p + 1, q)

LEMMA TakingMoves ==
  ASSUME NEW text, IsSequence(text), NEW width \in Nat, NEW l, NEW r, NEW p,
         OnLine(text, width, l, r, p), NEW m \in Nat, NEW q, q = p + MinOf(m, Len(l))
  PROVE  Took(text, width, l, r, p, m, q)
<1> DEFINE joined == LinesOf(text, width).joined
           len == Len(l)
           k == MinOf(m, len)
<1>1. /\ p \in Nat /\ len \in Nat /\ IsSequence(l) /\ p + len <= Len(joined)
      /\ \A i \in 1 .. len : l[i] = joined[p + i]
  <2>1. p \in Nat /\ len \in Nat /\ p + len <= Len(joined)
    BY OnLineFacts
  <2>2. IsSequence(l) /\ \A i \in 1 .. len : l[i] = joined[p + i]
    BY DEF OnLine
  <2> QED
    BY <2>1, <2>2
<1>2. k \in Nat /\ k <= len
  BY <1>1, MinFacts
<1>3. IsSequence(joined) /\ Len(joined) \in Nat
  <2>1. Len(text) + 1 \in 0 .. Len(text) + 1
    BY SequenceShape
  <2> QED
    BY <2>1, LinesShape, SequenceShape DEF LinesOf, LineShape
<1>4. /\ IsSequence(Taken(l, m)) /\ Len(Taken(l, m)) = k /\ \A i \in 1 .. k : Taken(l, m)[i] = l[i]
      /\ IsSequence(After(l, m)) /\ Len(After(l, m)) = len - k
      /\ \A i \in 1 .. len - k : After(l, m)[i] = l[k + i]
  BY <1>1, TakenFacts
<1>8. q = p + k
  OBVIOUS
<1> HIDE DEF joined, k
<1>5. q \in Nat /\ p <= q /\ q <= Len(joined) /\ q - p = k
  <2> HIDE DEF len
  <2> QED
    BY <1>1, <1>2, <1>3, <1>8, SMTT(40)
<1>6. OnLine(text, width, After(l, m), r, q)
  <2>1. \A i \in 1 .. Len(After(l, m)) : After(l, m)[i] = joined[q + i]
    <3> SUFFICES ASSUME NEW i \in 1 .. len - k PROVE After(l, m)[i] = joined[q + i]
      BY <1>4
    <3>1. k + i \in 1 .. len /\ p + (k + i) = q + i
      <4>1. p \in Nat /\ len \in Nat /\ k \in Nat /\ k <= len
        BY <1>1, <1>2
      <4> HIDE DEF len
      <4>2. k + i \in 1 .. len
        BY <4>1
      <4>3. p + (k + i) = (p + k) + i
        BY <4>1
      <4> QED
        BY <1>8, <4>2, <4>3
    <3> QED
      BY <1>1, <1>4, <3>1
  <2>2. q + Len(After(l, m)) = p + len
    <3> DEFINE left == Len(After(l, m))
    <3>1. left = len - k /\ p \in Nat /\ len \in Nat /\ k \in Nat /\ q = p + k
      BY <1>1, <1>2, <1>4, <1>8
    <3> HIDE DEF len, left
    <3>2. q + left = p + len
      BY <3>1
    <3> QED
      BY <3>2 DEF left
  <2> QED
    BY <1>4, <1>5, <2>1, <2>2 DEF OnLine, joined
<1>7. Taken(l, m) = SubSeq(joined, p + 1, q)
  <2> HIDE DEF len
  <2>1. /\ IsSequence(SubSeq(joined, p + 1, q)) /\ Len(SubSeq(joined, p + 1, q)) = q - p
        /\ \A i \in 1 .. q - p : SubSeq(joined, p + 1, q)[i] = joined[p + i]
    BY <1>1, <1>3, <1>5, SegmentFacts
  <2>2. \A i \in 1 .. k : i \in 1 .. len
    BY <1>1, <1>2
  <2>3. \A i \in 1 .. k : Taken(l, m)[i] = SubSeq(joined, p + 1, q)[i]
    BY <1>1, <1>4, <1>5, <2>1, <2>2
  <2> QED
    BY <1>4, <1>5, <2>1, <2>3, SequencesEqual
<1> QED
  BY <1>5, <1>6, <1>7 DEF joined, Took

(* At the end of a line the next one is read, and nothing is skipped.      *)
LEMMA AdvancingStays ==
  ASSUME NEW text, IsSequence(text), NEW width \in Nat, NEW l, NEW r, NEW p,
         OnLine(text, width, l, r, p), l = <<>>, r # <<>>,
         NextLine(r, width).kind = "Line"
  PROVE  OnLine(text, width, NextLine(r, width).line, NextLine(r, width).rest, p)
<1>1. PICK k \in 0 .. Len(text) :
        LET now == Lines(text, width)[k]
        IN  now.kind = "Line" /\ now.rest = r /\ Len(now.joined) = p + Len(l)
  BY DEF OnLine
<1> DEFINE now == Lines(text, width)[k]
           next == Lines(text, width)[k + 1]
           all == LinesOf(text, width)
           n == NextLine(r, width)
<1>2. /\ next.kind = "Line" /\ next.rest = n.rest /\ next.joined = now.joined \o n.line
      /\ k + 1 \in 0 .. Len(text) /\ IsSequence(n.line)
  <2>1. Lines(text, width)[k].kind = "Line" /\ now.rest = r
    BY <1>1
  <2> DEFINE m == NextLine(now.rest, width)
  <2>2. /\ next.kind = m.kind /\ next.rest = m.rest /\ next.joined = now.joined \o m.line
        /\ (m.kind = "Line" => k + 1 \in 0 .. Len(text))
        /\ IsSequence(m.line)
    <3>1. StillToGive(text, width, k)
      BY <2>1, AtALine
    <3> QED
      BY <3>1 DEF StillToGive
  <2>3. m = n
    BY <2>1
  <2> HIDE DEF m, n, now, next
  <2> QED
    BY <2>2, <2>3 DEF n
<1>3. k \in 0 .. Len(text) + 1 /\ k + 1 \in 0 .. Len(text) + 1
  BY SequenceShape
<1>4. Grows(next, all) /\ LineShape(now, k, text, width)
  BY <1>3, LinesGrow, LinesShape
<1>5. IsSequence(now.joined)
  BY <1>4 DEF LineShape
<1>6. p \in Nat /\ Len(now.joined) = p
  BY <1>1, EmptyIsSequence DEF OnLine
<1> HIDE DEF now, next, all, n
<1>7. Len(n.line) \in Nat
  BY <1>2, SequenceShape
<1>8. Len(next.joined) = p + Len(n.line)
      /\ \A i \in 1 .. Len(n.line) : next.joined[p + i] = n.line[i]
  <2> DEFINE before == now.joined
             more == n.line
  <2>1. IsSequence(before) /\ IsSequence(more) /\ next.joined = before \o more /\ Len(before) = p
    BY <1>2, <1>5, <1>6
  <2> HIDE DEF before, more
  <2>2. Len(before \o more) = Len(before) + Len(more)
        /\ \A i \in 1 .. Len(more) : (before \o more)[Len(before) + i] = more[i]
    <3>1. IsSequence(before) /\ IsSequence(more)
      BY <2>1
    <3> QED
      BY <3>1, ConcatFacts
  <2> QED
    BY <2>1, <2>2 DEF more
<1>9. \A i \in 1 .. Len(n.line) : n.line[i] = all.joined[p + i]
  <2> SUFFICES ASSUME NEW i \in 1 .. Len(n.line) PROVE n.line[i] = all.joined[p + i]
    OBVIOUS
  <2>1. p + i \in 1 .. Len(next.joined)
    BY <1>6, <1>7, <1>8
  <2>2. all.joined[p + i] = next.joined[p + i]
    BY <1>4, <2>1 DEF Grows
  <2> QED
    BY <1>8, <2>2
<1> QED
  BY <1>2, <1>6, <1>8, <1>9 DEF OnLine, next, all, n

--------------------------------------------------------------------------------
(* What has been produced when the text has been read up to p.             *)
Decodable(padded, joined) ==
  /\ padded \in BOOLEAN /\ IsSequence(joined)
  /\ joined = <<>> \/ Measured(padded, joined)

Made(padded, joined, p, produced) ==
  /\ p \in Nat /\ p <= Len(joined) /\ IsSequence(produced)
  /\ \/ p < Len(joined) /\ p % 4 = 0 /\ Len(produced) = 3 * (p \div 4)
     \/ p = Len(joined) /\ Len(produced) = Len(DataOf(padded, joined))
  /\ Len(produced) <= Len(DataOf(padded, joined))
  /\ produced = SubSeq(DataOf(padded, joined), 1, Len(produced))
  /\ \A i \in 1 .. p : i <= BareLen(padded, joined) => joined[i] \in Sextets

LEMMA DataFacts ==
  ASSUME NEW padded, NEW joined, Decodable(padded, joined)
  PROVE  /\ IsSequence(DataOf(padded, joined)) /\ Len(DataOf(padded, joined)) \in Nat
         /\ Len(joined) \in Nat /\ BareLen(padded, joined) \in Nat
         /\ BareLen(padded, joined) <= Len(joined)
         /\ joined = <<>> => DataOf(padded, joined) = <<>>
         /\ joined # <<>> =>
              /\ TailStart(joined) \in Nat /\ TailStart(joined) < Len(joined)
              /\ Len(DataOf(padded, joined)) > 3 * (TailStart(joined) \div 4)
              /\ \A p \in Nat : p < Len(joined) /\ p % 4 = 0 => p <= TailStart(joined)
<1> DEFINE n == Len(joined)
           e == TailStart(joined)
           bare == BareLen(padded, joined)
           data == DataOf(padded, joined)
<1>1. /\ n \in Nat /\ bare \in Nat /\ bare <= n /\ IsSequence(data) /\ Len(data) = decoded_len(bare)
      /\ Len(data) \in Nat
  BY BitsFacts, SequenceShape DEF Decodable
<1>2. ASSUME joined = <<>> PROVE data = <<>>
  <2>1. n = 0
    BY <1>2, EmptyIsSequence
  <2> HIDE DEF n, bare, data
  <2>2. bare = 0
    BY <1>1, <2>1
  <2>3. Len(data) = 0
    BY <1>1, <2>2 DEF decoded_len
  <2> QED
    BY <1>1, <2>3, SequenceShape
<1>3. ASSUME joined # <<>>
      PROVE  /\ e \in Nat /\ e < n /\ Len(data) > 3 * (e \div 4)
             /\ \A p \in Nat : p < n /\ p % 4 = 0 => p <= e
  <2>1. e \in Nat /\ e % 4 = 0 /\ n - e \in 1 .. 4 /\ bare - e \in 2 .. 4
    BY <1>3, TailAccepted, TailFacts DEF Decodable
  <2> HIDE DEF n, e, bare, data
  <2>2. e < n /\ n <= e + 4 /\ bare >= e + 2
    BY <1>1, <2>1
  <2>3. \A p \in Nat : p < n /\ p % 4 = 0 => p <= e
    <3> SUFFICES ASSUME NEW p \in Nat, p < n, p % 4 = 0 PROVE p <= e
      OBVIOUS
    <3>1. p < e + 4
      BY <1>1, <2>1, <2>2
    <3> QED
      BY <2>1, <3>1
  <2>4. decoded_len(bare) > 3 * (e \div 4)
    BY <1>1, <2>1, <2>2 DEF decoded_len
  <2> QED
    BY <1>1, <2>1, <2>2, <2>3, <2>4
<1> HIDE DEF n, e, bare, data
<1> QED
  BY <1>1, <1>2, <1>3 DEF n, e, bare, data

LEMMA MadeAtFirst ==
  ASSUME NEW padded, NEW joined, Decodable(padded, joined)
  PROVE  Made(padded, joined, 0, <<>>)
<1> DEFINE data == DataOf(padded, joined)
           n == Len(joined)
           none == <<>>
<1>1. IsSequence(data) /\ Len(data) \in Nat /\ n \in Nat /\ (joined = <<>> => data = <<>>)
  BY DataFacts
<1>2. IsSequence(none) /\ Len(none) = 0
  BY EmptyIsSequence
<1>3. SubSeq(data, 1, 0) = none
  <2> DEFINE zero == 0
  <2>1. zero \in Nat /\ zero <= Len(data) /\ zero = 0
    BY <1>1
  <2> HIDE DEF zero, data
  <2>2. IsSequence(Start(data, zero)) /\ Len(Start(data, zero)) = zero
    BY <1>1, <2>1, StartFacts
  <2> QED
    BY <2>1, <2>2, SequenceShape DEF Start
<1>4. n = 0 => Len(data) = 0
  BY <1>1, <1>2, SequenceShape DEF Decodable
<1>5. (0 < n /\ 0 % 4 = 0 /\ 0 = 3 * (0 \div 4)) \/ n = 0
  BY <1>1
<1> HIDE DEF data, n, none
<1> QED
  BY <1>1, <1>2, <1>3, <1>4, <1>5 DEF Made, data, n, none

(* The next piece of the text, and whether it may be the last one.         *)
NextPiece(joined, p, q, last) ==
  /\ q \in Nat /\ p <= q /\ q <= Len(joined)
  /\ q % 4 = 0 \/ q = Len(joined)
  /\ last \in BOOLEAN /\ (last => q = Len(joined))

LEMMA PlacedPiece ==
  ASSUME NEW padded, NEW joined, Decodable(padded, joined), NEW p, NEW produced,
         Made(padded, joined, p, produced), NEW q, NEW last, NextPiece(joined, p, q, last), p < q
  PROVE  LET a == p \div 4
         IN  /\ APiece(padded, joined, a, q, last) /\ 4 * a = p /\ a \in Nat
             /\ Piece(joined, a, q) = SubSeq(joined, p + 1, q)
             /\ Len(produced) = 3 * a
<1> DEFINE a == p \div 4
           n == Len(joined)
<1>1. p \in Nat /\ q \in Nat /\ n \in Nat /\ p < n
  <2>1. n \in Nat
    BY DataFacts
  <2>2. p \in Nat /\ q \in Nat /\ q <= n
    BY DEF Made, NextPiece
  <2> HIDE DEF n
  <2> QED
    BY <2>1, <2>2
<1>2. p % 4 = 0 /\ Len(produced) = 3 * a
  <2>1. (p % 4 = 0 /\ Len(produced) = 3 * a) \/ p = n
    BY DEF Made
  <2> QED
    BY <1>1, <2>1
<1>3. a \in Nat /\ 4 * a = p
  BY <1>1, <1>2
<1>4. Measured(padded, joined)
  <2>1. joined # <<>>
    BY <1>1, EmptyIsSequence
  <2> QED
    BY <2>1 DEF Decodable
<1> HIDE DEF a, n
<1>5. APiece(padded, joined, a, q, last)
  BY <1>1, <1>3, <1>4 DEF APiece, NextPiece, Decodable
<1>6. Piece(joined, a, q) = SubSeq(joined, p + 1, q)
  BY <1>3 DEF Piece
<1> QED
  BY <1>2, <1>3, <1>5, <1>6 DEF a

LEMMA MadeMore ==
  ASSUME NEW padded, NEW joined, Decodable(padded, joined), NEW p, NEW produced,
         Made(padded, joined, p, produced), NEW q, NEW last, NextPiece(joined, p, q, last),
         NEW room \in Nat, NEW r, r = decode(padded /\ last, SubSeq(joined, p + 1, q), room),
         r.err = "None"
  PROVE  /\ IsSequence(r.out) /\ Len(r.out) \in Nat /\ Len(r.out) <= room
         /\ Made(padded, joined, q, produced \o r.out)
<1> DEFINE n == Len(joined)
           data == DataOf(padded, joined)
           s == SubSeq(joined, p + 1, q)
           now == produced \o r.out
<1>1. /\ n \in Nat /\ IsSequence(data) /\ Len(data) \in Nat /\ p \in Nat /\ q \in Nat
      /\ p <= q /\ q <= n /\ IsSequence(joined) /\ padded \in BOOLEAN /\ last \in BOOLEAN
      /\ IsSequence(produced) /\ Len(produced) \in Nat
  BY DataFacts, SequenceShape DEF Made, NextPiece, Decodable
<1>2. CASE p = q
  <2>1. s = <<>>
    <3> HIDE DEF n
    <3>1. IsSequence(SubSeq(joined, p + 1, q)) /\ Len(SubSeq(joined, p + 1, q)) = q - p
      BY <1>1, SegmentFacts DEF n
    <3>2. q - p = 0
      BY <1>1, <1>2
    <3> QED
      BY <3>1, <3>2, SequenceShape
  <2>2. r = Ok(<<>>)
    BY <1>1, <2>1, NothingIsAccepted
  <2>3. r.out = <<>>
    BY <2>2 DEF Ok
  <2>4. produced \o r.out = produced
    BY <1>1, <2>3, NothingAdded
  <2>5. Made(padded, joined, q, produced \o r.out)
    BY <1>2, <2>4
  <2>6. IsSequence(r.out) /\ Len(r.out) = 0
    BY <2>3, EmptyIsSequence
  <2> QED
    BY <2>5, <2>6
<1>3. CASE p < q
  <2> DEFINE a == p \div 4
  <2>1. /\ APiece(padded, joined, a, q, last) /\ 4 * a = p /\ a \in Nat
        /\ Piece(joined, a, q) = SubSeq(joined, p + 1, q)
        /\ Len(produced) = 3 * a
    BY <1>3, PlacedPiece
  <2> HIDE DEF a
  <2>2. r = decode(padded /\ last, Piece(joined, a, q), room)
    BY <2>1
  <2> DEFINE m == Len(r.out)
  <2>3. /\ m \in Nat /\ m <= room
        /\ r.out = SubSeq(data, 3 * a + 1, 3 * a + m)
        /\ 3 * a + m <= Len(data)
        /\ (q < n => 3 * a + m = 3 * (q \div 4))
        /\ (q = n => 3 * a + m = Len(data))
        /\ \A i \in 4 * a + 1 .. q : i <= BareLen(padded, joined) => joined[i] \in Sextets
    <3> DEFINE t == decode(padded /\ last, Piece(joined, a, q), room)
    <3>1. t.err = "None"
      BY <2>2
    <3>2. LET octets == t.out
          IN  /\ Len(octets) \in Nat /\ Len(octets) <= room
              /\ octets = SubSeq(data, 3 * a + 1, 3 * a + Len(octets))
              /\ 3 * a + Len(octets) <= Len(data)
              /\ q < Len(joined) => 3 * a + Len(octets) = 3 * (q \div 4)
              /\ q = Len(joined) => 3 * a + Len(octets) = Len(data)
              /\ \A i \in 4 * a + 1 .. q : i <= BareLen(padded, joined) => joined[i] \in Sextets
      BY <2>1, <3>1, PieceAccepted, ZenonT(60)
    <3>3. t = r
      BY <2>2
    <3> HIDE DEF t
    <3> QED
      BY <3>2, <3>3
  <2> HIDE DEF n, data, s, m
  <2> DEFINE x == 3 * a
             y == x + m
  <2>4. x \in Nat /\ y \in Nat /\ x <= y /\ y <= Len(data) /\ y - x = m
        /\ Len(produced) = x /\ produced = SubSeq(data, 1, x)
    BY <1>1, <2>1, <2>3 DEF Made, data
  <2> HIDE DEF x, y
  <2>5. /\ IsSequence(SubSeq(data, x + 1, y)) /\ Len(SubSeq(data, x + 1, y)) = y - x
        /\ \A i \in 1 .. y - x : SubSeq(data, x + 1, y)[i] = data[x + i]
    BY <1>1, <2>4, SegmentFacts, SMTT(40)
  <2>6. r.out = SubSeq(data, x + 1, y) /\ IsSequence(r.out) /\ Len(r.out) = m
    BY <2>3, <2>5 DEF x, y, m
  <2>7. /\ IsSequence(produced) /\ \A i \in 1 .. x : produced[i] = data[i]
    BY <1>1, <2>4, StartFacts DEF Start
  <2>8. /\ IsSequence(now) /\ Len(now) = x + m
        /\ \A i \in 1 .. x : now[i] = produced[i]
        /\ \A i \in 1 .. m : now[x + i] = r.out[i]
    <3> DEFINE more == r.out
    <3>1. IsSequence(produced) /\ IsSequence(more) /\ Len(produced) = x /\ Len(more) = m
      BY <2>4, <2>6, <2>7
    <3> HIDE DEF more
    <3>2. /\ IsSequence(produced \o more) /\ Len(produced \o more) = Len(produced) + Len(more)
          /\ \A i \in 1 .. Len(produced) : (produced \o more)[i] = produced[i]
          /\ \A i \in 1 .. Len(more) : (produced \o more)[Len(produced) + i] = more[i]
      BY <3>1, ConcatFacts
    <3> QED
      BY <3>1, <3>2 DEF more
  <2>9. Len(now) = y /\ y \in Nat
    BY <2>4, <2>8 DEF y
  <2>10. ASSUME NEW i \in 1 .. y PROVE now[i] = data[i]
    <3> HIDE DEF now
    <3>1. CASE i <= x
      <4>1. i \in 1 .. x
        BY <2>4, <3>1
      <4> QED
        BY <2>7, <2>8, <4>1
    <3>2. CASE i > x
      <4> DEFINE j == i - x
      <4>1. j \in 1 .. m /\ j \in 1 .. y - x /\ x + j = i
        BY <2>3, <2>4, <3>2
      <4> HIDE DEF j
      <4>2. now[x + j] = r.out[j] /\ r.out[j] = data[x + j]
        BY <2>5, <2>6, <2>8, <4>1
      <4> QED
        BY <4>1, <4>2
    <3> QED
      BY <2>4, <3>1, <3>2
  <2>11. now = SubSeq(data, 1, y)
    <3>1. IsSequence(Start(data, y)) /\ Len(Start(data, y)) = y
          /\ \A i \in 1 .. y : Start(data, y)[i] = data[i]
      BY <1>1, <2>4, StartFacts
    <3> HIDE DEF now
    <3>2. now = Start(data, y)
      BY <2>8, <2>9, <2>10, <3>1, SequencesEqual
    <3> QED
      BY <3>2 DEF Start
  <2>12. \A i \in 1 .. q : i <= BareLen(padded, joined) => joined[i] \in Sextets
    <3> SUFFICES ASSUME NEW i \in 1 .. q, i <= BareLen(padded, joined) PROVE joined[i] \in Sextets
      OBVIOUS
    <3>1. CASE i <= p
      <4>1. i \in 1 .. p
        BY <1>1, <3>1
      <4> QED
        BY <4>1 DEF Made
    <3>2. CASE i > p
      <4>1. i \in 4 * a + 1 .. q
        BY <1>1, <2>1, <3>2
      <4> QED
        BY <2>3, <4>1
    <3> QED
      BY <1>1, <3>1, <3>2
  <2>13. (q < n /\ q % 4 = 0 /\ y = 3 * (q \div 4)) \/ (q = n /\ y = Len(data))
    <3>1. q < n \/ q = n
      BY <1>1
    <3>2. q < n => q % 4 = 0
      BY <1>1 DEF NextPiece, n
    <3> QED
      BY <2>3, <3>1, <3>2 DEF x, y
  <2>14. Made(padded, joined, q, now)
    <3> HIDE DEF now
    <3> QED
      BY <1>1, <2>4, <2>8, <2>9, <2>11, <2>12, <2>13 DEF Made, n, data
  <2> QED
    BY <2>3, <2>6, <2>14
<1> QED
  BY <1>1, <1>2, <1>3

LEMMA MadeAccepts ==
  ASSUME NEW padded, NEW joined, Decodable(padded, joined), NEW p, NEW produced,
         Made(padded, joined, p, produced), NEW q, NEW last, NextPiece(joined, p, q, last),
         q = Len(joined) => last \/ ~padded,
         \A i \in 1 .. BareLen(padded, joined) : joined[i] \in Sextets,
         NEW room \in Nat, 3 * (q - p) <= 4 * room
  PROVE  decode(padded /\ last, SubSeq(joined, p + 1, q), room).err = "None"
<1> DEFINE n == Len(joined)
           bare == BareLen(padded, joined)
           s == SubSeq(joined, p + 1, q)
<1>1. /\ n \in Nat /\ p \in Nat /\ q \in Nat /\ p <= q /\ q <= n /\ IsSequence(joined)
      /\ padded \in BOOLEAN /\ last \in BOOLEAN /\ bare \in Nat
  BY DataFacts, SequenceShape DEF Made, NextPiece, Decodable
<1>2. CASE p = q
  <2>1. s = <<>>
    <3> HIDE DEF n, bare
    <3>1. IsSequence(SubSeq(joined, p + 1, q)) /\ Len(SubSeq(joined, p + 1, q)) = q - p
      BY <1>1, SegmentFacts DEF n
    <3>2. q - p = 0
      BY <1>1, <1>2
    <3> QED
      BY <3>1, <3>2, SequenceShape
  <2>2. decode(padded /\ last, s, room) = Ok(<<>>)
    BY <1>1, <2>1, NothingIsAccepted
  <2> QED
    BY <2>2 DEF Ok
<1>3. CASE p < q
  <2> DEFINE a == p \div 4
  <2>1. /\ APiece(padded, joined, a, q, last) /\ 4 * a = p /\ a \in Nat
        /\ Piece(joined, a, q) = s
    BY <1>3, PlacedPiece
  <2> HIDE DEF a, n, s
  <2>2. \A i \in 4 * a + 1 .. q : i <= bare => joined[i] \in Sextets
    <3> SUFFICES ASSUME NEW i \in 4 * a + 1 .. q, i <= bare PROVE joined[i] \in Sextets
      OBVIOUS
    <3>1. i \in 1 .. bare
      BY <1>1, <2>1
    <3> QED
      BY <3>1
  <2>3. 3 * (q - 4 * a) <= 4 * room
    BY <2>1
  <2>4. decode(padded /\ last, Piece(joined, a, q), room).err = "None"
    BY <2>1, <2>2, <2>3, PieceIsAccepted
  <2> QED
    BY <2>1, <2>4 DEF s
<1> QED
  BY <1>1, <1>2, <1>3

LEMMA MadeAll ==
  ASSUME NEW padded, NEW joined, Decodable(padded, joined), NEW p, NEW produced,
         Made(padded, joined, p, produced)
  PROVE  /\ Len(produced) = Len(DataOf(padded, joined)) => p = Len(joined)
         /\ p = Len(joined) => produced = DataOf(padded, joined)
         /\ p = Len(joined) => decode(padded, joined, Len(joined)) = Ok(produced)
<1> DEFINE n == Len(joined)
           data == DataOf(padded, joined)
           e == TailStart(joined)
<1>1. /\ n \in Nat /\ p \in Nat /\ p <= n /\ IsSequence(data) /\ Len(data) \in Nat
      /\ BareLen(padded, joined) \in Nat /\ BareLen(padded, joined) <= n
  BY DataFacts DEF Made
<1>2. ASSUME Len(produced) = Len(data) PROVE p = n
  <2> SUFFICES ASSUME p # n PROVE FALSE
    OBVIOUS
  <2>1. p < n /\ p % 4 = 0 /\ Len(produced) = 3 * (p \div 4)
    <3>1. p = n \/ (p < n /\ p % 4 = 0 /\ Len(produced) = 3 * (p \div 4))
      BY DEF Made
    <3> QED
      BY <3>1
  <2>2. joined # <<>>
    BY <1>1, <2>1, EmptyIsSequence
  <2>3. e \in Nat /\ Len(data) > 3 * (e \div 4) /\ p <= e
    BY <1>1, <2>1, <2>2, DataFacts
  <2> HIDE DEF n, data, e
  <2>4. 3 * (p \div 4) <= 3 * (e \div 4)
    BY <1>1, <2>3
  <2> QED
    BY <1>1, <1>2, <2>1, <2>3, <2>4
<1>3. ASSUME p = n PROVE produced = data
  <2>1. Len(produced) = Len(data) /\ produced = SubSeq(data, 1, Len(produced))
    <3>1. produced = SubSeq(data, 1, Len(produced))
      BY DEF Made
    <3>2. p < n \/ Len(produced) = Len(data)
      BY DEF Made
    <3>3. ~(p < n)
      <4> HIDE DEF n
      <4> QED
        BY <1>1, <1>3
    <3> QED
      BY <3>1, <3>2, <3>3
  <2> QED
    BY <1>1, <2>1, WholeSegment
<1>4. ASSUME p = n PROVE decode(padded, joined, n) = Ok(produced)
  <2>1. \A i \in 1 .. BareLen(padded, joined) : joined[i] \in Sextets
    <3> SUFFICES ASSUME NEW i \in 1 .. BareLen(padded, joined) PROVE joined[i] \in Sextets
      OBVIOUS
    <3>1. i \in 1 .. p /\ i <= BareLen(padded, joined)
      BY <1>1, <1>4
    <3> QED
      BY <3>1 DEF Made
  <2>2. decode(padded, joined, n) = Ok(data)
    BY <2>1, WholeText DEF Decodable
  <2> QED
    BY <1>3, <1>4, <2>2
<1> QED
  BY <1>2, <1>3, <1>4

--------------------------------------------------------------------------------
AllOf(in) == LinesOf(in.text, in.width)
JoinedOf(in) == AllOf(in).joined

(* What construction makes sure of, and what the text then means.          *)
Readable(in, sense) ==
  /\ in.padded \in BOOLEAN /\ in.width \in Nat /\ IsSequence(in.text)
  /\ in.width = 0 \/ in.width >= 4
  /\ AllOf(in).kind # "Error" /\ Decodable(in.padded, JoinedOf(in))
  /\ sense.data = DataOf(in.padded, JoinedOf(in))
  /\ sense.whole = decode(in.padded, JoinedOf(in), Len(JoinedOf(in)))
  /\ DecodedLen(in).len = Len(DataOf(in.padded, JoinedOf(in)))
  /\ sense.sound => /\ AllOf(in).last \notin {<<>>, <<<<>>>>}
                    /\ \A i \in 1 .. BareLen(in.padded, JoinedOf(in)) : JoinedOf(in)[i] \in Sextets

LEMMA InputFacts ==
  ASSUME NEW in \in Inputs, Constructs(in)
  PROVE  Readable(in, Meaning(in))
<1> DEFINE all == AllOf(in)
           joined == JoinedOf(in)
           data == DataOf(in.padded, joined)
           sense == Meaning(in)
           text == in.text
           width == in.width
<1>1. /\ in.padded \in BOOLEAN /\ width \in Nat /\ IsSequence(text)
      /\ width = 0 \/ width >= 4
  BY InputsAssumption, OfItsElements DEF Constructs, MIN_LINE_WIDTH
<1>2. IsSequence(joined) /\ (all.last = <<>> => joined = <<>>)
  <2> DEFINE k == Len(text) + 1
  <2>1. Len(text) + 1 \in 0 .. Len(text) + 1
    BY <1>1, SequenceShape
  <2>2. LineShape(all, k, text, width)
    BY <1>1, <2>1, LinesShape DEF LinesOf, AllOf
  <2> QED
    BY <2>2 DEF LineShape, JoinedOf
<1>3. DecodedLen(in) = LenOfLines(in.padded, all) /\ LenOfLines(in.padded, all).err = "None"
  BY DEF Constructs, DecodedLen, AllOf
<1>4. all.kind # "Error"
  <2> HIDE DEF all
  <2> QED
    BY <1>3 DEF LenOfLines
<1>5. /\ Decodable(in.padded, joined)
      /\ DecodedLen(in).len = Len(data)
  <2>1. CASE all.last = <<>>
    <3> HIDE DEF all, data, joined
    <3>1. DecodedLen(in).len = 0
      BY <1>3, <1>4, <2>1 DEF LenOfLines
    <3>2. joined = <<>>
      BY <1>2, <2>1
    <3>3. Decodable(in.padded, joined)
      BY <1>1, <1>2, <3>2 DEF Decodable
    <3>4. DataOf(in.padded, joined) = <<>>
      BY <3>2, <3>3, DataFacts
    <3> QED
      BY <3>1, <3>3, <3>4, EmptyIsSequence DEF data
  <2>2. CASE all.last # <<>>
    <3>1. LenOfLines(in.padded, all) = LenOfText(in.padded, joined)
      <4> HIDE DEF all
      <4> QED
        BY <1>4, <2>2 DEF LenOfLines, JoinedOf, all
    <3> HIDE DEF all, data, joined
    <3>2. Measured(in.padded, joined)
      BY <1>3, <3>1 DEF Measured
    <3>3. LenOfText(in.padded, joined).len = Len(DataOf(in.padded, joined))
      BY <1>1, <1>2, <3>2, TailFacts
    <3> QED
      BY <1>1, <1>2, <1>3, <3>1, <3>2, <3>3 DEF Decodable, data
  <2> QED
    BY <2>1, <2>2
<1> DEFINE whole == decode(in.padded, joined, Len(joined))
<1>6. /\ sense.data = data /\ sense.whole = whole
      /\ sense.sound => whole.err = "None" /\ all.last \notin {<<>>, <<<<>>>>}
  <2>1. sense = Means(in.padded, all)
    BY DEF Meaning, AllOf
  <2> DEFINE good == whole.err = "None" /\ all.last \notin {<<>>, <<<<>>>>}
  <2>2. Means(in.padded, all) = [data |-> data, whole |-> whole, sound |-> good]
    BY DEF Means, DataOf, JoinedOf
  <2> HIDE DEF sense, whole, data, all, good
  <2>3. sense.data = data /\ sense.whole = whole /\ sense.sound = good
    BY <2>1, <2>2
  <2> QED
    BY <2>3 DEF good
<1>7. whole.err = "None" => \A i \in 1 .. BareLen(in.padded, joined) : joined[i] \in Sextets
  BY <1>1, <1>2, <1>5, WholeText DEF Decodable
<1> HIDE DEF sense
<1> QED
  BY <1>1, <1>4, <1>5, <1>6, <1>7 DEF Readable, sense

(* What decoding the next characters gives, and when it is refused.        *)
Decoded(in, l, r, q, produced, piece, room) ==
  /\ piece.err = "None" =>
       /\ IsSequence(piece.out) /\ Len(piece.out) \in Nat /\ Len(piece.out) <= room
       /\ Made(in.padded, JoinedOf(in), q, produced \o piece.out)
  /\ l = <<>> /\ r = <<>> => q = Len(JoinedOf(in))

LEMMA DecodesOn ==
  ASSUME NEW in, NEW sense, Readable(in, sense), NEW p, NEW produced,
         Made(in.padded, JoinedOf(in), p, produced), NEW q, NEW l, NEW r,
         OnLine(in.text, in.width, l, r, q), p <= q, q \in Nat,
         q % 4 = 0 \/ q = Len(JoinedOf(in)), NEW room \in Nat,
         NEW piece, piece = decode(in.padded /\ (l = <<>> /\ r = <<>>),
                                   SubSeq(JoinedOf(in), p + 1, q), room)
  PROVE  /\ Decoded(in, l, r, q, produced, piece, room)
         /\ sense.sound /\ 3 * (q - p) <= 4 * room => piece.err = "None"
<1> DEFINE joined == JoinedOf(in)
           n == Len(joined)
           last == l = <<>> /\ r = <<>>
<1>1. Decodable(in.padded, joined) /\ IsSequence(in.text) /\ in.width \in Nat
  BY DEF Readable
<1>2. /\ Len(l) \in Nat /\ q + Len(l) <= n /\ n \in Nat
      /\ r = <<>> => q + Len(l) = n
      /\ sense.sound /\ r # <<>> => q + Len(l) < n
  <2>1. /\ q \in Nat /\ Len(l) \in Nat /\ q + Len(l) <= n
        /\ r = <<>> => q + Len(l) = n
        /\ r # <<>> /\ AllOf(in).kind # "Error" /\ AllOf(in).last \notin {<<>>, <<<<>>>>} =>
             q + Len(l) < n
    BY <1>1, OnLineFacts DEF AllOf, JoinedOf
  <2>2. n \in Nat
    BY <1>1, DataFacts
  <2> HIDE DEF n
  <2> QED
    BY <2>1, <2>2 DEF Readable
<1>3. IsSequence(l)
  BY DEF OnLine
<1> HIDE DEF joined
<1>4. last => q = n
  <2> SUFFICES ASSUME last PROVE q = n
    OBVIOUS
  <2>1. Len(l) = 0
    BY EmptyIsSequence
  <2> HIDE DEF n
  <2> QED
    BY <1>2, <2>1
<1>5. sense.sound /\ q = n => last
  <2> SUFFICES ASSUME sense.sound, q = n PROVE last
    OBVIOUS
  <2>1. r = <<>>
    <3> HIDE DEF n
    <3> QED
      BY <1>2
  <2>2. Len(l) = 0
    <3> HIDE DEF n
    <3> QED
      BY <1>2, <2>1
  <2> QED
    BY <1>3, <2>1, <2>2, SequenceShape
<1>6. q <= n
  <2> HIDE DEF n
  <2> QED
    BY <1>2
<1> HIDE DEF last
<1>7. last \in BOOLEAN
  BY DEF last
<1>8. NextPiece(joined, p, q, last)
  BY <1>4, <1>6, <1>7 DEF NextPiece, joined
<1>9. piece = decode(in.padded /\ last, SubSeq(joined, p + 1, q), room)
  BY DEF last, joined
<1>10. Made(in.padded, joined, p, produced)
  BY DEF joined
<1>11. piece.err = "None" =>
         /\ IsSequence(piece.out) /\ Len(piece.out) \in Nat /\ Len(piece.out) <= room
         /\ Made(in.padded, joined, q, produced \o piece.out)
  BY <1>1, <1>8, <1>9, <1>10, MadeMore
<1>12. sense.sound /\ 3 * (q - p) <= 4 * room => piece.err = "None"
  <2> SUFFICES ASSUME sense.sound, 3 * (q - p) <= 4 * room PROVE piece.err = "None"
    OBVIOUS
  <2>1. q = Len(joined) => last \/ ~in.padded
    BY <1>5
  <2>2. \A i \in 1 .. BareLen(in.padded, joined) : joined[i] \in Sextets
    BY DEF Readable, joined
  <2>3. decode(in.padded /\ last, SubSeq(joined, p + 1, q), room).err = "None"
    BY <1>1, <1>8, <1>10, <2>1, <2>2, MadeAccepts
  <2> QED
    BY <1>9, <2>3
<1> QED
  BY <1>4, <1>11, <1>12 DEF Decoded, last, joined

--------------------------------------------------------------------------------
(* The inductive invariant: until a call failed, what has been produced is *)
(* what the text up to the place of the reader stands for.                 *)
Typed ==
  /\ input \in Inputs /\ Constructs(input) /\ meant = Meaning(input)
  /\ remaining_len \in Nat /\ request \in Nat
  /\ pc \in {"idle", "enter", "loop", "advance", "stride", "fill"}
  /\ erred \in BOOLEAN

Produced == IF pc = "idle" THEN delivered \o block ELSE (delivered \o out) \o block

Counts ==
  /\ IsSequence(block) /\ IsSequence(out) /\ IsSequence(delivered)
  /\ remaining_len = Len(meant.data) - Len(delivered)
  /\ pc # "idle" => Len(out) <= request
  /\ pc = "enter" => out = <<>>
  /\ pc \in {"advance", "stride", "fill"} /\ Len(out) < request => block = <<>>
  /\ pc = "fill" => Len(out) < request /\ ~is_finished

AtPlace(p) ==
  /\ OnLine(input.text, input.width, line, rest, p)
  /\ Made(input.padded, JoinedOf(input), p, Produced)

Placed == \E p : AtPlace(p)

IInv == Typed /\ (~erred => Counts /\ Placed)

LEMMA TypedFacts ==
  ASSUME Typed
  PROVE  Readable(input, meant)
  BY InputFacts DEF Typed

LEMMA InitIInv == Init => IInv
<1> SUFFICES ASSUME Init PROVE IInv
  OBVIOUS
<1> DEFINE text == input.text
           width == input.width
<1>1. input \in Inputs /\ Constructs(input) /\ meant = Meaning(input)
  BY DEF Init
<1>2. Readable(input, meant)
  BY <1>1, InputFacts
<1>3. Decodable(input.padded, JoinedOf(input)) /\ IsSequence(text) /\ width \in Nat
      /\ meant.data = DataOf(input.padded, JoinedOf(input))
      /\ DecodedLen(input).len = Len(meant.data)
  BY <1>2 DEF Readable
<1>4. Len(meant.data) \in Nat
  BY <1>3, DataFacts
<1>5. remaining_len \in Nat /\ remaining_len = Len(meant.data) - Len(delivered)
  BY <1>3, <1>4, EmptyIsSequence DEF Init
<1>6. Typed
  BY <1>1, <1>5 DEF Typed, Init
<1>7. Counts
  BY <1>5, EmptyIsSequence DEF Counts, Init
<1> DEFINE none == 0
<1>8. OnLine(text, width, line, rest, none)
  <2>1. Len(text) \in Nat
    BY <1>3, SequenceShape
  <2>2. Lines(text, width)[0] = FirstState(text) /\ 0 \in 0 .. Len(text)
    BY <2>1, LinesRecursion
  <2>3. line = <<>> /\ rest = text
    BY DEF Init
  <2>4. LET now == Lines(text, width)[0]
        IN  now.kind = "Line" /\ now.rest = rest /\ Len(now.joined) = 0 + Len(line)
    BY <2>2, <2>3, EmptyIsSequence DEF FirstState
  <2> QED
    BY <2>2, <2>3, <2>4, EmptyIsSequence DEF OnLine
<1>9. Made(input.padded, JoinedOf(input), none, Produced)
  <2>1. Produced = <<>>
    BY EmptyIsSequence, NothingAdded DEF Produced, Init
  <2> QED
    BY <1>3, <2>1, MadeAtFirst
<1>10. Placed
  <2> HIDE DEF none
  <2> QED
    BY <1>8, <1>9 DEF Placed, AtPlace
<1> QED
  BY <1>6, <1>7, <1>10 DEF IInv

LEMMA NextTyped == Typed /\ [Next]_vars => Typed'
<1> SUFFICES ASSUME Typed, [Next]_vars PROVE Typed'
  OBVIOUS
<1>1. ASSUME NEW n \in 0 .. MaxRequest, Decode(n) PROVE Typed'
  BY <1>1, InputsAssumption DEF Typed, Decode
<1>2. ASSUME NEW n \in 0 .. MaxRequest, Read(n) PROVE Typed'
  <2>1. n \in Nat
    BY InputsAssumption
  <2>2. MinOf(n, remaining_len) \in Nat
    BY <2>1, MinFacts DEF Typed
  <2> QED
    BY <1>2, <2>2 DEF Typed, Read
<1>3. CASE Enter
  BY <1>3 DEF Typed, Enter, Fail
<1>4. CASE TakeBuffered
  BY <1>4 DEF Typed, TakeBuffered
<1>5. CASE AdvanceLine
  BY <1>5 DEF Typed, AdvanceLine, Fail
<1>6. CASE DecodeStride
  BY <1>6 DEF Typed, DecodeStride, Fail
<1>7. CASE FillBlock
  BY <1>7 DEF Typed, FillBlock, Fail
<1>8. CASE Return
  <2>1. CASE request > remaining_len
    BY <1>8, <2>1 DEF Typed, Return, Fail
  <2>2. CASE ~(request > remaining_len)
    <3>1. remaining_len' \in Nat
      BY <1>8, <2>2 DEF Typed, Return
    <3> QED
      BY <1>8, <2>2, <3>1 DEF Typed, Return
  <2> QED
    BY <2>1, <2>2
<1>9. CASE UNCHANGED vars
  BY <1>9 DEF Typed, vars
<1> QED
  BY <1>1, <1>2, <1>3, <1>4, <1>5, <1>6, <1>7, <1>8, <1>9 DEF Next, Step

(* What a step keeps, and when it may refuse.                              *)
Refusable == meant.sound => request > Len(meant.data) - Len(delivered)

StepsOn == (erred' => Refusable) /\ (~erred' => Counts' /\ Placed')

Serves == Typed /\ Counts /\ Placed /\ ~erred

LEMMA ServesFacts ==
  ASSUME Serves
  PROVE  /\ Readable(input, meant)
         /\ IsSequence(block) /\ IsSequence(out) /\ IsSequence(delivered)
         /\ Len(block) \in Nat /\ Len(out) \in Nat /\ Len(delivered) \in Nat
         /\ request \in Nat /\ remaining_len \in Nat /\ Len(meant.data) \in Nat
         /\ remaining_len = Len(meant.data) - Len(delivered)
         /\ pc # "idle" => Len(out) <= request /\ out_rem \in Nat
                           /\ Produced = (delivered \o out) \o block
<1>1. Readable(input, meant)
  BY TypedFacts DEF Serves
<1>2. IsSequence(block) /\ IsSequence(out) /\ IsSequence(delivered) /\ request \in Nat
      /\ remaining_len \in Nat /\ (pc # "idle" => Len(out) <= request)
      /\ remaining_len = Len(meant.data) - Len(delivered)
  BY DEF Serves, Typed, Counts
<1>3. Len(block) \in Nat /\ Len(out) \in Nat /\ Len(delivered) \in Nat
  BY <1>2, SequenceShape
<1>4. pc # "idle" => out_rem \in Nat
  BY <1>2, <1>3 DEF out_rem
<1>5. Len(meant.data) \in Nat
  BY <1>1, DataFacts DEF Readable
<1>6. pc # "idle" => Produced = (delivered \o out) \o block
  BY DEF Produced
<1> QED
  BY <1>1, <1>2, <1>3, <1>4, <1>5, <1>6

LEMMA TakenAfter ==
  ASSUME NEW s, IsSequence(s), NEW n \in Nat
  PROVE  Taken(s, n) \o After(s, n) = s
<1> DEFINE p == 0
           len == Len(s)
           q == MinOf(n, len)
<1>1. p \in Nat /\ len \in Nat /\ q \in Nat /\ p <= q /\ q <= len /\ p + 1 = 1
  BY SequenceShape, MinFacts
<1>2. Taken(s, n) = SubSeq(s, 1, q) /\ After(s, n) = SubSeq(s, q + 1, len)
      /\ SubSeq(s, 1, len) = s
  BY WholeSegment DEF Taken, After
<1>3. len <= Len(s)
  BY <1>1
<1> HIDE DEF p, q, len
<1>4. SubSeq(s, p + 1, q) \o SubSeq(s, q + 1, len) = SubSeq(s, p + 1, len)
  BY <1>1, <1>3, SegmentsJoin
<1> QED
  BY <1>1, <1>2, <1>4

LEMMA TakeBufferedSteps ==
  ASSUME Serves, TakeBuffered
  PROVE  StepsOn
<1> DEFINE k == out_rem
           front == Taken(block, k)
           back == After(block, k)
<1>1. /\ pc = "loop" /\ Len(out) < request /\ out' = out \o front /\ block' = back
      /\ pc' = "advance"
      /\ UNCHANGED <<input, meant, line, rest, remaining_len, request, delivered, erred>>
  BY DEF TakeBuffered
<1>2. /\ IsSequence(block) /\ IsSequence(out) /\ IsSequence(delivered)
      /\ Len(block) \in Nat /\ Len(out) \in Nat /\ k \in Nat /\ k = request - Len(out)
      /\ request \in Nat /\ Produced = (delivered \o out) \o block
  BY <1>1, ServesFacts DEF out_rem
<1> HIDE DEF k
<1>3. /\ IsSequence(front) /\ Len(front) = MinOf(k, Len(block)) /\ IsSequence(back)
      /\ Len(back) = Len(block) - MinOf(k, Len(block)) /\ front \o back = block
  BY <1>2, TakenFacts, TakenAfter
<1> HIDE DEF front, back
<1>4. IsSequence(out \o front) /\ Len(out \o front) = Len(out) + Len(front)
  <2>1. IsSequence(out) /\ IsSequence(front)
    BY <1>2, <1>3
  <2> QED
    BY <2>1, ConcatFacts
<1>5. MinOf(k, Len(block)) \in Nat /\ MinOf(k, Len(block)) <= k
      /\ (MinOf(k, Len(block)) = k \/ MinOf(k, Len(block)) = Len(block))
  BY <1>2, MinFacts
<1>6. /\ Len(out') <= request
      /\ Len(out') < request => block' = <<>>
  <2> DEFINE x == Len(out)
             y == Len(block)
             m == MinOf(k, y)
  <2>1. Len(out') = x + m /\ Len(block') = y - m
    BY <1>1, <1>3, <1>4
  <2>2. x \in Nat /\ y \in Nat /\ m \in Nat /\ k = request - x /\ m <= k /\ (m = k \/ m = y)
        /\ request \in Nat
    BY <1>2, <1>5
  <2> HIDE DEF x, y, m
  <2>3. Len(out') <= request /\ (Len(out') < request => Len(block') = 0)
    BY <2>1, <2>2
  <2>4. IsSequence(block')
    BY <1>1, <1>3
  <2> QED
    BY <2>3, <2>4, SequenceShape
<1>7. Produced' = Produced
  <2>1. IsSequence(delivered \o out)
    BY <1>2, ConcatFacts
  <2>2. delivered \o (out \o front) = (delivered \o out) \o front
    <3>1. IsSequence(delivered) /\ IsSequence(out) /\ IsSequence(front)
      BY <1>2, <1>3
    <3> QED
      BY <3>1, ConcatAssociates, SMTT(30)
  <2> DEFINE before == delivered \o out
  <2>3. IsSequence(before) /\ IsSequence(front) /\ IsSequence(back)
    BY <1>3, <2>1
  <2> HIDE DEF before
  <2>4. (before \o front) \o back = before \o (front \o back)
    BY <2>3, ConcatAssociates, SMTT(30)
  <2>5. Produced' = (delivered' \o out') \o block'
    BY <1>1 DEF Produced
  <2>6. delivered' = delivered
    BY <1>1
  <2> QED
    BY <1>1, <1>2, <1>3, <2>2, <2>4, <2>5, <2>6 DEF before
<1>8. Counts'
  <2>1. remaining_len = Len(meant.data) - Len(delivered)
    BY ServesFacts
  <2> QED
    BY <1>1, <1>2, <1>3, <1>4, <1>6, <2>1 DEF Counts
<1>9. Placed'
  BY <1>1, <1>7 DEF Serves, Placed, AtPlace
<1> QED
  BY <1>1, <1>8, <1>9 DEF StepsOn, Serves

LEMMA CallSteps ==
  ASSUME Serves, NEW n \in 0 .. MaxRequest, Decode(n) \/ Read(n)
  PROVE  StepsOn
<1>1. /\ pc = "idle" /\ out' = <<>> /\ pc' = "enter"
      /\ UNCHANGED <<input, meant, line, rest, remaining_len, block, delivered, erred>>
  BY DEF Decode, Read
<1>2. request' \in Nat
  <2>1. n \in Nat
    BY InputsAssumption
  <2>2. MinOf(n, remaining_len) \in Nat
    BY <2>1, ServesFacts, MinFacts
  <2> QED
    BY <2>1, <2>2 DEF Decode, Read
<1>3. IsSequence(out') /\ Len(out') <= request'
  BY <1>1, <1>2, EmptyIsSequence
<1>4. Counts'
  BY <1>1, <1>3 DEF Serves, Counts
<1>5. Produced' = Produced
  <2>1. delivered \o <<>> = delivered
    BY ServesFacts, NothingAdded
  <2>2. Produced' = (delivered' \o out') \o block'
    BY <1>1 DEF Produced
  <2>3. Produced = delivered \o block
    BY <1>1 DEF Produced
  <2> QED
    BY <1>1, <2>1, <2>2, <2>3
<1>6. Placed'
  BY <1>1, <1>5 DEF Serves, Placed, AtPlace
<1> QED
  BY <1>1, <1>4, <1>6 DEF StepsOn, Serves

(* A text that is read to its end is the whole data.                       *)
LEMMA FinishedText ==
  ASSUME Serves, NEW p, NEW l, NEW r, NEW produced, l = <<>>, r = <<>>,
         OnLine(input.text, input.width, l, r, p),
         Made(input.padded, JoinedOf(input), p, produced)
  PROVE  /\ p = Len(JoinedOf(input)) /\ produced = meant.data
         /\ Len(produced) = Len(meant.data)
<1>1. Readable(input, meant)
  BY ServesFacts
<1>2. /\ Decodable(input.padded, JoinedOf(input)) /\ IsSequence(input.text)
      /\ input.width \in Nat /\ meant.data = DataOf(input.padded, JoinedOf(input))
  BY <1>1 DEF Readable
<1>3. p \in Nat /\ p + Len(l) = Len(JoinedOf(input)) /\ Len(l) = 0
  BY <1>2, OnLineFacts, EmptyIsSequence DEF JoinedOf, AllOf
<1>4. p = Len(JoinedOf(input))
  <2> DEFINE x == Len(JoinedOf(input))
             y == Len(l)
  <2> HIDE DEF x, y
  <2> QED
    BY <1>3 DEF x, y
<1> QED
  BY <1>2, <1>4, MadeAll

LEMMA EnterSteps ==
  ASSUME Serves, Enter
  PROVE  StepsOn
<1>1. /\ pc = "enter"
      /\ UNCHANGED <<input, meant, line, rest, remaining_len, block, out, request, delivered>>
  BY DEF Enter, Fail
<1>2. CASE is_finished /\ request > 0
  <2>1. erred' /\ line = <<>> /\ rest = <<>> /\ block = <<>>
    BY <1>2 DEF Enter, Fail, is_finished, finished
  <2>2. out = <<>>
    BY <1>1 DEF Serves, Counts
  <2>3. Produced = delivered
    <3>1. IsSequence(delivered) /\ Produced = (delivered \o out) \o block
      BY <1>1, ServesFacts
    <3>2. delivered \o <<>> = delivered
      BY <3>1, NothingAdded
    <3> QED
      BY <2>1, <2>2, <3>1, <3>2
  <2>4. PICK p : AtPlace(p)
    BY DEF Serves, Placed
  <2>5. /\ OnLine(input.text, input.width, line, rest, p)
        /\ Made(input.padded, JoinedOf(input), p, Produced)
    BY <2>4 DEF AtPlace
  <2>6. Len(Produced) = Len(meant.data)
    BY <2>1, <2>5, FinishedText
  <2>7. request > Len(meant.data) - Len(delivered)
    <3>1. Len(meant.data) \in Nat /\ Len(delivered) = Len(meant.data)
      BY <2>3, <2>6, ServesFacts
    <3> QED
      BY <1>2, <3>1
  <2> QED
    BY <2>1, <2>7 DEF StepsOn, Refusable
<1>3. CASE ~(is_finished /\ request > 0)
  <2>1. pc' = "loop" /\ ~erred'
    BY <1>3 DEF Enter, Serves
  <2>2. Counts'
    BY <1>1, <2>1 DEF Serves, Counts
  <2>3. Produced' = Produced
    BY <1>1, <2>1 DEF Produced
  <2>4. Placed'
    BY <1>1, <2>3 DEF Serves, Placed, AtPlace
  <2> QED
    BY <2>1, <2>2, <2>4 DEF StepsOn
<1> QED
  BY <1>2, <1>3

LEMMA ReturnSteps ==
  ASSUME Serves, Return
  PROVE  StepsOn
<1>1. /\ pc = "loop" /\ Len(out) >= request /\ pc' = "idle"
      /\ UNCHANGED <<input, meant, line, rest, block, out, request>>
  BY DEF Return, Fail
<1>2. CASE request > remaining_len
  <2>1. erred'
    BY <1>2 DEF Return, Fail
  <2>2. request > Len(meant.data) - Len(delivered)
    BY <1>2, ServesFacts
  <2> QED
    BY <2>1, <2>2 DEF StepsOn, Refusable
<1>3. CASE ~(request > remaining_len)
  <2>1. /\ remaining_len' = remaining_len - request /\ delivered' = delivered \o out
        /\ ~erred'
    BY <1>3 DEF Return, Serves
  <2>2. /\ IsSequence(block) /\ IsSequence(out) /\ IsSequence(delivered)
        /\ Len(out) \in Nat /\ Len(delivered) \in Nat /\ request \in Nat
        /\ Len(meant.data) \in Nat /\ remaining_len = Len(meant.data) - Len(delivered)
        /\ Len(out) <= request /\ Produced = (delivered \o out) \o block
    BY <1>1, ServesFacts
  <2>3. IsSequence(delivered') /\ Len(delivered') = Len(delivered) + Len(out)
    BY <2>1, <2>2, ConcatFacts
  <2>4. remaining_len' = Len(meant.data) - Len(delivered')
    <3> DEFINE x == Len(out)
               y == Len(delivered)
               z == Len(meant.data)
    <3>1. x \in Nat /\ y \in Nat /\ z \in Nat /\ request \in Nat /\ x <= request /\ x >= request
          /\ remaining_len = z - y /\ remaining_len' = remaining_len - request
          /\ Len(delivered') = y + x
      BY <1>1, <2>1, <2>2, <2>3
    <3> HIDE DEF x, y, z
    <3>2. remaining_len' = z - Len(delivered')
      BY <3>1
    <3> QED
      BY <3>2 DEF z
  <2>5. Counts'
    BY <1>1, <2>2, <2>3, <2>4 DEF Counts
  <2>6. Produced' = Produced
    BY <1>1, <2>1, <2>2 DEF Produced
  <2>7. Placed'
    BY <1>1, <2>6 DEF Serves, Placed, AtPlace
  <2> QED
    BY <2>1, <2>5, <2>7 DEF StepsOn
<1> QED
  BY <1>2, <1>3

LEMMA AdvanceLineSteps ==
  ASSUME Serves, AdvanceLine
  PROVE  StepsOn
<1> DEFINE n == NextLine(rest, input.width)
<1>1. /\ pc = "advance"
      /\ UNCHANGED <<input, meant, remaining_len, block, out, request, delivered>>
  BY DEF AdvanceLine, Fail
<1>2. /\ IsSequence(input.text) /\ input.width \in Nat
      /\ meant.sound => AllOf(input).kind # "Error" /\ AllOf(input).last \notin {<<>>, <<<<>>>>}
  BY ServesFacts DEF Readable
<1>3. PICK p : AtPlace(p)
  BY DEF Serves, Placed
<1>4. /\ OnLine(input.text, input.width, line, rest, p)
      /\ Made(input.padded, JoinedOf(input), p, Produced)
  BY <1>3 DEF AtPlace
<1>5. CASE line = <<>> /\ rest # <<>> /\ n.kind # "Line"
  <2>1. erred'
    BY <1>5 DEF AdvanceLine, Fail
  <2>2. rest # <<>> /\ AllOf(input).kind # "Error" /\ AllOf(input).last \notin {<<>>, <<<<>>>>}
          => n.kind = "Line"
    BY <1>2, <1>4, OnLineFacts DEF AllOf
  <2> QED
    BY <1>2, <1>5, <2>1, <2>2 DEF StepsOn, Refusable
<1>6. CASE ~(line = <<>> /\ rest # <<>> /\ n.kind # "Line")
  <2>1. /\ pc' = "stride" /\ ~erred'
        /\ \/ line = <<>> /\ rest # <<>> /\ n.kind = "Line" /\ line' = n.line /\ rest' = n.rest
           \/ line' = line /\ rest' = rest
    <3> HIDE DEF n
    <3> QED
      BY <1>6 DEF AdvanceLine, Serves, n
  <2>2. OnLine(input.text, input.width, line', rest', p)
    <3>1. CASE line' = line /\ rest' = rest
      BY <1>4, <3>1
    <3>2. CASE line = <<>> /\ rest # <<>> /\ n.kind = "Line" /\ line' = n.line /\ rest' = n.rest
      <4>1. OnLine(input.text, input.width, n.line, n.rest, p)
        BY <1>2, <1>4, <3>2, AdvancingStays
      <4> QED
        BY <3>2, <4>1
    <3> QED
      BY <2>1, <3>1, <3>2
  <2>3. Counts'
    BY <1>1, <2>1 DEF Serves, Counts
  <2>4. Produced' = Produced
    BY <1>1, <2>1 DEF Produced
  <2>5. AtPlace(p)'
    BY <1>1, <1>4, <2>2, <2>4 DEF AtPlace
  <2> QED
    BY <2>1, <2>3, <2>5 DEF StepsOn, Placed
<1> QED
  BY <1>5, <1>6

(* The whole blocks of the line, decoded in one go.                        *)
LEMMA StrideProduces ==
  ASSUME Serves, NEW p, AtPlace(p), pc = "stride",
         NEW blocks, blocks = MinOf(Len(line) \div 4, out_rem \div 3),
         NEW left, left = After(line, 4 * blocks),
         NEW r, r = perform_decode(Taken(line, 4 * blocks), 3 * blocks, finished(left, rest)),
         NEW now, now = IF blocks > 0 THEN out \o r.out ELSE out
  PROVE  /\ blocks > 0 /\ r.err # "None" => ~meant.sound
         /\ ~(blocks > 0 /\ r.err # "None") =>
              /\ IsSequence(now) /\ Len(now) \in Nat /\ Len(now) <= request
              /\ Len(now) < request => block = <<>>
              /\ \E q : /\ OnLine(input.text, input.width, left, rest, q)
                        /\ Made(input.padded, JoinedOf(input), q, (delivered \o now) \o block)
<1> DEFINE text == input.text
           width == input.width
           joined == JoinedOf(input)
           n == Len(joined)
           m == 4 * blocks
           q == p + m
           room == 3 * blocks
           len == Len(line)
<1>1. /\ Readable(input, meant) /\ IsSequence(text) /\ width \in Nat
      /\ Decodable(input.padded, joined)
      /\ OnLine(text, width, line, rest, p) /\ Made(input.padded, joined, p, Produced)
  <2>1. Readable(input, meant)
    BY ServesFacts
  <2> QED
    BY <2>1 DEF AtPlace, Readable
<1>2. /\ IsSequence(block) /\ IsSequence(out) /\ IsSequence(delivered)
      /\ Len(out) \in Nat /\ request \in Nat /\ Len(out) <= request
      /\ out_rem \in Nat /\ out_rem = request - Len(out)
      /\ Produced = (delivered \o out) \o block
      /\ (Len(out) < request => block = <<>>)
  <2>1. Len(out) < request => block = <<>>
    BY DEF Serves, Counts
  <2> QED
    BY <2>1, ServesFacts DEF out_rem
<1>3. /\ len \in Nat /\ p \in Nat /\ n \in Nat /\ p <= n /\ (p % 4 = 0 \/ p = n)
  <2>1. len \in Nat /\ n \in Nat
    BY <1>1, DataFacts, SequenceShape DEF OnLine
  <2>2. p \in Nat /\ p <= n /\ (p % 4 = 0 \/ p = n)
    BY <1>1 DEF Made
  <2> QED
    BY <2>1, <2>2
<1> HIDE DEF len, n
<1>4. /\ blocks \in Nat /\ m \in Nat /\ m <= len /\ room \in Nat /\ room <= out_rem
      /\ (blocks > 0 => Len(out) < request)
  <2> DEFINE a == len \div 4
             b == out_rem \div 3
  <2>1. a \in Nat /\ b \in Nat /\ 4 * a <= len /\ 3 * b <= out_rem
    BY <1>2, <1>3
  <2>2. blocks = MinOf(a, b)
    BY DEF len
  <2> HIDE DEF a, b
  <2>3. blocks \in Nat /\ blocks <= a /\ blocks <= b
    BY <2>1, <2>2, MinFacts
  <2>4. 4 * blocks <= 4 * a /\ 3 * blocks <= 3 * b
    BY <2>1, <2>3
  <2>5. 4 * blocks <= len /\ 3 * blocks <= out_rem
    <3>1. /\ len \in Int /\ out_rem \in Int /\ a \in Nat /\ b \in Nat /\ blocks \in Nat
          /\ 4 * blocks <= 4 * a /\ 4 * a <= len /\ 3 * blocks <= 3 * b /\ 3 * b <= out_rem
      BY <1>2, <1>3, <2>1, <2>3, <2>4
    <3> QED
      BY <3>1
  <2>6. blocks > 0 => Len(out) < request
    BY <1>2, <2>3, <2>5
  <2> QED
    BY <2>3, <2>5, <2>6
<1>5. MinOf(m, len) = m
  BY <1>3, <1>4, MinFacts
<1>6. /\ q \in Nat /\ p <= q /\ q <= n /\ OnLine(text, width, left, rest, q)
      /\ Taken(line, m) = SubSeq(joined, p + 1, q)
  <2>1. m \in Nat /\ q = p + MinOf(m, Len(line))
    BY <1>4, <1>5 DEF len
  <2> HIDE DEF m, q
  <2>2. Took(text, width, line, rest, p, m, q)
    BY <1>1, <2>1, TakingMoves
  <2>3. left = After(line, m)
    BY DEF m
  <2> QED
    BY <2>2, <2>3 DEF n, JoinedOf, AllOf, Took
<1>7. q % 4 = 0 \/ q = n
  <2>1. q = p + 4 * blocks
    OBVIOUS
  <2>2. CASE p = n
    <3> HIDE DEF q
    <3> QED
      BY <1>3, <1>6, <2>2
  <2>3. CASE p % 4 = 0
    <3> HIDE DEF q
    <3> QED
      <4>1. p \in Nat /\ blocks \in Nat /\ q = p + 4 * blocks /\ p % 4 = 0
        BY <1>3, <1>4, <2>1, <2>3
      <4>2. q % 4 = 0
        BY <4>1
      <4> QED
        BY <4>2
  <2> QED
    BY <1>3, <2>2, <2>3
<1> DEFINE before == delivered \o out
<1>8. CASE blocks > 0
  <2>1. block = <<>> /\ Produced = before /\ IsSequence(before)
    <3>1. block = <<>>
      BY <1>2, <1>4, <1>8
    <3>2. IsSequence(before)
      BY <1>2, ConcatFacts
    <3> HIDE DEF before
    <3>3. before \o <<>> = before
      BY <3>2, NothingAdded
    <3> QED
      BY <1>2, <3>1, <3>2, <3>3 DEF before
  <2>2. r = decode(input.padded /\ (left = <<>> /\ rest = <<>>), SubSeq(joined, p + 1, q), room)
    <3>1. finished(left, rest) = (left = <<>> /\ rest = <<>>)
      BY <2>1 DEF finished
    <3>2. r = decode(input.padded /\ finished(left, rest), Taken(line, m), room)
      BY DEF perform_decode
    <3> QED
      BY <1>6, <3>1, <3>2
  <2>3. /\ Decoded(input, left, rest, q, Produced, r, room)
        /\ meant.sound /\ 3 * (q - p) <= 4 * room => r.err = "None"
    <3>1. q \in Nat /\ p <= q /\ (q % 4 = 0 \/ q = Len(JoinedOf(input))) /\ room \in Nat
      BY <1>4, <1>6, <1>7 DEF n
    <3>2. /\ OnLine(input.text, input.width, left, rest, q)
          /\ Made(input.padded, JoinedOf(input), p, Produced)
          /\ r = decode(input.padded /\ (left = <<>> /\ rest = <<>>),
                        SubSeq(JoinedOf(input), p + 1, q), room)
      BY <1>1, <1>6, <2>2
    <3> HIDE DEF q, room
    <3> QED
      BY <1>1, <3>1, <3>2, DecodesOn, ZenonT(60)
  <2>4. 3 * (q - p) <= 4 * room
    <3>1. p \in Nat /\ blocks \in Nat
      BY <1>3, <1>4
    <3>2. q - p = 4 * blocks /\ room = 3 * blocks
      BY <3>1
    <3> HIDE DEF q, room
    <3> QED
      BY <3>1, <3>2
  <2>5. CASE r.err # "None"
    <3> HIDE DEF q, room
    <3>1. ~meant.sound
      BY <2>3, <2>4, <2>5
    <3> QED
      BY <1>8, <2>5, <3>1
  <2>6. CASE r.err = "None"
    <3>1. /\ IsSequence(r.out) /\ Len(r.out) \in Nat /\ Len(r.out) <= room
          /\ Made(input.padded, joined, q, Produced \o r.out)
      BY <2>3, <2>6 DEF Decoded
    <3>2. now = out \o r.out
      BY <1>8
    <3>3. IsSequence(now) /\ Len(now) = Len(out) + Len(r.out)
      <4> DEFINE more == r.out
      <4>1. IsSequence(more) /\ IsSequence(out)
        BY <1>2, <3>1
      <4> HIDE DEF more
      <4>2. IsSequence(out \o more) /\ Len(out \o more) = Len(out) + Len(more)
        BY <4>1, ConcatFacts
      <4> QED
        BY <3>2, <4>2 DEF more
    <3>4. Len(now) \in Nat /\ Len(now) <= request
      <4> DEFINE x == Len(out)
                 y == Len(r.out)
      <4>1. x \in Nat /\ y \in Nat /\ y <= room /\ room <= request - x /\ room \in Nat
            /\ request \in Nat /\ Len(now) = x + y
        BY <1>2, <1>4, <3>1, <3>3
      <4> HIDE DEF x, y, room
      <4> QED
        BY <4>1
    <3>5. (delivered \o now) \o block = Produced \o r.out
      <4> DEFINE more == r.out
      <4>1. IsSequence(delivered) /\ IsSequence(out) /\ IsSequence(more)
        BY <1>2, <3>1
      <4> HIDE DEF more
      <4>2. (delivered \o out) \o more = delivered \o (out \o more)
        BY <4>1, ConcatAssociates, SMTT(30)
      <4>3. IsSequence(delivered \o (out \o more))
        <5>1. IsSequence(out \o more)
          BY <4>1, ConcatFacts
        <5> QED
          BY <4>1, <5>1, ConcatFacts
      <4> DEFINE sum == delivered \o (out \o more)
      <4>4. sum \o <<>> = sum
        <5> HIDE DEF sum
        <5>1. IsSequence(sum)
          BY <4>3 DEF sum
        <5> QED
          BY <5>1, NothingAdded
      <4>5. delivered \o now = sum
        BY <3>2 DEF more
      <4> QED
        BY <2>1, <4>2, <4>4, <4>5 DEF more
    <3> HIDE DEF q, n, room, before, joined
    <3> QED
      BY <1>6, <2>1, <2>6, <3>1, <3>3, <3>4, <3>5 DEF joined
  <2> QED
    BY <2>5, <2>6
<1>9. CASE ~(blocks > 0)
  <2>1. blocks = 0 /\ now = out /\ q = p
    BY <1>3, <1>4, <1>9
  <2>2. OnLine(text, width, left, rest, p) /\ Made(input.padded, joined, p, (delivered \o now) \o block)
    <3> HIDE DEF q
    <3> QED
      BY <1>1, <1>2, <1>6, <2>1
  <2> HIDE DEF q, n, room, before
  <2> QED
    BY <1>2, <1>9, <2>1, <2>2
<1> QED
  BY <1>8, <1>9

LEMMA DecodeStrideSteps ==
  ASSUME Serves, DecodeStride
  PROVE  StepsOn
<1> DEFINE blocks == MinOf(Len(line) \div 4, out_rem \div 3)
           left == After(line, 4 * blocks)
           r == perform_decode(Taken(line, 4 * blocks), 3 * blocks, finished(left, rest))
           now == IF blocks > 0 THEN out \o r.out ELSE out
           text == input.text
           width == input.width
           joined == JoinedOf(input)
<1>1. /\ pc = "stride" /\ line' = left
      /\ UNCHANGED <<input, meant, remaining_len, request, delivered, rest, block>>
      /\ \/ blocks > 0 /\ r.err # "None" /\ erred'
         \/ /\ ~(blocks > 0 /\ r.err # "None") /\ out' = now
            /\ \/ Len(now) < request /\ finished(left, rest) /\ erred'
               \/ /\ ~(Len(now) < request /\ finished(left, rest)) /\ erred' = erred
                  /\ pc' = IF Len(now) < request THEN "fill" ELSE "loop"
  BY DEF DecodeStride, Fail
<1>2. PICK p : AtPlace(p)
  BY DEF Serves, Placed
<1>3. /\ blocks > 0 /\ r.err # "None" => ~meant.sound
      /\ ~(blocks > 0 /\ r.err # "None") =>
           /\ IsSequence(now) /\ Len(now) \in Nat /\ Len(now) <= request
           /\ Len(now) < request => block = <<>>
           /\ \E q : /\ OnLine(text, width, left, rest, q)
                     /\ Made(input.padded, joined, q, (delivered \o now) \o block)
  BY <1>1, <1>2, StrideProduces
<1> HIDE DEF blocks, left, r, now
<1>4. CASE blocks > 0 /\ r.err # "None"
  BY <1>1, <1>3, <1>4 DEF StepsOn, Refusable
<1>5. CASE ~(blocks > 0 /\ r.err # "None")
  <2>1. /\ IsSequence(now) /\ Len(now) \in Nat /\ Len(now) <= request
        /\ (Len(now) < request => block = <<>>) /\ out' = now
    BY <1>1, <1>3, <1>5
  <2>2. PICK q : /\ OnLine(text, width, left, rest, q)
                 /\ Made(input.padded, joined, q, (delivered \o now) \o block)
    BY <1>3, <1>5
  <2>3. CASE Len(now) < request /\ finished(left, rest)
    <3>1. erred' /\ left = <<>> /\ rest = <<>> /\ block = <<>>
      BY <1>1, <1>5, <2>3 DEF finished
    <3> DEFINE produced == (delivered \o now) \o block
    <3>2. OnLine(text, width, left, rest, q) /\ Made(input.padded, joined, q, produced)
      BY <2>2
    <3>3. Len(produced) = Len(meant.data)
      <4> HIDE DEF produced
      <4> QED
        BY <3>1, <3>2, FinishedText
    <3>4. IsSequence(delivered) /\ Len(delivered) \in Nat /\ Len(meant.data) \in Nat
          /\ request \in Nat
      BY ServesFacts
    <3>5. Len(produced) = Len(delivered) + Len(now)
      <4> DEFINE before == delivered \o now
      <4>1. IsSequence(before) /\ Len(before) = Len(delivered) + Len(now)
        BY <2>1, <3>4, ConcatFacts
      <4> HIDE DEF before
      <4>2. before \o <<>> = before
        BY <4>1, NothingAdded
      <4> QED
        BY <3>1, <4>1, <4>2 DEF before
    <3>6. request > Len(meant.data) - Len(delivered)
      <4> DEFINE x == Len(now)
                 y == Len(delivered)
                 z == Len(meant.data)
      <4>1. x \in Nat /\ y \in Nat /\ z \in Nat /\ request \in Nat /\ x < request /\ z = y + x
        BY <2>1, <2>3, <3>3, <3>4, <3>5
      <4> HIDE DEF x, y, z
      <4>2. request > z - y
        BY <4>1
      <4> QED
        BY <4>2 DEF y, z
    <3> QED
      BY <3>1, <3>6 DEF StepsOn, Refusable
  <2>4. CASE ~(Len(now) < request /\ finished(left, rest))
    <3>1. ~erred' /\ pc' = IF Len(now) < request THEN "fill" ELSE "loop"
      BY <1>1, <1>5, <2>4 DEF Serves
    <3>2. pc' = "fill" => Len(now) < request /\ ~(left = <<>> /\ rest = <<>> /\ block = <<>>)
      BY <2>4, <3>1 DEF finished
    <3>3. pc' \in {"fill", "loop"}
      BY <3>1
    <3>4. Counts'
      <4>1. is_finished' <=> (left = <<>> /\ rest = <<>> /\ block = <<>>)
        BY <1>1 DEF is_finished, finished
      <4>2. /\ IsSequence(block) /\ IsSequence(delivered)
            /\ remaining_len = Len(meant.data) - Len(delivered)
        BY ServesFacts
      <4> QED
        BY <1>1, <2>1, <3>2, <3>3, <4>1, <4>2 DEF Counts
    <3>5. Produced' = (delivered \o now) \o block
      BY <1>1, <2>1, <3>3 DEF Produced
    <3>6. AtPlace(q)'
      BY <1>1, <2>2, <3>5 DEF AtPlace
    <3> QED
      BY <3>1, <3>4, <3>6 DEF StepsOn, Placed
  <2> QED
    BY <2>3, <2>4
<1> QED
  BY <1>4, <1>5

(* The next block, put together from this line and, if it is too short, the*)
(* next.                                                                   *)
FillLines(in, p, left, more, src) ==
  \E q \in Nat :
    /\ p <= q /\ q <= p + 4 /\ OnLine(in.text, in.width, left, more, q)
    /\ q % 4 = 0 \/ q = Len(JoinedOf(in))
    /\ src = SubSeq(JoinedOf(in), p + 1, q)

LEMMA NotSplit ==
  ASSUME NEW in, NEW sense, Readable(in, sense), NEW l, NEW r, NEW p,
         OnLine(in.text, in.width, l, r, p),
         p % 4 = 0 \/ p = Len(JoinedOf(in)), ~(Len(l) < 4 /\ r # <<>>)
  PROVE  FillLines(in, p, After(l, 4), r, Taken(l, 4))
<1> DEFINE n == Len(JoinedOf(in))
           m == 4
           q == p + MinOf(m, Len(l))
           len == Len(l)
<1>1. /\ IsSequence(in.text) /\ in.width \in Nat /\ Decodable(in.padded, JoinedOf(in))
      /\ m \in Nat
  BY DEF Readable
<1>2. /\ p \in Nat /\ len \in Nat /\ p + len <= n /\ n \in Nat
      /\ (r = <<>> => p + len = n)
  BY <1>1, OnLineFacts, DataFacts DEF JoinedOf, AllOf
<1>3. Took(in.text, in.width, l, r, p, m, q)
  <2> HIDE DEF m
  <2> QED
    BY <1>1, TakingMoves
<1>4. /\ q \in Nat /\ p <= q /\ q <= n /\ OnLine(in.text, in.width, After(l, m), r, q)
      /\ Taken(l, m) = SubSeq(JoinedOf(in), p + 1, q)
  <2> HIDE DEF q, m
  <2> QED
    BY <1>3 DEF Took, JoinedOf, AllOf
<1>5. q <= p + 4 /\ (q % 4 = 0 \/ q = n)
  <2>1. q = p + (IF 4 < len THEN 4 ELSE len)
    BY DEF MinOf
  <2>2. len < 4 => p + len = n
    <3>1. len < 4 => r = <<>>
      OBVIOUS
    <3> QED
      BY <1>2, <3>1
  <2>3. p % 4 = 0 \/ p = n
    OBVIOUS
  <2> HIDE DEF len, n, q
  <2>4. CASE p = n
    BY <1>2, <1>4, <2>1, <2>4
  <2>5. CASE p % 4 = 0 /\ len < 4
    BY <1>2, <2>1, <2>2, <2>5
  <2>6. CASE p % 4 = 0 /\ len >= 4
    <3>1. q = p + 4
      BY <1>2, <2>1, <2>6
    <3> QED
      BY <1>2, <2>6, <3>1
  <2> QED
    BY <1>2, <2>3, <2>4, <2>5, <2>6
<1> HIDE DEF q
<1> QED
  BY <1>4, <1>5 DEF FillLines

LEMMA Split ==
  ASSUME NEW in, NEW sense, Readable(in, sense), NEW l, NEW r, NEW p,
         OnLine(in.text, in.width, l, r, p),
         p % 4 = 0 \/ p = Len(JoinedOf(in)), Len(l) < 4, r # <<>>,
         NEW next, next = NextLine(r, in.width), next.kind = "Line",
         NEW m, m = 4 - Len(Taken(l, 4))
  PROVE  FillLines(in, p, After(next.line, m), next.rest, Taken(l, 4) \o Taken(next.line, m))
<1> DEFINE text == in.text
           width == in.width
           joined == JoinedOf(in)
           n == Len(joined)
           len == Len(l)
           four == 4
           p1 == p + MinOf(four, Len(l))
           line2 == next.line
           rest2 == next.rest
           q == p1 + MinOf(m, Len(line2))
<1>1. /\ IsSequence(text) /\ width \in Nat /\ Decodable(in.padded, joined)
      /\ (width = 0 \/ width >= 4) /\ four \in Nat
  BY DEF Readable
<1>2. /\ p \in Nat /\ len \in Nat /\ p + len <= n /\ n \in Nat /\ IsSequence(l)
      /\ IsSequence(r)
  <2>1. IsSequence(l)
    BY DEF OnLine
  <2>2. p \in Nat /\ len \in Nat /\ p + len <= n /\ IsSequence(r)
    BY <1>1, OnLineFacts DEF JoinedOf, AllOf
  <2>3. n \in Nat
    BY <1>1, DataFacts
  <2> QED
    BY <2>1, <2>2, <2>3
<1>3. MinOf(four, Len(l)) = len
  <2>1. len < 4
    OBVIOUS
  <2> QED
    BY <1>2, <2>1 DEF MinOf
<1>4. /\ p1 = p + len /\ Took(text, width, l, r, p, four, p1)
  <2>1. p1 = p + len
    BY <1>3
  <2>2. OnLine(text, width, l, r, p) /\ p1 = p + MinOf(four, Len(l))
    OBVIOUS
  <2> HIDE DEF p1, four, text, width
  <2> QED
    BY <1>1, <2>1, <2>2, TakingMoves
<1>5. /\ OnLine(text, width, After(l, four), r, p1)
      /\ Taken(l, four) = SubSeq(joined, p + 1, p1)
  <2> HIDE DEF p1, four, text, width
  <2> QED
    BY <1>4 DEF Took, JoinedOf, AllOf, text, width
<1>6. /\ After(l, four) = <<>> /\ Len(Taken(l, four)) = len
  <2>1. /\ Len(Taken(l, four)) = MinOf(four, Len(l)) /\ IsSequence(After(l, four))
        /\ Len(After(l, four)) = Len(l) - MinOf(four, Len(l))
    <3> HIDE DEF four
    <3> QED
      BY <1>1, <1>2, TakenFacts
  <2> DEFINE a == After(l, four)
  <2>2. Len(a) = 0 /\ IsSequence(a)
    <3>1. Len(a) = len - len /\ IsSequence(a)
      BY <1>3, <2>1
    <3> HIDE DEF a, len
    <3> QED
      BY <1>2, <3>1
  <2> HIDE DEF a
  <2>3. a = <<>>
    BY <2>2, SequenceShape
  <2> QED
    BY <1>3, <2>1, <2>3 DEF a
<1>7. m \in Nat /\ m = 4 - len /\ m <= 4
  <2>1. m = 4 - len /\ len < 4 /\ len \in Nat
    BY <1>2, <1>6
  <2> HIDE DEF len
  <2> QED
    BY <2>1
<1>8. OnLine(text, width, line2, rest2, p1)
  <2> DEFINE a == After(l, four)
  <2>1. OnLine(text, width, a, r, p1) /\ a = <<>> /\ r # <<>> /\ NextLine(r, width).kind = "Line"
    BY <1>5, <1>6
  <2> HIDE DEF a, p1, text, width
  <2>2. OnLine(text, width, NextLine(r, width).line, NextLine(r, width).rest, p1)
    BY <1>1, <2>1, AdvancingStays
  <2> QED
    BY <2>2 DEF width
<1>9. /\ Len(line2) \in Nat /\ (rest2 = <<>> => p1 + Len(line2) = n)
      /\ (rest2 # <<>> => Len(line2) = width /\ width >= 4)
  <2>1. Len(line2) \in Nat /\ (rest2 = <<>> => p1 + Len(line2) = n)
    <3> HIDE DEF p1, line2, rest2, n
    <3> QED
      BY <1>1, <1>8, OnLineFacts DEF JoinedOf, AllOf, n
  <2>2. rest2 # <<>> => Len(line2) = width /\ width # 0
    <3> HIDE DEF width
    <3>1. next = NextLine(r, width)
      BY DEF width
    <3> QED
      BY <1>1, <1>2, <3>1, NextLineFacts
  <2> QED
    BY <1>1, <2>1, <2>2
<1>10. Took(text, width, line2, rest2, p1, m, q)
  <2>1. q = p1 + MinOf(m, Len(line2))
    OBVIOUS
  <2> HIDE DEF q, p1, line2, rest2, text, width
  <2> QED
    BY <1>1, <1>7, <1>8, <2>1, TakingMoves
<1>11. /\ q \in Nat /\ p1 <= q /\ q <= n /\ OnLine(text, width, After(line2, m), rest2, q)
       /\ Taken(line2, m) = SubSeq(joined, p1 + 1, q)
  <2> HIDE DEF q, p1, line2, rest2, text, width
  <2> QED
    BY <1>10 DEF Took, JoinedOf, AllOf, text, width
<1>12. Taken(l, four) \o Taken(line2, m) = SubSeq(joined, p + 1, q)
  <2>1. p1 \in Nat /\ p <= p1
    <3> HIDE DEF p1, len
    <3> QED
      BY <1>2, <1>4
  <2>2. IsSequence(joined) /\ q <= Len(joined)
    BY <1>1, <1>11 DEF Decodable
  <2> HIDE DEF q, p1, joined, line2
  <2>3. SubSeq(joined, p + 1, p1) \o SubSeq(joined, p1 + 1, q) = SubSeq(joined, p + 1, q)
    BY <1>2, <1>11, <2>1, <2>2, SegmentsJoin, ZenonT(60)
  <2> QED
    BY <1>5, <1>11, <2>3
<1>13. p <= q /\ q <= p + 4 /\ (q % 4 = 0 \/ q = n)
  <2> DEFINE len2 == Len(line2)
  <2>1. q = p1 + (IF m < len2 THEN m ELSE len2)
    BY DEF MinOf
  <2>2. /\ len2 \in Nat /\ (len2 < m => p1 + len2 = n)
    <3>1. rest2 # <<>> => len2 >= 4
      BY <1>9
    <3>2. rest2 = <<>> => p1 + len2 = n
      BY <1>9
    <3>3. len2 \in Nat
      BY <1>9
    <3> HIDE DEF len2, p1, n, rest2
    <3> QED
      BY <1>7, <3>1, <3>2, <3>3
  <2>3. p % 4 = 0 \/ p = n
    OBVIOUS
  <2>4. p1 = p + len /\ p1 \in Nat /\ p + len <= n
    <3> HIDE DEF p1, len, n
    <3> QED
      BY <1>2, <1>4
  <2> HIDE DEF len, n, q, p1, len2
  <2>5. p <= q /\ q <= p + 4
    BY <1>2, <1>7, <2>1, <2>2, <2>4
  <2>6. CASE p = n
    BY <1>2, <1>11, <2>5, <2>6
  <2>7. CASE len2 < m
    BY <1>7, <2>1, <2>2, <2>5, <2>7
  <2>8. CASE p % 4 = 0 /\ m <= len2
    <3>1. q = p + 4
      BY <1>2, <1>7, <2>1, <2>2, <2>4, <2>8
    <3> QED
      BY <1>2, <2>5, <2>8, <3>1
  <2> QED
    BY <1>7, <2>2, <2>3, <2>6, <2>7, <2>8
<1> HIDE DEF q
<1> QED
  BY <1>11, <1>12, <1>13 DEF FillLines

LEMMA FillBlockSteps ==
  ASSUME Serves, FillBlock
  PROVE  StepsOn
<1> DEFINE begin == Taken(line, 4)
           split == Len(line) < 4 /\ rest # <<>>
           next == NextLine(rest, input.width)
           end == Taken(next.line, 4 - Len(begin))
           src == IF split THEN begin \o end ELSE begin
           line1 == IF split THEN After(next.line, 4 - Len(begin)) ELSE After(line, 4)
           rest1 == IF split THEN next.rest ELSE rest
           r == perform_decode(src, 3, finished(line1, rest1))
           joined == JoinedOf(input)
<1>1. /\ pc = "fill"
      /\ UNCHANGED <<input, meant, remaining_len, out, request, delivered>>
      /\ \/ split /\ next.kind # "Line" /\ erred'
         \/ (split => next.kind = "Line") /\ r.err # "None" /\ erred'
         \/ /\ split => next.kind = "Line"
            /\ r.err = "None" /\ rest' = rest1 /\ line' = line1 /\ block' = r.out
            /\ pc' = "loop" /\ erred' = erred
  BY DEF FillBlock, Fail
<1>2. PICK p : AtPlace(p)
  BY DEF Serves, Placed
<1>3. /\ OnLine(input.text, input.width, line, rest, p)
      /\ Made(input.padded, joined, p, Produced)
      /\ Readable(input, meant) /\ IsSequence(input.text) /\ input.width \in Nat
  <2>1. Readable(input, meant)
    BY ServesFacts
  <2> QED
    BY <1>2, <2>1 DEF AtPlace, Readable
<1>4. Len(out) < request /\ block = <<>>
  BY <1>1 DEF Serves, Counts
<1>5. p \in Nat /\ (p % 4 = 0 \/ p = Len(joined))
  BY <1>3 DEF Made
<1>6. CASE split /\ next.kind # "Line"
  <2>1. erred'
    BY <1>1, <1>6
  <2>2. meant.sound => AllOf(input).kind # "Error" /\ AllOf(input).last \notin {<<>>, <<<<>>>>}
    BY <1>3 DEF Readable
  <2>3. rest # <<>> /\ AllOf(input).kind # "Error" /\ AllOf(input).last \notin {<<>>, <<<<>>>>}
          => next.kind = "Line"
    BY <1>3, OnLineFacts DEF AllOf
  <2> QED
    BY <1>6, <2>1, <2>2, <2>3 DEF StepsOn, Refusable
<1>7. CASE ~(split /\ next.kind # "Line")
  <2>1. FillLines(input, p, line1, rest1, src)
    <3>1. CASE split
      <4> DEFINE m == 4 - Len(begin)
      <4>1. /\ Len(line) < 4 /\ rest # <<>> /\ next = NextLine(rest, input.width)
            /\ next.kind = "Line" /\ m = 4 - Len(Taken(line, 4))
        BY <1>7, <3>1
      <4> HIDE DEF next, m
      <4>2. FillLines(input, p, After(next.line, m), next.rest, Taken(line, 4) \o Taken(next.line, m))
        BY <1>3, <1>5, <4>1, Split
      <4> QED
        BY <3>1, <4>2 DEF m
    <3>2. CASE ~split
      <4>1. FillLines(input, p, After(line, 4), rest, Taken(line, 4))
        BY <1>3, <1>5, <3>2, NotSplit
      <4> QED
        BY <3>2, <4>1
    <3> QED
      BY <3>1, <3>2
  <2> HIDE DEF line1, rest1, src, split, next
  <2>2. PICK q \in Nat :
          /\ p <= q /\ q <= p + 4 /\ OnLine(input.text, input.width, line1, rest1, q)
          /\ q % 4 = 0 \/ q = Len(joined)
          /\ src = SubSeq(joined, p + 1, q)
    BY <2>1 DEF FillLines
  <2> DEFINE room == 3
  <2>3. r = decode(input.padded /\ (line1 = <<>> /\ rest1 = <<>>), SubSeq(joined, p + 1, q), room)
    <3>1. finished(line1, rest1) = (line1 = <<>> /\ rest1 = <<>>)
      BY <1>4 DEF finished
    <3>2. r = decode(input.padded /\ finished(line1, rest1), src, room)
      BY DEF perform_decode
    <3> QED
      BY <2>2, <3>1, <3>2
  <2>4. room \in Nat /\ 3 * (q - p) <= 4 * room
    <3>1. q - p \in Nat /\ q - p <= 4
      BY <1>5, <2>2
    <3> QED
      BY <3>1
  <2>5. /\ Decoded(input, line1, rest1, q, Produced, r, room)
        /\ meant.sound /\ 3 * (q - p) <= 4 * room => r.err = "None"
    <3>1. room \in Nat
      OBVIOUS
    <3> HIDE DEF room, r
    <3> QED
      BY <1>3, <2>2, <2>3, <3>1, DecodesOn, ZenonT(60)
  <2> HIDE DEF r
  <2>6. CASE r.err # "None"
    <3>1. erred'
      BY <1>1, <1>7, <2>6
    <3>2. ~meant.sound
      BY <2>4, <2>5, <2>6
    <3> QED
      BY <3>1, <3>2 DEF StepsOn, Refusable
  <2>7. CASE r.err = "None"
    <3>1. /\ rest' = rest1 /\ line' = line1 /\ block' = r.out /\ pc' = "loop" /\ ~erred'
      BY <1>1, <1>7, <2>7 DEF Serves
    <3>2. IsSequence(r.out) /\ Made(input.padded, joined, q, Produced \o r.out)
      BY <2>5, <2>7 DEF Decoded
    <3>3. Counts'
      BY <1>1, <3>1, <3>2, ServesFacts DEF Counts
    <3>4. Produced' = Produced \o r.out
      <4> DEFINE before == delivered \o out
      <4>1. IsSequence(before) /\ Produced = before \o block
        BY <1>1, ServesFacts, ConcatFacts
      <4>2. Produced' = before \o r.out
        BY <1>1, <3>1 DEF Produced
      <4> HIDE DEF before
      <4>3. before \o <<>> = before
        BY <4>1, NothingAdded
      <4> QED
        BY <1>4, <4>1, <4>2, <4>3
    <3>5. AtPlace(q)'
      BY <1>1, <2>2, <3>1, <3>2, <3>4 DEF AtPlace
    <3> QED
      BY <3>1, <3>3, <3>5 DEF StepsOn, Placed
  <2> QED
    BY <2>6, <2>7
<1> QED
  BY <1>6, <1>7

LEMMA ServingSteps == Serves /\ Next => StepsOn
<1> SUFFICES ASSUME Serves, Next PROVE StepsOn
  OBVIOUS
<1>1. ASSUME NEW n \in 0 .. MaxRequest, Decode(n) \/ Read(n) PROVE StepsOn
  BY <1>1, CallSteps
<1> QED
  BY <1>1, EnterSteps, TakeBufferedSteps, AdvanceLineSteps, DecodeStrideSteps, FillBlockSteps,
     ReturnSteps DEF Next, Step

LEMMA NextIInv == IInv /\ [Next]_vars => IInv'
<1> SUFFICES ASSUME IInv, [Next]_vars PROVE IInv'
  OBVIOUS
<1>1. Typed'
  BY NextTyped DEF IInv
<1>2. ASSUME ~erred' PROVE Counts' /\ Placed'
  <2>1. CASE Next
    <3>1. ~erred
      BY <1>2, <2>1 DEF Next, Step, Decode, Read, Enter, TakeBuffered, AdvanceLine, DecodeStride,
                        FillBlock, Return, Fail
    <3>2. Serves
      BY <3>1 DEF Serves, IInv
    <3> QED
      BY <1>2, <2>1, <3>2, ServingSteps DEF StepsOn
  <2>2. CASE UNCHANGED vars
    <3>1. ~erred
      BY <1>2, <2>2 DEF vars
    <3>2. Counts /\ Placed
      BY <3>1 DEF IInv
    <3>3. Counts'
      BY <2>2, <3>2 DEF vars, Counts, is_finished, finished
    <3>4. Placed'
      BY <2>2, <3>2 DEF vars, Placed, AtPlace, Produced
    <3> QED
      BY <3>3, <3>4
  <2> QED
    BY <2>1, <2>2
<1> QED
  BY <1>1, <1>2 DEF IInv

THEOREM Invariance == Spec => []IInv
<1>1. Init => IInv
  BY InitIInv
<1>2. IInv /\ [Next]_vars => IInv'
  BY NextIInv
<1> QED
  BY <1>1, <1>2, PTL DEF Spec

(* When nothing remains, the text has been read as far as it matters.      *)
LEMMA AllDelivered ==
  ASSUME Serves, pc = "idle", remaining_len = 0
  PROVE  /\ block = <<>> /\ Produced = delivered
         /\ \E p : AtPlace(p) /\ p = Len(JoinedOf(input))
<1>1. /\ IsSequence(block) /\ IsSequence(delivered) /\ Len(block) \in Nat
      /\ Len(delivered) \in Nat /\ Len(meant.data) \in Nat
      /\ Len(delivered) = Len(meant.data)
  <2>1. /\ Len(delivered) \in Nat /\ Len(meant.data) \in Nat
        /\ 0 = Len(meant.data) - Len(delivered)
    BY ServesFacts
  <2>2. IsSequence(block) /\ IsSequence(delivered) /\ Len(block) \in Nat
    BY ServesFacts
  <2>3. Len(delivered) = Len(meant.data)
    BY <2>1
  <2> QED
    BY <2>1, <2>2, <2>3
<1>2. PICK p : AtPlace(p)
  BY DEF Serves, Placed
<1>3. /\ Made(input.padded, JoinedOf(input), p, Produced)
      /\ Decodable(input.padded, JoinedOf(input))
      /\ meant.data = DataOf(input.padded, JoinedOf(input))
  <2>1. Readable(input, meant)
    BY ServesFacts
  <2> QED
    BY <1>2, <2>1 DEF AtPlace, Readable
<1>4. Produced = delivered \o block /\ Len(Produced) = Len(delivered) + Len(block)
  BY <1>1, ConcatFacts DEF Produced
<1>5. Len(Produced) <= Len(meant.data)
  BY <1>3 DEF Made
<1>6. block = <<>>
  <2>1. Len(block) = 0
    BY <1>1, <1>4, <1>5
  <2> QED
    BY <1>1, <2>1, SequenceShape
<1>7. Produced = delivered
  <2>1. delivered \o <<>> = delivered
    BY <1>1, NothingAdded
  <2> QED
    BY <1>4, <1>6, <2>1
<1>8. p = Len(JoinedOf(input))
  BY <1>1, <1>3, <1>7, MadeAll
<1> QED
  BY <1>2, <1>6, <1>7, <1>8

LEMMA LengthIsExactHolds == IInv => LengthIsExact
<1> SUFFICES ASSUME IInv, ~erred, pc = "idle"
             PROVE  /\ remaining_len = Len(meant.data) - Len(delivered)
                    /\ meant.sound => (is_finished <=> remaining_len = 0)
  BY DEF LengthIsExact
<1>1. Serves
  BY DEF Serves, IInv
<1>2. /\ remaining_len = Len(meant.data) - Len(delivered) /\ Len(meant.data) \in Nat
      /\ IsSequence(delivered) /\ Readable(input, meant)
  BY <1>1, ServesFacts
<1>3. ASSUME is_finished PROVE remaining_len = 0
  <2>1. line = <<>> /\ rest = <<>> /\ block = <<>>
    BY <1>3 DEF is_finished, finished
  <2>2. PICK p : AtPlace(p)
    BY <1>1 DEF Serves, Placed
  <2>3. /\ OnLine(input.text, input.width, line, rest, p)
        /\ Made(input.padded, JoinedOf(input), p, Produced)
    BY <2>2 DEF AtPlace
  <2>4. Len(Produced) = Len(meant.data)
    BY <1>1, <2>1, <2>3, FinishedText
  <2>5. Produced = delivered
    BY <1>2, <2>1, NothingAdded DEF Produced
  <2> QED
    BY <1>2, <2>4, <2>5
<1>4. ASSUME meant.sound, remaining_len = 0 PROVE is_finished
  <2>1. block = <<>> /\ \E p : AtPlace(p) /\ p = Len(JoinedOf(input))
    BY <1>1, <1>4, AllDelivered
  <2>2. PICK p : AtPlace(p) /\ p = Len(JoinedOf(input))
    BY <2>1
  <2>3. /\ OnLine(input.text, input.width, line, rest, p) /\ IsSequence(input.text)
        /\ input.width \in Nat /\ IsSequence(line)
        /\ AllOf(input).kind # "Error" /\ AllOf(input).last \notin {<<>>, <<<<>>>>}
    BY <1>2, <1>4, <2>2 DEF AtPlace, Readable, OnLine
  <2>4. /\ p \in Nat /\ Len(line) \in Nat /\ p + Len(line) <= p
        /\ rest # <<>> => p + Len(line) < p
    <3> DEFINE n == Len(JoinedOf(input))
    <3>1. /\ p \in Nat /\ Len(line) \in Nat /\ p + Len(line) <= n
          /\ rest # <<>> => p + Len(line) < n
      <4> HIDE DEF n
      <4> QED
        BY <2>3, OnLineFacts DEF JoinedOf, AllOf, n
    <3>2. n = p
      BY <2>2
    <3> HIDE DEF n
    <3> QED
      BY <3>1, <3>2
  <2>5. Len(line) = 0 /\ rest = <<>>
    BY <2>4
  <2>6. line = <<>>
    BY <2>3, <2>5, SequenceShape
  <2> QED
    BY <2>1, <2>5, <2>6 DEF is_finished, finished
<1> QED
  BY <1>2, <1>3, <1>4

LEMMA NoLaxerHolds == IInv => NoLaxerThanOneShot
<1> SUFFICES ASSUME IInv, ~erred, pc = "idle", remaining_len = 0
             PROVE  meant.whole = Ok(delivered)
  BY DEF NoLaxerThanOneShot
<1>1. Serves
  BY DEF Serves, IInv
<1>2. Readable(input, meant)
  BY <1>1, ServesFacts
<1>3. Produced = delivered
  BY <1>1, AllDelivered
<1>4. PICK p : AtPlace(p) /\ p = Len(JoinedOf(input))
  BY <1>1, AllDelivered
<1>5. /\ Made(input.padded, JoinedOf(input), p, delivered)
      /\ Decodable(input.padded, JoinedOf(input))
      /\ meant.whole = decode(input.padded, JoinedOf(input), Len(JoinedOf(input)))
  BY <1>2, <1>3, <1>4 DEF AtPlace, Readable
<1> QED
  BY <1>4, <1>5, MadeAll

(* remaining_len counts down exactly what was not delivered, and sound     *)
(* text is finished when it reaches zero and not before (Decoder::decode,  *)
(* remaining_len, is_finished, LineReader::decoded_len).                   *)
THEOREM LengthExact == Spec => []LengthIsExact
<1> QED
  BY LengthIsExactHolds, Invariance, PTL

(* What was decoded to its end piece by piece, in whatever lines and calls,*)
(* the one-shot decode accepts, with the same octets (Decoder::decode,     *)
(* perform_decode, fill_block_buffer; Encoding::decode).                   *)
THEOREM NoLaxer == Spec => []NoLaxerThanOneShot
<1> QED
  BY NoLaxerHolds, Invariance, PTL

--------------------------------------------------------------------------------
(* The decoder is a source of the octets of its text.  A step is a call, a *)
(* step inside one, a failure or a return.                                 *)
Called ==
  /\ pc = "idle" /\ pc' # "idle" /\ request' \in Nat
  /\ UNCHANGED <<meant, delivered, erred>>
Inside ==
  /\ pc # "idle" /\ pc' # "idle"
  /\ UNCHANGED <<meant, delivered, erred, request>>
Failed ==
  /\ pc # "idle" /\ pc' = "idle" /\ erred' = TRUE
  /\ UNCHANGED <<meant, delivered>>
Returned ==
  /\ pc = "loop" /\ pc' = "idle" /\ Len(out) >= request /\ request <= remaining_len
  /\ delivered' = (IF erred THEN delivered ELSE delivered \o out)
  /\ UNCHANGED <<meant, erred>>
Idled == UNCHANGED <<meant, delivered, erred, request, pc>>

LEMMA KindsOfSteps ==
  ASSUME Typed, Typed', [Next]_vars
  PROVE  Called \/ Inside \/ Failed \/ Returned \/ Idled
<1>1. ASSUME NEW n \in 0 .. MaxRequest, Decode(n) \/ Read(n) PROVE Called
  BY <1>1 DEF Decode, Read, Called, Typed
<1>2. CASE Enter
  BY <1>2 DEF Enter, Fail, Inside, Failed
<1>3. CASE TakeBuffered
  BY <1>3 DEF TakeBuffered, Inside
<1>4. CASE AdvanceLine
  BY <1>4 DEF AdvanceLine, Fail, Inside, Failed
<1>5. CASE DecodeStride
  BY <1>5 DEF DecodeStride, Fail, Inside, Failed
<1>6. CASE FillBlock
  BY <1>6 DEF FillBlock, Fail, Inside, Failed
<1>7. CASE Return
  <2>1. CASE request > remaining_len
    BY <1>7, <2>1 DEF Return, Fail, Failed
  <2>2. CASE ~(request > remaining_len)
    <3>1. request <= remaining_len
      BY <2>2 DEF Typed
    <3> QED
      BY <1>7, <2>2, <3>1 DEF Return, Returned
  <2> QED
    BY <2>1, <2>2
<1>8. CASE UNCHANGED vars
  BY <1>8 DEF vars, Idled
<1> QED
  BY <1>1, <1>2, <1>3, <1>4, <1>5, <1>6, <1>7, <1>8 DEF Next, Step

(* A call that returns hands out the next octets.                          *)
LEMMA ReturnsTheNext ==
  ASSUME Serves, Returned
  PROVE  /\ request <= Len(meant.data) - Len(delivered)
         /\ delivered \o out = SubSeq(meant.data, 1, Len(delivered) + request)
<1>1. /\ IsSequence(block) /\ IsSequence(out) /\ IsSequence(delivered)
      /\ Len(block) \in Nat /\ Len(out) \in Nat /\ Len(delivered) \in Nat
      /\ request \in Nat /\ remaining_len = Len(meant.data) - Len(delivered)
      /\ Len(out) <= request /\ Len(meant.data) \in Nat
      /\ Produced = (delivered \o out) \o block
  BY ServesFacts DEF Returned
<1>2. Len(out) = request /\ request <= remaining_len
  BY <1>1 DEF Returned
<1>3. PICK p : AtPlace(p)
  BY DEF Serves, Placed
<1>4. /\ Made(input.padded, JoinedOf(input), p, Produced) /\ IsSequence(meant.data)
      /\ meant.data = DataOf(input.padded, JoinedOf(input))
  <2>1. Readable(input, meant)
    BY ServesFacts
  <2>2. Decodable(input.padded, JoinedOf(input)) /\ meant.data = DataOf(input.padded, JoinedOf(input))
    BY <2>1 DEF Readable
  <2>3. IsSequence(DataOf(input.padded, JoinedOf(input)))
    BY <2>2, DataFacts
  <2> QED
    BY <1>3, <2>2, <2>3 DEF AtPlace
<1> DEFINE before == delivered \o out
           len == Len(delivered) + request
           all == Len(Produced)
           none == 0
<1>5. /\ Produced = SubSeq(meant.data, 1, all) /\ all <= Len(meant.data)
  BY <1>4 DEF Made
<1>6. IsSequence(before) /\ Len(before) = len
  BY <1>1, <1>2, ConcatFacts
<1>7. /\ IsSequence(Produced) /\ Produced = before \o block /\ all = len + Len(block)
      /\ \A i \in 1 .. len : Produced[i] = before[i]
  <2>1. Produced = before \o block
    BY <1>1
  <2> HIDE DEF before
  <2>2. IsSequence(before \o block) /\ Len(before \o block) = Len(before) + Len(block)
        /\ \A i \in 1 .. Len(before) : (before \o block)[i] = before[i]
    BY <1>1, <1>6, ConcatFacts
  <2> QED
    BY <1>6, <2>1, <2>2
<1>8. len \in Nat /\ len <= all /\ all \in Nat /\ len <= Len(meant.data)
  <2>1. len \in Nat
    BY <1>1
  <2> DEFINE z == Len(meant.data)
             y == Len(block)
  <2>2. y \in Nat /\ z \in Nat /\ all = len + y /\ all <= z
    BY <1>1, <1>5, <1>7
  <2> HIDE DEF len, all, z, y
  <2>3. len <= all /\ all \in Nat /\ len <= z
    BY <2>1, <2>2
  <2> QED
    BY <2>1, <2>3 DEF z
<1> HIDE DEF before, len, all
<1>9. before = Start(Produced, len)
  <2>1. IsSequence(Start(Produced, len)) /\ Len(Start(Produced, len)) = len
        /\ \A i \in 1 .. len : Start(Produced, len)[i] = Produced[i]
    BY <1>7, <1>8, StartFacts DEF all
  <2>2. \A i \in 1 .. len : before[i] = Start(Produced, len)[i]
    BY <1>7, <2>1
  <2> QED
    BY <1>6, <2>1, <2>2, SequencesEqual
<1>10. Start(Produced, len) = SubSeq(meant.data, 1, len)
  <2> DEFINE data == meant.data
  <2>1. IsSequence(data) /\ all <= Len(data) /\ Produced = Start(data, all)
    BY <1>4, <1>5 DEF Start
  <2> HIDE DEF data
  <2>2. /\ IsSequence(Start(data, len)) /\ Len(Start(data, len)) = len
        /\ \A i \in 1 .. len : Start(data, len)[i] = data[i]
    <3>1. len <= Len(data)
      BY <1>8 DEF data
    <3> QED
      BY <1>8, <2>1, <3>1, StartFacts
  <2>3. \A i \in 1 .. all : Produced[i] = data[i]
    BY <1>8, <2>1, StartFacts
  <2>4. \A i \in 1 .. len : i \in 1 .. all
    BY <1>8
  <2>5. /\ IsSequence(Start(Produced, len)) /\ Len(Start(Produced, len)) = len
        /\ \A i \in 1 .. len : Start(Produced, len)[i] = Produced[i]
    BY <1>7, <1>8, StartFacts DEF all
  <2>6. Start(Produced, len) = Start(data, len)
    <3>1. \A i \in 1 .. len : Start(Produced, len)[i] = Start(data, len)[i]
      BY <2>2, <2>3, <2>4, <2>5
    <3> QED
      BY <2>2, <2>5, <3>1, SequencesEqual
  <2> QED
    BY <2>6 DEF Start, data
<1> QED
  BY <1>1, <1>2, <1>9, <1>10 DEF before, len

LEMMA InitRefines == Init => Source!Init
  BY DEF Init, Source!Init

LEMMA NextRefines == IInv /\ IInv' /\ [Next]_vars => [Source!Next]_(Source!vars)
<1> SUFFICES ASSUME IInv, IInv', [Next]_vars PROVE [Source!Next]_(Source!vars)
  OBVIOUS
<1>1. Called \/ Inside \/ Failed \/ Returned \/ Idled
  BY KindsOfSteps DEF IInv
<1>2. request \in Nat /\ erred \in BOOLEAN
  BY DEF IInv, Typed
<1>3. CASE Called
  BY <1>3 DEF Called, Source!Next, Source!Ask
<1>4. CASE Inside
  BY <1>4 DEF Inside, Source!vars
<1>5. CASE Idled
  BY <1>5 DEF Idled, Source!vars
<1>6. CASE Failed
  <2>1. meant.sound => erred \/ request > Len(meant.data) - Len(delivered)
    <3>1. CASE erred
      BY <3>1
    <3>2. CASE ~erred
      <4>1. Serves
        BY <3>2 DEF IInv, Serves
      <4>2. Next
        BY <1>6, <3>2 DEF Failed, vars
      <4> QED
        BY <1>6, <4>1, <4>2, ServingSteps DEF StepsOn, Refusable, Failed
    <3> QED
      BY <3>1, <3>2
  <2> QED
    BY <1>2, <1>6, <2>1 DEF Failed, Source!Next, Source!Refuse, Source!Left
<1>7. CASE Returned
  <2>1. CASE erred
    BY <1>2, <1>7, <2>1 DEF Returned, Source!Next, Source!Deliver
  <2>2. CASE ~erred
    <3>1. Serves
      BY <2>2 DEF IInv, Serves
    <3>2. /\ request <= Len(meant.data) - Len(delivered)
          /\ delivered' = SubSeq(meant.data, 1, Len(delivered) + request)
      BY <1>7, <2>2, <3>1, ReturnsTheNext DEF Returned
    <3> QED
      BY <1>2, <1>7, <2>2, <3>2 DEF Returned, Source!Next, Source!Deliver, Source!Left
  <2> QED
    BY <2>1, <2>2
<1> QED
  BY <1>1, <1>3, <1>4, <1>5, <1>6, <1>7

(* The streaming decoder hands out the octets of its text one request after*)
(* the other, whatever the requests and however the text is wrapped, and   *)
(* refuses sound text only to a caller who asks for more than is left      *)
(* (Decoder::decode and everything it calls).                              *)
THEOREM Refinement == Spec => ImplementsByteSource
<1>1. Spec => Source!Init /\ [][Source!Next]_(Source!vars)
  BY Invariance, InitRefines, NextRefines, PTL DEF Spec
<1> QED
  BY <1>1 DEF ImplementsByteSource, Source!Spec
================================================================================
