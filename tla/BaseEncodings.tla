------------------------------ MODULE BaseEncodings ------------------------------
(***************************************************************************)
(* Base16 (base16ct), octets under serde (serdect), and Base32 (base32ct), *)
(* next to Base64Encoding.                                                 *)
(*                                                                         *)
(* A Base16 character is 0 .. 9 for a digit, 10 .. 15 for a lower case and *)
(* 16 .. 21 for an upper case letter.  A Base32 character is the five bits *)
(* it stands for, or Pad32.  Every other number is outside the alphabet.   *)
(* The constant-time arithmetic of the code is modelled by what it         *)
(* computes.  Results are <<x>> or, for an error, <<>>.                    *)
(***************************************************************************)
LOCAL INSTANCE Integers
LOCAL INSTANCE Sequences
LOCAL INSTANCE SequencesExt

Lower == 10 .. 15
Upper == 16 .. 21
Cases == [lower |-> Lower, upper |-> Upper, mixed |-> Lower \union Upper]

(* decode_nibble of the module for a case.                                 *)
IsNibble(case, c) == c \in 0 .. 9 \union Cases[case]
decode_nibble(c) == IF c \in Upper THEN c - 6 ELSE c
encode_nibble(case, n) == IF case = "upper" /\ n > 9 THEN n + 6 ELSE n

(* decode_inner.                                                           *)
Octet(high, low) == 16 * high + low

Base16Decode(case, text) ==
  IF Len(text) % 2 = 0 /\ \A i \in DOMAIN text : IsNibble(case, text[i])
  THEN <<[i \in 1 .. Len(text) \div 2 |->
            Octet(decode_nibble(text[2 * i - 1]), decode_nibble(text[2 * i]))]>>
  ELSE <<>>
Base16Encode(case, bytes) ==
  [i \in 1 .. 2 * Len(bytes) |->
     LET byte == bytes[(i + 1) \div 2] IN
     encode_nibble(case, IF i % 2 = 1 THEN byte \div 16 ELSE byte % 16)]

(* Under serde, o is [of, readable, upper, room]: of an array or a slice of*)
(* at most `room` octets, or a vector; Base16 in formats that people read. *)
serialize_hex_or_bin(o, bytes) ==
  IF o.readable THEN Base16Encode(IF o.upper THEN "upper" ELSE "lower", bytes) ELSE bytes

(* LengthCheck: ExactLength and UpperBound.                                *)
length_check(o, n) == CASE o.of = "array" -> n = o.room [] o.of = "slice" -> n <= o.room [] OTHER -> TRUE

(* A text is only compared with the size of the buffer that it is decoded  *)
(* to; an array is the whole buffer.                                       *)
Filling(o, bytes) ==
  IF o.of = "array" THEN bytes \o [i \in 1 .. o.room - Len(bytes) |-> 0] ELSE bytes
visit_str(o, text) ==
  LET bytes == Base16Decode("mixed", text)
  IN  IF bytes = <<>> \/ (o.of # "vec" /\ Len(bytes[1]) > o.room) THEN <<>> ELSE <<Filling(o, bytes[1])>>
deserialize_hex_or_bin(o, t) ==
  IF o.readable THEN visit_str(o, t) ELSE IF length_check(o, Len(t)) THEN <<t>> ELSE <<>>

--------------------------------------------------------------------------------
Pad32 == 32

(* The k-th block of n elements, from 0, filled up with zeros.             *)
BlockOf(s, n, k) == [j \in 1 .. n |-> IF n * k + j <= Len(s) THEN s[n * k + j] ELSE 0]

(* Five octets of eight characters, and eight characters of five octets.   *)
(* A last block that is not whole is treated as if zeros followed.         *)
FiveOctets(c) ==
  << c[1] * 8 + c[2] \div 4,
     (c[2] % 4) * 64 + c[3] * 2 + c[4] \div 16,
     (c[4] % 16) * 16 + c[5] \div 2,
     (c[5] % 2) * 128 + c[6] * 4 + c[7] \div 8,
     (c[7] % 8) * 32 + c[8] >>
EightCharacters(b) ==
  << b[1] \div 8,
     (b[1] % 8) * 4 + b[2] \div 64,
     (b[2] \div 2) % 32,
     (b[2] % 2) * 16 + b[3] \div 16,
     (b[3] % 16) * 2 + b[4] \div 128,
     (b[4] \div 4) % 32,
     (b[4] % 4) * 8 + b[5] \div 32,
     b[5] % 32 >>

decoded_len(n) == (n * 5) \div 8
encoded_len(padded, n) == IF padded THEN 8 * ((n + 4) \div 5) ELSE (n * 8 + 4) \div 5

(* Up to six characters of padding are removed from whole blocks.          *)
remove_padding(text) ==
  LET n == Len(text)
      pads == CHOOSE k \in 0 .. 6 :
                /\ k <= n /\ \A i \in n - k + 1 .. n : text[i] = Pad32
                /\ k = 6 \/ k = n \/ text[n - k] # Pad32
  IN  IF n % 8 = 0 THEN <<SubSeq(text, 1, n - pads)>> ELSE <<>>

(* Lengths of a last block that octets are written as.                     *)
IsBlockLength(n) == n % 8 \notin {1, 3, 6}

Base32Decode(padded, text) ==
  LET stripped == IF padded THEN remove_padding(text) ELSE <<text>>
      src == stripped[1]
  IN  IF /\ stripped # <<>>
         /\ IsBlockLength(Len(src))
         /\ \A i \in DOMAIN src : src[i] \in 0 .. 31
      THEN <<[i \in 1 .. decoded_len(Len(src)) |->
                FiveOctets(BlockOf(src, 8, (i - 1) \div 5))[((i - 1) % 5) + 1]]>>
      ELSE <<>>
Base32Encode(padded, bytes) ==
  [i \in 1 .. encoded_len(padded, Len(bytes)) |->
     IF i > encoded_len(FALSE, Len(bytes)) THEN Pad32
     ELSE EightCharacters(BlockOf(bytes, 5, (i - 1) \div 8))[((i - 1) % 8) + 1]]

================================================================================
