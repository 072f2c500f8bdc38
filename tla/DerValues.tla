-------------------------------- MODULE DerValues --------------------------------
(***************************************************************************)
(* The contents of BOOLEAN and INTEGER in der, of BIT STRING, of flag     *)
(* sets, of the string types and of REAL; the serial number of x509-cert; *)
(* and the encoding of an elliptic curve point in sec1.                    *)
(*                                                                         *)
(* A native integer is its octets as to_be_bytes gives them; the others    *)
(* hold the octets they were made from.  Results are <<x>> or, for an      *)
(* error, <<>>; Panic is a panic.                                          *)
(***************************************************************************)
LOCAL INSTANCE Integers
LOCAL INSTANCE Sequences
LOCAL INSTANCE SequencesExt
LOCAL INSTANCE FiniteSetsExt
LOCAL INSTANCE Bitwise

is_highest_bit_set(bytes) == bytes # <<>> /\ bytes[1] >= 128

(* The octets from the first that is not redundant; the last one stays.    *)
strip_leading_zeroes(bytes) ==
  LET n == Len(bytes)
      zeros == CHOOSE k \in 0 .. n :
                 /\ \A i \in 1 .. k : i < n /\ bytes[i] = 0
                 /\ k >= n - 1 \/ bytes[k + 1] # 0
  IN  SubSeq(bytes, 1 + zeros, n)

strip_leading_ones(bytes) ==
  LET n == Len(bytes)
      ones == CHOOSE k \in 0 .. n :
                /\ \A i \in 1 .. k : i < n /\ bytes[i] = 255 /\ bytes[i + 1] >= 128
                /\ k >= n - 1 \/ bytes[k + 1] # 255 \/ bytes[k + 2] < 128
  IN  SubSeq(bytes, 1 + ones, n)

Filled(bytes, octet, n) == [i \in 1 .. n - Len(bytes) |-> octet] \o bytes

--------------------------------------------------------------------------------
TRUE_OCTET == 255
FALSE_OCTET == 0
BoolEncode(b) == <<IF b THEN TRUE_OCTET ELSE FALSE_OCTET>>
BoolDecode(content) ==
  CASE content = <<FALSE_OCTET>> -> <<FALSE>>
    [] content = <<TRUE_OCTET>> -> <<TRUE>>
    [] OTHER -> <<>>

--------------------------------------------------------------------------------
(* Unsigned: encode_bytes, decode_to_slice.                                *)
needs_leading_zero(bytes) == bytes # <<>> /\ bytes[1] >= 128

UnsignedEncode(bytes) ==
  LET stripped == strip_leading_zeroes(bytes) IN
  IF needs_leading_zero(stripped) THEN <<0>> \o stripped ELSE stripped

IsUnsigned(content) ==
  /\ content # <<>> /\ content[1] < 128
  /\ content[1] = 0 /\ Len(content) > 1 => content[2] >= 128
decode_to_slice(content) ==
  IF content[1] = 0 /\ Len(content) > 1 THEN Tail(content) ELSE content

(* Native types of n octets.                                               *)
UnsignedDecode(n, content) ==
  IF /\ Len(content) \in 1 .. n + 1
     /\ IsUnsigned(content)
     /\ Len(decode_to_slice(content)) <= n
  THEN LET result == Filled(decode_to_slice(content), 0, n) IN
       IF Len(UnsignedEncode(result)) = Len(content) THEN <<result>> ELSE <<>>
  ELSE <<>>
SignedEncode(bytes) ==
  IF is_highest_bit_set(bytes) THEN strip_leading_ones(bytes) ELSE UnsignedEncode(bytes)
SignedDecode(n, content) ==
  IF Len(content) \in 1 .. n /\ (is_highest_bit_set(content) \/ IsUnsigned(content))
  THEN LET result == IF is_highest_bit_set(content) THEN Filled(content, 255, n)
                     ELSE Filled(decode_to_slice(content), 0, n)
       IN  IF Len(SignedEncode(result)) = Len(content) THEN <<result>> ELSE <<>>
  ELSE <<>>

--------------------------------------------------------------------------------
(* UintRef and Uint; IntRef and Int, which hold what they were given.      *)
UintNew(bytes) == strip_leading_zeroes(bytes)
UintEncode(bytes) ==
  IF Len(UnsignedEncode(bytes)) > Len(bytes) THEN <<0>> \o bytes ELSE bytes
UintDecode(content) ==
  IF IsUnsigned(content)
  THEN LET result == UintNew(decode_to_slice(content)) IN
       IF Len(UnsignedEncode(result)) = Len(content) THEN <<result>> ELSE <<>>
  ELSE <<>>

IntNew(bytes) == strip_leading_ones(bytes)
IntEncode(bytes) == bytes
validate_canonical(content) ==
  /\ content # <<>>
  /\ Len(content) > 1 => /\ content[1] = 0 => content[2] >= 128
                         /\ content[1] = 255 => content[2] < 128
IntDecode(content) ==
  IF validate_canonical(content) /\ Len(IntNew(content)) = Len(content)
  THEN <<IntNew(content)>>
  ELSE <<>>

(* SerialNumber: made of at most `max` octets of contents, read from one   *)
(* octet more.                                                             *)
SerialNew(max, bytes) ==
  LET uint == UintNew(bytes) IN
  IF Len(UnsignedEncode(uint)) <= max THEN <<UnsignedEncode(uint)>> ELSE <<>>
SerialDecode(max, content) ==
  IF IntDecode(content) # <<>> /\ Len(content) <= max + 1 THEN IntDecode(content) ELSE <<>>

--------------------------------------------------------------------------------
(* Orders, as -1, 0 or 1: octet by octet, and by length first.             *)
Lexicographic(a, b) ==
  LET differ == {i \in DOMAIN a \intersect DOMAIN b : a[i] # b[i]}
      first == CHOOSE i \in differ : \A j \in differ : i <= j
      sign(m, n) == IF m < n THEN -1 ELSE IF m > n THEN 1 ELSE 0
  IN  IF differ = {} THEN sign(Len(a), Len(b)) ELSE sign(a[first], b[first])
LengthFirst(a, b) ==
  CASE Len(a) < Len(b) -> -1 [] Len(a) > Len(b) -> 1 [] OTHER -> Lexicographic(a, b)

(* value_cmp of native integers: the contents, written to buffers of the   *)
(* size of the widest type; <<>> when they do not fit.                     *)
value_cmp(room, a, b) ==
  IF Len(a) <= room /\ Len(b) <= room THEN <<Lexicographic(a, b)>> ELSE <<>>


--------------------------------------------------------------------------------

Panic == <<0, 0>>

--------------------------------------------------------------------------------
(* BitString: [unused_bits, bytes].                                        *)
BitString(unused, bytes) == [unused_bits |-> unused, bytes |-> bytes]

BitStringNew(unused, bytes) ==
  IF unused \in 0 .. 7 /\ (unused = 0 \/ bytes # <<>>)
  THEN <<BitString(unused, bytes)>>
  ELSE <<>>
bit_len(bits) == 8 * Len(bits.bytes) - bits.unused_bits
get(bits, i) == (bits.bytes[i \div 8 + 1] \div 2^(7 - (i % 8))) % 2 = 1

BitStringEncode(bits) == <<bits.unused_bits>> \o bits.bytes
BitStringDecode(content) ==
  IF content = <<>> THEN <<>> ELSE BitStringNew(content[1], Tail(content))

(* value_cmp.  Faulty: the octets before the number of unused bits.        *)
BitStringCompare_bytes_first(a, b) ==
  LET octets == Lexicographic(a.bytes, b.bytes) IN
  IF octets # 0 THEN octets ELSE Lexicographic(<<a.unused_bits>>, <<b.unused_bits>>)

BitStringCompare(a, b) ==
  LET unused == Lexicographic(<<a.unused_bits>>, <<b.unused_bits>>) IN
  IF unused # 0 THEN unused ELSE Lexicographic(a.bytes, b.bytes)

(* FlagSet over a type of 16 bits, of which the flags 0 .. 8 are known: a  *)
(* set of flags.  Flag i is bit i of the contents, the highest bit first.  *)
FLAG_BITS == 16
Known == 0 .. 8

encode_flagset(flags) ==
  IF flags = {} THEN BitString(0, <<>>)
  ELSE LET high == Max(flags) IN
       BitString(7 - (high % 8),
                 [k \in 1 .. high \div 8 + 1 |->
                    MapThenSumSet(LAMBDA i : 2^(7 - (i % 8)), {i \in flags : i \div 8 = k - 1})])

FlagSetEncode(flags) == BitStringEncode(encode_flagset(flags))
FlagSetDecode(content) ==
  LET bits == BitStringDecode(content) IN
  IF bits # <<>> /\ bit_len(bits[1]) <= FLAG_BITS
  THEN <<{i \in 0 .. bit_len(bits[1]) - 1 : get(bits[1], i)} \intersect Known>>
  ELSE <<>>
FlagSetCompare(a, b) ==
  LET differ == (a \ b) \union (b \ a) IN
  CASE differ = {} -> 0 [] Max(differ) \in a -> 1 [] OTHER -> -1

--------------------------------------------------------------------------------
(* PrintableString, and the strings of seven bit characters.               *)
IsPrintable(c) ==
  \/ c \in 65 .. 90 \union 97 .. 122 \union 48 .. 57
  \/ c \in {32, 39, 40, 41, 43, 44, 45, 46, 47, 58, 61, 63}
PrintableDecode(content) ==
  IF \A i \in DOMAIN content : IsPrintable(content[i]) THEN <<content>> ELSE <<>>
Ia5Decode(content) ==
  IF \A i \in DOMAIN content : content[i] <= 127 THEN <<content>> ELSE <<>>

(* BmpString, made of characters: a character is its number in Unicode.    *)
Utf16(char) ==
  IF char < 65536 THEN <<char>>
  ELSE <<55296 + (char - 65536) \div 1024, 56320 + ((char - 65536) % 1024)>>

IsSurrogate(code) == code \in 55296 .. 57343
from_ucs2(content) ==
  LET codes == [i \in 1 .. Len(content) \div 2 |-> 256 * content[2 * i - 1] + content[2 * i]] IN
  IF /\ Len(content) % 2 = 0
     /\ \A i \in DOMAIN codes : ~IsSurrogate(codes[i]) /\ codes[i] < 65535
  THEN <<codes>>
  ELSE <<>>
from_utf8(chars) ==
  LET codes == FlattenSeq([i \in DOMAIN chars |-> Utf16(chars[i])])
      content == FlattenSeq([i \in DOMAIN codes |-> <<codes[i] \div 256, codes[i] % 256>>])
  IN  IF from_ucs2(content) = <<>> THEN <<>> ELSE <<content>>

--------------------------------------------------------------------------------
(* REAL, with words of 16 bits for 64: a sign, 11 bits of exponent and 4   *)
(* of the fraction's 52.  The forms that spell a number out in characters  *)
(* are left to the standard library by the code and are not modelled.      *)
REAL_WORD == 65536
Sign(real) == real \div 32768
Exponent(real) == (real \div 16) % 2048
Fraction(real) == real % 16
PlusInfinity == 32752
MinusInfinity == 65520
NaN == 32760
MinusZero == 32768
Octets(n) == <<n \div 256, n % 256>>

(* decode_f64: the exponent in 16 bits without its bias, the fraction and  *)
(* one.                                                                    *)
Mantissa(real) == Fraction(real) + 1

RealEncode(real) ==
  LET exponent == strip_leading_zeroes(Octets((Exponent(real) - 1023) % REAL_WORD))
      mantissa == strip_leading_zeroes(Octets(Mantissa(real)))
  IN
  CASE Exponent(real) = 0 /\ Sign(real) = 0 -> <<>>
    [] Exponent(real) = 0 /\ Sign(real) = 1 -> <<67>>
    [] Exponent(real) = 2047 /\ Fraction(real) # 0 -> <<66>>
    [] Exponent(real) = 2047 /\ Fraction(real) = 0 -> <<64 + Sign(real)>>
    [] OTHER -> <<128 + 64 * Sign(real) + Len(exponent) - 1>> \o exponent \o mantissa

(* value_len of a real, which asks in another order.                       *)
RealLength(real) ==
  LET exponent == (Exponent(real) - 1023) % REAL_WORD
      size(n) == IF n = 0 THEN 1 ELSE Len(strip_leading_zeroes(Octets(n)))
  IN
  CASE Exponent(real) = 0 /\ Sign(real) = 0 -> 0
    [] Exponent(real) = 0 /\ Sign(real) = 1 -> 1
    [] Exponent(real) = 2047 -> 1
    [] OTHER -> 1 + size(exponent) + size(Mantissa(real))

(* encode_f64: a 16 bit exponent, and the fraction and one, which may be   *)
(* too large and then spoil the exponent.  Additions are checked.          *)
encode_f64(sign, exponent, mantissa) ==
  LET signed == IF exponent >= 32768 THEN exponent - REAL_WORD ELSE exponent
      biased == (signed + 1023) % REAL_WORD
  IN  IF mantissa = 0 \/ signed + 1023 > 32767 THEN Panic
      ELSE <<((sign * 32768) | ((biased * 16) % REAL_WORD)) | (mantissa - 1)>>

RealDecode(content) ==
  LET first == content[1]
      bit(k) == (first \div 2^k) % 2
      pair(k) == (first \div 2^k) % 4
      size == 1 + pair(0)           \* octets of the exponent
      exponent == IF size = 1 THEN content[2] ELSE 256 * content[2] + content[3]
      digits == SubSeq(content, size + 2, Len(content))
      mantissa == FoldLeft(LAMBDA sum, octet : 256 * sum + octet, 0, digits)
  IN
  CASE content = <<>> -> <<0>>
    [] content # <<>> /\ bit(7) = 1 /\ (pair(4) # 0 \/ pair(0) > 1) -> <<>>
    [] content # <<>> /\ bit(7) = 1 /\ pair(4) = 0 /\ pair(0) <= 1 ->
         IF Len(content) <= size \/ Len(digits) > 2 THEN Panic
         ELSE encode_f64(bit(6), exponent, (mantissa * 2^pair(2)) % REAL_WORD)
    [] content # <<>> /\ bit(7) = 0 /\ bit(6) = 1 -> << <<PlusInfinity, MinusInfinity, NaN, MinusZero>>[pair(0) + 1] >>

(* What is equal to a real: a number too small to be normal is written as  *)
(* zero, and there is one NaN.                                             *)
IsNormal(real) ==
  /\ Exponent(real) = 0 => Fraction(real) = 0
  /\ Exponent(real) = 2047 => real \in {PlusInfinity, MinusInfinity, NaN}

--------------------------------------------------------------------------------
(* EncodedPoint of sec1, over a field of one octet: a buffer of a tag and  *)
(* two coordinates, the part that is not used zero.                        *)
Tags == [Identity |-> 0, CompressedEvenY |-> 2, CompressedOddY |-> 3,
         Uncompressed |-> 4, Compact |-> 5]
TagValues == {Tags[t] : t \in DOMAIN Tags}
message_len(tag) ==
  1 + (CASE tag = 0 -> 0 [] tag \in {2, 3, 5} -> 1 [] tag = 4 -> 2)

compress_y(x, y) == IF y % 2 = 1 THEN 3 ELSE 2

identity == <<0, 0, 0>>
from_affine_coordinates(x, y, compress) ==
  IF compress THEN <<compress_y(x, y), x, 0>> ELSE <<4, x, y>>
as_bytes(point) == SubSeq(point, 1, message_len(point[1]))
from_bytes(content) ==
  IF content # <<>> /\ content[1] \in TagValues /\ Len(content) = message_len(content[1])
  THEN <<content \o [i \in 1 .. 3 - Len(content) |-> 0]>>
  ELSE <<>>
(* The variant with its coordinates, and whether y is odd where it is said.*)
coordinates(point) ==
  CASE point[1] = 0 -> [kind |-> "Identity"]
    [] point[1] \in {2, 3} -> [kind |-> "Compressed", x |-> point[2], odd |-> point[1] % 2 = 1]
    [] point[1] = 5 -> [kind |-> "Compact", x |-> point[2]]
    [] point[1] = 4 -> [kind |-> "Uncompressed", x |-> point[2], y |-> point[3]]
compress(point) ==
  LET c == coordinates(point) IN
  IF c.kind = "Uncompressed" THEN from_affine_coordinates(c.x, c.y, TRUE) ELSE point

================================================================================
