------------------------------- MODULE DerHeader -------------------------------
(***************************************************************************)
(* Headers of the der crate: the octets of tags (der/src/tag.rs) and       *)
(* lengths (der/src/length.rs, der/src/length/indefinite.rs), read from a  *)
(* window of the input and written.                                        *)
(*                                                                         *)
(* A first octet is class, constructed bit and number, in units of         *)
(* ClassUnit, CONSTRUCTED_FLAG and 1; the widths are parameters, so that   *)
(* every boundary can be reached with few octets.  What is read from `s`   *)
(* begins after `pos` octets and ends before `limit`; results are          *)
(* sequences, empty for an error, and say where the next octet is.         *)
(***************************************************************************)
EXTENDS Integers, SequencesExt

CONSTANTS
  HalfBase,        \* 128: the bit that marks long lengths and unfinished numbers
  ClassUnit,       \* 64: the class in a first octet
  CONSTRUCTED_FLAG,\* 32: the constructed bit in a first octet
  MASK,            \* 31: the number that announces a number in the octets after it
  LengthOctets,    \* 4: octets of the largest length
  NumberMax,       \* 2^32 - 1: the largest tag number
  MAX_SIZE,        \* 6: octets of the longest tag
  Primitive,       \* numbers of the universal types that are primitive
  OctetString,     \* among them the one BER may construct
  Sequence         \* the universal type that is constructed

Base == 2 * HalfBase
INDEFINITE_LENGTH_OCTET == HalfBase
EOC_TAG == 0
MaxLength == Base ^ LengthOctets - 1
Universal == 0

Err == <<>>
Ok(x) == <<x>>
Then(r, F(_)) == IF r = Err THEN Err ELSE F(r[1])  \* F(r?)

Tag(class, number, constructed) ==
  [class |-> class, number |-> number, constructed |-> constructed]

--------------------------------------------------------------------------------
(* parse_parts for a number that does not fit in the first octet: seven    *)
(* bits of it in every octet up to the first below HalfBase.  It must need *)
(* them all, without leading zeros, and not exceed NumberMax.  Faulty: with*)
(* leading zeros.                                                          *)
NumberIsRefused_padded(value, before, parts) ==
  \/ value < MASK
  \/ \E x \in before : x >= (NumberMax + 1) \div HalfBase

NumberIsRefused(value, before, parts) ==
  \/ value < MASK
  \/ before # {} /\ parts[1] = 0
  \/ \E x \in before : x >= (NumberMax + 1) \div HalfBase

ParseNumber(s, pos, limit) ==
  LET length == IF limit - pos < MAX_SIZE - 1 THEN limit - pos ELSE MAX_SIZE - 1
      parts == [i \in 1 .. length |-> s[pos + i] % HalfBase]
      sofar[i \in 0 .. length] == IF i = 0 THEN 0 ELSE sofar[i - 1] * HalfBase + parts[i]
      ends == {i \in 1 .. length : /\ s[pos + i] < HalfBase
                                   /\ \A j \in 1 .. i - 1 : s[pos + j] >= HalfBase}
      Number(n) ==
        IF NumberIsRefused(sofar[n], {sofar[j] : j \in 1 .. n - 1}, parts) THEN Err
        ELSE Ok([number |-> sofar[n], next |-> pos + n])
  IN  IF ends = {} THEN Err ELSE Number(CHOOSE i \in ends : TRUE)

(* Tag::decode_with_constructed_bit.  BER's constructed octet strings have *)
(* the tag of primitive ones.                                              *)
DecodeTag(s, pos, limit, rules) ==
  LET Answer(tag, constructed, next) ==
        Ok([tag |-> tag, constructed |-> constructed, next |-> next])
      TagOf(class, constructed, number) ==
        CASE class = Universal /\ ~constructed /\ number \in Primitive ->
               Answer(Tag(class, number, FALSE), FALSE, pos + 1)
          [] class = Universal /\ constructed /\ number = OctetString /\ rules = "Ber" ->
               Answer(Tag(class, number, FALSE), TRUE, pos + 1)
          [] class = Universal /\ constructed /\ number = Sequence ->
               Answer(Tag(class, number, TRUE), TRUE, pos + 1)
          [] class # Universal /\ number # MASK ->
               Answer(Tag(class, number, constructed), constructed, pos + 1)
          [] class # Universal /\ number = MASK ->
               Then(ParseNumber(s, pos + 1, limit),
                    LAMBDA n : Answer(Tag(class, n.number, constructed), constructed, n.next))
          [] OTHER -> Err
      Parts(first) == TagOf(first \div ClassUnit,
                            (first \div CONSTRUCTED_FLAG) % 2 = 1,
                            first % CONSTRUCTED_FLAG)
  IN  IF pos >= limit THEN Err ELSE Parts(s[pos + 1])

--------------------------------------------------------------------------------
(* How many digits of base b a number has; ilog2 / 7 + 1 for b = HalfBase. *)
CountDigits(n, b) == CHOOSE k \in 1 .. 8 : n < b ^ k /\ (k = 1 \/ n >= b ^ (k - 1))
Digits(n, b, k) == [i \in 1 .. k |-> (n \div b ^ (k - i)) % b]

(* Length::initial_octet, None for a length that needs no octet after it.  *)
(* Faulty: 0x80 is thought to be one.                                      *)
initial_octet_inclusive(length) ==
  IF length <= HalfBase THEN Err ELSE Ok(HalfBase + CountDigits(length, Base))

initial_octet(length) ==
  IF length < HalfBase THEN Err ELSE Ok(HalfBase + CountDigits(length, Base))

(* Length::decode of a length that is announced.                           *)
DecodeDefinite(s, pos, limit) ==
  LET Definite(length, next) == Ok([length |-> length, indefinite |-> FALSE, next |-> next])
      Long(first, n) ==
        LET value[i \in 0 .. n] == IF i = 0 THEN 0 ELSE value[i - 1] * Base + s[pos + 1 + i]
        IN  IF initial_octet(value[n]) = Ok(first)
            THEN Definite(value[n], pos + 1 + n) ELSE Err
      From(first) ==
        CASE first < HalfBase -> Definite(first, pos + 1)
          [] first - HalfBase \in 1 .. LengthOctets /\ pos + 1 + first - HalfBase <= limit ->
               Long(first, first - HalfBase)
          [] OTHER -> Err
  IN  IF pos >= limit THEN Err ELSE From(s[pos + 1])

IsIndefinite(s, pos, limit) == pos < limit /\ s[pos + 1] = INDEFINITE_LENGTH_OCTET

(* read_eoc.                                                               *)
read_eoc(s, pos, limit) == pos + 2 <= limit /\ s[pos + 1] = 0 /\ s[pos + 2] = 0

(* decode_indefinite_length: where the contents that begin at `pos` end,   *)
(* the end-of-contents octets included.                                    *)
EndOfContents(s, pos, limit) ==
  LET end[p \in 0 .. limit] ==
        LET Skip(after) == IF after > limit THEN Err ELSE end[after]
            Value(tag) ==
              IF ~IsIndefinite(s, tag.next, limit)
              THEN Then(DecodeDefinite(s, tag.next, limit), LAMBDA l : Skip(l.next + l.length))
              ELSE IF tag.constructed THEN Then(end[tag.next + 1], Skip) ELSE Err
        IN  IF p < limit /\ s[p + 1] = EOC_TAG
            THEN IF read_eoc(s, p, limit) THEN Ok(p + 2) ELSE Err
            ELSE Then(DecodeTag(s, p, limit, "Ber"), Value)
  IN  end[pos]

(* Length::decode.                                                         *)
DecodeLength(s, pos, limit, rules) ==
  CASE ~IsIndefinite(s, pos, limit) -> DecodeDefinite(s, pos, limit)
    [] IsIndefinite(s, pos, limit) /\ rules = "Ber" ->
         Then(EndOfContents(s, pos + 1, limit),
              LAMBDA end : Ok([length |-> end - (pos + 1), indefinite |-> TRUE, next |-> pos + 1]))
    [] OTHER -> Err

(* Header::decode.                                                         *)
DecodeHeader(s, pos, limit, rules) ==
  LET Header(t, l) ==
        IF l.indefinite /\ ~t.constructed THEN Err
        ELSE Ok([tag |-> t.tag, constructed |-> t.constructed, length |-> l.length,
                 indefinite |-> l.indefinite, next |-> l.next])
  IN  Then(DecodeTag(s, pos, limit, rules),
           LAMBDA t : Then(DecodeLength(s, t.next, limit, rules), LAMBDA l : Header(t, l)))

--------------------------------------------------------------------------------
(* Encode for Tag, Length and Header, and the lengths they are expected to *)
(* take.  Faulty: the number MASK is written in the first octet.           *)
IsShort_inclusive(number) == number <= MASK

IsShort(number) == number < MASK

TagLen(tag) == IF IsShort(tag.number) THEN 1 ELSE CountDigits(tag.number, HalfBase) + 1

LengthLen(length) == IF length < HalfBase THEN 1 ELSE CountDigits(length, Base) + 1

EncodeTag(tag) ==
  LET first(number) == tag.class * ClassUnit
                       + (IF tag.constructed THEN CONSTRUCTED_FLAG ELSE 0) + number
      k == CountDigits(tag.number, HalfBase)
      digits == Digits(tag.number, HalfBase, k)
  IN  IF IsShort(tag.number) THEN <<first(tag.number)>>
      ELSE <<first(MASK)>> \o [i \in 1 .. k |-> digits[i] + (IF i < k THEN HalfBase ELSE 0)]

EncodeLength(length) ==
  IF initial_octet(length) = Err THEN <<length>>
  ELSE initial_octet(length) \o Digits(length, Base, CountDigits(length, Base))

EncodeHeader(tag, length) == EncodeTag(tag) \o EncodeLength(length)

--------------------------------------------------------------------------------
(* Encodings as trees: a value is [tag, octets, items], with octets when   *)
(* it is primitive and values when it is constructed.                      *)
Leaf(tag, octets) == [tag |-> tag, octets |-> octets, items |-> <<>>]
Node(tag, items) == [tag |-> tag, octets |-> <<>>, items |-> items]

--------------------------------------------------------------------------------
(* Encode for T: the length of the value is computed before it is written. *)
RECURSIVE encoded_len(_)
value_len(v) ==
  IF v.items = <<>> THEN Len(v.octets)
  ELSE FoldLeft(LAMBDA n, item : n + encoded_len(item), 0, v.items)
WithHeader(tag, length) == TagLen(tag) + LengthLen(length) + length
encoded_len(v) == WithHeader(v.tag, value_len(v))

(* for_tlv overflows when the largest length is exceeded.                  *)
RECURSIVE Fits(_)
Fits(v) == encoded_len(v) <= MaxLength /\ \A i \in DOMAIN v.items : Fits(v.items[i])

RECURSIVE Encode(_)
ContentsOf(v) == v.octets \o FlattenSeq([i \in DOMAIN v.items |-> Encode(v.items[i])])
Encode(v) == EncodeHeader(v.tag, value_len(v)) \o ContentsOf(v)
================================================================================
