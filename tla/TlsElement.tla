------------------------------ MODULE TlsElement -------------------------------
(***************************************************************************)
(* Lengths, and the elements vectors are made of: one operator per         *)
(* implementation of Serialize, Deserialize and DeserializeBytes           *)
(* (tls_codec/src/varint.rs, primitives.rs and, for ContentLength and      *)
(* VLBytes, quic_vec.rs).                                                  *)
(*                                                                         *)
(* The two upper bits of the first octet of a variable-length integer say  *)
(* whether it takes one, two, four or eight octets.  ByteBase is 256 in the*)
(* source; here it is any multiple of four, so that lengths of every size  *)
(* can be checked.                                                         *)
(*                                                                         *)
(* path is "bytes" for tls_deserialize_bytes, which is given a slice, and  *)
(* "read" for tls_deserialize, which is given a reader.                    *)
(***************************************************************************)
EXTENDS Integers, SequencesExt, FiniteSetsExt

CONSTANT ByteBase

ASSUME ByteAssumption == ByteBase \in Nat \ {0} /\ ByteBase % 4 = 0

Octets == 0 .. ByteBase - 1
FirstBase == ByteBase \div 4            \* what the first octet holds of the value
Widths == {1, 2, 4, 8}

(* The shifts of a loop over octets, most significant first; a one and n   *)
(* octets of zeros are what the n octets behind an octet weigh it with.    *)
BigEndian(first, s) ==
  LET v[n \in 0 .. Len(s)] == IF n = 0 THEN first ELSE v[n - 1] * ByteBase + s[n]
  IN  v[Len(s)]

Weight(n) == BigEndian(1, [i \in 1 .. n |-> 0])
Room(width) == FirstBase * Weight(width - 1)

MAX == Room(8) - 1
MAX_MLS_LEN == Room(4) - 1

(* A result is a sequence of at most one value: Err carries nothing.       *)
Ok(v) == <<v>>
Err == <<>>
Decoded(value, rest) == Ok([value |-> value, rest |-> rest])

Skip(s, n) == SubSeq(s, n + 1, Len(s))

--------------------------------------------------------------------------------
bytes_len_inclusive(value) == \* Faulty: 0x40 itself in one octet, and so on.
  CHOOSE w \in Widths : value <= Room(w) /\ \A x \in Widths : value <= Room(x) => w <= x

bytes_len(value) ==
  CHOOSE w \in Widths : value < Room(w) /\ \A x \in Widths : value < Room(x) => w <= x

Tag(width) == CHOOSE t \in 0 .. 3 : 2 ^ t = width

(* Big-endian; the tag is or-ed to bits of the first octet that the value, *)
(* being below Room(width), leaves clear.                                  *)
write_bytes(value) ==
  LET width == bytes_len(value)
      octet(i) == (value \div Weight(width - i)) % ByteBase
  IN  [i \in 1 .. width |-> octet(i) + (IF i = 1 THEN Tag(width) * FirstBase ELSE 0)]

calculate_value(octet) == [value |-> octet % FirstBase, len |-> 2 ^ (octet \div FirstBase)]

check_min_len_at_most(value, len, mls) == ~mls \/ bytes_len(value) <= len \* Faulty.

check_min_len(value, len, mls) == ~mls \/ bytes_len(value) = len

(* The same for a slice and for a reader: end of the input before `len`    *)
(* octets is an error.                                                     *)
ReadVarInt(s, mls) ==
  IF s = <<>> THEN Err
  ELSE LET first == calculate_value(s[1])
           value == BigEndian(first.value, SubSeq(s, 2, first.len))
       IN  IF Len(s) < first.len \/ ~check_min_len(value, first.len, mls)
           THEN Err
           ELSE Decoded(value, Skip(s, first.len))

--------------------------------------------------------------------------------
(* ContentLength: with `mls`, lengths of more than 30 bits are refused by  *)
(* new, and so by all that goes through it.                                *)
new(value, mls) == IF mls /\ value > MAX_MLS_LEN THEN Err ELSE Ok(value)

(* DeserializeBytes makes the ContentLength without new ...                *)
ReadLengthBytes(s, mls) == ReadVarInt(s, mls)

(* ... and Deserialize, of a reader, with it.                              *)
ReadLengthRead(s, mls) ==
  LET r == ReadVarInt(s, mls)
  IN  IF r # Err /\ new(r[1].value, mls) = Err THEN Err ELSE r

(* from_usize and the octets written for it.                               *)
WriteLength(n, mls) ==
  IF n > MAX \/ new(n, mls) = Err THEN Err ELSE Ok(write_bytes(n))

--------------------------------------------------------------------------------
Kinds == {"u8", "u16", "unit", "option", "VLBytes"}
Paths == {"bytes", "read"}

(* An unsigned integer of n octets, most significant first.                *)
ReadUnsigned(n, s) ==
  IF Len(s) < n THEN Err
  ELSE Decoded(BigEndian(0, SubSeq(s, 1, n)), Skip(s, n))

WriteUnsigned(n, v) == [i \in 1 .. n |-> (v \div Weight(n - i)) % ByteBase]

(* Option<u8>: an octet that must be 0 or 1, and the value after a 1.      *)
ReadOption(s) ==
  IF s = <<>> \/ s[1] > 1 THEN Err
  ELSE IF s[1] = 0 THEN Decoded(<<>>, Skip(s, 1))
  ELSE LET r == ReadUnsigned(1, Skip(s, 1))
       IN  IF r = Err THEN Err ELSE Decoded(<<r[1].value>>, r[1].rest)

(* read_bytes_bounded: Take ends the reader after n octets, and what it    *)
(* gave until then must be all of them.                                    *)
read_bytes_bounded(s, n) ==
  LET taken == SubSeq(s, 1, IF n < Len(s) THEN n ELSE Len(s))
  IN  IF Len(taken) # n THEN Err ELSE Decoded(taken, Skip(s, n))

(* VLBytes and VLByteVec: a length and that many octets.                   *)
VLBytesOfSlice(s, mls) ==
  LET r == ReadLengthBytes(s, mls)
  IN  IF r = Err \/ Len(r[1].rest) < r[1].value
      THEN Err
      ELSE Decoded(SubSeq(r[1].rest, 1, r[1].value), Skip(r[1].rest, r[1].value))

VLBytesOfReader(s, mls) ==
  LET r == ReadLengthRead(s, mls)
  IN  IF r = Err THEN Err ELSE read_bytes_bounded(r[1].rest, r[1].value)

Read(kind, path, s, mls) ==
  CASE kind = "u8"      -> ReadUnsigned(1, s)
    [] kind = "u16"     -> ReadUnsigned(2, s)
    [] kind = "unit"    -> Decoded("()", s)
    [] kind = "option"  -> ReadOption(s)
    [] kind = "VLBytes" -> IF path = "bytes" THEN VLBytesOfSlice(s, mls) ELSE VLBytesOfReader(s, mls)

(* tls_serialized_len: known before anything is written.  Octets whose     *)
(* length cannot be written count as their contents alone.                 *)
LengthWidth(n, mls) == IF WriteLength(n, mls) = Err THEN 0 ELSE bytes_len(n)
tls_serialize_bytes_len(n, mls) == n + LengthWidth(n, mls)

tls_serialized_len(kind, v, mls) ==
  CASE kind = "u8"      -> 1
    [] kind = "u16"     -> 2
    [] kind = "unit"    -> 0
    [] kind = "option"  -> 1 + Len(v)
    [] kind = "VLBytes" -> tls_serialize_bytes_len(Len(v), mls)

WriteVLBytes(v, mls) ==
  LET length == WriteLength(Len(v), mls)
  IN  IF length = Err THEN Err ELSE Ok(length[1] \o v)

Write(kind, v, mls) ==
  CASE kind = "u8"      -> Ok(WriteUnsigned(1, v))
    [] kind = "u16"     -> Ok(WriteUnsigned(2, v))
    [] kind = "unit"    -> Ok(<<>>)
    [] kind = "option"  -> Ok(<<Len(v)>> \o v)
    [] kind = "VLBytes" -> WriteVLBytes(v, mls)
================================================================================
