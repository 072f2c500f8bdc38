--------------------------------- MODULE Codecs ----------------------------------
(***************************************************************************)
(* The conversions between values and their encodings that the rest of the *)
(* formats is made of: Base16, Base32 and Base64, the contents of the ASN.1*)
(* types, dates, TAI64 labels and elliptic curve points.  A codec is       *)
(* <<kind, parameter>>.  A run converts one value, or one text:            *)
(*                                                                         *)
(*     "value" --Encode--> "written" --Decode--> "read"                    *)
(*     "text"  --------------Decode------------> "read"                    *)
(*                                                                         *)
(* What the modules below return in several ways, <<x>> for a result, <<>> *)
(* for an error and Panic, is `text` and `answer` here.                    *)
(***************************************************************************)
EXTENDS Integers, Sequences, FiniteSets, DerValues, Times
LOCAL INSTANCE SequencesExt
B64 == INSTANCE Base64Encoding
Base == INSTANCE BaseEncodings
PT == INSTANCE PemText
HS == INSTANCE HashStrings
SO == INSTANCE SetOf
TS == INSTANCE TlsSchema
NT == INSTANCE NameText
PE == INSTANCE PasswordEncryption
KD == INSTANCE KeyDocuments

CONSTANTS
  CodecNames,  \* the codecs to try
  Values(_),   \* values of a codec
  Texts(_)     \* texts to be read by a codec, written by nobody

VARIABLES codec, value, text, answer, phase

vars == <<codec, value, text, answer, phase>>

Kind == codec[1]

(* The buffer a streaming encoder is given: as long as is announced, and   *)
(* some octets to spare.                                                   *)
WrappedLength(o, n) == PT!base64_len_wrapped(B64!encoded_len(n, o.padded), o.width, o.ending)
Buffered(o, n) == [padded |-> o.padded, width |-> o.width, ending |-> o.ending,
                   room |-> WrappedLength(o, n) + o.spare]

FromB64(result) == IF result.err = "None" THEN <<result.out>> ELSE <<>>

(* A date as its fields, and what they are made from.                      *)
Fields(dt) == <<dt.year, dt.month, dt.day, dt.hour, dt.minutes, dt.seconds>>
FieldsOf(date) == IF date = <<>> THEN <<>> ELSE <<Fields(date[1])>>
DateOf(f) == from_ymd_hms(f[1], f[2], f[3], f[4], f[5], f[6])
UnixOf(date) == IF date = <<>> THEN <<>> ELSE <<date[1].unix_duration>>

(* The parameters of a codec for encryption: those of PBES1, others that   *)
(* are given, or those made by a constructor.                              *)
SchemeOf(o) ==
  CASE o.how = "pbes1" -> <<>> [] o.how = "given" -> <<o.with>> [] OTHER -> PE!Generated(o.with)
Pbes2Encode(o, scheme, plain) ==
  IF scheme = Panic THEN Panic
  ELSE IF o.spare = <<>> THEN PE!Encrypted(scheme, o.password, plain)
  ELSE PE!EncryptedInPlace(scheme, o.password, plain, Len(plain) + o.spare[1])
Pbes2Decode(o, scheme, octets) ==
  IF scheme = Panic THEN Panic ELSE PE!Decrypted(scheme, o.password, octets)

EncodeOf(c, v) ==
  CASE c[1] = "Base16" -> <<Base!Base16Encode(c[2], v)>>
    [] c[1] = "Serde" -> <<Base!serialize_hex_or_bin(c[2], v)>>
    [] c[1] = "Base32" -> <<Base!Base32Encode(c[2], v)>>
    [] c[1] = "Base64" -> <<B64!encode(c[2], v)>>
    [] c[1] = "Encoder" -> PT!EncodePieces(Buffered(c[2], Len(v)), v, c[2].piece)
    [] c[1] \in {"Pem", "PemDetect"} -> PT!PemEncode(c[2], v)
    [] c[1] = "Params" -> HS!ParamsText(HS!AfterCalls(v))
    [] c[1] = "Salt" -> IF HS!SaltNew(v) = <<>> THEN <<>> ELSE <<HS!SaltDisplay(v)>>
    [] c[1] = "Output" -> IF HS!OutputNew(v) = <<>> THEN <<>> ELSE <<B64!encode(FALSE, v)>>
    [] c[1] = "PasswordHash" -> <<HS!PasswordHashDisplay(v)>>
    [] c[1] = "Mcf" -> HS!McfBuild(v)
    [] c[1] = "SetOf" -> <<SO!AfterSetCalls(c[2], v)>>
    [] c[1] = "SetOfVec" -> <<SO!SetFrom(v)>>
    [] c[1] = "SetOfRef" -> IF SO!SetOfRefFrom(v.items) = <<>> THEN <<>> ELSE <<v.items>>
    [] c[1] = "SequenceOf" -> <<SO!AfterAdds(c[2], v)>>
    [] c[1] = "array" -> <<v>>
    [] c[1] = "Tls" -> TS!Serialized(c[2].type, v)
    [] c[1] = "SctList" -> TS!ListNew(v)
    [] c[1] = "Name" -> <<NT!NameText(v)>>
    [] c[1] = "Pbes2" -> Pbes2Encode(c[2], SchemeOf(c[2]), v)
    [] c[1] = "Pkcs12Key" -> PE!derive_key_utf8(v, c[2])
    [] c[1] = "Key" -> KD!KeyWritten(KD!Types[c[2].type], c[2].way, v)
    [] c[1] = "EncryptedKey" ->
         IF c[2].pem THEN KD!to_encrypted_pem(c[2], v) ELSE KD!encrypt_with_params(c[2], v)
    [] c[1] = "Chain" -> KD!ChainText(v)
    [] c[1] = "bool" -> <<BoolEncode(v)>>
    [] c[1] = "unsigned" -> <<UnsignedEncode(v)>>
    [] c[1] = "signed" -> <<SignedEncode(v)>>
    [] c[1] \in {"UintRef", "Uint"} -> <<UintEncode(v)>>
    [] c[1] \in {"IntRef", "Int", "SerialNumber"} -> <<IntEncode(v)>>
    [] c[1] = "BitString" -> <<BitStringEncode(v)>>
    [] c[1] = "FlagSet" -> <<FlagSetEncode(v)>>
    [] c[1] \in {"PrintableString", "Ia5String"} -> <<v>>
    [] c[1] = "BmpString" -> from_utf8(v)
    [] c[1] = "f64" -> <<RealEncode(v)>>
    [] c[1] = "EncodedPoint" -> <<as_bytes(v)>>
    [] c[1] = "UtcTime" -> UtcEncode(v)
    [] c[1] = "GeneralizedTime" -> GeneralizedEncode(v)
    [] c[1] = "GeneralizedTimeNanos" -> NanosEncode(v)
    [] c[1] = "Time" -> TimeEncode(v)
    [] c[1] = "DateTime" -> <<Display(v)>>
    [] c[1] = "Unix" -> FieldsOf(from_unix_duration(v))
    [] c[1] = "Tai64" -> IF from_unix(v) = <<>> THEN <<>> ELSE <<from_unix(v)>>
    [] c[1] = "Tai64N" -> Shifted(<<UNIX_EPOCH, c[2]>>, v)

DecodeOf(c, t) ==
  CASE c[1] = "Base16" -> Base!Base16Decode(c[2], t)
    [] c[1] = "Serde" -> Base!deserialize_hex_or_bin(c[2], t)
    [] c[1] = "Base32" -> Base!Base32Decode(c[2], t)
    [] c[1] = "Base64" -> FromB64(B64!decode(c[2], t, Len(t)))
    [] c[1] = "Encoder" ->
         PT!DecodeLines([text |-> t, width |-> c[2].width, padded |-> c[2].padded])
    [] c[1] = "Pem" -> PT!PemDecode(c[2], t)
    [] c[1] = "PemDetect" -> PT!PemDetect(t)
    [] c[1] = "Params" -> HS!ParamsFromStr(t)
    [] c[1] = "Salt" -> HS!SaltFromB64(t)
    [] c[1] = "Output" -> HS!OutputDecode(t)
    [] c[1] = "PasswordHash" -> HS!PasswordHashNew(t)
    [] c[1] = "Mcf" -> HS!McfParse(t)
    [] c[1] = "SetOf" -> SO!SetDecode(c[2], t)
    [] c[1] = "SetOfVec" -> SO!SetDecode(SO!Unbounded, t)
    [] c[1] = "SetOfRef" -> SO!SetOfRefDecode(t)
    [] c[1] = "SequenceOf" -> SO!SequenceDecode(c[2], t)
    [] c[1] = "array" -> SO!ArrayDecode(c[2], t)
    [] c[1] = "Tls" -> TS!Deserialized(c[2].type, c[2].path, t)
    [] c[1] = "SctList" -> TS!Timestamps(t)
    [] c[1] = "Name" -> NT!NameFromStr(t)
    [] c[1] = "Pbes2" -> Pbes2Decode(c[2], SchemeOf(c[2]), t)
    [] c[1] = "Key" -> KD!KeyRead(KD!Types[c[2].type], c[2].way, t)
    [] c[1] = "EncryptedKey" ->
         IF c[2].pem THEN KD!from_encrypted_pem(c[2], t) ELSE KD!from_encrypted_der(c[2], t)
    [] c[1] = "Chain" -> KD!load_pem_chain(t)
    [] c[1] = "bool" -> BoolDecode(t)
    [] c[1] = "unsigned" -> UnsignedDecode(c[2], t)
    [] c[1] = "signed" -> SignedDecode(c[2], t)
    [] c[1] \in {"UintRef", "Uint"} -> UintDecode(t)
    [] c[1] \in {"IntRef", "Int"} -> IntDecode(t)
    [] c[1] = "SerialNumber" -> SerialDecode(c[2], t)
    [] c[1] = "BitString" -> BitStringDecode(t)
    [] c[1] = "FlagSet" -> FlagSetDecode(t)
    [] c[1] = "PrintableString" -> PrintableDecode(t)
    [] c[1] = "Ia5String" -> Ia5Decode(t)
    [] c[1] = "BmpString" -> from_ucs2(t)
    [] c[1] = "f64" -> RealDecode(t)
    [] c[1] = "EncodedPoint" -> from_bytes(t)
    [] c[1] = "UtcTime" -> UtcDecode(t)
    [] c[1] = "GeneralizedTime" -> GeneralizedDecode(t)
    [] c[1] = "GeneralizedTimeNanos" -> NanosDecode(t)
    [] c[1] = "Time" -> TimeDecode(t)
    [] c[1] = "DateTime" -> FromStr(t)
    [] c[1] = "Unix" -> UnixOf(DateOf(t))
    [] c[1] = "Tai64" -> to_unix(t[1])
    [] c[1] = "Tai64N" -> <<duration_since(t, <<UNIX_EPOCH, c[2]>>)>>

Init ==
  /\ codec \in CodecNames
  /\ answer = <<>>
  /\ \/ /\ phase = "value" /\ text = <<>>
        /\ \E v \in Values(codec) : value = <<v>>
     \/ /\ phase = "text" /\ value = <<>>
        /\ text \in Texts(codec)

Encode ==
  /\ phase = "value"
  /\ LET written == EncodeOf(codec, value[1]) IN
       \/ written \in {<<>>, Panic} /\ phase' = "refused" /\ text' = text
       \/ written \notin {<<>>, Panic} /\ phase' = "written" /\ text' = written[1]
  /\ UNCHANGED <<codec, value, answer>>

(* Nothing is read back from a derived key.                                *)
Decode ==
  /\ phase \in {"written", "text"} /\ Kind # "Pkcs12Key"
  /\ answer' = DecodeOf(codec, text)
  /\ phase' = "read"
  /\ UNCHANGED <<codec, value, text>>

Next == Encode \/ Decode

Spec == Init /\ [][Next]_vars

--------------------------------------------------------------------------------
(* The lengths that value_len and encoded_len announce.                    *)
EncryptedLength(scheme, n) ==
  IF PE!IsAead(scheme) THEN n + PE!TagSize ELSE n + PE!PadLength(n, PE!BlockSize(scheme))
AnnouncedLength(c, v) ==
  CASE c[1] = "Base16" -> 2 * Len(v)
    [] c[1] = "Base32" -> Base!encoded_len(c[2], Len(v))
    [] c[1] = "Base64" -> B64!encoded_len(Len(v), c[2])
    [] c[1] = "Encoder" -> WrappedLength(c[2], Len(v))
    [] c[1] \in {"Pem", "PemDetect"} ->
         PT!encapsulated_len_wrapped(v[1], c[2].width, c[2].ending, Len(v[2]))
    [] c[1] \in {"Salt", "Output"} -> B64!encoded_len(Len(v), FALSE)
    [] c[1] = "Tls" -> TS!Size(c[2].type, v)
    [] c[1] = "Pbes2" -> EncryptedLength(SchemeOf(c[2])[1].scheme, Len(v))
    [] c[1] = "Pkcs12Key" -> v.len
    [] c[1] = "Key" /\ c[2].way # "der" ->
         PT!encapsulated_len_wrapped(KD!Types[c[2].type].label, 64, "LF", Len(v))
    [] c[1] = "f64" -> RealLength(v)
    [] c[1] = "EncodedPoint" -> message_len(v[1])
    [] c[1] = "UtcTime" -> UTC_LENGTH
    [] c[1] = "GeneralizedTime" -> GENERALIZED_LENGTH
    [] c[1] = "GeneralizedTimeNanos" -> NanosLength(v)
    [] OTHER -> Len(text)

(* Values that are not what the type stands for: numbers with redundant    *)
(* octets or none, which the constructors of the signed types let in;      *)
(* reals that have no encoding of their own, times with the wrong tag for  *)
(* their year; no octets, which the decoder of Base64 lines refuses, and   *)
(* the labels of PEM documents that begin with a space; PHC parameters     *)
(* after a refused call that left something in the buffer, hashes without  *)
(* the salt, and a parameter that looks like the version; empty fields of  *)
(* a modular crypt hash; skipped fields of a TLS struct that are not their *)
(* default, and variants with the discriminant of an earlier one; names    *)
(* without an attribute, and attributes shown as strings whose type has    *)
(* another kind of string or shares its name, or with an escaped backslash *)
(* before an escaped separator; sequences that are not the key.            *)
AttributeIsLost(a) ==
  /\ NT!IsNamed(a)
  /\ \/ a.tag # NT!TagFor(a.oid)
     \/ \E i \in NT!shortest_name_by_oid(a.oid) : NT!by_name(NT!DB[i][2]) # <<a.oid>>
     \/ \E i \in 1 .. Len(a.contents) - 1 :
          a.contents[i] = NT!Backslash /\ a.contents[i + 1] \in {NT!Comma, NT!Plus}
WithLeft(was, p) ==
  [p |-> p, left |-> was.left \/ (p.kept = was.p.kept /\ p.text # was.p.text)]
LeavesSomething(calls) ==
  FoldLeft(LAMBDA was, call : WithLeft(was, HS!Call(was.p, call)),
           [p |-> HS!NoParams, left |-> FALSE], calls).left
NotThis(type, octets) == Len(octets) < 3 \/ octets[3] # type.first
IsWhole(octets) == Len(octets) > 1 /\ octets[1] = KD!SEQUENCE /\ octets[2] = Len(octets) - 2
Malformed(c, v) ==
  CASE c[1] \in {"UintRef", "Uint"} -> v = <<>>
    [] c[1] \in {"IntRef", "Int", "SerialNumber"} ->
         v = <<>> \/ (Len(v) > 1 /\ v[1] = 0 /\ v[2] < 128)
    [] c[1] = "f64" -> ~IsNormal(v)
    [] c[1] = "Time" -> v[1] = 2 /\ v[2].year <= UTC_MAX_YEAR
    [] c[1] = "Encoder" -> v = <<>>
    [] c[1] \in {"Pem", "PemDetect"} ->
         v[2] = <<>> \/ (v[1] # <<>> /\ PT!is_wsp(v[1][1]))
    [] c[1] = "Params" -> LeavesSomething(v)
    [] c[1] = "PasswordHash" ->
         \/ v.hash # <<>> /\ v.salt = <<>>
         \/ v.version = <<>> /\ Len(v.params) = 1 /\ v.params[1][2] = <<HS!LetterV>>
    [] c[1] = "Mcf" -> \E i \in DOMAIN v : v[i] = <<"base64", <<>>>>
    [] c[1] = "Tls" -> TS!Lossy(c[2].type, v)
    [] c[1] = "Name" ->
         v = <<>> \/ \E k \in DOMAIN v : v[k] = <<>> \/ \E i \in DOMAIN v[k] : AttributeIsLost(v[k][i])
    [] c[1] = "Key" -> NotThis(KD!Types[c[2].type], v)
    [] c[1] = "EncryptedKey" -> ~IsWhole(v) \/ NotThis(KD!Types.PrivateKeyInfo, v)
    [] c[1] = "Chain" -> \E i \in DOMAIN v : NotThis(KD!Types.Certificate, v[i])
    [] OTHER -> FALSE

(* What a value is read back as: of the calls that build a string, those   *)
(* that succeeded.                                                         *)
Kept(c, v) ==
  CASE c[1] = "Params" -> HS!AfterCalls(v).kept
    [] c[1] = "Mcf" ->
         <<v[1]>> \o [i \in DOMAIN HS!Pushed(v) |-> <<"str", HS!FieldOf(HS!Pushed(v)[i])>>]
    [] c[1] = "SetOf" -> SO!AfterSetCalls(c[2], v)
    [] c[1] = "SetOfVec" -> SO!SetFrom(v)
    [] c[1] = "SequenceOf" -> SO!AfterAdds(c[2], v)
    [] OTHER -> v

(* Values that cannot be written: outside the range of the other type or   *)
(* of the encoding; a label with other characters; and octets whose last   *)
(* block is broken by the end of a line, in a buffer that has just the     *)
(* length announced; types that do not compile, and TLS vectors longer than*)
(* their length field can say.                                             *)
BreaksLastBlock(o, n) ==
  LET before == 4 * ((n - 1) \div 3)
      len == B64!encoded_len(n, o.padded)
  IN  o.width > 0 /\ before > 0 /\ (len - 1) \div o.width > (before - 1) \div o.width
Unusable(kdf, size) ==
  \/ kdf.key_length \notin {<<>>, <<size>>}
  \/ kdf.name = "Pbkdf2" /\ kdf.prf = "HmacWithSha1"
  \/ kdf.name = "Scrypt" /\ kdf.cost \notin {2^k : k \in 0 .. 30}
NoParameters(o) ==
  \/ Len(o.with.salt) > 32
  \/ o.with.kdf = "Pbkdf2" /\ o.with.count > 100000000
  \/ o.with.kdf = "Scrypt" /\ o.with.params.r > 65535
WrongRoom(scheme, n, spare) ==
  /\ spare # <<>>
  /\ IF PE!IsAead(scheme) THEN spare # <<16>> ELSE n + spare[1] < EncryptedLength(scheme, n)
Refuses(kdf, scheme, n, spare) ==
  scheme = "DesCbc" \/ Unusable(kdf, PE!KeySizes[scheme]) \/ WrongRoom(scheme, n, spare)
CannotEncrypt(o, result, n) ==
  CASE o.how = "pbes1" -> TRUE
    [] o.how = "generated" /\ result \in {<<>>, Panic} -> NoParameters(o)
    [] OTHER -> Refuses(result[1].kdf, result[1].scheme, n, o.spare)
CannotBeWritten(c, v) ==
  CASE c[1] = "UtcTime" -> v.year > UTC_MAX_YEAR
    [] c[1] = "Unix" -> v[1] > MAX_DAY
    [] c[1] = "Tai64" -> v > 127 - UNIX_EPOCH + 27
    [] c[1] = "Tai64N" -> 
         NANOS_PER_SECOND * UNIX_EPOCH + c[2] + v[1] * (NANOS_PER_SECOND * v[2][1] + v[2][2])
           \notin 0 .. NANOS_PER_SECOND * WORD - 1
    [] c[1] = "BmpString" -> \E i \in DOMAIN v : v[i] >= 65535
    [] c[1] = "Encoder" -> c[2].spare = 0 /\ (v = <<>> \/ BreaksLastBlock(c[2], Len(v)))
    [] c[1] \in {"Pem", "PemDetect"} -> ~PT!validate_label(v[1])
    [] c[1] = "Salt" -> Len(v) \notin HS!SALT_MIN .. HS!SALT_MAX
    [] c[1] = "Output" -> Len(v) \notin HS!OUTPUT_MIN .. HS!OUTPUT_MAX
    [] c[1] = "Params" -> LeavesSomething(v)
    [] c[1] = "Mcf" -> ~HS!IsId(v[1][2])
    [] c[1] = "Tls" -> ~TS!Compiles(c[2].type) \/ (c[2].type = <<"bytes", 1>> /\ Len(v) > 255)
    [] c[1] = "SetOfRef" -> \E i \in 1 .. Len(v.items) - 1 : v.items[i] > v.items[i + 1]
    [] c[1] = "Pbes2" -> CannotEncrypt(c[2], SchemeOf(c[2]), Len(v))
    [] c[1] = "Pkcs12Key" -> v.rounds < 1 \/ \E i \in DOMAIN v.password : v.password[i] >= 65535
    [] c[1] = "Key" -> ~IsWhole(v)
    [] OTHER -> FALSE

(* Every value that can be written is, with the length that was announced  *)
(* for it, and read back as itself unless it is malformed, whatever the    *)
(* codec (the decode_value and encode_value of the types in der/src/asn1,  *)
(* decode and encode of the base encodings and of PEM).                    *)
ReadsBackWhatWasWritten ==
  /\ phase = "refused" => CannotBeWritten(codec, value[1])
  /\ phase = "written" => Len(text) = AnnouncedLength(codec, value[1])
  /\ phase = "read" /\ value # <<>> =>
       (answer = <<Kept(codec, value[1])>> <=> ~Malformed(codec, value[1]))

--------------------------------------------------------------------------------
(* What a codec accepts besides what it writes.                            *)
Unpadded(t, pad) == SelectSeq(t, LAMBDA ch : ch # pad)
(* Ends of line other than the codec's, one too many before the last line  *)
(* of a document, or one after the text itself; text before a document, or *)
(* no end of line after it.                                                *)
IsEol(t, k) == t[k] \in {B64!CR, B64!LF}
OtherEnds(t, e) ==
  \E k \in DOMAIN t :
    \/ t[k] = B64!CR /\ (e = "LF" \/ (e = "CRLF" /\ ~(k < Len(t) /\ t[k + 1] = B64!LF)))
    \/ t[k] = B64!LF /\ (e = "CR" \/ (e = "CRLF" /\ ~(k > 1 /\ t[k - 1] = B64!CR)))
LooseDocument(t, eol) ==
  \/ ~IsPrefix(PT!PRE_ENCAPSULATION_BOUNDARY, t)
  \/ ~IsSuffix(eol, t)
  \/ \E k \in DOMAIN t : IsPrefix(eol \o eol, SubSeq(t, k, Len(t)))
(* Octets after the value of a document; what follows the end of one is    *)
(* not the beginning of the next.                                          *)
LongerThanItsValue(octets) == octets[2] + 2 < Len(octets)
HasMore(t) == LongerThanItsValue(PT!PemDecode(KD!PEM, t)[1][2])
Pieces(t) ==
  LET ends == {0} \union {k \in DOMAIN t : k >= 25 /\ SubSeq(t, k - 24, k) = KD!END_BOUNDARY}
  IN  {SubSeq(t, a + 1, b) : <<a, b>> \in {p \in ends \X ends : p[1] < p[2] /\ ends \cap p[1] + 1 .. p[2] - 1 = {}}}
LooseChain(t) ==
  \/ ~IsSuffix(KD!END_BOUNDARY \o PT!Endings.LF, t)
  \/ LooseDocument(t, PT!Endings.LF)
  \/ \E p \in Pieces(t) :
       \/ HasMore(p)
       \/ p # SubSeq(t, 1, Len(p)) /\ ~IsPrefix(PT!Endings.LF \o PT!PRE_ENCAPSULATION_BOUNDARY, p)
Liberty(c, t) ==
  CASE c[1] = "Base16" -> c[2] = "mixed" /\ \E i \in DOMAIN t : t[i] > 15
    [] c[1] = "Serde" ->
         /\ c[2].readable
         /\ \/ \E i \in DOMAIN t : t[i] \in (IF c[2].upper THEN Base!Lower ELSE Base!Upper)
            \/ c[2].of = "array" /\ Len(t) < 2 * c[2].room
    [] c[1] = "Base32" ->
         LET chars == Unpadded(t, Base!Pad32) IN
         chars # <<>> /\ chars[Len(chars)] % 2^((5 * Len(chars)) % 8) # 0
    [] c[1] = "FlagSet" ->
         LET bits == BitStringDecode(t)[1]
             n == bit_len(bits)
         IN  \/ n > 0 /\ ~get(bits, n - 1)
             \/ \E i \in n .. 8 * Len(bits.bytes) - 1 : get(bits, i)
             \/ \E i \in 0 .. n - 1 : get(bits, i) /\ i \notin Known
    [] c[1] = "Time" -> t[1] = 2 /\ TimeDecode(t)[1][2].year <= UTC_MAX_YEAR
    [] c[1] = "Encoder" -> OtherEnds(t, c[2].ending) \/ IsEol(t, Len(t))
    [] c[1] = "Params" ->
         \E i, j \in DOMAIN HS!Params(t) :
           i < j /\ HS!PairOf(HS!Params(t)[i])[1] = HS!PairOf(HS!Params(t)[j])[1]
    [] c[1] \in {"SetOf", "SetOfVec"} -> \E i, j \in DOMAIN t : i < j /\ t[i] > t[j]
    [] c[1] = "SetOfRef" -> \E i \in DOMAIN t : t[i] = SO!Foreign
    [] c[1] = "Pem" -> OtherEnds(t, c[2].ending) \/ LooseDocument(t, PT!Endings[c[2].ending])
    [] c[1] = "Pbes2" -> SchemeOf(c[2])[1].scheme = "DesCbc"
    [] c[1] = "Key" /\ c[2].way # "der" ->
         \/ OtherEnds(t, "LF") \/ LooseDocument(t, PT!Endings.LF)
         \/ c[2].way = "pem" /\ HasMore(t)
    [] c[1] = "EncryptedKey" /\ c[2].pem -> OtherEnds(t, "LF") \/ LooseDocument(t, PT!Endings.LF)
    [] c[1] = "Chain" -> t # <<>> /\ (OtherEnds(t, "LF") \/ LooseChain(t))
    [] OTHER -> FALSE

Accepted(result) == result # <<>> /\ result # Panic

(* A text that is accepted is what would be written for its value, so that *)
(* a value has one encoding: but for letters of either case, the unused    *)
(* bits of Base32, the unknown or trailing bits of a flag set, a           *)
(* GeneralizedTime where the profile of certificates wants UTCTime, the    *)
(* ends of lines, repeated PHC parameters, the elements of an owned SET OF *)
(* in any order, of a borrowed one elements of other types, and of an      *)
(* array in a format that people read only its first octets; a document may*)
(* go on after its value where PEM is read as a stream, and DES is only for*)
(* decryption.  Reals are                                                  *)
(* left out, as their decoder checks hardly anything, and names, which may *)
(* be written in many ways.  (decode_value in der/src/asn1,                *)
(* validate_last_block, decode_inner, remove_padding.)                     *)
Again(c, a) == IF c[1] = "SetOf" THEN << <<"extend", a>> >> ELSE a
ReadsOneEncoding ==
  phase = "read" /\ value = <<>> /\ Accepted(answer) /\ Kind \notin {"f64", "Name"} =>
    (EncodeOf(codec, Again(codec, answer[1])) = <<text>> <=> ~Liberty(codec, text))

--------------------------------------------------------------------------------
(* Bit k, from 0, of numbers of n bits; bit k of an integer's octets from  *)
(* the right, its sign before the first.                                   *)
Bit(s, n, k) == (s[k \div n + 1] \div 2^(n - 1 - (k % n))) % 2
SignedBit(s, k) ==
  LET i == 8 * Len(s) - 1 - k IN IF i >= 0 THEN Bit(s, 8, i) ELSE Bit(s, 8, 0)
UnsignedBit(s, k) ==
  LET i == 8 * Len(s) - 1 - k IN IF i >= 0 THEN Bit(s, 8, i) ELSE 0

SameBits(bytes, chars, n) ==
  /\ Len(bytes) = (n * Len(chars)) \div 8
  /\ \A k \in 0 .. 8 * Len(bytes) - 1 : Bit(bytes, 8, k) = Bit(chars, n, k)

Nibbles(t) == [i \in DOMAIN t |-> IF t[i] > 15 THEN t[i] - 6 ELSE t[i]]

(* Days from 1970 to a date, counted.                                      *)
InLeapYear(y) == y % 400 = 0 \/ (y % 4 = 0 /\ y % 100 # 0)
DaysUntil(y, m, d) ==
  365 * (y - 1970) + Cardinality({k \in 1970 .. y - 1 : InLeapYear(k)})
    + (IF m > 2 /\ InLeapYear(y) THEN 1 ELSE 0) + MONTHS[m][1] + d - 1
Says(dt, y) ==
  /\ dt.unix_duration = <<DaysUntil(y, dt.month, dt.day),
                          3600 * dt.hour + 60 * dt.minutes + dt.seconds, 0>>
  /\ dt.year = y

Number(t, first, n) == FoldLeft(LAMBDA sum, digit : 10 * sum + digit, 0, SubSeq(t, first, first + n - 1))

(* The separators of a name as RFC 4514 has them: with an even number of   *)
(* backslashes before them.                                                *)
BackslashesBefore(t, k) == Cardinality({i \in 1 .. k - 1 : \A j \in i .. k - 1 : t[j] = NT!Backslash})
Separators(t) == {k \in DOMAIN t : t[k] \in {NT!Comma, NT!Plus} /\ BackslashesBefore(t, k) % 2 = 0}
MissesAnEscape(t) ==
  \E k \in DOMAIN t \ Separators(t) : t[k] \in {NT!Comma, NT!Plus} /\ BackslashesBefore(t, k) > 1
Attributes(v) == FoldLeft(LAMBDA n, rdn : n + Len(rdn), 0, v)

(* A key of PKCS#12 as RFC 7292 has it, with the blocks of I as numbers.   *)
BlockValue(octets, j) == 256 * octets[2 * j - 1] + octets[2 * j]
BlocksOf(octets) == [j \in 1 .. Len(octets) \div 2 |-> BlockValue(octets, j)]
OctetsOfBlocks(blocks) ==
  FlattenSeq([j \in DOMAIN blocks |-> <<blocks[j] \div 256, blocks[j] % 256>>])
FirstOctets(of) ==
  PE!Copies(of.salt) \o PE!Copies(FlattenSeq([k \in DOMAIN of.password |->
                                   <<of.password[k] \div 256, of.password[k] % 256>>]) \o <<0, 0>>)
PartOf(of, size, octets) == PE!Iterated(<<of.id, of.id>> \o octets, size, of.rounds)
PlusPart(blocks, A) == [j \in DOMAIN blocks |-> (blocks[j] + 256 * A[1] + A[(1 % Len(A)) + 1] + 1) % 65536]
NextOctets(of, size, octets) == OctetsOfBlocks(PlusPart(BlocksOf(octets), PartOf(of, size, octets)))
IsDerivedKey(of, size, key) ==
  LET I[k \in 1 .. of.len + 1] ==
        IF k = 1 THEN FirstOctets(of) ELSE NextOctets(of, size, I[k - 1])
  IN  \A n \in DOMAIN key : key[n] = PartOf(of, size, I[((n - 1) \div size) + 1])[((n - 1) % size) + 1]

(* The value v is what the text t stands for.                              *)
Means(c, v, t) ==
  CASE c[1] = "Base16" -> SameBits(v, Nibbles(t), 4)
    [] c[1] = "Serde" -> c[2].readable => SameBits(SubSeq(v, 1, Len(t) \div 2), Nibbles(t), 4)
    [] c[1] = "Base32" -> SameBits(v, Unpadded(t, Base!Pad32), 5)
    [] c[1] \in {"Base64", "Encoder", "Salt", "Output"} ->
         SameBits(v, SelectSeq(t, LAMBDA ch : ch \in B64!Sextets), 6)
    [] c[1] \in {"unsigned", "Uint", "UintRef"} ->
         \A k \in 0 .. 8 * (Len(v) + 1) - 1 : SignedBit(t, k) = UnsignedBit(v, k)
    [] c[1] = "signed" -> \A k \in 0 .. 8 * (Len(v) + 1) - 1 : SignedBit(t, k) = SignedBit(v, k)
    [] c[1] = "FlagSet" ->
         \A i \in Known : i \in v <=> (i < 8 * Len(t) - 8 - t[1] /\ Bit(t, 8, i + 8) = 1)
    [] c[1] = "EncodedPoint" ->
         /\ \A i \in 1 .. 3 : v[i] = (IF i \in DOMAIN t THEN t[i] ELSE 0)
         /\ LET before == coordinates(v)
                after == coordinates(compress(v))
            IN  before.kind = "Uncompressed" =>
                  after = [kind |-> "Compressed", x |-> before.x, odd |-> before.y % 2 = 1]
    [] c[1] = "UtcTime" -> Says(v, Number(t, 1, 2) + (IF Number(t, 1, 2) < 50 THEN 2000 ELSE 1900))
    [] c[1] \in {"GeneralizedTime", "DateTime"} -> Says(v, Number(t, 1, 4))
    [] c[1] = "GeneralizedTimeNanos" ->
         /\ Says(v.datetime, Number(t, 1, 4))
         /\ Len(t) > 15 => Number(t, 16, Len(t) - 16) * 10^(25 - Len(t)) = v.nanoseconds
    [] c[1] = "Unix" -> v[1] = DaysUntil(t[1], t[2], t[3])
    [] c[1] = "Tai64N" ->
         /\ t[2] < NANOS_PER_SECOND
         /\ NANOS_PER_SECOND * (t[1] - UNIX_EPOCH) + t[2] - c[2] =
              v[1] * (NANOS_PER_SECOND * v[2][1] + v[2][2])
    [] c[1] = "Pkcs12Key" -> IsDerivedKey(v, c[2], t)
    [] c[1] = "Name" -> Attributes(v) = Cardinality(Separators(t)) + 1 <=> ~MissesAnEscape(t)
    [] OTHER -> TRUE

(* A text and the value it is read as, or that it was written for, mean    *)
(* the same: the same bits, the same number in two's complement, the same  *)
(* day of the calendar, the same time, the same flags.                     *)
MeansWhatItSays ==
  /\ phase = "written" /\ ~Malformed(codec, value[1]) => Means(codec, value[1], text)
  /\ phase = "read" /\ Accepted(answer) => Means(codec, answer[1], text)

--------------------------------------------------------------------------------
(* value_cmp of two values with their contents, as <<-1>>, <<0>> or <<1>>; *)
(* <<>> for an error.                                                      *)
CompareOf(c, a, b, written, other) ==
  CASE c[1] \in {"unsigned", "signed"} -> value_cmp(16, written, other)
    [] c[1] \in {"UintRef", "IntRef", "PrintableString", "Ia5String"} ->
         <<Lexicographic(a, b)>>
    [] c[1] = "EncodedPoint" -> <<Lexicographic(as_bytes(a), as_bytes(b))>>
    [] c[1] \in {"Uint", "Int", "SerialNumber"} -> <<LengthFirst(a, b)>>
    [] c[1] = "BitString" ->
         <<BitStringCompare(a, b)>>
    [] c[1] = "FlagSet" -> <<FlagSetCompare(a, b)>>
    [] c[1] \in {"UtcTime", "GeneralizedTime"} -> <<Lexicographic(Fields(a), Fields(b))>>

(* The kinds that have an order which is that of their encodings: not the  *)
(* times with two digits for the year, the borrowed numbers without sign,  *)
(* and the flags, whose first is the highest bit.                          *)
Ordered == {"unsigned", "signed", "IntRef", "Uint", "Int", "SerialNumber", "BitString",
            "PrintableString", "Ia5String", "EncodedPoint", "GeneralizedTime"}

(* Two values with contents of one length compare as their encodings do,   *)
(* octet by octet, which is what a SET OF is sorted by; the contents of    *)
(* native integers are compared up to the buffer's length of 16 octets     *)
(* (value_cmp of the types in der/src/asn1).                               *)
OrderIsThatOfContents ==
  phase = "written" /\ Kind \in Ordered /\ Len(text) <= 16 /\ ~Malformed(codec, value[1]) =>
    \A v \in Values(codec) :
      LET other == EncodeOf(codec, v) IN
      other # <<>> /\ Len(other[1]) = Len(text) /\ ~Malformed(codec, v) =>
        CompareOf(codec, value[1], v, text, other[1]) = <<Lexicographic(text, other[1])>>

(* decode_in_place of Base64 overwrites the text while it reads it: it     *)
(* returns what decode returns, and accepts besides only texts whose       *)
(* unused bits are not zero.                                               *)
InPlaceAgrees ==
  phase = "read" /\ Kind = "Base64" =>
    LET there == FromB64(B64!decode_in_place(codec[2], text)) IN
      /\ answer # <<>> => there = answer
      /\ there # <<>> /\ answer = <<>> =>
           LET again == EncodeOf(codec, there[1])[1] IN
           again # text /\ Len(again) = Len(text)

================================================================================
