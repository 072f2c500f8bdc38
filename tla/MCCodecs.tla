-------------------------------- MODULE MCCodecs ---------------------------------
(***************************************************************************)
(* Values at the boundaries of each type, and as texts: every short one    *)
(* over a few symbols, and every text one edit away from one that is       *)
(* written for a few values.                                               *)
(***************************************************************************)
EXTENDS Codecs
LOCAL INSTANCE SequencesExt

UpTo(S, n) == UNION {[1 .. k -> S] : k \in 0 .. n}
Pattern(n) == [i \in 1 .. n |-> (37 * i + 90) % 256]
Ones(n) == [i \in 1 .. n |-> 255]
Octet == {0, 1, 127, 128, 255}
Short == UpTo(Octet, 3)
Long == {Pattern(n) : n \in 4 .. 6} \union {Ones(n) : n \in 4 .. 6}

(* Of n octets: around 0, 2^7, 2^8, 2^15 and the ends of the type.         *)
Native(n) ==
  IF n = 1 THEN {<<x>> : x \in {0, 1, 2, 127, 128, 129, 254, 255}}
  ELSE {[i \in 1 .. n |-> IF i = n - 1 THEN x ELSE IF i = n THEN y ELSE fill] :
          x \in Octet, y \in Octet, fill \in {0, 255}}
       \union {<<127>> \o Ones(n - 1), <<128>> \o [i \in 1 .. n - 1 |-> 0]}

SomeYears == {1970, 1972, 1999, 2000, 2001, 2049, 2050, 2100, 2400, 9999}
MonthDays == {<<1, 1>>, <<2, 28>>, <<2, 29>>, <<3, 1>>, <<10, 31>>, <<12, 31>>}
SomeTimes == {<<0, 0, 0>>, <<23, 59, 59>>, <<10, 9, 8>>}
DatesOf(years) ==
  {DateOf(<<y>> \o md \o hms)[1] :
     y \in years, md \in MonthDays \ {<<2, 29>>}, hms \in SomeTimes}
  \union {DateOf(<<y, 2, 29, 0, 0, 0>>)[1] : y \in {year \in years : IsLeapYear(year)}}
Dates == DatesOf(SomeYears)
FewDates == DatesOf({1970, 2000, 2049, 2050})
Fractions == {0, 1, 100, 500000000, 999999999, 120000000}
Timestamps == {[datetime |-> d, nanoseconds |-> n] : d \in FewDates, n \in Fractions}
Durations ==
  {<<d, s, 0>> : d \in {0, 58, 59, 60, 789, 790, 11016, 11017, 47540, 47541, 157053, 157112,
                        157113, 2932896, 2932897},
                 s \in {0, 1, 59, 60, 3599, 3600, 86399}}

Words == -128 .. 127
SystemTimes ==
  {<<1, <<s, n>> >> : s \in 0 .. 160, n \in 0 .. 2}
  \union ({<<-1, <<s, n>> >> : s \in 0 .. 110, n \in 0 .. 2} \ {<<-1, <<0, 0>> >>})
Labels == {<<s, n>> : s \in {0, 1, 100, 101, 102, 255}, n \in 0 .. 2}

Reals == {32768 * s + 16 * e + f :
            s \in {0, 1}, f \in {0, 1, 8, 15},
            e \in {0, 1, 895, 1022, 1023, 1024, 1150, 1278, 1279, 2046, 2047}}

Chars == {65, 55295, 57344, 65534, 65535, 65536, 66560}

(* Calls that build PHC parameters, up to the limit of the buffer.         *)
Repeat(s, n) == [i \in 1 .. n |-> s]
ParamCalls ==
  {<<"str", <<26>>, v>> : v \in {<<>>, <<53>>, Repeat(1, 8), Repeat(1, 9), <<HS!Dollar>>}}
  \union {<<"str", <<>>, <<53>> >>, <<"str", <<47>>, <<53>> >>, <<"str", <<47>>, Repeat(1, 8)>>}
  \union {<<"b64", <<26>>, v>> : v \in {<<>>, <<1>>, Pattern(5)}}
  \union {<<"b64", <<0>>, <<1>> >>, <<"b64", Repeat(30, 4), <<>> >>, <<"b64", Repeat(30, 4), Pattern(5)>>}
Pair(name, v) == <<"str", name, v>>
Hashes ==
  {[algorithm |-> <<30>>, version |-> version, params |-> params, salt |-> salt, hash |-> hash] :
     version \in {<<>>, <<<<53, 52>>>>},
     params \in {<<>>, <<Pair(<<26>>, <<53>>)>>, <<Pair(<<HS!LetterV>>, <<53>>)>>,
                 <<Pair(<<HS!LetterV>>, <<53>>), Pair(<<27>>, <<>>)>>},
     salt \in {<<>>, <<Pattern(8)>>, <<Pattern(48)>>}, hash \in {<<>>, <<Pattern(10)>>}}
HashFields ==
  {<<>>, <<47, 64>>, <<47, 64, 53>>, <<26, 64, 53>>, <<47, 64, 53, HS!Comma, 26, 64>>, <<26, 64, 53, HS!Comma, 26, 64>>,
   HS!SaltDisplay(Pattern(8)), HS!SaltDisplay(Pattern(10))}
McfCalls ==
  {<<"base64", b>> : b \in {<<>>, <<1, 2>>}}
  \union {<<"str", s>> : s \in {<<>>, <<0, HS!Dot>>, <<HS!Dollar>>}}
Ids == {<<>>, <<26>>, <<0>>, <<26, HS!Hyphen>>, <<26, HS!Hyphen, 27>>}

Elements == {1, 2, 5}
SetCalls(capacity) ==
  {<<k, x>> : k \in {"insert", "insert_ordered"}, x \in Elements}
  \union (IF capacity = SO!Unbounded THEN {<<"extend", <<x, y>> >> : x \in Elements, y \in Elements} ELSE {})

(* Types with a TLS encoding, those of tls_codec/derive/tests among them.  *)
Octets1 == <<"octets", 1>>
FieldWith(T, attrs) == [type |-> T, attrs |-> attrs]
Variant(attrs, types) == [attrs |-> attrs, native |-> 0, fields |-> [i \in DOMAIN types |-> TS!Field(types[i])]]
EnumOf(variants) == <<"enum", 2, variants>>
Literals(a, b) == EnumOf(<<Variant(a, <<Octets1>>), Variant(b, <<>>), Variant(<<>>, <<>>)>>)
SkipFirst == <<"struct", <<FieldWith(Octets1, << <<"skip", <<0>> >> >>), TS!Field(<<"octets", 2>>)>> >>
TlsTypes ==
  {Octets1, <<"bytes", 1>>, <<"bytes", 3>>, <<"tuple", <<>> >>, <<"tuple", <<Octets1, <<"bytes", 1>> >> >>,
   <<"vec", 1, <<"octets", 2>> >>, <<"vec", 1, <<"option", Octets1>> >>, <<"vec", 2, SkipFirst>>, SkipFirst,
   TS!StructOf(<< <<"option", <<"octets", 2>> >>, TS!SignatureAlgorithm, <<"bytes", 1>> >>),
   <<"struct", <<FieldWith(Octets1, << <<"with", <<"bytes", 3>> >> >>), TS!Field(Octets1)>> >>,
   <<"struct", <<FieldWith(Octets1, << <<"skip", <<0>> >>, <<"skip", <<0>> >> >>)>> >>,
   TS!Version, TS!HashAlgorithm, <<"vec", 2, TS!SignatureAndHashAlgorithm>>,
   EnumOf(<<Variant(<<>>, << <<"bytes", 1>> >>), Variant(<< <<"skip", 0>> >>, <<>>)>>),
   EnumOf(<<Variant(<<>>, <<>>), [Variant(<<>>, <<>>) EXCEPT !.native = 500]>>)}
  \union {Literals(a, b) : a, b \in {<<>>, << <<"literal", 0>> >>, << <<"literal", 3>> >>, << <<"path", 4>> >>,
                                    << <<"literal", 65535>> >>, << <<"literal", 1>>, <<"literal", 1>> >>}}

RECURSIVE TlsValues(_)
Each(types) ==
  FoldLeft(LAMBDA rows, T : {Append(row, v) : row \in rows, v \in TlsValues(T)}, {<<>>}, types)
Types(fields) == [i \in DOMAIN fields |-> IF TS!Skipped(fields[i]) THEN fields[i].type ELSE TS!Prefix(fields[i])]
TlsValues(T) ==
  CASE T[1] = "octets" -> {[i \in 1 .. T[2] |-> x] : x \in {0, 1}}
    [] T[1] = "bytes" -> {<<>>, <<2, 255>>}
    [] T[1] = "vec" -> UpTo(TlsValues(T[3]), 2)
    [] T[1] = "option" -> UpTo(TlsValues(T[2]), 1)
    [] T[1] = "tuple" -> Each(T[2])
    [] T[1] = "struct" -> Each(Types(T[2]))
    [] T[1] = "enum" -> UNION {{<<i, v>> : v \in Each(Types(T[3][i].fields))} : i \in DOMAIN T[3]}
TlsValuesOf(T) ==
  TlsValues(T) \union (IF T[1] = "bytes" THEN {Ones(255), Ones(256)} ELSE {})

Sct(hash, extensions) ==
  <<<<1, <<>> >>, <<Pattern(32)>>, Pattern(8), extensions, <<<<<<hash, <<>> >>, <<4, <<>> >> >>, Ones(2)>> >>
SctLists == UpTo({Sct(1, <<>>), Sct(8, <<7>>)}, 2)

(* Attributes of every type in the database; of some types with strings of *)
(* every kind and a null; and names of one or two of those that are apart. *)
Attribute(oid, tag, contents) == [oid |-> oid, tag |-> tag, contents |-> contents]
Strings == UpTo({1, 97, NT!Space, NT!Hash, NT!Comma, NT!Backslash}, 3)
SomeOids == {<<2, 5, 4, 3>>, NT!CountryName, NT!EmailAddress, NT!Unnamed}
AttributesOfAll == {Attribute(NT!Oids[i], NT!TagFor(NT!Oids[i]), <<97>>) : i \in DOMAIN NT!Oids}
AttributesOfSome ==
  {Attribute(oid, tag, s) : oid \in SomeOids, tag \in {12, 19, 20, 22, 5}, s \in UpTo({97, NT!Hash, 255}, 1)}
  \union {Attribute(<<2, 5, 4, 3>>, NT!UTF8, s) : s \in Strings}
AttributesApart ==
  {Attribute(<<2, 5, 4, 3>>, 12, s) : s \in {<<>>, <<98>>, <<97, 98>>, <<NT!Plus, NT!Backslash>>}}
  \union {Attribute(NT!CountryName, 19, <<97>>), Attribute(NT!UserId, 12, <<>>), Attribute(NT!Unnamed, 5, <<>>)}
Relatives == {NT!RelativeNew(s) : s \in UpTo(AttributesApart, 2)}
Names ==
  {<< <<a>> >> : a \in AttributesOfAll \union AttributesOfSome}
  \union UpTo(Relatives, 1) \union UpTo({r \in Relatives : Len(r) < 2}, 2)
CommonName == NT!NameKey(7 + 28)
NameTexts ==
  {<<CommonName, NT!Equal>> \o s : s \in UpTo({CommonName, NT!Equal, 97, 52, NT!Backslash, NT!Comma, NT!Hash}, 4)}
  \union {<<CommonName, NT!Equal, NT!Backslash, NT!Backslash>> \o s \o <<CommonName, NT!Equal>> :
             s \in UpTo({NT!Backslash, NT!Comma, NT!Plus}, 3)}

(* Parameters of PBES2: those that are generated, at their limits, and     *)
(* others that can be read; with every cipher, and with more and less room.*)
With(how, with, spare) == [how |-> how, with |-> with, password |-> <<112, 119>>, spare |-> spare]
Kdf(how) == [kdf |-> how, scheme |-> "Aes256Cbc", salt |-> Pattern(8), count |-> 1,
             params |-> [log_n |-> 14, r |-> 8, p |-> 1]]
GeneratedKdfs ==
  {[Kdf("Pbkdf2") EXCEPT !.count = n, !.salt = Pattern(s)] : n \in {1, 100000000, 100000001}, s \in {0, 32, 33}}
  \union {[Kdf("Scrypt") EXCEPT !.params.r = r, !.salt = Pattern(s)] : r \in {8, 65535, 65536}, s \in {0, 32, 33}}
GivenKdfs ==
  {PE!Pbkdf2Params(Pattern(8), 2, len, prf) :
     len \in {<<>>, <<16>>, <<24>>, <<32>>}, prf \in {"HmacWithSha1", "HmacWithSha256"}}
  \union {PE!ScryptParams(Pattern(8), cost, 8, 1, len) : cost \in {0, 1, 3, 16384}, len \in {<<>>, <<32>>}}
Schemes == DOMAIN PE!KeySizes
GivenScheme(kdf, scheme) == [kdf |-> kdf, scheme |-> scheme]
PlainKdf == PE!Pbkdf2Params(Pattern(8), 2, <<>>, "HmacWithSha256")
Pbes2Params ==
  {With("generated", [kdf EXCEPT !.scheme = s], <<>>) : kdf \in GeneratedKdfs, s \in {"Aes256Cbc", "Aes128Gcm"}}
  \union {With("given", GivenScheme(kdf, s), <<>>) : kdf \in GivenKdfs, s \in Schemes}
  \union {With("given", GivenScheme(PlainKdf, s), <<spare>>) : s \in Schemes, spare \in {0, 1, 8, 15, 16, 17}}
  \union {With("pbes1", <<>>, <<>>)}
KeyUses ==
  {[password |-> password, salt |-> Pattern(s), id |-> id, rounds |-> rounds, len |-> len] :
     password \in {<<>>, <<255, 65534>>, <<65536>>}, s \in {0, 1, 3}, id \in {1, 3},
     rounds \in {0, 1, 3}, len \in {0, 3, 4}}

(* Documents of each type, and some that are not.                          *)
Sequence(contents) == <<KD!SEQUENCE, Len(contents)>> \o contents
Documents ==
  {Sequence(<<KD!INTEGER, 1, 0>>), Sequence(<<KD!SEQUENCE, 1, 5>>), Sequence(<<>>),
   <<KD!INTEGER, 1, 0>>, <<KD!SEQUENCE, 129, 1, 0>>, Append(Sequence(<<KD!INTEGER, 0>>), 0), <<>>}
Ways == {"der", "document", "pem"}
EncryptedKeys ==
  {[scheme |-> <<GivenScheme(PlainKdf, s)>>, password |-> <<112>>, parameters |-> <<KD!SEQUENCE, 0>>, pem |-> pem] :
     s \in {"Aes128Cbc", "Aes256Gcm", "DesEde3Cbc"}, pem \in BOOLEAN}
Certificates == {Sequence(<<KD!SEQUENCE, 0>>), Sequence(<<KD!SEQUENCE, 2, 5, 0>>)}

MCCodecNames ==
  {<<"Base16", case>> : case \in {"lower", "upper", "mixed"}}
  \union {<<"Serde", [of |-> of, readable |-> readable, upper |-> upper, room |-> 2]>> :
            of \in {"array", "slice", "vec"}, readable \in BOOLEAN, upper \in BOOLEAN}
  \union {<<"Base32", padded>> : padded \in BOOLEAN}
  \union {<<"Base64", padded>> : padded \in BOOLEAN}
  \union {<<k, n>> : k \in {"unsigned", "signed"}, n \in {1, 2, 16}}
  \union {<<k, 3>> : k \in {"bool", "UintRef", "Uint", "IntRef", "Int", "SerialNumber",
            "BitString", "FlagSet", "PrintableString", "Ia5String", "BmpString", "f64",
            "EncodedPoint", "UtcTime", "GeneralizedTime", "GeneralizedTimeNanos", "Time",
            "DateTime", "Unix", "Tai64", "Params", "Salt", "Output", "PasswordHash", "Mcf"}}
  \union {<<"Tai64N", n>> : n \in 0 .. 2}
  \union {<<"Tls", [type |-> T, path |-> path]>> : T \in TlsTypes, path \in {"read", "bytes"}}
  \union {<<"SctList", 2>>, <<"Name", 2>>}
  \union {<<"Pbes2", o>> : o \in Pbes2Params} \union {<<"Pkcs12Key", u>> : u \in {1, 3}}
  \union {<<"Key", [type |-> type, way |-> way]>> : type \in DOMAIN KD!Types, way \in Ways}
  \union {<<"EncryptedKey", o>> : o \in EncryptedKeys} \union {<<"Chain", 2>>}
  \union {<<"SetOf", n>> : n \in {2, SO!Unbounded}}
  \union {<<k, 2>> : k \in {"SetOfVec", "SetOfRef", "SequenceOf", "array"}}
  \union {<<"Encoder", [padded |-> padded, width |-> w, ending |-> e, piece |-> n, spare |-> s]>> :
            padded \in BOOLEAN, w \in {0, 4, 5, 6}, e \in {"LF", "CRLF"}, n \in {1, 2, 4, 9},
            s \in {0, 1}}
  \union {<<k, [width |-> w, ending |-> e]>> :
            k \in {"Pem", "PemDetect"}, w \in {4, 5}, e \in {"LF", "CRLF"}}

MCValues(c) ==
  CASE c[1] \in {"Base16", "Base32", "Base64"} -> UpTo({0, 90, 255}, 3) \union Long
    [] c[1] = "Serde" -> IF c[2].of = "array" THEN [1 .. c[2].room -> {0, 90, 255}] ELSE UpTo({0, 90, 255}, 2)
    [] c[1] = "Encoder" -> {Pattern(n) : n \in 0 .. 10}
    [] c[1] \in {"Pem", "PemDetect"} ->
         {<<label, Pattern(n)>> : label \in UpTo({PT!SP, 0, PT!Dash}, 3), n \in 0 .. 7}
    [] c[1] = "Params" -> UpTo(ParamCalls, 3)
    [] c[1] \in {"Salt", "Output"} -> {Pattern(n) : n \in (7 .. 10) \union (47 .. 49) \union (63 .. 65)}
    [] c[1] = "PasswordHash" -> Hashes
    [] c[1] = "Mcf" -> {<<<<"id", id>>>> \o calls : id \in Ids, calls \in UpTo(McfCalls, 2)}
    [] c[1] = "SetOf" -> UpTo(SetCalls(c[2]), 3)
    [] c[1] \in {"SetOfVec", "SequenceOf"} -> UpTo(Elements, 4)
    [] c[1] = "SetOfRef" -> {[items |-> items, length |-> Len(items)] : items \in UpTo(Elements, 4)}
    [] c[1] = "array" -> [1 .. c[2] -> Elements]
    [] c[1] = "Tls" -> TlsValuesOf(c[2].type)
    [] c[1] = "SctList" -> SctLists
    [] c[1] = "Name" -> Names
    [] c[1] = "Pbes2" -> {Pattern(n) : n \in {0, 1, 7, 8, 15, 16, 17}}
    [] c[1] = "Pkcs12Key" -> KeyUses
    [] c[1] \in {"Key", "EncryptedKey"} -> Documents
    [] c[1] = "Chain" -> UpTo(Certificates, 3) \union {<<Sequence(<<>>)>>}
    [] c[1] = "bool" -> BOOLEAN
    [] c[1] \in {"unsigned", "signed"} -> Native(c[2])
    [] c[1] \in {"UintRef", "Uint"} -> {UintNew(b) : b \in Short}
    [] c[1] \in {"IntRef", "Int"} -> {IntNew(b) : b \in Short}
    [] c[1] = "SerialNumber" ->
         {SerialNew(c[2], b)[1] : b \in {o \in Short \union Long : SerialNew(c[2], o) # <<>>}}
    [] c[1] = "BitString" ->
         {BitStringNew(u, b)[1] : u \in {0, 1, 7}, b \in UpTo({0, 1, 128, 255}, 2) \ {<<>>}}
         \union {BitString(0, <<>>)}
    [] c[1] = "FlagSet" -> SUBSET Known
    [] c[1] \in {"PrintableString", "Ia5String"} -> UpTo({32, 63, 97}, 3)
    [] c[1] = "BmpString" -> UpTo(Chars, 2)
    [] c[1] = "f64" -> Reals
    [] c[1] = "EncodedPoint" ->
         {identity} \union {from_bytes(<<5, x>>)[1] : x \in {0, 1, 255}}
         \union {from_affine_coordinates(x, y, comp) :
                   x \in {0, 1, 255}, y \in {0, 1, 254}, comp \in BOOLEAN}
    [] c[1] \in {"UtcTime", "GeneralizedTime", "DateTime"} -> Dates
    [] c[1] = "GeneralizedTimeNanos" -> Timestamps
    [] c[1] = "Time" -> {<<1, d>> : d \in {e \in FewDates : e.year <= UTC_MAX_YEAR}} \union {<<2, d>> : d \in FewDates}
    [] c[1] = "Unix" -> Durations
    [] c[1] = "Tai64" -> Words
    [] c[1] = "Tai64N" -> SystemTimes

Characters == Digits \union {Zulu, Point, Dash}
SymbolsOf(c) ==
  CASE c[1] = "Base16" -> {0, 9, 10, 15, 16, 21, 22}
    [] c[1] = "Serde" -> IF c[2].readable THEN {10, 16, 22} ELSE {0, 255}
    [] c[1] = "Base32" -> {0, 1, 21, 31, Base!Pad32, 33}
    [] c[1] = "Base64" -> {0, 16, 39, 63, B64!Pad, 255}
    [] c[1] = "Encoder" -> {0, 16, B64!Pad, B64!CR, B64!LF}
    [] c[1] = "Params" -> {26, 53, B64!Pad, HS!Comma, HS!Dollar}
    [] c[1] = "Mcf" -> {26, 0, HS!Hyphen, HS!Dollar, B64!Pad}
    [] c[1] \in {"Salt", "Output"} -> {0, 16, B64!Pad}
    [] c[1] = "PasswordHash" -> {26, 47, 52, 53, B64!Pad, HS!Comma, HS!Dollar}
    [] c[1] = "Pem" -> {1, 16, B64!Pad, B64!CR, B64!LF, PT!SP, PT!Dash, PT!NUL}
    [] c[1] \in {"SetOf", "SetOfVec", "SetOfRef", "SequenceOf", "array"} -> Elements \union {SO!Foreign}
    [] c[1] = "FlagSet" -> {0, 1, 2, 7, 8, 64, 128, 255}
    [] c[1] \in {"Tls", "SctList"} -> {0, 1, 2, 194}
    [] c[1] = "Pbes2" -> {0, 1, 2, 255}
    [] c[1] = "Key" /\ c[2].way = "der" -> {0, 1, 2, 3, 4, 48, 49, 128, 129}
    [] c[1] = "EncryptedKey" /\ ~c[2].pem -> {0, 1, 4, 48}
    [] c[1] \in {"Key", "EncryptedKey", "Chain"} -> {1, B64!Pad, B64!LF, PT!SP, PT!Dash}
    [] c[1] \in {"BmpString", "PrintableString"} -> {0, 65, 92, 216, 219, 220, 223, 255}
    [] c[1] = "EncodedPoint" -> {0, 1, 2, 3, 4, 5, 255}
    [] c[1] \in {"UtcTime", "GeneralizedTime", "GeneralizedTimeNanos", "DateTime", "Time"} ->
         Characters
    [] c[1] = "Unix" -> {0, 1, 28, 29, 30, 31, 59, 60, 1969}
    [] c[1] \in {"Tai64", "Tai64N"} -> {0}
    [] OTHER -> Octet

Edits(t, S) ==
  {t, SubSeq(t, 1, Len(t) - 1)}
  \union {Append(t, s) : s \in S}
  \union {[t EXCEPT ![i] = s] : i \in DOMAIN t, s \in S}
IsText(c, t) == c[1] = "Unix" => Len(t) = 6

(* The values whose texts are edited.                                      *)
Edited(c) ==
  LET moments == {DateOf(<<1999, 12, 31, 23, 59, 59>>)[1], DateOf(<<2000, 2, 29, 10, 9, 8>>)[1],
                  DateOf(<<2049, 10, 31, 0, 0, 0>>)[1]}
      later == {DateOf(<<2050, 1, 1, 0, 0, 0>>)[1], DateOf(<<9999, 12, 31, 23, 59, 59>>)[1]}
  IN
  CASE c[1] \in {"Base16", "Base32", "Base64"} -> Long
    [] c[1] = "Encoder" /\ c[2].piece = 9 /\ c[2].spare = 1 -> {Pattern(3), Pattern(7), Pattern(8)}
    [] c[1] = "Pem" -> {<< <<0, PT!SP, 0>>, Pattern(4)>>}
    [] c[1] \in {"Salt", "Output"} -> {Pattern(8), Pattern(10), Pattern(48)} \ {Pattern(IF c[1] = "Salt" THEN 10 ELSE 8)}
    [] c[1] = "PasswordHash" -> {h \in Hashes : h.salt = <<Pattern(8)>>}
    [] c[1] = "UtcTime" -> moments
    [] c[1] \in {"GeneralizedTime", "DateTime"} -> moments \union later
    [] c[1] = "GeneralizedTimeNanos" ->
         {[datetime |-> d, nanoseconds |-> n] : d \in moments, n \in {0, 500000000, 999999999}}
    [] c[1] = "Time" -> {<<1, d>> : d \in moments} \union {<<2, d>> : d \in moments \union later}
    [] c[1] = "Unix" -> {<<d, 86399, 0>> : d \in {0, 59, 789, 11016, 2932896}}
    [] c[1] \in {"unsigned", "signed"} /\ c[2] = 16 -> Native(16)
    [] c[1] = "SerialNumber" -> {<<0>> \o Ones(3), Pattern(3)}
    [] c[1] = "SctList" -> {<<Sct(1, <<7>>)>>}
    [] c[1] = "Pbes2" /\ c[2].how = "given" /\ c[2].spare = <<>> /\ c[2].with.kdf = PlainKdf
         /\ c[2].with.scheme # "DesCbc" -> {Pattern(5), Pattern(15)}
    [] c[1] = "Key" -> {Sequence(<<KD!Types[c[2].type].first, 1, 0>>)}
    [] c[1] = "EncryptedKey" -> {Sequence(<<KD!INTEGER, 1, 0>>)}
    [] c[1] = "Chain" -> {SetToSeq(Certificates)}
    [] OTHER -> {}
ShortTexts(c) ==
  CASE c[1] \in {"Base16", "Base32", "Base64", "FlagSet", "BmpString"} -> UpTo(SymbolsOf(c), 3)
    [] c[1] \in {"bool", "unsigned", "signed", "UintRef", "Uint", "IntRef", "Int",
                 "SerialNumber", "BitString", "PrintableString", "Ia5String", "EncodedPoint",
                 "SetOf", "SetOfVec", "SetOfRef", "SequenceOf", "array"} ->
         UpTo(SymbolsOf(c), 4)
    [] c[1] = "Tls" -> UpTo(SymbolsOf(c), IF c[2].type[1] = "enum" THEN 3 ELSE 4)
    [] c[1] = "Serde" -> UpTo(SymbolsOf(c), IF c[2].readable THEN 6 ELSE 3)
    [] c[1] \in {"Params", "Mcf"} -> UpTo(SymbolsOf(c), 5)
    [] c[1] = "PasswordHash" ->
         {<<HS!Dollar, 30>> \o FlattenSeq([i \in DOMAIN fields |-> <<HS!Dollar>> \o fields[i]]) :
            fields \in UpTo(HashFields, 4)}
    [] c[1] = "f64" ->
         {<<>>} \union {<<64 + s>> : s \in 0 .. 3}
         \union {<<first>> \o rest : first \in {128, 129, 132, 192, 193}, rest \in UpTo(Octet, 4)}
    [] c[1] = "Name" -> NameTexts
    [] c[1] = "Pbes2" /\ c[2].how = "given" /\ c[2].spare = <<>> /\ c[2].with = GivenScheme(PlainKdf, "DesCbc") ->
         {PE!cbc_encrypt(PE!derive_from_password(c[2].password, PlainKdf, 8)[1], 8, Pattern(n), 16)[1] : n \in {0, 7, 8}}
    [] c[1] = "Key" /\ c[2].way # "der" ->
         {KD!ToPem(type, octets)[1] :
            type \in {KD!Types[name] : name \in DOMAIN KD!Types},
            octets \in {Sequence(<<first, 0>>) \o more : first \in {KD!SEQUENCE, KD!INTEGER}, more \in {<<>>, <<7>>}}}
    [] c[1] = "Chain" ->
         {KD!ToPem(type, Sequence(<<KD!SEQUENCE, 0, 1>>) \o more)[1] :
            type \in {KD!Types.Certificate, KD!Types.RsaPublicKey}, more \in {<<>>, <<7>>}}
    [] c[1] = "Tai64" -> {<<label>> : label \in 0 .. 255}
    [] c[1] = "Tai64N" -> Labels
    [] c[1] = "Pem" ->
         LET t == EncodeOf(c, << <<0>>, Pattern(4)>>)[1] IN
         {before \o t : before \in {<<1, B64!LF>>, <<PT!NUL, B64!LF>>, <<B64!CR, B64!LF>>}}
    [] OTHER -> {}

MCTexts(c) ==
  ShortTexts(c)
  \union {t \in UNION {Edits(EncodeOf(c, v)[1], SymbolsOf(c)) : v \in Edited(c)} : IsText(c, t)}
================================================================================
