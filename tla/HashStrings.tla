------------------------------- MODULE HashStrings -------------------------------
(***************************************************************************)
(* Password hash strings: the PHC format (phc/src), whose parameters are   *)
(* built in a buffer call by call, and the modular crypt format (mcf/src). *)
(*                                                                         *)
(* A character is a sextet of standard Base64, its padding (which is the   *)
(* '=' of the parameters) or one of those below.  Results are <<x>>, or    *)
(* <<>> for an error.                                                      *)
(***************************************************************************)
LOCAL INSTANCE Integers
LOCAL INSTANCE Sequences
LOCAL INSTANCE SequencesExt
LOCAL INSTANCE Base64Encoding

Dollar == 80
Comma == 81
Dot == 82
Hyphen == 83
Equals == Pad

Letters == 26 .. 51
Numerals == 52 .. 61
LetterV == 47
Zero == 52

(* str::split: the parts between the separators, at least one.             *)
SplitBy(s, separator) ==
  LET ends == SelectSeq([k \in 1 .. Len(s) + 1 |-> k],
                        LAMBDA k : k > Len(s) \/ s[k] = separator)
  IN  [i \in DOMAIN ends |-> SubSeq(s, IF i = 1 THEN 1 ELSE ends[i - 1] + 1, ends[i] - 1)]
Joined(parts, separator) ==
  FlattenSeq([i \in DOMAIN parts |-> IF i = 1 THEN parts[i] ELSE <<separator>> \o parts[i]])

Over(s, S) == \A i \in DOMAIN s : s[i] \in S

--------------------------------------------------------------------------------
(* Ident and Value, with limits an eighth of the code's, 32, 64 and 127.   *)
IDENT_MAX == 4
VALUE_MAX == 8
PARAMS_MAX == 15

IsIdent(s) == Len(s) \in 1 .. IDENT_MAX /\ Over(s, Letters \union Numerals \union {Hyphen})
IsValue(s) == Len(s) <= VALUE_MAX /\ Over(s, Sextets \union {Dot, Hyphen})

(* Value::decimal, for numbers of up to nine digits.                       *)
IsDecimalValue(s) == s # <<>> /\ Over(s, Numerals) /\ (s[1] = Zero => Len(s) = 1)

(* ParamsString: `text` is what the buffer holds, `kept` the pairs that    *)
(* were added, `broken` that a call ran into the iterator's expect.  A     *)
(* call is <<"str", name, value>> or <<"b64", name, octets>>.              *)
NoParams == [text |-> <<>>, kept |-> <<>>, broken |-> FALSE]

PairOf(param) == SplitBy(param, Equals)
IsPair(pair) == Len(pair) = 2 /\ IsIdent(pair[1]) /\ IsValue(pair[2])
Params(text) == IF text = <<>> THEN <<>> ELSE SplitBy(text, Comma)

(* The result of get: the iterator goes as far as the first pair with the  *)
(* name, and panics where a name or a value is missing.                    *)
IsAPair(pair) == Len(pair) >= 2 /\ IsIdent(pair[1]) /\ IsValue(pair[2])
StopAt(pair) == IF IsAPair(pair) THEN "Some" ELSE "Panic"
get_pair(pairs, name) ==
  LET stops == SelectSeq(pairs, LAMBDA pair : ~IsAPair(pair) \/ pair[1] = name) IN
  IF stops = <<>> THEN "None" ELSE StopAt(stops[1])
get_param(params, name) == get_pair([i \in DOMAIN params |-> PairOf(params[i])], name)

Delimiter(text) == IF text = <<>> THEN <<>> ELSE <<Comma>>
Added(p, name, value, text) ==
  IF Len(text) > PARAMS_MAX
  THEN p
  ELSE [p EXCEPT !.text = text, !.kept = Append(@, <<"str", name, value>>)]

Add(p, name, value, got) ==
  CASE got = "Some" -> p
    [] got = "Panic" -> [p EXCEPT !.broken = TRUE]
    [] OTHER -> Added(p, name, value, p.text \o Delimiter(p.text) \o name \o <<Equals>> \o value)
add_str(p, name, value) ==
  IF IsIdent(name) /\ IsValue(value) THEN Add(p, name, value, get_param(Params(p.text), name)) ELSE p

(* The text before the name, after it, and after the value; the first that *)
(* fails is left as it was before, but the one before it stays.            *)
AddBytes(p, name, value, comma) ==
  CASE Len(comma) > PARAMS_MAX -> p
    [] Len(comma) <= PARAMS_MAX /\ (~IsIdent(name) \/ Len(comma) + Len(name) + 1 > PARAMS_MAX) ->
         [p EXCEPT !.text = comma]
    [] OTHER ->
         IF Len(comma) + Len(name) + 1 + Len(value) > PARAMS_MAX
         THEN [p EXCEPT !.text = comma \o name \o <<Equals>>]
         ELSE Added(p, name, value, comma \o name \o <<Equals>> \o value)
add_b64_bytes(p, name, octets) ==
  AddBytes(p, name, encode(FALSE, octets), p.text \o Delimiter(p.text))

Call(p, call) ==
  IF p.broken THEN p
  ELSE IF call[1] = "str" THEN add_str(p, call[2], call[3])
  ELSE add_b64_bytes(p, call[2], call[3])
AfterCalls(calls) == FoldLeft(Call, NoParams, calls)
ParamsText(p) == IF p.broken THEN <<>> ELSE <<p.text>>

(* ParamsString::from_str and iter, a pair as the call that adds it.       *)
PairsOf(params) ==
  IF \A i \in DOMAIN params : IsPair(PairOf(params[i]))
  THEN <<[i \in DOMAIN params |-> <<"str", PairOf(params[i])[1], PairOf(params[i])[2]>>]>>
  ELSE <<>>
ParamsFromStr(text) == IF Len(text) > PARAMS_MAX THEN <<>> ELSE PairsOf(Params(text))

--------------------------------------------------------------------------------
(* Salt and Output, as octets and as unpadded Base64.                      *)
SALT_MIN == 8
SALT_MAX == 48
SALT_STRING_MIN == 11
SALT_STRING_MAX == 64
OUTPUT_MIN == 10
OUTPUT_MAX == 64

SaltNew(octets) == IF Len(octets) \in SALT_MIN .. SALT_MAX THEN <<octets>> ELSE <<>>
SaltDisplay(salt) == encode(FALSE, salt)
DecodedB64(result) == IF result.err = "None" THEN <<result.out>> ELSE <<>>
SaltFromB64(s) ==
  IF Len(s) \in SALT_STRING_MIN .. SALT_STRING_MAX THEN DecodedB64(decode(FALSE, s, SALT_MAX))
  ELSE <<>>

OutputNew(octets) == IF Len(octets) \in OUTPUT_MIN .. OUTPUT_MAX THEN <<octets>> ELSE <<>>
SizedOutput(result) == IF result.err = "None" THEN OutputNew(result.out) ELSE <<>>
OutputDecode(s) == SizedOutput(decode(FALSE, s, OUTPUT_MAX))

(* A PasswordHash is [algorithm, version, params, salt, hash]; version,    *)
(* salt and hash are <<x>> or <<>>, params the pairs.                      *)
Field(prefix, option) == IF option = <<>> THEN <<>> ELSE <<Dollar>> \o prefix \o option[1]
ParamsDisplay(params) ==
  Joined([i \in DOMAIN params |-> params[i][2] \o <<Equals>> \o params[i][3]], Comma)
ParamsField(params) ==
  IF params = <<>> THEN <<>> ELSE Field(<<>>, <<ParamsDisplay(params)>>)
PasswordHashDisplay(h) ==
  <<Dollar>> \o h.algorithm \o Field(<<LetterV, Equals>>, h.version) \o ParamsField(h.params)
    \o (IF h.salt = <<>> THEN <<>>
        ELSE <<Dollar>> \o SaltDisplay(h.salt[1])
               \o (IF h.hash = <<>> THEN <<>> ELSE <<Dollar>> \o encode(FALSE, h.hash[1])))

(* The optional fields, in order: a field that is not the one expected is  *)
(* left for the next.                                                      *)
IsVersion(field) ==
  /\ Len(field) >= 2 /\ field[1] = LetterV /\ field[2] = Equals
  /\ \A i \in DOMAIN field : field[i] # Comma
HasPairs(field) == \E i \in DOMAIN field : field[i] = Equals
All(options) == \A i \in DOMAIN options : options[i] # <<>>

HashOf(algorithm, versions, params, salts, hashes) ==
  IF /\ \A i \in DOMAIN versions : IsValue(versions[i]) /\ IsDecimalValue(versions[i])
     /\ All(params) /\ All(salts) /\ All(hashes)
  THEN <<[algorithm |-> algorithm, version |-> versions,
          params |-> FlattenSeq(FlattenSeq(params)),
          salt |-> FlattenSeq(salts), hash |-> FlattenSeq(hashes)]>>
  ELSE <<>>
WithSalt(algorithm, versions, params, fields) ==
  IF Len(fields) > 2 THEN <<>>
  ELSE HashOf(algorithm, versions, params,
              [i \in 1 .. (IF Len(fields) >= 1 THEN 1 ELSE 0) |-> SaltFromB64(fields[i])],
              [i \in 1 .. (IF Len(fields) = 2 THEN 1 ELSE 0) |-> OutputDecode(fields[2])])
WithParams(algorithm, versions, fields) ==
  IF fields # <<>> /\ HasPairs(fields[1])
  THEN WithSalt(algorithm, versions, <<ParamsFromStr(fields[1])>>, Tail(fields))
  ELSE WithSalt(algorithm, versions, <<>>, fields)
WithVersion(algorithm, fields) ==
  IF fields # <<>> /\ IsVersion(fields[1])
  THEN WithParams(algorithm, <<SubSeq(fields[1], 3, Len(fields[1]))>>, Tail(fields))
  ELSE WithParams(algorithm, <<>>, fields)
FromFields(fields) ==
  IF Len(fields) < 2 \/ fields[1] # <<>> THEN <<>>
  ELSE IF IsIdent(fields[2]) THEN WithVersion(fields[2], SubSeq(fields, 3, Len(fields)))
  ELSE <<>>
PasswordHashNew(text) == FromFields(SplitBy(text, Dollar))

--------------------------------------------------------------------------------
(* The modular crypt format.  A hash is built by calls: the first          *)
(* <<"id", identifier>>, then <<"base64", octets>>, which does not look at *)
(* the field, or <<"str", characters>>, which does.                        *)
IsFieldText(s) == s # <<>> /\ Over(s, Sextets \union {Dot, Hyphen, Comma, Equals})
IsId(s) ==
  /\ s # <<>> /\ Over(s, Letters \union Numerals \union {Hyphen})
  /\ s[1] # Hyphen /\ s[Len(s)] # Hyphen

FieldOf(call) == IF call[1] = "base64" THEN encode(FALSE, call[2]) ELSE call[2]
Pushes(call) == call[1] = "base64" \/ IsFieldText(call[2])
Pushed(calls) == SelectSeq(Tail(calls), Pushes)
McfBuild(calls) ==
  IF IsId(calls[1][2])
  THEN <<FoldLeft(LAMBDA text, call : text \o <<Dollar>> \o FieldOf(call),
                  <<Dollar>> \o calls[1][2], Pushed(calls))>>
  ELSE <<>>

(* Fields, which end where nothing is left, and validate.                  *)
NextFields(s) ==
  LET fields == SplitBy(s, Dollar) IN
  IF fields[Len(fields)] = <<>> THEN SubSeq(fields, 1, Len(fields) - 1) ELSE fields
Validated(fields) ==
  IF fields # <<>> /\ IsId(fields[1]) /\ \A i \in 2 .. Len(fields) : IsFieldText(fields[i])
  THEN << <<<<"id", fields[1]>>>>
            \o [i \in 1 .. Len(fields) - 1 |-> <<"str", fields[i + 1]>>] >>
  ELSE <<>>
McfParse(s) ==
  IF s = <<>> THEN <<>>
  ELSE IF s[1] # Dollar \/ s[Len(s)] = Dollar THEN <<>>
  ELSE Validated(NextFields(Tail(s)))

================================================================================
