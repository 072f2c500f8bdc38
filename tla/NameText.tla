-------------------------------- MODULE NameText ---------------------------------
(***************************************************************************)
(* X.501 names as the text of RFC 4514: x509-cert/src/name.rs and attr.rs, *)
(* with the names of attribute types in const-oid's database.              *)
(*                                                                         *)
(* A name is a sequence of relative names, each a sorted sequence of       *)
(* attributes [oid, tag, contents].  A text is a sequence of characters,   *)
(* which are their numbers in ASCII; what stands before an equals sign is  *)
(* one symbol: NameKey(i) for the name in entry i of the database, in      *)
(* either case, and OidKey(oid) for the arcs with dots between them.       *)
(***************************************************************************)
EXTENDS Integers, Sequences
LOCAL INSTANCE SequencesExt
LOCAL INSTANCE FiniteSetsExt
LOCAL INSTANCE DerValues

Space == 32
Hash == 35
Plus == 43
Comma == 44
Equal == 61
Backslash == 92

(* The entries of the database for attribute types and the object classes  *)
(* next to them, and those whose names two OIDs have, in its order.        *)
EmailAddress == <<1, 2, 840, 113549, 1, 9, 1>>
DomainComponent == <<0, 9, 2342, 19200300, 100, 1, 25>>
UserId == <<0, 9, 2342, 19200300, 100, 1, 1>>
CountryName == <<2, 5, 4, 6>>
SerialNumberType == <<2, 5, 4, 5>>

Under(root, last) == [i \in DOMAIN last |-> root \o <<last[i]>>]
Rfc4519Ids ==
  <<UserId, UserId, DomainComponent, DomainComponent, <<1, 3, 6, 1, 1, 3, 1>>, <<1, 3, 6, 1, 4, 1, 1466, 344>> >>
    \o Under(<<2, 5, 4>>, <<10, 10, 11, 11, 12, 13, 14, 15, 16, 17, 18, 19, 20, 21, 22, 23, 24, 25, 26, 27, 28, 3, 3,
                            31, 32, 33, 34, 35, 4, 4, 41, 42, 42, 43, 44, 45, 46, 47, 49, 5, 50, 51, 6, 6, 7, 7, 8, 9>>)
    \o Under(<<2, 5, 6>>, <<10, 11, 14, 17, 2, 3, 4, 5, 6, 7, 8, 9>>)
Rfc4519Names ==
  <<"uid", "userId", "DC", "domainComponent", "uidObject", "dcObject", "o", "organizationName", "ou",
    "organizationalUnitName", "title", "description", "searchGuide", "businessCategory", "postalAddress",
    "postalCode", "postOfficeBox", "physicalDeliveryOfficeName", "telephoneNumber", "telexNumber",
    "teletexTerminalIdentifier", "facsimileTelephoneNumber", "x121Address", "internationaliSDNNumber",
    "registeredAddress", "destinationIndicator", "preferredDeliveryMethod", "cn", "commonName", "member", "owner",
    "roleOccupant", "seeAlso", "userPassword", "sn", "surname", "name", "GN", "givenName", "initials",
    "generationQualifier", "x500UniqueIdentifier", "dnQualifier", "enhancedSearchGuide", "distinguishedName",
    "serialNumber", "uniqueMember", "houseIdentifier", "c", "countryName", "L", "localityName", "st", "street",
    "residentialPerson", "applicationProcess", "device", "groupOfUniqueNames", "country", "locality", "organization",
    "organizationalUnit", "person", "organizationalPerson", "organizationalRole", "groupOfNames">>
NistHashAlgs == <<2, 16, 840, 1, 101, 3, 4, 2>>
SmimeModules == <<1, 2, 840, 113549, 1, 9, 16, 0>>
SmimeAlgorithms == <<1, 2, 840, 113549, 1, 9, 16, 3>>
DB ==
  << <<NistHashAlgs, "hashAlgs">>, << <<2, 5, 4, 8>>, "stateOrProvinceName">>, << <<2, 5, 4, 9>>, "streetAddress">>,
     <<EmailAddress, "pkcs-9-at-emailAddress">>, <<EmailAddress, "email">>, <<EmailAddress, "emailAddress">>,
     << <<2, 5, 4, 65>>, "pseudonym">> >>
    \o [i \in DOMAIN Rfc4519Names |-> <<Rfc4519Ids[i], Rfc4519Names[i]>>]
    \o << <<SmimeModules, "id-mod">>, <<SmimeAlgorithms, "id-alg">>, << <<1, 3, 6, 1, 5, 5, 7, 0>>, "id-mod">>,
          << <<1, 3, 6, 1, 5, 5, 7, 6>>, "id-alg">>, << <<1, 3, 6, 1, 4, 1, 1722, 12, 2>>, "hashAlgs">>,
          <<SmimeAlgorithms, "id-alg">>, <<NistHashAlgs, "hashAlgs">> >>
Unnamed == <<1, 2, 3>>
Oids == Append([i \in DOMAIN DB |-> DB[i][1]], Unnamed)

by_name(name) ==
  LET found == {i \in DOMAIN DB : DB[i][2] = name}
  IN  IF found = {} THEN <<>> ELSE <<DB[Min(found)][1]>>
find_names_for_oid(oid) == {i \in DOMAIN DB : DB[i][1] = oid}
(* The first of the shortest.                                              *)
shortest_name_by_oid(oid) ==
  LET length(i) == Len(DB[i][2]) IN
  {i \in find_names_for_oid(oid) :
     \A j \in find_names_for_oid(oid) : length(i) < length(j) \/ (length(i) = length(j) /\ i <= j)}

NameKey(i) == 256 + i
OidKey(oid) == 1000 + Min({k \in DOMAIN Oids : Oids[k] = oid})
OidOf(key) ==
  CASE Len(key) = 1 /\ key[1] - 256 \in DOMAIN DB -> by_name(DB[key[1] - 256][2])
    [] Len(key) = 1 /\ key[1] - 1000 \in DOMAIN Oids -> <<Oids[key[1] - 1000]>>
    [] OTHER -> <<>>

--------------------------------------------------------------------------------
(* The strings an attribute's value is shown as: up to ASCII, past which   *)
(* an octet is no character of any of them.                                *)
UTF8 == 12
PRINTABLE == 19
TELETEX == 20
IA5 == 22
IsString(tag, contents) ==
  \/ tag = PRINTABLE /\ PrintableDecode(contents) # <<>>
  \/ tag \in {UTF8, TELETEX, IA5} /\ Ia5Decode(contents) # <<>>

Universals == {1, 2, 3, 4, 5, 6, 9, 10, 12, 13, 18, 19, 20, 21, 22, 23, 24, 26, 27, 30, 48, 49}
(* Of tags of one octet, with lengths of one.                              *)
ToDer(a) == <<a.tag, Len(a.contents)>> \o a.contents
AnyFromDer(oid, octets) ==
  IF Len(octets) >= 2 /\ octets[1] \in Universals /\ octets[2] = Len(octets) - 2
  THEN << [oid |-> oid, tag |-> octets[1], contents |-> SubSeq(octets, 3, Len(octets))] >>
  ELSE <<>>

HexDigits == 48 .. 57 \union 65 .. 70 \union 97 .. 102
HexValue(c) == CASE c <= 57 -> c - 48 [] c <= 70 -> c - 55 [] OTHER -> c - 87
HexDigit(n) == IF n < 10 THEN 48 + n ELSE 87 + n
Hex(octet) == <<HexDigit(octet \div 16), HexDigit(octet % 16)>>

(* Display of an attribute.                                                *)
MustEscape == {34, Plus, Comma, 59, 60, 62, Backslash}
EscapedAt(s, i) ==
  CASE s[i] = Hash /\ i = 1 -> <<Backslash, Hash>>
    [] s[i] = Space /\ i \in {1, Len(s)} -> <<Backslash, Space>>
    [] s[i] \in MustEscape -> <<Backslash, s[i]>>
    [] s[i] < Space \/ s[i] = 127 -> <<Backslash>> \o Hex(s[i])
    [] OTHER -> <<s[i]>>
IsNamed(a) == find_names_for_oid(a.oid) # {} /\ IsString(a.tag, a.contents)
AttributeText(a) ==
  IF IsNamed(a)
  THEN <<NameKey(Min(shortest_name_by_oid(a.oid))), Equal>>
         \o FlattenSeq([i \in DOMAIN a.contents |-> EscapedAt(a.contents, i)])
  ELSE <<OidKey(a.oid), Equal, Hash>> \o FlattenSeq([i \in DOMAIN ToDer(a) |-> Hex(ToDer(a)[i])])

(* Parser::add.  The state at the end is not looked at.                    *)
Escapable == {Space, 34, Hash, Equal, Backslash, Plus, Comma, 59, 60, 62}
NewParser == [state |-> "None", high |-> 0, bytes |-> <<>>]
Pushed(p, c) == [p EXCEPT !.state = "None", !.bytes = Append(@, c)]
add(p, c) ==
  CASE p.state = "Hex" /\ c \in HexDigits -> Pushed(p, p.high + HexValue(c))
    [] p.state = "Some" /\ c \in HexDigits -> [p EXCEPT !.state = "Hex", !.high = 16 * HexValue(c)]
    [] p.state = "Some" /\ c \in Escapable -> Pushed(p, c)
    [] p.state = "None" /\ c = Backslash -> [p EXCEPT !.state = "Some"]
    [] p.state = "None" /\ c # Backslash -> Pushed(p, c)
    [] OTHER -> [p EXCEPT !.state = "Err"]

TagFor(oid) ==
  CASE oid \in {CountryName, SerialNumberType} -> PRINTABLE
    [] oid \in {DomainComponent, EmailAddress} -> IA5
    [] OTHER -> UTF8
from_delimited_str(oid, val) ==
  LET parser == FoldLeft(add, NewParser, val)
  IN  IF parser.state = "Err" THEN <<>>
      ELSE << [oid |-> oid, tag |-> TagFor(oid), contents |-> parser.bytes] >>

(* An odd number of digits is filled up with an octet 0, which is none.    *)
from_hex(oid, val) ==
  IF Len(val) % 2 = 1 \/ \E i \in DOMAIN val : val[i] \notin HexDigits THEN <<>>
  ELSE AnyFromDer(oid, [i \in 1 .. Len(val) \div 2 |-> 16 * HexValue(val[2 * i - 1]) + HexValue(val[2 * i])])

ValueOf(oid, val) ==
  IF val # <<>> /\ val[1] = Hash THEN from_hex(oid, Tail(val)) ELSE from_delimited_str(oid, val)
AttributeAt(s, idx) ==
  LET oid == OidOf(SubSeq(s, 1, idx - 1))
  IN  IF oid = <<>> THEN <<>> ELSE ValueOf(oid[1], SubSeq(s, idx + 1, Len(s)))
AttributeFromStr(s) ==
  LET equals == {i \in DOMAIN s : s[i] = Equal}
  IN  IF equals = {} THEN <<>> ELSE AttributeAt(s, Min(equals))

--------------------------------------------------------------------------------
(* The order of a relative name's SET OF: by the lengths of the attributes,*)
(* and of their parts, before their octets.                                *)
ArcOctets(arc) ==
  LET n == CHOOSE k \in 1 .. 5 : arc < 128^k /\ (k = 1 \/ arc >= 128^(k - 1))
  IN  [i \in 1 .. n |-> ((arc \div 128^(n - i)) % 128) + (IF i < n THEN 128 ELSE 0)]
OidOctets(oid) ==
  <<40 * oid[1] + oid[2]>> \o FlattenSeq([i \in 1 .. Len(oid) - 2 |-> ArcOctets(oid[i + 2])])
Key(a) ==
  LET oid == OidOctets(a.oid)
  IN  <<Len(oid) + Len(a.contents), Len(oid)>> \o oid \o <<a.tag, Len(a.contents)>> \o a.contents
RelativeNew(attributes) == SortSeq(attributes, LAMBDA a, b : Lexicographic(Key(a), Key(b)) < 0)

(* Separators that are not escaped: two backslashes before one are taken   *)
(* for an escaped backslash, whatever is before them.                      *)
find(s, b) ==
  {i \in DOMAIN s : s[i] = b /\ ((i > 1 => s[i - 1] # Backslash) \/ (i > 2 /\ s[i - 2] = Backslash))}
PartsAt(s, cuts) ==
  [k \in 1 .. Len(cuts) - 1 |-> SubSeq(s, cuts[k] + 1, cuts[k + 1] - 1)]
split(s, b) == PartsAt(s, <<0>> \o SetToSortSeq(find(s, b), <) \o <<Len(s) + 1>>)

Collected(results, Then(_)) ==
  IF \E i \in DOMAIN results : results[i] = <<>> THEN <<>>
  ELSE <<Then([i \in DOMAIN results |-> results[i][1]])>>
RelativeFromStr(s) ==
  LET parts == split(s, Plus) IN Collected([i \in DOMAIN parts |-> AttributeFromStr(parts[i])], RelativeNew)
NameFromStr(s) ==
  LET parts == split(s, Comma) IN Collected([i \in DOMAIN parts |-> RelativeFromStr(parts[i])], Reverse)

Joined(texts, separator) ==
  FlattenSeq([i \in DOMAIN texts |-> (IF i = 1 THEN <<>> ELSE <<separator>>) \o texts[i]])
RelativeText(rdn) == Joined([i \in DOMAIN rdn |-> AttributeText(rdn[i])], Plus)
NameText(name) == Joined(Reverse([i \in DOMAIN name |-> RelativeText(name[i])]), Comma)

================================================================================
