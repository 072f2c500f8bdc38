-------------------------------- MODULE MCBuilders -------------------------------
(***************************************************************************)
(* Instances for Builders: two keys of different algorithms, the profiles  *)
(* with each of their options, and names whose attributes are in every     *)
(* order.                                                                  *)
(***************************************************************************)
EXTENDS Builders

MCKeys == {"rsa", "ecc"}

Profile(name, options, alt_names) == [name |-> name, options |-> options, alt_names |-> alt_names]
Request(profile, key, subject, not_after) ==
  [profile |-> profile, key |-> key, subject |-> subject,
   issuer |-> <<<<"CN">>>>, not_after |-> not_after]
CaName == <<<<"C">>, <<"O">>, <<"CN">>>>
Utc(year) == <<"utc", year>>
General(year) == <<"general", year>>

Rdns == {<<"C">>, <<"ST">>, <<"O">>, <<"CN">>, <<"serialNumber">>, <<"C", "O">>}
NamesOf(n) == UNION {[1 .. k -> Rdns] : k \in 0 .. n}
AltNames == {<<>>, <<<<>>>>, <<<<"dns">>>>, <<<<"dns", "hardware">>>>,
             <<<<"garbled hardware", "hardware">>>>, <<<<"hardware", "garbled hardware">>>>}

Roots(length) ==
  {Request(Profile("Root", {}, <<>>), "rsa", name, Utc(2030)) : name \in NamesOf(length)}
  \union {Request(Profile("Root", {"ocsp"}, <<>>), key, CaName, Utc(2030)) : key \in MCKeys}
Subordinates ==
  {Request(Profile("Subordinate", options, <<>>), key, CaName, Utc(2030)) :
     key \in MCKeys, options \in {{}, {"ocsp", "client"}, {"pathlen"}}}
Subscribers ==
  {Request(Profile("Subscriber", {"client", "data", "encipherment", "agreement"}, <<>>), key, name, Utc(2030)) :
     key \in MCKeys, name \in {CaName, <<<<"O">>>>, <<<<"C", "O">>, <<"CN">>>>, <<>>}}
DevIds == {Request(Profile("DevId", {}, names), "ecc", <<<<"CN">>>>, General(9999)) : names \in AltNames}
Plains ==
  {Request(Profile("Plain", {}, <<>>), "rsa", <<<<"CN">>>>, time) :
     time \in {Utc(2049), General(2049), General(2050)}}
MCCertificateRequests == Roots(4) \union Subordinates \union Subscribers \union DevIds \union Plains

Originators == <<"none", "plain", "other certificate", "other crl">>
Algorithms == <<"aes128", "aes192", "aes256">>
MCOtherNew ==
  <<RequestNew(<<<<"CN">>>>), RequestNew(<<>>), OcspNew("OcspRequest"), OcspNew("OcspResponse"),
    SignerInfoNew("issuer", "sha256", "data", <<5>>, <<>>),
    SignerInfoNew("key identifier", "sha256", "tst", <<>>, <<6>>),
    SignerInfoNew("issuer", "sha256", "data", <<5>>, <<6>>),
    SignerInfoNew("issuer", "sha3-256", "data", <<5>>, <<>>),
    SignerInfoNew("issuer", "sha256", "data", <<>>, <<>>),
    SignedDataNew("data", <<5>>), SignedDataNew("tst", <<5>>)>>
  \o [i \in 1 .. 24 |-> EnvelopedNew(Originators[(i % 4) + 1], Algorithms[(i % 3) + 1], i <= 12)]

MCExtensionIds == {"issuerAltName", "subjectAltName"}
MCSignedAttributeSet == {11, 12, TwoContentTypes, 21, 39}
MCRequestAttributes == {<<ChallengePassword, <<>>>>, <<21, <<"x">>>>}
MCSignerInfos ==
  {SignerInfoNew(sid, digest, "data", <<5>>, <<>>) :
     sid \in {"issuer", "key identifier"}, digest \in {"sha256", "md5"}}
Recipient(kind, rid, size) == [kind |-> kind, rid |-> rid, size |-> size, wrap |-> "aes"]
MCRecipientSet ==
  {Recipient("ktri", "issuer", 0), Recipient("ktri", "key identifier", 0),
   Recipient("kekri", "id", 0), Recipient("ori", "id", 0),
   Recipient("kari", "issuer", 16), Recipient("kari", "issuer", 32),
   Recipient("pwri", "password", 8), Recipient("pwri", "password", 16)}
================================================================================
