------------------------------- MODULE X509Builder -------------------------------
(***************************************************************************)
(* The builders of certificates, certificate requests and CRLs, and those  *)
(* of OCSP messages, as functions from the builder to the builder.  A key  *)
(* stands for its public half, its identifier (the SHA-1 of it) and its    *)
(* algorithm; a serialisation is the structure itself.  A name is a        *)
(* sequence of RDNs, sequences of attribute types; the value of an         *)
(* extension is a sequence of words.  An optional part is <<>> or <<it>>.  *)
(* (x509-cert/src/builder.rs, builder/profile, request/builder.rs,         *)
(* x509-ocsp/src/builder)                                                  *)
(***************************************************************************)
EXTENDS Integers, Sequences, FiniteSets
LOCAL INSTANCE TLC

NullAlgorithm == "0.0.0"

--------------------------------------------------------------------------------
(* Names.  The attribute types whose order is enforced.                    *)
ENFORCED == <<"DC", "C", "ST", "L", "postalCode", "street", "O", "SN", "GN", "OU", "CN">>

(* One attribute: `at` is how far the iterator over ENFORCED has gone,     *)
(* which looking for a type that is behind it uses up.                     *)
CheckAttribute(s, type, multiple_allowed) ==
  LET ahead == {i \in s.at + 1 .. Len(ENFORCED) : ENFORCED[i] = type} IN
  CASE ~multiple_allowed /\ type \in s.seen -> [s EXCEPT !.ok = FALSE]
    [] \A i \in DOMAIN ENFORCED : ENFORCED[i] # type -> [s EXCEPT !.seen = @ \union {type}]
    [] ahead = {} -> [s EXCEPT !.ok = FALSE]
    [] OTHER -> [s EXCEPT !.seen = @ \union {type}, !.at = CHOOSE i \in ahead : TRUE]
CheckRdn(s, rdn, multiple_allowed) ==
  IF ~s.ok THEN s
  ELSE IF Len(rdn) # 1 THEN [s EXCEPT !.ok = FALSE]
  ELSE CheckAttribute(s, rdn[1], multiple_allowed)
Unchecked == [ok |-> TRUE, seen |-> {}, at |-> 0]
(* Faulty: the search starts at the head of the list for every attribute.  *)
check_names_encoding_restarted(name, multiple_allowed) ==
  LET after[k \in 0 .. Len(name)] ==
        IF k = 0 THEN Unchecked
        ELSE [CheckRdn(after[k - 1], name[k], multiple_allowed) EXCEPT !.at = 0]
  IN after[Len(name)].ok
check_names_encoding(name, multiple_allowed) ==
  LET after[k \in 0 .. Len(name)] ==
        IF k = 0 THEN Unchecked ELSE CheckRdn(after[k - 1], name[k], multiple_allowed)
  IN after[Len(name)].ok

AttributesOf(name) ==
  LET upto[k \in 0 .. Len(name)] == IF k = 0 THEN <<>> ELSE upto[k - 1] \o name[k]
  IN upto[Len(name)]
CA_REQUIRED == {"C", "O", "CN"}
CA_ALLOWED == {"C", "ST", "L", "postalCode", "street", "O", "CN"}
ca_certificate_naming(subject) ==
  LET types == AttributesOf(subject) IN
  /\ check_names_encoding(subject, FALSE)
  /\ \A i \in DOMAIN types :
       types[i] \in CA_ALLOWED /\ \A j \in 1 .. i - 1 : types[j] # types[i]
  /\ \A type \in CA_REQUIRED : \E i \in DOMAIN types : types[i] = type

(* domain_validated: what is left of the subject.                          *)
DomainAttributes(types) ==
  LET upto[k \in 0 .. Len(types)] ==
        IF k = 0 THEN <<>>
        ELSE IF types[k] \in {"C", "CN"} THEN Append(upto[k - 1], types[k]) ELSE upto[k - 1]
  IN upto[Len(types)]
domain_validated(subject) ==
  LET upto[k \in 0 .. Len(subject)] ==
        IF k = 0 THEN <<>>
        ELSE LET kept == DomainAttributes(subject[k]) IN
             IF kept # <<>> THEN Append(upto[k - 1], kept) ELSE upto[k - 1]
  IN upto[Len(subject)]

(* DevId::new: alternative names, when there are any, must have the name of*)
(* a hardware module among them; one that cannot be read is an error, if it*)
(* comes first.                                                            *)
HasHardwareModule(names) ==
  \E i \in DOMAIN names :
    names[i] = "hardware" /\ \A j \in 1 .. i - 1 : names[j] # "garbled hardware"
DevIdNew(alt_names) == alt_names = <<>> \/ HasHardwareModule(alt_names[1])

--------------------------------------------------------------------------------
(* Extensions, with the criticality each type has.                         *)
Criticality(id, subject) ==
  CASE id \in {"basicConstraints", "keyUsage"} -> TRUE
    [] id = "subjectAltName" -> subject = <<>>
    [] OTHER -> FALSE
ToExtension(id, value, subject) ==
  [id |-> id, critical |-> Criticality(id, subject), value |-> value]

KeyIdentifier(key) == <<key>>
CertUsages(ocsp) == <<"keyCertSign", "cRLSign">> \o (IF ocsp THEN <<"digitalSignature">> ELSE <<>>)
ExtendedUsages(client) == <<"serverAuth">> \o (IF client THEN <<"clientAuth">> ELSE <<>>)
If(condition, word) == IF condition THEN <<word>> ELSE <<>>
SubscriberUsages(options, key) ==
  <<"digitalSignature">>
  \o If("data" \in options /\ key = "rsa", "dataEncipherment")
  \o If("encipherment" \in options /\ key = "rsa", "keyEncipherment")
  \o If("agreement" \in options /\ key = "ecc", "keyAgreement")

(* Faulty: the authority is named by the subject's own key.                *)
ProfileExtensions_own(profile, key, issuer_key, subject) ==
  IF profile.name = "Plain" THEN <<>>
  ELSE <<ToExtension("authorityKeyIdentifier", KeyIdentifier(key), subject),
         ToExtension("subjectKeyIdentifier", KeyIdentifier(key), subject)>>
(* build_extensions of the profiles; Plain stands for a profile of the     *)
(* user's that has none.                                                   *)
ProfileExtensions(profile, key, issuer_key, subject) ==
  LET Ext(id, value) == ToExtension(id, value, subject) 
      Authority(k) == Ext("authorityKeyIdentifier", KeyIdentifier(k))
  IN
  CASE profile.name = "Plain" -> <<>>
    [] profile.name = "Root" ->
         <<Authority(key), Ext("basicConstraints", <<"ca">>),
           Ext("keyUsage", CertUsages("ocsp" \in profile.options)),
           Ext("subjectKeyIdentifier", KeyIdentifier(key))>>
    [] profile.name = "Subordinate" ->
         <<Authority(issuer_key),
           Ext("basicConstraints", <<"ca">> \o If("pathlen" \in profile.options, "0")),
           Ext("keyUsage", CertUsages("ocsp" \in profile.options)),
           Ext("subjectKeyIdentifier", KeyIdentifier(key)),
           Ext("extKeyUsage", ExtendedUsages("client" \in profile.options))>>
    [] profile.name = "Subscriber" ->
         <<Authority(issuer_key), Ext("extKeyUsage", ExtendedUsages("client" \in profile.options)),
           Ext("basicConstraints", <<>>), Ext("keyUsage", SubscriberUsages(profile.options, key))>>
    [] profile.name = "DevId" ->
         <<Authority(issuer_key), Ext("keyUsage", <<"digitalSignature">>)>>
         \o (IF profile.alt_names = <<>> THEN <<>>
             ELSE <<Ext("subjectAltName", profile.alt_names[1])>>)

--------------------------------------------------------------------------------
(* CertificateBuilder.                                                     *)
UTC_MAX_YEAR == 2049
rfc5280_adjust_utc_time(time) ==
  IF time[1] = "general" /\ time[2] <= UTC_MAX_YEAR THEN <<"utc", time[2]>> ELSE time

get_subject(profile, subject) ==
  IF profile.name = "Subscriber" THEN domain_validated(subject) ELSE subject
get_issuer(profile, subject, issuer) == IF profile.name = "Root" THEN subject ELSE issuer
ProfileNew(profile, subject) ==
  CASE profile.name = "Root" -> ca_certificate_naming(subject)
    [] profile.name = "DevId" -> DevIdNew(profile.alt_names)
    [] OTHER -> TRUE

CertificateNew(profile, key, subject, issuer, not_after) ==
  [type |-> "Certificate", profile |-> profile, extensions |-> <<>>,
   tbs |-> [version |-> 3, signature |-> NullAlgorithm,
            issuer |-> get_issuer(profile, get_subject(profile, subject), issuer),
            not_after |-> rfc5280_adjust_utc_time(not_after),
            subject |-> get_subject(profile, subject), key |-> key, extensions |-> <<>>]]

CertificateAdd(b, id, value) ==
  [b EXCEPT !.extensions = Append(@, ToExtension(id, value, b.tbs.subject))]

CertificateFinalize(b, signer) ==
  LET all == b.extensions
             \o ProfileExtensions(b.profile, b.tbs.key, signer, b.tbs.subject)
      extensions == IF all # <<>> THEN <<all>> ELSE b.tbs.extensions
  IN  [b EXCEPT !.extensions = all, !.tbs.signature = signer, !.tbs.extensions = extensions,
                !.tbs.version = IF extensions = <<>> THEN 1 ELSE @]
(* The builders that a finalize which fails can leave: the builder as it   *)
(* was, if the signer's key cannot be had; with the signer's algorithm, if *)
(* the profile fails; and as after one that succeeds, if it is only the    *)
(* serialisation that fails.                                               *)
CertificateFinalizeFailed(b, signer) ==
  {b, [b EXCEPT !.tbs.signature = signer], CertificateFinalize(b, signer)}

--------------------------------------------------------------------------------
(* RequestBuilder.  An attribute is <<rank of its type, value>>.           *)
ExtensionReq == 14
ChallengePassword == 7
Before(a, b) == a[1] < b[1] \/ (a[1] = b[1] /\ Len(a[2]) < Len(b[2]))
Inserted(attributes, a) == SortSeq(Append(attributes, a), Before)

RequestNew(subject) ==
  [type |-> "Request", extension_req |-> <<>>,
   info |-> [subject |-> subject, key |-> NullAlgorithm, attributes |-> <<>>]]
RequestAdd(b, id, value) ==
  [b EXCEPT !.extension_req = Append(@, ToExtension(id, value, b.info.subject))]
RequestAddAttribute(b, a) == [b EXCEPT !.info.attributes = Inserted(@, a)]
RequestFinalize(b, signer) ==
  [b EXCEPT !.info.key = signer,
            !.info.attributes = Inserted(@, <<ExtensionReq, b.extension_req>>)]
RequestFinalizeFailed(b, signer) ==
  {b, [b EXCEPT !.info.key = signer], RequestFinalize(b, signer)}

--------------------------------------------------------------------------------
(* CrlBuilder.  Where the extensions of a type are; a certificate with two *)
(* that name the authority is an error.                                    *)
ExtensionsOf(certificate) ==
  IF certificate.tbs.extensions = <<>> THEN <<>> ELSE certificate.tbs.extensions[1]
Places(extensions, id) == {i \in DOMAIN extensions : extensions[i].id = id}

CrlAuthority(issuer) ==
  LET named == Places(ExtensionsOf(issuer), "authorityKeyIdentifier") IN
  IF named = {} THEN KeyIdentifier(issuer.tbs.key)
  ELSE ExtensionsOf(issuer)[CHOOSE i \in named : TRUE].value
CanIssueCrl(issuer) ==
  \A i, j \in Places(ExtensionsOf(issuer), "authorityKeyIdentifier") : i = j

CrlNew(issuer) ==
  LET name == issuer.tbs.subject IN
  [type |-> "Crl",
   tbs |-> [version |-> 2, signature |-> NullAlgorithm, issuer |-> name,
            next_update |-> <<>>, revoked |-> <<>>,
            extensions |-> <<<<ToExtension("cRLNumber", <<>>, name),
                               ToExtension("authorityKeyIdentifier", CrlAuthority(issuer), name)>>>>]]
CrlWithNextUpdate(b, time) == [b EXCEPT !.tbs.next_update = time]
CrlWithCertificates(b, revoked) ==
  [b EXCEPT !.tbs.revoked = << (IF @ = <<>> THEN <<>> ELSE @[1]) \o revoked >>]
CrlFinalize(b, signer) == [b EXCEPT !.tbs.signature = signer]
CrlFinalizeFailed(b, signer) == {b, CrlFinalize(b, signer)}

--------------------------------------------------------------------------------
(* The builders of OCSP requests and responses, whose subject is always the*)
(* empty name.  Their `sign` is the whole of build.                        *)
OcspNew(type) == [type |-> type, tbs |-> [requestor |-> <<>>, list |-> <<>>, extensions |-> <<>>]]
OcspWithRequestor(b, name) == [b EXCEPT !.tbs.requestor = <<name>>]
OcspWith(b, entry) == [b EXCEPT !.tbs.list = Append(@, entry)]
OcspWithExtension(b, id, value) ==
  LET e == ToExtension(id, value, <<>>) IN
  [b EXCEPT !.tbs.extensions = IF @ = <<>> THEN << <<e>> >> ELSE <<Append(@[1], e)>>]
================================================================================
