---------------------------------- MODULE Builders ---------------------------------
(***************************************************************************)
(* A program that builds signed objects: certificates, requests and CRLs,  *)
(* OCSP messages, and the SignerInfo, SignedData and EnvelopedData of CMS. *)
(* One builder is alive at a time; what was issued stays, and a CRL or a   *)
(* certificate can be built for a certificate issued before.  `finalize`   *)
(* takes the builder by reference, so nothing but the type of `build` keeps*)
(* a program from calling it again, or from adding to the builder between  *)
(* it and `assemble`; all of these orders are steps here.  The program     *)
(* signs the octets that the last finalize which succeeded returned.       *)
(***************************************************************************)
EXTENDS X509Builder, CmsBuilder
LOCAL INSTANCE SequencesExt

CONSTANTS Keys,                \* keys, which are also the signers
          CertificateRequests, \* arguments of CertificateBuilder::new
          OtherNew,            \* a sequence of builders, as the other new() return them
          ExtensionIds,        \* extensions that the program adds
          SignedAttributeSet,  \* attributes it adds to a SignerInfo
          RequestAttributes,   \* and to a request
          SignerInfos,         \* SignerInfo builders given to SignedData
          RecipientSet,        \* recipients of EnvelopedData
          MaxCalls,            \* bound on the calls of one builder
          MaxIssued            \* bound on the objects issued

ASSUME BoundsAssumption == {MaxCalls, MaxIssued} \subseteq Nat

(* A request names one of the profiles, and its time is one that x509-cert *)
(* can hold: UTCTime ends with the year 2049.                              *)
Profiles == {"Plain", "Root", "Subordinate", "Subscriber", "DevId"}
ASSUME RequestsAssumption ==
  \A r \in CertificateRequests :
    /\ DOMAIN r = {"profile", "key", "subject", "issuer", "not_after"}
    /\ r.profile.name \in Profiles
    /\ r.not_after[1] \in {"utc", "general"} /\ r.not_after[2] \in Nat
    /\ r.not_after[1] = "utc" => r.not_after[2] <= UTC_MAX_YEAR
    /\ r.subject \in Seq(Seq(STRING)) /\ r.profile.alt_names \in Seq(Seq(STRING))

(* The other builders are as their new() leaves them.                      *)
IsNew(b) ==
  \/ b.type = "Request" /\ b = RequestNew(b.info.subject)
  \/ b.type \in {"OcspRequest", "OcspResponse"} /\ b = OcspNew(b.type)
  \/ /\ b.type = "SignerInfo"
     /\ b = SignerInfoNew(b.sid, b.digest, b.content_type, b.content, b.external)
  \/ b.type = "SignedData" /\ b = SignedDataNew(b.content_type, b.content)
  \/ /\ b.type = "EnvelopedData"
     /\ b = EnvelopedNew(b.originator, b.algorithm, b.attributes)
     /\ b.algorithm \in {"aes128", "aes192", "aes256"} /\ b.attributes \in BOOLEAN
ASSUME OtherNewAssumption == \A i \in DOMAIN OtherNew : IsNew(OtherNew[i])

(* A recipient is of one of the five kinds; `size` is that of the blocks of*)
(* a password's cipher, or of the keys that a key agreement wraps.         *)
ASSUME RecipientsAssumption ==
  \A r \in RecipientSet : r.kind \in {"ktri", "kari", "kekri", "pwri", "ori"} /\ r.size \in Nat

VARIABLES
  builder,  \* the builder, <<>> or <<it>>
  signed,   \* the last signature: <<>> or <<[by, over]>>
  issued,   \* the objects built, in order
  asked,    \* what the last new was for, and whether it was accepted
  log       \* the calls since new

vars == <<builder, signed, issued, asked, log>>

Call(name, arg) == [call |-> name, arg |-> arg]
Alive(types) == builder # <<>> /\ builder[1].type \in types
CanCall == Len(log) < MaxCalls - Len(issued)

Init == builder = <<>> /\ signed = <<>> /\ issued = <<>> /\ asked = <<>> /\ log = <<>>

(* The first object, and one that belongs to an object that was built the  *)
(* short way.  A program ends when new refuses what it asks for.           *)
Straight(product) == Len(product.log) <= 1
CanBegin == builder = <<>> /\ asked = <<>> /\ issued = <<>>
CanGoOn ==
  /\ builder = <<>> /\ asked = <<>> /\ Len(issued) < MaxIssued
  /\ \A i \in DOMAIN issued : Straight(issued[i])
Begin(b, arguments) ==
  /\ builder' = b /\ asked' = <<[for |-> arguments, accepted |-> b # <<>>]>>
  /\ signed' = <<>> /\ log' = <<>> /\ UNCHANGED issued

(* CertificateBuilder::new, of a profile whose own `new` succeeds.         *)
NewCertificate ==
  /\ CanBegin
  /\ \E r \in CertificateRequests :
       Begin(IF ProfileNew(r.profile, r.subject)
             THEN <<CertificateNew(r.profile, r.key, r.subject, r.issuer, r.not_after)>>
             ELSE <<>>,
             r)

(* A certificate or a CRL for a certificate that was issued.               *)
IsCertificate(product) == product.type = "Certificate"
NewUnder ==
  /\ CanGoOn
  /\ \E i \in DOMAIN issued, r \in CertificateRequests :
       /\ IsCertificate(issued[i]) /\ r.profile.name \in {"Subordinate", "Subscriber"}
       /\ LET under == [r EXCEPT !.issuer = issued[i].body.subject] IN
          Begin(<<CertificateNew(r.profile, r.key, r.subject, under.issuer, r.not_after)>>, under)
NewCrl ==
  /\ CanGoOn
  /\ \E i \in DOMAIN issued :
       /\ IsCertificate(issued[i])
       /\ LET issuer == [tbs |-> issued[i].body] IN
          Begin(IF CanIssueCrl(issuer) THEN <<CrlNew(issuer)>> ELSE <<>>, issuer)
NewOther == CanBegin /\ \E i \in DOMAIN OtherNew : Begin(<<OtherNew[i]>>, OtherNew[i])

--------------------------------------------------------------------------------
(* Calls that add something.                                               *)
Becomes(b, call) ==
  /\ CanCall
  /\ builder' = <<b>> /\ log' = Append(log, call)
  /\ UNCHANGED <<signed, issued, asked>>

AddExtension ==
  /\ Alive({"Certificate", "Request", "OcspRequest", "OcspResponse"})
  /\ \E id \in ExtensionIds :
       Becomes(CASE builder[1].type = "Certificate" -> CertificateAdd(builder[1], id, <<"own">>)
                 [] builder[1].type = "Request" -> RequestAdd(builder[1], id, <<"own">>)
                 [] OTHER -> OcspWithExtension(builder[1], id, <<"own">>),
               Call("extension", id))
AddAttribute ==
  /\ Alive({"Request"})
  /\ \E a \in RequestAttributes : Becomes(RequestAddAttribute(builder[1], a), Call("attribute", a[1]))
AddSignedAttribute ==
  /\ Alive({"SignerInfo"})
  /\ \E a \in SignedAttributeSet : Becomes(AddSigned(builder[1], a), Call("attribute", a))
AddUnsignedAttribute ==
  /\ Alive({"SignerInfo"})
  /\ \E a \in SignedAttributeSet : Becomes(AddUnsigned(builder[1], a), Call("unsigned", a))
WithRevoked ==
  /\ Alive({"Crl"})
  /\ \E revoked \in {<<>>, <<"serial">>} :
       Becomes(CrlWithCertificates(builder[1], revoked), Call("revoked", Len(revoked)))
WithNextUpdate ==
  /\ Alive({"Crl"})
  /\ \E time \in {<<>>, <<"time">>} :
       Becomes(CrlWithNextUpdate(builder[1], time), Call("next update", Len(time)))
OcspAdd ==
  /\ Alive({"OcspRequest", "OcspResponse"})
  /\ \/ Becomes(OcspWith(builder[1], "entry"), Call("entry", 0))
     \/ builder[1].type = "OcspRequest"
        /\ Becomes(OcspWithRequestor(builder[1], "name"), Call("requestor", 0))
SignedDataAdd ==
  /\ Alive({"SignedData"})
  /\ \/ \E choice \in {"plain", "other"} :
          \/ Becomes(AddCertificate(builder[1], choice), Call("certificate", 0))
          \/ Becomes(AddCrl(builder[1], choice), Call("crl", 0))
     \/ Becomes(AddDigest(builder[1], "sha256"), Call("digest", 0))
     \/ \E info \in SignerInfos, signer \in Keys, callback \in {"none", "stamps", "fails"} :
          Becomes(AddSignerInfo(builder[1], info, signer, callback), Call("signer info", 0))
AddRecipientInfo ==
  /\ Alive({"EnvelopedData"})
  /\ \E r \in RecipientSet : Becomes(AddRecipient(builder[1], r), Call("recipient", r))

--------------------------------------------------------------------------------
(* Builder::finalize and the signature over what it returns, and assemble. *)
(* A finalize that fails returns nothing, but what it did to the builder   *)
(* stays.                                                                  *)
Signatory == {"Certificate", "Request", "Crl", "SignerInfo"}
Sign(b, signer, octets) ==
  /\ CanCall
  /\ builder' = <<b>> /\ log' = Append(log, Call("finalize", signer))
  /\ signed' = <<[by |-> signer, over |-> octets]>>
  /\ UNCHANGED <<issued, asked>>
FailsWith(b, signer) == Becomes(b, Call("finalize failed", signer))
Finalize ==
  \E signer \in Keys :
    \/ /\ Alive({"Certificate"})
       /\ \/ LET b == CertificateFinalize(builder[1], signer) IN Sign(b, signer, b.tbs)
          \/ \E b \in CertificateFinalizeFailed(builder[1], signer) : FailsWith(b, signer)
    \/ /\ Alive({"Request"})
       /\ \/ LET b == RequestFinalize(builder[1], signer) IN Sign(b, signer, b.info)
          \/ \E b \in RequestFinalizeFailed(builder[1], signer) : FailsWith(b, signer)
    \/ /\ Alive({"Crl"})
       /\ \/ LET b == CrlFinalize(builder[1], signer) IN Sign(b, signer, b.tbs)
          \/ \E b \in CrlFinalizeFailed(builder[1], signer) : FailsWith(b, signer)
    \/ /\ Alive({"SignerInfo"})
       /\ LET done == SignerInfoFinalize(builder[1]) IN
          \/ done.ok /\ Sign(done.b, signer, SignedAttributes(done.b))
          \/ FailsWith(done.b, signer)

Issue(type, body, algorithm, signature) ==
  issued' = Append(issued, [type |-> type, body |-> body, algorithm |-> algorithm,
                            signature |-> signature, for |-> asked[1].for, log |-> log])
Assemble ==
  /\ Alive(Signatory) /\ signed # <<>>
  /\ \E signer \in Keys :
       CASE builder[1].type \in {"Certificate", "Crl"} ->
              Issue(builder[1].type, builder[1].tbs, builder[1].tbs.signature, signed[1])
         [] builder[1].type = "Request" ->
              Issue("Request", builder[1].info, signer, signed[1])
         [] OTHER ->
              Issue("SignerInfo", SignerInfoProduct(builder[1], signer, signed[1]), signer, signed[1])
  /\ builder' = <<>> /\ signed' = <<>> /\ asked' = <<>>
  /\ UNCHANGED log

(* The other messages are built in one call; those of CMS keep the builder.*)
OcspSign ==
  /\ Alive({"OcspRequest", "OcspResponse"})
  /\ \E signer \in Keys :
       Issue(builder[1].type, builder[1].tbs, signer, [by |-> signer, over |-> builder[1].tbs])
  /\ builder' = <<>> /\ asked' = <<>> /\ UNCHANGED <<signed, log>>
CmsBuild ==
  /\ Len(issued) < MaxIssued
  /\ \/ /\ Alive({"SignedData"})
        /\ Issue("SignedData", SignedDataProduct(builder[1]), "", [by |-> "", over |-> <<>>])
     \/ /\ Alive({"EnvelopedData"}) /\ CanBuild(builder[1])
        /\ \E order \in SortedOrders(builder[1]) :
             Issue("EnvelopedData", EnvelopedProduct(builder[1], order), "", [by |-> "", over |-> <<>>])
  /\ UNCHANGED <<builder, signed, asked, log>>

Next ==
  \/ NewCertificate \/ NewUnder \/ NewCrl \/ NewOther
  \/ AddExtension \/ AddAttribute \/ AddSignedAttribute \/ AddUnsignedAttribute
  \/ WithRevoked \/ WithNextUpdate \/ OcspAdd \/ SignedDataAdd \/ AddRecipientInfo
  \/ Finalize \/ Assemble \/ OcspSign \/ CmsBuild

Spec == Init /\ [][Next]_vars

--------------------------------------------------------------------------------
Calls(p, name) == SelectSeq(p.log, LAMBDA c : c.call = name)
ArgsOf(p, name) == [i \in DOMAIN Calls(p, name) |-> Calls(p, name)[i].arg]
IsFinalize(c) == c.call = "finalize"
(* Calls of finalize, those that failed counted.                           *)
IsAttempt(c) == c.call \in {"finalize", "finalize failed"}
FinalizedOnce(calls) ==
  \E i \in DOMAIN calls :
    IsFinalize(calls[i]) /\ \A j \in DOMAIN calls \ {i} : ~IsAttempt(calls[j])
FinalizedAgain(calls) ==
  \E i, j \in DOMAIN calls : i < j /\ IsAttempt(calls[i]) /\ IsAttempt(calls[j])
IsLastFinalize(calls, i) ==
  IsFinalize(calls[i]) /\ \A j \in i + 1 .. Len(calls) : ~IsFinalize(calls[j])
LastFinalize(calls) == CHOOSE i \in DOMAIN calls : IsLastFinalize(calls, i)

(* The calls that reach what is signed, when they come after the last      *)
(* finalize that succeeded.                                                *)
Disturbs(type) ==
  {"finalize failed"} \union
  CASE type = "Certificate" -> {}
    [] type = "Request" -> {"attribute"}
    [] type = "Crl" -> {"revoked", "next update"}
    [] type = "SignerInfo" -> {"attribute"}
Since(calls) == {calls[i].call : i \in LastFinalize(calls) + 1 .. Len(calls)}
Undisturbed(type, calls) == Since(calls) \cap Disturbs(type) = {}
NoneFailed(calls) == "finalize failed" \notin Since(calls)
Covered(p) == IF p.type = "SignerInfo" THEN p.body.signed[1] ELSE p.body

SignatureFitsOn(p) ==
  /\ Undisturbed(p.type, p.log) => p.signature.over = Covered(p)
  /\ p.type \in {"Certificate", "Crl"} /\ NoneFailed(p.log) => p.algorithm = p.signature.by
  /\ p.type = "Request" /\ NoneFailed(p.log) => p.body.key = p.signature.by

(* The signature of an object covers what the object says, in whatever     *)
(* order the builder was called, unless one of two things that nothing     *)
(* prevents happened between the finalize whose octets were signed and     *)
(* assemble: a further finalize failed, with whatever it had done to the   *)
(* builder by then, or what is signed was added to -- which for a          *)
(* certificate only finalize itself can do.  The algorithm that a          *)
(* certificate or CRL names, and the key that a request asks for, are the  *)
(* signer's, unless a further finalize failed.                             *)
(* (builder.rs, finalize and assemble; cms builder.rs)                     *)
SignatureFits ==
  \A i \in DOMAIN issued : issued[i].type \in Signatory => SignatureFitsOn(issued[i])

ProfileIds(profile) ==
  {"authorityKeyIdentifier", "subjectKeyIdentifier", "basicConstraints", "keyUsage", "extKeyUsage"}
  \union (IF profile.alt_names = <<>> THEN {} ELSE {"subjectAltName"})
OwnOnce(p, name, others) ==
  IsInjective(ArgsOf(p, name)) /\ ToSet(ArgsOf(p, name)) \cap others = {}
IdsOf(extensions) == [i \in DOMAIN extensions |-> extensions[i].id]
TypesOf(attributes) == [i \in DOMAIN attributes |-> TypeOf(attributes[i])]
OwnTypes(p) == TypesOf(ArgsOf(p, "attribute"))
OfOneType(attributes, type) == SelectSeq(attributes, LAMBDA a : TypeOf(a) = type)

(* One call of finalize adds nothing twice: a certificate has no two       *)
(* extensions of one type, a request no two attributes of one type and one *)
(* that carries its extensions, in the order they were added; a SignerInfo *)
(* over content has one message digest, of the content, and one content    *)
(* type, the content's -- provided the program itself added nothing twice  *)
(* or of the builder's.  (builder.rs:382, request/builder.rs, cms          *)
(* builder.rs:233; RFC 5280 4.2, RFC 5652 11.1 and 11.2)                   *)
NothingTwice ==
  \A i \in DOMAIN issued : issued[i].type \in Signatory /\ FinalizedOnce(issued[i].log) =>
    LET p == issued[i] IN
    CASE p.type = "Certificate" ->
           OwnOnce(p, "extension", ProfileIds(p.for.profile)) => IsInjective(IdsOf(ExtensionsOf([tbs |-> p.body])))
      [] p.type = "Request" ->
           OwnOnce(p, "attribute", {ExtensionReq}) /\ Undisturbed(p.type, p.log) =>
             LET types == [j \in DOMAIN p.body.attributes |-> p.body.attributes[j][1]]
                 at == CHOOSE j \in DOMAIN types : types[j] = ExtensionReq
                 before == SubSeq(p.log, 1, LastFinalize(p.log))
             IN /\ IsInjective(types)
                /\ IdsOf(p.body.attributes[at][2]) = ArgsOf([log |-> before], "extension")
      [] p.type = "SignerInfo" ->
           LET octets == p.for.external \o p.for.content IN
           octets # <<>> /\ IsInjective(OwnTypes(p)) /\ MessageDigest \notin ToSet(OwnTypes(p)) /\ Undisturbed(p.type, p.log) =>
             /\ OfOneType(p.body.signed[1], MessageDigest) = <<DigestOf(octets[1])>>
             /\ OfOneType(p.body.signed[1], ContentType) = <<ContentTypeOf(p.for.content_type)>>
      [] OTHER -> TRUE

SomewhereOther(option) == \E j \in DOMAIN option : \E k \in DOMAIN option[j] : option[j][k] = "other"
VersionFitsIn(p) ==
  /\ p.type = "Certificate" =>
       /\ p.body.extensions = <<>> => p.body.version = 1
       /\ p.body.extensions # <<>> =>
            \/ p.body.version = 3
            \/ p.for.profile.name = "Plain" /\ FinalizedAgain(p.log)
       /\ (p.body.not_after[1] = "utc") = (p.for.not_after[2] <= 2049)
       /\ p.body.not_after[2] = p.for.not_after[2]
  /\ p.type = "SignerInfo" => (p.body.version = 1) = (p.body.sid = "issuer")
  /\ p.type = "SignedData" =>
       LET other == SomewhereOther(p.body.certificates) \/ SomewhereOther(p.body.crls)
           third == \/ p.body.content_type # "data"
                    \/ \E j \in DOMAIN p.body.infos : p.body.infos[j].sid # "issuer"
       IN  p.body.version = IF other THEN 5 ELSE IF third THEN 3 ELSE 1
  /\ p.type = "EnvelopedData" =>
       LET versions == {p.body.infos[j].version : j \in DOMAIN p.body.infos}
           password == \E j \in DOMAIN p.body.infos : p.body.infos[j].kind = "pwri"
           plain == p.body.originator = "none" /\ ~p.body.attributes /\ versions \subseteq {0}
           other == p.body.originator \in {"other certificate", "other crl"}
       IN  p.body.version = IF other THEN 4 ELSE IF password THEN 3 ELSE IF plain THEN 0 ELSE 2

(* The version an object announces is what its contents need: a certificate*)
(* with extensions is of version 3 and one without of version 1, unless a  *)
(* finalize that found none, and may have failed, came before they were    *)
(* added; its times are UTCTime up to the year 2049.  SignerInfo,          *)
(* SignedData and EnvelopedData follow RFC 5652, 5.3, 5.1 and 6.1.         *)
(* (builder.rs:388, time.rs, cms builder.rs, calculate_version)            *)
VersionsFit == \A i \in DOMAIN issued : VersionFitsIn(issued[i])

BodyExtensions(p) == ExtensionsOf([tbs |-> p.body])
Has(extensions, id) == Places(extensions, id) # {}
ValuesOf(extensions, id) == {extensions[i].value : i \in Places(extensions, id)}
IsIssuerOf(q, p) ==
  /\ IsCertificate(q) /\ q.body.subject = p.body.issuer /\ q.body.key = p.signature.by
  /\ Has(BodyExtensions(q), "subjectKeyIdentifier")
(* Did the program itself add a key identifier?                            *)
OwnIdentifier(calls) ==
  \E i \in DOMAIN calls :
    calls[i].call = "extension" /\ calls[i].arg \in {"authorityKeyIdentifier", "subjectKeyIdentifier"}

(* Key identifiers chain: the authority key identifier of a certificate is *)
(* the subject key identifier of the certificate of its issuer, its own if *)
(* it is a root; a CRL's is that of its issuer, when the issuer's own      *)
(* certificate names no other key as its authority.  A program that adds   *)
(* such extensions itself is on its own.  (profile/cabf.rs, tls.rs,        *)
(* devid.rs, CrlBuilder::new; RFC 5280 4.2.1.1 and 5.2.1)                  *)
KeyIdentifiersChain ==
  \A i \in DOMAIN issued :
    LET p == issued[i]
        authorities == ValuesOf(BodyExtensions(p), "authorityKeyIdentifier")
    IN
    /\ IsCertificate(p) /\ FinalizedOnce(p.log) /\ ~OwnIdentifier(p.log) =>
         /\ p.for.profile.name = "Root" =>
              authorities = {KeyIdentifier(p.body.key)}
                /\ authorities = ValuesOf(BodyExtensions(p), "subjectKeyIdentifier")
         /\ \A j \in 1 .. i - 1 :
              /\ IsIssuerOf(issued[j], p) /\ ~OwnIdentifier(issued[j].log)
              /\ p.for.profile.name \in {"Subordinate", "Subscriber", "DevId"}
              => authorities = ValuesOf(BodyExtensions(issued[j]), "subjectKeyIdentifier")
    /\ p.type = "Crl" =>
         LET q == p.for.tbs
             named == ValuesOf(ExtensionsOf([tbs |-> q]), "authorityKeyIdentifier")
         IN named \subseteq {KeyIdentifier(q.key)} => authorities = {KeyIdentifier(q.key)}

(* The order that the CA/Browser Forum gives the attributes of a name.     *)
RankOf(type) ==
  CASE type = "C" -> 2 [] type = "ST" -> 3 [] type = "L" -> 4 [] type = "postalCode" -> 5
    [] type = "street" -> 6 [] type = "O" -> 7 [] type = "CN" -> 11 [] OTHER -> 0
ValidCaName(name) ==
  /\ \A i \in DOMAIN name : Len(name[i]) = 1 /\ RankOf(name[i][1]) > 0
  /\ \A i \in 1 .. Len(name) - 1 : RankOf(name[i][1]) < RankOf(name[i + 1][1])
  /\ \A type \in {"C", "O", "CN"} : \E i \in DOMAIN name : name[i] = <<type>>
FirstOf(names, kinds, i) ==
  i \in DOMAIN names /\ names[i] \in kinds /\ \A j \in DOMAIN names : names[j] \in kinds => i <= j
ReadableHardware(names) ==
  \E i \in DOMAIN names : FirstOf(names, {"hardware", "garbled hardware"}, i) /\ names[i] = "hardware"

AnswerFits(question) ==
  LET r == question.for IN
  "profile" \in DOMAIN r =>
    question.accepted =
      CASE r.profile.name = "Root" -> ValidCaName(r.subject)
        [] r.profile.name = "DevId" ->
             (r.profile.alt_names # <<>> => ReadableHardware(r.profile.alt_names[1]))
        [] OTHER -> TRUE
CriticalFits(extensions, subject) ==
  \A i \in DOMAIN extensions :
    extensions[i].id = "subjectAltName" => extensions[i].critical = (subject = <<>>)
NamesFitIn(p) ==
  /\ p.for.profile.name = "Subscriber" =>
       /\ AttributesOf(p.body.subject) = DomainAttributes(AttributesOf(p.for.subject))
       /\ \A i \in DOMAIN p.body.subject : p.body.subject[i] # <<>>
  /\ CriticalFits(BodyExtensions(p), p.body.subject)

(* A root certificate is begun only for a name of single attributes in the *)
(* order of the CA/Browser Forum, each once, that has all it must have and *)
(* nothing else; a DevID certificate with alternative names only if they   *)
(* name a hardware module.  A subscriber's subject keeps its country and   *)
(* its common name alone, in the order they had and with no empty RDN, and *)
(* alternative names are critical exactly when the subject has become      *)
(* empty.                                                                  *)
(* (profile/cabf.rs check_names_encoding, tls.rs, devid.rs, ext.rs)        *)
NamesAreChecked ==
  /\ \A i \in DOMAIN asked : AnswerFits(asked[i])
  /\ \A i \in DOMAIN issued : IsCertificate(issued[i]) => NamesFitIn(issued[i])

(* What a recipient does with a padded key: RFC 3211, 2.3.2.               *)
Unpadded(octets) ==
  LET key == SubSeq(octets, 5, 4 + octets[1]) IN
  IF 4 + octets[1] <= Len(octets) /\ \A i \in 1 .. 3 : octets[1 + i] + key[i] = 255
  THEN <<key>> ELSE <<>>

(* The infos of the recipients that were added, each as often as it was.   *)
IsForAll(infos, calls) ==
  \E from \in Bijection(DOMAIN infos, DOMAIN calls) :
    \A j \in DOMAIN infos : infos[j].to = calls[from[j]].arg
IsReadable(m, calls) ==
  /\ IsForAll(m.infos, calls)
  /\ \A i, j \in DOMAIN m.infos : i < j => Tags[m.infos[i].kind] <= Tags[m.infos[j].kind]
  /\ \A j \in DOMAIN m.infos :
       LET info == m.infos[j] IN
       /\ info.kind = "ktri" => info.enc_key = [under |-> info.to.rid, key |-> m.key]
       /\ info.kind = "pwri" =>
            /\ Unpadded(info.enc_key) = <<m.key>>
            /\ \/ Len(info.enc_key) = 2 * info.to.size
               \/ Len(info.enc_key) = 4 + Len(m.key) /\ Len(info.enc_key) > 2 * info.to.size

(* Every recipient that was added has an info in the message, none is lost *)
(* or made up where the infos are sorted, and they end up in the order of  *)
(* their tags, whatever order they were added in; every recipient by key   *)
(* transport or by password gets the content encryption key out of its     *)
(* info, and the padded key fills two blocks, or more if it does not fit.  *)
(* (cms builder.rs:1149-1155, KeyTransRecipientInfoBuilder,                *)
(* pad_content_encryption_key)                                             *)
EnvelopeIsReadable ==
  \A i \in DOMAIN issued :
    issued[i].type = "EnvelopedData" => IsReadable(issued[i].body, issued[i].log)

(* A recipient by key agreement gets the content encryption key under the  *)
(* key that its secret derives: "Derive the Key Encryption Key (KEK) from  *)
(* Shared Secret", "Wrap the Content Encryption Key (CEK) with the KEK"    *)
(* (builder/kari.rs).                                                      *)
RecipientsRecoverTheKey ==
  \A i \in DOMAIN issued : issued[i].type = "EnvelopedData" =>
    \A j \in DOMAIN issued[i].body.infos :
      LET info == issued[i].body.infos[j] IN
      info.kind = "kari" =>
        info.enc_key = [under |-> [secret |-> <<"ecdh", info.to.rid>>, wrap |-> info.to.wrap],
                        key |-> issued[i].body.key]
================================================================================
