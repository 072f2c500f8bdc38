----------------------------- MODULE BuildersProofs -----------------------------
(***************************************************************************)
(* Proofs about the program of Builders, for all keys, requests, builders, *)
(* extensions, attributes and recipients, and any number of calls.         *)
(***************************************************************************)
EXTENDS Builders, SequenceLemmas, TLAPS

(* The fields that a builder of each type has.                             *)
Fields(b) ==
  CASE b.type = "Certificate" ->
         /\ DOMAIN b = {"type", "profile", "extensions", "tbs"}
         /\ DOMAIN b.tbs = {"version", "signature", "issuer", "not_after", "subject", "key", "extensions"}
    [] b.type = "Request" ->
         /\ DOMAIN b = {"type", "extension_req", "info"}
         /\ DOMAIN b.info = {"subject", "key", "attributes"}
    [] b.type = "Crl" ->
         /\ DOMAIN b = {"type", "tbs"}
         /\ DOMAIN b.tbs = {"version", "signature", "issuer", "next_update", "revoked", "extensions"}
    [] b.type \in {"OcspRequest", "OcspResponse"} ->
         DOMAIN b = {"type", "tbs"} /\ DOMAIN b.tbs = {"requestor", "list", "extensions"}
    [] b.type = "SignerInfo" ->
         DOMAIN b = {"type", "sid", "digest", "content_type", "content", "external", "signed", "unsigned"}
    [] b.type = "SignedData" ->
         DOMAIN b = {"type", "content_type", "content", "digests", "certificates", "crls", "infos"}
    [] b.type = "EnvelopedData" ->
         DOMAIN b = {"type", "originator", "algorithm", "attributes", "recipients"}
    [] OTHER -> FALSE

(* What finalize returns of a builder, and whom it names.                  *)
Over(b) ==
  CASE b.type \in {"Certificate", "Crl"} -> b.tbs
    [] b.type = "Request" -> b.info
    [] b.type = "SignerInfo" -> SignedAttributes(b)
Names(b, signer) ==
  /\ b.type \in {"Certificate", "Crl"} => b.tbs.signature = signer
  /\ b.type = "Request" => b.info.key = signer
HasAttributes(b) == b.type = "SignerInfo" => b.signed # <<>>

Shape ==
  /\ builder # <<>> => builder = <<builder[1]>> /\ Fields(builder[1])
  /\ IsSequence(log) /\ IsSequence(issued)
  /\ signed # <<>> => signed = <<signed[1]>>

(* The signature that assemble will use still covers the builder, unless   *)
(* something that is signed was added after it or a finalize failed.       *)
SignatureOfBuilder ==
  signed # <<>> =>
    /\ \E i \in DOMAIN log : IsLastFinalize(log, i)
    /\ builder # <<>> =>
         /\ builder[1].type \in Signatory
         /\ Undisturbed(builder[1].type, log) => signed[1].over = Over(builder[1])
         /\ NoneFailed(log) => Names(builder[1], signed[1].by)
         /\ HasAttributes(builder[1])

--------------------------------------------------------------------------------
(* The last finalize in the log.                                           *)
LEMMA LastFinalizeIs ==
  ASSUME NEW calls, IsSequence(calls), NEW i \in DOMAIN calls, IsLastFinalize(calls, i)
  PROVE  LastFinalize(calls) = i
<1>1. \A j \in DOMAIN calls : IsLastFinalize(calls, j) => j = i
  BY SequenceShape DEF IsLastFinalize
<1> QED
  BY <1>1 DEF LastFinalize

LEMMA FinalizeAppended ==
  ASSUME NEW calls, IsSequence(calls), NEW c, c.call = "finalize", NEW type
  PROVE  /\ \E i \in DOMAIN Append(calls, c) : IsLastFinalize(Append(calls, c), i)
         /\ Undisturbed(type, Append(calls, c)) /\ NoneFailed(Append(calls, c))
<1>1. IsLastFinalize(Append(calls, c), Len(calls) + 1)
  BY AppendFacts, SequenceShape DEF IsLastFinalize, IsFinalize
<1>2. IsSequence(Append(calls, c)) /\ Len(calls) + 1 \in DOMAIN Append(calls, c)
  BY AppendFacts, SequenceShape
<1>3. LastFinalize(Append(calls, c)) = Len(calls) + 1
  BY <1>1, <1>2, LastFinalizeIs
<1>4. Since(Append(calls, c)) = {}
  BY <1>3, AppendFacts, SequenceShape DEF Since
<1> QED
  BY <1>1, <1>2, <1>4 DEF Undisturbed, NoneFailed

LEMMA OtherCallAppended ==
  ASSUME NEW calls, IsSequence(calls), NEW c, c.call # "finalize", NEW type,
         NEW i \in DOMAIN calls, IsLastFinalize(calls, i)
  PROVE  /\ \E j \in DOMAIN Append(calls, c) : IsLastFinalize(Append(calls, c), j)
         /\ Undisturbed(type, Append(calls, c)) =>
              Undisturbed(type, calls) /\ c.call \notin Disturbs(type)
         /\ NoneFailed(Append(calls, c)) => NoneFailed(calls) /\ c.call # "finalize failed"
<1>1. IsLastFinalize(Append(calls, c), i)
  BY AppendFacts, SequenceShape, SMTT(30) DEF IsLastFinalize, IsFinalize
<1>2. IsSequence(Append(calls, c)) /\ i \in DOMAIN Append(calls, c)
  BY AppendFacts, SequenceShape
<1>3. LastFinalize(Append(calls, c)) = i /\ LastFinalize(calls) = i
  BY <1>1, <1>2, LastFinalizeIs
<1>4. Since(calls) \union {c.call} \subseteq Since(Append(calls, c))
  <2> DEFINE after == Append(calls, c)
  <2>1. /\ Len(calls) \in Nat /\ Len(after) = Len(calls) + 1 /\ i \in 1 .. Len(calls)
        /\ after[Len(calls) + 1] = c /\ \A j \in 1 .. Len(calls) : after[j] = calls[j]
    BY AppendFacts, SequenceShape
  <2>2. c.call \in Since(after)
    BY <1>3, <2>1 DEF Since
  <2>3. \A j \in i + 1 .. Len(calls) : j \in i + 1 .. Len(after) /\ after[j] = calls[j]
    BY <2>1
  <2> QED
    BY <1>3, <2>2, <2>3 DEF Since
<1> QED
  BY <1>1, <1>2, <1>4 DEF Undisturbed, NoneFailed

--------------------------------------------------------------------------------
(* The builders keep their fields.                                         *)
Keeps(b, c) == Fields(c) /\ c.type = b.type
LEMMA X509Fields ==
  ASSUME NEW b, Fields(b)
  PROVE  /\ b.type = "Certificate" =>
              /\ \A x, y : Keeps(b, CertificateAdd(b, x, y))
              /\ \A x : Keeps(b, CertificateFinalize(b, x))
              /\ \A x : \A c \in CertificateFinalizeFailed(b, x) : Keeps(b, c)
         /\ b.type = "Request" =>
              /\ \A x, y : Keeps(b, RequestAdd(b, x, y))
              /\ \A x : Keeps(b, RequestAddAttribute(b, x)) /\ Keeps(b, RequestFinalize(b, x))
              /\ \A x : \A c \in RequestFinalizeFailed(b, x) : Keeps(b, c)
         /\ b.type = "Crl" =>
              \A x : /\ Keeps(b, CrlWithNextUpdate(b, x))
                    /\ Keeps(b, CrlWithCertificates(b, x))
                    /\ Keeps(b, CrlFinalize(b, x))
                    /\ \A c \in CrlFinalizeFailed(b, x) : Keeps(b, c)
         /\ b.type \in {"OcspRequest", "OcspResponse"} =>
              /\ \A x : Keeps(b, OcspWith(b, x)) /\ Keeps(b, OcspWithRequestor(b, x))
              /\ \A x, y : Keeps(b, OcspWithExtension(b, x, y))
<1> USE DEF Keeps
<1>1. CASE b.type = "Certificate"
  BY <1>1 DEF Fields, CertificateAdd, CertificateFinalize, CertificateFinalizeFailed
<1>2. CASE b.type = "Request"
  BY <1>2 DEF Fields, RequestAdd, RequestAddAttribute, RequestFinalize, RequestFinalizeFailed
<1>3. CASE b.type = "Crl"
  BY <1>3 DEF Fields, CrlWithNextUpdate, CrlWithCertificates, CrlFinalize, CrlFinalizeFailed
<1>4. CASE b.type \in {"OcspRequest", "OcspResponse"}
  BY <1>4 DEF Fields, OcspWith, OcspWithRequestor, OcspWithExtension
<1> QED
  BY <1>1, <1>2, <1>3, <1>4

LEMMA SignerInfoFields ==
  ASSUME NEW b, Fields(b), b.type = "SignerInfo"
  PROVE  /\ \A x : Keeps(b, AddSigned(b, x)) /\ Keeps(b, AddUnsigned(b, x))
         /\ Keeps(b, SignerInfoFinalize(b).b)
<1> USE DEF Keeps
<1>1. \A c, y : Fields(c) /\ c.type = b.type =>
        /\ Fields(AddSigned(c, y)) /\ AddSigned(c, y).type = b.type
        /\ Fields(AddUnsigned(c, y)) /\ AddUnsigned(c, y).type = b.type
  BY DEF Fields, AddSigned, AddUnsigned
<1>2. Fields([b EXCEPT !.signed = <<Items(@)>>]) /\ [b EXCEPT !.signed = <<Items(@)>>].type = b.type
  BY DEF Fields
<1>3. \A c : Fields(c) /\ c.type = b.type => Fields(WithContentType(c)) /\ WithContentType(c).type = b.type
  BY <1>1 DEF WithContentType
<1> QED
  BY <1>1, <1>2, <1>3, ZenonT(60) DEF SignerInfoFinalize

LEMMA CmsFields ==
  ASSUME NEW b, Fields(b)
  PROVE  /\ b.type = "SignedData" =>
              /\ \A x : Keeps(b, AddDigest(b, x)) /\ Keeps(b, AddCertificate(b, x)) /\ Keeps(b, AddCrl(b, x))
              /\ \A x, y, z : Keeps(b, AddSignerInfo(b, x, y, z))
         /\ b.type = "EnvelopedData" => \A x : Keeps(b, AddRecipient(b, x))
<1> USE DEF Keeps
<1>1. CASE b.type = "SignedData"
  <2>1. \A v : Keeps(b, KeepSignerInfo(b, v))
    BY <1>1 DEF Fields, KeepSignerInfo
  <2>2. \A x, y, z : Keeps(b, AddSignerInfo(b, x, y, z))
    BY <2>1 DEF AddSignerInfo
  <2>3. \A x : Keeps(b, AddDigest(b, x)) /\ Keeps(b, AddCertificate(b, x)) /\ Keeps(b, AddCrl(b, x))
    BY <1>1 DEF Fields, AddDigest, AddCertificate, AddCrl
  <2> QED
    BY <1>1, <2>2, <2>3
<1>2. CASE b.type = "EnvelopedData"
  BY <1>2 DEF Fields, AddRecipient
<1> QED
  BY <1>1, <1>2

LEMMA NewFields ==
  /\ \A r \in CertificateRequests : \A issuer :
       Fields(CertificateNew(r.profile, r.key, r.subject, issuer, r.not_after))
  /\ \A issuer : Fields(CrlNew(issuer))
  /\ \A i \in DOMAIN OtherNew : Fields(OtherNew[i])
<1>1. \A r \in CertificateRequests : \A issuer :
        Fields(CertificateNew(r.profile, r.key, r.subject, issuer, r.not_after))
  BY DEF Fields, CertificateNew
<1>2. \A issuer : Fields(CrlNew(issuer))
  BY DEF Fields, CrlNew
<1>3. ASSUME NEW b, IsNew(b) PROVE Fields(b)
  <2>1. CASE b.type = "Request"
    BY <1>3, <2>1 DEF IsNew, Fields, RequestNew
  <2>2. CASE b.type \in {"OcspRequest", "OcspResponse"}
    BY <1>3, <2>2 DEF IsNew, Fields, OcspNew
  <2>3. CASE b.type = "SignerInfo"
    BY <1>3, <2>3 DEF IsNew, Fields, SignerInfoNew
  <2>4. CASE b.type = "SignedData"
    BY <1>3, <2>4 DEF IsNew, Fields, SignedDataNew
  <2>5. CASE b.type = "EnvelopedData"
    BY <1>3, <2>5 DEF IsNew, Fields, EnvelopedNew
  <2> QED
    BY <1>3, <2>1, <2>2, <2>3, <2>4, <2>5 DEF IsNew
<1> QED
  BY <1>1, <1>2, <1>3, OtherNewAssumption

--------------------------------------------------------------------------------
LEMMA BecomesShape ==
  ASSUME Shape, NEW b, Fields(b), NEW call, Becomes(b, call)
  PROVE  Shape'
  BY AppendFacts DEF Shape, Becomes

LEMMA BeginShape ==
  ASSUME Shape, NEW b, b # <<>> => b = <<b[1]>> /\ Fields(b[1]), NEW arguments, Begin(b, arguments)
  PROVE  Shape'
  BY EmptyIsSequence DEF Shape, Begin

LEMMA SignShape ==
  ASSUME Shape, NEW b, Fields(b), NEW signer, NEW octets, Sign(b, signer, octets)
  PROVE  Shape'
  BY AppendFacts DEF Shape, Sign

LEMMA IssueShape ==
  ASSUME Shape, NEW type, NEW body, NEW algorithm, NEW signature, Issue(type, body, algorithm, signature),
         \/ builder' = <<>> /\ signed' \in {signed, <<>>}
         \/ UNCHANGED <<builder, signed>>,
         UNCHANGED log
  PROVE  Shape'
  BY AppendFacts DEF Shape, Issue

LEMMA ShapeInit == Init => Shape
  BY EmptyIsSequence DEF Init, Shape

LEMMA ShapeNext == Shape /\ [Next]_vars => Shape'
<1> SUFFICES ASSUME Shape, [Next]_vars PROVE Shape'
  OBVIOUS
<1> USE DEF Alive, Keeps
<1>0. builder # <<>> => Fields(builder[1])
  BY DEF Shape
<1>1. CASE NewCertificate
  BY <1>1, BeginShape, NewFields DEF NewCertificate
<1>2. CASE NewUnder
  BY <1>2, BeginShape, NewFields DEF NewUnder
<1>3. CASE NewCrl
  BY <1>3, BeginShape, NewFields DEF NewCrl
<1>4. CASE NewOther
  BY <1>4, BeginShape, NewFields DEF NewOther
<1>5. CASE AddExtension
  BY <1>0, <1>5, BecomesShape, X509Fields DEF AddExtension
<1>6. CASE AddAttribute \/ AddSignedAttribute \/ AddUnsignedAttribute
  BY <1>0, <1>6, BecomesShape, X509Fields, SignerInfoFields
     DEF AddAttribute, AddSignedAttribute, AddUnsignedAttribute
<1>7. CASE WithRevoked \/ WithNextUpdate \/ OcspAdd
  BY <1>0, <1>7, BecomesShape, X509Fields DEF WithRevoked, WithNextUpdate, OcspAdd
<1>8. CASE SignedDataAdd \/ AddRecipientInfo
  BY <1>0, <1>8, BecomesShape, CmsFields DEF SignedDataAdd, AddRecipientInfo
<1>9. CASE Finalize
  BY <1>0, <1>9, SignShape, BecomesShape, X509Fields, SignerInfoFields DEF Finalize, FailsWith
<1>10. CASE Assemble
  BY <1>10, IssueShape DEF Assemble
<1>11. CASE OcspSign
  BY <1>11, IssueShape DEF OcspSign
<1>12. CASE CmsBuild
  BY <1>12, IssueShape DEF CmsBuild
<1>13. CASE UNCHANGED vars
  BY <1>13 DEF vars, Shape
<1> QED
  BY <1>1, <1>2, <1>3, <1>4, <1>5, <1>6, <1>7, <1>8, <1>9, <1>10, <1>11, <1>12, <1>13 DEF Next

--------------------------------------------------------------------------------
(* Signatures.                                                             *)
SignatureInv == Shape /\ SignatureOfBuilder /\ SignatureFits

LEMMA BecomesSignature ==
  ASSUME SignatureInv, builder # <<>>, NEW b, NEW call, Becomes(b, call), Fields(b),
         call.call # "finalize", b.type = builder[1].type,
         b.type \in Signatory =>
           /\ call.call \notin Disturbs(b.type) => Over(b) = Over(builder[1])
           /\ call.call # "finalize failed" => \A signer : Names(builder[1], signer) => Names(b, signer)
           /\ HasAttributes(builder[1]) => HasAttributes(b)
  PROVE  SignatureOfBuilder' /\ SignatureFits'
<1>1. builder' = <<b>> /\ log' = Append(log, call) /\ signed' = signed /\ issued' = issued
  BY DEF Becomes
<1>2. SignatureFits'
  BY <1>1 DEF SignatureInv, SignatureFits
<1>3. ASSUME signed # <<>> PROVE SignatureOfBuilder'
  <2>1. PICK i \in DOMAIN log : IsLastFinalize(log, i)
    BY <1>3 DEF SignatureInv, SignatureOfBuilder
  <2>2. /\ \E j \in DOMAIN log' : IsLastFinalize(log', j)
        /\ Undisturbed(b.type, log') => Undisturbed(b.type, log) /\ call.call \notin Disturbs(b.type)
        /\ NoneFailed(log') => NoneFailed(log) /\ call.call # "finalize failed"
    BY <1>1, <2>1, OtherCallAppended DEF SignatureInv, Shape
  <2>3. /\ b.type \in Signatory
        /\ Undisturbed(b.type, log) => signed[1].over = Over(builder[1])
        /\ NoneFailed(log) => Names(builder[1], signed[1].by)
        /\ HasAttributes(builder[1])
    BY <1>3 DEF SignatureInv, SignatureOfBuilder
  <2> QED
    BY <1>1, <2>2, <2>3 DEF SignatureOfBuilder
<1> QED
  BY <1>1, <1>2, <1>3 DEF SignatureOfBuilder

LEMMA SignSignature ==
  ASSUME SignatureInv, NEW b, NEW signer, NEW octets, Sign(b, signer, octets),
         b.type \in Signatory, octets = Over(b), Names(b, signer), HasAttributes(b)
  PROVE  SignatureOfBuilder' /\ SignatureFits'
<1>1. /\ builder' = <<b>> /\ log' = Append(log, Call("finalize", signer))
      /\ signed' = <<[by |-> signer, over |-> octets]>> /\ issued' = issued
  BY DEF Sign
<1>2. /\ \E i \in DOMAIN log' : IsLastFinalize(log', i)
  BY <1>1, FinalizeAppended DEF SignatureInv, Shape, Call
<1> QED
  BY <1>1, <1>2 DEF SignatureInv, SignatureOfBuilder, SignatureFits

LEMMA BeginSignature ==
  ASSUME SignatureInv, NEW b, NEW arguments, Begin(b, arguments)
  PROVE  SignatureOfBuilder' /\ SignatureFits'
  BY DEF SignatureInv, SignatureOfBuilder, SignatureFits, Begin

(* An object that is issued, whatever becomes of the builder.              *)
SignatureFitsOf(p) == p.type \in Signatory => SignatureFitsOn(p)

LEMMA IssueSignature ==
  ASSUME SignatureInv, NEW p, SignatureFitsOf(p), issued' = Append(issued, p)
  PROVE  SignatureFits'
<1>1. \A i \in DOMAIN issued : SignatureFitsOf(issued[i])
  BY DEF SignatureInv, SignatureFits, SignatureFitsOf
<1>2. \A i \in DOMAIN issued' : SignatureFitsOf(issued'[i])
  BY <1>1, AppendFacts, SequenceShape DEF SignatureInv, Shape
<1> QED
  BY <1>2 DEF SignatureFits, SignatureFitsOf

LEMMA AssembleSignature ==
  ASSUME SignatureInv, Assemble
  PROVE  SignatureOfBuilder' /\ SignatureFits'
<1> DEFINE b == builder[1]
           Product(type, body, algorithm) ==
             [type |-> type, body |-> body, algorithm |-> algorithm, signature |-> signed[1],
              for |-> asked[1].for, log |-> log]
<1>1. /\ b.type \in Signatory /\ HasAttributes(b)
      /\ NoneFailed(log) => Names(b, signed[1].by)
      /\ Undisturbed(b.type, log) => signed[1].over = Over(b)
  BY DEF SignatureInv, SignatureOfBuilder, Assemble, Alive
<1>2. SignatureOfBuilder'
  BY DEF SignatureOfBuilder, Assemble
<1>3. PICK signer \in Keys :
        CASE b.type \in {"Certificate", "Crl"} ->
               issued' = Append(issued, Product(b.type, b.tbs, b.tbs.signature))
          [] b.type = "Request" -> issued' = Append(issued, Product("Request", b.info, signer))
          [] OTHER -> issued' = Append(issued, Product("SignerInfo", SignerInfoProduct(b, signer, signed[1]), signer))
  BY DEF Assemble, Issue
<1>4. CASE b.type \in {"Certificate", "Crl"}
  BY <1>1, <1>2, <1>3, <1>4, IssueSignature DEF SignatureFitsOf, SignatureFitsOn, Covered, Over, Names
<1>5. CASE b.type = "Request"
  BY <1>1, <1>2, <1>3, <1>5, IssueSignature DEF SignatureFitsOf, SignatureFitsOn, Covered, Over, Names
<1>6. CASE b.type = "SignerInfo"
  <2>1. SignerInfoProduct(b, signer, signed[1]).signed[1] = SignedAttributes(b)
    BY <1>1, <1>6 DEF HasAttributes, SignerInfoProduct, Sorted, SignedAttributes, Items
  <2> QED
    BY <1>1, <1>2, <1>3, <1>6, <2>1, IssueSignature DEF SignatureFitsOf, SignatureFitsOn, Covered, Over
<1> QED
  BY <1>1, <1>4, <1>5, <1>6 DEF Signatory

(* The calls that add something: what is signed changes only by a call that*)
(* disturbs it.                                                            *)
LEMMA AddSignature ==
  ASSUME SignatureInv,
         \/ AddExtension \/ AddAttribute \/ AddSignedAttribute \/ AddUnsignedAttribute
         \/ WithRevoked \/ WithNextUpdate \/ OcspAdd \/ SignedDataAdd \/ AddRecipientInfo
  PROVE  SignatureOfBuilder' /\ SignatureFits'
<1> DEFINE b == builder[1]
<1> USE DEF Alive, Call, Signatory, Keeps
<1>0. /\ builder # <<>> => Fields(b)
  BY DEF SignatureInv, Shape
<1>a. ASSUME NEW c, NEW call, Becomes(c, call), Keeps(b, c), builder # <<>>,
             call.call \notin {"finalize", "finalize failed"},
             b.type \in Signatory => Over(c) = Over(b)
                                    /\ (\A signer : Names(b, signer) => Names(c, signer))
                                    /\ (HasAttributes(b) => HasAttributes(c))
      PROVE  SignatureOfBuilder' /\ SignatureFits'
  BY <1>a, BecomesSignature
<1>b. /\ \A n : Call("extension", n).call = "extension" /\ Call("unsigned", n).call = "unsigned"
      /\ \A n : Call("entry", n).call = "entry" /\ Call("requestor", n).call = "requestor"
  OBVIOUS
<1>1. CASE AddExtension
  <2> HIDE DEF Call
  <2>1. PICK id \in ExtensionIds :
          Becomes(CASE b.type = "Certificate" -> CertificateAdd(b, id, <<"own">>)
                    [] b.type = "Request" -> RequestAdd(b, id, <<"own">>)
                    [] OTHER -> OcspWithExtension(b, id, <<"own">>), Call("extension", id))
    BY <1>1 DEF AddExtension
  <2>2. CASE b.type = "Certificate"
    <3> DEFINE c == CertificateAdd(b, id, <<"own">>)
    <3>1. c.tbs = b.tbs /\ builder # <<>>
      BY <1>0, <1>1, <2>2 DEF AddExtension, Fields, CertificateAdd
    <3>2. Becomes(c, Call("extension", id)) /\ Keeps(b, c)
      BY <1>0, <1>1, <2>1, <2>2, X509Fields DEF AddExtension
    <3> HIDE DEF c
    <3>3. Over(c) = Over(b) /\ (\A signer : Names(b, signer) => Names(c, signer)) /\ HasAttributes(c)
      BY <2>2, <3>1, <3>2 DEF Over, Names, HasAttributes
    <3> QED
      BY <1>a, <1>b, <3>1, <3>2, <3>3
  <2>3. CASE b.type = "Request"
    <3> DEFINE c == RequestAdd(b, id, <<"own">>)
    <3>1. c.info = b.info /\ builder # <<>>
      BY <1>0, <1>1, <2>3 DEF AddExtension, Fields, RequestAdd
    <3>2. Becomes(c, Call("extension", id)) /\ Keeps(b, c)
      BY <1>0, <1>1, <2>1, <2>3, X509Fields DEF AddExtension
    <3> HIDE DEF c
    <3>3. Over(c) = Over(b) /\ (\A signer : Names(b, signer) => Names(c, signer)) /\ HasAttributes(c)
      BY <2>3, <3>1, <3>2 DEF Over, Names, HasAttributes
    <3> QED
      BY <1>a, <1>b, <3>1, <3>2, <3>3
  <2>4. CASE b.type \in {"OcspRequest", "OcspResponse"}
    <3>1. /\ Becomes(OcspWithExtension(b, id, <<"own">>), Call("extension", id)) /\ builder # <<>>
          /\ Keeps(b, OcspWithExtension(b, id, <<"own">>))
      BY <1>0, <1>1, <2>1, <2>4, X509Fields DEF AddExtension
    <3> QED
      BY <1>a, <1>b, <2>4, <3>1
  <2> QED
    BY <1>1, <2>2, <2>3, <2>4 DEF AddExtension
<1>2. CASE AddAttribute
  <2>1. PICK a \in RequestAttributes : Becomes(RequestAddAttribute(b, a), Call("attribute", a[1]))
    BY <1>2 DEF AddAttribute
  <2> DEFINE c == RequestAddAttribute(b, a)
  <2>2. b.type = "Request" /\ Fields(b) /\ builder # <<>>
    BY <1>0, <1>2 DEF AddAttribute
  <2>3. c.info.key = b.info.key
    BY <2>2 DEF Fields, RequestAddAttribute
  <2>4. Fields(c) /\ c.type = b.type
    BY <2>2, X509Fields
  <2>5. Call("attribute", a[1]).call \in Disturbs("Request") /\ Call("attribute", a[1]).call # "finalize"
    BY DEF Disturbs
  <2>6. HasAttributes(c) /\ \A signer : Names(b, signer) => Names(c, signer)
    BY <2>2, <2>3, <2>4 DEF Names, HasAttributes
  <2> HIDE DEF c, Call
  <2> QED
    BY <2>1, <2>2, <2>4, <2>5, <2>6, BecomesSignature DEF c
<1>3. CASE AddSignedAttribute
  <2>1. PICK a \in SignedAttributeSet : Becomes(AddSigned(b, a), Call("attribute", a))
    BY <1>3 DEF AddSignedAttribute
  <2> DEFINE c == AddSigned(b, a)
  <2>2. b.type = "SignerInfo" /\ Fields(b) /\ builder # <<>>
    BY <1>0, <1>3 DEF AddSignedAttribute
  <2>3. c.signed # <<>>
    BY <2>2 DEF Fields, AddSigned, OptionAppend
  <2>4. Fields(c) /\ c.type = b.type
    BY <2>2, SignerInfoFields
  <2>5. Call("attribute", a).call \in Disturbs("SignerInfo") /\ Call("attribute", a).call # "finalize"
    BY DEF Disturbs
  <2>6. HasAttributes(c) /\ \A signer : Names(c, signer)
    BY <2>2, <2>3, <2>4 DEF Names, HasAttributes
  <2> HIDE DEF c, Call
  <2> QED
    BY <2>1, <2>2, <2>4, <2>5, <2>6, BecomesSignature DEF c
<1>4. CASE AddUnsignedAttribute
  <2>1. PICK a \in SignedAttributeSet : Becomes(AddUnsigned(b, a), Call("unsigned", a))
    BY <1>4 DEF AddUnsignedAttribute
  <2> DEFINE c == AddUnsigned(b, a)
  <2>2. b.type = "SignerInfo" /\ builder # <<>> /\ c.signed = b.signed /\ Keeps(b, c)
    BY <1>0, <1>4, SignerInfoFields DEF AddUnsignedAttribute, Fields, AddUnsigned
  <2>3. Becomes(c, Call("unsigned", a))
    BY <2>1
  <2> HIDE DEF c, Call
  <2>4. Over(c) = Over(b) /\ (\A signer : Names(b, signer) => Names(c, signer))
        /\ (HasAttributes(b) => HasAttributes(c))
    BY <2>2 DEF Over, Names, HasAttributes, SignedAttributes
  <2> QED
    BY <1>a, <1>b, <2>2, <2>3, <2>4
<1>5. CASE WithRevoked \/ WithNextUpdate
  <2>1. b.type = "Crl" /\ Fields(b) /\ builder # <<>>
    BY <1>0, <1>5 DEF WithRevoked, WithNextUpdate
  <2> HIDE DEF Call
  <2>2. ASSUME NEW c, Fields(c), c.type = "Crl", c.tbs.signature = b.tbs.signature,
               NEW call, call.call \in Disturbs("Crl"), call.call # "finalize", Becomes(c, call)
        PROVE  SignatureOfBuilder' /\ SignatureFits'
    <3>2. HasAttributes(c) /\ \A signer : Names(b, signer) => Names(c, signer)
      BY <2>1, <2>2 DEF Names, HasAttributes
    <3> QED
      BY <2>1, <2>2, <3>2, BecomesSignature
  <2>3. /\ \A n : Call("revoked", n).call = "revoked" /\ Call("next update", n).call = "next update"
        /\ {"revoked", "next update"} \subseteq Disturbs("Crl")
    BY DEF Call, Disturbs
  <2>4. CASE WithRevoked
    <3>1. PICK x : Becomes(CrlWithCertificates(b, x), Call("revoked", Len(x)))
      BY <2>4 DEF WithRevoked
    <3>2. CrlWithCertificates(b, x).tbs.signature = b.tbs.signature
      BY <2>1 DEF Fields, CrlWithCertificates
    <3>3. Fields(CrlWithCertificates(b, x)) /\ CrlWithCertificates(b, x).type = "Crl"
      BY <2>1, X509Fields
    <3>4. /\ Call("revoked", Len(x)).call \in Disturbs("Crl")
          /\ Call("revoked", Len(x)).call # "finalize"
      BY <2>3
    <3> DEFINE after == CrlWithCertificates(b, x)
               call == Call("revoked", Len(x))
    <3>5. /\ Becomes(after, call) /\ Fields(after) /\ after.type = "Crl"
          /\ after.tbs.signature = b.tbs.signature /\ call.call \in Disturbs("Crl") /\ call.call # "finalize"
      BY <3>1, <3>2, <3>3, <3>4
    <3> HIDE DEF after, call
    <3> QED
      BY <2>2, <3>5
  <2>5. CASE WithNextUpdate
    <3>1. PICK x : Becomes(CrlWithNextUpdate(b, x), Call("next update", Len(x)))
      BY <2>5 DEF WithNextUpdate
    <3>2. CrlWithNextUpdate(b, x).tbs.signature = b.tbs.signature
      BY <2>1 DEF Fields, CrlWithNextUpdate
    <3>3. Fields(CrlWithNextUpdate(b, x)) /\ CrlWithNextUpdate(b, x).type = "Crl"
      BY <2>1, X509Fields
    <3>4. /\ Call("next update", Len(x)).call \in Disturbs("Crl")
          /\ Call("next update", Len(x)).call # "finalize"
      BY <2>3
    <3> DEFINE after == CrlWithNextUpdate(b, x)
               call == Call("next update", Len(x))
    <3>5. /\ Becomes(after, call) /\ Fields(after) /\ after.type = "Crl"
          /\ after.tbs.signature = b.tbs.signature /\ call.call \in Disturbs("Crl") /\ call.call # "finalize"
      BY <3>1, <3>2, <3>3, <3>4
    <3> HIDE DEF after, call
    <3> QED
      BY <2>2, <3>5
  <2> QED
    BY <1>5, <2>4, <2>5
<1>6. CASE OcspAdd
  <2>1. b.type \in {"OcspRequest", "OcspResponse"} /\ builder # <<>>
    BY <1>6 DEF OcspAdd
  <2>2. \A x : Keeps(b, OcspWith(b, x)) /\ Keeps(b, OcspWithRequestor(b, x))
    BY <1>0, <2>1, X509Fields
  <2> HIDE DEF Call
  <2> QED
    BY <1>6, <1>a, <1>b, <2>1, <2>2 DEF OcspAdd
<1>7. CASE SignedDataAdd \/ AddRecipientInfo
  <2>1. b.type \in {"SignedData", "EnvelopedData"} /\ Fields(b) /\ builder # <<>>
    BY <1>0, <1>7 DEF SignedDataAdd, AddRecipientInfo
  <2> HIDE DEF Call
  <2>2. ASSUME NEW c, NEW call, Becomes(c, call), Fields(c), c.type = b.type, call.call # "finalize"
        PROVE  SignatureOfBuilder' /\ SignatureFits'
    BY <2>1, <2>2, BecomesSignature
  <2>3. \A n : /\ Call("certificate", n).call # "finalize" /\ Call("crl", n).call # "finalize"
              /\ Call("digest", n).call # "finalize" /\ Call("signer info", n).call # "finalize"
              /\ Call("recipient", n).call # "finalize"
    BY DEF Call
  <2>4. CASE SignedDataAdd
    <3>1. b.type = "SignedData"
      BY <2>4 DEF SignedDataAdd
    <3>2. CASE \E x \in {"plain", "other"} : Becomes(AddCertificate(b, x), Call("certificate", 0))
      <4>1. PICK x : Becomes(AddCertificate(b, x), Call("certificate", 0))
        BY <3>2
      <4>2. Keeps(b, AddCertificate(b, x))
        BY <2>1, <3>1, CmsFields
      <4> QED
        BY <2>2, <2>3, <4>1, <4>2 DEF Keeps
    <3>3. CASE \E x \in {"plain", "other"} : Becomes(AddCrl(b, x), Call("crl", 0))
      <4>1. PICK x : Becomes(AddCrl(b, x), Call("crl", 0))
        BY <3>3
      <4>2. Keeps(b, AddCrl(b, x))
        BY <2>1, <3>1, CmsFields
      <4> QED
        BY <2>2, <2>3, <4>1, <4>2 DEF Keeps
    <3>4. CASE Becomes(AddDigest(b, "sha256"), Call("digest", 0))
      <4>1. Keeps(b, AddDigest(b, "sha256"))
        BY <2>1, <3>1, CmsFields
      <4> QED
        BY <2>2, <2>3, <3>4, <4>1 DEF Keeps
    <3>5. CASE \E info \in SignerInfos, signer \in Keys, callback \in {"none", "stamps", "fails"} :
                 Becomes(AddSignerInfo(b, info, signer, callback), Call("signer info", 0))
      <4>1. PICK x, y, z : Becomes(AddSignerInfo(b, x, y, z), Call("signer info", 0))
        BY <3>5
      <4>2. Keeps(b, AddSignerInfo(b, x, y, z))
        BY <2>1, <3>1, CmsFields
      <4> QED
        BY <2>2, <2>3, <4>1, <4>2 DEF Keeps
    <3> QED
      BY <2>4, <3>2, <3>3, <3>4, <3>5 DEF SignedDataAdd
  <2>5. CASE AddRecipientInfo
    <3>1. PICK x : Becomes(AddRecipient(b, x), Call("recipient", x))
      BY <2>5 DEF AddRecipientInfo
    <3>2. b.type = "EnvelopedData"
      BY <2>5 DEF AddRecipientInfo
    <3>3. Fields(AddRecipient(b, x)) /\ AddRecipient(b, x).type = b.type
      BY <2>1, <3>2, CmsFields
    <3>4. Call("recipient", x).call # "finalize"
      BY <2>3
    <3> QED
      BY <2>2, <3>1, <3>3, <3>4
  <2> QED
    BY <1>7, <2>4, <2>5
<1> QED
  BY <1>1, <1>2, <1>3, <1>4, <1>5, <1>6, <1>7

(* A SignerInfo that finalize changed, or succeeded on, has attributes.    *)
LEMMA FinalizedSigned ==
  ASSUME NEW b, Fields(b), b.type = "SignerInfo"
  PROVE  /\ SignerInfoFinalize(b).b = b \/ SignerInfoFinalize(b).b.signed # <<>>
         /\ SignerInfoFinalize(b).ok => SignerInfoFinalize(b).b.signed # <<>>
<1> DEFINE octets == b.external \o b.content
           begun == [b EXCEPT !.signed = <<Items(@)>>]
           digested == AddSigned(begun, DigestOf(octets[1]))
<1>1. Fields(begun) /\ begun.type = "SignerInfo" /\ begun.signed # <<>>
  BY DEF Fields
<1>2. \A c, a : Fields(c) /\ c.type = "SignerInfo" => AddSigned(c, a).signed # <<>>
  BY DEF Fields, AddSigned, OptionAppend
<1>3. Fields(digested) /\ digested.type = "SignerInfo" /\ digested.signed # <<>>
  BY <1>1, <1>2, SignerInfoFields DEF Keeps
<1>4. WithContentType(digested).signed # <<>>
  BY <1>2, <1>3 DEF WithContentType
<1>5. SignerInfoFinalize(b) =
        CASE DigestError(b) -> [ok |-> FALSE, b |-> b]
          [] octets = <<>> -> [ok |-> TRUE, b |-> begun]
          [] ContentTypeError(digested) -> [ok |-> FALSE, b |-> digested]
          [] OTHER -> [ok |-> TRUE, b |-> WithContentType(digested)]
  BY DEF SignerInfoFinalize
<1> HIDE DEF octets, begun, digested
<1> QED
  BY <1>1, <1>3, <1>4, <1>5

(* A finalize that fails: only what the builder holds stays.               *)
LEMMA FailsSignature ==
  ASSUME SignatureInv, builder # <<>>, NEW b, NEW signer, FailsWith(b, signer), Fields(b),
         b.type = builder[1].type, b.type \in Signatory, HasAttributes(builder[1]) => HasAttributes(b)
  PROVE  SignatureOfBuilder' /\ SignatureFits'
<1>1. Call("finalize failed", signer).call = "finalize failed" /\ Becomes(b, Call("finalize failed", signer))
  BY DEF Call, FailsWith
<1>2. "finalize failed" \in Disturbs(b.type)
  BY DEF Disturbs
<1> HIDE DEF Call
<1> QED
  BY <1>1, <1>2, BecomesSignature

LEMMA FinalizeSignature ==
  ASSUME SignatureInv, Finalize
  PROVE  SignatureOfBuilder' /\ SignatureFits'
<1> DEFINE b == builder[1]
<1> USE DEF Alive, Signatory, Keeps
<1>0. builder # <<>> /\ Fields(b)
  BY DEF SignatureInv, Shape, Finalize
<1>1. PICK signer \in Keys :
        \/ /\ b.type = "Certificate"
           /\ \/ Sign(CertificateFinalize(b, signer), signer, CertificateFinalize(b, signer).tbs)
              \/ \E c \in CertificateFinalizeFailed(b, signer) : FailsWith(c, signer)
        \/ /\ b.type = "Request"
           /\ \/ Sign(RequestFinalize(b, signer), signer, RequestFinalize(b, signer).info)
              \/ \E c \in RequestFinalizeFailed(b, signer) : FailsWith(c, signer)
        \/ /\ b.type = "Crl"
           /\ \/ Sign(CrlFinalize(b, signer), signer, CrlFinalize(b, signer).tbs)
              \/ \E c \in CrlFinalizeFailed(b, signer) : FailsWith(c, signer)
        \/ /\ b.type = "SignerInfo"
           /\ \/ /\ SignerInfoFinalize(b).ok
                 /\ Sign(SignerInfoFinalize(b).b, signer, SignedAttributes(SignerInfoFinalize(b).b))
              \/ FailsWith(SignerInfoFinalize(b).b, signer)
  BY DEF Finalize
<1>a. ASSUME NEW c, FailsWith(c, signer), Keeps(b, c), b.type # "SignerInfo", b.type \in Signatory
      PROVE  SignatureOfBuilder' /\ SignatureFits'
  BY <1>0, <1>a, FailsSignature DEF HasAttributes
<1>2. CASE b.type = "Certificate"
  <2>1. CertificateFinalize(b, signer).tbs.signature = signer
    BY <1>0, <1>2 DEF Fields, CertificateFinalize
  <2>2. CASE Sign(CertificateFinalize(b, signer), signer, CertificateFinalize(b, signer).tbs)
    BY <1>0, <1>2, <2>1, <2>2, SignSignature, X509Fields DEF Over, Names, HasAttributes
  <2>3. CASE \E c \in CertificateFinalizeFailed(b, signer) : FailsWith(c, signer)
    BY <1>0, <1>2, <1>a, <2>3, X509Fields
  <2> QED
    BY <1>1, <1>2, <2>2, <2>3
<1>3. CASE b.type = "Request"
  <2>1. RequestFinalize(b, signer).info.key = signer
    BY <1>0, <1>3 DEF Fields, RequestFinalize
  <2>2. CASE Sign(RequestFinalize(b, signer), signer, RequestFinalize(b, signer).info)
    BY <1>0, <1>3, <2>1, <2>2, SignSignature, X509Fields DEF Over, Names, HasAttributes
  <2>3. CASE \E c \in RequestFinalizeFailed(b, signer) : FailsWith(c, signer)
    BY <1>0, <1>3, <1>a, <2>3, X509Fields
  <2> QED
    BY <1>1, <1>3, <2>2, <2>3
<1>4. CASE b.type = "Crl"
  <2>1. CrlFinalize(b, signer).tbs.signature = signer
    BY <1>0, <1>4 DEF Fields, CrlFinalize
  <2>2. CASE Sign(CrlFinalize(b, signer), signer, CrlFinalize(b, signer).tbs)
    BY <1>0, <1>4, <2>1, <2>2, SignSignature, X509Fields DEF Over, Names, HasAttributes
  <2>3. CASE \E c \in CrlFinalizeFailed(b, signer) : FailsWith(c, signer)
    BY <1>0, <1>4, <1>a, <2>3, X509Fields
  <2> QED
    BY <1>1, <1>4, <2>2, <2>3
<1>5. CASE b.type = "SignerInfo"
  <2> DEFINE done == SignerInfoFinalize(b)
  <2>5. /\ done.b = b \/ done.b.signed # <<>>
        /\ done.ok => done.b.signed # <<>>
    BY <1>0, <1>5, FinalizedSigned
  <2>7. Fields(done.b) /\ done.b.type = "SignerInfo"
    BY <1>0, <1>5, SignerInfoFields
  <2>8. CASE done.ok /\ Sign(done.b, signer, SignedAttributes(done.b))
    BY <2>5, <2>7, <2>8, SignSignature DEF Over, Names, HasAttributes
  <2>9. CASE FailsWith(done.b, signer)
    <3>3. HasAttributes(b) => HasAttributes(done.b)
      BY <1>5, <2>5, <2>7 DEF HasAttributes
    <3> HIDE DEF done
    <3> QED
      BY <1>0, <1>5, <2>7, <2>9, <3>3, FailsSignature
  <2> QED
    BY <1>1, <1>5, <2>8, <2>9
<1> QED
  BY <1>1, <1>2, <1>3, <1>4, <1>5

LEMMA SignatureNext == SignatureInv /\ [Next]_vars => SignatureInv'
<1> SUFFICES ASSUME SignatureInv, [Next]_vars PROVE SignatureOfBuilder' /\ SignatureFits'
  BY ShapeNext DEF SignatureInv
<1>1. CASE NewCertificate \/ NewUnder \/ NewCrl \/ NewOther
  BY <1>1, BeginSignature DEF NewCertificate, NewUnder, NewCrl, NewOther
<1>2. CASE OcspSign
  BY <1>2, IssueSignature
     DEF OcspSign, Issue, Alive, Signatory, SignatureFitsOf, SignatureFitsOn, SignatureInv, SignatureOfBuilder
<1>3. CASE CmsBuild
  BY <1>3, IssueSignature
     DEF CmsBuild, Issue, Signatory, SignatureFitsOf, SignatureFitsOn, SignatureInv, SignatureOfBuilder
<1>4. CASE UNCHANGED vars
  BY <1>4 DEF vars, SignatureInv, SignatureOfBuilder, SignatureFits
<1> QED
  BY <1>1, <1>2, <1>3, <1>4, AddSignature, FinalizeSignature, AssembleSignature DEF Next

(* The signature of every object that the builders issue covers it and     *)
(* names the signer, in whatever order the program called them, as long as *)
(* nothing disturbed the object after the octets that were signed.         *)
THEOREM Signatures == Spec => []SignatureFits
<1>1. Init => SignatureInv
  BY ShapeInit DEF Init, SignatureInv, SignatureOfBuilder, SignatureFits
<1>2. SignatureInv => SignatureFits
  BY DEF SignatureInv
<1> QED
  BY <1>1, <1>2, SignatureNext, PTL DEF Spec

--------------------------------------------------------------------------------
(* What builders hold, of what they were begun for and of the calls.       *)
Finalized(calls) == \E i \in DOMAIN calls : IsFinalize(calls[i])
Attempted(calls) == \E i \in DOMAIN calls : IsAttempt(calls[i])

LEMMA OnceNoneFailed ==
  ASSUME NEW calls, IsSequence(calls), FinalizedOnce(calls)
  PROVE  NoneFailed(calls)
<1>1. PICK i \in DOMAIN calls : IsFinalize(calls[i]) /\ \A j \in DOMAIN calls \ {i} : ~IsAttempt(calls[j])
  BY DEF FinalizedOnce
<1>2. \A j \in DOMAIN calls : calls[j].call # "finalize failed" /\ (IsFinalize(calls[j]) => j = i)
  BY <1>1 DEF IsFinalize, IsAttempt
<1>3. IsLastFinalize(calls, i)
  <2>1. \A j \in i + 1 .. Len(calls) : j \in DOMAIN calls /\ j # i
    BY SequenceShape
  <2> QED
    BY <1>1, <1>2, <2>1 DEF IsLastFinalize
<1>4. LastFinalize(calls) = i
  BY <1>3, LastFinalizeIs
<1>5. i + 1 .. Len(calls) \subseteq DOMAIN calls
  BY SequenceShape
<1> QED
  BY <1>2, <1>4, <1>5 DEF NoneFailed, Since

LEMMA CallAppended ==
  ASSUME NEW calls, IsSequence(calls), NEW c
  PROVE  /\ Finalized(Append(calls, c)) <=> Finalized(calls) \/ IsFinalize(c)
         /\ Attempted(Append(calls, c)) <=> Attempted(calls) \/ IsAttempt(c)
         /\ FinalizedAgain(calls) => FinalizedAgain(Append(calls, c))
         /\ Attempted(calls) /\ IsAttempt(c) => FinalizedAgain(Append(calls, c))
         /\ FinalizedOnce(Append(calls, c)) /\ IsAttempt(c) => IsFinalize(c) /\ ~Attempted(calls)
         /\ FinalizedOnce(Append(calls, c)) /\ ~IsAttempt(c) => FinalizedOnce(calls)
         /\ OwnIdentifier(calls) => OwnIdentifier(Append(calls, c))
         /\ c.call = "extension" /\ c.arg \in {"authorityKeyIdentifier", "subjectKeyIdentifier"}
              => OwnIdentifier(Append(calls, c))
<1> DEFINE after == Append(calls, c)
           last == Len(calls) + 1
<1>1. /\ DOMAIN calls = 1 .. Len(calls) /\ DOMAIN after = 1 .. last /\ Len(calls) \in Nat
      /\ \A i \in 1 .. Len(calls) : after[i] = calls[i]
      /\ after[last] = c
  BY AppendFacts, SequenceShape
<1> HIDE DEF after
<1>2. Finalized(after) <=> Finalized(calls) \/ IsFinalize(c)
  BY <1>1 DEF Finalized
<1>9. Attempted(after) <=> Attempted(calls) \/ IsAttempt(c)
  BY <1>1 DEF Attempted
<1>3. FinalizedAgain(calls) => FinalizedAgain(after)
  BY <1>1 DEF FinalizedAgain
<1>4. Attempted(calls) /\ IsAttempt(c) => FinalizedAgain(after)
  BY <1>1 DEF FinalizedAgain, Attempted
<1>a. \A d : IsFinalize(d) => IsAttempt(d)
  BY DEF IsFinalize, IsAttempt
<1>b. /\ \A s : FinalizedOnce(s) <=> \E i \in DOMAIN s : IsFinalize(s[i]) /\ \A j \in DOMAIN s : j # i => ~IsAttempt(s[j])
  BY DEF FinalizedOnce
<1>c. last \in DOMAIN after /\ \A i \in DOMAIN after : i = last \/ (i \in DOMAIN calls /\ after[i] = calls[i])
  BY <1>1
<1>d. \A i \in DOMAIN calls : i \in DOMAIN after /\ i # last /\ after[i] = calls[i]
  BY <1>1
<1>e. after[last] = c
  BY <1>1
<1> HIDE DEF last
<1>5. ASSUME FinalizedOnce(after), IsAttempt(c) PROVE IsFinalize(c) /\ ~Attempted(calls)
  <2>1. PICK i \in DOMAIN after : IsFinalize(after[i]) /\ \A j \in DOMAIN after : j # i => ~IsAttempt(after[j])
    BY <1>5, <1>b
  <2>2. i = last
    BY <1>5, <1>c, <1>e, <2>1
  <2> QED
    BY <1>d, <1>e, <2>1, <2>2 DEF Attempted
<1>6. ASSUME FinalizedOnce(after), ~IsAttempt(c) PROVE FinalizedOnce(calls)
  <2>1. PICK i \in DOMAIN after : IsFinalize(after[i]) /\ \A j \in DOMAIN after : j # i => ~IsAttempt(after[j])
    BY <1>6, <1>b
  <2>2. i \in DOMAIN calls
    BY <1>6, <1>a, <1>c, <1>e, <2>1
  <2>3. IsFinalize(calls[i]) /\ \A j \in DOMAIN calls : j # i => ~IsAttempt(calls[j])
    BY <1>d, <2>1, <2>2
  <2> QED
    BY <1>b, <2>2, <2>3
<1> USE DEF last
<1>7. OwnIdentifier(calls) => OwnIdentifier(after)
  BY <1>1 DEF OwnIdentifier
<1>8. c.call = "extension" /\ c.arg \in {"authorityKeyIdentifier", "subjectKeyIdentifier"} => OwnIdentifier(after)
  BY <1>1 DEF OwnIdentifier
<1> QED
  BY <1>2, <1>3, <1>4, <1>5, <1>6, <1>7, <1>8, <1>9 DEF after

(* The values of one extension in a list and in what is appended to it.    *)
LEMMA ValuesConcat ==
  ASSUME NEW s, NEW t, IsSequence(s), IsSequence(t), NEW id
  PROVE  ValuesOf(s \o t, id) = ValuesOf(s, id) \union ValuesOf(t, id)
<1>1. \A v : v \in ValuesOf(s, id) \union ValuesOf(t, id) => v \in ValuesOf(s \o t, id)
  <2>1. \A i \in Places(s, id) : i \in Places(s \o t, id) /\ (s \o t)[i].value = s[i].value
    BY ConcatFacts, SequenceShape DEF Places
  <2>2. \A i \in Places(t, id) : Len(s) + i \in Places(s \o t, id) /\ (s \o t)[Len(s) + i].value = t[i].value
    BY ConcatFacts, SequenceShape DEF Places
  <2> QED
    BY <2>1, <2>2, ZenonT(60) DEF ValuesOf
<1>2. \A v : v \in ValuesOf(s \o t, id) => v \in ValuesOf(s, id) \union ValuesOf(t, id)
  <2>1. ASSUME NEW i \in Places(s \o t, id)
        PROVE  (s \o t)[i].value \in ValuesOf(s, id) \union ValuesOf(t, id)
    <3>1. i \in 1 .. Len(s) + Len(t) /\ Len(s) \in Nat /\ Len(t) \in Nat
      BY ConcatFacts, SequenceShape DEF Places
    <3>2. CASE i <= Len(s)
      <4>1. i \in Places(s, id) /\ (s \o t)[i] = s[i]
        BY <3>1, <3>2, ConcatFacts, SequenceShape DEF Places
      <4> QED
        BY <4>1 DEF ValuesOf
    <3>3. CASE i > Len(s)
      <4>1. i - Len(s) \in 1 .. Len(t) /\ i = Len(s) + (i - Len(s))
        BY <3>1, <3>3
      <4>2. (s \o t)[i] = t[i - Len(s)]
        BY <4>1, ConcatFacts
      <4>3. i - Len(s) \in Places(t, id)
        BY <4>1, <4>2, SequenceShape DEF Places
      <4> QED
        BY <4>2, <4>3 DEF ValuesOf
    <3> QED
      BY <3>1, <3>2, <3>3
  <2> QED
    BY <2>1 DEF ValuesOf
<1> QED
  BY <1>1, <1>2

LEMMA ValuesOfNothing == \A id : ValuesOf(<<>>, id) = {}
  BY EmptyIsSequence DEF ValuesOf, Places

LEMMA ValuesAppended ==
  ASSUME NEW s, IsSequence(s), NEW e, NEW id
  PROVE  ValuesOf(Append(s, e), id) = ValuesOf(s, id) \union (IF e.id = id THEN {e.value} ELSE {})
<1>1. /\ DOMAIN s = 1 .. Len(s) /\ DOMAIN Append(s, e) = 1 .. Len(s) + 1 /\ Len(s) \in Nat
      /\ \A i \in 1 .. Len(s) : Append(s, e)[i] = s[i]
      /\ Append(s, e)[Len(s) + 1] = e
  BY AppendFacts, SequenceShape
<1>2. \A i : i \in Places(Append(s, e), id) <=> i \in Places(s, id) \/ (i = Len(s) + 1 /\ e.id = id)
  BY <1>1 DEF Places
<1>3. \A i \in Places(s, id) : Append(s, e)[i] = s[i]
  BY <1>1 DEF Places
<1> QED
  BY <1>1, <1>2, <1>3 DEF ValuesOf

(* What the profiles say: which keys they identify.                        *)
Authority == "authorityKeyIdentifier"
Subject == "subjectKeyIdentifier"
LEMMA ProfileFacts ==
  ASSUME NEW profile, profile.name \in Profiles, NEW key, NEW issuer_key, NEW subject
  PROVE  LET added == ProfileExtensions(profile, key, issuer_key, subject) IN
         /\ IsSequence(added)
         /\ added = <<>> <=> profile.name = "Plain"
         /\ ValuesOf(added, Subject) \subseteq {KeyIdentifier(key)}
         /\ profile.name = "Root" =>
              /\ ValuesOf(added, Authority) = {KeyIdentifier(key)}
              /\ ValuesOf(added, Subject) = {KeyIdentifier(key)}
         /\ profile.name \in {"Subordinate", "Subscriber", "DevId"} =>
              ValuesOf(added, Authority) = {KeyIdentifier(issuer_key)}
<1> DEFINE added == ProfileExtensions(profile, key, issuer_key, subject)
           Ext(id, value) == ToExtension(id, value, subject)
<1>1. \A id, value : Ext(id, value).id = id /\ Ext(id, value).value = value
  BY DEF ToExtension
<1> HIDE DEF Ext
<1>2. CASE profile.name = "Plain"
  <2>1. added = <<>>
    BY <1>2 DEF ProfileExtensions
  <2> QED
    BY <1>2, <2>1, EmptyIsSequence, ValuesOfNothing
<1>3. CASE profile.name = "Root"
  <2>1. PICK v, w : added = <<Ext(Authority, KeyIdentifier(key)), Ext("basicConstraints", v),
                              Ext("keyUsage", w), Ext(Subject, KeyIdentifier(key))>>
    BY <1>3 DEF ProfileExtensions, Ext, Authority, Subject
  <2>2. IsSequence(added) /\ added # <<>>
    <3>1. added \in Seq({added[1], added[2], added[3], added[4]}) /\ added # <<>>
      BY <2>1
    <3> QED
      BY <3>1, OfItsElements
  <2>3. Places(added, Authority) = {1} /\ Places(added, Subject) = {4}
    BY <1>1, <2>1 DEF Places, Authority, Subject
  <2>4. ValuesOf(added, Authority) = {KeyIdentifier(key)} /\ ValuesOf(added, Subject) = {KeyIdentifier(key)}
    BY <1>1, <2>1, <2>3 DEF ValuesOf
  <2> QED
    BY <1>3, <2>2, <2>4
<1>4. CASE profile.name = "Subordinate"
  <2>1. PICK u, v, w : added = <<Ext(Authority, KeyIdentifier(issuer_key)), Ext("basicConstraints", u),
                                 Ext("keyUsage", v), Ext(Subject, KeyIdentifier(key)), Ext("extKeyUsage", w)>>
    BY <1>4 DEF ProfileExtensions, Ext, Authority, Subject
  <2>2. IsSequence(added) /\ added # <<>>
    <3>1. added \in Seq({added[1], added[2], added[3], added[4], added[5]}) /\ added # <<>>
      BY <2>1
    <3> QED
      BY <3>1, OfItsElements
  <2>3. Places(added, Authority) = {1} /\ Places(added, Subject) = {4}
    BY <1>1, <2>1 DEF Places, Authority, Subject
  <2>4. ValuesOf(added, Authority) = {KeyIdentifier(issuer_key)} /\ ValuesOf(added, Subject) = {KeyIdentifier(key)}
    BY <1>1, <2>1, <2>3 DEF ValuesOf
  <2> QED
    BY <1>4, <2>2, <2>4
<1>5. CASE profile.name = "Subscriber"
  <2>1. PICK u, v, w : added = <<Ext(Authority, KeyIdentifier(issuer_key)), Ext("extKeyUsage", u),
                                 Ext("basicConstraints", v), Ext("keyUsage", w)>>
    BY <1>5 DEF ProfileExtensions, Ext, Authority, Subject
  <2>2. IsSequence(added) /\ added # <<>>
    <3>1. added \in Seq({added[1], added[2], added[3], added[4]}) /\ added # <<>>
      BY <2>1
    <3> QED
      BY <3>1, OfItsElements
  <2>3. Places(added, Authority) = {1} /\ Places(added, Subject) = {}
    BY <1>1, <2>1 DEF Places, Authority, Subject
  <2>4. ValuesOf(added, Authority) = {KeyIdentifier(issuer_key)} /\ ValuesOf(added, Subject) = {}
    BY <1>1, <2>1, <2>3 DEF ValuesOf
  <2> QED
    BY <1>5, <2>2, <2>4
<1>6. CASE profile.name = "DevId"
  <2> DEFINE first == <<Ext(Authority, KeyIdentifier(issuer_key)), Ext("keyUsage", <<"digitalSignature">>)>>
             rest == IF profile.alt_names = <<>> THEN <<>> ELSE <<Ext("subjectAltName", profile.alt_names[1])>>
  <2>1. added = first \o rest
    BY <1>6 DEF ProfileExtensions, Ext, Authority
  <2>2. IsSequence(first) /\ first # <<>>
    <3>1. first \in Seq({first[1], first[2]}) /\ first # <<>>
      OBVIOUS
    <3> QED
      BY <3>1, OfItsElements
  <2>3. IsSequence(rest) /\ ValuesOf(rest, Authority) = {} /\ ValuesOf(rest, Subject) = {}
    <3>1. CASE profile.alt_names = <<>>
      BY <3>1, EmptyIsSequence, ValuesOfNothing
    <3>2. CASE profile.alt_names # <<>>
      <4>1. rest \in Seq({rest[1]}) /\ DOMAIN rest = {1} /\ rest[1].id = "subjectAltName"
        BY <1>1, <3>2
      <4> HIDE DEF rest
      <4>2. IsSequence(rest)
        BY <4>1, OfItsElements
      <4>3. Places(rest, Authority) = {} /\ Places(rest, Subject) = {}
        BY <4>1 DEF Places, Authority, Subject
      <4> QED
        BY <4>2, <4>3 DEF ValuesOf
    <3> QED
      BY <3>1, <3>2
  <2>4. ValuesOf(first, Authority) = {KeyIdentifier(issuer_key)} /\ ValuesOf(first, Subject) = {}
    <3>1. Places(first, Authority) = {1} /\ Places(first, Subject) = {}
      BY <1>1 DEF Places, Authority, Subject
    <3> QED
      BY <1>1, <3>1 DEF ValuesOf
  <2> HIDE DEF first, rest, added
  <2>5. IsSequence(added) /\ added # <<>>
    BY <2>1, <2>2, <2>3, ConcatFacts, SequenceShape
  <2>6. \A id : ValuesOf(added, id) = ValuesOf(first, id) \union ValuesOf(rest, id)
    BY <2>1, <2>2, <2>3, ValuesConcat
  <2> QED
    BY <1>6, <2>3, <2>4, <2>5, <2>6 DEF added
<1> QED
  BY <1>2, <1>3, <1>4, <1>5, <1>6 DEF Profiles

(* Extensions whose criticality fits the subject.                          *)
Fits(e, subject) == e.id = "subjectAltName" => e.critical = (subject = <<>>)

LEMMA MadeFits == \A id, value, subject : Fits(ToExtension(id, value, subject), subject)
  BY DEF Fits, ToExtension, Criticality

LEMMA CriticalAppended ==
  ASSUME NEW s, IsSequence(s), NEW subject, CriticalFits(s, subject), NEW e, Fits(e, subject)
  PROVE  CriticalFits(Append(s, e), subject)
<1> DEFINE t == Append(s, e)
           n == Len(s)
<1>1. DOMAIN t = 1 .. n + 1 /\ DOMAIN s = 1 .. n /\ n \in Nat
      /\ t[n + 1] = e /\ \A i \in 1 .. n : t[i] = s[i]
  BY AppendFacts, SequenceShape
<1> HIDE DEF t, n
<1>2. \A i \in DOMAIN t : i \in DOMAIN s \/ i = n + 1
  BY <1>1
<1> QED
  BY <1>1, <1>2 DEF CriticalFits, Fits, t

LEMMA CriticalConcat ==
  ASSUME NEW s, IsSequence(s), NEW t, IsSequence(t), NEW subject,
         CriticalFits(s, subject), CriticalFits(t, subject)
  PROVE  CriticalFits(s \o t, subject)
<1> DEFINE u == s \o t
           n == Len(s)
           m == Len(t)
<1>1. /\ DOMAIN u = 1 .. n + m /\ DOMAIN s = 1 .. n /\ DOMAIN t = 1 .. m /\ n \in Nat /\ m \in Nat
      /\ \A i \in 1 .. n : u[i] = s[i]
      /\ \A i \in 1 .. m : u[n + i] = t[i]
  BY ConcatFacts, SequenceShape
<1> HIDE DEF u, n, m
<1>2. ASSUME NEW i \in DOMAIN u PROVE Fits(u[i], subject)
  <2>1. CASE i \in 1 .. n
    BY <1>1, <2>1 DEF CriticalFits, Fits
  <2>2. CASE i \notin 1 .. n
    <3>1. i - n \in 1 .. m /\ n + (i - n) = i
      BY <1>1, <2>2
    <3>2. u[i] = t[i - n]
      BY <1>1, <3>1
    <3> QED
      BY <1>1, <3>1, <3>2 DEF CriticalFits, Fits
  <2> QED
    BY <2>1, <2>2
<1> QED
  BY <1>2 DEF CriticalFits, Fits, u

LEMMA ProfileCritical ==
  ASSUME NEW profile, profile.name \in Profiles, NEW key, NEW issuer_key, NEW subject
  PROVE  CriticalFits(ProfileExtensions(profile, key, issuer_key, subject), subject)
<1> DEFINE added == ProfileExtensions(profile, key, issuer_key, subject)
           Ext(id, value) == ToExtension(id, value, subject)
<1>1. \A id, value : Fits(Ext(id, value), subject)
  BY MadeFits
<1> HIDE DEF Ext
<1>2. CASE profile.name = "Plain"
  BY <1>2, EmptyIsSequence DEF ProfileExtensions, CriticalFits
<1>3. CASE profile.name = "Root"
  <2>1. PICK t, u, v, w : added = <<Ext("authorityKeyIdentifier", t), Ext("basicConstraints", u),
                                    Ext("keyUsage", v), Ext("subjectKeyIdentifier", w)>>
    BY <1>3 DEF ProfileExtensions, Ext
  <2> HIDE DEF added
  <2> QED
    BY <1>1, <2>1 DEF CriticalFits, Fits, added
<1>4. CASE profile.name = "Subordinate"
  <2>1. PICK t, u, v, w, x :
          added = <<Ext("authorityKeyIdentifier", t), Ext("basicConstraints", u), Ext("keyUsage", v),
                    Ext("subjectKeyIdentifier", w), Ext("extKeyUsage", x)>>
    BY <1>4 DEF ProfileExtensions, Ext
  <2> HIDE DEF added
  <2> QED
    BY <1>1, <2>1 DEF CriticalFits, Fits, added
<1>5. CASE profile.name = "Subscriber"
  <2>1. PICK t, u, v, w : added = <<Ext("authorityKeyIdentifier", t), Ext("extKeyUsage", u),
                                    Ext("basicConstraints", v), Ext("keyUsage", w)>>
    BY <1>5 DEF ProfileExtensions, Ext
  <2> HIDE DEF added
  <2> QED
    BY <1>1, <2>1 DEF CriticalFits, Fits, added
<1>6. CASE profile.name = "DevId"
  <2> DEFINE first == <<Ext("authorityKeyIdentifier", KeyIdentifier(issuer_key)),
                        Ext("keyUsage", <<"digitalSignature">>)>>
             names == Ext("subjectAltName", profile.alt_names[1])
             rest == IF profile.alt_names = <<>> THEN <<>> ELSE <<names>>
  <2>1. added = first \o rest
    BY <1>6 DEF ProfileExtensions, Ext
  <2>2. IsSequence(first) /\ CriticalFits(first, subject)
    <3>1. first \in Seq({first[1], first[2]}) /\ DOMAIN first = {1, 2}
      OBVIOUS
    <3>2. Fits(first[1], subject) /\ Fits(first[2], subject)
      BY <1>1
    <3> HIDE DEF first
    <3>3. IsSequence(first)
      BY <3>1, OfItsElements
    <3> QED
      BY <3>1, <3>2, <3>3 DEF CriticalFits, Fits
  <2>3. IsSequence(rest) /\ CriticalFits(rest, subject)
    <3>1. CASE profile.alt_names = <<>>
      BY <3>1, EmptyIsSequence DEF CriticalFits
    <3>2. CASE profile.alt_names # <<>>
      <4> HIDE DEF names
      <4>1. rest \in Seq({names}) /\ DOMAIN rest = {1} /\ rest[1] = names
        BY <3>2
      <4>2. Fits(names, subject)
        BY <1>1 DEF names
      <4> HIDE DEF rest
      <4> QED
        BY <4>1, <4>2, OfItsElements DEF CriticalFits, Fits
    <3> QED
      BY <3>1, <3>2
  <2> HIDE DEF first, rest, added
  <2> QED
    BY <2>1, <2>2, <2>3, CriticalConcat DEF added
<1> QED
  BY <1>2, <1>3, <1>4, <1>5, <1>6 DEF Profiles

--------------------------------------------------------------------------------
(* Names.                                                                  *)
Increasing(name, k) == \A i \in 1 .. k - 1 : RankOf(name[i][1]) < RankOf(name[i + 1][1])

LEMMA SameEnd ==
  ASSUME NEW last, last \in Nat, NEW f, NEW g, GoWith(f, g, last)
  PROVE  f[last] = g[last]
<1>1. last \in 0 .. last
  OBVIOUS
<1> QED
  BY <1>1, SameSteps

(* What check_names_encoding holds after each of the RDNs.                 *)
Checks == [ok : BOOLEAN, seen : SUBSET STRING, at : 0 .. 11]
Checked(f, name) ==
  f[0] = Unchecked /\ \A k \in 1 .. Len(name) : f[k] = CheckRdn(f[k - 1], name[k], FALSE)

LEMMA CheckIsTyped ==
  ASSUME NEW s \in Checks, NEW rdn \in Seq(STRING)
  PROVE  CheckRdn(s, rdn, FALSE) \in Checks
<1> DEFINE type == rdn[1]
           ahead == {i \in s.at + 1 .. Len(ENFORCED) : ENFORCED[i] = type}
<1>1. CASE s.ok /\ Len(rdn) = 1
  <2>1. type \in STRING
    BY <1>1
  <2>2. Len(ENFORCED) = 11
    BY DEF ENFORCED
  <2>3. ahead # {} => (CHOOSE i \in ahead : TRUE) \in 0 .. 11
    <3>1. ahead \subseteq 0 .. 11
      BY <2>2 DEF Checks
    <3> HIDE DEF ahead
    <3> QED
      BY <3>1
  <2>4. CheckRdn(s, rdn, FALSE) = CheckAttribute(s, type, FALSE)
    BY <1>1 DEF CheckRdn
  <2>5. CheckAttribute(s, type, FALSE) =
          CASE type \in s.seen -> [s EXCEPT !.ok = FALSE]
            [] \A i \in DOMAIN ENFORCED : ENFORCED[i] # type -> [s EXCEPT !.seen = @ \union {type}]
            [] ahead = {} -> [s EXCEPT !.ok = FALSE]
            [] OTHER -> [s EXCEPT !.seen = @ \union {type}, !.at = CHOOSE i \in ahead : TRUE]
    BY DEF CheckAttribute
  <2> HIDE DEF type, ahead
  <2> DEFINE at == CHOOSE i \in ahead : TRUE
             unordered == \A i \in DOMAIN ENFORCED : ENFORCED[i] # type
  <2>6. ahead # {} => at \in 0 .. 11
    BY <2>3
  <2>7. CheckRdn(s, rdn, FALSE) =
          CASE type \in s.seen -> [s EXCEPT !.ok = FALSE]
            [] unordered -> [s EXCEPT !.seen = @ \union {type}]
            [] ahead = {} -> [s EXCEPT !.ok = FALSE]
            [] OTHER -> [s EXCEPT !.seen = @ \union {type}, !.at = at]
    BY <2>4, <2>5
  <2> HIDE DEF at, unordered
  <2> QED
    BY <2>1, <2>6, <2>7 DEF Checks
<1>2. CASE ~s.ok
  BY <1>2 DEF CheckRdn
<1>3. CASE s.ok /\ Len(rdn) # 1
  BY <1>3 DEF CheckRdn, Checks
<1> QED
  BY <1>1, <1>2, <1>3

LEMMA ChecksUnfold ==
  ASSUME NEW name \in Seq(Seq(STRING))
  PROVE  \E f \in [0 .. Len(name) -> Checks] :
           Checked(f, name) /\ (check_names_encoding(name, FALSE) <=> f[Len(name)].ok)
<1> DEFINE n == Len(name)
           step == [k \in 1 .. n |-> [s \in Checks |-> CheckRdn(s, name[k], FALSE)]]
           Unfolding(f) == f = [k \in 0 .. n |-> IF k = 0 THEN Unchecked ELSE CheckRdn(f[k - 1], name[k], FALSE)]
           p == CHOOSE f : Unfolding(f)
<1>1. n \in Nat /\ Unchecked \in Checks /\ step \in [1 .. n -> [Checks -> Checks]]
  <2>1. \A k \in 1 .. n : \A s \in Checks : CheckRdn(s, name[k], FALSE) \in Checks
    <3>1. \A k \in 1 .. n : name[k] \in Seq(STRING)
      OBVIOUS
    <3> QED
      BY <3>1, CheckIsTyped
  <2>2. Unchecked \in Checks
    BY DEF Unchecked, Checks
  <2>3. \A k \in 1 .. n : [s \in Checks |-> CheckRdn(s, name[k], FALSE)] \in [Checks -> Checks]
    BY <2>1
  <2>4. n \in Nat
    OBVIOUS
  <2> QED
    BY <2>2, <2>3, <2>4
<1>2. \A k \in 1 .. n : \A s \in Checks : step[k][s] = CheckRdn(s, name[k], FALSE)
  OBVIOUS
<1> HIDE DEF step
<1>3. PICK f \in [0 .. n -> Checks] : Unfolds(f, Unchecked, step, n)
  BY <1>1, Recursion
<1>4. f[0] = Unchecked /\ \A k \in 1 .. n : f[k] = CheckRdn(f[k - 1], name[k], FALSE)
  <2>1. \A k \in 1 .. n : k - 1 \in 0 .. n /\ f[k - 1] \in Checks
    <3> HIDE DEF n
    <3>1. \A k \in 1 .. n : k - 1 \in 0 .. n
      BY <1>1
    <3> QED
      BY <1>3, <3>1
  <2>2. f[0] = Unchecked /\ \A k \in 1 .. n : f[k] = step[k][f[k - 1]]
    BY <1>3 DEF Unfolds
  <2> QED
    BY ONLY <1>2, <2>1, <2>2
<1>5. Unfolding(f)
  <2>1. \A k \in 0 .. n : f[k] = IF k = 0 THEN Unchecked ELSE CheckRdn(f[k - 1], name[k], FALSE)
    BY <1>1, <1>4
  <2> QED
    BY <1>3, <2>1
<1>6. Unfolding(p)
  <2> HIDE DEF Unfolding
  <2> QED
    BY <1>5
<1>7. check_names_encoding(name, FALSE) = p[n].ok
  BY DEF check_names_encoding
<1>8. p[0] = Unchecked /\ \A k \in 1 .. n : p[k] = CheckRdn(p[k - 1], name[k], FALSE)
  <2> HIDE DEF p
  <2>1. \A k \in 0 .. n : p[k] = IF k = 0 THEN Unchecked ELSE CheckRdn(p[k - 1], name[k], FALSE)
    BY <1>6
  <2>2. 0 \in 0 .. n /\ \A k \in 1 .. n : k \in 0 .. n /\ k # 0
    BY <1>1
  <2> QED
    BY <2>1, <2>2
<1> HIDE DEF p
<1>9. p[n] = f[n]
  <2>1. GoWith(p, f, n)
    BY <1>4, <1>8 DEF GoWith
  <2>2. n \in 0 .. n
    BY <1>1
  <2> QED
    BY <1>1, <2>1, <2>2, SameSteps
<1> QED
  BY <1>3, <1>4, <1>7, <1>9 DEF Checked

(* One attribute that passes, and one of those that a CA's name may have.  *)
LEMMA CheckPassed ==
  ASSUME NEW s \in Checks, NEW rdn \in Seq(STRING), CheckRdn(s, rdn, FALSE).ok
  PROVE  s.ok /\ Len(rdn) = 1 /\ rdn[1] \notin s.seen
<1>1. s.ok
  BY DEF CheckRdn
<1>2. Len(rdn) = 1
  BY <1>1 DEF CheckRdn, Checks
<1>3. rdn[1] \notin s.seen
  BY <1>1, <1>2 DEF CheckRdn, CheckAttribute, Checks
<1> QED
  BY <1>1, <1>2, <1>3

LEMMA RanksAreTheOrder ==
  ASSUME NEW type \in CA_ALLOWED
  PROVE  /\ RankOf(type) \in 1 .. 11 /\ ENFORCED[RankOf(type)] = type
         /\ \A i \in 1 .. 11 : ENFORCED[i] = type => i = RankOf(type)
<1>1. CASE type \in {"C", "ST", "L"}
  BY <1>1 DEF RankOf, ENFORCED
<1>2. CASE type \in {"postalCode", "street"}
  BY <1>2 DEF RankOf, ENFORCED
<1>3. CASE type \in {"O", "CN"}
  BY <1>3 DEF RankOf, ENFORCED
<1> QED
  BY <1>1, <1>2, <1>3 DEF CA_ALLOWED

LEMMA RankedIsAllowed ==
  ASSUME NEW type, RankOf(type) > 0
  PROVE  type \in CA_ALLOWED
  BY DEF RankOf, CA_ALLOWED

LEMMA CaAttribute ==
  ASSUME NEW s \in Checks, s.ok, NEW rdn \in Seq(STRING), Len(rdn) = 1, rdn[1] \in CA_ALLOWED,
         \A type \in s.seen : RankOf(type) <= s.at
  PROVE  /\ CheckRdn(s, rdn, FALSE).ok <=> RankOf(rdn[1]) > s.at
         /\ CheckRdn(s, rdn, FALSE).ok =>
              /\ CheckRdn(s, rdn, FALSE).seen = s.seen \union {rdn[1]}
              /\ CheckRdn(s, rdn, FALSE).at = RankOf(rdn[1])
<1> DEFINE type == rdn[1]
           rank == RankOf(type)
           ahead == {i \in s.at + 1 .. Len(ENFORCED) : ENFORCED[i] = type}
           c == CheckRdn(s, rdn, FALSE)
<1>1. /\ rank \in 1 .. 11 /\ ENFORCED[rank] = type
      /\ \A i \in 1 .. 11 : ENFORCED[i] = type => i = rank
  BY RanksAreTheOrder
<1>2. Len(ENFORCED) = 11 /\ DOMAIN ENFORCED = 1 .. 11
  BY DEF ENFORCED
<1>3. s.at \in 0 .. 11
  BY DEF Checks
<1>4. c = CASE type \in s.seen -> [s EXCEPT !.ok = FALSE]
            [] \A i \in DOMAIN ENFORCED : ENFORCED[i] # type -> [s EXCEPT !.seen = @ \union {type}]
            [] ahead = {} -> [s EXCEPT !.ok = FALSE]
            [] OTHER -> [s EXCEPT !.seen = @ \union {type}, !.at = CHOOSE i \in ahead : TRUE]
  BY DEF CheckRdn, CheckAttribute
<1>5. ~\A i \in DOMAIN ENFORCED : ENFORCED[i] # type
  BY <1>1, <1>2
<1>6. type \in s.seen => rank <= s.at
  OBVIOUS
<1> HIDE DEF type, rank, c
<1>7. CASE rank > s.at
  <2>1. ahead = {rank}
    <3>1. rank \in s.at + 1 .. 11
      BY <1>1, <1>3, <1>7
    <3>2. rank \in ahead
      BY <1>1, <1>2, <3>1
    <3>3. ASSUME NEW i \in ahead PROVE i = rank
      <4>1. i \in s.at + 1 .. 11 /\ ENFORCED[i] = type
        BY <1>2
      <4> HIDE DEF ahead
      <4>2. i \in 1 .. 11
        BY <1>3, <4>1
      <4> QED
        BY <1>1, <4>1, <4>2
    <3> HIDE DEF ahead
    <3> QED
      BY <3>2, <3>3
  <2>2. (CHOOSE i \in ahead : TRUE) = rank
    BY <2>1
  <2> HIDE DEF ahead
  <2>3. type \notin s.seen
    BY <1>1, <1>3, <1>6, <1>7
  <2>4. c = [s EXCEPT !.seen = @ \union {type}, !.at = rank]
    BY <1>4, <1>5, <2>1, <2>2, <2>3
  <2>5. c.ok /\ c.seen = s.seen \union {type} /\ c.at = rank
    BY <2>4 DEF Checks
  <2> QED
    BY <1>7, <2>5 DEF c, type, rank
<1>8. CASE ~(rank > s.at)
  <2>1. ahead = {}
    <3>1. ASSUME NEW i \in ahead PROVE FALSE
      <4>1. i \in s.at + 1 .. 11 /\ ENFORCED[i] = type
        BY <1>2
      <4> HIDE DEF ahead
      <4>2. i \in 1 .. 11 /\ i > s.at
        BY <1>3, <4>1
      <4>3. i = rank
        BY <1>1, <4>1, <4>2
      <4> QED
        BY <1>8, <4>2, <4>3
    <3> QED
      BY <3>1
  <2> HIDE DEF ahead
  <2>2. c = [s EXCEPT !.ok = FALSE]
    BY <1>4, <1>5, <2>1
  <2>3. ~c.ok
    BY <2>2 DEF Checks
  <2> QED
    BY <1>8, <2>3 DEF c, type, rank
<1> QED
  BY <1>7, <1>8

(* A name that passes has passed at each of its RDNs.                      *)
LEMMA PassedThroughout ==
  ASSUME NEW name \in Seq(Seq(STRING)), NEW f \in [0 .. Len(name) -> Checks], Checked(f, name), f[Len(name)].ok
  PROVE  /\ \A k \in 0 .. Len(name) : f[k].ok
         /\ \A k \in 1 .. Len(name) : Len(name[k]) = 1 /\ name[k][1] \notin f[k - 1].seen
<1> DEFINE n == Len(name)
           Back == {m \in Nat : m <= n => f[n - m].ok}
<1>1. n \in Nat /\ \A k \in 1 .. n : name[k] \in Seq(STRING)
  OBVIOUS
<1>2. \A k \in 1 .. n : f[k] = CheckRdn(f[k - 1], name[k], FALSE)
  BY DEF Checked
<1>3. f \in [0 .. n -> Checks] /\ f[n].ok
  OBVIOUS
<1> HIDE DEF n
<1>4. ASSUME NEW k \in 1 .. n, f[k].ok
      PROVE  f[k - 1].ok /\ Len(name[k]) = 1 /\ name[k][1] \notin f[k - 1].seen
  <2>1. k - 1 \in 0 .. n
    BY <1>1
  <2>2. f[k - 1] \in Checks /\ name[k] \in Seq(STRING) /\ CheckRdn(f[k - 1], name[k], FALSE).ok
    BY <1>1, <1>2, <1>3, <1>4, <2>1
  <2> QED
    BY <2>2, CheckPassed
<1>5. 0 \in Back
  BY <1>1, <1>3
<1>6. ASSUME NEW m \in Back PROVE m + 1 \in Back
  <2> SUFFICES ASSUME m + 1 <= n PROVE f[n - (m + 1)].ok
    OBVIOUS
  <2> DEFINE k == n - m
  <2>1. k \in 1 .. n /\ k - 1 = n - (m + 1) /\ f[k].ok
    BY <1>1
  <2> HIDE DEF k
  <2> QED
    BY <1>4, <2>1
<1>7. Back = Nat
  <2> HIDE DEF Back
  <2>1. Back \in SUBSET Nat
    BY DEF Back
  <2> QED
    BY <1>5, <1>6, <2>1, Induction
<1>8. \A k \in 0 .. n : f[k].ok
  <2>1. ASSUME NEW k \in 0 .. n PROVE f[k].ok
    <3> DEFINE m == n - k
    <3>1. m \in Nat /\ m <= n /\ n - m = k
      BY <1>1
    <3> HIDE DEF m
    <3> QED
      BY <1>7, <3>1
  <2> QED
    BY <2>1
<1>9. \A k \in 1 .. n : k \in 0 .. n
  OBVIOUS
<1> QED
  BY <1>4, <1>8, <1>9 DEF n

(* The name of a CA passes as long as its attributes are in order.         *)
SinglesOfCa(name) == \A i \in 1 .. Len(name) : Len(name[i]) = 1 /\ name[i][1] \in CA_ALLOWED
InOrder(f, name, k) ==
  /\ f[k].ok <=> Increasing(name, k)
  /\ f[k].ok =>
       /\ f[k].seen = {name[i][1] : i \in 1 .. k}
       /\ \A type \in f[k].seen : RankOf(type) <= f[k].at
       /\ f[k].at = IF k = 0 THEN 0 ELSE RankOf(name[k][1])

LEMMA OrderIsChecked ==
  ASSUME NEW name \in Seq(Seq(STRING)), SinglesOfCa(name),
         NEW f \in [0 .. Len(name) -> Checks], Checked(f, name)
  PROVE  \A k \in 0 .. Len(name) : InOrder(f, name, k)
<1> DEFINE n == Len(name)
           Held == {k \in Nat : k <= n => InOrder(f, name, k)}
<1>1. n \in Nat /\ \A k \in 1 .. n : name[k] \in Seq(STRING) /\ Len(name[k]) = 1 /\ name[k][1] \in CA_ALLOWED
  BY DEF SinglesOfCa
<1>2. f[0] = Unchecked /\ \A k \in 1 .. n : f[k] = CheckRdn(f[k - 1], name[k], FALSE)
  BY DEF Checked
<1>3. f \in [0 .. n -> Checks]
  OBVIOUS
<1> HIDE DEF n
<1>4. 0 \in Held
  BY <1>1, <1>2 DEF InOrder, Increasing, Unchecked
<1>5. ASSUME NEW k \in Held PROVE k + 1 \in Held
  <2> SUFFICES ASSUME k + 1 <= n PROVE InOrder(f, name, k + 1)
    OBVIOUS
  <2> DEFINE m == k + 1
             type == name[m][1]
             s == f[k]
             c == f[m]
  <2>1. m \in 1 .. n /\ m - 1 = k /\ k \in Nat /\ k \in 0 .. n
    BY <1>1
  <2>2. s \in Checks /\ name[m] \in Seq(STRING) /\ Len(name[m]) = 1 /\ type \in CA_ALLOWED
        /\ c = CheckRdn(s, name[m], FALSE)
    BY <1>1, <1>2, <1>3, <2>1
  <2>3. InOrder(f, name, k)
    BY <2>1
  <2>4. Increasing(name, m) <=> Increasing(name, k) /\ (k # 0 => RankOf(name[k][1]) < RankOf(type))
    <3>1. /\ m - 1 = k /\ (k # 0 => k \in 1 .. m - 1) /\ k + 1 = m
          /\ \A i \in 1 .. m - 1 : i = k \/ i \in 1 .. k - 1
          /\ \A i \in 1 .. k - 1 : i \in 1 .. m - 1
      BY <2>1
    <3> HIDE DEF m
    <3>2. k = 0 => 1 .. m - 1 = {} /\ 1 .. k - 1 = {}
      BY <3>1
    <3> QED
      BY <3>1, <3>2 DEF Increasing
  <2>5. {name[i][1] : i \in 1 .. m} = {name[i][1] : i \in 1 .. k} \union {type}
    <3>1. \A i : i \in 1 .. m <=> i \in 1 .. k \/ i = m
      BY <2>1
    <3> HIDE DEF m
    <3> QED
      BY <3>1
  <2>6. RankOf(type) \in 1 .. 11
    BY <2>2, RanksAreTheOrder
  <2>7. m # 0
    BY <2>1
  <2> HIDE DEF m, type
  <2>8. CASE s.ok
    <3>1. /\ Increasing(name, k) /\ s.seen = {name[i][1] : i \in 1 .. k}
          /\ \A t \in s.seen : RankOf(t) <= s.at
          /\ s.at = IF k = 0 THEN 0 ELSE RankOf(name[k][1])
      BY <2>3, <2>8 DEF InOrder
    <3>2. /\ c.ok <=> RankOf(type) > s.at
          /\ c.ok => c.seen = s.seen \union {type} /\ c.at = RankOf(type)
      <4>1. name[m][1] \in CA_ALLOWED /\ \A t \in s.seen : RankOf(t) <= s.at
        BY <2>2, <3>1 DEF type
      <4> HIDE DEF s, c
      <4> QED
        BY <2>2, <2>8, <4>1, CaAttribute DEF type
    <3>3. s.at \in 0 .. 11
      BY <2>2 DEF Checks
    <3>4. c.ok <=> Increasing(name, m)
      <4>1. k = 0 => s.at = 0 /\ RankOf(type) > 0
        BY <2>6, <3>1
      <4>2. k # 0 => s.at = RankOf(name[k][1])
        BY <3>1
      <4>3. RankOf(type) > s.at <=> s.at < RankOf(type)
        BY <2>6, <3>3
      <4> QED
        BY <2>4, <3>1, <3>2, <4>1, <4>2, <4>3
    <3>5. c.ok => /\ c.seen = {name[i][1] : i \in 1 .. m}
                  /\ \A t \in c.seen : RankOf(t) <= c.at
                  /\ c.at = IF m = 0 THEN 0 ELSE RankOf(name[m][1])
      <4> SUFFICES ASSUME c.ok
                   PROVE  /\ c.seen = {name[i][1] : i \in 1 .. m}
                          /\ \A t \in c.seen : RankOf(t) <= c.at
                          /\ c.at = IF m = 0 THEN 0 ELSE RankOf(name[m][1])
        OBVIOUS
      <4>1. c.seen = s.seen \union {type} /\ c.at = RankOf(type) /\ RankOf(type) > s.at
        BY <3>2
      <4>2. ASSUME NEW t \in s.seen PROVE RankOf(t) <= RankOf(type)
        <5>1. t \in CA_ALLOWED
          <6>1. \A i \in 1 .. k : i \in 1 .. n
            BY <1>1, <2>1
          <6> QED
            BY <1>1, <3>1, <6>1
        <5>2. RankOf(t) \in 1 .. 11 /\ RankOf(t) <= s.at
          BY <3>1, <5>1, RanksAreTheOrder
        <5>3. \A x, y \in 1 .. 11 : \A a \in 0 .. 11 : x <= a /\ y > a => x <= y
          OBVIOUS
        <5> QED
          BY <2>6, <3>3, <4>1, <5>2, <5>3
      <4>3. RankOf(type) <= RankOf(type)
        BY <2>6
      <4> QED
        BY <2>5, <2>7, <3>1, <4>1, <4>2, <4>3 DEF type
    <3> QED
      BY <3>4, <3>5 DEF InOrder, m
  <2>9. CASE ~s.ok
    <3>1. ~Increasing(name, k)
      BY <2>3, <2>9 DEF InOrder
    <3>2. ~c.ok
      BY <2>2, <2>9 DEF CheckRdn
    <3> QED
      BY <2>4, <3>1, <3>2 DEF InOrder, m
  <2> QED
    BY <2>8, <2>9
<1>6. Held = Nat
  <2> HIDE DEF Held
  <2>1. Held \in SUBSET Nat
    BY DEF Held
  <2> QED
    BY <1>4, <1>5, <2>1, Induction
<1> QED
  BY <1>6 DEF n

(* The attributes of a name, RDN by RDN.                                   *)
Joined(f, name) ==
  f[0] = <<>> /\ \A k \in 1 .. Len(name) : f[k] = f[k - 1] \o name[k]

LEMMA AttributesUnfold ==
  ASSUME NEW name \in Seq(Seq(STRING))
  PROVE  \E f \in [0 .. Len(name) -> Seq(STRING)] : Joined(f, name) /\ AttributesOf(name) = f[Len(name)]
<1> DEFINE n == Len(name)
           V == Seq(STRING)
           step == [k \in 1 .. n |-> [s \in V |-> s \o name[k]]]
           Unfolding(f) == f = [k \in 0 .. n |-> IF k = 0 THEN <<>> ELSE f[k - 1] \o name[k]]
           p == CHOOSE f : Unfolding(f)
<1>1. n \in Nat /\ <<>> \in V /\ step \in [1 .. n -> [V -> V]]
  <2>1. \A k \in 1 .. n : name[k] \in V
    OBVIOUS
  <2>2. \A k \in 1 .. n : [s \in V |-> s \o name[k]] \in [V -> V]
    BY <2>1
  <2>3. n \in Nat /\ <<>> \in V
    OBVIOUS
  <2> QED
    BY <2>2, <2>3
<1>2. \A k \in 1 .. n : \A s \in V : step[k][s] = s \o name[k]
  OBVIOUS
<1> HIDE DEF step
<1>3. PICK f \in [0 .. n -> V] : Unfolds(f, <<>>, step, n)
  BY <1>1, Recursion
<1>4. f[0] = <<>> /\ \A k \in 1 .. n : f[k] = f[k - 1] \o name[k]
  <2>1. \A k \in 1 .. n : k - 1 \in 0 .. n /\ f[k - 1] \in V
    <3> HIDE DEF n
    <3>1. \A k \in 1 .. n : k - 1 \in 0 .. n
      BY <1>1
    <3> QED
      BY <1>3, <3>1
  <2>2. f[0] = <<>> /\ \A k \in 1 .. n : f[k] = step[k][f[k - 1]]
    BY <1>3 DEF Unfolds
  <2> QED
    BY ONLY <1>2, <2>1, <2>2
<1>5. Unfolding(f)
  <2>1. \A k \in 0 .. n : f[k] = IF k = 0 THEN <<>> ELSE f[k - 1] \o name[k]
    <3>1. \A k \in 0 .. n : k # 0 => k \in 1 .. n
      BY <1>1
    <3> QED
      BY ONLY <1>4, <3>1
  <2> QED
    BY <1>3, <2>1
<1>6. Unfolding(p)
  <2> HIDE DEF Unfolding
  <2> QED
    BY <1>5
<1>7. AttributesOf(name) = p[n]
  BY DEF AttributesOf
<1>8. p[0] = <<>> /\ \A k \in 1 .. n : p[k] = p[k - 1] \o name[k]
  <2> HIDE DEF p
  <2>1. \A k \in 0 .. n : p[k] = IF k = 0 THEN <<>> ELSE p[k - 1] \o name[k]
    BY <1>6
  <2>2. 0 \in 0 .. n /\ \A k \in 1 .. n : k \in 0 .. n /\ k # 0
    BY <1>1
  <2> QED
    BY <2>1, <2>2
<1> HIDE DEF p
<1>9. p[n] = f[n]
  <2>1. GoWith(p, f, n)
    BY <1>4, <1>8 DEF GoWith
  <2>2. n \in 0 .. n
    BY <1>1
  <2> QED
    BY <1>1, <2>1, <2>2, SameSteps
<1> QED
  BY <1>3, <1>4, <1>7, <1>9 DEF Joined

LEMMA AttributesOfSingles ==
  ASSUME NEW name \in Seq(Seq(STRING)), \A i \in 1 .. Len(name) : Len(name[i]) = 1
  PROVE  /\ DOMAIN AttributesOf(name) = 1 .. Len(name)
         /\ \A i \in 1 .. Len(name) : AttributesOf(name)[i] = name[i][1]
<1> DEFINE n == Len(name)
<1>1. PICK f \in [0 .. n -> Seq(STRING)] : Joined(f, name) /\ AttributesOf(name) = f[n]
  BY AttributesUnfold
<1>2. n \in Nat /\ \A k \in 1 .. n : name[k] \in Seq(STRING) /\ Len(name[k]) = 1
  OBVIOUS
<1>3. f[0] = <<>> /\ \A k \in 1 .. n : f[k] = f[k - 1] \o name[k]
  BY <1>1 DEF Joined
<1> HIDE DEF n
<1> DEFINE Held == {k \in Nat : k <= n => Len(f[k]) = k /\ \A i \in 1 .. k : f[k][i] = name[i][1]}
<1>4. 0 \in Held
  BY <1>3
<1>5. ASSUME NEW k \in Held PROVE k + 1 \in Held
  <2> DEFINE m == k + 1
  <2> SUFFICES ASSUME m <= n PROVE Len(f[m]) = m /\ \A i \in 1 .. m : f[m][i] = name[i][1]
    OBVIOUS
  <2>1. k \in Nat /\ m \in 1 .. n /\ m - 1 = k /\ k \in 0 .. n /\ m = k + 1
    BY <1>2
  <2>2. Len(f[k]) = k /\ \A i \in 1 .. k : f[k][i] = name[i][1]
    BY <2>1
  <2> HIDE DEF m
  <2>3. f[m] = f[k] \o name[m] /\ f[k] \in Seq(STRING) /\ name[m] \in Seq(STRING) /\ Len(name[m]) = 1
    BY <1>1, <1>2, <1>3, <2>1
  <2>4. /\ Len(f[m]) = k + 1 /\ \A i \in 1 .. k : f[m][i] = f[k][i]
        /\ f[m][k + 1] = name[m][1]
    <3>1. IsSequence(f[k]) /\ IsSequence(name[m]) /\ Len(f[k]) = k /\ Len(name[m]) = 1
      BY <2>2, <2>3, OfItsElements
    <3> DEFINE a == f[k]
               b == name[m]
    <3>2. /\ Len(a \o b) = Len(a) + Len(b)
          /\ \A i \in 1 .. Len(a) : (a \o b)[i] = a[i]
          /\ \A i \in 1 .. Len(b) : (a \o b)[Len(a) + i] = b[i]
      <4> HIDE DEF a, b
      <4>1. IsSequence(a) /\ IsSequence(b)
        BY <3>1 DEF a, b
      <4> QED
        BY <4>1, ConcatFacts
    <3>3. Len(a) = k /\ Len(b) = 1 /\ 1 \in 1 .. 1 /\ f[m] = a \o b
      BY <2>3, <3>1
    <3> HIDE DEF a, b
    <3>4. Len(f[m]) = k + 1 /\ (\A i \in 1 .. k : f[m][i] = a[i]) /\ f[m][k + 1] = b[1]
      BY ONLY <3>2, <3>3
    <3> QED
      BY <3>4 DEF a, b
  <2>5. ASSUME NEW i \in 1 .. m PROVE f[m][i] = name[i][1]
    <3>1. i = m \/ i \in 1 .. k
      BY <2>1
    <3> QED
      BY <2>1, <2>2, <2>4, <3>1
  <2> QED
    BY <2>1, <2>4, <2>5
<1>6. Held = Nat
  <2> HIDE DEF Held
  <2>1. Held \in SUBSET Nat
    BY DEF Held
  <2> QED
    BY <1>4, <1>5, <2>1, Induction
<1>7. Len(f[n]) = n /\ \A i \in 1 .. n : f[n][i] = name[i][1]
  <2>1. n \in Held
    <3> HIDE DEF Held
    <3> QED
      BY <1>2, <1>6
  <2> QED
    BY <1>2, <2>1
<1>8. f[n] \in Seq(STRING)
  BY <1>1, <1>2
<1> QED
  BY <1>1, <1>7, <1>8 DEF n

LEMMA CaNaming ==
  ASSUME NEW name \in Seq(Seq(STRING))
  PROVE  ca_certificate_naming(name) <=> ValidCaName(name)
<1> DEFINE n == Len(name)
           types == AttributesOf(name)
           Singles == \A i \in 1 .. n : Len(name[i]) = 1
<1>1. PICK f \in [0 .. n -> Checks] : Checked(f, name) /\ (check_names_encoding(name, FALSE) <=> f[n].ok)
  BY ChecksUnfold
<1>2. f[n].ok => Singles /\ \A k \in 1 .. n : f[k - 1].ok /\ name[k][1] \notin f[k - 1].seen
  <2>1. \A k \in 1 .. n : k - 1 \in 0 .. n
    OBVIOUS
  <2> QED
    BY <1>1, <2>1, PassedThroughout
<1>3. SinglesOfCa(name) => \A k \in 0 .. n : InOrder(f, name, k)
  BY <1>1, OrderIsChecked
<1>4. Singles => DOMAIN types = 1 .. n /\ \A i \in 1 .. n : types[i] = name[i][1]
  BY AttributesOfSingles
<1>5. n \in Nat /\ DOMAIN name = 1 .. n /\ \A i \in 1 .. n : name[i] \in Seq(STRING)
  OBVIOUS
<1>6. Singles => \A i \in 1 .. n : \A type : name[i] = <<type>> <=> name[i][1] = type
  BY <1>5
<1>7. ca_certificate_naming(name) <=>
        /\ check_names_encoding(name, FALSE)
        /\ \A i \in DOMAIN types : types[i] \in CA_ALLOWED /\ \A j \in 1 .. i - 1 : types[j] # types[i]
        /\ \A type \in CA_REQUIRED : \E i \in DOMAIN types : types[i] = type
  BY DEF ca_certificate_naming
<1> HIDE DEF types, n
<1>8. ASSUME ca_certificate_naming(name) PROVE ValidCaName(name)
  <2>1. f[n].ok /\ Singles
    BY <1>1, <1>2, <1>7, <1>8
  <2>2. \A i \in 1 .. n : name[i][1] \in CA_ALLOWED
    BY <1>4, <1>7, <1>8, <2>1
  <2>3. SinglesOfCa(name)
    BY <2>1, <2>2 DEF SinglesOfCa, n
  <2>4. Increasing(name, n)
    <3>1. n \in 0 .. n
      BY <1>5
    <3> QED
      BY <1>3, <2>1, <2>3, <3>1 DEF InOrder
  <2>5. \A i \in 1 .. n : Len(name[i]) = 1 /\ RankOf(name[i][1]) > 0
    BY <2>1, <2>2, RanksAreTheOrder
  <2>6. \A type \in {"C", "O", "CN"} : \E i \in 1 .. n : name[i] = <<type>>
    <3>1. TAKE type \in {"C", "O", "CN"}
    <3>2. type \in CA_REQUIRED
      BY DEF CA_REQUIRED
    <3>3. PICK i \in DOMAIN types : types[i] = type
      BY <1>7, <1>8, <3>2
    <3>4. i \in 1 .. n /\ name[i] = <<type>>
      BY <1>4, <1>6, <2>1, <3>3
    <3> QED
      BY <3>4
  <2> QED
    BY <1>5, <2>4, <2>5, <2>6 DEF ValidCaName, Increasing, n
<1>9. ASSUME ValidCaName(name) PROVE ca_certificate_naming(name)
  <2>1. /\ \A i \in 1 .. n : Len(name[i]) = 1 /\ RankOf(name[i][1]) > 0
        /\ Increasing(name, n)
        /\ \A type \in CA_REQUIRED : \E i \in 1 .. n : name[i] = <<type>>
    BY <1>5, <1>9 DEF ValidCaName, Increasing, CA_REQUIRED, n
  <2>2. \A i \in 1 .. n : name[i][1] \in CA_ALLOWED
    BY <2>1, RankedIsAllowed
  <2>3. SinglesOfCa(name)
    BY <2>1, <2>2 DEF SinglesOfCa, n
  <2>4. f[n].ok
    <3>1. n \in 0 .. n
      BY <1>5
    <3> QED
      BY <1>3, <2>1, <2>3, <3>1 DEF InOrder
  <2>5. \A i \in 1 .. n : \A j \in 1 .. i - 1 : name[j][1] # name[i][1]
    <3>1. TAKE i \in 1 .. n
    <3> DEFINE k == i - 1
    <3>2. k \in 0 .. n
      BY <1>5
    <3>3. InOrder(f, name, k) /\ f[k].ok /\ name[i][1] \notin f[k].seen
      BY <1>2, <1>3, <2>3, <2>4, <3>2
    <3> HIDE DEF k
    <3>4. f[k].seen = {name[j][1] : j \in 1 .. k}
      BY <3>3 DEF InOrder
    <3> QED
      BY <3>3, <3>4 DEF k
  <2> QED
    <3>1. Singles /\ check_names_encoding(name, FALSE)
      BY <1>1, <2>1, <2>4
    <3>2. DOMAIN types = 1 .. n /\ \A i \in 1 .. n : types[i] = name[i][1]
      BY <1>4, <3>1
    <3>3. \A i \in DOMAIN types : types[i] \in CA_ALLOWED /\ \A j \in 1 .. i - 1 : types[j] # types[i]
      <4>1. TAKE i \in DOMAIN types
      <4>2. \A j \in 1 .. i - 1 : j \in 1 .. n
        BY <1>5, <3>2
      <4> QED
        BY <2>2, <2>5, <3>2, <4>2
    <3>4. \A type \in CA_REQUIRED : \E i \in DOMAIN types : types[i] = type
      <4>1. TAKE type \in CA_REQUIRED
      <4>2. PICK i \in 1 .. n : name[i] = <<type>>
        BY <2>1
      <4>3. i \in DOMAIN types /\ types[i] = type
        BY <1>6, <3>1, <3>2, <4>2
      <4> QED
        BY <4>3
    <3> QED
      BY <1>7, <3>1, <3>3, <3>4
<1> QED
  BY <1>8, <1>9

(* What domain_validated leaves of the attributes of an RDN, and of a name.*)
IsDomain(type) == type \in {"C", "CN"}
Sifted(f, types) ==
  /\ f[0] = <<>>
  /\ \A k \in 1 .. Len(types) : f[k] = IF IsDomain(types[k]) THEN Append(f[k - 1], types[k]) ELSE f[k - 1]
Validated(f, subject) ==
  /\ f[0] = <<>>
  /\ \A k \in 1 .. Len(subject) :
       f[k] = IF DomainAttributes(subject[k]) # <<>> THEN Append(f[k - 1], DomainAttributes(subject[k])) ELSE f[k - 1]

LEMMA SiftUnfolds ==
  ASSUME NEW types \in Seq(STRING)
  PROVE  \E f \in [0 .. Len(types) -> Seq(STRING)] : Sifted(f, types) /\ DomainAttributes(types) = f[Len(types)]
<1> DEFINE n == Len(types)
           V == Seq(STRING)
           Next1(k, s) == IF types[k] \in {"C", "CN"} THEN Append(s, types[k]) ELSE s
           step == [k \in 1 .. n |-> [s \in V |-> Next1(k, s)]]
           Unfolding(f) == f = [k \in 0 .. n |-> IF k = 0 THEN <<>> ELSE Next1(k, f[k - 1])]
           p == CHOOSE f : Unfolding(f)
<1>1. n \in Nat /\ <<>> \in V /\ step \in [1 .. n -> [V -> V]]
  <2>1. ASSUME NEW k \in 1 .. n, NEW s \in V PROVE Next1(k, s) \in V
    <3>1. types[k] \in STRING
      OBVIOUS
    <3>2. Append(s, types[k]) \in V
      BY <3>1
    <3> QED
      BY <3>2
  <2> HIDE DEF Next1
  <2>2. \A k \in 1 .. n : [s \in V |-> Next1(k, s)] \in [V -> V]
    BY <2>1
  <2>3. n \in Nat /\ <<>> \in V
    OBVIOUS
  <2> QED
    BY <2>2, <2>3
<1>2. \A k \in 1 .. n : \A s \in V : step[k][s] = Next1(k, s)
  OBVIOUS
<1> HIDE DEF step, Next1
<1>3. PICK f \in [0 .. n -> V] : Unfolds(f, <<>>, step, n)
  BY <1>1, Recursion
<1>4. f[0] = <<>> /\ \A k \in 1 .. n : f[k] = Next1(k, f[k - 1])
  <2>1. \A k \in 1 .. n : k - 1 \in 0 .. n /\ f[k - 1] \in V
    <3> HIDE DEF n
    <3>1. \A k \in 1 .. n : k - 1 \in 0 .. n
      BY <1>1
    <3> QED
      BY <1>3, <3>1
  <2>2. f[0] = <<>> /\ \A k \in 1 .. n : f[k] = step[k][f[k - 1]]
    BY <1>3 DEF Unfolds
  <2> QED
    BY ONLY <1>2, <2>1, <2>2
<1>5. Unfolding(f)
  <2>1. \A k \in 0 .. n : f[k] = IF k = 0 THEN <<>> ELSE Next1(k, f[k - 1])
    <3>1. \A k \in 0 .. n : k # 0 => k \in 1 .. n
      BY <1>1
    <3> QED
      BY ONLY <1>4, <3>1
  <2> QED
    BY <1>3, <2>1
<1>6. Unfolding(p)
  <2> HIDE DEF Unfolding
  <2> QED
    BY <1>5
<1>7. DomainAttributes(types) = p[n]
  BY DEF DomainAttributes, Next1
<1>8. p[0] = <<>> /\ \A k \in 1 .. n : p[k] = Next1(k, p[k - 1])
  <2> HIDE DEF p
  <2>1. \A k \in 0 .. n : p[k] = IF k = 0 THEN <<>> ELSE Next1(k, p[k - 1])
    BY <1>6
  <2>2. 0 \in 0 .. n /\ \A k \in 1 .. n : k \in 0 .. n /\ k # 0
    BY <1>1
  <2> QED
    BY <2>1, <2>2
<1> HIDE DEF p
<1>9. p[n] = f[n]
  <2>1. GoWith(p, f, n)
    BY <1>4, <1>8 DEF GoWith
  <2>2. n \in 0 .. n
    BY <1>1
  <2> QED
    BY <1>1, <2>1, <2>2, SameSteps
<1> QED
  BY <1>3, <1>4, <1>7, <1>9 DEF Sifted, IsDomain, Next1

LastAppends(x, y, e) == Append(x \o y, e) = x \o Append(y, e)
LEMMA AppendedLast ==
  ASSUME NEW x, NEW y, NEW e, IsSequence(x), IsSequence(y)
  PROVE  LastAppends(x, y, e)
<1> DEFINE T == Elements(x) \union Elements(y) \union {e}
<1>1. x \in Seq(T) /\ y \in Seq(T) /\ <<e>> \in Seq(T)
  BY DEF IsSequence
<1>2. \A z \in Seq(T) : Append(z, e) = z \o <<e>>
  OBVIOUS
<1>3. x \o y \in Seq(T)
  BY <1>1
<1> HIDE DEF T
<1>4. IsSequence(<<e>>)
  BY <1>1, OfItsElements
<1>5. (x \o y) \o <<e>> = x \o (y \o <<e>>)
  BY <1>4, ConcatAssociates
<1> QED
  BY <1>1, <1>2, <1>3, <1>5 DEF LastAppends

LEMMA Sifting ==
  ASSUME NEW s \in Seq(STRING), NEW t \in Seq(STRING)
  PROVE  /\ DomainAttributes(s) \in Seq(STRING)
         /\ DomainAttributes(s \o t) = DomainAttributes(s) \o DomainAttributes(t)
         /\ DomainAttributes(<<>>) = <<>>
<1> DEFINE n == Len(s)
           m == Len(t)
           u == s \o t
<1>1. PICK a \in [0 .. n -> Seq(STRING)] : Sifted(a, s) /\ DomainAttributes(s) = a[n]
  BY SiftUnfolds
<1>2. PICK b \in [0 .. m -> Seq(STRING)] : Sifted(b, t) /\ DomainAttributes(t) = b[m]
  BY SiftUnfolds
<1>3. u \in Seq(STRING) /\ Len(u) = n + m /\ n \in Nat /\ m \in Nat
  OBVIOUS
<1>4. /\ \A k \in 1 .. n : u[k] = s[k]
      /\ \A k \in 1 .. m : u[n + k] = t[k] /\ t[k] \in STRING
  OBVIOUS
<1>5. PICK c \in [0 .. Len(u) -> Seq(STRING)] : Sifted(c, u) /\ DomainAttributes(u) = c[Len(u)]
  BY <1>3, SiftUnfolds
<1>6. DomainAttributes(<<>>) = <<>>
  <2>1. <<>> \in Seq(STRING) /\ Len(<<>>) = 0
    OBVIOUS
  <2>2. \E f : Sifted(f, <<>>) /\ DomainAttributes(<<>>) = f[0]
    BY <2>1, SiftUnfolds
  <2> QED
    BY <2>2 DEF Sifted
<1>7. /\ a[0] = <<>> /\ b[0] = <<>> /\ c[0] = <<>>
      /\ \A k \in 1 .. n : a[k] = IF IsDomain(s[k]) THEN Append(a[k - 1], s[k]) ELSE a[k - 1]
      /\ \A k \in 1 .. m : b[k] = IF IsDomain(t[k]) THEN Append(b[k - 1], t[k]) ELSE b[k - 1]
      /\ \A k \in 1 .. n + m : c[k] = IF IsDomain(u[k]) THEN Append(c[k - 1], u[k]) ELSE c[k - 1]
  BY <1>1, <1>2, <1>3, <1>5 DEF Sifted
<1> HIDE DEF n, m, u
<1>8. c[n] = a[n]
  <2>1. \A k \in 1 .. n : k \in 1 .. n + m
    BY <1>3
  <2>2. GoWith(c, a, n)
    <3>1. ASSUME NEW k \in 1 .. n, c[k - 1] = a[k - 1] PROVE c[k] = a[k]
      BY <1>4, <1>7, <2>1, <3>1
    <3> QED
      BY <1>7, <3>1 DEF GoWith
  <2> QED
    BY <1>3, <2>2, SameEnd
<1> DEFINE Meets(k) == c[n + k] = a[n] \o b[k]
           Held == {k \in Nat : k <= m => Meets(k)}
<1>9. 0 \in Held
  <2>1. a[n] \in Seq(STRING)
    <3>1. n \in 0 .. n
      BY <1>3
    <3> QED
      BY <1>1, <3>1
  <2>2. n + 0 = n /\ a[n] \o <<>> = a[n]
    BY <1>3, <2>1
  <2>3. Meets(0)
    BY ONLY <1>7, <1>8, <2>2
  <2> HIDE DEF Meets
  <2> QED
    BY <2>3
<1>10. ASSUME NEW k \in Held PROVE k + 1 \in Held
  <2> DEFINE j == k + 1
  <2> SUFFICES ASSUME j <= m PROVE Meets(j)
    <3> HIDE DEF Meets
    <3> QED
      OBVIOUS
  <2>1. j \in 1 .. m /\ n + j \in 1 .. n + m /\ j - 1 = k /\ (n + j) - 1 = n + k /\ k \in 0 .. m /\ n \in 0 .. n
    <3> HIDE DEF Meets
    <3> QED
      BY <1>3
  <2>2. c[n + k] = a[n] \o b[k]
    <3>1. Meets(k)
      <4> HIDE DEF Meets
      <4> QED
        BY <2>1
    <3> QED
      BY <3>1
  <2> HIDE DEF j, Held
  <2>3. a[n] \in Seq(STRING) /\ b[k] \in Seq(STRING) /\ t[j] \in STRING /\ u[n + j] = t[j]
    BY <1>1, <1>2, <1>4, <2>1
  <2>4. b[j] = IF IsDomain(t[j]) THEN Append(b[k], t[j]) ELSE b[k]
    BY <1>7, <2>1
  <2>5. c[n + j] = IF IsDomain(t[j]) THEN Append(c[n + k], t[j]) ELSE c[n + k]
    <3>1. c[n + j] = IF IsDomain(u[n + j]) THEN Append(c[(n + j) - 1], u[n + j]) ELSE c[(n + j) - 1]
      BY <1>7, <2>1
    <3> QED
      BY ONLY <2>1, <2>3, <3>1
  <2>6. Append(a[n] \o b[k], t[j]) = a[n] \o Append(b[k], t[j])
    <3>1. IsSequence(a[n]) /\ IsSequence(b[k])
      BY <2>3, OfItsElements
    <3>2. LastAppends(a[n], b[k], t[j])
      BY ONLY <3>1, AppendedLast
    <3> QED
      BY ONLY <3>2 DEF LastAppends
  <2> QED
    BY ONLY <2>2, <2>4, <2>5, <2>6
<1>11. Held = Nat
  <2> HIDE DEF Held
  <2>1. Held \in SUBSET Nat
    BY DEF Held
  <2> QED
    BY <1>9, <1>10, <2>1, Induction
<1>12. c[n + m] = a[n] \o b[m]
  <2>1. m \in Held
    <3> HIDE DEF Held
    <3> QED
      BY <1>3, <1>11
  <2> QED
    BY <1>3, <2>1
<1>13. a[n] \in Seq(STRING)
  <2>1. n \in 0 .. n
    BY <1>3
  <2> QED
    BY <1>1, <2>1
<1> QED
  BY <1>1, <1>2, <1>3, <1>5, <1>6, <1>12, <1>13 DEF u, n, m

LEMMA ValidationUnfolds ==
  ASSUME NEW subject \in Seq(Seq(STRING))
  PROVE  \E f \in [0 .. Len(subject) -> Seq(Seq(STRING) \ {<<>>})] : Validated(f, subject) /\ domain_validated(subject) = f[Len(subject)]
<1> DEFINE n == Len(subject)
           V == Seq(Seq(STRING) \ {<<>>})
           Next1(k, s) == IF DomainAttributes(subject[k]) # <<>> THEN Append(s, DomainAttributes(subject[k])) ELSE s
           step == [k \in 1 .. n |-> [s \in V |-> Next1(k, s)]]
           Unfolding(f) == f = [k \in 0 .. n |-> IF k = 0 THEN <<>> ELSE Next1(k, f[k - 1])]
           p == CHOOSE f : Unfolding(f)
<1>1. n \in Nat /\ <<>> \in V /\ step \in [1 .. n -> [V -> V]]
  <2>1. ASSUME NEW k \in 1 .. n, NEW s \in V PROVE Next1(k, s) \in V
    <3>1. subject[k] \in Seq(STRING)
      OBVIOUS
    <3>2. DomainAttributes(subject[k]) \in Seq(STRING)
      BY <3>1, Sifting
    <3> QED
      BY <3>2
  <2> HIDE DEF Next1
  <2>2. \A k \in 1 .. n : [s \in V |-> Next1(k, s)] \in [V -> V]
    BY <2>1
  <2>3. n \in Nat /\ <<>> \in V
    OBVIOUS
  <2> QED
    BY <2>2, <2>3
<1>2. \A k \in 1 .. n : \A s \in V : step[k][s] = Next1(k, s)
  OBVIOUS
<1> HIDE DEF step, Next1
<1>3. PICK f \in [0 .. n -> V] : Unfolds(f, <<>>, step, n)
  BY <1>1, Recursion
<1>4. f[0] = <<>> /\ \A k \in 1 .. n : f[k] = Next1(k, f[k - 1])
  <2>1. \A k \in 1 .. n : k - 1 \in 0 .. n /\ f[k - 1] \in V
    <3> HIDE DEF n
    <3>1. \A k \in 1 .. n : k - 1 \in 0 .. n
      BY <1>1
    <3> QED
      BY <1>3, <3>1
  <2>2. f[0] = <<>> /\ \A k \in 1 .. n : f[k] = step[k][f[k - 1]]
    BY <1>3 DEF Unfolds
  <2> QED
    BY ONLY <1>2, <2>1, <2>2
<1>5. Unfolding(f)
  <2>1. \A k \in 0 .. n : f[k] = IF k = 0 THEN <<>> ELSE Next1(k, f[k - 1])
    <3>1. \A k \in 0 .. n : k # 0 => k \in 1 .. n
      BY <1>1
    <3> QED
      BY ONLY <1>4, <3>1
  <2> QED
    BY <1>3, <2>1
<1>6. Unfolding(p)
  <2> HIDE DEF Unfolding
  <2> QED
    BY <1>5
<1>7. domain_validated(subject) = p[n]
  BY DEF domain_validated, Next1
<1>8. p[0] = <<>> /\ \A k \in 1 .. n : p[k] = Next1(k, p[k - 1])
  <2> HIDE DEF p
  <2>1. \A k \in 0 .. n : p[k] = IF k = 0 THEN <<>> ELSE Next1(k, p[k - 1])
    BY <1>6
  <2>2. 0 \in 0 .. n /\ \A k \in 1 .. n : k \in 0 .. n /\ k # 0
    BY <1>1
  <2> QED
    BY <2>1, <2>2
<1> HIDE DEF p
<1>9. p[n] = f[n]
  <2>1. GoWith(p, f, n)
    BY <1>4, <1>8 DEF GoWith
  <2>2. n \in 0 .. n
    BY <1>1
  <2> QED
    BY <1>1, <2>1, <2>2, SameSteps
<1> QED
  BY <1>3, <1>4, <1>7, <1>9 DEF Validated, Next1

LEMMA AttributesAppended ==
  ASSUME NEW name \in Seq(Seq(STRING)), NEW rdn \in Seq(STRING)
  PROVE  AttributesOf(Append(name, rdn)) = AttributesOf(name) \o rdn
<1> DEFINE n == Len(name)
           longer == Append(name, rdn)
<1>1. longer \in Seq(Seq(STRING)) /\ Len(longer) = n + 1 /\ n \in Nat
      /\ longer[n + 1] = rdn /\ \A k \in 1 .. n : longer[k] = name[k]
  OBVIOUS
<1>2. PICK f \in [0 .. n -> Seq(STRING)] : Joined(f, name) /\ AttributesOf(name) = f[n]
  BY AttributesUnfold
<1>3. PICK g \in [0 .. n + 1 -> Seq(STRING)] : Joined(g, longer) /\ AttributesOf(longer) = g[n + 1]
  BY <1>1, AttributesUnfold
<1> HIDE DEF longer
<1>4. /\ f[0] = <<>> /\ \A k \in 1 .. n : f[k] = f[k - 1] \o name[k]
      /\ g[0] = <<>> /\ \A k \in 1 .. n + 1 : g[k] = g[k - 1] \o longer[k]
  BY <1>1, <1>2, <1>3 DEF Joined
<1> HIDE DEF n
<1>5. g[n] = f[n]
  <2>1. \A k \in 1 .. n : k \in 1 .. n + 1
    BY <1>1
  <2>2. GoWith(g, f, n)
    <3>1. ASSUME NEW k \in 1 .. n, g[k - 1] = f[k - 1] PROVE g[k] = f[k]
      BY <1>1, <1>4, <2>1, <3>1
    <3> QED
      BY <1>4, <3>1 DEF GoWith
  <2>3. n \in Nat
    BY <1>1
  <2> QED
    BY <2>2, <2>3, SameEnd
<1>6. g[n + 1] = g[n] \o rdn
  <2>1. n + 1 \in 1 .. n + 1 /\ (n + 1) - 1 = n
    BY <1>1
  <2> QED
    BY <1>1, <1>4, <2>1
<1> QED
  BY <1>2, <1>3, <1>5, <1>6 DEF longer

LEMMA NoAttributes == AttributesOf(<<>>) = <<>>
<1>1. <<>> \in Seq(Seq(STRING)) /\ Len(<<>>) = 0
  OBVIOUS
<1>2. \E f : Joined(f, <<>>) /\ AttributesOf(<<>>) = f[0]
  BY <1>1, AttributesUnfold
<1> QED
  BY <1>2 DEF Joined

(* A subscriber's subject: the attributes that may stay, in their order.   *)
LEMMA DomainValidated ==
  ASSUME NEW subject \in Seq(Seq(STRING))
  PROVE  /\ domain_validated(subject) \in Seq(Seq(STRING) \ {<<>>})
         /\ AttributesOf(domain_validated(subject)) = DomainAttributes(AttributesOf(subject))
<1> DEFINE n == Len(subject)
           Whole == Seq(STRING) \ {<<>>}
<1>1. PICK d \in [0 .. n -> Seq(Whole)] : Validated(d, subject) /\ domain_validated(subject) = d[n]
  BY ValidationUnfolds
<1>2. PICK f \in [0 .. n -> Seq(STRING)] : Joined(f, subject) /\ AttributesOf(subject) = f[n]
  BY AttributesUnfold
<1>3. n \in Nat /\ \A k \in 1 .. n : subject[k] \in Seq(STRING)
  OBVIOUS
<1>4. /\ d[0] = <<>> /\ f[0] = <<>>
      /\ \A k \in 1 .. n :
           /\ d[k] = IF DomainAttributes(subject[k]) # <<>> THEN Append(d[k - 1], DomainAttributes(subject[k])) ELSE d[k - 1]
           /\ f[k] = f[k - 1] \o subject[k]
  BY <1>1, <1>2 DEF Validated, Joined
<1> HIDE DEF n
<1> DEFINE Held == {k \in Nat : k <= n => AttributesOf(d[k]) = DomainAttributes(f[k])}
<1>5. 0 \in Held
  <2>1. DomainAttributes(<<>>) = <<>>
    <3>1. <<>> \in Seq(STRING)
      OBVIOUS
    <3> QED
      BY <3>1, Sifting
  <2> QED
    BY <1>4, <2>1, NoAttributes
<1>6. ASSUME NEW k \in Held PROVE k + 1 \in Held
  <2> DEFINE j == k + 1
  <2> SUFFICES ASSUME j <= n PROVE AttributesOf(d[j]) = DomainAttributes(f[j])
    OBVIOUS
  <2>1. j \in 1 .. n /\ j - 1 = k /\ k \in 0 .. n /\ AttributesOf(d[k]) = DomainAttributes(f[k])
    BY <1>3
  <2> HIDE DEF j
  <2> DEFINE kept == DomainAttributes(subject[j])
  <2>2. subject[j] \in Seq(STRING) /\ f[k] \in Seq(STRING) /\ d[k] \in Seq(Seq(STRING))
    <3>1. d[k] \in Seq(Whole)
      BY <1>1, <2>1
    <3>2. d[k] \in Seq(Seq(STRING))
      BY <3>1, OfMore
    <3> QED
      BY <1>2, <1>3, <2>1, <3>2
  <2>3. kept \in Seq(STRING) /\ DomainAttributes(f[k]) \in Seq(STRING)
        /\ DomainAttributes(f[j]) = DomainAttributes(f[k]) \o kept
    BY <1>4, <2>1, <2>2, Sifting
  <2>4. d[j] = IF kept # <<>> THEN Append(d[k], kept) ELSE d[k]
    BY <1>4, <2>1
  <2> HIDE DEF kept
  <2>5. CASE kept # <<>>
    BY <2>1, <2>2, <2>3, <2>4, <2>5, AttributesAppended
  <2>6. CASE kept = <<>>
    <3>1. \A x \in Seq(STRING) : x \o <<>> = x
      OBVIOUS
    <3> QED
      BY <2>1, <2>3, <2>4, <2>6, <3>1
  <2> QED
    BY <2>5, <2>6
<1>7. Held = Nat
  <2> HIDE DEF Held
  <2>1. Held \in SUBSET Nat
    BY DEF Held
  <2> QED
    BY <1>5, <1>6, <2>1, Induction
<1>8. n \in Held /\ n \in 0 .. n
  <2> HIDE DEF Held
  <2> QED
    BY <1>3, <1>7
<1>9. AttributesOf(d[n]) = DomainAttributes(f[n]) /\ d[n] \in Seq(Whole)
  BY <1>1, <1>3, <1>8
<1> QED
  BY <1>1, <1>2, <1>9

LEMMA UpTo == \A n : \A k \in 1 .. n : k \in Nat /\ k >= 1
  OBVIOUS

LEMMA InFront ==
  ASSUME NEW i, NEW j, i \in Nat, j \in Nat, 1 <= j, j <= i, j # i
  PROVE  j \in 1 .. i - 1
  OBVIOUS

(* What DevId::new asks of the alternative names.                          *)
LEMMA HardwareIsFirst ==
  ASSUME NEW names \in Seq(STRING)
  PROVE  HasHardwareModule(names) <=> ReadableHardware(names)
<1> DEFINE n == Len(names)
<1>1. DOMAIN names = 1 .. n /\ n \in Nat
  OBVIOUS
<1> HIDE DEF n
<1>2. ASSUME HasHardwareModule(names) PROVE ReadableHardware(names)
  <2> DEFINE Named == {i \in DOMAIN names : names[i] \in {"hardware", "garbled hardware"}}
  <2>1. PICK i \in DOMAIN names : names[i] = "hardware" /\ \A j \in 1 .. i - 1 : names[j] # "garbled hardware"
    BY <1>2 DEF HasHardwareModule
  <2>2. Named \in SUBSET Nat /\ Named # {}
    <3>1. \A k \in DOMAIN names : k \in Nat
      BY <1>1
    <3>2. i \in Named
      BY <2>1
    <3> QED
      BY <3>1, <3>2
  <2>3. PICK first \in Named : \A j \in Named : first <= j
    <3> HIDE DEF Named
    <3> QED
      BY <2>2, Least
  <2>4. first <= i /\ first \in Nat /\ i \in Nat /\ first >= 1
    <3>1. i \in Named
      BY <2>1
    <3>2. \A k \in Named : k \in Nat /\ k >= 1
      <4>1. \A k \in 1 .. n : k \in Nat /\ k >= 1
        BY UpTo
      <4>2. \A k \in Named : k \in DOMAIN names
        OBVIOUS
      <4> QED
        BY ONLY <1>1, <4>1, <4>2
    <3> HIDE DEF Named
    <3> QED
      BY <2>3, <3>1, <3>2
  <2>5. names[first] = "hardware"
    <3>1. CASE first = i
      BY <2>1, <3>1
    <3>2. CASE first # i
      <4>1. first \in 1 .. i - 1
        BY <2>4, <3>2, InFront
      <4> QED
        BY <2>1, <4>1
    <3> QED
      BY <3>1, <3>2
  <2> QED
    BY <2>3, <2>5 DEF ReadableHardware, FirstOf
<1>3. ASSUME ReadableHardware(names) PROVE HasHardwareModule(names)
  <2>1. PICK i \in DOMAIN names : FirstOf(names, {"hardware", "garbled hardware"}, i) /\ names[i] = "hardware"
    BY <1>3 DEF ReadableHardware
  <2>2. ASSUME NEW j \in 1 .. i - 1 PROVE names[j] # "garbled hardware"
    <3>1. j \in DOMAIN names /\ ~(i <= j)
      <4>1. i \in 1 .. n
        BY <1>1, <2>1
      <4>2. j \in 1 .. n /\ ~(i <= j)
        BY ONLY <1>1, <4>1, j \in 1 .. i - 1
      <4> QED
        BY ONLY <1>1, <4>2
    <3> QED
      BY <2>1, <3>1 DEF FirstOf
  <2> QED
    BY <2>1, <2>2 DEF HasHardwareModule
<1> QED
  BY <1>2, <1>3

--------------------------------------------------------------------------------
(* A certificate builder: what it was begun for, the version it announces  *)
(* and the keys that its extensions identify, after these calls.           *)
Carried(tbs) == ExtensionsOf([tbs |-> tbs])
IsTime(time) ==
  time[1] \in {"utc", "general"} /\ time[2] \in Nat /\ (time[1] = "utc" => time[2] <= UTC_MAX_YEAR)
BegunFor(b, r) ==
  /\ b.profile = r.profile /\ r.profile.name \in Profiles
  /\ b.tbs.not_after = rfc5280_adjust_utc_time(r.not_after) /\ IsTime(r.not_after)
VersionSound(b, calls) ==
  /\ b.tbs.version \in {1, 3}
  /\ b.tbs.version = 1 => b.profile.name = "Plain" /\ Attempted(calls)
  /\ b.tbs.version = 1 /\ b.tbs.extensions # <<>> => FinalizedAgain(calls)
  /\ Finalized(calls) /\ b.tbs.extensions = <<>> => b.tbs.version = 1
Identified(name, tbs, by) ==
  /\ name = "Root" =>
       /\ ValuesOf(Carried(tbs), Authority) = {KeyIdentifier(tbs.key)}
       /\ ValuesOf(Carried(tbs), Subject) = {KeyIdentifier(tbs.key)}
  /\ name \in {"Subordinate", "Subscriber", "DevId"} =>
       ValuesOf(Carried(tbs), Authority) = {KeyIdentifier(by)}
IdentifiersSound(b, calls) ==
  ~OwnIdentifier(calls) =>
    /\ ValuesOf(b.extensions, Subject) \subseteq {KeyIdentifier(b.tbs.key)}
    /\ ValuesOf(Carried(b.tbs), Subject) \subseteq {KeyIdentifier(b.tbs.key)}
    /\ ~Attempted(calls) => ValuesOf(b.extensions, Authority) = {} /\ ValuesOf(b.extensions, Subject) = {}
    /\ FinalizedOnce(calls) => Identified(b.profile.name, b.tbs, b.tbs.signature)
NamesSound(b, r) ==
  /\ b.tbs.subject = get_subject(r.profile, r.subject) /\ r.subject \in Seq(Seq(STRING))
  /\ CriticalFits(b.extensions, b.tbs.subject) /\ CriticalFits(Carried(b.tbs), b.tbs.subject)
CertificateSound(b, r, calls) ==
  /\ IsSequence(b.extensions) /\ BegunFor(b, r) /\ NamesSound(b, r)
  /\ VersionSound(b, calls) /\ IdentifiersSound(b, calls)

LEMMA CertificateBegins ==
  ASSUME NEW r \in CertificateRequests, NEW issuer, NEW for,
         for.profile = r.profile, for.not_after = r.not_after, for.subject = r.subject
  PROVE  CertificateSound(CertificateNew(r.profile, r.key, r.subject, issuer, r.not_after), for, <<>>)
<1> DEFINE b == CertificateNew(r.profile, r.key, r.subject, issuer, r.not_after)
<1>1. /\ b.profile = r.profile /\ b.extensions = <<>> /\ b.tbs.extensions = <<>> /\ b.tbs.version = 3
      /\ b.tbs.not_after = rfc5280_adjust_utc_time(r.not_after)
      /\ b.tbs.subject = get_subject(r.profile, r.subject)
  BY DEF CertificateNew
<1> HIDE DEF b
<1>2. ~Finalized(<<>>) /\ ~Attempted(<<>>) /\ ~FinalizedOnce(<<>>)
  BY EmptyIsSequence DEF Finalized, Attempted, FinalizedOnce
<1>3. BegunFor(b, for)
  BY <1>1, RequestsAssumption DEF BegunFor, IsTime
<1>4. VersionSound(b, <<>>)
  BY <1>1, <1>2 DEF VersionSound
<1>5. IdentifiersSound(b, <<>>)
  BY <1>1, <1>2, ValuesOfNothing DEF IdentifiersSound, Carried, ExtensionsOf
<1>6. NamesSound(b, for)
  BY <1>1, EmptyIsSequence, RequestsAssumption DEF NamesSound, CriticalFits, Carried, ExtensionsOf
<1> QED
  BY <1>1, <1>3, <1>4, <1>5, <1>6, EmptyIsSequence DEF CertificateSound, b

LEMMA CertificateAdds ==
  ASSUME NEW b, Fields(b), b.type = "Certificate", NEW r, NEW calls, IsSequence(calls),
         CertificateSound(b, r, calls), NEW id
  PROVE  CertificateSound(CertificateAdd(b, id, <<"own">>), r, Append(calls, Call("extension", id)))
<1> DEFINE e == ToExtension(id, <<"own">>, b.tbs.subject)
           call == Call("extension", id)
           c == CertificateAdd(b, id, <<"own">>)
           after == Append(calls, call)
<1>1. c.extensions = Append(b.extensions, e) /\ c.tbs = b.tbs /\ c.profile = b.profile
  BY DEF CertificateAdd, Fields
<1>2. call.call = "extension" /\ call.arg = id /\ ~IsFinalize(call) /\ ~IsAttempt(call) /\ e.id = id
  BY DEF Call, IsFinalize, IsAttempt, ToExtension
<1>3. Fits(e, b.tbs.subject)
  BY MadeFits
<1> HIDE DEF e, call, c
<1>4. /\ (Finalized(after) <=> Finalized(calls)) /\ (Attempted(after) <=> Attempted(calls))
      /\ FinalizedAgain(calls) => FinalizedAgain(after)
      /\ FinalizedOnce(after) => FinalizedOnce(calls)
      /\ ~OwnIdentifier(after) => ~OwnIdentifier(calls) /\ id \notin {Authority, Subject}
  BY <1>2, CallAppended DEF Authority, Subject
<1>5. IsSequence(c.extensions) /\ BegunFor(c, r)
  BY <1>1, AppendFacts DEF CertificateSound, BegunFor
<1>6. VersionSound(c, after)
  BY <1>1, <1>4 DEF CertificateSound, VersionSound
<1>7. IdentifiersSound(c, after)
  <2>1. SUFFICES ASSUME ~OwnIdentifier(after) PROVE IdentifiersSound(c, after)
    BY DEF IdentifiersSound
  <2>2. /\ ValuesOf(c.extensions, Authority) = ValuesOf(b.extensions, Authority)
        /\ ValuesOf(c.extensions, Subject) = ValuesOf(b.extensions, Subject)
    <3>1. IsSequence(b.extensions) /\ e.id # Authority /\ e.id # Subject
      BY <1>2, <1>4, <2>1 DEF CertificateSound
    <3>2. \A i : ValuesOf(c.extensions, i) = ValuesOf(b.extensions, i) \union (IF e.id = i THEN {e.value} ELSE {})
      BY <1>1, <3>1, ValuesAppended
    <3> QED
      BY <3>1, <3>2
  <2> QED
    BY <1>1, <1>4, <2>1, <2>2 DEF CertificateSound, IdentifiersSound
<1>8. NamesSound(c, r)
  BY <1>1, <1>3, CriticalAppended DEF CertificateSound, NamesSound
<1> QED
  BY <1>5, <1>6, <1>7, <1>8 DEF CertificateSound, c, call

LEMMA CertificateFinalizes ==
  ASSUME NEW b, Fields(b), b.type = "Certificate", NEW r, NEW calls, IsSequence(calls),
         CertificateSound(b, r, calls), NEW signer, NEW call, IsAttempt(call)
  PROVE  CertificateSound(CertificateFinalize(b, signer), r, Append(calls, call))
<1> DEFINE added == ProfileExtensions(b.profile, b.tbs.key, signer, b.tbs.subject)
           all == b.extensions \o added
           c == CertificateFinalize(b, signer)
           after == Append(calls, call)
<1>1. /\ c.extensions = all /\ c.profile = b.profile
      /\ c.tbs.signature = signer /\ c.tbs.key = b.tbs.key /\ c.tbs.not_after = b.tbs.not_after
      /\ c.tbs.subject = b.tbs.subject
      /\ c.tbs.extensions = IF all # <<>> THEN <<all>> ELSE b.tbs.extensions
      /\ c.tbs.version = IF c.tbs.extensions = <<>> THEN 1 ELSE b.tbs.version
  BY ZenonT(60) DEF CertificateFinalize, Fields
<1>2. call.call # "extension"
  BY DEF IsAttempt
<1>3. b.profile = r.profile /\ b.profile.name \in Profiles
  BY DEF CertificateSound, BegunFor
<1>4. /\ IsSequence(added) /\ (added = <<>> <=> b.profile.name = "Plain")
      /\ ValuesOf(added, Subject) \subseteq {KeyIdentifier(b.tbs.key)}
      /\ b.profile.name = "Root" =>
           /\ ValuesOf(added, Authority) = {KeyIdentifier(b.tbs.key)}
           /\ ValuesOf(added, Subject) = {KeyIdentifier(b.tbs.key)}
      /\ b.profile.name \in {"Subordinate", "Subscriber", "DevId"} =>
           ValuesOf(added, Authority) = {KeyIdentifier(signer)}
  BY <1>3, ProfileFacts
<1>5. CriticalFits(added, b.tbs.subject)
  BY <1>3, ProfileCritical
<1> HIDE DEF c, added
<1>6. /\ IsSequence(all) /\ (all = <<>> <=> b.extensions = <<>> /\ added = <<>>)
      /\ \A id : ValuesOf(all, id) = ValuesOf(b.extensions, id) \union ValuesOf(added, id)
  BY <1>4, ConcatFacts, SequenceShape, ValuesConcat DEF CertificateSound
<1>7. NamesSound(b, r) /\ CriticalFits(all, b.tbs.subject)
  BY <1>4, <1>5, CriticalConcat DEF CertificateSound, NamesSound
<1> HIDE DEF all
<1>8. /\ Attempted(after)
      /\ Attempted(calls) => FinalizedAgain(after)
      /\ FinalizedAgain(calls) => FinalizedAgain(after)
      /\ FinalizedOnce(after) => ~Attempted(calls)
      /\ ~OwnIdentifier(after) => ~OwnIdentifier(calls)
  BY <1>2, CallAppended
<1>9. IsSequence(c.extensions) /\ BegunFor(c, r)
  BY <1>1, <1>6 DEF CertificateSound, BegunFor
<1>10. VersionSound(c, after)
  <2>1. VersionSound(b, calls)
    BY DEF CertificateSound
  <2>2. c.tbs.extensions = <<>> => all = <<>> /\ added = <<>>
    <3>1. <<all>> # <<>>
      OBVIOUS
    <3>2. all = <<>> => added = <<>>
      BY <1>6
    <3> QED
      BY ONLY <1>1, <3>1, <3>2
  <2> QED
    BY <1>1, <1>4, <1>8, <2>1, <2>2 DEF VersionSound
<1>11. Carried(c.tbs) = IF all # <<>> THEN all ELSE Carried(b.tbs)
  <2>1. \A tbs : Carried(tbs) = IF tbs.extensions = <<>> THEN <<>> ELSE tbs.extensions[1]
    BY DEF Carried, ExtensionsOf
  <2>2. <<all>> # <<>> /\ <<all>>[1] = all
    OBVIOUS
  <2> QED
    BY <1>1, <2>1, <2>2
<1>12. IdentifiersSound(c, after)
  <2>1. SUFFICES ASSUME ~OwnIdentifier(after) PROVE IdentifiersSound(c, after)
    BY DEF IdentifiersSound
  <2>2. /\ ValuesOf(b.extensions, Subject) \subseteq {KeyIdentifier(b.tbs.key)}
        /\ ValuesOf(Carried(b.tbs), Subject) \subseteq {KeyIdentifier(b.tbs.key)}
        /\ ~Attempted(calls) => ValuesOf(b.extensions, Authority) = {} /\ ValuesOf(b.extensions, Subject) = {}
    BY <1>8, <2>1 DEF CertificateSound, IdentifiersSound
  <2>3. ValuesOf(c.extensions, Subject) \subseteq {KeyIdentifier(c.tbs.key)}
    BY <1>1, <1>4, <1>6, <2>2
  <2>5. ValuesOf(Carried(c.tbs), Subject) \subseteq {KeyIdentifier(c.tbs.key)}
    BY <1>1, <1>11, <2>2, <2>3
  <2>6. ASSUME FinalizedOnce(after) PROVE Identified(c.profile.name, c.tbs, c.tbs.signature)
    <3>1. ValuesOf(all, Authority) = ValuesOf(added, Authority) /\ ValuesOf(all, Subject) = ValuesOf(added, Subject)
      BY <1>6, <1>8, <2>2, <2>6
    <3>2. b.profile.name # "Plain" => Carried(c.tbs) = all
      BY <1>4, <1>6, <1>11
    <3> QED
      BY <1>1, <1>4, <3>1, <3>2 DEF Identified
  <2> QED
    BY <1>8, <2>3, <2>5, <2>6 DEF IdentifiersSound
<1>13. NamesSound(c, r)
  BY <1>1, <1>7, <1>11 DEF NamesSound
<1> QED
  BY <1>9, <1>10, <1>12, <1>13 DEF CertificateSound, c

(* What a finalize that fails leaves is as sound.                          *)
LEMMA CertificateFails ==
  ASSUME NEW b, Fields(b), b.type = "Certificate", NEW r, NEW calls, IsSequence(calls),
         CertificateSound(b, r, calls), NEW signer, NEW c \in CertificateFinalizeFailed(b, signer)
  PROVE  CertificateSound(c, r, Append(calls, Call("finalize failed", signer)))
<1> DEFINE call == Call("finalize failed", signer)
           after == Append(calls, call)
<1>1. IsAttempt(call) /\ ~IsFinalize(call)
  BY DEF Call, IsAttempt, IsFinalize
<1> HIDE DEF call
<1>2. CASE c = CertificateFinalize(b, signer)
  BY <1>1, <1>2, CertificateFinalizes DEF call
<1>3. CASE c # CertificateFinalize(b, signer)
  <2>1. /\ c.profile = b.profile /\ c.extensions = b.extensions
        /\ c.tbs.version = b.tbs.version /\ c.tbs.extensions = b.tbs.extensions
        /\ c.tbs.key = b.tbs.key /\ c.tbs.subject = b.tbs.subject /\ c.tbs.not_after = b.tbs.not_after
    BY <1>3 DEF CertificateFinalizeFailed, Fields
  <2>2. /\ Finalized(after) <=> Finalized(calls)
        /\ Attempted(after) /\ ~FinalizedOnce(after)
        /\ FinalizedAgain(calls) => FinalizedAgain(after)
        /\ ~OwnIdentifier(after) => ~OwnIdentifier(calls)
    BY <1>1, CallAppended
  <2>3. Carried(c.tbs) = Carried(b.tbs)
    BY <2>1 DEF Carried, ExtensionsOf
  <2>4. VersionSound(c, after)
    BY <2>1, <2>2 DEF CertificateSound, VersionSound
  <2>5. IdentifiersSound(c, after)
    BY <2>1, <2>2, <2>3 DEF CertificateSound, IdentifiersSound
  <2>6. BegunFor(c, r) /\ NamesSound(c, r)
    BY <2>1, <2>3 DEF CertificateSound, BegunFor, NamesSound
  <2> QED
    BY <2>1, <2>4, <2>5, <2>6 DEF CertificateSound, call
<1> QED
  BY <1>2, <1>3

--------------------------------------------------------------------------------
(* The builders of CMS messages.                                           *)
Optional(option) == option # <<>> => option = <<option[1]>>
SignedDataSound(b) ==
  /\ Optional(b.certificates) /\ Optional(b.crls) /\ IsSequence(b.infos)
  /\ \A i \in DOMAIN b.infos : b.infos[i].version = SignerVersion(b.infos[i].sid)
EnvelopedSound(b, calls) ==
  /\ IsSequence(b.recipients) /\ Len(b.recipients) = Len(calls)
  /\ \A i \in DOMAIN b.recipients : b.recipients[i] \in RecipientSet /\ calls[i].arg = b.recipients[i]
  /\ b.algorithm \in {"aes128", "aes192", "aes256"}

LEMMA SignerInfoAdded ==
  ASSUME NEW b, Fields(b), b.type = "SignedData", SignedDataSound(b), NEW info, NEW signer, NEW callback
  PROVE  SignedDataSound(AddSignerInfo(b, info, signer, callback))
<1> DEFINE built == BuildSignerInfo(info, signer)
           c == AddSignerInfo(b, info, signer, callback)
<1>1. \A d, x, y : LET made == SignerInfoProduct(d, x, y) IN
        /\ DOMAIN made = {"type", "version", "sid", "digest", "signed", "unsigned", "algorithm", "signature"}
        /\ made.version = SignerVersion(made.sid)
  BY DEF SignerInfoProduct
<1>2. built = <<>> \/ \E d, x, y : built = <<SignerInfoProduct(d, x, y)>>
  BY DEF BuildSignerInfo
<1>3. ASSUME NEW v, v.version = SignerVersion(v.sid), c = KeepSignerInfo(b, v)
      PROVE  SignedDataSound(c)
  <2>1. /\ c.infos = Append(b.infos, v) /\ c.certificates = b.certificates /\ c.crls = b.crls
    BY <1>3 DEF Fields, KeepSignerInfo
  <2>2. /\ IsSequence(c.infos) /\ DOMAIN c.infos = 1 .. Len(b.infos) + 1 /\ DOMAIN b.infos = 1 .. Len(b.infos)
        /\ Len(b.infos) \in Nat
        /\ \A i \in 1 .. Len(b.infos) : c.infos[i] = b.infos[i]
        /\ c.infos[Len(b.infos) + 1] = v
    BY <2>1, AppendFacts, SequenceShape DEF SignedDataSound
  <2> HIDE DEF c
  <2> QED
    BY <1>3, <2>1, <2>2 DEF SignedDataSound
<1>4. CASE built = <<>> \/ callback = "fails"
  <2>1. c = b
    BY <1>4 DEF AddSignerInfo
  <2> QED
    BY <2>1
<1>5. CASE built # <<>> /\ callback # "fails"
  <2>1. PICK d, x, y : built = <<SignerInfoProduct(d, x, y)>>
    BY <1>2, <1>5
  <2> DEFINE made == SignerInfoProduct(d, x, y)
             stamped == Stamped(made)
  <2>2. made.version = SignerVersion(made.sid) /\ stamped.version = SignerVersion(stamped.sid)
    BY <1>1 DEF Stamped
  <2>3. c = KeepSignerInfo(b, made) \/ c = KeepSignerInfo(b, stamped)
    BY <1>5, <2>1 DEF AddSignerInfo
  <2> HIDE DEF made, stamped
  <2> QED
    BY <1>3, <2>2, <2>3
<1> QED
  BY <1>4, <1>5

LEMMA SignedDataAdds ==
  ASSUME NEW b, Fields(b), b.type = "SignedData", SignedDataSound(b)
  PROVE  \A x : SignedDataSound(AddCertificate(b, x)) /\ SignedDataSound(AddCrl(b, x)) /\ SignedDataSound(AddDigest(b, x))
  BY DEF Fields, SignedDataSound, AddCertificate, AddCrl, AddDigest, Optional, OptionAppend

LEMMA RecipientAdded ==
  ASSUME NEW b, Fields(b), b.type = "EnvelopedData", NEW calls, IsSequence(calls), EnvelopedSound(b, calls),
         NEW r \in RecipientSet
  PROVE  EnvelopedSound(AddRecipient(b, r), Append(calls, Call("recipient", r)))
<1> DEFINE c == AddRecipient(b, r)
           after == Append(calls, Call("recipient", r))
<1>1. c.recipients = Append(b.recipients, r) /\ c.algorithm = b.algorithm
  BY DEF Fields, AddRecipient
<1>2. Call("recipient", r).arg = r
  BY DEF Call
<1>3. /\ IsSequence(c.recipients) /\ Len(c.recipients) = Len(b.recipients) + 1
      /\ DOMAIN c.recipients = 1 .. Len(b.recipients) + 1 /\ DOMAIN b.recipients = 1 .. Len(b.recipients)
      /\ Len(b.recipients) \in Nat
      /\ \A i \in 1 .. Len(b.recipients) : c.recipients[i] = b.recipients[i]
      /\ c.recipients[Len(b.recipients) + 1] = r
  BY <1>1, AppendFacts, SequenceShape DEF EnvelopedSound
<1>4. /\ Len(after) = Len(calls) + 1
      /\ \A i \in 1 .. Len(calls) : after[i] = calls[i]
      /\ after[Len(calls) + 1].arg = r
  BY <1>2, AppendFacts
<1> HIDE DEF c, after
<1> QED
  BY <1>1, <1>3, <1>4 DEF EnvelopedSound, c, after

--------------------------------------------------------------------------------
(* The builder, of what it was begun for and of the calls since.           *)
BuilderSound(b, r, calls) ==
  /\ b.type = "Certificate" => CertificateSound(b, r, calls)
  /\ b.type = "Crl" => b.tbs.extensions = CrlNew(r).tbs.extensions
  /\ b.type = "SignedData" => SignedDataSound(b)
  /\ b.type = "EnvelopedData" => EnvelopedSound(b, calls)

LEMMA OtherBegins ==
  ASSUME NEW i \in DOMAIN OtherNew, NEW r
  PROVE  BuilderSound(OtherNew[i], r, <<>>)
<1> DEFINE b == OtherNew[i]
<1>1. IsNew(b)
  BY OtherNewAssumption
<1>0. SUFFICES BuilderSound(b, r, <<>>)
  OBVIOUS
<1> HIDE DEF b
<1>2. CASE b.type = "SignedData"
  <2>1. b.certificates = <<>> /\ b.crls = <<>> /\ b.infos = <<>>
    BY <1>1, <1>2 DEF IsNew, SignedDataNew
  <2> QED
    BY <1>2, <2>1, EmptyIsSequence DEF BuilderSound, SignedDataSound, Optional
<1>3. CASE b.type = "EnvelopedData"
  <2>1. b.recipients = <<>> /\ b.algorithm \in {"aes128", "aes192", "aes256"}
    BY <1>1, <1>3 DEF IsNew, EnvelopedNew
  <2>2. EnvelopedSound(b, <<>>)
    BY <2>1, EmptyIsSequence DEF EnvelopedSound
  <2> QED
    BY <1>3, <2>2 DEF BuilderSound
<1>4. b.type \notin {"Certificate", "Crl"}
  BY <1>1 DEF IsNew
<1> QED
  BY <1>2, <1>3, <1>4 DEF BuilderSound

--------------------------------------------------------------------------------
(* What is issued.                                                         *)
IdentifiersIn(p) ==
  /\ IsCertificate(p) =>
       p.algorithm = p.body.signature /\ (FinalizedOnce(p.log) => NoneFailed(p.log))
  /\ IsCertificate(p) /\ ~OwnIdentifier(p.log) =>
       /\ ValuesOf(BodyExtensions(p), Subject) \subseteq {KeyIdentifier(p.body.key)}
       /\ FinalizedOnce(p.log) => Identified(p.for.profile.name, p.body, p.body.signature)
  /\ p.type = "Crl" => p.body.extensions = CrlNew(p.for).tbs.extensions
ProductSound(p) ==
  /\ VersionFitsIn(p)
  /\ IdentifiersIn(p)
  /\ IsCertificate(p) => NamesFitIn(p)
  /\ p.type = "EnvelopedData" => IsReadable(p.body, p.log)

LEMMA CertificateProduct ==
  ASSUME NEW b, NEW r, NEW calls, CertificateSound(b, r, calls), Finalized(calls), IsSequence(calls),
         NEW p, p.type = "Certificate", p.body = b.tbs, p.for = r, p.log = calls, p.algorithm = b.tbs.signature
  PROVE  ProductSound(p)
<1>1. VersionSound(b, calls) /\ BegunFor(b, r) /\ IdentifiersSound(b, calls)
  BY DEF CertificateSound
<1>2. (b.tbs.not_after[1] = "utc") = (r.not_after[2] <= 2049) /\ b.tbs.not_after[2] = r.not_after[2]
  <2>1. CASE r.not_after[1] = "general" /\ r.not_after[2] <= UTC_MAX_YEAR
    BY <1>1, <2>1 DEF BegunFor, IsTime, rfc5280_adjust_utc_time, UTC_MAX_YEAR
  <2>2. CASE ~(r.not_after[1] = "general" /\ r.not_after[2] <= UTC_MAX_YEAR)
    BY <1>1, <2>2 DEF BegunFor, IsTime, rfc5280_adjust_utc_time, UTC_MAX_YEAR
  <2> QED
    BY <2>1, <2>2
<1>3. VersionFitsIn(p)
  BY <1>1, <1>2 DEF VersionFitsIn, VersionSound, BegunFor
<1>4. BodyExtensions(p) = Carried(b.tbs)
  BY DEF BodyExtensions, Carried
<1>5. IdentifiersIn(p)
  BY <1>1, <1>4, OnceNoneFailed DEF IdentifiersIn, IdentifiersSound, BegunFor
<1>6. NamesFitIn(p)
  <2> DEFINE kept == b.tbs.subject
  <2>1. /\ kept = get_subject(r.profile, r.subject) /\ r.subject \in Seq(Seq(STRING))
        /\ CriticalFits(BodyExtensions(p), kept)
    BY <1>4 DEF CertificateSound, NamesSound
  <2>2. ASSUME r.profile.name = "Subscriber"
        PROVE  /\ AttributesOf(kept) = DomainAttributes(AttributesOf(r.subject))
               /\ \A i \in DOMAIN kept : kept[i] # <<>>
    <3>1. kept = domain_validated(r.subject)
      BY <2>1, <2>2 DEF get_subject
    <3>2. kept \in Seq(Seq(STRING) \ {<<>>}) /\ AttributesOf(kept) = DomainAttributes(AttributesOf(r.subject))
      BY <2>1, <3>1, DomainValidated
    <3> HIDE DEF kept
    <3>3. \A i \in DOMAIN kept : kept[i] \in Seq(STRING) \ {<<>>}
      BY <3>2
    <3> QED
      BY <3>2, <3>3
  <2> QED
    BY <2>1, <2>2 DEF NamesFitIn
<1> QED
  BY <1>3, <1>5, <1>6 DEF ProductSound

LEMMA SignedDataProductSound ==
  ASSUME NEW b, SignedDataSound(b), NEW p, p.type = "SignedData", p.body = SignedDataProduct(b)
  PROVE  ProductSound(p)
<1>1. /\ p.body.version = SignedDataVersion(b) /\ p.body.content_type = b.content_type
      /\ p.body.certificates = b.certificates /\ p.body.crls = b.crls /\ p.body.infos = b.infos
  BY DEF SignedDataProduct
<1>2. \A option : Optional(option) => (SomewhereOther(option) <=> SomeOther(option))
  <2>1. SUFFICES ASSUME NEW option, Optional(option) PROVE SomewhereOther(option) <=> SomeOther(option)
    OBVIOUS
  <2>2. CASE option = <<>>
    BY <2>2, EmptyIsSequence DEF SomewhereOther, SomeOther, Items
  <2>3. CASE option # <<>>
    <3>1. DOMAIN option = {1}
      BY <2>1, <2>3 DEF Optional
    <3> QED
      BY <2>3, <3>1 DEF SomewhereOther, SomeOther, Items
  <2> QED
    BY <2>2, <2>3
<1>3. (\E i \in DOMAIN b.infos : b.infos[i].version = 3) <=> \E i \in DOMAIN b.infos : b.infos[i].sid # "issuer"
  BY DEF SignedDataSound, SignerVersion
<1>4. SomewhereOther(b.certificates) \/ SomewhereOther(b.crls) <=> SomeOther(b.certificates) \/ SomeOther(b.crls)
  BY <1>2 DEF SignedDataSound
<1>5. VersionFitsIn(p)
  BY <1>1, <1>3, <1>4 DEF VersionFitsIn, SignedDataVersion
<1> QED
  BY <1>5 DEF ProductSound, IdentifiersIn, IsCertificate

(* A content encryption key survives its padding.                          *)
LEMMA PaddedKey ==
  ASSUME NEW algorithm \in {"aes128", "aes192", "aes256"}, NEW block \in Nat
  PROVE  LET key == NewKey(algorithm)
             padded == pad_content_encryption_key(key, block)
         IN  /\ Unpadded(padded) = <<key>>
             /\ \/ Len(padded) = 2 * block
                \/ Len(padded) = 4 + Len(key) /\ Len(padded) > 2 * block
<1> DEFINE n == KeyLength(algorithm)
           key == NewKey(algorithm)
           missing == 2 * block - 4 - Len(key)
           zeros == IF missing > 0 THEN missing ELSE 0
           head == <<Len(key), 255 - key[1], 255 - key[2], 255 - key[3]>>
           tail == [i \in 1 .. zeros |-> 0]
           padded == pad_content_encryption_key(key, block)
<1>1. n \in {16, 24, 32}
  BY DEF KeyLength
<1>2. key \in Seq(Nat) /\ Len(key) = n /\ \A i \in 1 .. n : key[i] = 3 * i
  BY <1>1 DEF NewKey
<1>3. padded = head \o key \o tail
  BY DEF pad_content_encryption_key
<1> HIDE DEF n, key, padded
<1>4. zeros \in Nat
  BY <1>1, <1>2
<1>5. tail \in Seq(Nat) /\ Len(tail) = zeros
  BY <1>4
<1>6. head \in Seq(Int) /\ Len(head) = 4 /\ head[1] = n /\ \A i \in 1 .. 3 : head[1 + i] = 255 - key[i]
  BY <1>1, <1>2
<1>7. 4 + n + zeros = 2 * block \/ (zeros = 0 /\ 4 + n > 2 * block)
  BY <1>1, <1>2
<1> HIDE DEF missing, zeros, head, tail
<1>8. /\ IsSequence(padded) /\ Len(padded) = 4 + n + zeros
      /\ \A i \in 1 .. 4 : padded[i] = head[i]
      /\ \A i \in 1 .. n : padded[4 + i] = key[i]
  <2> DEFINE front == head \o key
  <2>1. IsSequence(head) /\ IsSequence(key) /\ IsSequence(tail)
    BY <1>2, <1>5, <1>6, OfItsElements
  <2>2. /\ IsSequence(front) /\ Len(front) = Len(head) + Len(key)
        /\ \A i \in 1 .. Len(head) : front[i] = head[i]
        /\ \A i \in 1 .. Len(key) : front[Len(head) + i] = key[i]
    BY <2>1, ConcatFacts
  <2>3. padded = front \o tail
    BY <1>3
  <2> HIDE DEF front
  <2>4. /\ IsSequence(padded) /\ Len(padded) = Len(front) + Len(tail)
        /\ \A i \in 1 .. Len(front) : padded[i] = front[i]
    BY <2>1, <2>2, <2>3, ConcatFacts, ZenonT(60)
  <2>5. Len(front) = 4 + n /\ Len(padded) = 4 + n + zeros
    BY <1>2, <1>5, <1>6, <2>2, <2>4
  <2>6. \A i \in 1 .. 4 : padded[i] = head[i]
    BY <1>1, <1>6, <2>2, <2>4, <2>5
  <2>7. \A i \in 1 .. n : padded[4 + i] = key[i]
    <3>1. TAKE i \in 1 .. n
    <3>2. 4 + i \in 1 .. Len(front)
      BY <1>1, <2>5
    <3> QED
      BY <1>2, <1>6, <2>2, <2>4, <3>2
  <2> QED
    BY <2>4, <2>5, <2>6, <2>7
<1>9. SubSeq(padded, 5, 4 + n) = key
  <2> DEFINE part == SubSeq(padded, 5, 4 + n)
  <2>1. 4 + n <= Len(padded) /\ 5 \in Nat \ {0} /\ 4 + n \in Nat /\ 5 <= 4 + n + 1
    BY <1>1, <1>4, <1>8
  <2>2. IsSequence(part) /\ Len(part) = n /\ \A i \in 1 .. n : part[i] = padded[4 + i]
    BY <1>1, <1>8, <2>1, SubSeqFacts
  <2>3. IsSequence(key)
    BY <1>2, OfItsElements
  <2> HIDE DEF part
  <2>4. part = key
    BY <1>2, <1>8, <2>2, <2>3, SequencesEqual
  <2> QED
    BY <2>4 DEF part
<1>10. \A i \in 1 .. 3 : padded[1 + i] + key[i] = 255
  <2>1. TAKE i \in 1 .. 3
  <2>2. padded[1 + i] = 255 - key[i] /\ key[i] = 3 * i
    <3>1. 1 + i \in 1 .. 4 /\ i \in 1 .. n
      BY <1>1
    <3>2. padded[1 + i] = head[1 + i]
      BY <1>8, <3>1
    <3>3. head[1 + i] = 255 - key[i]
      BY <1>6
    <3> QED
      BY <1>2, <3>1, <3>2, <3>3
  <2> QED
    BY <2>2
<1>11. Unpadded(padded) = <<key>>
  <2>1. padded[1] = n /\ 4 + n <= Len(padded)
    BY <1>1, <1>4, <1>6, <1>8
  <2> QED
    BY <1>9, <1>10, <2>1 DEF Unpadded
<1> QED
  BY <1>2, <1>7, <1>8, <1>11 DEF key, padded

LEMMA BuiltRecipient ==
  ASSUME NEW r \in RecipientSet, NEW key, r.kind # "ori", BuildRecipient(r, key) # <<>>
  PROVE  LET info == BuildRecipient(r, key)[1] IN
         /\ r.kind \in {"ktri", "kari", "pwri"}
         /\ info.kind = r.kind /\ info.to = r /\ info.version = RecipientVersion(r)
         /\ r.kind = "ktri" => info.enc_key = [under |-> r.rid, key |-> key]
         /\ r.kind = "pwri" => info.enc_key = pad_content_encryption_key(key, r.size)
<1>1. r.kind \in {"ktri", "kari", "pwri"}
  BY RecipientsAssumption DEF BuildRecipient
<1>2. CASE r.kind = "ktri"
  BY <1>2 DEF BuildRecipient, RecipientInfo
<1>3. CASE r.kind = "pwri"
  BY <1>3 DEF BuildRecipient, RecipientInfo
<1>4. CASE r.kind = "kari"
  BY <1>4 DEF BuildRecipient, RecipientInfo
<1> QED
  BY <1>1, <1>2, <1>3, <1>4

LEMMA EnvelopedProductSound ==
  ASSUME NEW b, NEW calls, IsSequence(calls), EnvelopedSound(b, calls), CanBuild(b), NEW order \in SortedOrders(b),
         NEW p, p.type = "EnvelopedData", p.body = EnvelopedProduct(b, order), p.log = calls
  PROVE  ProductSound(p)
<1> DEFINE key == NewKey(b.algorithm)
           infos == p.body.infos
           at == DOMAIN b.recipients
           added(j) == b.recipients[order[j]]
<1>1. /\ p.body.version = EnvelopedVersion(b) /\ p.body.originator = b.originator
      /\ p.body.attributes = b.attributes /\ p.body.key = key
      /\ infos = Recipients(b, key, order) /\ p.body.infos = infos
  BY DEF EnvelopedProduct
<1>2. at = DOMAIN calls
  BY SequenceShape DEF EnvelopedSound
<1>3. DOMAIN infos = at /\ \A j \in at : infos[j] = BuildRecipient(added(j), key)[1]
  BY <1>1 DEF Recipients
<1>4. /\ order \in Bijection(at, at)
      /\ \A j \in at : order[j] \in at
      /\ \A k \in at : \E j \in at : order[j] = k
      /\ \A i, j \in at : i < j => Tags[added(i).kind] <= Tags[added(j).kind]
  BY DEF SortedOrders, Bijection, Injection, Surjection
<1>5. \A j \in at : /\ added(j) \in RecipientSet /\ calls[order[j]].arg = added(j)
                    /\ added(j).kind # "ori" /\ BuildRecipient(added(j), key) # <<>>
  BY <1>4 DEF EnvelopedSound, CanBuild
<1> HIDE DEF key, at
<1>6. \A j \in at :
        /\ added(j).kind \in {"ktri", "kari", "pwri"}
        /\ infos[j].kind = added(j).kind /\ infos[j].to = added(j)
        /\ infos[j].version = RecipientVersion(added(j))
        /\ infos[j].kind = "ktri" => infos[j].enc_key = [under |-> infos[j].to.rid, key |-> key]
        /\ infos[j].kind = "pwri" => infos[j].enc_key = pad_content_encryption_key(key, infos[j].to.size)
  <2>1. TAKE j \in at
  <2> DEFINE r == added(j)
             info == infos[j]
  <2>2. r \in RecipientSet /\ r.kind # "ori" /\ BuildRecipient(r, key) # <<>>
    BY <1>5
  <2>3. info = BuildRecipient(r, key)[1]
    BY <1>3
  <2> HIDE DEF r, info
  <2>4. /\ r.kind \in {"ktri", "kari", "pwri"}
        /\ info.kind = r.kind /\ info.to = r /\ info.version = RecipientVersion(r)
        /\ r.kind = "ktri" => info.enc_key = [under |-> r.rid, key |-> key]
        /\ r.kind = "pwri" => info.enc_key = pad_content_encryption_key(key, r.size)
    BY <2>2, <2>3, BuiltRecipient
  <2> QED
    BY <2>4 DEF r, info
<1> HIDE DEF infos, added
<1>k. \A k \in at : \E j \in at : added(j) = b.recipients[k]
  BY <1>4 DEF added
<1>7. \A j \in at : infos[j].kind = "pwri" =>
        /\ Unpadded(infos[j].enc_key) = <<key>>
        /\ \/ Len(infos[j].enc_key) = 2 * infos[j].to.size
           \/ Len(infos[j].enc_key) = 4 + Len(key) /\ Len(infos[j].enc_key) > 2 * infos[j].to.size
  <2>1. \A j \in at : infos[j].to \in RecipientSet /\ infos[j].to.size \in Nat
    BY <1>5, <1>6, RecipientsAssumption
  <2> QED
    BY <1>6, <2>1, PaddedKey, ZenonT(60) DEF key, EnvelopedSound
<1>8. IsReadable(p.body, calls)
  <2>1. IsForAll(infos, calls)
    <3>1. \A j \in at : infos[j].to = calls[order[j]].arg
      BY <1>5, <1>6
    <3> QED
      BY <1>2, <1>3, <1>4, <3>1 DEF IsForAll
  <2>2. \A i, j \in DOMAIN infos : i < j => Tags[infos[i].kind] <= Tags[infos[j].kind]
    <3>1. ASSUME NEW i \in at, NEW j \in at, i < j PROVE Tags[infos[i].kind] <= Tags[infos[j].kind]
      <4>1. Tags[added(i).kind] <= Tags[added(j).kind]
        BY <1>4, <3>1
      <4>2. infos[i].kind = added(i).kind /\ infos[j].kind = added(j).kind
        BY <1>6
      <4> QED
        BY <4>1, <4>2
    <3> QED
      BY <1>3, <3>1
  <2> QED
    BY <1>1, <1>3, <1>6, <1>7, <2>1, <2>2 DEF IsReadable
<1>9. VersionFitsIn(p)
  <2> DEFINE kinds == {b.recipients[i].kind : i \in at}
  <2>0. \A k \in at : \E j \in at : /\ infos[j].kind = b.recipients[k].kind
                                  /\ infos[j].version = RecipientVersion(b.recipients[k])
    BY <1>k, <1>6
  <2>1. ("pwri" \in kinds \/ "ori" \in kinds) <=> \E j \in at : infos[j].kind = "pwri"
    <3>1. \A j \in at : infos[j].kind \in {"ktri", "kari", "pwri"} /\ infos[j].kind = b.recipients[order[j]].kind
      BY <1>6 DEF added
    <3>2. \A j \in at : infos[j].kind \in kinds
      BY <1>4, <3>1
    <3>3. \A kind \in kinds : \E j \in at : infos[j].kind = kind
      BY <2>0
    <3> HIDE DEF kinds
    <3> QED
      BY <3>1, <3>2, <3>3
  <2>2. (\A i \in at : RecipientVersion(b.recipients[i]) = 0) <=> {infos[j].version : j \in at} \subseteq {0}
    <3>1. \A j \in at : order[j] \in at /\ infos[j].version = RecipientVersion(b.recipients[order[j]])
      BY <1>4, <1>6 DEF added
    <3>2. \A k \in at : \E j \in at : infos[j].version = RecipientVersion(b.recipients[k])
      BY <2>0
    <3>3. {infos[j].version : j \in at} \subseteq {0} <=> \A j \in at : infos[j].version = 0
      OBVIOUS
    <3>4. ASSUME \A i \in at : RecipientVersion(b.recipients[i]) = 0
          PROVE  \A j \in at : infos[j].version = 0
      BY <3>1, <3>4
    <3>5. ASSUME \A j \in at : infos[j].version = 0
          PROVE  \A i \in at : RecipientVersion(b.recipients[i]) = 0
      BY <3>2, <3>5
    <3> QED
      BY <3>3, <3>4, <3>5
  <2>3. EnvelopedVersion(b) =
          IF b.originator \in {"other certificate", "other crl"} THEN 4
          ELSE IF "pwri" \in kinds \/ "ori" \in kinds THEN 3
          ELSE IF b.originator = "none" /\ ~b.attributes
                  /\ \A i \in at : RecipientVersion(b.recipients[i]) = 0 THEN 0
          ELSE 2
    BY DEF EnvelopedVersion, at
  <2> HIDE DEF kinds
  <2> QED
    BY <1>1, <1>3, <2>1, <2>2, <2>3 DEF VersionFitsIn
<1> QED
  BY <1>8, <1>9 DEF ProductSound, IdentifiersIn, IsCertificate

LEMMA OtherProduct ==
  ASSUME NEW p, p.type \notin {"Certificate", "Crl", "SignerInfo", "SignedData", "EnvelopedData"}
  PROVE  ProductSound(p)
  BY DEF ProductSound, VersionFitsIn, IdentifiersIn, IsCertificate

--------------------------------------------------------------------------------
(* The builder and the objects issued are sound after every step.          *)
BuilderIsSound == builder # <<>> => BuilderSound(builder[1], asked[1].for, log)
ProductsAreSound == \A i \in DOMAIN issued : ProductSound(issued[i])
SoundInv == SignatureInv /\ BuilderIsSound /\ ProductsAreSound

LEMMA BeginSound ==
  ASSUME ProductsAreSound, NEW b, NEW r, Begin(b, r), b # <<>> => BuilderSound(b[1], r, <<>>)
  PROVE  BuilderIsSound' /\ ProductsAreSound'
  BY DEF Begin, BuilderIsSound, ProductsAreSound

LEMMA BecomesSound ==
  ASSUME ProductsAreSound, NEW b, NEW call, Becomes(b, call), BuilderSound(b, asked[1].for, Append(log, call))
  PROVE  BuilderIsSound' /\ ProductsAreSound'
  BY DEF Becomes, BuilderIsSound, ProductsAreSound

LEMMA SignSound ==
  ASSUME ProductsAreSound, NEW b, NEW signer, NEW octets, Sign(b, signer, octets),
         BuilderSound(b, asked[1].for, Append(log, Call("finalize", signer)))
  PROVE  BuilderIsSound' /\ ProductsAreSound'
  BY DEF Sign, BuilderIsSound, ProductsAreSound

LEMMA IssueSound ==
  ASSUME SoundInv, NEW p, ProductSound(p), issued' = Append(issued, p),
         builder' = <<>> \/ UNCHANGED <<builder, asked, log>>
  PROVE  BuilderIsSound' /\ ProductsAreSound'
<1>1. ProductsAreSound'
  BY AppendFacts, SequenceShape DEF SoundInv, SignatureInv, Shape, ProductsAreSound
<1>2. BuilderIsSound'
  BY DEF SoundInv, BuilderIsSound
<1> QED
  BY <1>1, <1>2

(* Nothing is asked of the other builders.                                 *)
LEMMA OtherSound ==
  ASSUME NEW b, b.type \notin {"Certificate", "Crl", "SignedData", "EnvelopedData"}, NEW r, NEW calls
  PROVE  BuilderSound(b, r, calls)
  BY DEF BuilderSound

LEMMA NewSound ==
  ASSUME SoundInv, NewCertificate \/ NewUnder \/ NewCrl \/ NewOther
  PROVE  BuilderIsSound' /\ ProductsAreSound'
<1>0. ProductsAreSound
  BY DEF SoundInv
<1>1. \A r \in CertificateRequests : \A issuer, for :
        for.profile = r.profile /\ for.not_after = r.not_after /\ for.subject = r.subject =>
        BuilderSound(CertificateNew(r.profile, r.key, r.subject, issuer, r.not_after), for, <<>>)
  <2>1. ASSUME NEW r \in CertificateRequests, NEW issuer, NEW for,
               for.profile = r.profile, for.not_after = r.not_after, for.subject = r.subject
        PROVE  BuilderSound(CertificateNew(r.profile, r.key, r.subject, issuer, r.not_after), for, <<>>)
    <3>1. CertificateSound(CertificateNew(r.profile, r.key, r.subject, issuer, r.not_after), for, <<>>)
      BY <2>1, CertificateBegins
    <3>2. CertificateNew(r.profile, r.key, r.subject, issuer, r.not_after).type = "Certificate"
      BY DEF CertificateNew
    <3> QED
      BY <3>1, <3>2 DEF BuilderSound
  <2> QED
    BY <2>1
<1>2. CASE NewCertificate
  <2>1. PICK r \in CertificateRequests :
          Begin(IF ProfileNew(r.profile, r.subject)
                THEN <<CertificateNew(r.profile, r.key, r.subject, r.issuer, r.not_after)>>
                ELSE <<>>,
                r)
    BY <1>2 DEF NewCertificate
  <2> DEFINE c == CertificateNew(r.profile, r.key, r.subject, r.issuer, r.not_after)
             b == IF ProfileNew(r.profile, r.subject) THEN <<c>> ELSE <<>>
  <2>2. BuilderSound(c, r, <<>>)
    BY <1>1
  <2>3. b # <<>> => BuilderSound(b[1], r, <<>>)
    BY <2>2
  <2>4. Begin(b, r)
    BY <2>1
  <2> HIDE DEF b
  <2> QED
    BY <1>0, <2>3, <2>4, BeginSound
<1>3. CASE NewUnder
  <2>1. PICK i \in DOMAIN issued, r \in CertificateRequests :
          LET under == [r EXCEPT !.issuer = issued[i].body.subject] IN
          Begin(<<CertificateNew(r.profile, r.key, r.subject, under.issuer, r.not_after)>>, under)
    BY <1>3 DEF NewUnder
  <2> DEFINE under == [r EXCEPT !.issuer = issued[i].body.subject]
             c == CertificateNew(r.profile, r.key, r.subject, under.issuer, r.not_after)
  <2>2. under.profile = r.profile /\ under.not_after = r.not_after /\ under.subject = r.subject
    BY RequestsAssumption
  <2> HIDE DEF under
  <2>3. BuilderSound(c, under, <<>>)
    BY <1>1, <2>2
  <2>4. Begin(<<c>>, under)
    BY <2>1 DEF under
  <2> HIDE DEF c
  <2>5. <<c>>[1] = c
    OBVIOUS
  <2> QED
    BY <1>0, <2>3, <2>4, <2>5, BeginSound
<1>4. CASE NewCrl
  <2>1. PICK issuer : Begin(IF CanIssueCrl(issuer) THEN <<CrlNew(issuer)>> ELSE <<>>, issuer)
    BY <1>4 DEF NewCrl
  <2> DEFINE b == IF CanIssueCrl(issuer) THEN <<CrlNew(issuer)>> ELSE <<>>
  <2>2. CrlNew(issuer).type = "Crl"
    BY DEF CrlNew
  <2>3. BuilderSound(CrlNew(issuer), issuer, <<>>)
    BY <2>2 DEF BuilderSound
  <2>4. b # <<>> => BuilderSound(b[1], issuer, <<>>)
    BY <2>3
  <2>5. Begin(b, issuer)
    BY <2>1
  <2> HIDE DEF b
  <2> QED
    BY <1>0, <2>4, <2>5, BeginSound
<1>5. CASE NewOther
  <2>1. PICK i \in DOMAIN OtherNew : Begin(<<OtherNew[i]>>, OtherNew[i])
    BY <1>5 DEF NewOther
  <2> DEFINE b == <<OtherNew[i]>>
  <2>2. BuilderSound(b[1], OtherNew[i], <<>>)
    BY OtherBegins
  <2>3. Begin(b, OtherNew[i])
    BY <2>1
  <2> HIDE DEF b
  <2> QED
    BY <1>0, <2>2, <2>3, BeginSound
<1> QED
  BY <1>2, <1>3, <1>4, <1>5

LEMMA AddSound ==
  ASSUME SoundInv,
         \/ AddExtension \/ AddAttribute \/ AddSignedAttribute \/ AddUnsignedAttribute
         \/ WithRevoked \/ WithNextUpdate \/ OcspAdd \/ SignedDataAdd \/ AddRecipientInfo
  PROVE  BuilderIsSound' /\ ProductsAreSound'
<1> DEFINE b == builder[1]
           r == asked[1].for
<1> USE DEF Alive
<1>0. ProductsAreSound /\ IsSequence(log) /\ (builder # <<>> => Fields(b) /\ BuilderSound(b, r, log))
  BY DEF SoundInv, SignatureInv, Shape, BuilderIsSound
<1> HIDE DEF r
(* A builder of which nothing is asked becomes another of its type.        *)
<1>a. ASSUME NEW c, NEW call, Becomes(c, call), c.type = b.type,
             b.type \notin {"Certificate", "Crl", "SignedData", "EnvelopedData"}
      PROVE  BuilderIsSound' /\ ProductsAreSound'
  BY <1>0, <1>a, OtherSound, BecomesSound
<1>b. ASSUME NEW c, NEW call, Becomes(c, call), BuilderSound(c, r, Append(log, call))
      PROVE  BuilderIsSound' /\ ProductsAreSound'
  BY <1>0, <1>b, BecomesSound DEF r
<1>1. CASE AddExtension
  <2>1. PICK id \in ExtensionIds :
          Becomes(CASE b.type = "Certificate" -> CertificateAdd(b, id, <<"own">>)
                    [] b.type = "Request" -> RequestAdd(b, id, <<"own">>)
                    [] OTHER -> OcspWithExtension(b, id, <<"own">>), Call("extension", id))
    BY <1>1 DEF AddExtension
  <2>2. Fields(b) /\ BuilderSound(b, r, log) /\ b.type \in {"Certificate", "Request", "OcspRequest", "OcspResponse"}
    BY <1>0, <1>1 DEF AddExtension
  <2>3. CASE b.type = "Certificate"
    <3> DEFINE c == CertificateAdd(b, id, <<"own">>)
    <3>1. CertificateSound(c, r, Append(log, Call("extension", id)))
      BY <1>0, <2>2, <2>3, CertificateAdds DEF BuilderSound
    <3>2. c.type = "Certificate"
      BY <2>2, <2>3, X509Fields DEF Keeps
    <3>3. BuilderSound(c, r, Append(log, Call("extension", id)))
      BY <3>1, <3>2 DEF BuilderSound
    <3>4. Becomes(c, Call("extension", id))
      BY <2>1, <2>3
    <3> HIDE DEF c
    <3> QED
      BY <1>b, <3>3, <3>4
  <2>4. CASE b.type = "Request"
    <3>1. RequestAdd(b, id, <<"own">>).type = b.type
      BY <2>2, <2>4, X509Fields DEF Keeps
    <3> QED
      BY <1>a, <2>1, <2>4, <3>1
  <2>5. CASE b.type \in {"OcspRequest", "OcspResponse"}
    <3>1. OcspWithExtension(b, id, <<"own">>).type = b.type
      BY <2>2, <2>5, X509Fields DEF Keeps
    <3> QED
      BY <1>a, <2>1, <2>5, <3>1
  <2> QED
    BY <2>2, <2>3, <2>4, <2>5
<1>2. CASE AddAttribute
  <2>1. PICK a : Becomes(RequestAddAttribute(b, a), Call("attribute", a[1]))
    BY <1>2 DEF AddAttribute
  <2>2. Fields(b) /\ b.type = "Request"
    BY <1>0, <1>2 DEF AddAttribute
  <2>3. RequestAddAttribute(b, a).type = b.type
    BY <2>2, X509Fields DEF Keeps
  <2> QED
    BY <1>a, <2>1, <2>2, <2>3
<1>3. CASE AddSignedAttribute \/ AddUnsignedAttribute
  <2>1. PICK a, call : Becomes(AddSigned(b, a), call) \/ Becomes(AddUnsigned(b, a), call)
    BY <1>3 DEF AddSignedAttribute, AddUnsignedAttribute
  <2>2. Fields(b) /\ b.type = "SignerInfo"
    BY <1>0, <1>3 DEF AddSignedAttribute, AddUnsignedAttribute
  <2>3. AddSigned(b, a).type = b.type /\ AddUnsigned(b, a).type = b.type
    BY <2>2, SignerInfoFields DEF Keeps
  <2> QED
    BY <1>a, <2>1, <2>2, <2>3
<1>4. CASE WithRevoked \/ WithNextUpdate
  <2>1. PICK x, call : Becomes(CrlWithCertificates(b, x), call) \/ Becomes(CrlWithNextUpdate(b, x), call)
    BY <1>4 DEF WithRevoked, WithNextUpdate
  <2>2. Fields(b) /\ b.type = "Crl" /\ b.tbs.extensions = CrlNew(r).tbs.extensions
    BY <1>0, <1>4 DEF WithRevoked, WithNextUpdate, BuilderSound
  <2>3. /\ CrlWithCertificates(b, x).type = "Crl" /\ CrlWithNextUpdate(b, x).type = "Crl"
        /\ CrlWithCertificates(b, x).tbs.extensions = b.tbs.extensions
        /\ CrlWithNextUpdate(b, x).tbs.extensions = b.tbs.extensions
    BY <2>2 DEF Fields, CrlWithCertificates, CrlWithNextUpdate
  <2>4. /\ BuilderSound(CrlWithCertificates(b, x), r, Append(log, call))
        /\ BuilderSound(CrlWithNextUpdate(b, x), r, Append(log, call))
    BY <2>2, <2>3 DEF BuilderSound
  <2> QED
    BY <1>b, <2>1, <2>4
<1>5. CASE OcspAdd
  <2>1. PICK x, call : Becomes(OcspWith(b, x), call) \/ Becomes(OcspWithRequestor(b, x), call)
    BY <1>5 DEF OcspAdd
  <2>2. Fields(b) /\ b.type \in {"OcspRequest", "OcspResponse"}
    BY <1>0, <1>5 DEF OcspAdd
  <2>3. OcspWith(b, x).type = b.type /\ OcspWithRequestor(b, x).type = b.type
    BY <2>2, X509Fields DEF Keeps
  <2> QED
    BY <1>a, <2>1, <2>2, <2>3
<1>6. CASE SignedDataAdd
  <2>1. PICK x, y, z, call :
          \/ Becomes(AddCertificate(b, x), call) \/ Becomes(AddCrl(b, x), call)
          \/ Becomes(AddDigest(b, x), call) \/ Becomes(AddSignerInfo(b, x, y, z), call)
    BY <1>6 DEF SignedDataAdd
  <2>2. Fields(b) /\ b.type = "SignedData" /\ SignedDataSound(b)
    BY <1>0, <1>6 DEF SignedDataAdd, BuilderSound
  <2>3. \A c : SignedDataSound(c) /\ c.type = "SignedData" => BuilderSound(c, r, Append(log, call))
    BY DEF BuilderSound
  <2>4. /\ BuilderSound(AddCertificate(b, x), r, Append(log, call))
        /\ BuilderSound(AddCrl(b, x), r, Append(log, call))
        /\ BuilderSound(AddDigest(b, x), r, Append(log, call))
    BY <2>2, <2>3, SignedDataAdds, CmsFields DEF Keeps
  <2>5. BuilderSound(AddSignerInfo(b, x, y, z), r, Append(log, call))
    BY <2>2, <2>3, SignerInfoAdded, CmsFields DEF Keeps
  <2> QED
    BY <1>b, <2>1, <2>4, <2>5
<1>7. CASE AddRecipientInfo
  <2>1. PICK x \in RecipientSet : Becomes(AddRecipient(b, x), Call("recipient", x))
    BY <1>7 DEF AddRecipientInfo
  <2>2. Fields(b) /\ b.type = "EnvelopedData" /\ EnvelopedSound(b, log)
    BY <1>0, <1>7 DEF AddRecipientInfo, BuilderSound
  <2>3. EnvelopedSound(AddRecipient(b, x), Append(log, Call("recipient", x)))
    BY <1>0, <2>2, RecipientAdded
  <2>4. AddRecipient(b, x).type = "EnvelopedData"
    BY <2>2, CmsFields DEF Keeps
  <2>5. BuilderSound(AddRecipient(b, x), r, Append(log, Call("recipient", x)))
    BY <2>3, <2>4 DEF BuilderSound
  <2> QED
    BY <1>b, <2>1, <2>5
<1> QED
  BY <1>1, <1>2, <1>3, <1>4, <1>5, <1>6, <1>7

LEMMA FinalizeSound ==
  ASSUME SoundInv, Finalize
  PROVE  BuilderIsSound' /\ ProductsAreSound'
<1> DEFINE b == builder[1]
           r == asked[1].for
<1> USE DEF Alive
<1>0. ProductsAreSound /\ IsSequence(log) /\ Fields(b) /\ BuilderSound(b, r, log)
  BY DEF SoundInv, SignatureInv, Shape, BuilderIsSound, Finalize
<1>1. PICK signer \in Keys :
        \/ /\ b.type = "Certificate"
           /\ \/ Sign(CertificateFinalize(b, signer), signer, CertificateFinalize(b, signer).tbs)
              \/ \E c \in CertificateFinalizeFailed(b, signer) : FailsWith(c, signer)
        \/ /\ b.type = "Request"
           /\ \/ Sign(RequestFinalize(b, signer), signer, RequestFinalize(b, signer).info)
              \/ \E c \in RequestFinalizeFailed(b, signer) : FailsWith(c, signer)
        \/ /\ b.type = "Crl"
           /\ \/ Sign(CrlFinalize(b, signer), signer, CrlFinalize(b, signer).tbs)
              \/ \E c \in CrlFinalizeFailed(b, signer) : FailsWith(c, signer)
        \/ /\ b.type = "SignerInfo"
           /\ \/ Sign(SignerInfoFinalize(b).b, signer, SignedAttributes(SignerInfoFinalize(b).b))
              \/ FailsWith(SignerInfoFinalize(b).b, signer)
  BY DEF Finalize
<1>a. ASSUME NEW c, BuilderSound(c, r, Append(log, Call("finalize failed", signer))), FailsWith(c, signer)
      PROVE  BuilderIsSound' /\ ProductsAreSound'
  BY <1>0, <1>a, BecomesSound DEF FailsWith
<1>2. CASE b.type = "Certificate"
  <2>1. CertificateSound(CertificateFinalize(b, signer), r, Append(log, Call("finalize", signer)))
    <3>1. IsAttempt(Call("finalize", signer))
      BY DEF Call, IsAttempt
    <3> QED
      BY <1>0, <1>2, <3>1, CertificateFinalizes DEF BuilderSound
  <2>2. CertificateFinalize(b, signer).type = "Certificate"
    BY <1>0, <1>2, X509Fields DEF Keeps
  <2>3. BuilderSound(CertificateFinalize(b, signer), r, Append(log, Call("finalize", signer)))
    BY <2>1, <2>2 DEF BuilderSound
  <2>4. ASSUME NEW c \in CertificateFinalizeFailed(b, signer)
        PROVE  BuilderSound(c, r, Append(log, Call("finalize failed", signer)))
    <3>1. c.type = "Certificate"
      BY <1>0, <1>2, X509Fields DEF Keeps
    <3>2. CertificateSound(c, r, Append(log, Call("finalize failed", signer)))
      BY <1>0, <1>2, CertificateFails DEF BuilderSound
    <3> QED
      BY <3>1, <3>2 DEF BuilderSound
  <2> QED
    BY <1>0, <1>1, <1>2, <1>a, <2>3, <2>4, SignSound
<1>3. CASE b.type = "Request"
  <2>1. RequestFinalize(b, signer).type = b.type
    BY <1>0, <1>3, X509Fields DEF Keeps
  <2>2. \A c \in RequestFinalizeFailed(b, signer) : c.type = b.type
    BY <1>0, <1>3, X509Fields DEF Keeps
  <2> QED
    BY <1>0, <1>1, <1>3, <1>a, <2>1, <2>2, SignSound, OtherSound
<1>4. CASE b.type = "Crl"
  <2>1. CrlFinalize(b, signer).type = "Crl" /\ CrlFinalize(b, signer).tbs.extensions = b.tbs.extensions
    BY <1>0, <1>4 DEF Fields, CrlFinalize
  <2>2. BuilderSound(CrlFinalize(b, signer), r, Append(log, Call("finalize", signer)))
    BY <1>0, <1>4, <2>1 DEF BuilderSound
  <2>3. \A c \in CrlFinalizeFailed(b, signer) : c.type = "Crl" /\ c.tbs.extensions = b.tbs.extensions
    BY <1>4, <2>1 DEF CrlFinalizeFailed
  <2>4. \A c \in CrlFinalizeFailed(b, signer) :
          BuilderSound(c, r, Append(log, Call("finalize failed", signer)))
    BY <1>0, <1>4, <2>3 DEF BuilderSound
  <2> QED
    BY <1>0, <1>1, <1>4, <1>a, <2>2, <2>4, SignSound
<1>5. CASE b.type = "SignerInfo"
  <2>1. SignerInfoFinalize(b).b.type = b.type
    BY <1>0, <1>5, SignerInfoFields DEF Keeps
  <2> QED
    BY <1>0, <1>1, <1>5, <1>a, <2>1, SignSound, OtherSound
<1> QED
  BY <1>1, <1>2, <1>3, <1>4, <1>5

LEMMA AssembleSound ==
  ASSUME SoundInv, Assemble
  PROVE  BuilderIsSound' /\ ProductsAreSound'
<1> DEFINE b == builder[1]
           r == asked[1].for
           Product(type, body, algorithm) ==
             [type |-> type, body |-> body, algorithm |-> algorithm, signature |-> signed[1],
              for |-> r, log |-> log]
<1>0. BuilderSound(b, r, log) /\ b.type \in Signatory
  BY DEF SoundInv, BuilderIsSound, Assemble, Alive
<1>1. Finalized(log) /\ IsSequence(log)
  BY DEF SoundInv, SignatureInv, Shape, SignatureOfBuilder, Assemble, IsLastFinalize, Finalized
<1>2. builder' = <<>>
  BY DEF Assemble
<1>3. PICK signer \in Keys :
        CASE b.type \in {"Certificate", "Crl"} ->
               issued' = Append(issued, Product(b.type, b.tbs, b.tbs.signature))
          [] b.type = "Request" -> issued' = Append(issued, Product("Request", b.info, signer))
          [] OTHER -> issued' = Append(issued, Product("SignerInfo", SignerInfoProduct(b, signer, signed[1]), signer))
  BY DEF Assemble, Issue
<1>4. CASE b.type = "Certificate"
  <2> DEFINE p == Product("Certificate", b.tbs, b.tbs.signature)
  <2>1. ProductSound(p)
    BY <1>0, <1>1, <1>4, CertificateProduct DEF BuilderSound
  <2>2. issued' = Append(issued, p)
    BY <1>3, <1>4
  <2> HIDE DEF p
  <2> QED
    BY <1>2, <2>1, <2>2, IssueSound
<1>5. CASE b.type = "Crl"
  <2> DEFINE p == Product("Crl", b.tbs, b.tbs.signature)
  <2>1. ProductSound(p)
    BY <1>0, <1>5 DEF BuilderSound, ProductSound, VersionFitsIn, IdentifiersIn, IsCertificate
  <2>2. issued' = Append(issued, p)
    BY <1>3, <1>5
  <2> HIDE DEF p
  <2> QED
    BY <1>2, <2>1, <2>2, IssueSound
<1>6. CASE b.type = "Request"
  <2> DEFINE p == Product("Request", b.info, signer)
  <2>1. ProductSound(p)
    BY OtherProduct
  <2>2. issued' = Append(issued, p)
    BY <1>3, <1>6
  <2> HIDE DEF p
  <2> QED
    BY <1>2, <2>1, <2>2, IssueSound
<1>7. CASE b.type = "SignerInfo"
  <2> DEFINE p == Product("SignerInfo", SignerInfoProduct(b, signer, signed[1]), signer)
  <2>1. (p.body.version = 1) = (p.body.sid = "issuer")
    BY DEF SignerInfoProduct, SignerVersion
  <2>2. ProductSound(p)
    <3>1. p.type = "SignerInfo"
      OBVIOUS
    <3> HIDE DEF p
    <3> QED
      BY <2>1, <3>1 DEF ProductSound, VersionFitsIn, IdentifiersIn, IsCertificate
  <2>3. issued' = Append(issued, p)
    BY <1>3, <1>7
  <2> HIDE DEF p
  <2> QED
    BY <1>2, <2>2, <2>3, IssueSound
<1> QED
  BY <1>0, <1>4, <1>5, <1>6, <1>7 DEF Signatory

LEMMA BuildSound ==
  ASSUME SoundInv, OcspSign \/ CmsBuild
  PROVE  BuilderIsSound' /\ ProductsAreSound'
<1> DEFINE b == builder[1]
           Product(type, body, algorithm, signature) ==
             [type |-> type, body |-> body, algorithm |-> algorithm, signature |-> signature,
              for |-> asked[1].for, log |-> log]
<1>0. BuilderSound(b, asked[1].for, log)
  BY DEF SoundInv, BuilderIsSound, OcspSign, CmsBuild, Alive
<1>1. CASE OcspSign
  <2>1. b.type \in {"OcspRequest", "OcspResponse"} /\ builder' = <<>>
    BY <1>1 DEF OcspSign, Alive
  <2>2. PICK signer : issued' = Append(issued, Product(b.type, b.tbs, signer, [by |-> signer, over |-> b.tbs]))
    BY <1>1 DEF OcspSign, Issue
  <2> DEFINE p == Product(b.type, b.tbs, signer, [by |-> signer, over |-> b.tbs])
  <2>3. ProductSound(p)
    BY <2>1, OtherProduct
  <2>4. issued' = Append(issued, p)
    BY <2>2
  <2> HIDE DEF p
  <2> QED
    BY <2>1, <2>3, <2>4, IssueSound
<1>2. CASE CmsBuild
  <2> DEFINE p == Product("SignedData", SignedDataProduct(b), "", [by |-> "", over |-> <<>>])
             q(order) == Product("EnvelopedData", EnvelopedProduct(b, order), "", [by |-> "", over |-> <<>>])
  <2>1. UNCHANGED <<builder, asked, log>>
    BY <1>2 DEF CmsBuild
  <2>2. \/ b.type = "SignedData" /\ issued' = Append(issued, p)
        \/ b.type = "EnvelopedData" /\ CanBuild(b) /\ \E order \in SortedOrders(b) : issued' = Append(issued, q(order))
    BY <1>2 DEF CmsBuild, Issue, Alive
  <2>3. CASE b.type = "SignedData" /\ issued' = Append(issued, p)
    <3>1. SignedDataSound(b)
      BY <1>0, <2>3 DEF BuilderSound
    <3>2. ProductSound(p)
      BY <3>1, SignedDataProductSound
    <3> HIDE DEF p
    <3> QED
      BY <2>1, <2>3, <3>2, IssueSound
  <2>4. CASE b.type = "EnvelopedData" /\ CanBuild(b) /\ \E order \in SortedOrders(b) : issued' = Append(issued, q(order))
    <3>1. EnvelopedSound(b, log) /\ IsSequence(log)
      BY <1>0, <2>4 DEF BuilderSound, SoundInv, SignatureInv, Shape
    <3>2. PICK order \in SortedOrders(b) : issued' = Append(issued, q(order))
      BY <2>4
    <3>3. ProductSound(q(order))
      BY <2>4, <3>1, EnvelopedProductSound
    <3> HIDE DEF q
    <3> QED
      BY <2>1, <3>2, <3>3, IssueSound
  <2> QED
    BY <2>2, <2>3, <2>4
<1> QED
  BY <1>1, <1>2

(* What was asked of new, and its answer.                                  *)
AnswersFit == \A i \in DOMAIN asked : AnswerFits(asked[i])

LEMMA BeginAnswers ==
  ASSUME NEW b, NEW r, Begin(b, r), AnswerFits([for |-> r, accepted |-> b # <<>>])
  PROVE  AnswersFit'
<1> DEFINE question == [for |-> r, accepted |-> b # <<>>]
<1>1. asked' = <<question>> /\ AnswerFits(question)
  BY DEF Begin
<1> HIDE DEF question
<1>2. DOMAIN asked' = {1} /\ asked'[1] = question
  BY <1>1
<1> QED
  BY <1>1, <1>2 DEF AnswersFit

(* The profiles accept the names that are in order.                        *)
LEMMA ProfileAccepts ==
  ASSUME NEW r \in CertificateRequests
  PROVE  /\ r.profile.name = "Root" => (ProfileNew(r.profile, r.subject) <=> ValidCaName(r.subject))
         /\ r.profile.name = "DevId" =>
              (ProfileNew(r.profile, r.subject)
                 <=> (r.profile.alt_names # <<>> => ReadableHardware(r.profile.alt_names[1])))
         /\ r.profile.name \notin {"Root", "DevId"} => ProfileNew(r.profile, r.subject)
<1>1. r.subject \in Seq(Seq(STRING)) /\ r.profile.alt_names \in Seq(Seq(STRING))
  BY RequestsAssumption
<1>2. CASE r.profile.name = "Root"
  BY <1>1, <1>2, CaNaming DEF ProfileNew
<1>3. CASE r.profile.name = "DevId"
  <2>1. ProfileNew(r.profile, r.subject) <=> DevIdNew(r.profile.alt_names)
    BY <1>3 DEF ProfileNew
  <2>2. ASSUME r.profile.alt_names # <<>>
        PROVE  HasHardwareModule(r.profile.alt_names[1]) <=> ReadableHardware(r.profile.alt_names[1])
    <3>1. r.profile.alt_names[1] \in Seq(STRING)
      BY <1>1, <2>2
    <3> QED
      BY <3>1, HardwareIsFirst
  <2> QED
    BY <1>3, <2>1, <2>2 DEF DevIdNew
<1>4. CASE r.profile.name \notin {"Root", "DevId"}
  BY <1>4 DEF ProfileNew
<1> QED
  BY <1>2, <1>3, <1>4

LEMMA OthersAreAccepted ==
  ASSUME NEW question, question.accepted = TRUE, question.for.profile.name \notin {"Root", "DevId"}
  PROVE  AnswerFits(question)
  BY DEF AnswerFits

LEMMA RootsAreAccepted ==
  ASSUME NEW question, question.accepted \in BOOLEAN, question.for.profile.name = "Root",
         question.accepted <=> ValidCaName(question.for.subject)
  PROVE  AnswerFits(question)
<1>1. ValidCaName(question.for.subject) \in BOOLEAN
  BY DEF ValidCaName
<1>2. question.accepted = ValidCaName(question.for.subject)
  BY <1>1
<1> QED
  BY <1>2 DEF AnswerFits

LEMMA DevIdsAreAccepted ==
  ASSUME NEW question, question.accepted \in BOOLEAN, question.for.profile.name = "DevId",
         LET names == question.for.profile.alt_names IN
         question.accepted <=> (names # <<>> => ReadableHardware(names[1]))
  PROVE  AnswerFits(question)
  BY DEF AnswerFits

LEMMA AnswersNext == AnswersFit /\ [Next]_vars => AnswersFit'
<1> SUFFICES ASSUME AnswersFit, [Next]_vars PROVE AnswersFit'
  OBVIOUS
<1>1. CASE NewCertificate
  <2>1. PICK r \in CertificateRequests :
          Begin(IF ProfileNew(r.profile, r.subject)
                THEN <<CertificateNew(r.profile, r.key, r.subject, r.issuer, r.not_after)>>
                ELSE <<>>,
                r)
    BY <1>1 DEF NewCertificate
  <2> DEFINE c == CertificateNew(r.profile, r.key, r.subject, r.issuer, r.not_after)
             b == IF ProfileNew(r.profile, r.subject) THEN <<c>> ELSE <<>>
             question == [for |-> r, accepted |-> b # <<>>]
  <2>2. Begin(b, r)
    BY <2>1
  <2> HIDE DEF c
  <2>3. b # <<>> <=> ProfileNew(r.profile, r.subject)
    OBVIOUS
  <2> HIDE DEF b
  <2>4. question.for = r /\ (question.accepted <=> b # <<>>) /\ question.accepted \in BOOLEAN
    OBVIOUS
  <2>5. AnswerFits(question)
    <3> HIDE DEF question
    <3>1. CASE r.profile.name = "Root"
      BY <2>3, <2>4, <3>1, ProfileAccepts, RootsAreAccepted
    <3>2. CASE r.profile.name = "DevId"
      BY <2>3, <2>4, <3>2, ProfileAccepts, DevIdsAreAccepted
    <3>3. CASE r.profile.name \notin {"Root", "DevId"}
      BY <2>3, <2>4, <3>3, ProfileAccepts, OthersAreAccepted
    <3> QED
      BY <3>1, <3>2, <3>3
  <2> QED
    BY <2>2, <2>5, BeginAnswers
<1>2. CASE NewUnder
  <2>1. PICK i \in DOMAIN issued, r \in CertificateRequests :
          /\ r.profile.name \in {"Subordinate", "Subscriber"}
          /\ LET under == [r EXCEPT !.issuer = issued[i].body.subject] IN
             Begin(<<CertificateNew(r.profile, r.key, r.subject, under.issuer, r.not_after)>>, under)
    BY <1>2 DEF NewUnder
  <2> DEFINE under == [r EXCEPT !.issuer = issued[i].body.subject]
             c == CertificateNew(r.profile, r.key, r.subject, under.issuer, r.not_after)
             question == [for |-> under, accepted |-> <<c>> # <<>>]
  <2>2. under.profile.name \in {"Subordinate", "Subscriber"}
    BY <2>1, RequestsAssumption
  <2>3. Begin(<<c>>, under)
    BY <2>1
  <2> HIDE DEF under, c
  <2>4. question.for = under /\ question.accepted = TRUE
    OBVIOUS
  <2>5. AnswerFits(question)
    <3> HIDE DEF question
    <3>1. question.accepted = TRUE /\ question.for.profile.name \notin {"Root", "DevId"}
      BY <2>2, <2>4
    <3> QED
      BY <3>1, OthersAreAccepted
  <2> QED
    BY <2>3, <2>5, BeginAnswers
<1>3. CASE NewCrl
  <2>1. PICK i : LET issuer == [tbs |-> issued[i].body] IN
                 Begin(IF CanIssueCrl(issuer) THEN <<CrlNew(issuer)>> ELSE <<>>, issuer)
    BY <1>3 DEF NewCrl
  <2> DEFINE issuer == [tbs |-> issued[i].body]
             b == IF CanIssueCrl(issuer) THEN <<CrlNew(issuer)>> ELSE <<>>
  <2>2. "profile" \notin DOMAIN issuer /\ Begin(b, issuer)
    BY <2>1
  <2> HIDE DEF issuer, b
  <2>3. AnswerFits([for |-> issuer, accepted |-> b # <<>>])
    BY <2>2 DEF AnswerFits
  <2> QED
    BY <2>2, <2>3, BeginAnswers
<1>4. CASE NewOther
  <2>1. PICK i \in DOMAIN OtherNew : Begin(<<OtherNew[i]>>, OtherNew[i])
    BY <1>4 DEF NewOther
  <2> DEFINE b == OtherNew[i]
  <2>2. IsNew(b)
    BY OtherNewAssumption
  <2>3. Begin(<<b>>, b)
    BY <2>1
  <2> HIDE DEF b
  <2>4. "profile" \notin DOMAIN b
    BY <2>2 DEF IsNew, RequestNew, OcspNew, SignerInfoNew, SignedDataNew, EnvelopedNew
  <2>5. AnswerFits([for |-> b, accepted |-> <<b>> # <<>>])
    BY <2>4 DEF AnswerFits
  <2> QED
    BY <2>3, <2>5, BeginAnswers
<1>5. CASE \/ AddExtension \/ AddAttribute \/ AddSignedAttribute \/ AddUnsignedAttribute
           \/ WithRevoked \/ WithNextUpdate \/ OcspAdd \/ SignedDataAdd \/ AddRecipientInfo
           \/ Finalize \/ CmsBuild \/ UNCHANGED vars
  <2>1. UNCHANGED asked
    BY <1>5 DEF AddExtension, AddAttribute, AddSignedAttribute, AddUnsignedAttribute, WithRevoked,
                WithNextUpdate, OcspAdd, SignedDataAdd, AddRecipientInfo, Finalize, Sign, FailsWith,
                Becomes, CmsBuild, vars
  <2> QED
    BY <2>1 DEF AnswersFit
<1>6. CASE Assemble \/ OcspSign
  <2>1. asked' = <<>>
    BY <1>6 DEF Assemble, OcspSign
  <2> QED
    BY <2>1, EmptyIsSequence DEF AnswersFit
<1> QED
  BY <1>1, <1>2, <1>3, <1>4, <1>5, <1>6 DEF Next

LEMMA Answers == Spec => []AnswersFit
<1>1. Init => AnswersFit
  BY EmptyIsSequence DEF Init, AnswersFit
<1> QED
  BY <1>1, AnswersNext, PTL DEF Spec

LEMMA SoundInit == Init => SoundInv
<1> SUFFICES ASSUME Init PROVE SoundInv
  OBVIOUS
<1>1. SignatureInv
  BY ShapeInit DEF Init, SignatureInv, SignatureOfBuilder, SignatureFits
<1> QED
  BY <1>1, EmptyIsSequence DEF Init, SoundInv, BuilderIsSound, ProductsAreSound

LEMMA SoundNext == SoundInv /\ [Next]_vars => SoundInv'
<1> SUFFICES ASSUME SoundInv, [Next]_vars PROVE BuilderIsSound' /\ ProductsAreSound'
  BY SignatureNext DEF SoundInv
<1>1. CASE UNCHANGED vars
  BY <1>1 DEF vars, SoundInv, BuilderIsSound, ProductsAreSound
<1> QED
  BY <1>1, NewSound, AddSound, FinalizeSound, AssembleSound, BuildSound DEF Next

LEMMA Soundness == Spec => []SoundInv
  BY SoundInit, SoundNext, PTL DEF Spec

(* Every object announces the version that its contents need, and a        *)
(* certificate's times are in the form that their year calls for.          *)
THEOREM Versions == Spec => []VersionsFit
<1>1. SoundInv => VersionsFit
  BY DEF SoundInv, ProductsAreSound, ProductSound, VersionsFit
<1> QED
  BY <1>1, Soundness, PTL

(* The infos of a message are those of the recipients that were added, in  *)
(* the order of their tags, and every recipient by key transport or by     *)
(* password finds the content encryption key in its info, whatever the     *)
(* cipher and its blocks.                                                  *)
THEOREM Envelopes == Spec => []EnvelopeIsReadable
<1>1. SoundInv => EnvelopeIsReadable
  BY DEF SoundInv, ProductsAreSound, ProductSound, EnvelopeIsReadable
<1> QED
  BY <1>1, Soundness, PTL

(* A profile refuses just the names that it must, what is left of a        *)
(* subscriber's subject is what may stay, and alternative names are        *)
(* critical just when the subject is empty, for names of any length.       *)
THEOREM Naming == Spec => []NamesAreChecked
<1>1. SoundInv /\ AnswersFit => NamesAreChecked
  BY DEF SoundInv, ProductsAreSound, ProductSound, AnswersFit, NamesAreChecked
<1> QED
  BY <1>1, Soundness, Answers, PTL

(* What a CRL names: the key of its issuer, unless the issuer's own        *)
(* certificate names an authority, which the CRL then copies.              *)
LEMMA CrlNames ==
  ASSUME NEW issuer,
         ValuesOf(ExtensionsOf(issuer), Authority) \subseteq {KeyIdentifier(issuer.tbs.key)}
  PROVE  ValuesOf(Carried(CrlNew(issuer).tbs), Authority) = {KeyIdentifier(issuer.tbs.key)}
<1> DEFINE number == ToExtension("cRLNumber", <<>>, issuer.tbs.subject)
           names == ToExtension(Authority, CrlAuthority(issuer), issuer.tbs.subject)
           named == Places(ExtensionsOf(issuer), Authority)
<1>1. Carried(CrlNew(issuer).tbs) = <<number, names>>
  BY DEF Carried, ExtensionsOf, CrlNew, Authority
<1>2. number.id = "cRLNumber" /\ names.id = Authority /\ names.value = CrlAuthority(issuer)
  BY DEF ToExtension
<1> HIDE DEF number, names
<1>3. Places(<<number, names>>, Authority) = {2}
  BY <1>2 DEF Places, Authority
<1>4. ValuesOf(<<number, names>>, Authority) = {CrlAuthority(issuer)}
  BY <1>2, <1>3 DEF ValuesOf
<1>5. CrlAuthority(issuer) = KeyIdentifier(issuer.tbs.key)
  <2>1. CASE named = {}
    BY <2>1 DEF CrlAuthority, Authority
  <2>2. CASE named # {}
    <3> DEFINE at == CHOOSE i \in named : TRUE
    <3>1. CrlAuthority(issuer) = ExtensionsOf(issuer)[at].value
      BY <2>2 DEF CrlAuthority, Authority
    <3>2. at \in named
      BY <2>2
    <3> HIDE DEF at, named
    <3>3. ExtensionsOf(issuer)[at].value \in ValuesOf(ExtensionsOf(issuer), Authority)
      BY <3>2 DEF ValuesOf, named
    <3> QED
      BY <3>1, <3>3
  <2> QED
    BY <2>1, <2>2
<1> QED
  BY <1>1, <1>4, <1>5

(* The authority that a certificate or a CRL names is the key of its       *)
(* issuer, as the issuer's own certificate identifies it.                  *)
THEOREM KeyIdentifiers == Spec => []KeyIdentifiersChain
<1>1. ASSUME SoundInv PROVE KeyIdentifiersChain
  <2>1. \A i \in DOMAIN issued : IdentifiersIn(issued[i])
    BY <1>1 DEF SoundInv, ProductsAreSound, ProductSound
  <2>2. \A i \in DOMAIN issued :
          IsCertificate(issued[i]) /\ FinalizedOnce(issued[i].log) =>
            issued[i].body.signature = issued[i].signature.by
    BY <1>1, <2>1 DEF SoundInv, SignatureInv, SignatureFits, SignatureFitsOn, Signatory, IdentifiersIn, IsCertificate
  <2>3. \A p : BodyExtensions(p) = Carried(p.body)
    BY DEF BodyExtensions, Carried
  <2>4. ASSUME NEW i \in DOMAIN issued, IsCertificate(issued[i]), FinalizedOnce(issued[i].log),
               ~OwnIdentifier(issued[i].log)
        PROVE  Identified(issued[i].for.profile.name, issued[i].body, issued[i].signature.by)
    BY <2>1, <2>2, <2>4 DEF IdentifiersIn
  <2>5. ASSUME NEW i \in DOMAIN issued, NEW j \in DOMAIN issued,
               IsIssuerOf(issued[j], issued[i]), ~OwnIdentifier(issued[j].log)
        PROVE  ValuesOf(BodyExtensions(issued[j]), Subject) = {KeyIdentifier(issued[i].signature.by)}
    <3>1. /\ IsCertificate(issued[j]) /\ issued[j].body.key = issued[i].signature.by
          /\ ValuesOf(BodyExtensions(issued[j]), Subject) # {}
      BY <2>5 DEF IsIssuerOf, Has, ValuesOf, Subject
    <3>2. ValuesOf(BodyExtensions(issued[j]), Subject) \subseteq {KeyIdentifier(issued[j].body.key)}
      BY <2>1, <2>5, <3>1 DEF IdentifiersIn
    <3> QED
      BY <3>1, <3>2
  <2>6. ASSUME NEW i \in DOMAIN issued, issued[i].type = "Crl",
               ValuesOf(ExtensionsOf([tbs |-> issued[i].for.tbs]), Authority)
                 \subseteq {KeyIdentifier(issued[i].for.tbs.key)}
        PROVE  ValuesOf(BodyExtensions(issued[i]), Authority) = {KeyIdentifier(issued[i].for.tbs.key)}
    <3> DEFINE p == issued[i]
    <3>1. p.body.extensions = CrlNew(p.for).tbs.extensions
      BY <2>1, <2>6 DEF IdentifiersIn
    <3>2. Carried(p.body) = Carried(CrlNew(p.for).tbs)
      BY <3>1 DEF Carried, ExtensionsOf
    <3>3. ExtensionsOf([tbs |-> p.for.tbs]) = ExtensionsOf(p.for)
      BY DEF ExtensionsOf
    <3>4. ValuesOf(ExtensionsOf(p.for), Authority) \subseteq {KeyIdentifier(p.for.tbs.key)}
      BY <2>6, <3>3
    <3>5. ValuesOf(Carried(CrlNew(p.for).tbs), Authority) = {KeyIdentifier(p.for.tbs.key)}
      BY <3>4, CrlNames
    <3> QED
      BY <2>3, <3>2, <3>5
  <2>7. \A i \in DOMAIN issued : 1 .. i - 1 \subseteq DOMAIN issued
    BY <1>1, SequenceShape DEF SoundInv, SignatureInv, Shape
  <2> QED
    BY <2>3, <2>4, <2>5, <2>6, <2>7 DEF KeyIdentifiersChain, Identified, Authority, Subject
<1> QED
  BY <1>1, Soundness, PTL

================================================================================
