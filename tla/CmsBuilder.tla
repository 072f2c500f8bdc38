-------------------------------- MODULE CmsBuilder -------------------------------
(***************************************************************************)
(* The builders of CMS messages: SignerInfo, SignedData and EnvelopedData, *)
(* as functions.  An attribute is a number: its type times ten and its     *)
(* value, so that numbers are in the order of the encodings.  Cryptography *)
(* is symbolic.  (cms/src/builder.rs, builder/kari.rs, builder/utils/kw.rs)*)
(***************************************************************************)
EXTENDS Integers, Sequences, Functions
LOCAL INSTANCE SequencesExt
S == INSTANCE SetOf

TypeOf(attribute) == attribute \div 10
ContentType == 1
SigningTime == 2
MessageDigest == 3
ContentTypeOf(type) == 10 * ContentType + (IF type = "data" THEN 1 ELSE 2)
TwoContentTypes == 10 * ContentType + 3
DigestOf(octets) == 10 * MessageDigest + octets

OptionAppend(option, item) == IF option = <<>> THEN << <<item>> >> ELSE <<Append(option[1], item)>>
Items(option) == IF option = <<>> THEN <<>> ELSE option[1]

--------------------------------------------------------------------------------
(* get_hasher goes by the name that the database of OIDs has for it.       *)
NameInDb(digest) ==
  CASE digest = "sha1" -> "id-sha1"
    [] digest = "sha256" -> "id-sha256"
    [] digest = "sha3-256" -> "id-sha3-256"
    [] digest = "md5" -> "id-md5"
Hashers == {"id-sha1", "id-sha224", "id-sha256", "id-sha384", "id-sha512",
            "id-sha-3-224", "id-sha-3-256", "id-sha-3-384", "id-sha-3-512"}
HasHasher(digest) == NameInDb(digest) \in Hashers

(* SignerInfoBuilder: `content` and `external` are optional octets, a      *)
(* number from 1 to 9 each; the digest of octets is known by them.         *)
SignerInfoNew(sid, digest, content_type, content, external) ==
  [type |-> "SignerInfo", sid |-> sid, digest |-> digest, content_type |-> content_type,
   content |-> content, external |-> external, signed |-> <<>>, unsigned |-> <<>>]
AddSigned(b, a) == [b EXCEPT !.signed = OptionAppend(@, a)]
AddUnsigned(b, a) == [b EXCEPT !.unsigned = OptionAppend(@, a)]
SignerVersion(sid) == IF sid = "issuer" THEN 1 ELSE 3

DigestError(b) ==
  \/ b.external # <<>> /\ b.content # <<>>
  \/ b.external = <<>> /\ b.content # <<>> /\ ~HasHasher(b.digest)
(* After the message digest is in: the content type that is there must be  *)
(* the one and only; if none is there it is added.                         *)
IsContentType(a) == TypeOf(a) = ContentType
ContentTypes(b) == SelectSeq(b.signed[1], IsContentType)
WithContentType(b) ==
  IF ContentTypes(b) = <<>> THEN AddSigned(b, ContentTypeOf(b.content_type)) ELSE b
ContentTypeError(b) ==
  ContentTypes(b) # <<>> /\ ContentTypes(b)[1] # ContentTypeOf(b.content_type)

(* Faulty: the content type is added although one is there.                *)
SignerInfoFinalize_twice(b) ==
  LET octets == b.external \o b.content
      begun == [b EXCEPT !.signed = <<Items(@)>>]
      digested == AddSigned(begun, DigestOf(octets[1]))
  IN  CASE DigestError(b) -> [ok |-> FALSE, b |-> b]
        [] octets = <<>> -> [ok |-> TRUE, b |-> begun]
        [] OTHER -> [ok |-> TRUE, b |-> AddSigned(digested, ContentTypeOf(b.content_type))]
(* finalize: whether it succeeds, and the builder it leaves either way.    *)
SignerInfoFinalize(b) ==
  LET octets == b.external \o b.content
      begun == [b EXCEPT !.signed = <<Items(@)>>]
      digested == AddSigned(begun, DigestOf(octets[1]))
  IN  CASE DigestError(b) -> [ok |-> FALSE, b |-> b]
        [] octets = <<>> -> [ok |-> TRUE, b |-> begun]
        [] ContentTypeError(digested) -> [ok |-> FALSE, b |-> digested]
        [] OTHER -> [ok |-> TRUE, b |-> WithContentType(digested)]
SignedAttributes(b) == S!SetFrom(Items(b.signed))

(* Faulty: the attributes go out in the order they were added.             *)
SignerInfoProduct_unsorted(b, algorithm, signature) ==
  [type |-> "SignerInfo", version |-> SignerVersion(b.sid), sid |-> b.sid, digest |-> b.digest,
   signed |-> b.signed, unsigned |-> b.unsigned, algorithm |-> algorithm, signature |-> signature]
Sorted(option) == IF option = <<>> THEN <<>> ELSE <<S!SetFrom(option[1])>>
SignerInfoProduct(b, algorithm, signature) ==
  [type |-> "SignerInfo", version |-> SignerVersion(b.sid), sid |-> b.sid, digest |-> b.digest,
   signed |-> Sorted(b.signed), unsigned |-> Sorted(b.unsigned),
   algorithm |-> algorithm, signature |-> signature]

--------------------------------------------------------------------------------
(* SignedDataBuilder.                                                      *)
SignedDataNew(content_type, content) ==
  [type |-> "SignedData", content_type |-> content_type, content |-> content,
   digests |-> <<>>, certificates |-> <<>>, crls |-> <<>>, infos |-> <<>>]
AddDigest(b, digest) == [b EXCEPT !.digests = Append(@, digest)]
AddCertificate(b, certificate) == [b EXCEPT !.certificates = OptionAppend(@, certificate)]
AddCrl(b, crl) == [b EXCEPT !.crls = OptionAppend(@, crl)]

(* add_signer_info: build the SignerInfo, let the callback alter it, and   *)
(* keep it unless either fails.                                            *)
BuildSignerInfo(info, signer) ==
  LET done == SignerInfoFinalize(info) IN
  IF done.ok
  THEN <<SignerInfoProduct(done.b, signer, [by |-> signer, over |-> SignedAttributes(done.b)])>>
  ELSE <<>>
Stamped(info) == [info EXCEPT !.unsigned = OptionAppend(@, 10 * SigningTime)]
KeepSignerInfo(b, info) == [b EXCEPT !.infos = Append(@, info)]
AddSignerInfo(b, info, signer, callback) ==
  LET built == BuildSignerInfo(info, signer) IN
  IF built = <<>> \/ callback = "fails" THEN b
  ELSE KeepSignerInfo(b, IF callback = "stamps" THEN Stamped(built[1]) ELSE built[1])

SomeOther(option) == \E i \in DOMAIN Items(option) : Items(option)[i] = "other"
SignedDataVersion(b) ==
  IF SomeOther(b.certificates) \/ SomeOther(b.crls) THEN 5
  ELSE IF (\E i \in DOMAIN b.infos : b.infos[i].version = 3) \/ b.content_type # "data" THEN 3
  ELSE 1
SignedDataProduct(b) ==
  [type |-> "SignedDataMessage", version |-> SignedDataVersion(b), content_type |-> b.content_type,
   content |-> b.content, digests |-> b.digests, certificates |-> b.certificates,
   crls |-> b.crls, infos |-> b.infos]

--------------------------------------------------------------------------------
(* EnvelopedDataBuilder.  A content encryption key is a sequence of octets.*)
KeyLength(algorithm) ==
  CASE algorithm = "aes128" -> 16 [] algorithm = "aes192" -> 24 [] algorithm = "aes256" -> 32
NewKey(algorithm) == [i \in 1 .. KeyLength(algorithm) |-> 3 * i]

EnvelopedNew(originator, algorithm, attributes) ==
  [type |-> "EnvelopedData", originator |-> originator, algorithm |-> algorithm,
   attributes |-> attributes, recipients |-> <<>>]
AddRecipient(b, recipient) == [b EXCEPT !.recipients = Append(@, recipient)]

RecipientVersion(r) ==
  CASE r.kind = "ktri" -> (IF r.rid = "issuer" THEN 0 ELSE 2)
    [] r.kind = "kari" -> 3
    [] r.kind = "kekri" -> 4
    [] r.kind = "pwri" -> 0

(* Faulty: the key's own octets are the check value.                       *)
pad_content_encryption_key_plain(key, block) ==
  <<Len(key), key[1], key[2], key[3]>> \o key
pad_content_encryption_key(key, block) ==
  LET missing == 2 * block - 4 - Len(key) IN
  <<Len(key), 255 - key[1], 255 - key[2], 255 - key[3]>> \o key
    \o [i \in 1 .. (IF missing > 0 THEN missing ELSE 0) |-> 0]

(* The key agreement: the derived key is put where the wrapped key goes,   *)
(* and the content encryption key wrapped with the key that init_kek gave. *)
SharedSecret(r) == <<"ecdh", r.rid>>
InfoKey(r) == [secret |-> SharedSecret(r), wrap |-> r.wrap]
init_kek == [secret |-> <<"zero", "zero">>, wrap |-> "zero"]
try_wrap(kek, key, room) ==
  IF Len(key) + 8 = room THEN <<[under |-> kek, key |-> key]>> ELSE <<>>
KeyAgreement(r, key) ==
  LET kek == init_kek
      derived == [under |-> InfoKey(r), key |-> <<>>]      \* into `wrapped`
      wrapped == try_wrap(kek, key, r.size + 8)            \* over it
  IN  wrapped

(* build_with_rng of each kind: an encrypted key, or an error.             *)
RecipientInfo(r, enc_key) == [kind |-> r.kind, version |-> RecipientVersion(r), to |-> r, enc_key |-> enc_key]
BuildRecipient(r, key) ==
  CASE r.kind = "ktri" -> <<RecipientInfo(r, [under |-> r.rid, key |-> key])>>
    [] r.kind = "pwri" -> <<RecipientInfo(r, pad_content_encryption_key(key, r.size))>>
    [] r.kind = "kekri" -> <<>>
    [] r.kind = "kari" ->
         IF KeyAgreement(r, key) = <<>> THEN <<>> ELSE <<RecipientInfo(r, KeyAgreement(r, key)[1])>>

(* Faulty: a password recipient is not taken into account.                 *)
EnvelopedVersion_passwords(b) ==
  LET kinds == {b.recipients[i].kind : i \in DOMAIN b.recipients} IN
  IF b.originator \in {"other certificate", "other crl"} THEN 4
  ELSE IF "ori" \in kinds THEN 3
  ELSE IF b.originator = "none" /\ ~b.attributes
          /\ \A i \in DOMAIN b.recipients : RecipientVersion(b.recipients[i]) = 0 THEN 0
  ELSE 2
EnvelopedVersion(b) ==
  LET kinds == {b.recipients[i].kind : i \in DOMAIN b.recipients} IN
  IF b.originator \in {"other certificate", "other crl"} THEN 4
  ELSE IF "pwri" \in kinds \/ "ori" \in kinds THEN 3
  ELSE IF b.originator = "none" /\ ~b.attributes
          /\ \A i \in DOMAIN b.recipients : RecipientVersion(b.recipients[i]) = 0 THEN 0
  ELSE 2

(* build_with_rng of the message: the recipients in turn; one that fails   *)
(* ends it, one of kind "ori" is a panic.  The infos are a SET OF, which   *)
(* is sorted: first by tags, and those of one kind by encodings that the   *)
(* model does not have, so that any order of these is possible.  (An info  *)
(* that cannot be compared, being too long to write, is a panic as well.)  *)
CanBuild(b) ==
  \A i \in DOMAIN b.recipients :
    b.recipients[i].kind # "ori" /\ BuildRecipient(b.recipients[i], NewKey(b.algorithm)) # <<>>
Tags == [ktri |-> 48, kari |-> 161, kekri |-> 162, pwri |-> 163, ori |-> 164]
(* Where each info comes from: the orders that the sort can put them in.   *)
SortedOrders(b) ==
  {order \in Bijection(DOMAIN b.recipients, DOMAIN b.recipients) :
     \A i, j \in DOMAIN b.recipients :
       i < j => Tags[b.recipients[order[i]].kind] <= Tags[b.recipients[order[j]].kind]}
Recipients(b, key, order) ==
  [i \in DOMAIN b.recipients |-> BuildRecipient(b.recipients[order[i]], key)[1]]
EnvelopedProduct(b, order) ==
  LET key == NewKey(b.algorithm) IN
  [type |-> "EnvelopedDataMessage", version |-> EnvelopedVersion(b), originator |-> b.originator,
   attributes |-> b.attributes, key |-> key, infos |-> Recipients(b, key, order)]
================================================================================
