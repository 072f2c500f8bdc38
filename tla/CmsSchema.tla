--------------------------------- MODULE CmsSchema ---------------------------------
(***************************************************************************)
(* The declarations of cms: content types, signer and recipient infos,     *)
(* symmetric key packages and timestamped data.                            *)
(***************************************************************************)
EXTENDS X509Schema

CmsVersion == IntegerOf(<<0, 1, 2, 3, 4, 5>>)
ContentInfo ==
  Record(<<F("content_type", ObjectIdentifier), Explicit(0, F("content", AnyValue))>>)
IssuerAndSerialNumber ==
  Record(<<F("issuer", The("Name")), F("serial_number", SerialNumber)>>)

(* What identifies a certificate: its issuer and number, or a key.         *)
Identifier(others) ==
  Choice(<<F("IssuerAndSerialNumber", The("IssuerAndSerialNumber"))>> \o others)
ByKey == Implicit(0, F("SubjectKeyIdentifier", SubjectKeyIdentifier))

--------------------------------------------------------------------------------
(* Certificates and revocation information                                 *)
OtherCertificateFormat ==
  Record(<<F("other_cert_format", ObjectIdentifier), F("other_cert", AnyValue)>>)
CertificateChoices ==
  ByEncoding(Choice(<<F("Certificate", The("Certificate")),
                      Constructed(Explicit(3, F("Other", The("OtherCertificateFormat"))))>>))
CertificateSet == SetOf(The("CertificateChoices"))
OtherRevocationInfoFormat ==
  Record(<<F("other_format", The("AlgorithmIdentifier")), F("other", AnyValue)>>)
RevocationInfoChoice ==
  ByEncoding(Choice(<<F("Crl", The("CertificateList")),
                      Constructed(Implicit(1, F("Other", The("OtherRevocationInfoFormat"))))>>))
RevocationInfoChoices == SetOf(The("RevocationInfoChoice"))
OriginatorInfo ==
  Record(<<Optional(Implicit(0, F("certs", The("CertificateSet")))),
           Optional(Implicit(1, F("crls", The("RevocationInfoChoices"))))>>)

--------------------------------------------------------------------------------
(* Signed and digested data                                                *)
EncapsulatedContentInfo ==
  Record(<<F("econtent_type", ObjectIdentifier),
           Optional(Explicit(0, F("econtent", AnyValue)))>>)
SignerIdentifier == ByEncoding(Identifier(<<ByKey>>))
SignerInfo ==
  Record(<<F("version", CmsVersion), F("sid", The("SignerIdentifier")),
           F("digest_alg", The("AlgorithmIdentifier")),
           Optional(Implicit(0, F("signed_attrs", The("Attributes")))),
           F("signature_algorithm", The("AlgorithmIdentifier")),
           F("signature", OctetString_),
           Optional(Implicit(1, F("unsigned_attrs", The("Attributes"))))>>)
SignerInfos == SetOf(The("SignerInfo"))
DigestAlgorithmIdentifiers == SetOf(The("AlgorithmIdentifier"))
SignedData ==
  Record(<<F("version", CmsVersion),
           F("digest_algorithms", The("DigestAlgorithmIdentifiers")),
           F("encap_content_info", The("EncapsulatedContentInfo")),
           Optional(Implicit(0, F("certificates", The("CertificateSet")))),
           Optional(Implicit(1, F("crls", The("RevocationInfoChoices")))),
           F("signer_infos", The("SignerInfos"))>>)
DigestedData ==
  Record(<<F("version", CmsVersion), F("digest_alg", The("AlgorithmIdentifier")),
           F("encap_content_info", The("EncapsulatedContentInfo")),
           F("digest", OctetString_)>>)
CompressedData ==
  Record(<<F("version", CmsVersion), F("compression_alg", The("AlgorithmIdentifier")),
           F("encap_content_info", The("EncapsulatedContentInfo"))>>)

--------------------------------------------------------------------------------
(* Recipients                                                              *)
RecipientIdentifier == Identifier(<<ByKey>>)
KeyTransRecipientInfo ==
  Record(<<F("version", CmsVersion), F("rid", The("RecipientIdentifier")),
           F("key_enc_alg", The("AlgorithmIdentifier")), F("enc_key", OctetString_)>>)
OriginatorPublicKey ==
  Record(<<F("algorithm", The("AlgorithmIdentifier")), F("public_key", BitString)>>)
OriginatorIdentifierOrKey ==
  Identifier(<<ByKey,
               Constructed(Implicit(1, F("OriginatorKey", The("OriginatorPublicKey"))))>>)
KeyIdentifier(name, T) ==
  Record(<<F(name, T), Optional(F("date", GeneralizedTime)),
           Optional(F("other", The("Attribute")))>>)
RecipientKeyIdentifier == KeyIdentifier("subject_key_identifier", SubjectKeyIdentifier)
KeyAgreeRecipientIdentifier ==
  Identifier(<<Constructed(Implicit(0, F("RKeyId", The("RecipientKeyIdentifier"))))>>)
RecipientEncryptedKey ==
  Record(<<F("rid", The("KeyAgreeRecipientIdentifier")), F("enc_key", OctetString_)>>)
KeyAgreeRecipientInfo ==
  Record(<<F("version", CmsVersion),
           Explicit(0, F("originator", The("OriginatorIdentifierOrKey"))),
           Optional(Explicit(1, F("ukm", OctetString_))),
           F("key_enc_alg", The("AlgorithmIdentifier")),
           F("recipient_enc_keys", SequenceOf(The("RecipientEncryptedKey")))>>)
KekIdentifier == KeyIdentifier("kek_identifier", OctetString_)
KekRecipientInfo ==
  Record(<<F("version", CmsVersion), F("kek_id", The("KekIdentifier")),
           F("key_enc_alg", The("AlgorithmIdentifier")), F("enc_key", OctetString_)>>)
PasswordRecipientInfo ==
  Record(<<F("version", CmsVersion),
           Optional(Implicit(0, F("key_derivation_alg", The("AlgorithmIdentifier")))),
           F("key_enc_alg", The("AlgorithmIdentifier")), F("enc_key", OctetString_)>>)
OtherRecipientInfo ==
  Record(<<F("ori_type", ObjectIdentifier), F("ori_value", AnyValue)>>)
RecipientInfo ==
  ByEncoding(Choice(<<F("Ktri", The("KeyTransRecipientInfo")),
                      Constructed(Implicit(1, F("Kari", The("KeyAgreeRecipientInfo")))),
                      Constructed(Implicit(2, F("Kekri", The("KekRecipientInfo")))),
                      Constructed(Implicit(3, F("Pwri", The("PasswordRecipientInfo")))),
                      Constructed(Implicit(4, F("Ori", The("OtherRecipientInfo"))))>>))
RecipientInfos == SetOf(The("RecipientInfo"))
KemRecipientInfo ==
  Record(<<F("version", CmsVersion), F("rid", The("RecipientIdentifier")),
           F("kem", The("AlgorithmIdentifier")),
           F("kem_ct", OctetString_), F("kdf", The("AlgorithmIdentifier")),
           F("kek_length", INTEGER),
           Optional(Explicit(0, F("ukm", OctetString_))),
           F("wrap", The("AlgorithmIdentifier")),
           F("encrypted_key", OctetString_)>>)
CmsOriForKemOtherInfo ==
  Record(<<F("wrap", The("AlgorithmIdentifier")), F("kek_length", INTEGER),
           Optional(Explicit(0, F("ukm", OctetString_)))>>)

--------------------------------------------------------------------------------
(* Encrypted and authenticated data                                        *)
EncryptedContentInfo ==
  Record(<<F("content_type", ObjectIdentifier),
           F("content_enc_alg", The("AlgorithmIdentifier")),
           Optional(Implicit(0, F("encrypted_content", OctetString_)))>>)
UnprotectedAttributes ==
  Optional(Implicit(1, F("unprotected_attrs", The("Attributes"))))
EncryptedData ==
  Record(<<F("version", CmsVersion), F("enc_content_info", The("EncryptedContentInfo")),
           UnprotectedAttributes>>)
Originator == Optional(Implicit(0, F("originator_info", The("OriginatorInfo"))))
EnvelopedData ==
  Record(<<F("version", CmsVersion), Originator,
           F("recip_infos", The("RecipientInfos")),
           F("encrypted_content", The("EncryptedContentInfo")), UnprotectedAttributes>>)
AuthEnvelopedData ==
  Record(<<F("version", CmsVersion), Originator,
           F("recip_infos", The("RecipientInfos")),
           F("auth_encrypted_content_info", The("EncryptedContentInfo")),
           Optional(Implicit(1, F("auth_attrs", The("Attributes")))),
           F("mac", OctetString_),
           Optional(Implicit(2, F("unauth_attrs", The("Attributes"))))>>)
AuthenticatedData ==
  Record(<<F("version", CmsVersion), Originator,
           F("recip_infos", The("RecipientInfos")),
           F("mac_alg", The("AlgorithmIdentifier")),
           Optional(Implicit(1, F("digest_alg", The("AlgorithmIdentifier")))),
           F("encap_content_info", The("EncapsulatedContentInfo")),
           Optional(Implicit(2, F("auth_attrs", The("Attributes")))),
           F("mac", OctetString_),
           Optional(Implicit(3, F("unauth_attrs", The("Attributes"))))>>)

--------------------------------------------------------------------------------
(* Symmetric key packages; the strings that name a suite, a usage or an    *)
(* encoding are read from a list.                                          *)
Named == Enumerates(12, <<1, 2>>)
OneSymmetricKey ==
  Record(<<F("s_key_attrs", SequenceOf(The("Attribute"))),
           Optional(F("s_key", OctetString_))>>)
SymmetricKeyPackage ==
  Record(<<Default(F("version", IntegerOf(<<1>>)), <<1>>),
           Optional(Implicit(0, F("s_key_pkg_attrs", SequenceOf(The("Attribute"))))),
           F("s_keys", SequenceOf(The("OneSymmetricKey")))>>)
FriendlyName ==
  Record(<<F("friendly_name", Utf8String),
           Optional(F("friendly_name_lang_tag", Utf8String))>>)
ChallengeFormat ==
  Record(<<F("encoding", Named), Default(F("check_digit", BOOLEAN_), <<0>>),
           F("min", INTEGER), F("max", INTEGER)>>)
ResponseFormat ==
  Record(<<F("encoding", Named), F("length", INTEGER),
           Default(F("check_digit", BOOLEAN_), <<0>>)>>)
PSKCAlgorithmParameters ==
  Record(<<F("suite", Utf8String), F("challenge_format", The("ChallengeFormat")),
           F("response_format", The("ResponseFormat"))>>)
ValueMac == Record(<<F("mac_algorithm", Utf8String), F("mac", Utf8String)>>)
PSKCKeyUsages == SequenceOf(Named)
PINPolicy ==
  LET Limit(n, name) == Optional(Implicit(n, F(name, INTEGER)))
  IN  Record(<<Optional(Implicit(0, F("pin_key_id", Utf8String))),
               Implicit(1, F("pin_usage_mode", Named)), Limit(2, "max_failed_attempts"),
               Limit(3, "min_length"), Limit(4, "max_length"),
               Optional(Implicit(5, F("pin_encoding", Named)))>>)

--------------------------------------------------------------------------------
(* Timestamped data.  The variants of Evidence are declared EXPLICIT and   *)
(* not constructed.                                                        *)
MetaData ==
  Record(<<F("hash_protected", BOOLEAN_), Optional(F("file_name", Utf8String)),
           Optional(F("media_type", Ia5String)),
           Optional(F("other_meta_data", The("Attributes")))>>)
TimeStampAndCrl ==
  Record(<<F("time_stamp", The("ContentInfo")),
           Optional(F("crl", The("CertificateList")))>>)
TimeStampTokenEvidence == SequenceOf(The("TimeStampAndCrl"))
EncryptionInfo ==
  Record(<<F("encryption_info_type", ObjectIdentifier),
           F("encryption_info_value", AnyValue)>>)
PartialHashtree == SequenceOf(OctetString_)
ArchiveTimeStamp ==
  Record(<<Optional(Explicit(0, F("digest_algorithm", The("AlgorithmIdentifier")))),
           Optional(Explicit(1, F("attributes", The("Attributes")))),
           Optional(Explicit(2, F("reduced_hashtree", SequenceOf(The("PartialHashtree"))))),
           F("time_stamp", The("ContentInfo"))>>)
ArchiveTimeStampSequence == SequenceOf(SequenceOf(The("ArchiveTimeStamp")))
EvidenceRecord ==
  Record(<<F("version", IntegerOf(<<1>>)),
           F("digest_algorithms", SequenceOf(The("AlgorithmIdentifier"))),
           Optional(Explicit(0, F("crypto_infos", SequenceOf(The("Attribute"))))),
           Optional(Explicit(1, F("encryption_info", The("EncryptionInfo")))),
           F("archive_time_stamp_sequence", The("ArchiveTimeStampSequence"))>>)
OtherEvidence == Record(<<F("oe_type", ObjectIdentifier), F("oe_value", AnyValue)>>)
Evidence ==
  Choice(<<Explicit(0, F("TstEvidence", The("TimeStampTokenEvidence"))),
           Explicit(1, F("ErsEvidence", The("EvidenceRecord"))),
           Explicit(2, F("OtherEvidence", The("OtherEvidence")))>>)
TimeStampedData ==
  Record(<<F("version", IntegerOf(<<1>>)), Optional(F("data_uri", Ia5String)),
           Optional(F("meta_data", The("MetaData"))),
           Optional(F("content", OctetString_)),
           F("temporal_evidence", The("Evidence"))>>)
================================================================================
