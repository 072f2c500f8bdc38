-------------------------------- MODULE X509Schema --------------------------------
(***************************************************************************)
(* The declarations of spki and x509-cert: certificates, names,            *)
(* extensions, requests, CRLs and trust anchors.                           *)
(***************************************************************************)
EXTENDS Asn1Schema

--------------------------------------------------------------------------------
(* spki *)
AlgorithmIdentifier ==
  Record(<<F("oid", ObjectIdentifier), Optional(F("parameters", AnyValue))>>)
SubjectPublicKeyInfo ==
  Record(<<F("algorithm", The("AlgorithmIdentifier")),
           F("subject_public_key", BitString)>>)

--------------------------------------------------------------------------------
(* Names and attributes *)
Attribute == Record(<<F("oid", ObjectIdentifier), F("values", SetOf(AnyValue))>>)
Attributes == SetOf(The("Attribute"))
AttributeTypeAndValue == Record(<<F("oid", ObjectIdentifier), F("value", AnyValue)>>)
RelativeDistinguishedName == SetOf(The("AttributeTypeAndValue"))
RdnSequence == SequenceOf(The("RelativeDistinguishedName"))
Name == RdnSequence

DirectoryString ==
  Choice(<<F("PrintableString", PrintableString), F("TeletexString", TeletexString),
           F("Utf8String", Utf8String), F("BmpString", BmpString)>>)
EdiPartyName ==
  Record(<<Optional(Explicit(0, F("name_assigner", The("DirectoryString")))),
           Explicit(1, F("party_name", The("DirectoryString")))>>)
OtherName ==
  Record(<<F("type_id", ObjectIdentifier), Explicit(0, F("value", AnyValue))>>)
HardwareModuleName ==
  Record(<<F("hw_type", ObjectIdentifier), F("hw_serial_num", OctetString_)>>)

GeneralName ==
  Choice(<<Constructed(Implicit(0, F("OtherName", The("OtherName")))),
           Implicit(1, F("Rfc822Name", Ia5String)),
           Implicit(2, F("DnsName", Ia5String)),
           Constructed(Explicit(4, F("DirectoryName", The("Name")))),
           Constructed(Implicit(5, F("EdiPartyName", The("EdiPartyName")))),
           Implicit(6, F("UniformResourceIdentifier", Ia5String)),
           Implicit(7, F("IpAddress", OctetString_)),
           Implicit(8, F("RegisteredId", ObjectIdentifier))>>)
GeneralNames == SequenceOf(The("GeneralName"))
DistributionPointName ==
  Choice(<<Constructed(Implicit(0, F("FullName", The("GeneralNames")))),
           Constructed(Implicit(1, F("NameRelativeToCRLIssuer", The("RelativeDistinguishedName"))))>>)

--------------------------------------------------------------------------------
(* Extensions *)
Extension ==
  Record(<<F("extn_id", ObjectIdentifier), Default(F("critical", BOOLEAN_), <<0>>),
           F("extn_value", OctetString_)>>)
Extensions == SequenceOf(The("Extension"))

FlagSet == BitString
KeyUsage == FlagSet
ReasonFlags == FlagSet
SubjectKeyIdentifier == OctetString_
SubjectAltName == GeneralNames
IssuerAltName == GeneralNames
SubjectDirectoryAttributes == SequenceOf(The("Attribute"))
InhibitAnyPolicy == INTEGER
CrlNumber == INTEGER
BaseCrlNumber == INTEGER
ExtendedKeyUsage == SequenceOf(ObjectIdentifier)
SerialNumber == INTEGER

AuthorityKeyIdentifier ==
  Record(<<Optional(Implicit(0, F("key_identifier", OctetString_))),
           Optional(Implicit(1, F("authority_cert_issuer", The("GeneralNames")))),
           Optional(Implicit(2, F("authority_cert_serial_number", SerialNumber)))>>)
AccessDescription ==
  Record(<<F("access_method", ObjectIdentifier),
           F("access_location", The("GeneralName"))>>)
AuthorityInfoAccessSyntax == SequenceOf(The("AccessDescription"))
SubjectInfoAccessSyntax == SequenceOf(The("AccessDescription"))
BasicConstraints ==
  Record(<<Default(F("ca", BOOLEAN_), <<0>>),
           Optional(F("path_len_constraint", INTEGER))>>)
GeneralSubtree ==
  Record(<<F("base", The("GeneralName")),
           Default(Implicit(0, F("minimum", INTEGER)), <<0>>),
           Optional(Implicit(1, F("maximum", INTEGER)))>>)
NameConstraints ==
  Record(<<Optional(Implicit(0, F("permitted_subtrees", SequenceOf(The("GeneralSubtree"))))),
           Optional(Implicit(1, F("excluded_subtrees", SequenceOf(The("GeneralSubtree")))))>>)
PolicyConstraints ==
  Record(<<Optional(Implicit(0, F("require_explicit_policy", INTEGER))),
           Optional(Implicit(1, F("inhibit_policy_mapping", INTEGER)))>>)
PolicyMapping ==
  Record(<<F("issuer_domain_policy", ObjectIdentifier),
           F("subject_domain_policy", ObjectIdentifier)>>)
PolicyMappings == SequenceOf(The("PolicyMapping"))
PolicyQualifierInfo ==
  Record(<<F("policy_qualifier_id", ObjectIdentifier),
           Optional(F("qualifier", AnyValue))>>)
PolicyInformation ==
  Record(<<F("policy_identifier", ObjectIdentifier),
           Optional(F("policy_qualifiers", SequenceOf(The("PolicyQualifierInfo"))))>>)
CertificatePolicies == SequenceOf(The("PolicyInformation"))
DisplayText == Choice(<<F("Ia5String", Ia5String), F("Utf8String", Utf8String)>>)
UserNotice ==
  Record(<<Optional(F("notice_ref", GeneralizedTime)),
           Optional(F("explicit_text", The("DisplayText")))>>)
NoticeReference ==
  Record(<<F("organization", The("DisplayText")),
           Optional(F("notice_numbers", SequenceOf(INTEGER)))>>)
PrivateKeyUsagePeriod ==
  Record(<<Optional(Implicit(0, F("not_before", GeneralizedTime))),
           Optional(Implicit(1, F("not_after", GeneralizedTime)))>>)
CrlReason == EnumeratedOf(<<0, 1, 2, 3, 4, 5, 6, 8, 9, 10>>)
DistributionPoint ==
  Record(<<Optional(Explicit(0, F("distribution_point", The("DistributionPointName")))),
           Optional(Implicit(1, F("reasons", ReasonFlags))),
           Optional(Implicit(2, F("crl_issuer", The("GeneralNames"))))>>)
CrlDistributionPoints == SequenceOf(The("DistributionPoint"))
FreshestCrl == SequenceOf(The("DistributionPoint"))
IssuingDistributionPoint ==
  LET Flag(n, name) == Default(Implicit(n, F(name, BOOLEAN_)), <<0>>)
  IN  Record(<<Optional(Explicit(0, F("distribution_point", The("DistributionPointName")))),
               Flag(1, "only_contains_user_certs"), Flag(2, "only_contains_ca_certs"),
               Optional(Implicit(3, F("only_some_reasons", ReasonFlags))),
               Flag(4, "indirect_crl"), Flag(5, "only_contains_attribute_certs")>>)
SignedCertificateTimestampList == OctetString_

--------------------------------------------------------------------------------
(* Certificates, requests, CRLs and trust anchors *)
Version == IntegerOf(<<0, 1, 2>>)
Time == Choice(<<F("UtcTime", UtcTime), F("GeneralTime", GeneralizedTime)>>)
Validity == Record(<<F("not_before", Profiled(Time)), F("not_after", Profiled(Time))>>)
TbsCertificate ==
  Record(<<Default(Explicit(0, F("version", Version)), <<0>>),
           F("serial_number", SerialNumber), F("signature", The("AlgorithmIdentifier")),
           F("issuer", The("Name")), F("validity", The("Validity")),
           F("subject", The("Name")),
           F("subject_public_key_info", The("SubjectPublicKeyInfo")),
           Optional(Implicit(1, F("issuer_unique_id", BitString))),
           Optional(Implicit(2, F("subject_unique_id", BitString))),
           Optional(Explicit(3, F("extensions", The("Extensions"))))>>)
Signed(name, T) ==
  Record(<<F(name, T), F("signature_algorithm", The("AlgorithmIdentifier")),
           F("signature", BitString)>>)
Certificate == Signed("tbs_certificate", The("TbsCertificate"))
PkiPath == SequenceOf(The("Certificate"))

RequestVersion == IntegerOf(<<0>>)
CertReqInfo ==
  Record(<<F("version", RequestVersion), F("subject", The("Name")),
           F("public_key", The("SubjectPublicKeyInfo")),
           Implicit(0, F("attributes", The("Attributes")))>>)
CertReq == Signed("info", The("CertReqInfo"))
ExtensionReq == SequenceOf(The("Extension"))

RevokedCert ==
  Record(<<F("serial_number", SerialNumber), F("revocation_date", The("Time")),
           Optional(F("crl_entry_extensions", The("Extensions")))>>)
TbsCertList ==
  Record(<<F("version", Version), F("signature", The("AlgorithmIdentifier")),
           F("issuer", The("Name")),
           F("this_update", The("Time")), Optional(F("next_update", The("Time"))),
           Optional(F("revoked_certificates", SequenceOf(The("RevokedCert")))),
           Optional(Explicit(0, F("crl_extensions", The("Extensions"))))>>)
CertificateList == Signed("tbs_cert_list", The("TbsCertList"))

AnchorVersion == IntegerOf(<<0>>)
CertPathControls ==
  Record(<<F("ta_name", The("Name")),
           Optional(Implicit(0, F("certificate", The("Certificate")))),
           Optional(Implicit(1, F("policy_set", The("CertificatePolicies")))),
           Optional(Implicit(2, F("policy_flags", FlagSet))),
           Optional(Implicit(3, F("name_constr", The("NameConstraints")))),
           Optional(Implicit(4, F("path_len_constraint", INTEGER)))>>)
TrustAnchorInfo ==
  Record(<<Default(F("version", AnchorVersion), <<0>>),
           F("pub_key", The("SubjectPublicKeyInfo")),
           F("key_id", OctetString_), Optional(F("ta_title", Utf8String)),
           Optional(F("cert_path", The("CertPathControls"))),
           Optional(Explicit(1, F("extensions", The("Extensions")))),
           Optional(Implicit(2, F("ta_title_lang_tag", Utf8String)))>>)
TrustAnchorChoice ==
  Choice(<<F("Certificate", The("Certificate")),
           Constructed(Explicit(1, F("TbsCertificate", The("TbsCertificate")))),
           Constructed(Explicit(2, F("TaInfo", The("TrustAnchorInfo"))))>>)

--------------------------------------------------------------------------------
(***************************************************************************)
(* The declarations of pkcs1, pkcs8, sec1, pkcs5 and pkcs12: keys, and the *)
(* parameters of encryption with a password.                               *)
(***************************************************************************)

(* RSA keys and parameters: version 0 has no other primes, version 1 has.  *)
RsaPublicKey == Record(<<F("modulus", INTEGER), F("public_exponent", INTEGER)>>)
OtherPrimeInfo ==
  Record(<<F("prime", INTEGER), F("exponent", INTEGER), F("coefficient", INTEGER)>>)
OtherPrimeInfos == SequenceOf(The("OtherPrimeInfo"))
RsaPrivateKey ==
  LET Version_(version, others) ==
        Record(<<F("version", IntegerOf(<<version>>)), F("modulus", INTEGER),
                 F("public_exponent", INTEGER), F("private_exponent", INTEGER),
                 F("prime1", INTEGER), F("prime2", INTEGER), F("exponent1", INTEGER),
                 F("exponent2", INTEGER), F("coefficient", INTEGER)>> \o others)
  IN  OneOf(<<Version_(0, <<>>),
              Version_(1, <<F("other_prime_infos", The("OtherPrimeInfos"))>>)>>)

NULL_PARAMETERS == Ok(Leaf(Null.tag, <<>>))
SHA_1_AI == <<Ok(<<1>>), NULL_PARAMETERS>>
MaskGen ==
  Record(<<F("oid", ObjectIdentifier),
           Optional(F("parameters", The("AlgorithmIdentifier")))>>)
HashAndMask ==
  <<Default(Explicit(0, F("hash", The("AlgorithmIdentifier"))), SHA_1_AI),
    Default(Explicit(1, F("mask_gen", The("MaskGen"))), <<Ok(<<1>>), Ok(SHA_1_AI)>>)>>
SALT_LEN_DEFAULT == <<20>>
TrailerField == IntegerOf(<<1>>)
RsaPssParams ==
  Record(HashAndMask \o
         <<Default(Explicit(2, F("salt_len", INTEGER)), SALT_LEN_DEFAULT),
           Default(Explicit(3, F("trailer_field", TrailerField)), <<1>>)>>)
RsaOaepParams ==
  Record(HashAndMask \o
         <<Default(Explicit(2, F("p_source", The("AlgorithmIdentifier"))),
                   <<Ok(<<1>>), Ok(Leaf(OctetString_.tag, <<>>))>>)>>)

--------------------------------------------------------------------------------
(* Private keys: version 1 has a public key, version 0 has none.           *)
PrivateKeyInfo ==
  LET Version_(version, presence(_)) ==
        Extensible(Record(<<F("version", IntegerOf(<<version>>)),
                            F("algorithm", The("AlgorithmIdentifier")),
                            F("private_key", OctetString_),
                            Skipped(Implicit(0, F("attributes", SequenceRef))),
                            presence(Implicit(1, F("public_key", BitString)))>>))
  IN  OneOf(<<Version_(0, Forbidden), Version_(1, LAMBDA f : f)>>)
EcPrivateKey ==
  Record(<<F("version", IntegerOf(<<1>>)), F("private_key", OctetString_),
           Optional(Explicit(0, F("parameters", ObjectIdentifier))),
           Optional(Explicit(1, F("public_key", BitString)))>>)

--------------------------------------------------------------------------------
(* pkcs5: an AlgorithmIdentifier whose parameters are those of its OID.    *)
With(oids, parameters) ==
  Record(<<F("oid", OidOf(oids)), F("parameters", parameters)>>)
Pbes1Oids == <<11, 12>>
Pbes1Parameters == Record(<<F("salt", OctetString_), F("iteration_count", INTEGER)>>)
Pbes1Algorithm == With(Pbes1Oids, The("Pbes1Parameters"))

HmacOids == <<21, 22>>
Pbkdf2Prf == Record(<<F("oid", OidOf(HmacOids)), Implied(F("parameters", Null), <<>>)>>)
Pbkdf2Params ==
  Record(<<F("salt", OctetString_), F("iteration_count", INTEGER),
           Optional(F("key_length", INTEGER)),
           Default(F("prf", The("Pbkdf2Prf")), <<Ok(<<21>>), Ok(<<>>)>>)>>)
ScryptParams ==
  Record(<<F("salt", OctetString_), F("cost_parameter", INTEGER),
           F("block_size", INTEGER),
           F("parallelization", INTEGER), Optional(F("key_length", INTEGER))>>)
Kdf == OneOf(<<With(<<31>>, The("Pbkdf2Params")), With(<<32>>, The("ScryptParams"))>>)
CipherOids == <<41, 42>>
Pbes2EncryptionScheme == With(CipherOids, OctetString_)
Pbes2Parameters ==
  Record(<<F("kdf", The("Kdf")), F("encryption", The("Pbes2EncryptionScheme"))>>)
EncryptionScheme == OneOf(<<With(<<51>>, The("Pbes2Parameters")), Pbes1Algorithm>>)
EncryptedPrivateKeyInfo ==
  Record(<<F("encryption_algorithm", The("EncryptionScheme")),
           F("encrypted_data", OctetString_)>>)

--------------------------------------------------------------------------------
(* pkcs12                                                                  *)
Bag(id, value) ==
  Record(<<F(id, ObjectIdentifier), Explicit(0, F(value, OctetString_))>>)
CertBag == Bag("cert_id", "cert_value")
CrlBag == Bag("crl_id", "crl_value")
DigestInfo ==
  Record(<<F("algorithm", The("AlgorithmIdentifier")), F("digest", OctetString_)>>)
MacData ==
  Record(<<F("mac", The("DigestInfo")), F("mac_salt", OctetString_),
           Default(F("iterations", INTEGER), <<1>>)>>)
Pkcs12PbeParams == Record(<<F("salt", OctetString_), F("iterations", INTEGER)>>)
Pkcs12Pbkdf2Params ==
  Record(<<F("salt", OctetString_), F("iteration_count", INTEGER),
           Optional(F("key_length", INTEGER)), F("prf", The("AlgorithmIdentifier"))>>)
Pkcs12EncryptedPrivateKeyInfo ==
  Record(<<F("encryption_algorithm", The("AlgorithmIdentifier")),
           F("encrypted_data", OctetString_)>>)
Pbes2Params ==
  Record(<<F("kdf", The("AlgorithmIdentifier")),
           F("encryption", The("AlgorithmIdentifier"))>>)
Pfx ==
  Record(<<F("version", IntegerOf(<<3>>)),
           F("auth_safe", Record(<<F("content_type", ObjectIdentifier),
                                   Explicit(0, F("content", AnyValue))>>)),
           Optional(F("mac_data", The("MacData")))>>)
Pkcs12PrivateKeyInfo ==
  Record(<<F("version", IntegerOf(<<0>>)), F("algorithm", The("AlgorithmIdentifier")),
           F("private_key", OctetString_),
           Optional(Implicit(0, F("attributes", The("Attributes"))))>>)
================================================================================
