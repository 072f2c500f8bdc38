-------------------------------- MODULE MCSchemas --------------------------------
(***************************************************************************)
(* The declared types of x509-cert, cms, crmf, cmpv2, x509-ocsp, x509-tsp, *)
(* gss-api, pkcs1, pkcs5, pkcs8, pkcs12, sec1 and spki.                    *)
(***************************************************************************)
EXTENDS Schemas, PkixSchema

MCTypes ==
  [AlgorithmIdentifier |-> AlgorithmIdentifier,
   SubjectPublicKeyInfo |-> SubjectPublicKeyInfo, Attribute |-> Attribute,
   Attributes |-> Attributes, AttributeTypeAndValue |-> AttributeTypeAndValue,
   RelativeDistinguishedName |-> RelativeDistinguishedName, Name |-> Name,
   DirectoryString |-> DirectoryString, EdiPartyName |-> EdiPartyName,
   OtherName |-> OtherName, HardwareModuleName |-> HardwareModuleName,
   GeneralName |-> GeneralName, GeneralNames |-> GeneralNames,
   DistributionPointName |-> DistributionPointName, Extension |-> Extension,
   Extensions |-> Extensions,
   SubjectDirectoryAttributes |-> SubjectDirectoryAttributes,
   ExtendedKeyUsage |-> ExtendedKeyUsage,
   AuthorityKeyIdentifier |-> AuthorityKeyIdentifier,
   AccessDescription |-> AccessDescription,
   AuthorityInfoAccessSyntax |-> AuthorityInfoAccessSyntax,
   BasicConstraints |-> BasicConstraints, GeneralSubtree |-> GeneralSubtree,
   NameConstraints |-> NameConstraints, PolicyConstraints |-> PolicyConstraints,
   PolicyMapping |-> PolicyMapping, PolicyMappings |-> PolicyMappings,
   PolicyQualifierInfo |-> PolicyQualifierInfo,
   PolicyInformation |-> PolicyInformation,
   CertificatePolicies |-> CertificatePolicies, DisplayText |-> DisplayText,
   UserNotice |-> UserNotice, NoticeReference |-> NoticeReference,
   PrivateKeyUsagePeriod |-> PrivateKeyUsagePeriod,
   DistributionPoint |-> DistributionPoint,
   CrlDistributionPoints |-> CrlDistributionPoints,
   IssuingDistributionPoint |-> IssuingDistributionPoint, Time |-> Time,
   Validity |-> Validity, TbsCertificate |-> TbsCertificate,
   Certificate |-> Certificate, PkiPath |-> PkiPath, CertReqInfo |-> CertReqInfo,
   CertReq |-> CertReq, RevokedCert |-> RevokedCert, TbsCertList |-> TbsCertList,
   CertificateList |-> CertificateList, CertPathControls |-> CertPathControls,
   TrustAnchorInfo |-> TrustAnchorInfo, TrustAnchorChoice |-> TrustAnchorChoice,
   ContentInfo |-> ContentInfo, IssuerAndSerialNumber |-> IssuerAndSerialNumber,
   OtherCertificateFormat |-> OtherCertificateFormat,
   CertificateChoices |-> CertificateChoices, CertificateSet |-> CertificateSet,
   OtherRevocationInfoFormat |-> OtherRevocationInfoFormat,
   RevocationInfoChoice |-> RevocationInfoChoice,
   RevocationInfoChoices |-> RevocationInfoChoices, OriginatorInfo |-> OriginatorInfo,
   EncapsulatedContentInfo |-> EncapsulatedContentInfo,
   SignerIdentifier |-> SignerIdentifier, SignerInfo |-> SignerInfo,
   SignerInfos |-> SignerInfos,
   DigestAlgorithmIdentifiers |-> DigestAlgorithmIdentifiers, SignedData |-> SignedData,
   DigestedData |-> DigestedData, CompressedData |-> CompressedData,
   KeyTransRecipientInfo |-> KeyTransRecipientInfo,
   OriginatorPublicKey |-> OriginatorPublicKey,
   OriginatorIdentifierOrKey |-> OriginatorIdentifierOrKey,
   RecipientKeyIdentifier |-> RecipientKeyIdentifier,
   KeyAgreeRecipientIdentifier |-> KeyAgreeRecipientIdentifier,
   RecipientEncryptedKey |-> RecipientEncryptedKey,
   KeyAgreeRecipientInfo |-> KeyAgreeRecipientInfo, KekIdentifier |-> KekIdentifier,
   KekRecipientInfo |-> KekRecipientInfo,
   PasswordRecipientInfo |-> PasswordRecipientInfo,
   OtherRecipientInfo |-> OtherRecipientInfo, RecipientInfo |-> RecipientInfo,
   RecipientInfos |-> RecipientInfos, KemRecipientInfo |-> KemRecipientInfo,
   CmsOriForKemOtherInfo |-> CmsOriForKemOtherInfo,
   EncryptedContentInfo |-> EncryptedContentInfo, EncryptedData |-> EncryptedData,
   EnvelopedData |-> EnvelopedData, AuthEnvelopedData |-> AuthEnvelopedData,
   AuthenticatedData |-> AuthenticatedData, OneSymmetricKey |-> OneSymmetricKey,
   SymmetricKeyPackage |-> SymmetricKeyPackage, FriendlyName |-> FriendlyName,
   ChallengeFormat |-> ChallengeFormat, ResponseFormat |-> ResponseFormat,
   PSKCAlgorithmParameters |-> PSKCAlgorithmParameters, ValueMac |-> ValueMac,
   PSKCKeyUsages |-> PSKCKeyUsages, PINPolicy |-> PINPolicy, MetaData |-> MetaData,
   TimeStampAndCrl |-> TimeStampAndCrl,
   TimeStampTokenEvidence |-> TimeStampTokenEvidence,
   EncryptionInfo |-> EncryptionInfo, ArchiveTimeStamp |-> ArchiveTimeStamp,
   ArchiveTimeStampSequence |-> ArchiveTimeStampSequence,
   EvidenceRecord |-> EvidenceRecord, OtherEvidence |-> OtherEvidence,
   Evidence |-> Evidence, TimeStampedData |-> TimeStampedData,
   SinglePubInfo |-> SinglePubInfo, PkiPublicationInfo |-> PkiPublicationInfo,
   EncryptedValue |-> EncryptedValue, EncryptedKey |-> EncryptedKey,
   PkiArchiveOptions |-> PkiArchiveOptions, CertId |-> CertId,
   PkMacValue |-> PkMacValue, PopoSigningKeyInputChoice |-> PopoSigningKeyInputChoice,
   PopoSigningKeyInput |-> PopoSigningKeyInput, PopoSigningKey |-> PopoSigningKey,
   POPOPrivKey |-> POPOPrivKey, ProofOfPossession |-> ProofOfPossession,
   PbmParameter |-> PbmParameter, CrmfPrivateKeyInfo |-> CrmfPrivateKeyInfo,
   EncKeyWithIdChoice |-> EncKeyWithIdChoice, EncKeyWithID |-> EncKeyWithID,
   OptionalValidity |-> OptionalValidity, CertTemplate |-> CertTemplate,
   CertRequest |-> CertRequest, CertReqMsg |-> CertReqMsg,
   CertReqMessages |-> CertReqMessages, PkiFreeText |-> PkiFreeText,
   PkiStatusInfo |-> PkiStatusInfo, ErrorMsgContent |-> ErrorMsgContent,
   CertStatus |-> CertStatus, CertConfirmContent |-> CertConfirmContent,
   CertOrEncCert |-> CertOrEncCert, CertifiedKeyPair |-> CertifiedKeyPair,
   KeyRecRepContent |-> KeyRecRepContent, CaKeyUpdAnnContent |-> CaKeyUpdAnnContent,
   RevAnnContent |-> RevAnnContent, CrlAnnContent |-> CrlAnnContent,
   OobCertHash |-> OobCertHash, DhbmParameter |-> DhbmParameter,
   InfoTypeAndValue |-> InfoTypeAndValue, GenMsgContent |-> GenMsgContent,
   PollReqContent |-> PollReqContent, PollRepContentInner |-> PollRepContentInner,
   PollRepContent |-> PollRepContent, Challenge |-> Challenge, Rand |-> Rand,
   PopoDecKeyRespContent |-> PopoDecKeyRespContent, CertResponse |-> CertResponse,
   CertRepMessage |-> CertRepMessage, RevDetails |-> RevDetails,
   RevReqContent |-> RevReqContent, RevRepContent |-> RevRepContent,
   PkiBody |-> PkiBody, PkiHeader |-> PkiHeader, PkiMessage |-> PkiMessage,
   ProtectedPart |-> ProtectedPart, OcspCertId |-> OcspCertId, Request |-> Request,
   TbsRequest |-> TbsRequest, Signature |-> Signature, OcspRequest |-> OcspRequest,
   RevokedInfo |-> RevokedInfo, OcspCertStatus |-> OcspCertStatus,
   SingleResponse |-> SingleResponse, ResponderId |-> ResponderId,
   ResponseData |-> ResponseData, BasicOcspResponse |-> BasicOcspResponse,
   ResponseBytes |-> ResponseBytes, OcspResponse |-> OcspResponse, CrlId |-> CrlId,
   ServiceLocator |-> ServiceLocator,
   PreferredSignatureAlgorithm |-> PreferredSignatureAlgorithm,
   MessageImprint |-> MessageImprint, TimeStampReq |-> TimeStampReq,
   TimeStampResp |-> TimeStampResp, Accuracy |-> Accuracy, TstInfo |-> TstInfo,
   MechTypeList |-> MechTypeList, InitialContextToken |-> InitialContextToken,
   NegTokenInit |-> NegTokenInit, NegTokenTarg |-> NegTokenTarg,
   NegTokenResp |-> NegTokenResp, NegHints |-> NegHints,
   NegTokenInit2 |-> NegTokenInit2, NegotiationToken |-> NegotiationToken,
   RsaPublicKey |-> RsaPublicKey, OtherPrimeInfo |-> OtherPrimeInfo,
   OtherPrimeInfos |-> OtherPrimeInfos, RsaPrivateKey |-> RsaPrivateKey,
   MaskGen |-> MaskGen, RsaPssParams |-> RsaPssParams, RsaOaepParams |-> RsaOaepParams,
   PrivateKeyInfo |-> PrivateKeyInfo, EcPrivateKey |-> EcPrivateKey,
   Pbes1Parameters |-> Pbes1Parameters, Pbes1Algorithm |-> Pbes1Algorithm,
   Pbkdf2Prf |-> Pbkdf2Prf, Pbkdf2Params |-> Pbkdf2Params,
   ScryptParams |-> ScryptParams, Kdf |-> Kdf,
   Pbes2EncryptionScheme |-> Pbes2EncryptionScheme,
   Pbes2Parameters |-> Pbes2Parameters, EncryptionScheme |-> EncryptionScheme,
   EncryptedPrivateKeyInfo |-> EncryptedPrivateKeyInfo, CertBag |-> CertBag,
   CrlBag |-> CrlBag, DigestInfo |-> DigestInfo, MacData |-> MacData,
   Pkcs12PbeParams |-> Pkcs12PbeParams, Pkcs12Pbkdf2Params |-> Pkcs12Pbkdf2Params,
   Pkcs12EncryptedPrivateKeyInfo |-> Pkcs12EncryptedPrivateKeyInfo,
   Pbes2Params |-> Pbes2Params, Pfx |-> Pfx,
   Pkcs12PrivateKeyInfo |-> Pkcs12PrivateKeyInfo,
   RecipientIdentifier |-> RecipientIdentifier, PartialHashtree |-> PartialHashtree,
   CmpCertificate |-> CmpCertificate]

Declared(n) == LET types == MCTypes IN types[n]
MCTested == DOMAIN MCTypes

(* Those that derive or implement ValueOrd, and lists of them.             *)
MCOrdered ==
  {"AlgorithmIdentifier", "SubjectPublicKeyInfo", "Attribute", "Attributes",
   "AttributeTypeAndValue", "RelativeDistinguishedName", "Name", "RevokedCert",
   "Extension", "Extensions", "HardwareModuleName", "DistributionPointName",
   "DirectoryString", "OtherName", "GeneralName", "GeneralNames",
   "EdiPartyName", "DistributionPoint", "PolicyMapping", "PolicyInformation",
   "PolicyQualifierInfo", "AccessDescription", "Time", "Validity",
   "TbsCertificate", "Certificate", "TbsCertList", "CertificateList",
   "CertificateChoices", "RevocationInfoChoice", "RecipientInfo", "SignerInfo",
   "SignerIdentifier", "PollRepContentInner", "InfoTypeAndValue", "CrlId",
   "PreferredSignatureAlgorithm", "MacData", "Pkcs12PbeParams", "DigestInfo"}
================================================================================
