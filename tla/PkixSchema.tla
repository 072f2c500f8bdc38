--------------------------------- MODULE PkixSchema ---------------------------------
(***************************************************************************)
(* The declarations of crmf, cmpv2, x509-ocsp, x509-tsp and gss-api:       *)
(* requests for certificates, management messages, status, timestamps and  *)
(* negotiation.                                                            *)
(***************************************************************************)
EXTENDS CmsSchema

(* An optional field under a tag of its own, around another value.         *)
Under(number, name, T) == Optional(Explicit(number, F(name, T)))
Around(number, name, T) == Constructed(Explicit(number, F(name, T)))

--------------------------------------------------------------------------------
(* crmf: controls                                                          *)
SinglePubInfo ==
  Record(<<F("pub_method", IntegerOf(<<0, 1, 2, 3>>)),
           Optional(F("pub_location", The("GeneralName")))>>)
PkiPublicationInfo ==
  Record(<<F("action", IntegerOf(<<0, 1>>)),
           Optional(F("pub_infos", SequenceOf(The("SinglePubInfo"))))>>)
EncryptedValue ==
  LET Algorithm(n, name) == Optional(Implicit(n, F(name, AlgorithmIdentifier)))
  IN  Record(<<Algorithm(0, "intended_alg"), Algorithm(1, "sym_alg"),
               Optional(Implicit(2, F("enc_sym_key", BitString))),
               Algorithm(3, "key_alg"),
               Optional(Implicit(4, F("value_hint", OctetString_))),
               F("enc_value", BitString)>>)
EncryptedKey ==
  Choice(<<F("EncryptedValue", The("EncryptedValue")),
           Around(0, "EnvelopedData", The("EnvelopedData"))>>)
PkiArchiveOptions ==
  Choice(<<Around(0, "EncryptedPrivKey", The("EncryptedKey")),
           Around(1, "KeyGenParameters", OctetString_),
           Explicit(2, F("ArchiveRemGenPrivKey", BOOLEAN_))>>)
CertId == Record(<<F("issuer", The("GeneralName")), F("serial_number", SerialNumber)>>)

(* crmf: proof of possession                                               *)
PkMacValue == Record(<<F("alg_id", The("AlgorithmIdentifier")), F("value", BitString)>>)
PopoSigningKeyInputChoice ==
  Choice(<<Around(0, "Sender", The("GeneralName")),
           F("PublicKeyMAC", The("PkMacValue"))>>)
PopoSigningKeyInput ==
  Record(<<F("auth_info", The("PopoSigningKeyInputChoice")),
           F("public_key", The("SubjectPublicKeyInfo"))>>)
PopoSigningKey ==
  Record(<<Optional(Implicit(0, F("poposk_input", The("PopoSigningKeyInput")))),
           F("alg_id", The("AlgorithmIdentifier")), F("signature", BitString)>>)
POPOPrivKey ==
  Choice(<<Explicit(0, F("ThisMessage", BitString)),
           Around(1, "SubsequentMessage", IntegerOf(<<0, 1>>)),
           Explicit(2, F("DhMac", BitString)),
           Around(3, "AgreeMac", The("PkMacValue")),
           Around(4, "EncryptedKey", The("EnvelopedData"))>>)
ProofOfPossession ==
  Choice(<<Implicit(0, F("RaVerified", Null)),
           Constructed(Implicit(1, F("Signature", The("PopoSigningKey")))),
           Around(2, "KeyEncipherment", The("POPOPrivKey")),
           Around(3, "KeyAgreement", The("POPOPrivKey"))>>)
PbmParameter ==
  Record(<<F("salt", OctetString_), F("owf", The("AlgorithmIdentifier")),
           F("iteration_count", INTEGER), F("mac", The("AlgorithmIdentifier"))>>)
CrmfPrivateKeyInfo ==
  Record(<<F("version", INTEGER), F("priv_key_alg", The("AlgorithmIdentifier")),
           F("priv_key", OctetString_),
           Optional(Implicit(0, F("attrs", The("Attributes"))))>>)
EncKeyWithIdChoice ==
  Choice(<<F("String", Utf8String)>> \o GeneralName.variants)
EncKeyWithID ==
  Record(<<F("priv_key", The("CrmfPrivateKeyInfo")),
           Optional(F("identifier", The("EncKeyWithIdChoice")))>>)

(* crmf: requests                                                          *)
OptionalValidity ==
  Record(<<Under(0, "not_before", The("Time")), Under(1, "not_after", The("Time"))>>)
CertTemplate ==
  LET Part(n, name, T) == Optional(Implicit(n, F(name, T)))
  IN  Record(<<Part(0, "version", Version), Part(1, "serial_number", SerialNumber),
               Part(2, "signature", The("AlgorithmIdentifier")),
               Under(3, "issuer", The("Name")),
               Part(4, "validity", The("OptionalValidity")),
               Under(5, "subject", The("Name")),
               Part(6, "subject_public_key_info", The("SubjectPublicKeyInfo")),
               Part(7, "issuer_unique_id", BitString),
               Part(8, "subject_unique_id", BitString),
               Part(9, "extensions", The("Extensions"))>>)
CertRequest ==
  Record(<<F("cert_req_id", INTEGER), F("cert_template", The("CertTemplate")),
           Optional(F("controls", SequenceOf(The("AttributeTypeAndValue"))))>>)
CertReqMsg ==
  Record(<<F("cert_req", The("CertRequest")),
           Optional(F("popo", The("ProofOfPossession"))),
           Optional(F("reg_info", SequenceOf(The("Attribute"))))>>)
CertReqMessages == SequenceOf(The("CertReqMsg"))

--------------------------------------------------------------------------------
(* cmpv2: status, keys and announcements                                   *)
PkiFreeText == SequenceOf(Utf8String)
PkiStatus == IntegerOf(<<0, 1, 2, 3, 4, 5, 6>>)
PkiStatusInfo ==
  Record(<<F("status", PkiStatus), Optional(F("status_string", The("PkiFreeText"))),
           Optional(F("fail_info", FlagSet))>>)
ErrorMsgContent ==
  Record(<<F("pki_status_info", The("PkiStatusInfo")),
           Optional(F("error_code", INTEGER)),
           Optional(F("error_details", The("PkiFreeText")))>>)
CertStatus ==
  Record(<<F("cert_hash", OctetString_), F("cert_req_id", INTEGER),
           Optional(F("status_info", The("PkiStatusInfo")))>>)
CertConfirmContent == SequenceOf(The("CertStatus"))
CmpCertificate == Certificate
CertOrEncCert ==
  Choice(<<Around(0, "Certificate", The("CmpCertificate")),
           Around(1, "EncryptedCert", The("EncryptedValue"))>>)
CertifiedKeyPair ==
  Record(<<F("cert_or_enc_cert", The("CertOrEncCert")),
           Under(0, "priv_key", The("EncryptedValue")),
           Under(1, "publication_info", The("PkiPublicationInfo"))>>)
KeyRecRepContent ==
  Record(<<F("status", The("PkiStatusInfo")),
           Under(0, "new_sig_cert", The("CmpCertificate")),
           Under(1, "ca_certs", SequenceOf(The("CmpCertificate"))),
           Under(2, "key_pair_hist", SequenceOf(The("CertifiedKeyPair")))>>)
CaKeyUpdAnnContent ==
  Record(<<F("old_with_new", The("CmpCertificate")),
           F("new_with_old", The("CmpCertificate")),
           F("new_with_new", The("CmpCertificate"))>>)
RevAnnContent ==
  Record(<<F("status", PkiStatus), F("cert_id", The("CertId")),
           F("will_be_revoked_at", GeneralizedTime),
           F("bad_since_date", GeneralizedTime),
           Optional(F("crl_details", The("Extensions")))>>)
CrlAnnContent == SequenceOf(The("CertificateList"))
OobCertHash ==
  Record(<<Under(0, "hash_alg", The("AlgorithmIdentifier")),
           Under(1, "cert_id", The("CertId")),
           F("hash_val", BitString)>>)
DhbmParameter ==
  Record(<<F("owf", The("AlgorithmIdentifier")), F("mac", The("AlgorithmIdentifier"))>>)

(* cmpv2: requests and their answers                                       *)
InfoTypeAndValue ==
  Record(<<F("oid", ObjectIdentifier), Optional(F("value", AnyValue))>>)
GenMsgContent == SequenceOf(The("InfoTypeAndValue"))
PollReqContent == Record(<<F("cert_req_ids", SequenceOf(INTEGER))>>)
PollRepContentInner ==
  Record(<<F("cert_req_id", INTEGER), F("check_after", INTEGER),
           Optional(F("reason", The("PkiFreeText")))>>)
PollRepContent == SequenceOf(The("PollRepContentInner"))
Challenge ==
  Record(<<Optional(F("owf", The("AlgorithmIdentifier"))), F("witness", OctetString_),
           F("challenge", OctetString_)>>)
Rand == Record(<<F("integer", INTEGER), F("sender", The("GeneralName"))>>)
PopoDecKeyRespContent == SequenceOf(INTEGER)
CertResponse ==
  Record(<<F("cert_req_id", INTEGER), F("status", The("PkiStatusInfo")),
           Optional(F("certified_key_pair", The("CertifiedKeyPair"))),
           Optional(F("rsp_info", OctetString_))>>)
CertRepMessage ==
  Record(<<Under(1, "ca_pubs", SequenceOf(The("CmpCertificate"))),
           F("response", SequenceOf(The("CertResponse")))>>)
RevDetails ==
  Record(<<F("cert_details", The("CertTemplate")),
           Optional(F("crl_entry_details", The("Extensions")))>>)
RevReqContent == SequenceOf(The("RevDetails"))
RevRepContent ==
  Record(<<F("status", SequenceOf(The("PkiStatusInfo"))),
           Under(0, "rev_certs", SequenceOf(The("CertId"))),
           Under(1, "crls", SequenceOf(The("CertificateList")))>>)

(* cmpv2: messages                                                         *)
PkiBody ==
  Choice(<<Around(0, "Ir", The("CertReqMessages")),
           Around(1, "Ip", The("CertRepMessage")),
           Around(2, "Cr", The("CertReqMessages")),
           Around(3, "Cp", The("CertRepMessage")),
           Around(4, "P10cr", The("CertReq")),
           Around(5, "Popdecc", SequenceOf(The("Challenge"))),
           Around(6, "Popdecr", The("PopoDecKeyRespContent")),
           Around(7, "Kur", The("CertReqMessages")),
           Around(8, "Kup", The("CertRepMessage")),
           Around(9, "Krr", The("CertReqMessages")),
           Around(10, "Krp", The("KeyRecRepContent")),
           Around(11, "Rr", The("RevReqContent")),
           Around(12, "Rp", The("RevRepContent")),
           Around(13, "Ccr", The("CertReqMessages")),
           Around(14, "Ccp", The("CertRepMessage")),
           Around(15, "Ckuann", The("CaKeyUpdAnnContent")),
           Around(16, "Cann", The("CmpCertificate")),
           Around(17, "Rann", The("RevAnnContent")),
           Around(18, "CrlAnn", The("CrlAnnContent")), Around(19, "PkiConf", Null),
           Around(21, "GenM", The("GenMsgContent")),
           Around(22, "GenP", The("GenMsgContent")),
           Around(23, "Error", The("ErrorMsgContent")),
           Around(24, "CertConf", The("CertConfirmContent")),
           Around(25, "PollReq", The("PollReqContent")),
           Around(26, "PollRep", The("PollRepContent"))>>)
PkiHeader ==
  Record(<<F("pvno", IntegerOf(<<1, 2>>)), F("sender", The("GeneralName")),
           F("recipient", The("GeneralName")),
           Under(0, "message_time", GeneralizedTime),
           Under(1, "protection_alg", The("AlgorithmIdentifier")),
           Under(2, "sender_kid", OctetString_), Under(3, "recip_kid", OctetString_),
           Under(4, "trans_id", OctetString_), Under(5, "sender_nonce", OctetString_),
           Under(6, "recip_nonce", OctetString_),
           Under(7, "free_text", The("PkiFreeText")),
           Under(8, "general_info", SequenceOf(The("InfoTypeAndValue")))>>)
PkiMessage ==
  Record(<<F("header", The("PkiHeader")), F("body", The("PkiBody")),
           Under(0, "protection", BitString),
           Under(1, "extra_certs", SequenceOf(The("CmpCertificate")))>>)
ProtectedPart == Record(<<F("header", The("PkiHeader")), F("body", The("PkiBody"))>>)

--------------------------------------------------------------------------------
(* x509-ocsp                                                               *)
OcspVersion == Default(Explicit(0, F("version", IntegerOf(<<0>>))), <<0>>)
OcspCertId ==
  Record(<<F("hash_algorithm", The("AlgorithmIdentifier")),
           F("issuer_name_hash", OctetString_),
           F("issuer_key_hash", OctetString_), F("serial_number", SerialNumber)>>)
Request ==
  Record(<<F("req_cert", The("OcspCertId")),
           Under(0, "single_request_extensions", The("Extensions"))>>)
TbsRequest ==
  Record(<<OcspVersion, Under(1, "requestor_name", The("GeneralName")),
           F("request_list", SequenceOf(The("Request"))),
           Under(2, "request_extensions", The("Extensions"))>>)
Signature ==
  Record(<<F("signature_algorithm", The("AlgorithmIdentifier")),
           F("signature", BitString),
           Under(0, "certs", SequenceOf(The("Certificate")))>>)
OcspRequest ==
  Record(<<F("tbs_request", The("TbsRequest")),
           Under(0, "optional_signature", The("Signature"))>>)
RevokedInfo ==
  Record(<<F("revocation_time", GeneralizedTime),
           Under(0, "revocation_reason", CrlReason)>>)
OcspCertStatus ==
  Choice(<<Implicit(0, F("Good", Null)),
           Constructed(Implicit(1, F("Revoked", The("RevokedInfo")))),
           Implicit(2, F("Unknown", Null))>>)
SingleResponse ==
  Record(<<F("cert_id", The("OcspCertId")), F("cert_status", The("OcspCertStatus")),
           F("this_update", GeneralizedTime), Under(0, "next_update", GeneralizedTime),
           Under(1, "single_extensions", The("Extensions"))>>)
ResponderId ==
  Choice(<<Around(1, "ByName", The("Name")), Around(2, "ByKey", OctetString_)>>)
ResponseData ==
  Record(<<OcspVersion, F("responder_id", The("ResponderId")),
           F("produced_at", GeneralizedTime),
           F("responses", SequenceOf(The("SingleResponse"))),
           Under(1, "response_extensions", The("Extensions"))>>)
BasicOcspResponse ==
  Record(<<F("tbs_response_data", The("ResponseData")),
           F("signature_algorithm", The("AlgorithmIdentifier")),
           F("signature", BitString),
           Under(0, "certs", SequenceOf(The("Certificate")))>>)
ResponseBytes ==
  Record(<<F("response_type", ObjectIdentifier), F("response", OctetString_)>>)
OcspResponse ==
  Record(<<F("response_status", EnumeratedOf(<<0, 1, 2, 3, 5, 6>>)),
           Under(0, "response_bytes", The("ResponseBytes"))>>)
CrlId ==
  Record(<<Under(0, "crl_url", Ia5String), Under(1, "crl_num", INTEGER),
           Under(2, "crl_time", GeneralizedTime)>>)
ServiceLocator ==
  Record(<<F("issuer", The("Name")),
           Optional(F("locator", The("AuthorityInfoAccessSyntax")))>>)
PreferredSignatureAlgorithm ==
  Record(<<F("sig_identifier", The("AlgorithmIdentifier")),
           Optional(F("cert_identifier", The("AlgorithmIdentifier")))>>)

--------------------------------------------------------------------------------
(* x509-tsp                                                                *)
TspVersion == IntegerOf(<<1>>)
MessageImprint ==
  Record(<<F("hash_algorithm", The("AlgorithmIdentifier")),
           F("hashed_message", OctetString_)>>)
TimeStampReq ==
  Record(<<F("version", TspVersion), F("message_imprint", The("MessageImprint")),
           Optional(F("req_policy", ObjectIdentifier)), Optional(F("nonce", INTEGER)),
           Default(F("cert_req", BOOLEAN_), <<0>>),
           Optional(Implicit(0, F("extensions", The("Extensions"))))>>)
TimeStampResp ==
  Record(<<F("status", The("PkiStatusInfo")),
           Optional(F("time_stamp_token", The("ContentInfo")))>>)
Accuracy ==
  Record(<<Optional(F("seconds", INTEGER)), Optional(Implicit(0, F("millis", INTEGER))),
           Optional(Implicit(1, F("micros", INTEGER)))>>)
TstInfo ==
  Record(<<F("version", TspVersion), F("policy", ObjectIdentifier),
           F("message_imprint", The("MessageImprint")), F("serial_number", INTEGER),
           F("gen_time", GeneralizedTime), Optional(F("accuracy", The("Accuracy"))),
           Default(F("ordering", BOOLEAN_), <<0>>), Optional(F("nonce", INTEGER)),
           Under(0, "tsa", The("GeneralName")),
           Optional(Implicit(1, F("extensions", The("Extensions"))))>>)

--------------------------------------------------------------------------------
(* gss-api, without its feature rfc2478                                    *)
MechTypeList == SequenceOf(ObjectIdentifier)
InitialContextToken ==
  [Record(<<F("this_mech", ObjectIdentifier), F("inner_context_token", AnyValue)>>)
     EXCEPT !.tag = Tag(1, 0, TRUE)]
NegTokenInit ==
  Record(<<Optional(Implicit(0, F("mech_types", The("MechTypeList")))),
           Optional(Implicit(1, F("req_flags", BitString))),
           Optional(Implicit(2, F("mech_token", OctetString_))),
           Optional(Implicit(3, F("mech_list_mic", OctetString_)))>>)
NegToken(name, results) ==
  Record(<<Under(0, name, EnumeratedOf(results)),
           Under(1, "supported_mech", ObjectIdentifier),
           Under(2, "response_token", OctetString_),
           Under(3, "mech_list_mic", OctetString_)>>)
NegTokenTarg == NegToken("neg_result", <<0, 1, 2>>)
NegTokenResp == NegToken("neg_state", <<0, 1, 2, 3>>)
NegHints ==
  Record(<<Under(0, "hint_name", GeneralString),
           Optional(Implicit(1, F("hint_address", OctetString_)))>>)
NegTokenInit2 ==
  Record(<<Under(0, "mech_types", The("MechTypeList")),
           Under(1, "req_flags", BitString),
           Under(2, "mech_token", OctetString_), Under(3, "neg_hints", The("NegHints")),
           Under(4, "mech_list_mic", OctetString_)>>)
NegotiationToken ==
  Choice(<<Around(0, "NegTokenInit2", The("NegTokenInit2")),
           Around(1, "NegTokenResp", The("NegTokenResp"))>>)
================================================================================
