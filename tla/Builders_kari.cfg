SPECIFICATION Spec
CONSTANTS
  Keys <- MCKeys
  CertificateRequests <- MCCertificateRequests
  OtherNew <- MCOtherNew
  ExtensionIds <- MCExtensionIds
  SignedAttributeSet <- MCSignedAttributeSet
  RequestAttributes <- MCRequestAttributes
  SignerInfos <- MCSignerInfos
  RecipientSet <- MCRecipientSet
  MaxCalls = 3
  MaxIssued = 2
INVARIANTS
  RecipientsRecoverTheKey
CHECK_DEADLOCK FALSE
