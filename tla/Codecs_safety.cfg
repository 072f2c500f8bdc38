SPECIFICATION Spec
CONSTANTS
  CodecNames <- MCCodecNames
  Values <- MCValues
  Texts <- MCTexts
INVARIANTS
  ReadsBackWhatWasWritten
  ReadsOneEncoding
  MeansWhatItSays
  OrderIsThatOfContents
  InPlaceAgrees
CHECK_DEADLOCK FALSE
