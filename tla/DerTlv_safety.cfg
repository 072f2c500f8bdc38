SPECIFICATION Spec
CONSTANTS
  HalfBase = 16
  ClassUnit = 8
  CONSTRUCTED_FLAG = 4
  MASK = 3
  LengthOctets = 2
  NumberMax = 63
  MAX_SIZE = 3
  Primitive = {1}
  OctetString = 1
  Sequence = 2
  MaxDepth = 3
  Inputs <- InputsDef
  Values <- ValuesDef
CHECK_DEADLOCK FALSE
INVARIANTS
  DerIsCanonical
  ReadsBackWhatWasWritten
  BerExtendsDer
  BerBecomesDer
