SPECIFICATION Spec
CONSTANTS
  HalfBase = 128
  ClassUnit = 64
  CONSTRUCTED_FLAG = 32
  MASK = 31
  LengthOctets = 2
  NumberMax = 65535
  MAX_SIZE = 4
  Primitive = {1, 2, 3, 4, 5, 6, 9, 10, 12, 13, 18, 19, 20, 21, 22, 23, 24, 26, 27, 30}
  OctetString = 4
  Sequence = 16
  Types <- MCTypes
  TypeNamed <- Declared
  Tested <- MCTested
  Ordered <- MCOrdered
CHECK_DEADLOCK FALSE
INVARIANTS
  ReadsBackWhatWasWritten
  ReadsOneEncoding
  OrderIsTotal
