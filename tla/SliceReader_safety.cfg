CONSTANTS
  MaxLength = 6
  MaxDepth = 2
  InputLen = 4
  DrainBuffer = 2
  MaxDecodes = 1
SPECIFICATION Spec
CHECK_DEADLOCK FALSE
INVARIANTS
  TypeOK
  InsideEveryWindow
  DepthIsNesting
PROPERTIES
  FailedReaderIsInert
  ImplementsNestedReader
