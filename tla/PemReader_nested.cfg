CONSTANTS
  MaxLength = 7
  MaxDepth = 3
  InputLen = 5
  DrainBuffer = 2
SPECIFICATION Spec
CHECK_DEADLOCK FALSE
PROPERTIES
  NestedReadToItsEnd
