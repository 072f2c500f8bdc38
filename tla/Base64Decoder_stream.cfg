CONSTANTS
  Inputs <- InputsDef
  MaxRequest = 12
SPECIFICATION FairSpec
INVARIANTS
  LengthIsExact
  NoLaxerThanOneShot
PROPERTIES
  ImplementsByteSource
  CallsReturn
