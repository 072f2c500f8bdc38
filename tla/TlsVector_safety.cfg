SPECIFICATION Spec
CONSTANTS
  ByteBase = 8
  Inputs <- InputsDef
  LongInputs <- LongInputsDef
  Vectors <- VectorsDef
  Tails <- TailsDef
CHECK_DEADLOCK FALSE
INVARIANTS
  PathsAgree
  EncodingsAreUnique
  ReadsBackWhatWasWritten
PROPERTIES
  LoopsAdvance
