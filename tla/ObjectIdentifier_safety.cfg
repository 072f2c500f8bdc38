SPECIFICATION Spec
CONSTANTS
  Base = 8
  ArcMax = 31
  ArcBytes = 2
  ARC_MAX_SECOND = 1
  MaxSize = 3
  Radix = 3
  Texts <- TextsDef
  ByteInputs <- ByteInputsDef
  ArcInputs <- ArcInputsDef
INVARIANTS IteratesAsMeant ComparesByArcs SortsLikeDer AcceptsDottedTexts
PROPERTY ParentUndoesPush
