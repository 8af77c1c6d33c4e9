SPECIFICATION FairSpec
CONSTANTS
  Texts <- MCTexts
  OutBefore <- MCOutBefore
INVARIANTS
  TypeOK
  AccessesInBounds
  CastsAreExact
  UnreachedSlotsAreZero
  PiecesStartAtBoundaries
PROPERTIES
  ImplementsInetPton
  StepsMakeProgress
  Returns
CHECK_DEADLOCK FALSE
