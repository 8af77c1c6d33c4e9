SPECIFICATION Spec
CONSTANTS
  Texts <- MCTexts
  OutBefore <- MCOutBefore
INVARIANTS
  TypeOK
  StoresInBounds
  MovesIntoZeros
PROPERTY ImplementsInetPton
CHECK_DEADLOCK FALSE
