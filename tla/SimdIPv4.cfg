SPECIFICATION SimdSpec
CONSTANTS
  Texts <- MCTexts
  OutBefore <- MCOutBefore
  Permissive <- AdaIPv4Meaning
  StrictQuad <- StrictQuadMeaning
INVARIANTS
  SimdTypeOK
  StrictTakenFast
PROPERTY AgreesWithContract
CHECK_DEADLOCK FALSE
