SPECIFICATION Spec
CONSTANTS
  Texts <- MCTexts
  OutBefore <- MCOutBefore
  Meaning <- VtlmksMeaning
  StrictQuad <- StrictQuadMeaning
INVARIANTS
  TypeOK
  RewriteKeepsAddress
  DeclinesQuadsOnly
  OnlyHeadQuadsWalked
PROPERTIES
  CoreStoresAnAddress
  AgreesWithScalar
CHECK_DEADLOCK FALSE
