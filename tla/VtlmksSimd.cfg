SPECIFICATION Spec
CONSTANTS
  Texts <- MCTexts
  OutBefore <- MCOutBefore
  Meaning <- VtlmksMeaning
INVARIANTS
  TypeOK
  OnlyQuadsFallBack
PROPERTY AgreesWithScalar
CHECK_DEADLOCK FALSE
