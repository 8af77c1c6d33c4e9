SPECIFICATION Spec
CONSTANTS
  Texts <- MCTexts
  V4Meaning <- AdaIPv4Meaning
  V6Meaning <- IPv6Meaning
INVARIANTS
  TypeOK
  ProbeExact
PROPERTIES
  ImplementsEitherParser
CHECK_DEADLOCK FALSE
