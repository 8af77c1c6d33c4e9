SPECIFICATION Spec
CONSTANTS
  Texts <- MCTexts
  V4Meaning <- AdaIPv4Meaning
  V6Meaning <- VtlmksMeaning
INVARIANT NoMisrouting
CHECK_DEADLOCK FALSE
