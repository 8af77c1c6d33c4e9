SPECIFICATION AdaSpec
CONSTANTS
  Texts <- MCTexts
  OutBefore <- MCOutBefore
INVARIANTS
  WhatwgConformant
CHECK_DEADLOCK FALSE
