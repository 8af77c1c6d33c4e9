SPECIFICATION Spec
CONSTANTS
  Texts <- MCTexts
  OutBefore <- MCOutBefore
PROPERTY MatchesInetPton
CHECK_DEADLOCK FALSE
