SPECIFICATION SseSpec
CONSTANTS
  Texts <- MCTexts
  Tails <- MCTails
  OutBefore <- MCOutBefore
  StrictQuad <- StrictQuadMeaning
INVARIANT SseTypeOK
PROPERTY KeepsContract
CHECK_DEADLOCK FALSE
