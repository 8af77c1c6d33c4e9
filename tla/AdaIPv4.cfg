SPECIFICATION FairAdaSpec
CONSTANTS
  Texts <- MCTexts
  OutBefore <- MCOutBefore
INVARIANTS
  AdaTypeOK
  AccumulatorIsFilled
PROPERTIES
  ImplementsPermissive
  StepsMakeProgress
  Returns
CHECK_DEADLOCK FALSE
