SPECIFICATION FairSpec
CONSTANTS
  Texts <- MCTexts
  OutBefore <- MCOutBefore
INVARIANTS
  TypeOK
  StoresAreExact
  ProducedIsWritten
  TokensStayInRun
PROPERTIES
  ImplementsVtlmks
  Returns
CHECK_DEADLOCK FALSE
