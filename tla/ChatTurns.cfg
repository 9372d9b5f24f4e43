SPECIFICATION Spec
CONSTANTS
  MaxTurns = 3
  Runtimes = {"gateway", "legacy"}
INVARIANTS TypeOK OneAnswer RowsAgree ToldTruth
PROPERTY ImplementsConversation
CHECK_DEADLOCK FALSE
CONSTRAINT OneLate
