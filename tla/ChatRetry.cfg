SPECIFICATION Spec
CONSTANTS
  MaxTurns = 3
  Runtimes = {"gateway"}
INVARIANT RetryReusesInput
CHECK_DEADLOCK FALSE
