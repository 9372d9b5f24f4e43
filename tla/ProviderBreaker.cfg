SPECIFICATION LiveSpec
CONSTANTS
  Workers = {w1, w2}
  NoWorker = NoWorker
  Threshold = 3
  Tries = 3
INVARIANTS TypeOK OpenedByFailures
PROPERTIES ClosedByProber ImplementsBreaker Probed
CHECK_DEADLOCK FALSE
