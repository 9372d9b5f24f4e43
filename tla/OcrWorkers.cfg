SPECIFICATION LeasedSpec
CONSTANTS
  Jobs = {j1, j2}
  Workers = {w1, w2}
  Runners = {}
  Clerks = {}
  InlineId = InlineId
  NoOne = NoOne
  MaxAttempts = 2
  MaxRetries = 3
PROPERTY ImplementsLifecycle
CHECK_DEADLOCK FALSE
