SPECIFICATION Spec
CONSTANTS
  Jobs = {j1}
  Workers = {w1}
  Runners = {r1}
  Clerks = {k1}
  InlineId = InlineId
  NoOne = NoOne
  MaxAttempts = 1
  MaxRetries = 2
INVARIANTS TypeOK PaidResult OwnerHoldsLatest
PROPERTY ReportLeftToStaff
CHECK_DEADLOCK FALSE
