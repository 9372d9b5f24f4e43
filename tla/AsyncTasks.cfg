SPECIFICATION LiveSpec
CONSTANTS
  t1 = t1
  t2 = t2
  t3 = t3
  o1 = o1
  o2 = o2
  Tasks = {t1, t2, t3}
  Orgs = {o1, o2}
  OrgOf <- TwoOrgs
  Outcomes = {"succeeded", "failed"}
  Workers = {w1, w2}
  NoWorker = NoWorker
  MaxAttempts = 2
  LeaseTerm = 1
  PerOrgLimit = 1
  ClaimLimit = 2
  ClockSkew = 0
  InitialDelay <- LaterSecond
  Cancellable = {t1}
INVARIANTS TypeOK OneOutcome OrgCap
PROPERTIES OutcomeByLatestClaim ImplementsLifecycle EveryTaskServed
CHECK_DEADLOCK FALSE
