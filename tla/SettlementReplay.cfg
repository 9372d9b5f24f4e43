SPECIFICATION Spec
CONSTANTS
  Batches = {b1}
  Reports = {r1}
  Variables = {v1, v2}
  Requests = {q1, q2}
  NoReport = NoReport
  NoVariable = NoVariable
  MaxManual = 0
INVARIANT ResolvedIsReplayed
CHECK_DEADLOCK FALSE
