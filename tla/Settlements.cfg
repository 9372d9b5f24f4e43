SPECIFICATION Spec
CONSTANTS
  Batches = {b1, b2}
  Reports = {r1, r2}
  Variables = {v1, v2}
  Requests = {q1, q2}
  NoReport = NoReport
  NoVariable = NoVariable
  MaxManual = 2
SYMMETRY Symmetry
INVARIANTS TypeOK NoDoubleSettle ComputedTotal GateHolds ManualCovered
CHECK_DEADLOCK FALSE
