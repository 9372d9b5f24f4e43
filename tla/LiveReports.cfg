SPECIFICATION Spec
CONSTANTS
  Requests = {q1, q2}
  Reports = {r1, r2}
  NoReport = NoReport
  MaxBreaks = 1
SYMMETRY Symmetry
INVARIANTS TypeOK DecisionsReviewed ReviewHasReport
PROPERTIES FinishedStays SupersededHasSuccessor OcrLeavesTask
CHECK_DEADLOCK FALSE
