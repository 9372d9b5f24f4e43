SPECIFICATION Spec
CONSTANTS
  Reservations = {r1, r2, r3}
  Billers = {b1}
  Quotas = {1, 2}
  AddonSizes <- AddonAndRefund
  LastMonth = 1
  MaxAddon = 1
  NoRow = NoRow
SYMMETRY Symmetry
INVARIANTS TypeOK ConsumedOnce
PROPERTIES CounterFollows ChargedWithinAllowance
CHECK_DEADLOCK FALSE
