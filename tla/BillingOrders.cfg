CONSTANTS
  Orders = {o1}
  Handlers = {h1, h2}
  Staff = {k1, k2}
  Copies = 1
  MaxEvents = 2
SYMMETRY MCSymmetry
SPECIFICATION Spec
INVARIANT TypeOK
INVARIANT GrantedOnce
INVARIANT MoneyBehind
INVARIANT RefundBehind
CHECK_DEADLOCK FALSE
