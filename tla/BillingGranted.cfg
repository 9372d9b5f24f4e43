CONSTANTS
  Orders = {o1}
  Handlers = {h1}
  Staff = {}
  Copies = 1
  MaxEvents = 1
SPECIFICATION LiveSpec
PROPERTY PaidIsGranted
CHECK_DEADLOCK FALSE
