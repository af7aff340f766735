SPECIFICATION Spec
CONSTANTS
  Approvers = {a1, a2}
  Closers = {k1}
  Requires = {TRUE}
  ShipIDKnown = TRUE
  StaleTimeout = TRUE
  LinkMayBreak = TRUE
  MaxBuffered = 1
  MaxPayloads = 2
INVARIANTS TypeOK SetupNeedsApproval  InOrder
PROPERTY SetupBeforeClosed
CHECK_DEADLOCK FALSE
