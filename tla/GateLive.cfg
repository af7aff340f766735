SPECIFICATION FairSpec
CONSTANTS
  Approvers = {a1}
  Closers = {}
  Requires = {TRUE, FALSE}
  ShipIDKnown = TRUE
  StaleTimeout = TRUE
  LinkMayBreak = TRUE
  MaxBuffered = 1
  MaxPayloads = 0
PROPERTIES CloseCompletes ApprovalNotLost
CHECK_DEADLOCK FALSE
