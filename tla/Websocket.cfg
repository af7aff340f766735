SPECIFICATION FairSpec
CONSTANTS
  Writers = {w1, w2}
  MaxMessages = 2
  MaxPings = 1
  MayBreak = TRUE
  MayClose = TRUE
INVARIANT DeliveryInv
PROPERTIES WritesReturn BreakIsReported
CHECK_DEADLOCK FALSE
