SPECIFICATION FairSpec
CONSTANTS
  Slots = {1, 2}
  Acts = {"retry", "unregister"}
  Orders = {TRUE, FALSE}
  MaxCounter = 2
  MaxEvents = 4
INVARIANT AttemptInv
PROPERTIES Reconnects
CHECK_DEADLOCK FALSE
