SPECIFICATION FairSpec
CONSTANTS
  Callers = {c1}
  Timers = {g1, g2, g3}
  Closer = closer
  Nobody = nobody
INVARIANTS TypeOK QuietAfterBarrier
PROPERTIES RevokedNeverFires StopReturns BarrierPasses
CHECK_DEADLOCK FALSE
