SPECIFICATION FairSpec
CONSTANTS
  Selections = {{"avahi"}, {"avahi", "zeroconf"}, {"zeroconf"}}
  Workers = {k1, k2}
  MaxCalls = 1
  MaxOutages = 2
INVARIANT ShutdownInv
PROPERTIES ShutdownReturns Reannounced
CHECK_DEADLOCK FALSE
