SPECIFICATION FairSpec
CONSTANTS
  Sessions = {{"client", "server"}}
  RequireApproval = {}
  Scenarios = {{"timeout"}}
  BufferLimit = 1
  WireCap = 2
  MaxData = 0
PROPERTIES NoHalfOpen Settles
CHECK_DEADLOCK FALSE
