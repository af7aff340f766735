SPECIFICATION Spec
CONSTANTS
  Sessions = {{"client", "server"}}
  RequireApproval = {"client"}
  Scenarios = {{"approve", "timeout"}, {"approve", "abort"}, {"approve", "close", "link", "setup"}}
  BufferLimit = 1
  WireCap = 1
  MaxData = 1
INVARIANTS TypeOK DataNeedsBothApprovals WaitIsTimed
PROPERTY KeepsAgreement
CHECK_DEADLOCK FALSE
