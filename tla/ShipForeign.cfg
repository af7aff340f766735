SPECIFICATION Spec
CONSTANTS
  Sessions = {{"client"}, {"server"}}
  RequireApproval = {"client"}
  Scenarios = {{"approve", "abort", "close", "timeout"}, {"approve", "close", "link", "setup"}}
  BufferLimit = 1
  WireCap = 1
  MaxData = 0
INVARIANTS CompletionNeedsConsent ReportIsLast
PROPERTY PinOnce
CHECK_DEADLOCK FALSE
