SPECIFICATION Spec
CONSTANTS
  Keys = {1}
  Addresses = {1, 2}
  Sightings = {{1, 9}, {1, 2, 9}}
  EarlyRequests = TRUE
  MaxUpdates = 2
  MaxCalls = 3
INVARIANT Converges
CHECK_DEADLOCK FALSE
