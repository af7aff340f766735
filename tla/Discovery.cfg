SPECIFICATION FairSpec
CONSTANTS
  Keys = {1}
  Addresses = {1, 2}
  Sightings = {{1, 9}, {1, 2, 9}}
  EarlyRequests = FALSE
  MaxUpdates = 3
  MaxCalls = 3
INVARIANTS TypeOK AdmissionSeesAll SelectionSound RetryIsCurrent
PROPERTIES CandidateOnce Refines
CHECK_DEADLOCK FALSE
