SYMMETRY InboundSymmetry
SPECIFICATION Spec
CONSTANTS
  Inbound = {i1, i2}
  Dialers = {d1}
  Pairers = {p1}
  Nobody = Nobody
  Orders = {TRUE, FALSE}
  MaxSuperseded = 1
  MaxCalls = 2
  AtOnce = 3
INVARIANTS TypeOK RegistrySound NoOrphan ReplacedIsSilent
PROPERTIES
  HigherSKIWins
CHECK_DEADLOCK FALSE
