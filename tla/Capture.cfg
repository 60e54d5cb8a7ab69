SPECIFICATION Spec
CONSTANTS
  Size <- MCSize
  Lists <- MCLists
  HEADER_SIZE = 2
  Scalings = {s1, s2}
  None = None
  MaxConns = 3
  MaxPackets = 3
  MaxControls = 2
INVARIANT
  ReplayFaithful
PROPERTY
  ImplementsDrive
  ScalingCatchesUp
CHECK_DEADLOCK FALSE
