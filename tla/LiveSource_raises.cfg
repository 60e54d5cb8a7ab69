SPECIFICATION Spec
CONSTANTS
  Scalings = {s1}
  ChannelLists = {l1}
  EcuModes = {"up", "gone"}
  None = None
INVARIANT NeverRaises
CHECK_DEADLOCK FALSE
