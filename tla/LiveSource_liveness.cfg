SPECIFICATION FairSpec
CONSTANTS
  Scalings = {s1, s2}
  ChannelLists = {l1}
  EcuModes = {"up", "gone"}
  None = None
PROPERTIES
  ReleaseFreesEcu
  Recovers
  CloseEndsThread
CHECK_DEADLOCK FALSE
