SPECIFICATION FairSpec
CONSTANTS
  Cluster = Cluster
  Others = {o1}
  Live0 = {"STREAMING"}
  Released = "DISCONNECTED"
  None = None
  MaxInbox = 1
  MaxPresses = 2
INVARIANTS
  TypeOK
  InOrderOnce
  ToggleAgrees
PROPERTIES
  ScreenRecovers
  NoDaemonShown
  CommandsLeave
CHECK_DEADLOCK FALSE
