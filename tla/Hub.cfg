SPECIFICATION FairSpec
CONSTANTS
  Confs = {c1, c2}
  ChannelLists = {l1, l2}
  None = None
INVARIANTS
  EngineMatchesList
PROPERTIES
  LatchHasCause
  PublishedSettles
CHECK_DEADLOCK FALSE
