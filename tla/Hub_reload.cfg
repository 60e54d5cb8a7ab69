SPECIFICATION FairSpec
CONSTANTS
  Confs = {c1, c2}
  ChannelLists = {l1, l2}
  None = None
PROPERTY
  ReloadTakesEffect
CHECK_DEADLOCK FALSE
