SPECIFICATION FairSpec
CONSTANTS
  Confs = {c1, c2}
  Torn = Torn
  None = None
  MaxTime = 2
INVARIANTS
  TypeOK
  NeverTorn
  DaemonFollowsFile
  ErrorMeansUnchanged
  ClusterCoherent
PROPERTY
  SavesReachCluster
CHECK_DEADLOCK FALSE
