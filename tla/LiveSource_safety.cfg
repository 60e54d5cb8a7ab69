SPECIFICATION Spec
CONSTANTS
  Scalings = {s1, s2}
  ChannelLists = {l1, l2}
  EcuModes = {"up", "keyOff", "gone"}
  None = None
SYMMETRY Symmetry
INVARIANTS
  TypeOK
  NoPollAfterRelease
  NoLeakedLink
  QuietWhenIdle
  ScalingFresh
  ChannelListFresh
  RetryDelay
PROPERTY
  ImplementsEcuLink
CHECK_DEADLOCK FALSE
