SPECIFICATION Spec
CONSTANTS
  DEBOUNCE_S = 3
  Rescan = 4
  RestartSec = 4
  MaxPresses = 4
  MaxKills = 2
  MaxUnplugs = 2
PROPERTIES
  BounceOnlyWhileBusy
  SettlesOnOne
