SPECIFICATION Spec
CONSTANTS
  Rules <- MCRules
  Values = {0, 1, 2, 3, 4}
  Rpms = {0, 1}
  Throttles = {0, 1}
  Steps = {1, 3}
  None = None
  Low = 1
  High = 4
INVARIANTS
  NotMissed
  Ends
  ShownAlike
PROPERTIES
  Debounced
  LatchedUntilAck
  EndsInsideBand
  Sustained
CHECK_DEADLOCK FALSE
