SPECIFICATION Spec
CONSTANTS
  Meetings = {m}
  None = None
  MaxCrashes = 1
  Attempts = 2
  Ops = 1
  Faults = 0
  Deaths = 0
  Starts = 0
  Troubles = 0
CHECK_DEADLOCK FALSE
PROPERTY CancelHolds
