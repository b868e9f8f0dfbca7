SPECIFICATION MCSpec
CONSTANTS
  None = None
  Credit = 1
  Limits <- MCLimits
  NoReason = NoReason
  AdmissionLimit = 4
  BusLimit = 2
CHECK_DEADLOCK FALSE
CONSTRAINT Uncrossed
INVARIANTS MCTypeOK  SessionHonest
PROPERTIES ClickFirst
