SPECIFICATION PartSpec
CONSTANTS
  Revisions = {r1, r2}
  None = None
  Faults = 1
CHECK_DEADLOCK FALSE
INVARIANTS PartTypeOK DownloadExact
PROPERTIES RevocationsHold IsRatchet  
