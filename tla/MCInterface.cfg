SPECIFICATION PartSpec
CONSTANTS
  SessionLimit = 2
  QueueLimit = 1
  None = None
CHECK_DEADLOCK FALSE
INVARIANTS PartTypeOK QueueTruthful
  
