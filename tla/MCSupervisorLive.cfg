SPECIFICATION CalmSpec
CONSTANTS
  a = a
  b = b
  None = None
  Utts <- MCUtts
  Stages <- MCRecognize
  Replies <- MCNoReplies
  MaxRestarts = 1
  GenerationLimit = 2
  AskLimit = 1
  TodoLimit = 2
CHECK_DEADLOCK FALSE
PROPERTIES WaitsEnd
