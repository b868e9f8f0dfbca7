SPECIFICATION PartSpec
CONSTANTS
  a = a
  b = b
  None = None
  Utts <- MCUtts
  Stages <- MCStages
  Replies <- MCReplies
  MaxRestarts = 1
  GenerationLimit = 2
  AskLimit = 1
  TodoLimit = 2
CHECK_DEADLOCK FALSE
CONSTRAINT PartScope
INVARIANTS TypeOK OutcomesCounted FilesSafe
PROPERTIES OwnAnswers OneWorkerToTheEnd JobsHonest CancelHonest
