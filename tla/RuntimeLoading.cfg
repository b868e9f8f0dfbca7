SPECIFICATION Spec
CONSTANTS
  Models = {m, n}
  None = None
  GenerationLimit = 3
  FlawLimit = 0
CHECK_DEADLOCK FALSE
INVARIANTS LoadingIsWork
