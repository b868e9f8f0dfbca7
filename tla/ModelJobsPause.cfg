SPECIFICATION Spec
CONSTANTS
  N = 2
  Updatable = {1}
  None = None
  ManageInPause = TRUE
INVARIANTS PauseCanEnd
CHECK_DEADLOCK FALSE
