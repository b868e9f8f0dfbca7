SPECIFICATION Spec
CONSTANTS
  MaxPending = 2
  PhraseLimit = 2
  GenerationLimit = 2
  PressLimit = 2
  DeferLimit = 1
  Breaks = {"now", "later"}
CHECK_DEADLOCK FALSE
INVARIANTS TypeOK OneCapture IndicatorTrue  NoOrphanWait PastesInOrder
