CONSTANTS
  a = a
  b = b
  j1 = j1
  j2 = j2
  j3 = j3
  m1 = m1
  m2 = m2
  None = None
  Utts <- MCUtts
  File = b
  Jobs <- MCJobs
  Models <- MCModels
  HistoryLimit = 1
SPECIFICATION Spec
SYMMETRY Symmetry
INVARIANTS TypeOK BuffersAccounted MicrophoneHasOwner EngineInUse
PROPERTIES AckBarrier OutcomesSettled
