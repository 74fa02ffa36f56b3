\* Does Pause block the simulation, when wait returns for a notify only?
CONSTANTS
  T = 2
  Dt = 16
  MaxRuns = 1
  SpuriousWakeups = FALSE
SPECIFICATION Spec
INVARIANT PauseBlocksThread
CHECK_DEADLOCK FALSE
