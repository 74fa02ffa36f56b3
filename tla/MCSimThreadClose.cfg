\* Does Close stop the simulation?
CONSTANTS
  T = 2
  Dt = 16
  MaxRuns = 1
  SpuriousWakeups = TRUE
SPECIFICATION Spec
PROPERTY CloseStopsEverything
CHECK_DEADLOCK FALSE
