\* Two runs in one window, two iterations each: at the times 0 and 0.02.
CONSTANTS
  T = 2
  Dt = 16
  MaxRuns = 2
  SpuriousWakeups = TRUE
SPECIFICATION Spec
INVARIANTS TypeOK TimeHasOneUser RecordedInOrder ClosedAtLastRecord
PROPERTIES EndsUnlessPaused StopEndsUnlessPaused
CHECK_DEADLOCK FALSE
