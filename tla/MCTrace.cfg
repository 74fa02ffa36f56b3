\* Two nodes, up to three frames, opened before and after the run is closed.
SPECIFICATION Spec
CONSTANTS
  NumNodes = 2
  Looks <- MCLooks
  Files <- MCFiles
  MaxFrames = 3
INVARIANTS TypeOK FramesRestored ScenarioRestored WholeRun
CHECK_DEADLOCK FALSE
