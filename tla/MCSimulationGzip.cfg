\* Is the output of every recorder compressed?
CONSTANTS
  T = 4
  StepTimes <- SmallSteps
  NumRecorders = 2
  Compressing = {1, 2}
SPECIFICATION Spec
INVARIANT CompressedIfAsked
CHECK_DEADLOCK FALSE
