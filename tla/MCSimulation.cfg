\* Two recorders, the second of which compresses, nine hundredths of a second.
CONSTANTS
  T = 9
  StepTimes <- SmallSteps
  NumRecorders = 2
  Compressing = {2}
SPECIFICATION Spec
INVARIANTS TypeOK RowsAgree TimesIncrease ClosedAtLastRow StopsPromptly
PROPERTIES Terminates RecordedIsWritten
CHECK_DEADLOCK FALSE
