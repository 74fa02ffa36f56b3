\* Configurations saved and hand-written, loaded by momosecpp.
CONSTANTS
  Disks <- MCDisks
  Dialogs <- MCDialogs
  Garbage <- MCGarbage
  NaN = NaN
  Markup <- MCMarkup
  Cuts <- MCCuts
  Scraps <- MCScraps
  Strings <- MCStrings
SPECIFICATION Spec
INVARIANTS TypeOK WrittenIsLoaded SavedIsLoaded
CHECK_DEADLOCK FALSE
