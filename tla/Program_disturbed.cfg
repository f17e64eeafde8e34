\* Any output, macros and the screen saver in between.
SPECIFICATION FairSpec
CONSTANTS
  incLines = 2
  Modes = {"fork", "bkgd", "sync", "info"}
  Ops = {"Stop", "Dialog", "TakeErrorFile", "Unterminated"}
  Outputs <- MCTailOutputs
  OtherChild = FALSE
  MaxLines = 3
  MaxPieces = 2
  MaxRuns = 3
  MaxDialogs = 2
INVARIANTS
  TypeOK
  NothingLeftBehind
  ReadsOpenFile
  NeverClosedTwice
PROPERTIES
  RunsEnd
CHECK_DEADLOCK FALSE
