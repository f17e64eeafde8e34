\* Lines written whole or in two writes, and terminated: the job as promised.
SPECIFICATION Spec
CONSTANTS
  incLines = 2
  Modes = {"fork", "bkgd", "sync"}
  Ops = {"Stop", "EarlyStop", "Dialog"}
  Outputs <- MCOutputs
  OtherChild = FALSE
  MaxLines = 5
  MaxPieces = 1
  MaxRuns = 3
  MaxDialogs = 2
PROPERTIES
  JobSpec
CHECK_DEADLOCK FALSE
