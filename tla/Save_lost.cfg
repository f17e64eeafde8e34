\* fclose() fails.
SPECIFICATION Spec
CONSTANTS
  Names = {"a", "b"}
  BackedUp = {"a"}
  Links = {}
  backupOf <- OwnBackups
  minDifModCheck = 1
  Ops = {"CloseFails"}
  MaxTexts = 2
  MaxTime = 2
INVARIANTS
  UnmodifiedIsOnDisk
CHECK_DEADLOCK FALSE
