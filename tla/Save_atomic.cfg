\* Backups are made, and writing a file that could be created succeeds.
SPECIFICATION Spec
CONSTANTS
  Names = {"a", "b"}
  BackedUp = {"a", "b"}
  Links = {"b"}
  backupOf <- OwnBackups
  minDifModCheck = 1
  Ops = {"Crash", "BackupFails", "CreateFails", "Refused", "QuitCanceled", "SameSecond",
         "OtherChecked", "BackupsKilled"}
  MaxTexts = 3
  MaxTime = 2
PROPERTIES
  AtomicSpec
CHECK_DEADLOCK FALSE
