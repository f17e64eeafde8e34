\* Everything may fail but fclose().
SPECIFICATION FairSpec
CONSTANTS
  Names = {"a", "b"}
  BackedUp = {"a"}
  Links = {}
  backupOf <- OwnBackups
  minDifModCheck = 2
  Ops = {"BackupFails", "NoBackup", "CreateFails", "WriteFails"}
  MaxTexts = 3
  MaxTime = 3
INVARIANTS
  TypeOK
  UnmodifiedIsOnDisk
  AsksOnceAboutChanges
  ReadOnlyStays
PROPERTIES
  ChangeIsTold
CHECK_DEADLOCK FALSE
