\* Everything but a second help window.
SPECIFICATION Spec
CONSTANTS
  Names = {1, 2}
  NoBackup = {}
  Kinds = {"calendar", "inspector"}
  maxOpenEditorsSame = 1
  Limits = {1, 3}
  Removal <- MCSome
  MaxWindows = 3
  MaxTime = 1
  MaxRestarts = 1
INVARIANTS
  TypeOK
  SectionsInOrder
  NumbersInOrder
  ListedOnce
  RememberedOnce
  ClosedInOrder
  RestoresDesktop
  ReadsEntries
PROPERTIES
  ForgetsOldest
CHECK_DEADLOCK FALSE
