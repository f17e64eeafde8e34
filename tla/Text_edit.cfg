SPECIFICATION Spec
CONSTANTS
  Files <- MCFiles
  Clips <- MCClips
  Keys = {"b", " "}
  Uses = {"select", "mark", "special"}
  Tracked = "m"
  Unsigned = 64
  Amount = 2
  MaxLen = 3
  MaxColumn = 3
INVARIANTS
  TypeOK
  LinesInStep
  
  Follows
  SelectsText
CHECK_DEADLOCK FALSE
PROPERTIES
  EditsLines
