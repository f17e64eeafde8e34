\* Every edit of the line against the linear history.
SPECIFICATION HSpec
CONSTANTS
  MAX_UNDO = 4
  chA = chA
  chB = chB
  Chars <- MCChars
  Clips <- MCClips
  MaxText = 3
  MaxGroup = 2
  MaxEdits = 5
  MaxSaves = 0
  MaxLeaks = 0
  Ops = {"PutChar", "OvrPutChar", "BackSpace", "DelChar", "Move", "DelEnd", "DeleteSelect", "InsertBuffer", "Undo", "Redo"}
INVARIANTS
  OpenCellMatches
PROPERTIES
  LinearHistorySpec
CHECK_DEADLOCK FALSE
