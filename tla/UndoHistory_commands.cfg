\* Commands of up to two cells and one save, on a ring that does not fill.
SPECIFICATION HSpec
CONSTANTS
  MAX_UNDO = 6
  chA = chA
  chB = chB
  Chars <- MCChars
  Clips <- MCClips
  MaxText = 4
  MaxGroup = 2
  MaxEdits = 5
  MaxSaves = 1
  MaxLeaks = 0
  Ops = {"DelEnd", "DeleteSelect", "InsertBuffer", "Move", "LockUndo", "Undo", "Redo", "SaveFile"}
INVARIANTS
  LandsOnCommand
  UnmodifiedIsSaved
PROPERTIES
  RedoStaysInChain
CHECK_DEADLOCK FALSE
