\* The ring itself: it wraps, fills, is flushed and reloaded.
SPECIFICATION FairSpec
CONSTANTS
  MAX_UNDO = 3
  chA = chA
  chB = chB
  Chars <- MCOneChar
  Clips <- MCOneClip
  MaxText = 2
  MaxGroup = 3
  MaxEdits = 3
  MaxSaves = 1
  MaxLeaks = 1
  Ops = {"PutChar", "OvrPutChar", "OvrPutCharNoRoom", "BackSpace", "DelChar", "Move", "DelEnd", "DelStart", "DeleteSelect", "InsertBuffer", "SelRectHide", "LockUndo", "Undo", "Redo", "RemapCodePageBuffer", "ReLoadFile", "SaveFile", "ToggleMoveOnPaste"}
INVARIANTS
  TypeOK
  RingInOrder
  CellsAccounted
PROPERTIES
  LoopsEnd
CHECK_DEADLOCK FALSE
