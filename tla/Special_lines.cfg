SPECIFICATION Spec
CONSTANTS
  Files = {"f"}
  Lines = {a, b, c}
  FirstLines = 2
  NoList = NoList
  Unknown = Unknown
  opsEnd = "wrap"
  MaxLines = 2
  MaxSpecial = 2
  MaxMessages = 1
SYMMETRY Symmetry
INVARIANTS
  TypeOK
  FollowsText
  JumpsToLine
  BreakpointsDrawn
CHECK_DEADLOCK FALSE
