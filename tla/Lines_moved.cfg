SPECIFICATION Spec
CONSTANTS
  Files = {"f"}
  Lines = {a, b, c}
  FirstLines = 2
  NoList = NoList
  Unknown = Unknown
  opsEnd = "wrap"
  MaxLines = 3
  MaxSpecial = 2
  MaxMessages = 0
INVARIANT BreakpointsMoved
CHECK_DEADLOCK FALSE
