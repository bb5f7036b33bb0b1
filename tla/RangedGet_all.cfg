CONSTANTS
  U64Max = 5
  MaxSize = 5
  Offsets = {0, 1, 2, 3, 4, 5}
  None = None
SPECIFICATION Spec
INVARIANTS
  WindowsAreWithin
  ReplyIsExact
