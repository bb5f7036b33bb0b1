CONSTANTS
  SmallFiles = {s1}
  LargeFiles = {l1}
  Parts = 1
  None = None
SPECIFICATION Spec
INVARIANTS
  SmallDoneIsStored
