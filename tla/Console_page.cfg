CONSTANTS
  SmallFiles = {s1}
  LargeFiles = {l1}
  Parts = 2
  None = None
  Names = {n1, n2}
  Blank = Blank
  Budget = 6
  CallCost = 2
  FileCost = 3
SPECIFICATION ConsoleFairSpec
INVARIANTS
  PanelShowsPending
  PendingCountsUnsettled
  LargeDoneIsStored
  LargeIsWholeOrAbsent
  AbortedUploadsAreGone
  OneCallPerDialog
  LateAnswerDiscardsNothing
PROPERTIES
  ReloadWaitsForAll
  UploadsKeepContract
  UploadsSettle
  SuccessReloads
  DialogsSettle
