CONSTANTS
  Buckets = {b1}
  Keys = {k1}
  Reqs = {r1, r2, r3}
  Ops = {}
  MpOps = {"upload_part", "complete", "abort"}
  PartNos = {1, 2}
  PartLists <- OnlyTwo
  Chunks = 1
  Drops = TRUE
  IoFaults = TRUE
  Old = Old
  None = None
SYMMETRY Symmetry
SPECIFICATION MpSpec
INVARIANTS
  CompleteUsesLastParts
  AbortIsFinal
  MpNoTempLeak
  UploadsAreNotLost
