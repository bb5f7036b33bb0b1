CONSTANTS
  Buckets = {b1}
  Keys = {k1}
  Reqs = {r1, r2}
  Ops = {"delete_bucket"}
  MpOps = {"complete"}
  PartNos = {1}
  PartLists <- Single
  Chunks = 1
  Drops = FALSE
  IoFaults = FALSE
  Old = Old
  None = None
SYMMETRY Symmetry
SPECIFICATION MpSpec
INVARIANTS
  CompleteFindsItsBucket
