CONSTANTS
  Buckets = {b1, b2}
  Keys = {k1, k2}
  Reqs = {c1, c2, c3, r1, r2}
  CallReqs = {c1, c2, c3}
  Ops = {"put", "delete", "list", "list_buckets", "create_bucket", "delete_bucket"}
  ClientOps = {"put", "create_bucket", "delete_bucket"}
  MaxBatch = 2
  Chunks = 0
  Drops = FALSE
  IoFaults = TRUE
  Old = Old
  None = None
SYMMETRY Symmetry
CONSTRAINT Bounds
SPECIFICATION ServerSpec
INVARIANTS
  BatchDeletesEveryKey
  HeadAgreesWithPut
  TableShowsQuietBuckets
