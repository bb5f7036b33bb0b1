CONSTANTS
  Buckets = {b1}
  Keys = {k1}
  Reqs = {r1, r2}
  Ops = {"put", "get", "head", "delete", "list", "list_buckets", "create_bucket", "delete_bucket"}
  MpOps = {"create_upload", "upload_part", "complete", "abort"}
  PartNos = {1, 2}
  PartLists <- TwoOrTwice
  Chunks = 1
  Drops = TRUE
  IoFaults = TRUE
  Old = Old
  None = None
SPECIFICATION MpFairSpec
INVARIANTS
  BodiesAreWhole
  LastWriterWins
PROPERTIES
  RequestsEnd
