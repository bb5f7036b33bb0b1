CONSTANTS
  Buckets = {b1}
  Keys = {k1}
  Reqs = {r1, r2, r3}
  Ops = {"put", "get", "head", "delete", "list", "create_bucket", "delete_bucket", "list_buckets"}
  Chunks = 1
  Drops = TRUE
  IoFaults = TRUE
  Old = Old
  None = None
SYMMETRY Symmetry
SPECIFICATION Spec
INVARIANTS
  TypeOK
  BodiesAreWhole
  NoTempLeak
  LastWriterWins
  ReadsSeeLastWriter
  QuietListingIsExact
  LastBucketOpWins
