CONSTANTS
  Buckets = {b1}
  Keys = {k1}
  Reqs = {r1, r2, r3}
  Ops = {"put", "delete", "delete_bucket"}
  Chunks = 1
  Drops = FALSE
  IoFaults = FALSE
  Old = Old
  None = None
SYMMETRY Symmetry
SPECIFICATION Spec
INVARIANTS
  MetaEmptiesWithObjects
