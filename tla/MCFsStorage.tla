---- MODULE MCFsStorage ----
EXTENDS FsStorage, TLC
Symmetry == Permutations(Reqs) \cup Permutations(Keys)
====
