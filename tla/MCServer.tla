---- MODULE MCServer ----
EXTENDS Server, TLC
Symmetry == Permutations(CallReqs) \cup Permutations(Reqs \ CallReqs)
              \cup Permutations(Buckets) \cup Permutations(Keys)

(* What is explored: beside a delete_objects one other request, on any of  *)
(* the keys; beside the other handlers all the requests, on one key.       *)
ClientReqs == {r \in Reqs \ CallReqs : pc[r] # "idle"}
UsedKeys == {k \in Keys : \/ \E r \in ClientReqs : Key(r) = k
                          \/ \E b \in Buckets : objects[b][k] # None}

Bounds ==
  /\ handler.op = "delete_objects" => Cardinality(ClientReqs) <= 1
  /\ handler.op \in {"head_bucket", "list_buckets_fn"} => Cardinality(UsedKeys) <= 1
====
