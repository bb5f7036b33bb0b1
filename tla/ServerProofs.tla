----------------------------- MODULE ServerProofs -----------------------------
(***************************************************************************)
(* Theorems about the handlers that make several storage calls, for any    *)
(* number of requests of other clients between and during them.            *)
(***************************************************************************)
EXTENDS Server, FsStorageProofs, FiniteSetTheorems, SequenceTheorems

(***************************************************************************)
(* What the store promises of a handler's calls.                           *)
(***************************************************************************)
(* A body whose unlink did not fail, after the last put of its key was     *)
(* issued, stays away.                                                     *)
Gone(c, b, k) ==
  /\ req[c] = [op |-> "delete", bkt |-> b, key |-> k]
  /\ pc[c] = "done" => res[c] \in {"Ok", "NoSuchKey"}
  /\ PutsBefore(c, b, k)
  => objects[b][k] = None

(* The delete_bucket has not removed .bucket.json yet.                     *)
Harmless(x) ==
  pc[x] \in {"check_empty", "rm_objects", "recheck_objects", "rm_meta", "recheck_meta", "rm_json"}

(* The directory of a bucket is there exactly when .bucket.json is, and    *)
(* that is complete, when the bucket's operations ran one at a time and    *)
(* none is between them.                                                   *)
Settled(b) ==
  \A x \in BucketOps(b) :
    /\ Clean(x) \/ Harmless(x)
    /\ \A y \in BucketOps(b) \ {x} : Ordered(x, y)

DirHasJson(b) ==
  Settled(b) => /\ b \in bdir <=> bjson[b] # None
                /\ bjson[b] # None => bjson[b].ok

(* A listing of the buckets names those that nobody changes since.         *)
Names(c) == names[c] \cup {e[1] : e \in listed[c]}

TableInv(c) ==
  req[c].op = "list_buckets" =>
    /\ listed[c] \subseteq Buckets \X {None}
    /\ \A b \in Buckets : QuietBucket(b, c) =>
         /\ pc[c] = "read_json" => (b \in Names(c) <=> b \in bdir)
         /\ Succeeded(c) => (<<b, None>> \in listed[c] <=> b \in bdir)
    /\ pc[c] = "done" => res[c] \in {"Ok", "Io"}
    /\ pc[c] = "done" /\ (\A b \in Buckets : QuietBucket(b, c)) => res[c] = "Ok"

(* A listing of a bucket has what is stored there, and fails only for a    *)
(* bucket that is not there, if nobody changes either since.               *)
RowInv(l) ==
  req[l].op = "list" =>
    /\ Bkt(l) \in Buckets
    /\ pc[l] = "done" =>
         /\ Calm(l) => res[l] \in {"Ok", "NoSuchBucket"}
         /\ Calm(l) /\ res[l] = "Ok" => listed[l] = Stored(Bkt(l))
         /\ QuietBucket(Bkt(l), l) /\ res[l] = "NoSuchBucket" => Bkt(l) \notin bdir

(***************************************************************************)
(* Deletes.                                                                *)
(***************************************************************************)
(* Only the put of a key that is at its rename gives it a body.            *)
LEMMA BodyChanges ==
  ASSUME TypeInv, Placed, NEW x \in Reqs, WriterStep(x) \/ OtherStep(x),
         NEW b \in Buckets, NEW k \in Keys
  PROVE  \/ objects'[b][k] = objects[b][k]
         \/ objects'[b][k] = None
         \/ req[x].op = "put" /\ Bkt(x) = b /\ Key(x) = k /\ pc[x] = "stream"
<1> USE DEF TypeInv, TypeOK
<1>1. CASE RenameBody(x)
  <2>1. pc[x] = "stream" /\ req[x].op = "put"
    BY <1>1 DEF RenameBody, Placed, PutLabels
  <2>2. objects' = [objects EXCEPT ![Bkt(x)][Key(x)] = otmp[x]]
    BY <1>1 DEF RenameBody
  <2> QED
    BY <2>1, <2>2
<1>2. ASSUME NEW c \in Buckets, NEW j \in Keys, DeleteObject(x, c, j)
      PROVE  objects'[b][k] = objects[b][k] \/ objects'[b][k] = None
  <2>1. objects' = [objects EXCEPT ![c][j] = None] \/ objects' = objects
    BY <1>2 DEF DeleteObject
  <2>2. objects \in [Buckets -> [Keys -> File]]
    OBVIOUS
  <2> QED
    BY ONLY <1>2, <2>1, <2>2, b \in Buckets, k \in Keys
<1>3. WriterStep(x) =>
        \/ UNCHANGED objects \/ RenameBody(x)
        \/ \E c \in Buckets, j \in Keys : DeleteObject(x, c, j)
  BY DEF WriterStep, PutObject, CreateBodyTemp, WriteChunk, BodyError,
         UnlinkBodyTemp, CreateSidecarTemp, RenameSidecar, SidecarError,
         UnlinkSidecarTemp, DeleteSidecar, DeleteSidecarError, Drop, fileVars
<1> QED
  BY <1>1, <1>2, <1>3 DEF OtherStep

LEMMA GoneStep ==
  ASSUME TypeInv, Placed, PredecessorsEnded, NEW x \in Reqs, Issue(x) \/ Advance(x) \/ Fault(x),
         Footprint(x), WriterStep(x) \/ OtherStep(x),
         NEW c \in Reqs, NEW b \in Buckets, NEW k \in Keys, Gone(c, b, k)
  PROVE  Gone(c, b, k)'
<1> SUFFICES ASSUME req'[c] = [op |-> "delete", bkt |-> b, key |-> k], PutsBefore(c, b, k)',
                    pc'[c] = "done" => res'[c] \in {"Ok", "NoSuchKey"}
             PROVE  objects'[b][k] = None
  BY DEF Gone
<1>1. CASE pc[c] = "idle" /\ c = x
  <2>1. WriterStep(x)
    BY <1>1 DEF OtherStep, WriterOps
  <2>2. DeleteObject(x, b, k)
    BY <1>1, <2>1 DEF WriterStep, TypeInv, TypeOK, Placed, NoRequest, PutObject, DeleteObject, CreateBodyTemp,
           WriteChunk, BodyError, UnlinkBodyTemp, RenameBody, CreateSidecarTemp, RenameSidecar,
           SidecarError, UnlinkSidecarTemp, DeleteSidecar, DeleteSidecarError, Drop, Accept
  <2> QED
    BY <1>1, <2>2 DEF DeleteObject, Return, TypeInv, TypeOK
<1>2. CASE pc[c] # "idle" \/ c # x
  <2>1. req'[c] = req[c] /\ before'[c] = before[c]
    BY <1>2 DEF Footprint, OthersAlone
  <2>2. PutsBefore(c, b, k)
    <3> SUFFICES ASSUME NEW w \in Writers(b, k), req[w].op = "put"
                 PROVE  w \in before[c]
      BY DEF PutsBefore
    <3>1. w \in Writers(b, k)'
      BY WritersGrow
    <3>2. req'[w].op = "put"
      BY DEF Footprint, OthersAlone, Placed, NoRequest, Writers
    <3> QED
      BY <2>1, <3>1, <3>2 DEF PutsBefore
  <2>3. objects[b][k] = None
    <3>1. pc[c] = "done" => res[c] \in {"Ok", "NoSuchKey"}
      BY DEF Footprint, OthersAlone
    <3> QED
      BY <2>1, <2>2, <3>1 DEF Gone
  <2>4. ~(req[x].op = "put" /\ Bkt(x) = b /\ Key(x) = k /\ pc[x] = "stream")
    <3> SUFFICES ASSUME req[x].op = "put", Bkt(x) = b, Key(x) = k
                 PROVE  pc[x] # "stream"
      OBVIOUS
    <3>1. x \in before[c]
      BY <2>2 DEF PutsBefore, Writers, WriterOps
    <3> QED
      BY <3>1 DEF PredecessorsEnded, Ended
  <2> QED
    BY <2>3, <2>4, BodyChanges
<1> QED
  BY <1>1, <1>2

(***************************************************************************)
(* Buckets.                                                                *)
(***************************************************************************)
LEMMA BucketOpsGrow ==
  ASSUME Placed, NEW x \in Reqs, Footprint(x), NEW b
  PROVE  /\ BucketOps(b) \subseteq BucketOps(b)'
         /\ BucketOps(b)' \subseteq BucketOps(b) \cup {x}
<1>1. \A w \in Reqs \ {x} : w \in BucketOps(b) <=> w \in BucketOps(b)'
  BY DEF Footprint, OthersAlone, BucketOps, Bkt
<1>2. x \in BucketOps(b) => x \in BucketOps(b)'
  BY DEF Footprint, Placed, NoRequest, BucketOps, Bkt
<1>3. BucketOps(b) \subseteq Reqs /\ BucketOps(b)' \subseteq Reqs
  BY DEF BucketOps
<1> QED
  BY <1>1, <1>2, <1>3

(* How a bucket operation comes to rest.                                   *)
LEMMA BucketSettles ==
  ASSUME TypeInv, Placed, NEW x \in Reqs, RunsOp(x), Issue(x) \/ Advance(x) \/ Fault(x),
         NEW b \in Buckets, x \in BucketOps(b)', Clean(x)' \/ Harmless(x)'
  PROVE  \/ Succeeded(x)' /\ req'[x].op = "create_bucket"
         \/ bjson'[b] = None /\ b \notin bdir'
         \/ UNCHANGED <<bdir, bjson>> /\ (pc[x] = "idle" \/ Harmless(x))
<1> USE DEF TypeInv, TypeOK, Accept, Goto, Return, Bkt, dirVars, callVars, ctlVars, BucketOps,
            Clean, Harmless, Succeeded
<1>1. CASE CreateStep(x)
  BY <1>1 DEF RunsOp, CreateLabels, CreateStep, CreateBucket, MakeObjectsDir, MakeMetaDir,
              OpenBucketJson, WriteBucketJson
<1>2. CASE RemoveStep(x)
  BY <1>2 DEF RunsOp, RemoveLabels, RemoveStep, DeleteBucket, CheckEmpty, RemoveObjectsDir,
              RecheckObjects, RemoveMetaDir, RecheckMeta, RemoveBucketJson, RemoveBucketDir
<1>3. ~ReadStep(x) /\ ~ListStep(x) /\ ~TableStep(x)
  BY DEF RunsOp, ListLabels, ReadStep, GetObject, HeadObject, OpenBody,
         ListStep, ListObjects, ReadObjectsDir, ListEntry, ListDone,
         TableStep, ListBuckets, ReadBucketJson, ListBucketsDone
<1>4. ~WriterStep(x)
  BY DEF WriterStep, Placed, PutLabels, PutObject, DeleteObject, CreateBodyTemp, WriteChunk,
         BodyError, UnlinkBodyTemp, RenameBody, CreateSidecarTemp, RenameSidecar,
         SidecarError, UnlinkSidecarTemp, DeleteSidecar, DeleteSidecarError, Drop
<1> QED
  BY <1>1, <1>2, <1>3, <1>4, StepKinds

LEMMA DirHasJsonStep ==
  ASSUME TypeInv, Placed, PredecessorsEnded, NEW x \in Reqs, RunsOp(x),
         Issue(x) \/ Advance(x) \/ Fault(x), Footprint(x),
         NEW b \in Buckets, DirHasJson(b), HasBucket(x, b)'
  PROVE  DirHasJson(b)'
<1> SUFFICES ASSUME Settled(b)'
             PROVE  /\ b \in bdir' <=> bjson'[b] # None
                    /\ bjson'[b] # None => bjson'[b].ok
  BY DEF DirHasJson
<1>1. \A w \in Reqs \ {x} : /\ pc'[w] = pc[w] /\ res'[w] = res[w]
                            /\ before'[w] = before[w] /\ x \notin before[w]
  BY DEF Footprint, OthersAlone, PredecessorsEnded, Ended
<1>2. BucketOps(b) \subseteq BucketOps(b)' /\ BucketOps(b)' \subseteq BucketOps(b) \cup {x}
      /\ BucketOps(b)' \subseteq Reqs
  BY BucketOpsGrow DEF BucketOps
<1>3. (x \in BucketOps(b) => Harmless(x)) => Settled(b)
  <2> SUFFICES ASSUME x \in BucketOps(b) => Harmless(x), NEW w \in BucketOps(b)
               PROVE  /\ Clean(w) \/ Harmless(w)
                      /\ \A y \in BucketOps(b) \ {w} : Ordered(w, y)
    BY DEF Settled
  <2>1. Clean(w) \/ Harmless(w)
    BY <1>1, <1>2 DEF Settled, Clean, Harmless
  <2>2. x \in BucketOps(b) => before'[x] = before[x]
    BY DEF BucketOps, Placed, NoRequest, Footprint
  <2>3. \A y \in BucketOps(b) \ {w} : Ordered(w, y)
    BY <1>1, <1>2, <2>2 DEF Settled, Ordered
  <2> QED
    BY <2>1, <2>3
<1>4. CASE x \notin BucketOps(b)'
  <2>1. SameBucket(b)
    BY <1>4, BucketFootprint
  <2>2. DirHasJson(b) /\ Settled(b)
    BY <1>2, <1>3, <1>4
  <2> QED
    BY <2>1, <2>2 DEF DirHasJson, SameBucket
<1>5. CASE x \in BucketOps(b)' /\ Succeeded(x)' /\ req'[x].op = "create_bucket"
  <2>1. ASSUME NEW w \in BucketOps(b)', w # x
        PROVE  w \in before'[x]
    <3>1. w \in Reqs \ {x}
      BY <1>2, <2>1
    <3>2. w \in before'[x] \/ x \in before'[w]
      BY <1>5, <2>1 DEF Settled, Ordered
    <3> QED
      BY <1>1, <3>1, <3>2
  <2>2. AloneOnBucket(x, b)'
    BY <1>5, <2>1 DEF AloneOnBucket
  <2>3. Whole(b)'
    BY <1>5, <2>2 DEF HasBucket, Made
  <2> QED
    BY <2>3 DEF Whole
<1>6. CASE x \in BucketOps(b)' /\ ~(Succeeded(x)' /\ req'[x].op = "create_bucket")
  <2>1. Clean(x)' \/ Harmless(x)'
    BY <1>6 DEF Settled
  <2>2. \/ bjson'[b] = None /\ b \notin bdir'
        \/ UNCHANGED <<bdir, bjson>> /\ (pc[x] = "idle" \/ Harmless(x))
    BY <1>6, <2>1, BucketSettles
  <2>3. pc[x] = "idle" => x \notin BucketOps(b)
    BY DEF BucketOps, Placed, NoRequest
  <2> QED
    BY <1>3, <2>2, <2>3 DEF DirHasJson
<1> QED
  BY <1>4, <1>5, <1>6

(***************************************************************************)
(* A bucket that is quiet for a request after a step of another one was so *)
(* before, and the step does not change it.                                *)
(***************************************************************************)
LEMMA QuietUndisturbed ==
  ASSUME TypeInv, Placed, PredecessorsEnded, NEW x \in Reqs, RunsOp(x),
         Issue(x) \/ Advance(x) \/ Fault(x), Footprint(x),
         NEW c \in Reqs \ {x}, NEW b \in Buckets, QuietBucket(b, c)'
  PROVE  QuietBucket(b, c) /\ SameBucket(b)
<1>1. before'[c] = before[c] /\ x \notin before[c]
  BY DEF Footprint, OthersAlone, PredecessorsEnded, Ended
<1>2. x \notin BucketOps(b)'
  BY <1>1 DEF QuietBucket
<1>3. SameBucket(b)
  BY <1>2, BucketFootprint
<1>4. BucketOps(b)' = BucketOps(b) /\ BucketOps(b) \subseteq Reqs \ {x}
  BY <1>2, BucketOpsGrow DEF BucketOps
<1>5. \A w \in Reqs \ {x} : pc'[w] = pc[w] /\ res'[w] = res[w] /\ before'[w] = before[w]
  BY DEF Footprint, OthersAlone
<1>6. QuietBucket(b, c)
  BY <1>1, <1>4, <1>5 DEF QuietBucket, Clean, Ordered
<1> QED
  BY <1>3, <1>6

(* A bucket that is quiet for a listing under way is settled.              *)
LEMMA QuietIsSettled ==
  ASSUME Placed, PredecessorsEnded, NEW x \in Reqs, Footprint(x), NEW b \in Buckets,
         x \notin BucketOps(b)', QuietBucket(b, x)', DirHasJson(b)
  PROVE  /\ b \in bdir <=> bjson[b] # None
         /\ bjson[b] # None => bjson[b].ok
         /\ pc[x] # "idle" => QuietBucket(b, x)
<1>1. BucketOps(b)' = BucketOps(b) /\ BucketOps(b) \subseteq Reqs \ {x}
  BY BucketOpsGrow DEF BucketOps
<1>2. \A w \in Reqs \ {x} : pc'[w] = pc[w] /\ res'[w] = res[w] /\ before'[w] = before[w]
  BY DEF Footprint, OthersAlone
<1>3. Settled(b)
  BY <1>1, <1>2 DEF QuietBucket, Settled, Clean, Ordered
<1>4. pc[x] # "idle" => before'[x] = before[x]
  BY DEF Footprint
<1>5. pc[x] # "idle" => QuietBucket(b, x)
  BY <1>1, <1>2, <1>4 DEF QuietBucket, Clean, Ordered
<1> QED
  BY <1>3, <1>5 DEF DirHasJson

LEMMA TableUndisturbed ==
  ASSUME TypeInv, Placed, PredecessorsEnded, NEW x \in Reqs, RunsOp(x),
         Issue(x) \/ Advance(x) \/ Fault(x), Footprint(x),
         NEW c \in Reqs \ {x}, TableInv(c)
  PROVE  TableInv(c)'
<1>1. /\ pc'[c] = pc[c] /\ res'[c] = res[c] /\ req'[c] = req[c]
      /\ names'[c] = names[c] /\ listed'[c] = listed[c]
  BY DEF Footprint, OthersAlone
<1>2. \A b \in Buckets : QuietBucket(b, c)' => QuietBucket(b, c) /\ (b \in bdir' <=> b \in bdir)
  BY QuietUndisturbed DEF SameBucket
<1> QED
  BY <1>1, <1>2 DEF TableInv, Names, Succeeded

(* The listing's own steps.                                                *)
LEMMA TableOwnStep ==
  ASSUME TypeInv, Placed, PredecessorsEnded, NEW c \in Reqs, RunsOp(c),
         Issue(c) \/ Advance(c) \/ Fault(c), Footprint(c),
         \A b \in Buckets : DirHasJson(b), Fresh(c), TableInv(c)
  PROVE  TableInv(c)'
<1> SUFFICES ASSUME req'[c].op = "list_buckets"
             PROVE  TableInv(c)'
  BY DEF TableInv
<1> USE DEF TypeInv, TypeOK, Accept, Goto, Return, callVars, ctlVars, readVars, dirVars
<1>1. ASSUME NEW b \in Buckets, QuietBucket(b, c)'
      PROVE  /\ b \in bdir <=> bjson[b] # None
             /\ bjson[b] # None => bjson[b].ok
             /\ pc[c] # "idle" => QuietBucket(b, c)
  <2>1. c \notin BucketOps(b)'
    BY DEF BucketOps
  <2> QED
    BY <1>1, <2>1, QuietIsSettled
<1>2. CASE ListBuckets(c)
  <2>1. /\ pc'[c] = "read_json" /\ names'[c] = bdir /\ listed'[c] = {} /\ bdir' = bdir
    BY <1>2 DEF ListBuckets, Fresh
  <2> QED
    BY <2>1 DEF TableInv, Names, Succeeded
<1>3. CASE ReadBucketJson(c)
  <2>1. /\ pc[c] = "read_json" /\ req'[c] = req[c] /\ bdir' = bdir
        /\ names[c] \subseteq Buckets
    BY <1>3 DEF ReadBucketJson, Located
  <2>2. PICK d \in names[c] :
          \/ /\ bjson[d] # None => bjson[d].ok
             /\ names'[c] = names[c] \ {d}
             /\ listed'[c] = IF bjson[d] = None THEN listed[c] ELSE listed[c] \cup {<<d, None>>}
             /\ pc'[c] = "read_json"
          \/ /\ bjson[d] # None
             /\ ~bjson[d].ok
             /\ pc'[c] = "done" /\ res'[c] = "Io"
             /\ listed'[c] = listed[c]
    BY <1>3, <2>1 DEF ReadBucketJson
  <2>3. d \in Buckets
    BY <2>1, <2>2
  <2>4. listed'[c] \subseteq Buckets \X {None}
    BY <2>1, <2>2, <2>3 DEF TableInv
  <2>5. ASSUME NEW b \in Buckets, QuietBucket(b, c)', pc'[c] = "read_json"
        PROVE  b \in Names(c)' <=> b \in bdir
    <3>1. b \in Names(c) <=> b \in bdir
      BY <1>1, <2>1, <2>5 DEF TableInv
    <3>2. CASE b = d
      <4>1. d \in Names(c)
        BY <2>2 DEF Names
      <4>2. bjson[d] # None
        BY <1>1, <2>5, <3>1, <3>2, <4>1
      <4>3. <<d, None>> \in listed'[c]
        BY <2>2, <2>5, <4>2
      <4>4. d \in Names(c)'
        BY <4>3 DEF Names
      <4> QED
        BY <3>1, <3>2, <4>1, <4>4
    <3>3. CASE b # d
      <4>1. Names(c)' \ {d} = Names(c) \ {d}
        BY <2>2, <2>5 DEF Names
      <4> QED
        BY <3>1, <3>3, <4>1
    <3> QED
      BY <3>2, <3>3
  <2>6. (\A b \in Buckets : QuietBucket(b, c)') => pc'[c] = "read_json"
    BY <1>1, <2>2, <2>3
  <2> QED
    BY <2>1, <2>2, <2>4, <2>5, <2>6 DEF TableInv, Succeeded
<1>4. CASE ListBucketsDone(c)
  <2>1. /\ pc[c] = "read_json" /\ req'[c] = req[c] /\ bdir' = bdir /\ names[c] = {}
        /\ pc'[c] = "done" /\ res'[c] = "Ok" /\ listed'[c] = listed[c]
    BY <1>4 DEF ListBucketsDone
  <2>2. listed[c] \subseteq Buckets \X {None}
    BY <2>1 DEF TableInv
  <2>3. ASSUME NEW b \in Buckets, QuietBucket(b, c)'
        PROVE  <<b, None>> \in listed[c] <=> b \in bdir
    <3>1. b \in Names(c) <=> b \in bdir
      BY <1>1, <2>1, <2>3 DEF TableInv
    <3>2. Names(c) = {e[1] : e \in listed[c]}
      BY <2>1 DEF Names
    <3>3. \A e \in listed[c] : e = <<e[1], None>>
      BY ONLY <2>2
    <3>4. <<b, None>>[1] = b
      OBVIOUS
    <3>5. <<b, None>> \in listed[c] <=> b \in {e[1] : e \in listed[c]}
      BY ONLY <3>3, <3>4
    <3> QED
      BY <3>1, <3>2, <3>5
  <2> QED
    BY <2>1, <2>2, <2>3 DEF TableInv, Succeeded
<1>5. CASE Drop(c)
  <2>1. pc[c] # "idle" /\ pc'[c] = "dropped" /\ listed'[c] = listed[c] /\ req'[c] = req[c]
    BY <1>5 DEF Drop
  <2> QED
    BY <2>1 DEF TableInv, Succeeded
<1>6. ListBuckets(c) \/ ReadBucketJson(c) \/ ListBucketsDone(c) \/ Drop(c)
  <2>1. WriterStep(c) => Drop(c)
    BY DEF WriterStep, Placed, PutLabels, PutObject, DeleteObject, CreateBodyTemp, WriteChunk,
           BodyError, UnlinkBodyTemp, RenameBody, CreateSidecarTemp, RenameSidecar, SidecarError,
           UnlinkSidecarTemp, DeleteSidecar, DeleteSidecarError
  <2>2. ~ReadStep(c) /\ ~ListStep(c)
    BY DEF RunsOp, ListLabels, ReadStep, GetObject, HeadObject, OpenBody,
           ListStep, ListObjects, ReadObjectsDir, ListEntry, ListDone
  <2>3. ~CreateStep(c) /\ ~RemoveStep(c)
    BY DEF RunsOp, CreateLabels, CreateStep, CreateBucket, MakeObjectsDir, MakeMetaDir,
           OpenBucketJson, WriteBucketJson, RemoveLabels, RemoveStep, DeleteBucket, CheckEmpty,
           RemoveObjectsDir, RecheckObjects, RemoveMetaDir, RecheckMeta, RemoveBucketJson,
           RemoveBucketDir
  <2> QED
    BY <2>1, <2>2, <2>3, StepKinds DEF TableStep
<1> QED
  BY <1>2, <1>3, <1>4, <1>5, <1>6

(***************************************************************************)
(* Listings of a bucket.                                                   *)
(***************************************************************************)
LEMMA RowUndisturbed ==
  ASSUME TypeInv, Placed, PredecessorsEnded, NEW x \in Reqs, RunsOp(x),
         Issue(x) \/ Advance(x) \/ Fault(x), Footprint(x),
         NEW l \in Reqs \ {x}, RowInv(l)
  PROVE  RowInv(l)'
<1> SUFFICES ASSUME req'[l].op = "list"
             PROVE  RowInv(l)'
  BY DEF RowInv
<1>1. /\ pc'[l] = pc[l] /\ res'[l] = res[l] /\ req'[l] = req[l] /\ listed'[l] = listed[l]
  BY DEF Footprint, OthersAlone
<1>2. Bkt(l)' = Bkt(l) /\ Bkt(l) \in Buckets
  BY <1>1 DEF RowInv, Bkt
<1>3. QuietBucket(Bkt(l), l)' => QuietBucket(Bkt(l), l) /\ (Bkt(l) \in bdir' <=> Bkt(l) \in bdir)
  BY <1>2, QuietUndisturbed DEF SameBucket
<1>4. ASSUME Calm(l)'
      PROVE  Calm(l) /\ Stored(Bkt(l))' = Stored(Bkt(l))
  <2>1. Calm(l) /\ \A k \in Keys : x \notin Writers(Bkt(l), k)'
    BY <1>4, CalmUndisturbed
  <2>2. \A k \in Keys : objects'[Bkt(l)][k] = objects[Bkt(l)][k]
    BY <1>2, <2>1 DEF Writers, Footprint, OtherKeysAlone, Bkt, Key
  <2>3. BodyNames(Bkt(l))' = BodyNames(Bkt(l))
    BY <1>2, <2>2 DEF BodyNames
  <2>4. {<<k, objects'[Bkt(l)][k]>> : k \in BodyNames(Bkt(l))}
          = {<<k, objects[Bkt(l)][k]>> : k \in BodyNames(Bkt(l))}
    BY <2>2 DEF BodyNames
  <2> QED
    BY <1>2, <2>1, <2>3, <2>4 DEF Stored
<1> QED
  BY <1>1, <1>2, <1>3, <1>4 DEF RowInv

LEMMA RowOwnStep ==
  ASSUME TypeInv, Placed, TempsOwned, \A b \in Buckets, k \in Keys : Agree(b, k),
         NEW l \in Reqs, RunsOp(l), Issue(l) \/ Advance(l) \/ Fault(l), Footprint(l),
         ListInv(l), RowInv(l)
  PROVE  RowInv(l)'
<1> SUFFICES ASSUME req'[l].op = "list"
             PROVE  RowInv(l)'
  BY DEF RowInv
<1> USE DEF TypeInv, TypeOK, Accept, Goto, Return, callVars, ctlVars, readVars, dirVars
<1>1. ASSUME NEW b \in Buckets, ListObjects(l, b)
      PROVE  RowInv(l)'
  BY <1>1 DEF ListObjects, RowInv, Bkt
<1>2. CASE ReadObjectsDir(l)
  BY <1>2 DEF ReadObjectsDir, RowInv, Bkt
<1>3. CASE ListEntry(l)
  <2>1. /\ pc[l] = "list_meta" /\ UNCHANGED <<req, before>>
        /\ \/ pc' = pc
           \/ pc'[l] = "done" /\ \E x \in names[l] : x \notin MetaNames(Bkt(l))
    BY <1>3 DEF ListEntry
  <2>2. Bkt(l)' = Bkt(l) /\ Bkt(l) \in Buckets
    BY <2>1 DEF RowInv, Bkt
  <2>3. ASSUME Calm(l)'
        PROVE  pc' = pc
    <3>1. Calm(l)
      BY <2>1, <2>3, CalmKept DEF ListLabels
    <3>2. Resolved(l)
      BY <2>1, <3>1 DEF ListInv
    <3>3. names[l] \subseteq MetaNames(Bkt(l))
      BY <2>2, <3>1, <3>2 DEF Calm, Agree, Resolved, BodyNames, MetaNames
    <3> QED
      BY <2>1, <3>3
  <2>4. res'[l] \notin {"Ok", "NoSuchBucket"} \/ pc' = pc
    BY <1>3 DEF ListEntry
  <2> QED
    BY <2>1, <2>2, <2>3, <2>4 DEF RowInv
<1>4. CASE ListDone(l)
  <2>1. /\ pc[l] = "list_meta" /\ UNCHANGED <<req, before, listed, objects>>
        /\ names[l] = {} /\ res'[l] = "Ok"
    BY <1>4 DEF ListDone, fileVars
  <2>2. Bkt(l)' = Bkt(l) /\ Bkt(l) \in Buckets /\ Stored(Bkt(l))' = Stored(Bkt(l))
    BY <2>1 DEF RowInv, Bkt, Stored, BodyNames
  <2>3. ASSUME Calm(l)'
        PROVE  listed[l] = Stored(Bkt(l))
    <3>1. Resolved(l)
      BY <2>1, <2>3, CalmKept DEF ListLabels, ListInv
    <3> QED
      BY <2>1, <3>1 DEF Resolved, Stored
  <2> QED
    BY <2>1, <2>2, <2>3 DEF RowInv
<1>5. CASE Drop(l)
  BY <1>5 DEF Drop, RowInv, Bkt
<1>6. (\E b \in Buckets : ListObjects(l, b)) \/ ReadObjectsDir(l) \/ ListEntry(l) \/ ListDone(l) \/ Drop(l)
  <2>1. WriterStep(l) => Drop(l)
    BY DEF WriterStep, Placed, PutLabels, PutObject, DeleteObject, CreateBodyTemp, WriteChunk,
           BodyError, UnlinkBodyTemp, RenameBody, CreateSidecarTemp, RenameSidecar, SidecarError,
           UnlinkSidecarTemp, DeleteSidecar, DeleteSidecarError
  <2>2. ~ReadStep(l) /\ ~TableStep(l)
    BY DEF RunsOp, ReadStep, GetObject, HeadObject, OpenBody,
           TableStep, ListBuckets, ReadBucketJson, ListBucketsDone
  <2>3. ~CreateStep(l) /\ ~RemoveStep(l)
    BY DEF RunsOp, CreateLabels, CreateStep, CreateBucket, MakeObjectsDir, MakeMetaDir,
           OpenBucketJson, WriteBucketJson, RemoveLabels, RemoveStep, DeleteBucket, CheckEmpty,
           RemoveObjectsDir, RecheckObjects, RemoveMetaDir, RecheckMeta, RemoveBucketJson,
           RemoveBucketDir
  <2> QED
    BY <2>1, <2>2, <2>3, StepKinds DEF ListStep
<1> QED
  BY <1>1, <1>2, <1>3, <1>4, <1>5, <1>6

(***************************************************************************)
(* The store's part of the inductive invariant.                            *)
(***************************************************************************)
StoreInv ==
  /\ ListingInv
  /\ \A c \in Reqs, b \in Buckets, k \in Keys : Gone(c, b, k)
  /\ \A b \in Buckets : DirHasJson(b)
  /\ \A c \in Reqs : TableInv(c)
  /\ \A l \in Reqs : RowInv(l)

LEMMA StoreInit == Init => StoreInv
<1> SUFFICES ASSUME Init
             PROVE  StoreInv
  OBVIOUS
<1>1. \A r \in Reqs : req[r] = NoRequest
  BY DEF Init
<1>2. ASSUME NEW b \in Buckets
      PROVE  DirHasJson(b)
  <2>1. PICK B \in SUBSET Buckets :
          /\ bdir = B
          /\ bjson = [c \in Buckets |-> IF c \in B THEN [ino |-> Old, ok |-> TRUE] ELSE None]
    BY DEF Init
  <2>2. [ino |-> Old, ok |-> TRUE] # None
    <3>1. [ino |-> Old, ok |-> TRUE] \in Json
      BY DEF Json, Inode
    <3> QED
      BY <3>1, ConstantsAssumption
  <2> QED
    BY <2>1, <2>2 DEF DirHasJson
<1>3. \A c \in Reqs, b \in Buckets, k \in Keys : Gone(c, b, k)
  BY <1>1 DEF Gone, NoRequest
<1>4. \A c \in Reqs : TableInv(c) /\ RowInv(c)
  BY <1>1 DEF TableInv, RowInv, NoRequest
<1> QED
  BY <1>2, <1>3, <1>4, ListingInit DEF StoreInv

LEMMA StoreStepInv == StoreInv /\ [Next]_vars => StoreInv'
<1> SUFFICES ASSUME StoreInv, [Next]_vars
             PROVE  StoreInv'
  OBVIOUS
<1> USE DEF StoreInv
<1>1. ListingInv'
  BY ListingStep
<1>2. ASSUME NEW x \in Reqs, Issue(x) \/ Advance(x) \/ Fault(x)
      PROVE  /\ \A c \in Reqs, b \in Buckets, k \in Keys : Gone(c, b, k)'
             /\ \A b \in Buckets : DirHasJson(b)'
             /\ \A c \in Reqs : TableInv(c)'
             /\ \A l \in Reqs : RowInv(l)'
  <2>1. /\ TypeInv /\ Placed /\ PredecessorsEnded /\ RunsOp(x) /\ TempsOwned
        /\ \A b \in Buckets, k \in Keys : Agree(b, k)
        /\ \A l \in Reqs : Fresh(l) /\ ListInv(l)
    BY DEF ListingInv, RequestInv, WriterInv
  <2>2. Footprint(x) /\ (WriterStep(x) \/ OtherStep(x))
    BY <1>2, <2>1, StepFootprint
  <2>3. \A c \in Reqs, b \in Buckets, k \in Keys : Gone(c, b, k)'
    BY <1>2, <2>1, <2>2, GoneStep
  <2>4. \A b \in Buckets : DirHasJson(b)'
    <3> SUFFICES ASSUME NEW b \in Buckets
                 PROVE  DirHasJson(b)'
      OBVIOUS
    <3>1. HasBucket(x, b)'
      BY <1>1 DEF ListingInv, RequestInv
    <3> QED
      BY <1>2, <2>1, <2>2, <3>1, DirHasJsonStep
  <2>5. ASSUME NEW c \in Reqs
        PROVE  TableInv(c)' /\ RowInv(c)'
    <3>1. CASE c = x
      BY <1>2, <2>1, <2>2, <3>1, TableOwnStep, RowOwnStep
    <3>2. CASE c # x
      BY <1>2, <2>1, <2>2, <3>2, TableUndisturbed, RowUndisturbed
    <3> QED
      BY <3>1, <3>2
  <2> QED
    BY <2>3, <2>4, <2>5
<1>3. CASE UNCHANGED vars
  <2> USE <1>3 DEF vars, dirVars, fileVars, callVars, ctlVars, readVars
  <2>1. \A c \in Reqs, b \in Buckets, k \in Keys : Gone(c, b, k)'
    BY DEF Gone, PutsBefore, Writers, Bkt, Key
  <2>2. \A b : BucketOps(b)' = BucketOps(b)
    BY DEF BucketOps, Bkt
  <2>3. \A b \in Buckets : DirHasJson(b)'
    BY <2>2 DEF DirHasJson, Settled, Clean, Harmless, Ordered
  <2>4. \A c \in Reqs : \A b \in Buckets : QuietBucket(b, c)' <=> QuietBucket(b, c)
    BY <2>2 DEF QuietBucket, Clean, Ordered
  <2>5. \A c \in Reqs : TableInv(c)'
    BY <2>4 DEF TableInv, Names, Succeeded
  <2>6. ASSUME NEW l \in Reqs
        PROVE  RowInv(l)'
    <3>1. Bkt(l)' = Bkt(l)
      BY DEF Bkt
    <3>2. Calm(l)' => Calm(l)
      BY DEF Calm, BucketWriters, SerialWriters, Writers, Clean, Ordered, Bkt, Key
    <3>3. Stored(Bkt(l))' = Stored(Bkt(l))
      BY <3>1 DEF Stored, BodyNames
    <3> QED
      BY <2>4, <3>1, <3>2, <3>3 DEF RowInv
  <2> QED
    BY <1>1, <2>1, <2>3, <2>5, <2>6
<1> QED
  BY <1>1, <1>2, <1>3 DEF Next, Quiescent

-----------------------------------------------------------------------------
(***************************************************************************)
(* The handler makes one call after the other.                             *)
(***************************************************************************)
OneCallAtATime ==
  /\ handler = NoHandler =>
       /\ call = None /\ answer = "none" /\ todo = <<>> /\ report = <<>>
       /\ \A c \in CallReqs : pc[c] = "idle"
  /\ handler # NoHandler =>
       /\ handler.op \in {"delete_objects", "head_bucket", "list_buckets_fn"}
       /\ call \in CallReqs
       /\ pc[call] # "idle"
       /\ answer # "none" => pc[call] = "done"
       /\ \A c \in CallReqs \ {call} : pc[c] \in {"idle", "done"}

(***************************************************************************)
(* A step of the store issues none of the handler's calls and takes no     *)
(* result back; a step of the handler issues one at most.                  *)
(***************************************************************************)
CallsKept ==
  \A c \in CallReqs :
    /\ req'[c] = req[c] /\ before'[c] = before[c]
    /\ pc'[c] = "idle" <=> pc[c] = "idle"
    /\ pc[c] = "done" => pc'[c] = "done" /\ res'[c] = res[c] /\ listed'[c] = listed[c]

Issues(r) ==
  /\ r \in CallReqs
  /\ pc[r] = "idle" /\ pc'[r] # "idle"
  /\ req[r] = NoRequest
  /\ before'[r] = Ended
  /\ \A c \in CallReqs \ {r} :
       /\ pc'[c] = pc[c] /\ res'[c] = res[c] /\ listed'[c] = listed[c]
       /\ req'[c] = req[c] /\ before'[c] = before[c]

LEMMA StoreStepKeepsCalls ==
  ASSUME StoreInv, StoreStep
  PROVE  CallsKept /\ UNCHANGED handlerVars /\ [Next]_vars
<1>1. UNCHANGED handlerVars
  BY DEF StoreStep
<1>2. TypeInv /\ Placed
  BY DEF StoreInv, ListingInv, RequestInv, WriterInv
<1>3. PICK x \in Reqs : (Issue(x) /\ x \notin CallReqs) \/ Advance(x) \/ Fault(x)
  BY DEF StoreStep
<1>4. Footprint(x) /\ (WriterStep(x) \/ OtherStep(x))
  BY <1>2, <1>3, StepFootprint
<1>5. pc'[x] # "idle"
  BY <1>2, <1>4 DEF TypeInv, TypeOK, OtherStep, WriterStep, Goto, Return, PutObject, DeleteObject,
     CreateBodyTemp, WriteChunk, BodyError, UnlinkBodyTemp, RenameBody, CreateSidecarTemp,
     RenameSidecar, SidecarError, UnlinkSidecarTemp, DeleteSidecar, DeleteSidecarError, Drop, ctlVars
<1>6. x \in CallReqs => pc[x] # "idle"
  BY <1>3 DEF Advance, Fault, CreateBodyTemp, WriteChunk, BodyError, UnlinkBodyTemp, RenameBody,
     CreateSidecarTemp, RenameSidecar, SidecarError, UnlinkSidecarTemp, DeleteSidecar,
     DeleteSidecarError, Drop, OpenBody, ReadObjectsDir, ListEntry, ListDone, ReadBucketJson,
     ListBucketsDone, MakeObjectsDir, MakeMetaDir, OpenBucketJson, WriteBucketJson, CheckEmpty,
     RemoveObjectsDir, RecheckObjects, RemoveMetaDir, RecheckMeta, RemoveBucketJson, RemoveBucketDir
<1>7. CallsKept
  BY <1>4, <1>5, <1>6, ServerAssumption DEF CallsKept, Footprint, OthersAlone
<1> QED
  BY <1>1, <1>3, <1>7 DEF Next

LEMMA CallIssued ==
  ASSUME StoreInv, NEW r \in CallReqs, Issue(r)
  PROVE  Issues(r) /\ [Next]_vars
<1>1. TypeInv /\ Placed /\ r \in Reqs
  BY ServerAssumption DEF StoreInv, ListingInv, RequestInv, WriterInv
<1>2. Footprint(r) /\ (WriterStep(r) \/ OtherStep(r))
  BY <1>1, StepFootprint
<1>3. pc[r] = "idle"
  BY DEF Issue, PutObject, GetObject, HeadObject, DeleteObject, ListObjects, CreateBucket,
         DeleteBucket, ListBuckets, Accept
<1>4. pc'[r] # "idle"
  BY <1>1, <1>2 DEF TypeInv, TypeOK, OtherStep, WriterStep, Goto, Return, PutObject, DeleteObject,
     CreateBodyTemp, WriteChunk, BodyError, UnlinkBodyTemp, RenameBody, CreateSidecarTemp,
     RenameSidecar, SidecarError, UnlinkSidecarTemp, DeleteSidecar, DeleteSidecarError, Drop, ctlVars
<1>5. Issues(r)
  BY <1>1, <1>2, <1>3, <1>4, ServerAssumption DEF Issues, Footprint, OthersAlone, Placed
<1> QED
  BY <1>1, <1>5 DEF Next

LEMMA OneCallKept ==
  ASSUME OneCallAtATime, CallsKept, UNCHANGED handlerVars
  PROVE  OneCallAtATime'
BY DEF OneCallAtATime, CallsKept, handlerVars

(***************************************************************************)
(* delete_objects has had an answer for the keys before the one it is at;  *)
(* the rest of its list is still to do.  Each key answered has a call that *)
(* deleted it, or is reported as an error.                                 *)
(***************************************************************************)
CallFor(c, b, k) == req[c] = [op |-> "delete", bkt |-> b, key |-> k]

DeletedBy(c, b, k) == CallFor(c, b, k) /\ pc[c] = "done" /\ res[c] \in {"Ok", "NoSuchKey"}

FailedFor(c, b, k) == CallFor(c, b, k) /\ pc[c] = "done" /\ res[c] \notin {"Ok", "NoSuchKey"}

Deleted(b, k) == \E c \in CallReqs : DeletedBy(c, b, k)

Failed(b, k) == \E c \in CallReqs : FailedFor(c, b, k)

Reports == Keys \X {"deleted", "error"}

(* What the report r says of the first n keys of ks.                       *)
Accounts(r, b, ks, n) ==
  /\ r \in Seq(Reports)
  /\ \A i \in 1..n : Deleted(b, ks[i]) \/ <<ks[i], "error">> \in ToSet(r)
  /\ \A k \in Keys : <<k, "deleted">> \in ToSet(r) => Deleted(b, k)
  /\ \A k \in Keys : <<k, "error">> \in ToSet(r) => k \in ToSet(ks) /\ Failed(b, k)

Verbose(r, ks, n) == Len(r) = n /\ \A i \in 1..n : r[i][1] = ks[i]

Terse(r) == \A i \in 1..Len(r) : r[i][2] = "error"

BatchInv ==
  handler.op = "delete_objects" =>
    /\ handler.bkt \in Buckets
    /\ handler.keys \in Seq(Keys)
    /\ todo \in Seq(Keys)
    /\ answer \in {"none", "Ok"}
    /\ \A j \in 1..Len(todo) : todo[j] = handler.keys[Len(handler.keys) - Len(todo) + j]
    /\ answer = "none" =>
         \E n \in Nat :
           /\ Len(handler.keys) = n + 1 + Len(todo)
           /\ CallFor(call, handler.bkt, handler.keys[n + 1])
           /\ Accounts(report, handler.bkt, handler.keys, n)
           /\ ~handler.quiet => Verbose(report, handler.keys, n)
    /\ answer = "Ok" =>
         /\ Accounts(report, handler.bkt, handler.keys, Len(handler.keys))
         /\ ~handler.quiet => Verbose(report, handler.keys, Len(handler.keys))
    /\ handler.quiet => Terse(report)

(***************************************************************************)
(* What a call has done is not undone.                                     *)
(***************************************************************************)
CallsStand ==
  \A c \in CallReqs : \A b, k :
    /\ CallFor(c, b, k) /\ pc[c] # "idle" => CallFor(c, b, k)'
    /\ DeletedBy(c, b, k) => DeletedBy(c, b, k)'
    /\ FailedFor(c, b, k) => FailedFor(c, b, k)'

LEMMA CallsKeptStand ==
  ASSUME CallsKept
  PROVE  CallsStand
BY DEF CallsKept, CallsStand, CallFor, DeletedBy, FailedFor

LEMMA IssueStands ==
  ASSUME NEW r, Issues(r)
  PROVE  CallsStand
BY DEF Issues, CallsStand, CallFor, DeletedBy, FailedFor

LEMMA LaterAccounts ==
  ASSUME CallsStand, NEW CONSTANT b, NEW CONSTANT ks, NEW CONSTANT n,
         Accounts(report', b, ks, n)
  PROVE  Accounts(report, b, ks, n)'
<1>1. \A k : (Deleted(b, k) => Deleted(b, k)') /\ (Failed(b, k) => Failed(b, k)')
  BY DEF CallsStand, Deleted, Failed
<1> QED
  BY <1>1 DEF Accounts

LEMMA BatchKept ==
  ASSUME OneCallAtATime, BatchInv, CallsKept, UNCHANGED handlerVars
  PROVE  BatchInv'
<1> SUFFICES ASSUME handler.op = "delete_objects"
             PROVE  BatchInv'
  BY DEF BatchInv, handlerVars
<1>1. call \in CallReqs /\ pc[call] # "idle" /\ CallsStand
  BY CallsKeptStand DEF OneCallAtATime, NoHandler
<1>2. \A k : CallFor(call, handler.bkt, k) => CallFor(call, handler.bkt, k)'
  BY <1>1 DEF CallsStand, handlerVars
<1>3. \A n : Accounts(report, handler.bkt, handler.keys, n) => Accounts(report, handler.bkt, handler.keys, n)'
  <2> SUFFICES ASSUME NEW n, Accounts(report, handler.bkt, handler.keys, n)
               PROVE  Accounts(report, handler.bkt, handler.keys, n)'
    OBVIOUS
  <2>1. \A k : /\ Deleted(handler.bkt, k) => Deleted(handler.bkt, k)'
               /\ Failed(handler.bkt, k) => Failed(handler.bkt, k)'
    BY <1>1 DEF CallsStand, Deleted, Failed, handlerVars
  <2> QED
    BY <2>1 DEF Accounts, handlerVars
<1>4. \A n : Verbose(report, handler.keys, n)' <=> Verbose(report, handler.keys, n)
  BY DEF Verbose, handlerVars
<1>5. Terse(report)' <=> Terse(report)
  BY DEF Terse, handlerVars
<1> QED
  BY <1>2, <1>3, <1>4, <1>5 DEF BatchInv, handlerVars

LEMMA AppendMembers ==
  ASSUME NEW T, NEW s \in Seq(T), NEW x \in T
  PROVE  /\ Append(s, x) \in Seq(T)
         /\ Len(Append(s, x)) = Len(s) + 1 /\ Len(s) \in Nat
         /\ \A i \in 1..Len(s) : Append(s, x)[i] = s[i]
         /\ Append(s, x)[Len(s) + 1] = x
         /\ ToSet(Append(s, x)) = ToSet(s) \cup {x}
<1>1. /\ Append(s, x) \in Seq(T)
      /\ Len(Append(s, x)) = Len(s) + 1 /\ Len(s) \in Nat
      /\ \A i \in 1..Len(s) : Append(s, x)[i] = s[i]
      /\ Append(s, x)[Len(s) + 1] = x
      /\ DOMAIN s = 1..Len(s) /\ DOMAIN Append(s, x) = 1..(Len(s) + 1)
  OBVIOUS
<1>2. \A i \in 1..(Len(s) + 1) : i \in 1..Len(s) \/ i = Len(s) + 1
  BY <1>1
<1>3. \A i \in 1..Len(s) : i \in 1..(Len(s) + 1)
  BY <1>1
<1>4. Len(s) + 1 \in 1..(Len(s) + 1)
  BY <1>1
<1> QED
  BY <1>1, <1>2, <1>3, <1>4 DEF ToSet

(***************************************************************************)
(* The call for ks[n + 1] returned: the report has its entry, if any.      *)
(***************************************************************************)
LEMMA ReportGrows ==
  ASSUME NEW b, NEW ks \in Seq(Keys), NEW n \in Nat, n + 1 \in 1..Len(ks),
         Accounts(report, b, ks, n),
         call \in CallReqs, CallFor(call, b, ks[n + 1]), pc[call] = "done",
         NEW e, e = <<ks[n + 1], Verdict(res[call])>>,
         report' = Append(report, e) \/ (report' = report /\ Verdict(res[call]) = "deleted")
  PROVE  /\ Accounts(report', b, ks, n + 1)
         /\ report' = Append(report, e) /\ Verbose(report, ks, n) => Verbose(report', ks, n + 1)
         /\ Terse(report) /\ (report' = report \/ Verdict(res[call]) = "error") => Terse(report')
<1> DEFINE k == ks[n + 1]
<1>1. k \in Keys /\ k \in ToSet(ks)
  BY DEF ToSet
<1>2. \/ Verdict(res[call]) = "deleted" /\ Deleted(b, k)
      \/ Verdict(res[call]) = "error" /\ Failed(b, k)
  BY DEF Verdict, Deleted, Failed, DeletedBy, FailedFor
<1>3. e \in Reports /\ e[1] = k /\ e[2] = Verdict(res[call])
  BY <1>1, <1>2 DEF Reports
<1>9. \A j, v : <<j, v>> = e => j = k /\ v = Verdict(res[call])
  OBVIOUS
<1>4. report \in Seq(Reports)
  BY DEF Accounts
<1>5. /\ Append(report, e) \in Seq(Reports)
      /\ Len(Append(report, e)) = Len(report) + 1 /\ Len(report) \in Nat
      /\ \A i \in 1..Len(report) : Append(report, e)[i] = report[i]
      /\ Append(report, e)[Len(report) + 1] = e
      /\ ToSet(Append(report, e)) = ToSet(report) \cup {e}
  BY ONLY <1>3, <1>4, AppendMembers
<1>6. Accounts(report', b, ks, n + 1)
  <2>1. CASE report' = report
    <3>1. Deleted(b, k)
      BY <1>2, <1>5, <2>1
    <3>2. \A i \in 1..(n + 1) : i \in 1..n \/ i = n + 1
      OBVIOUS
    <3> QED
      BY <2>1, <3>1, <3>2 DEF Accounts
  <2>2. CASE report' = Append(report, e)
    <3>1. <<k, "error">> \in ToSet(report') \/ Deleted(b, k)
      BY <1>2, <1>5, <2>2
    <3>2. \A j \in Keys : <<j, "deleted">> \in ToSet(report') => Deleted(b, j)
      BY <1>2, <1>5, <1>9, <2>2 DEF Accounts
    <3>3. \A j \in Keys : <<j, "error">> \in ToSet(report') => j \in ToSet(ks) /\ Failed(b, j)
      BY <1>1, <1>2, <1>5, <1>9, <2>2 DEF Accounts
    <3>4. \A i \in 1..(n + 1) : Deleted(b, ks[i]) \/ <<ks[i], "error">> \in ToSet(report')
      <4> SUFFICES ASSUME NEW i \in 1..(n + 1)
                   PROVE  Deleted(b, ks[i]) \/ <<ks[i], "error">> \in ToSet(report')
        OBVIOUS
      <4>1. CASE i = n + 1
        BY <3>1, <4>1
      <4>2. CASE i \in 1..n
        BY <1>5, <2>2, <4>2 DEF Accounts
      <4> QED
        BY <4>1, <4>2
    <3> QED
      BY <1>5, <2>2, <3>2, <3>3, <3>4 DEF Accounts
  <2> QED
    BY <2>1, <2>2
<1>7. ASSUME report' = Append(report, e), Verbose(report, ks, n)
      PROVE  Verbose(report', ks, n + 1)
  <2>1. report' = Append(report, e) /\ Len(report) = n /\ \A i \in 1..n : report[i][1] = ks[i]
    BY <1>7 DEF Verbose
  <2>2. \A i \in 1..(n + 1) : i \in 1..n \/ i = n + 1
    OBVIOUS
  <2> QED
    BY <1>3, <1>5, <2>1, <2>2 DEF Verbose
<1>8. ASSUME Terse(report), report' = report \/ Verdict(res[call]) = "error"
      PROVE  Terse(report')
  <2>1. CASE report' = report
    BY <1>8, <2>1
  <2>2. CASE report' = Append(report, e) /\ Verdict(res[call]) = "error"
    <3>1. \A i \in 1..(Len(report) + 1) : i \in 1..Len(report) \/ i = Len(report) + 1
      BY <1>5
    <3> QED
      BY <1>3, <1>5, <1>8, <2>2, <3>1 DEF Terse
  <2> QED
    BY <1>2, <1>8, <2>1, <2>2
<1> QED
  BY <1>6, <1>7, <1>8

LEMMA BatchStarts ==
  ASSUME StoreInv, OneCallAtATime, NEW b \in Buckets, NEW ks \in Batches, NEW quiet \in BOOLEAN,
         DeleteObjects(b, ks, quiet)
  PROVE  OneCallAtATime' /\ BatchInv' /\ [Next]_vars
<1>1. PICK n \in 1..MaxBatch : ks \in [1..n -> Keys]
  BY DEF Batches
<1>2. ks \in Seq(Keys) /\ Len(ks) = n /\ n \in Nat /\ n >= 1
  BY <1>1, ServerAssumption
<1>3. ks # <<>> /\ Head(ks) = ks[1] /\ Head(ks) \in Keys
      /\ Tail(ks) \in Seq(Keys) /\ Len(Tail(ks)) = n - 1
      /\ \A j \in 1..Len(Tail(ks)) : Tail(ks)[j] = ks[1 + j]
  BY <1>2
<1>4. PICK r \in CallReqs : DeleteObject(r, b, Head(ks)) /\ call' = r
  BY <1>3 DEF DeleteObjects, NextKey
<1>5. Issues(r) /\ [Next]_vars
  <2>1. Issue(r)
    BY <1>3, <1>4 DEF Issue
  <2> QED
    BY <2>1, CallIssued
<1>6. /\ handler = NoHandler
      /\ handler' = [op |-> "delete_objects", bkt |-> b, keys |-> ks, quiet |-> quiet]
      /\ todo' = Tail(ks) /\ report' = <<>> /\ answer' = "none"
      /\ \A c \in CallReqs : pc[c] = "idle"
  BY <1>3 DEF DeleteObjects, NextKey, OneCallAtATime
<1>7. req'[r] = [op |-> "delete", bkt |-> b, key |-> ks[1]]
  BY <1>3, <1>4, ServerAssumption DEF DeleteObject, Accept, StoreInv, ListingInv, RequestInv, WriterInv,
     TypeInv, TypeOK
<1>8. OneCallAtATime'
  BY <1>4, <1>5, <1>6 DEF OneCallAtATime, Issues, NoHandler
<1>9. BatchInv'
  <2>1. CallFor(call, b, ks[1])'
    BY <1>4, <1>7 DEF CallFor
  <2>2. /\ Accounts(report, b, ks, 0)'
        /\ Verbose(report, ks, 0)'
        /\ Terse(report)'
    <3>1. <<>> \in Seq(Reports) /\ Len(<<>>) = 0 /\ ToSet(<<>>) = {}
      BY EmptySeq DEF ToSet
    <3> QED
      BY <1>6, <3>1 DEF Accounts, Verbose, Terse
  <2>3. /\ Len(ks) = 0 + 1 + Len(todo')
        /\ \A j \in 1..Len(todo') : todo'[j] = ks[Len(ks) - Len(todo') + j]
    BY <1>2, <1>3, <1>6
  <2>4. /\ handler'.bkt = b /\ handler'.keys = ks /\ answer' = "none" /\ todo' \in Seq(Keys)
    BY <1>3, <1>6
  <2>5. /\ Len(handler'.keys) = 0 + 1 + Len(todo')
        /\ CallFor(call, handler.bkt, handler.keys[0 + 1])'
        /\ Accounts(report, handler.bkt, handler.keys, 0)'
        /\ Verbose(report, handler.keys, 0)'
    BY <2>1, <2>2, <2>3, <2>4 DEF Accounts, Verbose, CallFor
  <2> QED
    BY <1>2, <2>2, <2>3, <2>4, <2>5 DEF BatchInv
<1> QED
  BY <1>5, <1>8, <1>9

LEMMA CallAnswered ==
  ASSUME OneCallAtATime, NEW op, Returned(op), op \in {"delete_objects", "head_bucket", "list_buckets_fn"}
  PROVE  /\ handler # NoHandler /\ answer = "none"
         /\ call \in CallReqs /\ pc[call] = "done"
         /\ \A c \in CallReqs : pc[c] \in {"idle", "done"}
BY DEF Returned, OneCallAtATime, NoHandler

LEMMA NextCallAlone ==
  ASSUME OneCallAtATime, handler # NoHandler, pc[call] = "done", UNCHANGED <<handler, answer>>,
         answer = "none", NEW r \in CallReqs, Issues(r), call' = r
  PROVE  OneCallAtATime'
BY DEF OneCallAtATime, Issues

LEMMA ResponseAlone ==
  ASSUME OneCallAtATime, handler # NoHandler, pc[call] = "done", UNCHANGED handler,
         NEW a, Respond(a)
  PROVE  OneCallAtATime' /\ [Next]_vars
<1>1. UNCHANGED <<vars, call>>
  BY DEF Respond
<1>2. pc' = pc
  BY <1>1 DEF vars, ctlVars
<1> QED
  BY <1>1, <1>2 DEF OneCallAtATime

LEMMA BatchGoesOn ==
  ASSUME StoreInv, OneCallAtATime, BatchInv, KeyAnswered
  PROVE  OneCallAtATime' /\ BatchInv' /\ [Next]_vars
<1> SUFFICES ASSUME NEW b, b = handler.bkt, NEW ks, ks = handler.keys
             PROVE  OneCallAtATime' /\ BatchInv' /\ [Next]_vars
  OBVIOUS
<1>1. /\ handler # NoHandler /\ answer = "none"
      /\ call \in CallReqs /\ pc[call] = "done"
      /\ handler.op = "delete_objects" /\ handler' = handler
  BY CallAnswered DEF KeyAnswered, Returned
<1>2. PICK n \in Nat :
         /\ Len(ks) = n + 1 + Len(todo)
         /\ CallFor(call, b, ks[n + 1])
         /\ Accounts(report, b, ks, n)
         /\ ~handler.quiet => Verbose(report, ks, n)
  BY <1>1 DEF BatchInv
<1>3. /\ b \in Buckets /\ ks \in Seq(Keys) /\ todo \in Seq(Keys)
      /\ \A j \in 1..Len(todo) : todo[j] = ks[Len(ks) - Len(todo) + j]
      /\ handler.quiet => Terse(report)
  BY <1>1 DEF BatchInv
<1>4. /\ Accounts(report', b, ks, n + 1)
      /\ ~handler.quiet => Verbose(report', ks, n + 1)
      /\ handler.quiet => Terse(report')
  <2>1. n + 1 \in 1..Len(ks) /\ Key(call) = ks[n + 1]
    BY <1>2, <1>3 DEF CallFor, Key
  <2> DEFINE e == <<ks[n + 1], Verdict(res[call])>>
  <2>2. report' = IF handler.quiet /\ Verdict(res[call]) = "deleted" THEN report ELSE Append(report, e)
    BY <2>1 DEF KeyAnswered
  <2>3. Verdict(res[call]) \in {"deleted", "error"}
    BY DEF Verdict
  <2> HIDE DEF e
  <2>4. report' = Append(report, e) \/ (report' = report /\ Verdict(res[call]) = "deleted")
    BY <2>2
  <2>5. /\ Accounts(report', b, ks, n + 1)
        /\ report' = Append(report, e) /\ Verbose(report, ks, n) => Verbose(report', ks, n + 1)
        /\ Terse(report) /\ (report' = report \/ Verdict(res[call]) = "error") => Terse(report')
    <3>1. e = <<ks[n + 1], Verdict(res[call])>>
      BY DEF e
    <3> QED
      BY ONLY <1>1, <1>2, <1>3, <2>1, <2>4, <3>1, ReportGrows
  <2>6. /\ ~handler.quiet => report' = Append(report, e)
        /\ handler.quiet => report' = report \/ Verdict(res[call]) = "error"
    BY <2>2, <2>3
  <2> QED
    BY <1>2, <1>3, <2>5, <2>6
<1>5. CASE todo # <<>>
  <2>1. PICK r \in CallReqs : DeleteObject(r, b, Head(todo)) /\ call' = r
    BY <1>5 DEF KeyAnswered, NextKey
  <2>2. /\ Head(todo) = todo[1] /\ todo[1] = ks[n + 2] /\ Head(todo) \in Keys
        /\ todo' = Tail(todo) /\ Tail(todo) \in Seq(Keys) /\ Len(Tail(todo)) = Len(todo) - 1
        /\ \A j \in 1..Len(Tail(todo)) : Tail(todo)[j] = todo[1 + j]
        /\ Len(todo) >= 1
    <3>1. todo' = Tail(todo)
      BY <1>5 DEF KeyAnswered, NextKey
    <3>2. todo \in Seq(Keys)
      BY <1>3
    <3>3. /\ Head(todo) = todo[1] /\ todo[1] \in Keys /\ Len(todo) \in Nat /\ Len(todo) >= 1
          /\ Tail(todo) \in Seq(Keys) /\ Len(Tail(todo)) = Len(todo) - 1
          /\ \A j \in 1..Len(Tail(todo)) : Tail(todo)[j] = todo[1 + j]
      BY ONLY <3>2, <1>5
    <3>4. todo[1] = ks[Len(ks) - Len(todo) + 1]
      BY <1>3, <3>3
    <3>5. Len(ks) - Len(todo) + 1 = n + 2
      BY <1>2, <3>3
    <3> QED
      BY <3>1, <3>3, <3>4, <3>5
  <2>3. Issues(r) /\ [Next]_vars
    <3>1. Issue(r)
      BY <1>3, <2>1, <2>2 DEF Issue
    <3> QED
      BY <3>1, CallIssued
  <2>4. answer' = "none"
    BY <1>1, <1>5 DEF KeyAnswered, NextKey
  <2>5. OneCallAtATime'
    BY <1>1, <2>1, <2>3, <2>4, NextCallAlone
  <2>6. CallFor(call, b, ks[n + 2])'
    <3>1. req'[r] = [op |-> "delete", bkt |-> b, key |-> ks[n + 2]]
      BY <2>1, <2>2, ServerAssumption DEF DeleteObject, Accept, StoreInv, ListingInv, RequestInv, WriterInv,
         TypeInv, TypeOK
    <3> QED
      BY <2>1, <3>1 DEF CallFor
  <2>7. /\ Accounts(report, b, ks, n + 1)'
        /\ ~handler.quiet => Verbose(report', ks, n + 1)
        /\ handler.quiet => Terse(report')
    BY <1>4, <2>3, IssueStands, LaterAccounts
  <2>8. \A j \in 1..Len(todo') : todo'[j] = ks[Len(ks) - Len(todo') + j]
    <3> SUFFICES ASSUME NEW j \in 1..Len(todo')
                 PROVE  todo'[j] = ks[Len(ks) - Len(todo') + j]
      OBVIOUS
    <3>1. todo'[j] = todo[1 + j] /\ 1 + j \in 1..Len(todo)
      BY <1>3, <2>2
    <3>2. /\ Len(ks) \in Nat /\ Len(todo) \in Nat /\ j \in Int
          /\ Len(todo') = Len(todo) - 1
      BY <1>3, <2>2
    <3>3. Len(ks) - Len(todo) + (1 + j) = Len(ks) - Len(todo') + j
      BY ONLY <3>2
    <3> QED
      BY <1>3, <3>1, <3>3
  <2>9. Len(ks) = (n + 1) + 1 + Len(todo') /\ (n + 1) + 1 = n + 2 /\ n + 1 \in Nat
    BY <1>2, <1>3, <2>2
  <2>10. /\ handler'.bkt = b /\ handler'.keys = ks /\ handler'.quiet = handler.quiet
         /\ handler'.op = "delete_objects"
    BY <1>1
  <2>11. /\ Len(handler'.keys) = (n + 1) + 1 + Len(todo')
         /\ CallFor(call, handler.bkt, handler.keys[(n + 1) + 1])'
         /\ Accounts(report, handler.bkt, handler.keys, n + 1)'
         /\ (~handler.quiet)' => Verbose(report, handler.keys, n + 1)'
    BY <2>6, <2>7, <2>9, <2>10 DEF Accounts, Verbose, CallFor
  <2> QED
    BY <1>3, <2>2, <2>4, <2>3, <2>5, <2>7, <2>8, <2>9, <2>10, <2>11 DEF BatchInv, Terse
<1>6. CASE todo = <<>>
  <2>1. Respond("Ok") /\ answer' = "Ok" /\ UNCHANGED <<vars, todo>>
    BY <1>6 DEF KeyAnswered, NextKey, Respond
  <2>2. OneCallAtATime' /\ [Next]_vars
    BY <1>1, <2>1, ResponseAlone
  <2>3. CallsStand
    BY <2>1 DEF CallsStand, CallFor, DeletedBy, FailedFor, vars, callVars, ctlVars
  <2>4. Len(ks) = n + 1 /\ Len(todo) = 0
    BY <1>2, <1>3, <1>6
  <2>5. Accounts(report, b, ks, n + 1)'
    BY <1>4, <2>3, LaterAccounts
  <2>6. /\ handler'.bkt = b /\ handler'.keys = ks /\ handler'.quiet = handler.quiet
        /\ handler'.op = "delete_objects" /\ todo' = <<>> /\ Len(todo') = 0
    BY <1>1, <1>6, <2>1
  <2>7. /\ Accounts(report, handler.bkt, handler.keys, Len(handler.keys))'
        /\ (~handler.quiet)' => Verbose(report, handler.keys, Len(handler.keys))'
        /\ (handler.quiet => Terse(report))'
    BY <1>4, <2>4, <2>5, <2>6 DEF Accounts, Verbose, Terse
  <2> QED
    BY <1>3, <1>6, <2>1, <2>2, <2>6, <2>7 DEF BatchInv
<1> QED
  BY <1>5, <1>6

(***************************************************************************)
(* head_bucket has its answer from the listing it made.                    *)
(***************************************************************************)
HeadInv ==
  handler.op = "head_bucket" =>
    /\ handler.bkt \in Buckets
    /\ req[call].op = "list_buckets"
    /\ answer = "Ok" => res[call] = "Ok" /\ <<handler.bkt, None>> \in listed[call]
    /\ answer = "NoSuchBucket" => res[call] = "Ok" /\ <<handler.bkt, None>> \notin listed[call]

LEMMA HeadKept ==
  ASSUME OneCallAtATime, HeadInv, CallsKept, UNCHANGED handlerVars
  PROVE  HeadInv'
BY DEF OneCallAtATime, NoHandler, HeadInv, CallsKept, handlerVars

LEMMA ListingStarts ==
  ASSUME StoreInv, OneCallAtATime, ListBucketsFirst, handler' # NoHandler,
         handler'.op \in {"head_bucket", "list_buckets_fn"}
  PROVE  /\ OneCallAtATime' /\ [Next]_vars
         /\ answer' = "none" /\ todo' = <<>> /\ report' = <<>>
         /\ call' \in CallReqs /\ Issues(call')
         /\ req'[call'].op = "list_buckets"
         /\ \A c \in CallReqs : req[c] = NoRequest
<1>1. PICK r \in CallReqs : ListBuckets(r) /\ call' = r
  BY DEF ListBucketsFirst
<1>2. Issues(r) /\ [Next]_vars
  BY <1>1, CallIssued DEF Issue
<1>3. /\ answer' = "none" /\ todo' = <<>> /\ report' = <<>>
      /\ \A c \in CallReqs : pc[c] = "idle"
  BY DEF ListBucketsFirst, OneCallAtATime
<1>4. req'[r].op = "list_buckets"
  BY <1>1, ServerAssumption DEF ListBuckets, Accept, StoreInv, ListingInv, RequestInv, WriterInv, TypeInv, TypeOK
<1>5. OneCallAtATime'
  BY <1>1, <1>2, <1>3 DEF OneCallAtATime, Issues
<1>6. \A c \in CallReqs : req[c] = NoRequest
  BY <1>3, ServerAssumption DEF StoreInv, ListingInv, RequestInv, WriterInv, Placed
<1> QED
  BY <1>1, <1>2, <1>3, <1>4, <1>5, <1>6

LEMMA HeadStarts ==
  ASSUME StoreInv, OneCallAtATime, NEW b \in Buckets, HeadBucket(b)
  PROVE  OneCallAtATime' /\ HeadInv' /\ [Next]_vars
<1>1. handler' = [op |-> "head_bucket", bkt |-> b, keys |-> <<>>, quiet |-> FALSE] /\ ListBucketsFirst
  BY DEF HeadBucket
<1>2. handler' # NoHandler /\ handler'.op = "head_bucket" /\ handler'.bkt = b
  BY <1>1 DEF NoHandler
<1>3. OneCallAtATime' /\ [Next]_vars /\ answer' = "none" /\ req'[call'].op = "list_buckets"
  BY <1>1, <1>2, ListingStarts
<1> QED
  BY <1>2, <1>3 DEF HeadInv

LEMMA HeadAnswers ==
  ASSUME StoreInv, OneCallAtATime, HeadInv, HeadBucketAnswer
  PROVE  OneCallAtATime' /\ HeadInv' /\ [Next]_vars
<1>1. /\ handler # NoHandler /\ answer = "none"
      /\ call \in CallReqs /\ pc[call] = "done"
      /\ handler.op = "head_bucket" /\ handler' = handler
  BY CallAnswered DEF HeadBucketAnswer, Returned
<1>2. handler.bkt \in Buckets /\ req[call].op = "list_buckets"
  BY <1>1 DEF HeadInv
<1>3. res[call] \in {"Ok", "Io"}
  BY <1>1, <1>2, ServerAssumption DEF StoreInv, TableInv
<1>4. ASSUME NEW a, Respond(a)
      PROVE  OneCallAtATime' /\ [Next]_vars /\ answer' = a /\ UNCHANGED <<req, res, listed, call>>
  <2>1. OneCallAtATime' /\ [Next]_vars
    BY <1>1, <1>4, ResponseAlone
  <2> QED
    BY <1>4, <2>1 DEF Respond, vars, callVars, ctlVars, readVars
<1>5. CASE res[call] = "Io" /\ Respond("InternalError")
  BY <1>1, <1>2, <1>4, <1>5 DEF HeadInv
<1>6. CASE res[call] = "Ok" /\ <<handler.bkt, None>> \in listed[call] /\ Respond("Ok")
  BY <1>1, <1>2, <1>4, <1>6 DEF HeadInv
<1>7. CASE res[call] = "Ok" /\ <<handler.bkt, None>> \notin listed[call] /\ Respond("NoSuchBucket")
  BY <1>1, <1>2, <1>4, <1>7 DEF HeadInv
<1> QED
  BY <1>3, <1>5, <1>6, <1>7 DEF HeadBucketAnswer, S3Code

(***************************************************************************)
(* The bucket table's rows so far, the bucket it is listing and those      *)
(* still to do are an arrangement of the buckets listed at first.          *)
(***************************************************************************)
FirstCall(c) ==
  /\ req[c].op = "list_buckets"
  /\ \A d \in CallReqs \ {c} : req[d].op # "list_buckets"

ListedBuckets(c) == {e[1] : e \in listed[c]}

Arranges(bs, S) ==
  /\ bs \in Seq(S)
  /\ \A b \in S : \E i \in 1..Len(bs) : bs[i] = b
  /\ \A i, j \in 1..Len(bs) : bs[i] = bs[j] => i = j

RowOf(c, b, contents, l) ==
  /\ req[l].op = "list" /\ Bkt(l) = b
  /\ Succeeded(l) /\ listed[l] = contents
  /\ before[c] \subseteq before[l]

RowsOf(c, bs) ==
  /\ Len(report) <= Len(bs)
  /\ \A i \in 1..Len(report) :
       /\ report[i][1] = bs[i]
       /\ \E l \in CallReqs : RowOf(c, bs[i], report[i][2], l)
  /\ answer = "Ok" => Len(report) = Len(bs)
  /\ answer # "Ok" =>
       /\ Len(bs) = Len(report) + 1 + Len(todo)
       /\ Bkt(call) = bs[Len(report) + 1]
       /\ \A j \in 1..Len(todo) : todo[j] = bs[Len(report) + 1 + j]

TableSoFar(c) ==
  /\ call = c /\ answer # "Ok" =>
       /\ report = <<>> /\ todo = <<>>
       /\ answer = "error" => res[c] # "Ok"
  /\ call # c \/ answer = "Ok" =>
       /\ Succeeded(c)
       /\ \E bs \in Seq(Buckets) : Arranges(bs, ListedBuckets(c)) /\ RowsOf(c, bs)
  /\ call # c =>
       /\ req[call].op = "list"
       /\ before[c] \subseteq before[call]
       /\ answer = "error" => res[call] # "Ok"

Row == Buckets \X SUBSET ((Keys \cup Buckets) \X File)

FnInv ==
  handler.op = "list_buckets_fn" =>
    /\ answer \in {"none", "Ok", "error"}
    /\ todo \in Seq(Buckets)
    /\ report \in Seq(Row)
    /\ \E c \in CallReqs : FirstCall(c) /\ TableSoFar(c)

LEMMA RowKept ==
  ASSUME CallsKept \/ \E r : Issues(r), NEW c \in CallReqs, before'[c] = before[c],
         NEW l \in CallReqs, NEW b, NEW contents, RowOf(c, b, contents, l)
  PROVE  RowOf(c, b, contents, l)'
<1>1. pc[l] = "done"
  BY DEF RowOf, Succeeded
<1>2. /\ pc'[l] = "done" /\ res'[l] = res[l] /\ listed'[l] = listed[l]
      /\ req'[l] = req[l] /\ before'[l] = before[l]
  BY <1>1 DEF CallsKept, Issues
<1> QED
  BY <1>1, <1>2 DEF RowOf, Succeeded, Bkt

LEMMA FnKept ==
  ASSUME OneCallAtATime, FnInv, CallsKept, UNCHANGED handlerVars
  PROVE  FnInv'
<1> SUFFICES ASSUME handler.op = "list_buckets_fn"
             PROVE  FnInv'
  BY DEF FnInv, handlerVars
<1>1. UNCHANGED <<handler, call, todo, report, answer>>
  BY DEF handlerVars
<1>2. PICK c \in CallReqs : FirstCall(c) /\ TableSoFar(c)
  BY DEF FnInv
<1>3. /\ call \in CallReqs /\ handler # NoHandler
      /\ req'[call] = req[call] /\ before'[call] = before[call]
      /\ answer = "error" => pc[call] = "done" /\ res'[call] = res[call]
      /\ answer # "none" => pc[call] = "done"
  BY DEF OneCallAtATime, NoHandler, CallsKept
<1>4. FirstCall(c)'
  BY <1>2 DEF FirstCall, CallsKept
<1>5. req'[c] = req[c] /\ before'[c] = before[c]
  BY DEF CallsKept
<1>6. Succeeded(c) => Succeeded(c)' /\ ListedBuckets(c)' = ListedBuckets(c)
  BY DEF Succeeded, CallsKept, ListedBuckets
<1>7. ASSUME NEW bs, RowsOf(c, bs)
      PROVE  RowsOf(c, bs)'
  <2>1. Bkt(call)' = Bkt(call)
    BY <1>1, <1>3 DEF Bkt
  <2>2. ASSUME NEW b, NEW contents, NEW l \in CallReqs, RowOf(c, b, contents, l)
        PROVE  RowOf(c, b, contents, l)'
    BY <1>5, <2>2, RowKept
  <2> QED
    BY <1>1, <1>7, <2>1, <2>2 DEF RowsOf
<1>8. TableSoFar(c)'
  BY <1>1, <1>2, <1>3, <1>5, <1>6, <1>7 DEF TableSoFar
<1> QED
  BY <1>1, <1>4, <1>8 DEF FnInv

LEMMA FnStarts ==
  ASSUME StoreInv, OneCallAtATime, ListBucketsFn
  PROVE  OneCallAtATime' /\ FnInv' /\ [Next]_vars
<1>1. handler' = [op |-> "list_buckets_fn", bkt |-> None, keys |-> <<>>, quiet |-> FALSE] /\ ListBucketsFirst
  BY DEF ListBucketsFn
<1>2. handler' # NoHandler /\ handler'.op = "list_buckets_fn"
  BY <1>1 DEF NoHandler
<1>3. PICK r \in CallReqs :
        /\ OneCallAtATime' /\ [Next]_vars
        /\ answer' = "none" /\ todo' = <<>> /\ report' = <<>>
        /\ call' = r /\ Issues(r)
        /\ req'[r].op = "list_buckets"
        /\ \A c \in CallReqs : req[c] = NoRequest
  BY <1>1, <1>2, ListingStarts
<1>4. FirstCall(r)'
  BY <1>3 DEF FirstCall, Issues, NoRequest
<1>5. TableSoFar(r)'
  BY <1>3 DEF TableSoFar
<1>6. todo' \in Seq(Buckets) /\ report' \in Seq(Row)
  BY <1>3
<1> QED
  BY <1>2, <1>3, <1>4, <1>5, <1>6 DEF FnInv

(***************************************************************************)
(* An injective sequence of as many elements as a finite set has contains  *)
(* every one of them.                                                      *)
(***************************************************************************)
LEMMA SeqsArrange ==
  ASSUME NEW S, IsFiniteSet(S), NEW bs \in SetToSeqs(S)
  PROVE  Arranges(bs, S)
<1> DEFINE n == Cardinality(S)
<1>1. n \in Nat
  BY FS_CardinalityType
<1>2. bs \in [1..n -> S] /\ \A i, j \in 1..n : i # j => bs[i] # bs[j]
  BY DEF SetToSeqs
<1> HIDE DEF n
<1>3. bs \in Seq(S) /\ Len(bs) = n
  BY <1>1, <1>2
<1>4. bs \in Injection(1..n, S)
  BY <1>2 DEF Injection, IsInjective
<1>5. Cardinality(1..n) = n
  BY <1>1, FS_Interval
<1>6. bs \in Surjection(1..n, S)
  BY <1>4, <1>5, FS_Injection DEF n
<1>7. \A b \in S : \E i \in 1..n : bs[i] = b
  BY <1>6 DEF Surjection
<1> QED
  BY <1>2, <1>3, <1>7 DEF Arranges

(***************************************************************************)
(* The handler calls for the next bucket of its list, if it has one.       *)
(***************************************************************************)
LEMMA NextBucketCalled ==
  ASSUME StoreInv, OneCallAtATime, handler.op = "list_buckets_fn", Returned("list_buckets_fn"),
         UNCHANGED handler, NEW bs \in Seq(Buckets), NextBucket(bs)
  PROVE  /\ OneCallAtATime' /\ [Next]_vars
         /\ \/ /\ bs # <<>> /\ Issues(call')
               /\ call' \in CallReqs /\ call' # call
               /\ req'[call'].op = "list" /\ Bkt(call)' = bs[1]
               /\ \A c \in Reqs : before[c] \subseteq before'[call']
               /\ todo' \in Seq(Buckets) /\ Len(bs) = 1 + Len(todo')
               /\ \A j \in 1..Len(todo') : todo'[j] = bs[1 + j]
               /\ answer' = "none"
            \/ /\ bs = <<>>
               /\ answer' = "Ok" /\ UNCHANGED <<vars, call, todo>>
<1>1. /\ handler # NoHandler /\ answer = "none"
      /\ call \in CallReqs /\ pc[call] = "done"
  BY CallAnswered
<1>2. CASE bs # <<>>
  <2>1. PICK r \in CallReqs : ListObjects(r, Head(bs)) /\ call' = r
    BY <1>2 DEF NextBucket
  <2>2. /\ Head(bs) = bs[1] /\ Head(bs) \in Buckets
        /\ todo' = Tail(bs) /\ Tail(bs) \in Seq(Buckets) /\ Len(bs) = 1 + Len(Tail(bs))
        /\ \A j \in 1..Len(Tail(bs)) : Tail(bs)[j] = bs[1 + j]
        /\ answer' = answer
    BY <1>2 DEF NextBucket
  <2>3. Issues(r) /\ [Next]_vars
    <3>1. Issue(r)
      BY <2>1, <2>2 DEF Issue
    <3> QED
      BY <3>1, CallIssued
  <2>4. OneCallAtATime'
    BY <1>1, <2>1, <2>2, <2>3, NextCallAlone
  <2>5. req'[r].op = "list" /\ req'[r].bkt = bs[1]
    BY <2>1, <2>2, ServerAssumption DEF ListObjects, Accept, StoreInv, ListingInv, RequestInv, WriterInv,
       TypeInv, TypeOK
  <2>6. Bkt(call)' = bs[1]
    BY <2>1, <2>5 DEF Bkt
  <2>7. \A c \in Reqs : before[c] \subseteq before'[r]
    BY <2>3 DEF Issues, StoreInv, ListingInv, RequestInv, WriterInv, PredecessorsEnded
  <2>8. r # call
    BY <1>1, <2>3 DEF Issues
  <2> QED
    BY <1>1, <1>2, <2>1, <2>2, <2>3, <2>4, <2>5, <2>6, <2>7, <2>8
<1>3. CASE bs = <<>>
  <2>1. Respond("Ok")
    BY <1>3 DEF NextBucket
  <2>2. OneCallAtATime' /\ [Next]_vars
    BY <1>1, <2>1, ResponseAlone
  <2> QED
    BY <1>3, <2>1, <2>2 DEF Respond
<1> QED
  BY <1>2, <1>3

LEMMA FnLists ==
  ASSUME StoreInv, OneCallAtATime, FnInv, ListBucketsReturned
  PROVE  OneCallAtATime' /\ FnInv' /\ [Next]_vars
<1>1. /\ handler # NoHandler /\ answer = "none"
      /\ call \in CallReqs /\ pc[call] = "done" /\ req[call].op = "list_buckets"
      /\ handler.op = "list_buckets_fn" /\ UNCHANGED <<handler, report>>
  BY CallAnswered DEF ListBucketsReturned, Returned
<1>2. PICK c \in CallReqs : FirstCall(c) /\ TableSoFar(c)
  BY <1>1 DEF FnInv
<1>3. call = c
  BY <1>1, <1>2 DEF FirstCall
<1>4. report = <<>> /\ todo = <<>>
  BY <1>1, <1>2, <1>3 DEF TableSoFar
<1>5. CASE res[call] # "Ok"
  <2>1. Respond("error")
    BY <1>5 DEF ListBucketsReturned
  <2>2. OneCallAtATime' /\ [Next]_vars
    BY <1>1, <2>1, ResponseAlone
  <2>3. answer' = "error" /\ UNCHANGED <<req, res, call, todo>>
    BY <2>1 DEF Respond, vars, callVars, ctlVars
  <2>4. FirstCall(c)' /\ TableSoFar(c)'
    BY <1>1, <1>2, <1>3, <1>4, <1>5, <2>3 DEF FirstCall, TableSoFar
  <2> QED
    BY <1>1, <1>4, <2>2, <2>3, <2>4 DEF FnInv
<1>6. CASE res[call] = "Ok"
  <2>1. PICK bs \in SetToSeqs(ListedBuckets(c)) : NextBucket(bs)
    BY <1>3, <1>6 DEF ListBucketsReturned, ListedBuckets
  <2>2. ListedBuckets(c) \subseteq Buckets
    <3>1. listed[c] \subseteq Buckets \X {None}
      BY <1>1, <1>3, ServerAssumption DEF StoreInv, TableInv
    <3> QED
      BY <3>1 DEF ListedBuckets
  <2>3. Arranges(bs, ListedBuckets(c))
    BY <2>1, <2>2, SeqsArrange, FS_Subset, ServerAssumption
  <2>4. bs \in Seq(Buckets)
    BY <2>2, <2>3 DEF Arranges
  <2>5. /\ OneCallAtATime' /\ [Next]_vars
        /\ \/ /\ bs # <<>> /\ Issues(call')
              /\ call' \in CallReqs /\ call' # call
              /\ req'[call'].op = "list" /\ Bkt(call)' = bs[1]
              /\ \A d \in Reqs : before[d] \subseteq before'[call']
              /\ todo' \in Seq(Buckets) /\ Len(bs) = 1 + Len(todo')
              /\ \A j \in 1..Len(todo') : todo'[j] = bs[1 + j]
              /\ answer' = "none"
           \/ /\ bs = <<>>
              /\ answer' = "Ok" /\ UNCHANGED <<vars, call, todo>>
    BY <1>1, <2>1, <2>4, NextBucketCalled DEF ListBucketsReturned
  <2>6. /\ Succeeded(c)' /\ ListedBuckets(c)' = ListedBuckets(c)
        /\ req'[c] = req[c] /\ before'[c] = before[c]
    BY <1>1, <1>3, <1>6, <2>5 DEF Issues, Succeeded, ListedBuckets, vars, ctlVars, callVars, readVars
  <2>7. FirstCall(c)'
    BY <1>2, <1>3, <2>5, <2>6 DEF FirstCall, Issues, vars, callVars
  <2>8. RowsOf(c, bs)'
    BY <1>1, <1>4, <2>4, <2>5 DEF RowsOf
  <2>9. TableSoFar(c)'
    <3>1. Arranges(bs, ListedBuckets(c))'
      BY <2>3, <2>6 DEF Arranges
    <3> QED
      BY <1>3, <2>4, <2>5, <2>6, <2>8, <3>1, ServerAssumption DEF TableSoFar
  <2> QED
    BY <1>1, <1>4, <2>5, <2>7, <2>9 DEF FnInv
<1> QED
  BY <1>5, <1>6

LEMMA FnGoesOn ==
  ASSUME StoreInv, OneCallAtATime, FnInv, RowReturned
  PROVE  OneCallAtATime' /\ FnInv' /\ [Next]_vars
<1>1. /\ handler # NoHandler /\ answer = "none"
      /\ call \in CallReqs /\ pc[call] = "done" /\ req[call].op = "list"
      /\ handler.op = "list_buckets_fn" /\ UNCHANGED handler
  BY CallAnswered DEF RowReturned, Returned
<1>2. PICK c \in CallReqs : FirstCall(c) /\ TableSoFar(c)
  BY <1>1 DEF FnInv
<1>3. call # c
  BY <1>1, <1>2 DEF FirstCall
<1>4. PICK bs \in Seq(Buckets) : Arranges(bs, ListedBuckets(c)) /\ RowsOf(c, bs)
  BY <1>2, <1>3 DEF TableSoFar
<1>5. Succeeded(c) /\ before[c] \subseteq before[call] /\ todo \in Seq(Buckets) /\ report \in Seq(Row)
  BY <1>1, <1>2, <1>3 DEF TableSoFar, FnInv
<1>6. CASE res[call] # "Ok"
  <2>1. Respond("error") /\ UNCHANGED report
    BY <1>6 DEF RowReturned
  <2>2. OneCallAtATime' /\ [Next]_vars
    BY <1>1, <2>1, ResponseAlone
  <2>3. answer' = "error" /\ UNCHANGED <<req, res, pc, before, listed, call, todo>>
    BY <2>1 DEF Respond, vars, callVars, ctlVars, readVars
  <2>4. Succeeded(c)' /\ ListedBuckets(c)' = ListedBuckets(c) /\ Bkt(call)' = Bkt(call)
    BY <1>5, <2>3 DEF Succeeded, ListedBuckets, Bkt
  <2>5. RowsOf(c, bs)'
    BY <1>1, <1>4, <2>1, <2>3, <2>4 DEF RowsOf, RowOf, Succeeded, Bkt
  <2>6. Arranges(bs, ListedBuckets(c))'
    BY <1>4, <2>4 DEF Arranges
  <2>7. FirstCall(c)' /\ TableSoFar(c)'
    BY <1>1, <1>2, <1>3, <1>4, <1>5, <1>6, <2>3, <2>4, <2>5, <2>6 DEF FirstCall, TableSoFar
  <2> QED
    BY <1>1, <1>5, <2>1, <2>2, <2>3, <2>7 DEF FnInv
<1>7. CASE res[call] = "Ok"
  <2>1. report' = Append(report, <<Bkt(call), listed[call]>>) /\ NextBucket(todo)
    BY <1>7 DEF RowReturned
  <2>2. /\ OneCallAtATime' /\ [Next]_vars
        /\ \/ /\ todo # <<>> /\ Issues(call')
              /\ call' \in CallReqs /\ call' # call
              /\ req'[call'].op = "list" /\ Bkt(call)' = todo[1]
              /\ \A d \in Reqs : before[d] \subseteq before'[call']
              /\ todo' \in Seq(Buckets) /\ Len(todo) = 1 + Len(todo')
              /\ \A j \in 1..Len(todo') : todo'[j] = todo[1 + j]
              /\ answer' = "none"
           \/ /\ todo = <<>>
              /\ answer' = "Ok" /\ UNCHANGED <<vars, call, todo>>
    BY <1>1, <1>5, <2>1, NextBucketCalled DEF RowReturned
  <2>3. pc[c] = "done"
    BY <1>5 DEF Succeeded
  <2>4. /\ Succeeded(c)' /\ ListedBuckets(c)' = ListedBuckets(c)
        /\ req'[c] = req[c] /\ before'[c] = before[c] /\ call' # c
    BY <1>3, <1>5, <2>2, <2>3 DEF Issues, Succeeded, ListedBuckets, vars, ctlVars, callVars, readVars
  <2>5. FirstCall(c)'
    BY <1>2, <2>2, <2>4 DEF FirstCall, Issues, vars, callVars
  <2>6. ASSUME NEW b, NEW contents, NEW l \in CallReqs, RowOf(c, b, contents, l)
        PROVE  RowOf(c, b, contents, l)'
    <3>1. CASE \E r : Issues(r)
      BY <2>4, <2>6, <3>1, RowKept
    <3>2. CASE UNCHANGED vars
      BY <2>6, <3>2 DEF RowOf, Succeeded, Bkt, vars, ctlVars, callVars, readVars
    <3> QED
      BY <2>2, <3>1, <3>2
  <2>7. ASSUME NEW p, p = Len(report)
        PROVE  RowsOf(c, bs)' /\ report' \in Seq(Row)
    <3>1. /\ p \in Nat /\ Len(bs) = p + 1 + Len(todo) /\ Bkt(call) = bs[p + 1]
          /\ \A j \in 1..Len(todo) : todo[j] = bs[p + 1 + j]
      BY <1>1, <1>4, <1>5, <2>7 DEF RowsOf
    <3>2. PICK e : e = <<Bkt(call), listed[call]>>
      OBVIOUS
    <3>3. e \in Row /\ e[1] = bs[p + 1] /\ e[2] = listed[call]
      <4>1. bs[p + 1] \in Buckets
        BY <1>4, <1>5, <3>1
      <4>2. listed[call] \in SUBSET ((Keys \cup Buckets) \X File)
        BY <1>1, ServerAssumption DEF StoreInv, ListingInv, RequestInv, WriterInv, TypeInv, TypeOK
      <4> QED
        BY <3>1, <3>2, <4>1, <4>2 DEF Row
    <3>4. /\ report' \in Seq(Row)
          /\ Len(report') = p + 1
          /\ \A i \in 1..p : report'[i] = report[i]
          /\ report'[p + 1] = e
      BY <1>5, <2>1, <2>7, <3>2, <3>3
    <3>5. RowOf(c, bs[p + 1], listed[call], call)
      BY <1>1, <1>5, <1>7, <3>1 DEF RowOf, Succeeded
    <3>6. ASSUME NEW i \in 1..(p + 1), NEW contents, contents = report'[i][2]
          PROVE  /\ report'[i][1] = bs[i]
                 /\ \E l \in CallReqs : RowOf(c, bs[i], contents, l)'
      <4>1. CASE i = p + 1
        <5>1. RowOf(c, bs[i], contents, call)
          BY <3>3, <3>4, <3>5, <3>6, <4>1
        <5> QED
          BY <1>1, <2>6, <3>3, <3>4, <4>1, <5>1
      <4>2. CASE i # p + 1
        <5>1. i \in 1..p
          BY <3>1, <4>2
        <5>2. report'[i] = report[i] /\ report[i][1] = bs[i]
          BY <1>4, <2>7, <3>4, <5>1 DEF RowsOf
        <5>3. PICK l \in CallReqs : RowOf(c, bs[i], contents, l)
          BY <1>4, <2>7, <3>6, <5>1, <5>2 DEF RowsOf
        <5> QED
          BY <2>6, <5>2, <5>3
      <4> QED
        BY <4>1, <4>2
    <3>7. \A i \in 1..Len(report') :
            /\ report'[i][1] = bs[i]
            /\ \E l \in CallReqs : RowOf(c, bs[i], report[i][2], l)'
      BY <3>4, <3>6
    <3>8. /\ Len(report') <= Len(bs)
          /\ answer' = "Ok" => Len(report') = Len(bs)
          /\ answer' # "Ok" =>
               /\ Len(bs) = Len(report') + 1 + Len(todo')
               /\ Bkt(call)' = bs[Len(report') + 1]
               /\ \A j \in 1..Len(todo') : todo'[j] = bs[Len(report') + 1 + j]
      <4>1. CASE todo # <<>>
        <5>1. Len(todo) = 1 + Len(todo') /\ todo' \in Seq(Buckets)
          BY <2>2, <4>1
        <5>2. Bkt(call)' = bs[p + 2]
          BY <1>5, <2>2, <3>1, <4>1, <5>1
        <5>3. ASSUME NEW j \in 1..Len(todo')
              PROVE  todo'[j] = bs[p + 2 + j]
          <6>1. todo'[j] = todo[1 + j] /\ 1 + j \in 1..Len(todo)
            BY <1>5, <2>2, <4>1, <5>1
          <6>2. p + 1 + (1 + j) = p + 2 + j
            BY <3>1, <5>1
          <6> QED
            BY <3>1, <6>1, <6>2
        <5> QED
          BY <1>5, <2>2, <3>1, <3>4, <4>1, <5>1, <5>2, <5>3
      <4>2. CASE todo = <<>>
        BY <2>2, <3>1, <3>4, <4>2
      <4> QED
        BY <4>1, <4>2
    <3> QED
      BY <3>4, <3>7, <3>8 DEF RowsOf
  <2>8. TableSoFar(c)'
    <3>1. Arranges(bs, ListedBuckets(c))'
      BY <1>4, <2>4 DEF Arranges
    <3>2. req'[call'].op = "list" /\ before'[c] \subseteq before'[call'] /\ answer' # "error"
      BY <1>1, <1>5, <2>2, <2>4, ServerAssumption DEF vars, callVars
    <3> QED
      BY <1>4, <2>4, <2>7, <3>1, <3>2 DEF TableSoFar
  <2> QED
    BY <1>1, <1>5, <2>2, <2>5, <2>7, <2>8 DEF FnInv
<1> QED
  BY <1>6, <1>7

-----------------------------------------------------------------------------
(***************************************************************************)
(* The inductive invariant: the store's, and what the handler has of it.   *)
(***************************************************************************)
HandlerInv == OneCallAtATime /\ BatchInv /\ HeadInv /\ FnInv

ServerInv == StoreInv /\ HandlerInv

LEMMA ServerInvInit == ServerInit => ServerInv
<1> SUFFICES ASSUME ServerInit
             PROVE  HandlerInv
  BY StoreInit DEF ServerInit, ServerInv
<1>1. \A c \in CallReqs : pc[c] = "idle"
  BY ServerAssumption DEF ServerInit, Init
<1> QED
  BY <1>1 DEF ServerInit, HandlerInit, HandlerInv, OneCallAtATime, BatchInv, HeadInv, FnInv, NoHandler

LEMMA ServerInvStep == ServerInv /\ [ServerNext]_<<vars, handlerVars>> => ServerInv'
<1> SUFFICES ASSUME ServerInv, [ServerNext]_<<vars, handlerVars>>
             PROVE  ServerInv'
  OBVIOUS
<1> USE DEF ServerInv
<1>1. StoreInv /\ OneCallAtATime /\ BatchInv /\ HeadInv /\ FnInv
  BY DEF HandlerInv
<1>2. ASSUME [Next]_vars, OneCallAtATime', BatchInv', HeadInv', FnInv'
      PROVE  ServerInv'
  BY <1>1, <1>2, StoreStepInv DEF HandlerInv
<1>3. ASSUME CallsKept, UNCHANGED handlerVars, [Next]_vars
      PROVE  ServerInv'
  BY <1>1, <1>2, <1>3, OneCallKept, BatchKept, HeadKept, FnKept
<1>4. CASE StoreStep
  BY <1>1, <1>3, <1>4, StoreStepKeepsCalls
<1>5. CASE UNCHANGED <<vars, handlerVars>>
  BY <1>3, <1>5 DEF CallsKept, vars, callVars, ctlVars, readVars
<1>6. ASSUME NEW b \in Buckets, NEW ks \in Batches, NEW quiet \in BOOLEAN,
             DeleteObjects(b, ks, quiet)
      PROVE  ServerInv'
  <2>1. handler'.op = "delete_objects"
    BY <1>6 DEF DeleteObjects
  <2> QED
    BY <1>1, <1>2, <1>6, <2>1, BatchStarts DEF HeadInv, FnInv
<1>7. CASE KeyAnswered
  <2>1. handler'.op = "delete_objects"
    BY <1>7 DEF KeyAnswered, Returned
  <2> QED
    BY <1>1, <1>2, <1>7, <2>1, BatchGoesOn DEF HeadInv, FnInv
<1>8. ASSUME NEW b \in Buckets, HeadBucket(b)
      PROVE  ServerInv'
  <2>1. handler'.op = "head_bucket"
    BY <1>8 DEF HeadBucket
  <2> QED
    BY <1>1, <1>2, <1>8, <2>1, HeadStarts DEF BatchInv, FnInv
<1>9. CASE HeadBucketAnswer
  <2>1. handler'.op = "head_bucket"
    BY <1>9 DEF HeadBucketAnswer, Returned
  <2> QED
    BY <1>1, <1>2, <1>9, <2>1, HeadAnswers DEF BatchInv, FnInv
<1>10. CASE ListBucketsFn \/ ListBucketsReturned \/ RowReturned
  <2>1. handler'.op = "list_buckets_fn"
    BY <1>10 DEF ListBucketsFn, ListBucketsReturned, RowReturned, Returned
  <2>2. OneCallAtATime' /\ FnInv' /\ [Next]_vars
    BY <1>1, <1>10, FnStarts, FnLists, FnGoesOn
  <2> QED
    BY <1>2, <2>1, <2>2 DEF BatchInv, HeadInv
<1> QED
  BY <1>4, <1>5, <1>6, <1>7, <1>8, <1>9, <1>10 DEF ServerNext, Handle, ServerQuiescent

LEMMA ServerInvariant == ServerSpec => []ServerInv
BY ServerInvInit, ServerInvStep, PTL DEF ServerSpec

(* delete_objects accounts for every key of its list, whatever other       *)
(* clients do between and during its calls: unless it is quiet it lists    *)
(* each in order; a key it calls deleted, or quietly does not call an      *)
(* error, is gone unless a put of it overlapped; and it calls an error     *)
(* only a key of which a call failed.                                      *)
THEOREM BatchAlwaysDeletesEveryKey == ServerSpec => []BatchDeletesEveryKey
<1>1. ServerInv => BatchDeletesEveryKey
  <2> SUFFICES ASSUME ServerInv, handler.op = "delete_objects", answer = "Ok"
               PROVE  BatchDeletesEveryKey
    BY DEF BatchDeletesEveryKey
  <2> SUFFICES ASSUME NEW b, b = handler.bkt, NEW ks, ks = handler.keys
               PROVE  BatchDeletesEveryKey
    OBVIOUS
  <2>1. /\ b \in Buckets /\ ks \in Seq(Keys) /\ Len(ks) \in Nat /\ DOMAIN ks = 1..Len(ks)
        /\ Accounts(report, b, ks, Len(ks))
        /\ ~handler.quiet => Verbose(report, ks, Len(ks))
        /\ handler.quiet => Terse(report)
    BY DEF ServerInv, HandlerInv, BatchInv
  <2>2. report \in Seq(Reports) /\ Len(report) \in Nat /\ DOMAIN report = 1..Len(report)
    BY <2>1 DEF Accounts
  <2>3. ASSUME ~handler.quiet
        PROVE  Len(report) = Len(ks) /\ \A i \in DOMAIN report : report[i][1] = ks[i]
    BY <2>1, <2>2, <2>3 DEF Verbose
  <2>4. ASSUME handler.quiet
        PROVE  ToSet(report) \subseteq ToSet(ks) \X {"error"}
    <3> SUFFICES ASSUME NEW i \in 1..Len(report)
                 PROVE  report[i] \in ToSet(ks) \X {"error"}
      BY <2>2 DEF ToSet
    <3>1. report[i] \in Reports /\ report[i][2] = "error" /\ report[i] \in ToSet(report)
      BY <2>1, <2>2, <2>4 DEF Terse, ToSet
    <3>2. PICK k \in Keys : report[i] = <<k, "error">>
      BY <3>1 DEF Reports
    <3> QED
      BY <2>1, <3>1, <3>2 DEF Accounts
  <2>5. ASSUME NEW k \in ToSet(ks), Acknowledged(k),
               \A c \in CallReqs : Key(c) = k => PutsBefore(c, b, k)
        PROVE  objects[b][k] = None
    <3>1. PICK i \in 1..Len(ks) : ks[i] = k
      BY <2>1 DEF ToSet
    <3>2. k \in Keys
      BY <2>1, <3>1
    <3>3. Deleted(b, k)
      BY <2>1, <2>5, <3>1, <3>2 DEF Acknowledged, Accounts
    <3>4. PICK c \in CallReqs : DeletedBy(c, b, k)
      BY <3>3 DEF Deleted
    <3>5. Gone(c, b, k)
      BY <2>1, <3>2, ServerAssumption DEF ServerInv, StoreInv
    <3>6. PutsBefore(c, b, k)
      BY <2>5, <3>4 DEF DeletedBy, CallFor, Key
    <3> QED
      BY <3>4, <3>5, <3>6 DEF Gone, DeletedBy, CallFor
  <2>6. ASSUME NEW k \in Keys, <<k, "error">> \in ToSet(report)
        PROVE  \E c \in CallReqs : Key(c) = k /\ res[c] \notin {"Ok", "NoSuchKey"}
    <3>1. PICK c \in CallReqs : FailedFor(c, b, k)
      BY <2>1, <2>6 DEF Accounts, Failed
    <3> QED
      BY <3>1 DEF FailedFor, CallFor, Key
  <2> QED
    BY <2>3, <2>4, <2>5, <2>6 DEF BatchDeletesEveryKey
<1> QED
  BY <1>1, ServerInvariant, PTL

(* head_bucket, which looks for .bucket.json among all the buckets, agrees *)
(* with the directory that put_object looks for on a bucket that nobody is *)
(* creating or deleting, whatever happens to the other buckets.            *)
THEOREM HeadAlwaysAgreesWithPut == ServerSpec => []HeadAgreesWithPut
<1>1. ServerInv => HeadAgreesWithPut
  <2> SUFFICES ASSUME ServerInv, handler.op = "head_bucket", answer # "none",
                      QuietBucket(handler.bkt, call)
               PROVE  /\ answer = "Ok" => handler.bkt \in bdir
                      /\ answer = "NoSuchBucket" => handler.bkt \notin bdir
    BY DEF HeadAgreesWithPut
  <2>1. call \in CallReqs /\ pc[call] = "done"
    BY DEF ServerInv, HandlerInv, OneCallAtATime, NoHandler
  <2>2. /\ handler.bkt \in Buckets /\ req[call].op = "list_buckets"
        /\ answer = "Ok" => res[call] = "Ok" /\ <<handler.bkt, None>> \in listed[call]
        /\ answer = "NoSuchBucket" => res[call] = "Ok" /\ <<handler.bkt, None>> \notin listed[call]
    BY DEF ServerInv, HandlerInv, HeadInv
  <2>3. res[call] = "Ok" => (<<handler.bkt, None>> \in listed[call] <=> handler.bkt \in bdir)
    BY <2>1, <2>2, ServerAssumption DEF ServerInv, StoreInv, TableInv, Succeeded
  <2> QED
    BY <2>2, <2>3
<1> QED
  BY <1>1, ServerInvariant, PTL

(* What is quiet for a request is quiet for a later one.                   *)
LEMMA QuietLater ==
  ASSUME NEW c \in Reqs, NEW l \in Reqs, before[c] \subseteq before[l], NEW b, QuietContents(b, c)
  PROVE  QuietBucket(b, l) /\ (Bkt(l) = b => Calm(l))
BY DEF QuietContents, QuietBucket, Calm

(* The bucket table of the UI has exactly one row, with exactly the stored *)
(* objects, for a bucket that nobody was changing, and none for one that   *)
(* is not there; it fails only if some bucket was being changed.           *)
THEOREM TableAlwaysShowsQuietBuckets == ServerSpec => []TableShowsQuietBuckets
<1>1. ASSUME ServerInv, handler.op = "list_buckets_fn", answer # "none",
             NEW c \in CallReqs, FirstCall(c), TableSoFar(c)
      PROVE  /\ answer = "Ok" =>
                  \A b \in Buckets : QuietContents(b, c) =>
                    /\ Cardinality({i \in DOMAIN report : report[i][1] = b}) = (IF b \in bdir THEN 1 ELSE 0)
                    /\ \A i \in DOMAIN report : report[i][1] = b => report[i][2] = Stored(b)
             /\ (\A b \in Buckets : QuietContents(b, c)) => answer = "Ok"
  <2>1. /\ handler # NoHandler /\ call \in CallReqs /\ pc[call] = "done" /\ req[c].op = "list_buckets"
        /\ answer \in {"none", "Ok", "error"} /\ report \in Seq(Row)
    BY <1>1 DEF ServerInv, HandlerInv, OneCallAtATime, NoHandler, FnInv, FirstCall
  <2>2. /\ TableInv(c) /\ \A l \in CallReqs : RowInv(l)
        /\ c \in Reqs /\ CallReqs \subseteq Reqs
    BY <1>1, ServerAssumption DEF ServerInv, StoreInv
  <2>3. ASSUME NEW b \in Buckets, QuietContents(b, c), Succeeded(c)
        PROVE  b \in ListedBuckets(c) <=> b \in bdir
    <3>1. /\ <<b, None>> \in listed[c] <=> b \in bdir
          /\ listed[c] \subseteq Buckets \X {None}
      BY <2>1, <2>2, <2>3 DEF TableInv, QuietContents
    <3>2. \A e \in listed[c] : e = <<e[1], None>>
      BY ONLY <3>1
    <3>3. <<b, None>>[1] = b
      OBVIOUS
    <3>4. <<b, None>> \in listed[c] <=> b \in ListedBuckets(c)
      BY ONLY <3>2, <3>3 DEF ListedBuckets
    <3> QED
      BY <3>1, <3>4
  <2>4. ASSUME answer = "Ok", NEW b \in Buckets, QuietContents(b, c)
        PROVE  /\ Cardinality({i \in DOMAIN report : report[i][1] = b}) = (IF b \in bdir THEN 1 ELSE 0)
               /\ \A i \in DOMAIN report : report[i][1] = b => report[i][2] = Stored(b)
    <3>1. PICK bs \in Seq(Buckets) : Arranges(bs, ListedBuckets(c)) /\ RowsOf(c, bs)
      BY <1>1, <2>4 DEF TableSoFar
    <3>2. Succeeded(c)
      BY <1>1, <2>4 DEF TableSoFar
    <3>3. /\ DOMAIN report = 1..Len(bs)
          /\ \A i \in 1..Len(bs) : report[i][1] = bs[i]
      BY <2>1, <2>4, <3>1 DEF RowsOf
    <3>4. Cardinality({i \in DOMAIN report : report[i][1] = b}) = (IF b \in bdir THEN 1 ELSE 0)
      <4>1. CASE b \in bdir
        <5>1. PICK j \in 1..Len(bs) : bs[j] = b
          BY <2>3, <2>4, <3>1, <3>2, <4>1 DEF Arranges
        <5>2. {i \in DOMAIN report : report[i][1] = b} = {j}
          BY <3>1, <3>3, <5>1 DEF Arranges
        <5> QED
          BY <4>1, <5>2, FS_Singleton
      <4>2. CASE b \notin bdir
        <5>1. \A i \in 1..Len(bs) : bs[i] \in ListedBuckets(c)
          BY <3>1 DEF Arranges
        <5>2. {i \in DOMAIN report : report[i][1] = b} = {}
          BY <2>3, <2>4, <3>2, <3>3, <4>2, <5>1
        <5> QED
          BY <4>2, <5>2, FS_EmptySet
      <4> QED
        BY <4>1, <4>2
    <3>5. ASSUME NEW i \in DOMAIN report, report[i][1] = b
          PROVE  report[i][2] = Stored(b)
      <4>1. PICK l \in CallReqs : RowOf(c, bs[i], report[i][2], l)
        BY <2>1, <3>1, <3>5 DEF RowsOf
      <4>2. bs[i] = b
        BY <3>3, <3>5
      <4>3. QuietBucket(b, l) /\ Calm(l)
        BY <2>2, <2>4, <4>1, <4>2, QuietLater DEF RowOf
      <4> QED
        BY <2>2, <4>1, <4>2, <4>3 DEF RowOf, RowInv, Succeeded
    <3> QED
      BY <3>4, <3>5
  <2>5. ASSUME \A b \in Buckets : QuietContents(b, c), answer = "error"
        PROVE  FALSE
    <3>1. CASE call = c
      <4>1. res[c] # "Ok"
        BY <1>1, <2>5, <3>1 DEF TableSoFar
      <4>2. \A b \in Buckets : QuietBucket(b, c)
        BY <2>5 DEF QuietContents
      <4> QED
        BY <2>1, <2>2, <3>1, <4>1, <4>2 DEF TableInv
    <3>2. CASE call # c
      <4>1. /\ req[call].op = "list" /\ before[c] \subseteq before[call]
            /\ res[call] # "Ok" /\ Succeeded(c)
        BY <1>1, <2>5, <3>2 DEF TableSoFar
      <4>2. PICK bs \in Seq(Buckets) : Arranges(bs, ListedBuckets(c)) /\ RowsOf(c, bs)
        BY <1>1, <3>2 DEF TableSoFar
      <4>3. Bkt(call) \in ListedBuckets(c)
        <5>1. todo \in Seq(Buckets)
          BY <1>1 DEF ServerInv, HandlerInv, FnInv
        <5>2. /\ Len(bs) = Len(report) + 1 + Len(todo)
              /\ Bkt(call) = bs[Len(report) + 1]
          BY <2>5, <4>2 DEF RowsOf
        <5>3. Len(report) + 1 \in 1..Len(bs)
          BY <2>1, <5>1, <5>2
        <5> QED
          BY <4>2, <5>2, <5>3 DEF Arranges
      <4>4. Bkt(call) \in Buckets
        BY <2>1, <2>2, <4>1 DEF RowInv
      <4>5. QuietContents(Bkt(call), c) /\ Bkt(call) \in bdir
        BY <2>3, <2>5, <4>1, <4>3, <4>4
      <4>6. QuietBucket(Bkt(call), call) /\ Calm(call)
        BY <2>1, <2>2, <4>1, <4>5, QuietLater
      <4> QED
        BY <2>1, <2>2, <4>1, <4>5, <4>6 DEF RowInv
    <3> QED
      BY <3>1, <3>2
  <2> QED
    BY <1>1, <2>1, <2>4, <2>5
<1>2. ServerInv => TableShowsQuietBuckets
  <2> SUFFICES ASSUME ServerInv, handler.op = "list_buckets_fn", answer # "none"
               PROVE  TableShowsQuietBuckets
    BY DEF TableShowsQuietBuckets
  <2>1. PICK c \in CallReqs : FirstCall(c) /\ TableSoFar(c)
    BY DEF ServerInv, HandlerInv, FnInv
  <2>2. c = CHOOSE r \in CallReqs : req[r].op = "list_buckets"
    BY <2>1 DEF FirstCall
  <2>3. /\ answer = "Ok" =>
             \A b \in Buckets : QuietContents(b, c) =>
               /\ Cardinality({i \in DOMAIN report : report[i][1] = b}) = (IF b \in bdir THEN 1 ELSE 0)
               /\ \A i \in DOMAIN report : report[i][1] = b => report[i][2] = Stored(b)
        /\ (\A b \in Buckets : QuietContents(b, c)) => answer = "Ok"
    BY <1>1, <2>1
  <2> QED
    BY <2>2, <2>3 DEF TableShowsQuietBuckets
<1> QED
  BY <1>2, ServerInvariant, PTL
=============================================================================
