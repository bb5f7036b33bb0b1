------------------------------ MODULE FsStorage ------------------------------
(***************************************************************************)
(* FsStorage, the filesystem backend of ferrobucket                        *)
(* (crates/storage/src/fs.rs, meta.rs, list.rs).                           *)
(*                                                                         *)
(* A bucket b is a directory that holds objects/ (one body file per key),  *)
(* meta/ (one JSON sidecar per key) and .bucket.json.  There is no lock    *)
(* anywhere: every request is a task that issues system calls, and the     *)
(* calls of different requests interleave.  One action below is one system *)
(* call (or a run of calls no other request can observe in between); the   *)
(* local control between two calls is folded into the first of them.       *)
(*                                                                         *)
(* A file's bytes are abstracted to the request that wrote them and how    *)
(* many of its chunks are there.  A sidecar's ObjectMeta (size, ETag) is   *)
(* abstracted to the body content it describes, so body and sidecar agree  *)
(* exactly when they are equal.                                            *)
(***************************************************************************)
EXTENDS Naturals, FiniteSets

CONSTANTS
  Buckets,      \* bucket names that pass validate_bucket_name
  Keys,         \* object keys that pass encode_key
  Reqs,         \* requests; each is issued at most once (bounds the model)
  Ops,          \* the operations the clients of this instance issue
  Chunks,       \* chunks in the body stream of a put
  Drops,        \* may a request's task be dropped, or the process crash?
  IoFaults,     \* may a sidecar system call fail (disk full, name too long)?
  Old,          \* the writer of the objects present at start-up
  None          \* no file, no value

AllOps == {"put", "get", "head", "delete", "list",
           "list_buckets", "create_bucket", "delete_bucket"}

(***************************************************************************)
(* The content of a body file: n chunks of the body of request w.          *)
(***************************************************************************)
Content == [w : Reqs \cup {Old}, n : 0..Chunks]

(***************************************************************************)
(* A .bucket.json: the request that made the file, and whether its JSON is *)
(* complete.                                                               *)
(***************************************************************************)
Inode == Reqs \cup {Old, None}
Json  == [ino : Inode, ok : BOOLEAN]

ASSUME ConstantsAssumption ==
  /\ Ops \subseteq AllOps
  /\ Chunks \in Nat
  /\ Drops \in BOOLEAN
  /\ IoFaults \in BOOLEAN
  /\ Old \notin Reqs
  /\ None \notin Content \cup Json
  /\ None \notin Buckets \cup Keys \cup Reqs \cup {Old}

VARIABLES
  (* the data directory *)
  bdir,         \* buckets whose directory exists
  odir,         \* buckets whose objects/ exists
  mdir,         \* buckets whose meta/ exists
  bjson,        \* .bucket.json: inode and whether its JSON is complete
  objects,      \* objects/<key>: the body
  meta,         \* meta/<key>.json: the sidecar
  otmp,         \* the temporary file of a request in objects/
  mtmp,         \* the temporary file of a request in meta/
  (* the requests *)
  req,          \* operation, bucket and key
  pc,           \* the next system call of the request's task
  res,          \* its result
  sidecar,      \* the ObjectMeta a get or head has read
  stream,       \* the body a get has opened
  names,        \* the directory entries a listing has still to resolve
  listed,       \* the entries a listing has resolved
  fd,           \* the inode of .bucket.json a create has open
  (* history *)
  before        \* the requests that had ended when this one was issued

dirVars  == <<bdir, odir, mdir, bjson>>
fileVars == <<objects, meta, otmp, mtmp>>
callVars == <<req, before>>
ctlVars  == <<pc, res>>
readVars == <<sidecar, stream, names, listed, fd>>
vars     == <<dirVars, fileVars, callVars, ctlVars, readVars>>

(***************************************************************************)
(* Requests.                                                               *)
(***************************************************************************)
NoRequest == [op |-> "none", bkt |-> None, key |-> None]

Ended == {r \in Reqs : pc[r] \in {"done", "dropped"}}

Bkt(r) == req[r].bkt
Key(r) == req[r].key

Accept(r, op, b, k) ==
  /\ op \in Ops
  /\ pc[r] = "idle"
  /\ req' = [req EXCEPT ![r] = [op |-> op, bkt |-> b, key |-> k]]
  /\ before' = [before EXCEPT ![r] = Ended]

Goto(r, label) ==
  /\ pc' = [pc EXCEPT ![r] = label]
  /\ UNCHANGED res

Return(r, result) ==
  /\ pc' = [pc EXCEPT ![r] = "done"]
  /\ res' = [res EXCEPT ![r] = result]

(***************************************************************************)
(* The entries of a directory.  A temporary file is an entry like any      *)
(* other: tempfile names it .tmpXXXXXX, which no encoded key equals (the   *)
(* encoder escapes '.'), but which decode_key accepts.                     *)
(***************************************************************************)
BodyNames(b) == {k \in Keys : objects[b][k] # None}
BodyTemps(b) == {t \in Reqs : otmp[t] # None /\ Bkt(t) = b}
MetaNames(b) == {k \in Keys : meta[b][k] # None}
MetaTemps(b) == {t \in Reqs : mtmp[t] # None /\ Bkt(t) = b}

ObjectsEmpty(b) == BodyNames(b) = {} /\ BodyTemps(b) = {}
MetaEmpty(b)    == MetaNames(b) = {} /\ MetaTemps(b) = {}

(***************************************************************************)
(* The body a put stores when its whole stream has been written.           *)
(***************************************************************************)
Full(r) == [w |-> r, n |-> Chunks]

-----------------------------------------------------------------------------
(***************************************************************************)
(* put_object: body to a temporary file, rename, then the sidecar likewise *)
(***************************************************************************)
PutObject(r, b, k) ==
  /\ Accept(r, "put", b, k)
  /\ \/ b \in bdir /\ Goto(r, "body_temp")
     \/ b \notin bdir /\ Return(r, "NoSuchBucket")
  /\ UNCHANGED <<dirVars, fileVars, readVars>>

CreateBodyTemp(r) ==
  /\ pc[r] = "body_temp"
  /\ \/ /\ Bkt(r) \in odir
        /\ otmp' = [otmp EXCEPT ![r] = [w |-> r, n |-> 0]]
        /\ Goto(r, "stream")
     \/ /\ Bkt(r) \notin odir
        /\ Return(r, "Io")
        /\ UNCHANGED otmp
  /\ UNCHANGED <<dirVars, objects, meta, mtmp, callVars, readVars>>

(* Mutant: a chunk more than the stream has.                               *)
WriteChunkBeyond(r) ==
  /\ pc[r] = "stream"
  /\ otmp[r].n <= Chunks
  /\ otmp' = [otmp EXCEPT ![r].n = @ + 1]
  /\ UNCHANGED <<dirVars, objects, meta, mtmp, callVars, ctlVars, readVars>>

WriteChunk(r) ==
  /\ pc[r] = "stream"
  /\ otmp[r].n < Chunks
  /\ otmp' = [otmp EXCEPT ![r].n = @ + 1]
  /\ UNCHANGED <<dirVars, objects, meta, mtmp, callVars, ctlVars, readVars>>

(* The body stream yields an error, or a write or the rename fails.        *)
BodyError(r) ==
  /\ pc[r] = "stream"
  /\ Goto(r, "body_unlink")
  /\ UNCHANGED <<dirVars, fileVars, callVars, readVars>>

(* Mutant: the error path returns without removing the temporary file.     *)
UnlinkBodyTempSkipped(r) ==
  /\ pc[r] = "body_unlink"
  /\ Return(r, "Io")
  /\ UNCHANGED <<dirVars, fileVars, callVars, readVars>>

UnlinkBodyTemp(r) ==
  /\ pc[r] = "body_unlink"
  /\ otmp' = [otmp EXCEPT ![r] = None]
  /\ Return(r, "Io")
  /\ UNCHANGED <<dirVars, objects, meta, mtmp, callVars, readVars>>

(* Mutant: the rename does not wait for the end of the stream.             *)
RenameBodyEarly(r) ==
  /\ pc[r] = "stream"
  /\ objects' = [objects EXCEPT ![Bkt(r)][Key(r)] = otmp[r]]
  /\ otmp' = [otmp EXCEPT ![r] = None]
  /\ Goto(r, "meta_temp")
  /\ UNCHANGED <<dirVars, meta, mtmp, callVars, readVars>>

RenameBody(r) ==
  /\ pc[r] = "stream"
  /\ otmp[r].n = Chunks
  /\ objects' = [objects EXCEPT ![Bkt(r)][Key(r)] = otmp[r]]
  /\ otmp' = [otmp EXCEPT ![r] = None]
  /\ Goto(r, "meta_temp")
  /\ UNCHANGED <<dirVars, meta, mtmp, callVars, readVars>>

CreateSidecarTemp(r) ==
  /\ pc[r] = "meta_temp"
  /\ \/ /\ Bkt(r) \in mdir
        /\ mtmp' = [mtmp EXCEPT ![r] = Full(r)]
        /\ Goto(r, "meta_rename")
     \/ /\ Bkt(r) \notin mdir \/ IoFaults
        /\ Return(r, "Io")
        /\ UNCHANGED mtmp
  /\ UNCHANGED <<dirVars, objects, meta, otmp, callVars, readVars>>

(* Mutant: success is reported without renaming the sidecar into place.    *)
RenameSidecarForgotten(r) ==
  /\ pc[r] = "meta_rename"
  /\ mtmp' = [mtmp EXCEPT ![r] = None]
  /\ Return(r, "Ok")
  /\ UNCHANGED <<dirVars, objects, meta, otmp, callVars, readVars>>

RenameSidecar(r) ==
  /\ pc[r] = "meta_rename"
  /\ meta' = [meta EXCEPT ![Bkt(r)][Key(r)] = mtmp[r]]
  /\ mtmp' = [mtmp EXCEPT ![r] = None]
  /\ Return(r, "Ok")
  /\ UNCHANGED <<dirVars, objects, otmp, callVars, readVars>>

SidecarError(r) ==
  /\ IoFaults
  /\ pc[r] = "meta_rename"
  /\ Goto(r, "meta_unlink")
  /\ UNCHANGED <<dirVars, fileVars, callVars, readVars>>

UnlinkSidecarTemp(r) ==
  /\ pc[r] = "meta_unlink"
  /\ mtmp' = [mtmp EXCEPT ![r] = None]
  /\ Return(r, "Io")
  /\ UNCHANGED <<dirVars, objects, meta, otmp, callVars, readVars>>

-----------------------------------------------------------------------------
(***************************************************************************)
(* get_object and head_object.  An open body keeps its inode: what is      *)
(* streamed later is what was at the path when it was opened.              *)
(***************************************************************************)
GetObject(r, b, k) ==
  /\ Accept(r, "get", b, k)
  /\ \/ /\ meta[b][k] # None
        /\ sidecar' = [sidecar EXCEPT ![r] = meta[b][k]]
        /\ Goto(r, "open")
     \/ /\ meta[b][k] = None
        /\ Return(r, "NoSuchKey")
        /\ UNCHANGED sidecar
  /\ UNCHANGED <<dirVars, fileVars, stream, names, listed, fd>>

OpenBody(r) ==
  /\ pc[r] = "open"
  /\ LET body == objects[Bkt(r)][Key(r)] IN
       \/ /\ body # None
          /\ stream' = [stream EXCEPT ![r] = body]
          /\ Return(r, "Ok")
       \/ /\ body = None
          /\ Return(r, "NoSuchKey")
          /\ UNCHANGED stream
  /\ UNCHANGED <<dirVars, fileVars, callVars, sidecar, names, listed, fd>>

HeadObject(r, b, k) ==
  /\ Accept(r, "head", b, k)
  /\ \/ /\ meta[b][k] # None
        /\ sidecar' = [sidecar EXCEPT ![r] = meta[b][k]]
        /\ Return(r, "Ok")
     \/ /\ meta[b][k] = None
        /\ Return(r, "NoSuchKey")
        /\ UNCHANGED sidecar
  /\ UNCHANGED <<dirVars, fileVars, stream, names, listed, fd>>

(***************************************************************************)
(* delete_object: unlink the body, then the sidecar.  An unlink that fails *)
(* ends it there.                                                          *)
(***************************************************************************)
DeleteObject(r, b, k) ==
  /\ Accept(r, "delete", b, k)
  /\ \/ /\ objects[b][k] # None
        /\ objects' = [objects EXCEPT ![b][k] = None]
        /\ Goto(r, "meta_delete")
     \/ /\ objects[b][k] = None
        /\ Return(r, "NoSuchKey")
        /\ UNCHANGED objects
     \/ /\ IoFaults
        /\ Return(r, "Io")
        /\ UNCHANGED objects
  /\ UNCHANGED <<dirVars, meta, otmp, mtmp, readVars>>

(* Mutant: the sidecar of a deleted object is left behind.                 *)
DeleteSidecarSkipped(r) ==
  /\ pc[r] = "meta_delete"
  /\ Return(r, "Ok")
  /\ UNCHANGED <<dirVars, fileVars, callVars, readVars>>

DeleteSidecar(r) ==
  /\ pc[r] = "meta_delete"
  /\ meta' = [meta EXCEPT ![Bkt(r)][Key(r)] = None]
  /\ Return(r, "Ok")
  /\ UNCHANGED <<dirVars, objects, otmp, mtmp, callVars, readVars>>

DeleteSidecarError(r) ==
  /\ IoFaults
  /\ pc[r] = "meta_delete"
  /\ Return(r, "Io")
  /\ UNCHANGED <<dirVars, fileVars, callVars, readVars>>

(***************************************************************************)
(* list_objects_v2: one readdir of objects/ (an absent directory is        *)
(* empty), then one sidecar read per entry.  The entries are resolved in   *)
(* any order here; the code's order is by key.  Paging is ListObjects'.    *)
(***************************************************************************)
ListObjects(r, b) ==
  /\ Accept(r, "list", b, None)
  /\ \/ b \in bdir /\ Goto(r, "readdir")
     \/ b \notin bdir /\ Return(r, "NoSuchBucket")
  /\ UNCHANGED <<dirVars, fileVars, readVars>>

ReadObjectsDir(r) ==
  /\ pc[r] = "readdir"
  /\ names' = [names EXCEPT ![r] = BodyNames(Bkt(r)) \cup BodyTemps(Bkt(r))]
  /\ Goto(r, "list_meta")
  /\ UNCHANGED <<dirVars, fileVars, callVars, sidecar, stream, listed, fd>>

ListEntry(r) ==
  /\ pc[r] = "list_meta"
  /\ \E x \in names[r] :
       \/ /\ x \in MetaNames(Bkt(r))
          /\ names' = [names EXCEPT ![r] = @ \ {x}]
          /\ listed' = [listed EXCEPT ![r] = @ \cup {<<x, meta[Bkt(r)][x]>>}]
          /\ UNCHANGED ctlVars
       \/ /\ x \notin MetaNames(Bkt(r))
          /\ Return(r, "NoSuchKey")
          /\ UNCHANGED <<names, listed>>
  /\ UNCHANGED <<dirVars, fileVars, callVars, sidecar, stream, fd>>

ListDone(r) ==
  /\ pc[r] = "list_meta"
  /\ names[r] = {}
  /\ Return(r, "Ok")
  /\ UNCHANGED <<dirVars, fileVars, callVars, readVars>>

-----------------------------------------------------------------------------
(***************************************************************************)
(* list_buckets: one readdir of the data directory, then each              *)
(* .bucket.json; a missing one is skipped, a torn one fails the listing.   *)
(***************************************************************************)
ListBuckets(r) ==
  /\ Accept(r, "list_buckets", None, None)
  /\ names' = [names EXCEPT ![r] = bdir]
  /\ Goto(r, "read_json")
  /\ UNCHANGED <<dirVars, fileVars, sidecar, stream, listed, fd>>

ReadBucketJson(r) ==
  /\ pc[r] = "read_json"
  /\ \E b \in names[r] :
       \/ /\ bjson[b] # None => bjson[b].ok
          /\ names' = [names EXCEPT ![r] = @ \ {b}]
          /\ listed' = [listed EXCEPT ![r] =
                          IF bjson[b] = None THEN @ ELSE @ \cup {<<b, None>>}]
          /\ UNCHANGED ctlVars
       \/ /\ bjson[b] # None
          /\ ~bjson[b].ok
          /\ Return(r, "Io")
          /\ UNCHANGED <<names, listed>>
  /\ UNCHANGED <<dirVars, fileVars, callVars, sidecar, stream, fd>>

ListBucketsDone(r) ==
  /\ pc[r] = "read_json"
  /\ names[r] = {}
  /\ Return(r, "Ok")
  /\ UNCHANGED <<dirVars, fileVars, callVars, readVars>>

(***************************************************************************)
(* create_bucket: mkdir claims the name; the rest is create_dir_all, which *)
(* recreates a missing parent, and a plain truncate-and-write of           *)
(* .bucket.json.                                                           *)
(***************************************************************************)
CreateBucket(r, b) ==
  /\ Accept(r, "create_bucket", b, None)
  /\ \/ /\ b \notin bdir
        /\ bdir' = bdir \cup {b}
        /\ Goto(r, "mk_objects")
     \/ /\ b \in bdir
        /\ Return(r, "BucketAlreadyExists")
        /\ UNCHANGED bdir
  /\ UNCHANGED <<odir, mdir, bjson, fileVars, readVars>>

MakeObjectsDir(r) ==
  /\ pc[r] = "mk_objects"
  /\ bdir' = bdir \cup {Bkt(r)}
  /\ odir' = odir \cup {Bkt(r)}
  /\ Goto(r, "mk_meta")
  /\ UNCHANGED <<mdir, bjson, fileVars, callVars, readVars>>

MakeMetaDir(r) ==
  /\ pc[r] = "mk_meta"
  /\ bdir' = bdir \cup {Bkt(r)}
  /\ mdir' = mdir \cup {Bkt(r)}
  /\ Goto(r, "open_json")
  /\ UNCHANGED <<odir, bjson, fileVars, callVars, readVars>>

OpenBucketJson(r) ==
  /\ pc[r] = "open_json"
  /\ LET b   == Bkt(r)
         ino == IF bjson[b] = None THEN r ELSE bjson[b].ino
     IN \/ /\ b \in bdir
           /\ bjson' = [bjson EXCEPT ![b] = [ino |-> ino, ok |-> FALSE]]
           /\ fd' = [fd EXCEPT ![r] = ino]
           /\ Goto(r, "write_json")
        \/ /\ b \notin bdir
           /\ Return(r, "Io")
           /\ UNCHANGED <<bjson, fd>>
  /\ UNCHANGED <<bdir, odir, mdir, fileVars, callVars,
                 sidecar, stream, names, listed>>

(* Mutant: the JSON stays in a buffer that is never flushed.               *)
WriteBucketJsonUnflushed(r) ==
  /\ pc[r] = "write_json"
  /\ Return(r, "Ok")
  /\ UNCHANGED <<dirVars, fileVars, callVars, readVars>>

(* The write goes to the open inode, which may have been unlinked since.   *)
WriteBucketJson(r) ==
  /\ pc[r] = "write_json"
  /\ bjson' = [bjson EXCEPT ![Bkt(r)] =
                 IF @ # None /\ @.ino = fd[r] THEN [@ EXCEPT !.ok = TRUE] ELSE @]
  /\ Return(r, "Ok")
  /\ UNCHANGED <<bdir, odir, mdir, fileVars, callVars, readVars>>

(***************************************************************************)
(* delete_bucket: refuse a bucket with objects, then remove the pieces one *)
(* by one with non-recursive calls; a missing piece is not an error.       *)
(***************************************************************************)
DeleteBucket(r, b) ==
  /\ Accept(r, "delete_bucket", b, None)
  /\ \/ b \in bdir /\ Goto(r, "check_empty")
     \/ b \notin bdir /\ Return(r, "NoSuchBucket")
  /\ UNCHANGED <<dirVars, fileVars, readVars>>

CheckEmpty(r) ==
  /\ pc[r] = "check_empty"
  /\ \/ ObjectsEmpty(Bkt(r)) /\ Goto(r, "rm_objects")
     \/ ~ObjectsEmpty(Bkt(r)) /\ Return(r, "BucketNotEmpty")
  /\ UNCHANGED <<dirVars, fileVars, callVars, readVars>>

RemoveObjectsDir(r) ==
  /\ pc[r] = "rm_objects"
  /\ \/ /\ ObjectsEmpty(Bkt(r))
        /\ odir' = odir \ {Bkt(r)}
        /\ Goto(r, "rm_meta")
     \/ /\ ~ObjectsEmpty(Bkt(r))
        /\ Goto(r, "recheck_objects")
        /\ UNCHANGED odir
  /\ UNCHANGED <<bdir, mdir, bjson, fileVars, callVars, readVars>>

(* Mutant: a directory found occupied is tried again.                      *)
RecheckObjectsRetry(r) ==
  /\ pc[r] = "recheck_objects"
  /\ Goto(r, "rm_objects")
  /\ UNCHANGED <<dirVars, fileVars, callVars, readVars>>

RecheckObjects(r) ==
  /\ pc[r] = "recheck_objects"
  /\ \/ ~ObjectsEmpty(Bkt(r)) /\ Return(r, "BucketNotEmpty")
     \/ ObjectsEmpty(Bkt(r)) /\ Return(r, "Io")
  /\ UNCHANGED <<dirVars, fileVars, callVars, readVars>>

RemoveMetaDir(r) ==
  /\ pc[r] = "rm_meta"
  /\ \/ /\ MetaEmpty(Bkt(r))
        /\ mdir' = mdir \ {Bkt(r)}
        /\ Goto(r, "rm_json")
     \/ /\ ~MetaEmpty(Bkt(r))
        /\ Goto(r, "recheck_meta")
        /\ UNCHANGED mdir
  /\ UNCHANGED <<bdir, odir, bjson, fileVars, callVars, readVars>>

RecheckMeta(r) ==
  /\ pc[r] = "recheck_meta"
  /\ \/ ~MetaEmpty(Bkt(r)) /\ Return(r, "BucketNotEmpty")
     \/ MetaEmpty(Bkt(r)) /\ Return(r, "Io")
  /\ UNCHANGED <<dirVars, fileVars, callVars, readVars>>

RemoveBucketJson(r) ==
  /\ pc[r] = "rm_json"
  /\ bjson' = [bjson EXCEPT ![Bkt(r)] = None]
  /\ Goto(r, "rm_bucket")
  /\ UNCHANGED <<bdir, odir, mdir, fileVars, callVars, readVars>>

RemoveBucketDir(r) ==
  /\ pc[r] = "rm_bucket"
  /\ LET b      == Bkt(r)
         vacant == b \notin odir \cup mdir /\ bjson[b] = None
     IN \/ vacant /\ bdir' = bdir \ {b} /\ Return(r, "Ok")
        \/ ~vacant /\ Return(r, "Io") /\ UNCHANGED bdir
  /\ UNCHANGED <<odir, mdir, bjson, fileVars, callVars, readVars>>

-----------------------------------------------------------------------------
(***************************************************************************)
(* A request's task is dropped (the client hangs up) or dies with the      *)
(* process: whatever it has done to the filesystem stays.  A crash drops   *)
(* every request at once.                                                  *)
(***************************************************************************)
Drop(r) ==
  /\ Drops
  /\ pc[r] \notin {"idle", "done", "dropped"}
  /\ pc' = [pc EXCEPT ![r] = "dropped"]
  /\ UNCHANGED <<res, dirVars, fileVars, callVars, readVars>>

(***************************************************************************)
(* At start-up every bucket is absent or whole, and every object of a      *)
(* whole bucket absent or stored with its sidecar.                         *)
(***************************************************************************)
Init ==
  /\ \E B \in SUBSET Buckets :
       /\ bdir = B /\ odir = B /\ mdir = B
       /\ bjson = [b \in Buckets |-> IF b \in B THEN [ino |-> Old, ok |-> TRUE]
                                                ELSE None]
       /\ \E K \in [B -> SUBSET Keys] :
            objects = [b \in Buckets |-> [k \in Keys |->
                         IF b \in B /\ k \in K[b] THEN Full(Old) ELSE None]]
  /\ meta = objects
  /\ otmp = [r \in Reqs |-> None]
  /\ mtmp = [r \in Reqs |-> None]
  /\ req = [r \in Reqs |-> NoRequest]
  /\ pc = [r \in Reqs |-> "idle"]
  /\ res = [r \in Reqs |-> "none"]
  /\ sidecar = [r \in Reqs |-> None]
  /\ stream = [r \in Reqs |-> None]
  /\ names = [r \in Reqs |-> {}]
  /\ listed = [r \in Reqs |-> {}]
  /\ fd = [r \in Reqs |-> None]
  /\ before = [r \in Reqs |-> {}]

Issue(r) ==
  \/ \E b \in Buckets, k \in Keys :
       \/ PutObject(r, b, k)
       \/ GetObject(r, b, k)
       \/ HeadObject(r, b, k)
       \/ DeleteObject(r, b, k)
  \/ \E b \in Buckets :
       \/ ListObjects(r, b)
       \/ CreateBucket(r, b)
       \/ DeleteBucket(r, b)
  \/ ListBuckets(r)

Advance(r) ==
  \/ CreateBodyTemp(r) \/ WriteChunk(r) \/ RenameBody(r) \/ UnlinkBodyTemp(r)
  \/ CreateSidecarTemp(r) \/ RenameSidecar(r) \/ UnlinkSidecarTemp(r)
  \/ OpenBody(r)
  \/ DeleteSidecar(r)
  \/ ReadObjectsDir(r) \/ ListEntry(r) \/ ListDone(r)
  \/ ReadBucketJson(r) \/ ListBucketsDone(r)
  \/ MakeObjectsDir(r) \/ MakeMetaDir(r) \/ OpenBucketJson(r) \/ WriteBucketJson(r)
  \/ CheckEmpty(r) \/ RemoveObjectsDir(r) \/ RecheckObjects(r)
  \/ RemoveMetaDir(r) \/ RecheckMeta(r) \/ RemoveBucketJson(r) \/ RemoveBucketDir(r)

Fault(r) ==
  \/ BodyError(r) \/ SidecarError(r) \/ DeleteSidecarError(r) \/ Drop(r)

(* Every request has ended: the bounded client has nothing more to ask.    *)
Quiescent ==
  /\ Ended = Reqs
  /\ UNCHANGED vars

Next ==
  \/ \E r \in Reqs : Issue(r) \/ Advance(r) \/ Fault(r)
  \/ Quiescent

Spec == Init /\ [][Next]_vars

(***************************************************************************)
(* The runtime polls every ready task again, and a blocking call returns:  *)
(* the next step of an issued request is weakly fair.  Issuing a request   *)
(* and the faults are not.                                                 *)
(***************************************************************************)
FairSpec == Spec /\ \A r \in Reqs : WF_vars(Advance(r))

-----------------------------------------------------------------------------
(***************************************************************************)
(* Properties.                                                             *)
(***************************************************************************)
Labels == {"idle", "done", "dropped",
           "body_temp", "stream", "body_unlink",
           "meta_temp", "meta_rename", "meta_unlink", "meta_delete",
           "open", "readdir", "list_meta", "read_json",
           "mk_objects", "mk_meta", "open_json", "write_json",
           "check_empty", "rm_objects", "recheck_objects",
           "rm_meta", "recheck_meta", "rm_json", "rm_bucket"}

Results == {"none", "Ok", "Io", "NoSuchBucket", "NoSuchKey",
            "BucketAlreadyExists", "BucketNotEmpty"}

File    == Content \cup {None}
Request == [op : Ops \cup {"none"}, bkt : Buckets \cup {None}, key : Keys \cup {None}]
Entry   == Keys \cup Reqs \cup Buckets

(* Every variable has its type.                                            *)
TypeOK ==
  /\ bdir \in SUBSET Buckets
  /\ odir \in SUBSET Buckets
  /\ mdir \in SUBSET Buckets
  /\ bjson \in [Buckets -> Json \cup {None}]
  /\ objects \in [Buckets -> [Keys -> File]]
  /\ meta \in [Buckets -> [Keys -> File]]
  /\ otmp \in [Reqs -> File]
  /\ mtmp \in [Reqs -> File]
  /\ req \in [Reqs -> Request]
  /\ pc \in [Reqs -> Labels]
  /\ res \in [Reqs -> Results]
  /\ sidecar \in [Reqs -> File]
  /\ stream \in [Reqs -> File]
  /\ names \in [Reqs -> SUBSET Entry]
  /\ listed \in [Reqs -> SUBSET ((Keys \cup Buckets) \X File)]
  /\ fd \in [Reqs -> Inode]
  /\ before \in [Reqs -> SUBSET Reqs]

(* A body visible under its key, in the store or in a reader's hands, is   *)
(* always the complete stream of one put: neither an upload in progress    *)
(* nor one that failed or was cut off is ever readable, and no two writers *)
(* mix (temporary file and rename in write_object_body).                   *)
BodiesAreWhole ==
  /\ \A b \in Buckets, k \in Keys :
       objects[b][k] # None => objects[b][k].n = Chunks
  /\ \A r \in Reqs : stream[r] # None => stream[r].n = Chunks

(* A request that returns to its caller, with success or with an error     *)
(* from any step, leaves no temporary file behind in objects/ or meta/     *)
(* (the clean-up of WR-06); only a dropped request may.                    *)
NoTempLeak ==
  \A r \in Reqs : pc[r] = "done" => otmp[r] = None /\ mtmp[r] = None

(***************************************************************************)
(* The requests issued so far that change key k of bucket b: put_object,   *)
(* delete_object and (in Multipart) complete_multipart_upload.             *)
(***************************************************************************)
WriterOps == {"put", "complete", "delete"}

Writers(b, k) ==
  {r \in Reqs : req[r].op \in WriterOps /\ Bkt(r) = b /\ Key(r) = k}

Succeeded(r) == pc[r] = "done" /\ res[r] = "Ok"

Outcome(r) == IF req[r].op = "delete" THEN None ELSE Full(r)

(* If a put or delete of a key succeeds and was issued after every other   *)
(* put or delete of that key had ended, then body and sidecar are both     *)
(* exactly what it leaves: an acknowledged put is stored with its own      *)
(* metadata, an acknowledged delete leaves nothing.  This holds whatever   *)
(* was torn by earlier overlaps, errors, drops and crashes (a later write  *)
(* heals the key), and whatever delete_bucket and create_bucket are doing. *)
LastWriterWins ==
  \A b \in Buckets, k \in Keys : \A r \in Writers(b, k) :
    Succeeded(r) /\ (\A w \in Writers(b, k) \ {r} : w \in before[r])
      => objects[b][k] = Outcome(r) /\ meta[b][k] = Outcome(r)

(***************************************************************************)
(* The writers of k ran one after the other, each to a clean end.          *)
(***************************************************************************)
Clean(r) == pc[r] = "done" /\ res[r] # "Io"

Ordered(r, s) == r \in before[s] \/ s \in before[r]

SerialWriters(b, k) ==
  /\ \A w \in Writers(b, k) : Clean(w)
  /\ \A w, x \in Writers(b, k) : w # x => Ordered(w, x)

(* Read-after-write: a get or head that overlaps no writer of its key sees *)
(* the last successful writer before it, with body and metadata of that    *)
(* same put, and NoSuchKey after a delete.                                 *)
ReadsSeeLastWriter ==
  \A g \in Reqs :
    LET W == Writers(Bkt(g), Key(g)) \cap before[g]
    IN  /\ pc[g] = "done"
        /\ req[g].op \in {"get", "head"}
        /\ \A w \in Writers(Bkt(g), Key(g)) : Ordered(w, g)
        => \A r \in W :
             Succeeded(r) /\ (\A w \in W \ {r} : w \in before[r])
               => IF req[r].op = "delete" THEN res[g] = "NoSuchKey"
                  ELSE /\ res[g] = "Ok"
                       /\ sidecar[g] = Full(r)
                       /\ req[g].op = "get" => stream[g] = Full(r)

(* A listing that overlaps no writer of its bucket, after writers that ran *)
(* one at a time to a clean end, does not fail, and returns exactly the    *)
(* keys then stored, each with the metadata of its body.                   *)
BucketWriters(b) == UNION {Writers(b, k) : k \in Keys}

QuietListingIsExact ==
  \A l \in Reqs :
    LET W == BucketWriters(Bkt(l))
        P == W \cap before[l]
    IN  /\ pc[l] = "done"
        /\ req[l].op = "list"
        /\ \A w \in W : Ordered(w, l)
        /\ \A w \in P : Clean(w) /\ \A x \in P \ {w} : Ordered(w, x)
        => /\ res[l] \in {"Ok", "NoSuchBucket"}
           /\ res[l] = "Ok" =>
                \A r \in P : \A k \in Keys :
                  /\ Key(r) = k
                  /\ Succeeded(r)
                  /\ \A w \in (P \cap Writers(Bkt(l), k)) \ {r} : w \in before[r]
                  => {e \in listed[l] : e[1] = k} =
                       IF req[r].op = "delete" THEN {} ELSE {<<k, Full(r)>>}

(***************************************************************************)
(* The create_bucket and delete_bucket requests issued so far on b.        *)
(***************************************************************************)
BucketOps(b) ==
  {r \in Reqs : req[r].op \in {"create_bucket", "delete_bucket"} /\ Bkt(r) = b}

Whole(b) ==
  /\ b \in bdir \cap odir \cap mdir
  /\ bjson[b] # None
  /\ bjson[b].ok

(* If a create_bucket or delete_bucket succeeds and was issued after every *)
(* other one on that name had ended, the bucket is whole, respectively     *)
(* gone with everything in it, whatever half-made or half-removed bucket   *)
(* the earlier ones left and whatever puts and deletes run meanwhile.      *)
LastBucketOpWins ==
  \A b \in Buckets : \A r \in BucketOps(b) :
    Succeeded(r) /\ (\A x \in BucketOps(b) \ {r} : x \in before[r])
      => IF req[r].op = "create_bucket" THEN Whole(b) ELSE b \notin bdir

(* Every request that is issued ends: no step waits for another request,   *)
(* and no error path leads nowhere.                                        *)
RequestsEnd ==
  \A r \in Reqs : (pc[r] # "idle") ~> (pc[r] \in {"done", "dropped"})

(* A comment of write_object_body calls the temporary files in objects/    *)
(* "invisible temp files" that "never decode": a listing never takes one   *)
(* for an object.                                                          *)
TempsStayInvisible == \A l \in Reqs : names[l] \cap Reqs = {}

(* A comment of delete_bucket says that meta/ "holds only sidecars; with   *)
(* objects/ empty it should be empty too": a delete_bucket that finds      *)
(* objects/ empty, issued after every put and delete in the bucket had     *)
(* returned, finds no sidecar in meta/ either.                             *)
MetaEmptiesWithObjects ==
  \A r \in Reqs :
    pc[r] = "rm_meta" /\ BucketWriters(Bkt(r)) \subseteq before[r]
      => MetaNames(Bkt(r)) = {}

=============================================================================
