-------------------------------- MODULE Server --------------------------------
(***************************************************************************)
(* The request handlers that make several storage calls                    *)
(* (crates/server/src/s3_impl.rs, crates/ui/src/server_fns/buckets.rs):    *)
(* delete_objects, head_bucket and list_buckets_fn.  The other handlers    *)
(* make one call and map its result; to the store they are FsStorage's     *)
(* requests themselves.                                                    *)
(*                                                                         *)
(* One such handler runs here among the direct requests of other clients.  *)
(* It awaits each storage call before it makes the next one, so the others *)
(* interleave with every system call of every call it makes, and what one  *)
(* call told it may be out of date when it makes the next.                 *)
(***************************************************************************)
EXTENDS FsStorage, SequencesExt

CONSTANTS
  CallReqs,     \* the storage calls of the handler (bounds their number)
  ClientOps,    \* the operations the other clients issue
  MaxBatch      \* keys in the list of a delete_objects

ASSUME ServerAssumption ==
  /\ CallReqs \subseteq Reqs
  /\ ClientOps \subseteq Ops
  /\ MaxBatch \in Nat
  /\ MaxBatch <= Cardinality(CallReqs)
  /\ IsFiniteSet(Buckets)
  /\ Cardinality(Buckets) < Cardinality(CallReqs)

VARIABLES
  handler,      \* the operation, its bucket, its list of keys and its quiet flag
  call,         \* the storage call it awaits
  todo,         \* the keys, or buckets, it has still to make a call for
  report,       \* what its response lists: <<item, outcome>> in call order
  answer        \* its response

handlerVars == <<handler, call, todo, report, answer>>

NoHandler == [op |-> "none", bkt |-> None, keys |-> <<>>, quiet |-> FALSE]

Batches == UNION {[1..n -> Keys] : n \in 1..MaxBatch}

(***************************************************************************)
(* map_storage_err: the S3 code of the storage errors that reach a client  *)
(* of these handlers.                                                      *)
(***************************************************************************)
S3Code(result) ==
  CASE result = "Io"                  -> "InternalError"
    [] result = "BucketAlreadyExists" -> "BucketAlreadyOwnedByYou"
    [] OTHER                          -> result

(* The awaited call has returned.                                          *)
Returned(op) ==
  /\ handler.op = op
  /\ answer = "none"
  /\ pc[call] = "done"

Respond(a) ==
  /\ answer' = a
  /\ UNCHANGED <<vars, call, todo>>

-----------------------------------------------------------------------------
(***************************************************************************)
(* delete_objects: one delete_object per key of the list, in its order and *)
(* with its repetitions.  An absent key counts as deleted; any other error *)
(* is reported for its key and the loop goes on.  With quiet the response  *)
(* lists the errors only.                                                  *)
(***************************************************************************)
Verdict(result) == IF result \in {"Ok", "NoSuchKey"} THEN "deleted" ELSE "error"

(* Mutant: an error ends the request, as `?` in the loop would.            *)
NextKeyUnlessError(b, ks) ==
  \/ /\ ks # <<>> /\ (call # None => res[call] # "Io")
     /\ \E r \in CallReqs : DeleteObject(r, b, Head(ks)) /\ call' = r
     /\ todo' = Tail(ks)
     /\ UNCHANGED answer
  \/ (ks = <<>> \/ (call # None /\ res[call] = "Io")) /\ Respond("Ok")

NextKey(b, ks) ==
  \/ /\ ks # <<>>
     /\ \E r \in CallReqs : DeleteObject(r, b, Head(ks)) /\ call' = r
     /\ todo' = Tail(ks)
     /\ UNCHANGED answer
  \/ ks = <<>> /\ Respond("Ok")

DeleteObjects(b, ks, quiet) ==
  /\ handler = NoHandler
  /\ handler' = [op |-> "delete_objects", bkt |-> b, keys |-> ks, quiet |-> quiet]
  /\ NextKey(b, ks)
  /\ UNCHANGED report

KeyAnswered ==
  /\ Returned("delete_objects")
  /\ LET verdict == Verdict(res[call]) IN
       report' = IF handler.quiet /\ verdict = "deleted" THEN report
                 ELSE Append(report, <<Key(call), verdict>>)
  /\ NextKey(handler.bkt, todo)
  /\ UNCHANGED handler

(***************************************************************************)
(* head_bucket: list every bucket and look for the name.                   *)
(***************************************************************************)
ListBucketsFirst ==
  /\ handler = NoHandler
  /\ \E r \in CallReqs : ListBuckets(r) /\ call' = r
  /\ UNCHANGED <<todo, report, answer>>

HeadBucket(b) ==
  /\ ListBucketsFirst
  /\ handler' = [op |-> "head_bucket", bkt |-> b, keys |-> <<>>, quiet |-> FALSE]

(* Mutant: a listing that failed is taken for one without the bucket.      *)
HeadBucketAnswerSwallowed ==
  /\ Returned("head_bucket")
  /\ \/ <<handler.bkt, None>> \in listed[call] /\ Respond("Ok")
     \/ <<handler.bkt, None>> \notin listed[call] /\ Respond("NoSuchBucket")
  /\ UNCHANGED <<handler, report>>

HeadBucketAnswer ==
  /\ Returned("head_bucket")
  /\ \/ res[call] # "Ok" /\ Respond(S3Code(res[call]))
     \/ /\ res[call] = "Ok"
        /\ \/ <<handler.bkt, None>> \in listed[call] /\ Respond("Ok")
           \/ <<handler.bkt, None>> \notin listed[call] /\ Respond("NoSuchBucket")
  /\ UNCHANGED <<handler, report>>

(***************************************************************************)
(* list_buckets_fn, the bucket table of the UI: list the buckets, then the *)
(* objects of each in turn.  Any error fails the whole table.  A row keeps *)
(* the entries whose count and total size the code shows.                  *)
(***************************************************************************)
ListBucketsFn ==
  /\ ListBucketsFirst
  /\ handler' = [op |-> "list_buckets_fn", bkt |-> None, keys |-> <<>>, quiet |-> FALSE]

NextBucket(bs) ==
  \/ /\ bs # <<>>
     /\ \E r \in CallReqs : ListObjects(r, Head(bs)) /\ call' = r
     /\ todo' = Tail(bs)
     /\ UNCHANGED answer
  \/ bs = <<>> /\ Respond("Ok")

(* Mutant: a listing that failed is shown as far as it had got.            *)
ListBucketsReturnedAnyway ==
  /\ Returned("list_buckets_fn")
  /\ req[call].op = "list_buckets"
  /\ \E bs \in SetToSeqs({e[1] : e \in listed[call]}) : NextBucket(bs)
  /\ UNCHANGED <<handler, report>>

ListBucketsReturned ==
  /\ Returned("list_buckets_fn")
  /\ req[call].op = "list_buckets"
  /\ \/ res[call] # "Ok" /\ Respond("error")
     \/ /\ res[call] = "Ok"
        /\ \E bs \in SetToSeqs({e[1] : e \in listed[call]}) : NextBucket(bs)
  /\ UNCHANGED <<handler, report>>

RowReturned ==
  /\ Returned("list_buckets_fn")
  /\ req[call].op = "list"
  /\ \/ /\ res[call] # "Ok"
        /\ Respond("error")
        /\ UNCHANGED report
     \/ /\ res[call] = "Ok"
        /\ report' = Append(report, <<Bkt(call), listed[call]>>)
        /\ NextBucket(todo)
  /\ UNCHANGED handler

-----------------------------------------------------------------------------
HandlerInit ==
  /\ handler = NoHandler
  /\ call = None
  /\ todo = <<>>
  /\ report = <<>>
  /\ answer = "none"

Handle ==
  \/ \E b \in Buckets, ks \in Batches, quiet \in BOOLEAN : DeleteObjects(b, ks, quiet)
  \/ KeyAnswered
  \/ \E b \in Buckets : HeadBucket(b)
  \/ HeadBucketAnswer
  \/ ListBucketsFn \/ ListBucketsReturned \/ RowReturned

(***************************************************************************)
(* A client's own request, or the next system call of any request.  A      *)
(* dropped call of the handler is the handler's own end: its client hung   *)
(* up, or the process died, while it awaited that call.                    *)
(***************************************************************************)
StoreStep ==
  /\ \/ \E r \in Reqs \ CallReqs : Issue(r) /\ req'[r].op \in ClientOps
     \/ \E r \in Reqs : Advance(r) \/ Fault(r)
  /\ UNCHANGED handlerVars

HandlerEnded == answer # "none" \/ (call # None /\ pc[call] = "dropped")

ServerQuiescent ==
  /\ HandlerEnded
  /\ Reqs \ CallReqs \subseteq Ended
  /\ UNCHANGED <<vars, handlerVars>>

ServerInit == Init /\ HandlerInit
ServerNext == StoreStep \/ Handle \/ ServerQuiescent
ServerSpec == ServerInit /\ [][ServerNext]_<<vars, handlerVars>>

-----------------------------------------------------------------------------
(***************************************************************************)
(* Properties.                                                             *)
(***************************************************************************)
(* delete_objects accounts for every key of its list, whatever happens to  *)
(* the calls for the others: its response lists each of them in order, or  *)
(* with quiet nothing but errors; a key it calls deleted, or with quiet    *)
(* does not call an error, is gone unless a put of it overlapped; and it   *)
(* calls an error only a key of which a call failed (whose body may be     *)
(* gone, or still be there: either unlink can be what failed).             *)
PutsBefore(c, b, k) ==
  \A w \in Writers(b, k) : req[w].op = "put" => w \in before[c]

Acknowledged(k) ==
  IF handler.quiet THEN <<k, "error">> \notin ToSet(report)
                   ELSE <<k, "deleted">> \in ToSet(report)

BatchDeletesEveryKey ==
  handler.op = "delete_objects" /\ answer = "Ok" =>
    /\ ~handler.quiet => /\ Len(report) = Len(handler.keys)
                         /\ \A i \in DOMAIN report : report[i][1] = handler.keys[i]
    /\ handler.quiet => ToSet(report) \subseteq ToSet(handler.keys) \X {"error"}
    /\ \A k \in ToSet(handler.keys) :
         /\ Acknowledged(k)
         /\ \A c \in CallReqs : Key(c) = k => PutsBefore(c, handler.bkt, k)
         => objects[handler.bkt][k] = None
    /\ \A k \in Keys :
         <<k, "error">> \in ToSet(report) =>
           \E c \in CallReqs : Key(c) = k /\ res[c] \notin {"Ok", "NoSuchKey"}

(***************************************************************************)
(* The create_bucket and delete_bucket requests on b ran one at a time, to *)
(* a clean end, before the request c.                                      *)
(***************************************************************************)
QuietBucket(b, c) ==
  \A x \in BucketOps(b) :
    x \in before[c] /\ Clean(x) /\ \A y \in BucketOps(b) \ {x} : Ordered(x, y)

(* head_bucket looks for .bucket.json among all the buckets, put_object    *)
(* for the directory of one: when no create or delete of that bucket is    *)
(* torn or in flight they agree on whether it is there, whatever is        *)
(* happening to the other buckets of the listing (a torn one makes         *)
(* head_bucket fail, never deny the bucket).                               *)
HeadAgreesWithPut ==
  handler.op = "head_bucket" /\ answer # "none" /\ QuietBucket(handler.bkt, call)
    => /\ answer = "Ok" => handler.bkt \in bdir
       /\ answer = "NoSuchBucket" => handler.bkt \notin bdir

(***************************************************************************)
(* Neither b itself nor an object in it changed during or after the        *)
(* request c, nor was left torn before it.                                 *)
(***************************************************************************)
QuietContents(b, c) ==
  /\ QuietBucket(b, c)
  /\ BucketWriters(b) \subseteq before[c]
  /\ \A k \in Keys : SerialWriters(b, k)

Stored(b) == {<<k, objects[b][k]>> : k \in BodyNames(b)}

(* The bucket table that list_buckets_fn makes of several listings: it has *)
(* exactly one row, with exactly the stored objects, for a bucket nobody   *)
(* was changing, and none for one that is not there; and it fails only if  *)
(* some bucket was being changed or was torn.                              *)
TableShowsQuietBuckets ==
  LET c == CHOOSE r \in CallReqs : req[r].op = "list_buckets"
      Quiet == {b \in Buckets : QuietContents(b, c)}
      Rows(b) == {i \in DOMAIN report : report[i][1] = b}
  IN  handler.op = "list_buckets_fn" /\ answer # "none"
        => /\ answer = "Ok" =>
                \A b \in Quiet :
                  /\ Cardinality(Rows(b)) = (IF b \in bdir THEN 1 ELSE 0)
                  /\ \A i \in Rows(b) : report[i][2] = Stored(b)
           /\ Quiet = Buckets => answer = "Ok"

=============================================================================
