------------------------------ MODULE RangedGet ------------------------------
(***************************************************************************)
(* Ranged GetObject, from the Range header to the reply: ByteRange::resolve*)
(* (crates/storage/src/range.rs), get_object (crates/storage/src/fs.rs)    *)
(* and its S3 adapter (crates/server/src/s3_impl.rs).                      *)
(*                                                                         *)
(* The range is resolved against the size in the sidecar, but the bytes    *)
(* come from the body file, which is opened later and may belong to another*)
(* put.  The adapter resolves the range a second time to write the headers.*)
(* Only lengths matter here: an object is its size, None when absent.      *)
(***************************************************************************)
EXTENDS Integers

CONSTANTS
  U64Max,       \* the largest u64
  MaxSize,      \* the largest object
  Offsets,      \* the offsets and lengths that occur in Range headers
  None

ASSUME RangeAssumption ==
  /\ U64Max \in Nat
  /\ MaxSize \in 0..U64Max
  /\ Offsets \subseteq 0..U64Max
  /\ None \notin 0..U64Max
  /\ None \notin [start : 0..U64Max, length : 0..U64Max]

Sizes == 0..MaxSize

(***************************************************************************)
(* ByteRange; "none" is a request without a Range header.                  *)
(***************************************************************************)
Ranges ==
  [kind : {"full"}, first : Offsets, last : Offsets]
    \cup [kind : {"open"}, first : Offsets]
    \cup [kind : {"suffix"}, n : Offsets]

Unranged == [kind |-> "none"]

(***************************************************************************)
(* u64 arithmetic of a release build: one addition or subtraction wraps.   *)
(***************************************************************************)
U64(x) ==
  IF x < 0 THEN x + U64Max + 1 ELSE IF x > U64Max THEN x - U64Max - 1 ELSE x

Least(a, b) == IF a <= b THEN a ELSE b

Window(s, l) == [start |-> s, length |-> l]

ResolveFull(first, last, len) ==
  LET end == Least(last, U64(len - 1))
  IN  IF len = 0 \/ first >= len \/ first > end THEN None
      ELSE Window(first, U64(U64(end - first) + 1))

(* Mutant: the whole object's length from an offset within it.             *)
ResolveOpenLong(first, len) ==
  IF len = 0 \/ first >= len THEN None ELSE Window(first, len)

ResolveOpen(first, len) ==
  IF len = 0 \/ first >= len THEN None ELSE Window(first, U64(len - first))

ResolveSuffix(n, len) ==
  Window(U64(len - Least(n, len)), Least(n, len))

Resolve(rg, len) ==
  CASE rg.kind = "full"   -> ResolveFull(rg.first, rg.last, len)
    [] rg.kind = "open"   -> ResolveOpen(rg.first, len)
    [] rg.kind = "suffix" -> ResolveSuffix(rg.n, len)

VARIABLES
  body,         \* size of objects/<key>
  sidecar,      \* the size in meta/<key>.json
  writing,      \* the size whose sidecar a put or delete has still to write
  wpc,          \* "idle" or "meta": what the writer does next
  gpc,          \* "idle", "open" or "replied"
  range,        \* the request's range
  size,         \* ObjectMeta.size as get_object read it
  window,       \* the resolved range, None without one
  reply,        \* what the client got
  quiet         \* history: the object has not changed since the get began

vars == <<body, sidecar, writing, wpc, gpc, range, size, window, reply, quiet>>
storeVars == <<body, sidecar, writing, wpc>>

(***************************************************************************)
(* A reply: status, Content-Length, Content-Range (first and last byte)    *)
(* and the bytes of the body stream: count bytes of the file from byte.    *)
(***************************************************************************)
Answer(status, contentLength, contentRange, from, count) ==
  [status |-> status, contentLength |-> contentLength, contentRange |-> contentRange,
   from |-> from, count |-> count]

Failure(status) == Answer(status, 0, None, 0, 0)

(***************************************************************************)
(* One writer at a time replaces or deletes the object: first the body,    *)
(* then the sidecar (s = None deletes).                                    *)
(***************************************************************************)
WriteBody(s) ==
  /\ wpc = "idle"
  /\ s # None \/ body # None
  /\ body' = s
  /\ writing' = s
  /\ wpc' = "meta"
  /\ quiet' = FALSE
  /\ UNCHANGED <<sidecar, gpc, range, size, window, reply>>

WriteSidecar ==
  /\ wpc = "meta"
  /\ sidecar' = writing
  /\ wpc' = "idle"
  /\ quiet' = FALSE
  /\ UNCHANGED <<body, writing, gpc, range, size, window, reply>>

(* get_object reads the sidecar and resolves the range against its size.   *)
StartGet(rg) ==
  LET w == IF sidecar = None \/ rg = Unranged THEN None ELSE Resolve(rg, sidecar)
  IN  /\ gpc # "open"
      /\ range' = rg
      /\ size' = sidecar
      /\ quiet' = (wpc = "idle")
      /\ window' = w
      /\ \/ /\ sidecar = None
            /\ reply' = Failure(404)
            /\ gpc' = "replied"
         \/ /\ sidecar # None /\ rg # Unranged /\ w = None
            /\ reply' = Failure(416)
            /\ gpc' = "replied"
         \/ /\ sidecar # None /\ (rg = Unranged \/ w # None)
            /\ gpc' = "open"
            /\ UNCHANGED reply
      /\ UNCHANGED storeVars

(***************************************************************************)
(* The stream: the whole file, or at most window.length bytes of it from   *)
(* window.start (a seek past the end is no error, and reads nothing).      *)
(***************************************************************************)
StreamFrom == IF window = None THEN 0 ELSE window.start

StreamCount ==
  IF window = None THEN body
  ELSE IF window.start >= body THEN 0
  ELSE Least(window.length, body - window.start)

(***************************************************************************)
(* The adapter's headers, from the sidecar's size alone.                   *)
(***************************************************************************)
LastByte(w) == U64(w.start + (IF w.length = 0 THEN 0 ELSE w.length - 1))

(* Mutant: the headers give the whole size whatever the range.             *)
PartialWholeLength(w) ==
  Answer(206, size, Window(w.start, LastByte(w)), StreamFrom, StreamCount)

Partial(w) ==
  Answer(206, w.length, Window(w.start, LastByte(w)), StreamFrom, StreamCount)

Complete == Answer(200, size, None, StreamFrom, StreamCount)

OpenAndReply ==
  /\ gpc = "open"
  /\ gpc' = "replied"
  /\ reply' = IF body = None THEN Failure(404)
              ELSE IF window = None THEN Complete
              ELSE IF window.length > 0 THEN Partial(window)
              ELSE Complete
  /\ UNCHANGED <<storeVars, range, size, window, quiet>>

Init ==
  /\ body \in Sizes \cup {None}
  /\ sidecar = body
  /\ writing = None
  /\ wpc = "idle"
  /\ gpc = "idle"
  /\ range = Unranged
  /\ size = None
  /\ window = None
  /\ reply = Failure(404)
  /\ quiet = FALSE

Next ==
  \/ \E s \in Sizes \cup {None} : WriteBody(s)
  \/ WriteSidecar
  \/ \E rg \in Ranges \cup {Unranged} : StartGet(rg)
  \/ OpenAndReply

Spec == Init /\ [][Next]_vars

-----------------------------------------------------------------------------
(***************************************************************************)
(* Properties.                                                             *)
(***************************************************************************)
Windows == [start : 0..U64Max, length : 0..U64Max]

Replies ==
  [status : {200, 206, 404, 416}, contentLength : Sizes,
   contentRange : Windows \cup {None}, from : 0..U64Max, count : Sizes]

(* Every variable has its type.                                            *)
TypeOK ==
  /\ body \in Sizes \cup {None}
  /\ sidecar \in Sizes \cup {None}
  /\ writing \in Sizes \cup {None}
  /\ wpc \in {"idle", "meta"}
  /\ gpc \in {"idle", "open", "replied"}
  /\ range \in Ranges \cup {Unranged}
  /\ size \in Sizes \cup {None}
  /\ window \in Windows \cup {None}
  /\ reply \in Replies
  /\ quiet \in BOOLEAN

(* ResolvedRange promises start + length <= object_len, whatever the       *)
(* header holds and although the arithmetic is u64: the seek and the       *)
(* bounded read of get_object rely on it.                                  *)
WindowsAreWithin ==
  window # None => size # None /\ window.start + window.length <= size

(***************************************************************************)
(* The bytes of an object of len bytes that a range asks for (RFC 9110,    *)
(* 14.1.2), stated byte by byte.                                           *)
(***************************************************************************)
Asked(rg, len) ==
  {i \in 0..(len - 1) :
     CASE rg.kind = "none"   -> TRUE
       [] rg.kind = "full"   -> rg.first <= i /\ i <= rg.last
       [] rg.kind = "open"   -> rg.first <= i
       [] rg.kind = "suffix" -> i + rg.n >= len}

Sent(a) == {i \in 0..(MaxSize - 1) : a.from <= i /\ i < a.from + a.count}

ZeroSuffix == range.kind = "suffix" /\ range.n = 0

(* The reply to a get during which no writer of the object was at work     *)
(* carries exactly the bytes that were asked for, Content-Length announces *)
(* just as many, Content-Range their first and last; 206 stands for some   *)
(* bytes of a range, 416 for none.  A suffix of length zero is excepted:   *)
(* the code answers 200 with the Content-Length of the whole object and    *)
(* sends no byte.                                                          *)
ReplyIsExact ==
  gpc = "replied" /\ quiet /\ ~ZeroSuffix =>
    /\ reply.status = 404 <=> sidecar = None
    /\ sidecar # None =>
         /\ Sent(reply) = Asked(range, sidecar)
         /\ reply.contentLength = reply.count
         /\ reply.status = 206 <=> range # Unranged /\ Asked(range, sidecar) # {}
         /\ reply.status = 206 =>
              reply.contentRange = Window(reply.from, reply.from + reply.count - 1)
         /\ reply.status = 416 => Asked(range, sidecar) = {}

=============================================================================
