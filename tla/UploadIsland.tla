---------------------------- MODULE UploadIsland ----------------------------
(***************************************************************************)
(* The upload zone of the web console (ui/src/islands/upload_zone.rs) and  *)
(* the endpoint it posts to (server/src/ui/upload.rs).                     *)
(*                                                                         *)
(* Every chosen file is uploaded by a task of its own: a small file by one *)
(* XHR whose outcome comes in callbacks, a large one by a chain of fetch   *)
(* requests create, part 1, ..., part Parts, complete, with an abort when  *)
(* a part fails.  A count of unfinished uploads decides when the page is   *)
(* reloaded.  What the storage does with a request is taken in one step    *)
(* (module Multipart has its system calls): here matter the answers that   *)
(* are refusals or never come, requests served after the browser gave up   *)
(* on them, and a page that goes away.                                     *)
(***************************************************************************)
EXTENDS Naturals, FiniteSets

CONSTANTS
  SmallFiles,   \* files of at most 8 MiB
  LargeFiles,   \* files above 8 MiB
  Parts,        \* the number of parts of a large file (bounds the model)
  None          \* no request awaited, or no multipart upload

Files == SmallFiles \cup LargeFiles

ASSUME UploadAssumption ==
  /\ SmallFiles \cap LargeFiles = {}
  /\ IsFiniteSet(Files)
  /\ Parts \in Nat \ {0}
  /\ None \notin {"sent", "ok", "refused", "lost"}
  /\ \A S \in SUBSET (1..Parts) : None # S

VARIABLES
  (* the island *)
  pc,           \* the request a file's task awaits, or "idle", "stuck", "settled"
  part,         \* the part number shown in the panel (set_part)
  acked,        \* part_numbers: the parts whose POST succeeded
  status,       \* UploadStatus of the file's entry
  pending,      \* uploads not yet terminal
  anyDone,      \* at least one upload succeeded
  due,          \* the reloading effect is scheduled: one of its signals was set
  page,         \* "live", "reloading" (reload() was called) or "gone"
  (* the network and the server *)
  flight,       \* the request a task awaits: sent, answered or lost
  stray,        \* requests nobody awaits that the server may still serve
  staging,      \* the parts of the file's multipart upload on the server
  stored,       \* what the server stores under the file's key
  (* history *)
  aborted       \* the files whose abort was acknowledged

island == <<pc, part, acked, status, pending, anyDone, due, page>>
server == <<staging, stored>>
vars == <<island, flight, stray, server, aborted>>

Ended == {"ok", "refused", "lost"}

Requests == [file : Files, op : {"put", "create", "part", "complete", "abort"}, part : 0..Parts]

Awaited(f) == [file |-> f, op |-> pc[f], part |-> part[f]]

-----------------------------------------------------------------------------
(***************************************************************************)
(* What a task does next: send a request, or settle.  Settling sets the    *)
(* status and counts the upload out in one go, with no await in between.   *)
(***************************************************************************)
Send(f, op) ==
  /\ pc' = [pc EXCEPT ![f] = op]
  /\ flight' = [flight EXCEPT ![f] = "sent"]
  /\ UNCHANGED <<status, pending, anyDone, due>>

(* Mutant: the error path settles and the common end does so once more.    *)
SettleTwice(f, s) ==
  /\ pc' = [pc EXCEPT ![f] = "settled"]
  /\ flight' = [flight EXCEPT ![f] = None]
  /\ status' = [status EXCEPT ![f] = s]
  /\ anyDone' = (anyDone \/ s = "Done")
  /\ pending' = IF s = "Done" /\ pending > 0 THEN pending - 1
                ELSE IF pending > 1 THEN pending - 2 ELSE 0
  /\ due' = TRUE

(* Mutant: the effect does not track the count, only any_done.             *)
SettleUntracked(f, s) ==
  /\ pc' = [pc EXCEPT ![f] = "settled"]
  /\ flight' = [flight EXCEPT ![f] = None]
  /\ status' = [status EXCEPT ![f] = s]
  /\ anyDone' = (anyDone \/ s = "Done")
  /\ pending' = IF pending = 0 THEN 0 ELSE pending - 1
  /\ due' = (due \/ (s = "Done" /\ ~anyDone))

Settle(f, s) ==
  /\ pc' = [pc EXCEPT ![f] = "settled"]
  /\ flight' = [flight EXCEPT ![f] = None]
  /\ status' = [status EXCEPT ![f] = s]
  /\ anyDone' = (anyDone \/ s = "Done")
  /\ pending' = IF pending = 0 THEN 0 ELSE pending - 1
  /\ due' = TRUE

(* The next chunk is cut and posted; a slice that fails aborts the upload. *)
PostPart(f, n) ==
  \/ Send(f, "part") /\ part' = [part EXCEPT ![f] = n]
  \/ Send(f, "abort") /\ UNCHANGED part

(***************************************************************************)
(* The user drops or selects files: all of them start in one go.  When an  *)
(* XHR cannot be made, its upload returns early and never settles.         *)
(***************************************************************************)
FirstRequest(f) == IF f \in SmallFiles THEN "put" ELSE "create"

Choose(S, unsent) ==
  /\ page # "gone"
  /\ S # {}
  /\ unsent \subseteq SmallFiles
  /\ \A f \in S : pc[f] = "idle"
  /\ pending' = pending + Cardinality(S)
  /\ due' = TRUE
  /\ pc' = [f \in Files |-> IF f \notin S THEN pc[f]
                            ELSE IF f \in unsent THEN "stuck" ELSE FirstRequest(f)]
  /\ flight' = [f \in Files |-> IF f \in S \ unsent THEN "sent" ELSE flight[f]]
  /\ UNCHANGED <<part, acked, status, anyDone, page, stray, server, aborted>>

(* onload fires for every answer, whatever its status code.                *)
SmallLoaded(f) ==
  /\ pc[f] = "put"
  /\ flight[f] \in {"ok", "refused"}
  /\ Settle(f, "Done")
  /\ UNCHANGED <<part, acked, page, stray, server, aborted>>

(* onerror fires when no answer came.                                      *)
SmallFailed(f) ==
  /\ pc[f] = "put"
  /\ flight[f] = "lost"
  /\ Settle(f, "Error")
  /\ UNCHANGED <<part, acked, page, stray, server, aborted>>

CreateAnswered(f) ==
  /\ pc[f] = "create"
  /\ flight[f] = "ok"
  /\ PostPart(f, 1)
  /\ UNCHANGED <<acked, page, stray, server, aborted>>

CreateFailed(f) ==
  /\ pc[f] = "create"
  /\ flight[f] \in {"refused", "lost"}
  /\ Settle(f, "Error")
  /\ UNCHANGED <<part, acked, page, stray, server, aborted>>

PartAnswered(f) ==
  /\ pc[f] = "part"
  /\ flight[f] = "ok"
  /\ acked' = [acked EXCEPT ![f] = @ \cup {part[f]}]
  /\ IF part[f] < Parts THEN PostPart(f, part[f] + 1)
     ELSE Send(f, "complete") /\ UNCHANGED part
  /\ UNCHANGED <<page, stray, server, aborted>>

(* Mutant: a part that fails ends the loop but not the upload.             *)
PartFailedCompletes(f) ==
  /\ pc[f] = "part"
  /\ flight[f] \in {"refused", "lost"}
  /\ Send(f, "complete")
  /\ UNCHANGED <<part, acked, page, stray, server, aborted>>

(* Mutant: the failing part is posted until it succeeds.                   *)
PartFailedRetries(f) ==
  /\ pc[f] = "part"
  /\ flight[f] \in {"refused", "lost"}
  /\ Send(f, "part")
  /\ UNCHANGED <<part, acked, page, stray, server, aborted>>

PartFailed(f) ==
  /\ pc[f] = "part"
  /\ flight[f] \in {"refused", "lost"}
  /\ Send(f, "abort")
  /\ UNCHANGED <<part, acked, page, stray, server, aborted>>

(* The answer to an abort is not looked at.                                *)
AbortEnded(f) ==
  /\ pc[f] = "abort"
  /\ flight[f] \in Ended
  /\ aborted' = IF flight[f] = "ok" THEN aborted \cup {f} ELSE aborted
  /\ Settle(f, "Error")
  /\ UNCHANGED <<part, acked, page, stray, server>>

(* Mutant: the response is not asked for its status.                       *)
CompleteEnds(f) ==
  /\ pc[f] = "complete"
  /\ flight[f] \in {"ok", "refused"}
  /\ Settle(f, "Done")
  /\ UNCHANGED <<part, acked, page, stray, server, aborted>>

CompleteAnswered(f) ==
  /\ pc[f] = "complete"
  /\ flight[f] = "ok"
  /\ Settle(f, "Done")
  /\ UNCHANGED <<part, acked, page, stray, server, aborted>>

CompleteFailed(f) ==
  /\ pc[f] = "complete"
  /\ flight[f] \in {"refused", "lost"}
  /\ Settle(f, "Error")
  /\ UNCHANGED <<part, acked, page, stray, server, aborted>>

(***************************************************************************)
(* The effect that watches pending and any_done, and the end of the page:  *)
(* reload() does not stop the page's tasks at once, and the user may close *)
(* it at any time.  The requests under way lose their reader.              *)
(***************************************************************************)
(* Mutant: the first success reloads the page.                             *)
ReloadEffectEager ==
  /\ page # "gone"
  /\ due
  /\ due' = FALSE
  /\ page' = IF anyDone THEN "reloading" ELSE page
  /\ UNCHANGED <<pc, part, acked, status, pending, anyDone, flight, stray, server, aborted>>

ReloadEffect ==
  /\ page # "gone"
  /\ due
  /\ due' = FALSE
  /\ page' = IF pending = 0 /\ anyDone THEN "reloading" ELSE page
  /\ UNCHANGED <<pc, part, acked, status, pending, anyDone, flight, stray, server, aborted>>

Unload ==
  /\ page' = "gone"
  /\ flight' = [f \in Files |-> None]
  /\ \E reached \in SUBSET {f \in Files : flight[f] = "sent"} :
       stray' = stray \cup {Awaited(f) : f \in reached}
  /\ UNCHANGED <<pc, part, acked, status, pending, anyDone, due, server, aborted>>

Reload == page = "reloading" /\ Unload

Leave == page = "live" /\ Unload

-----------------------------------------------------------------------------
(***************************************************************************)
(* The endpoint: one storage operation per request.                        *)
(***************************************************************************)
(* Mutant: a part makes the staging directory again when it is gone.       *)
HandleReviving(r) ==
  LET f == r.file IN
  \/ /\ r.op \in {"put", "create"}
     /\ staging' = [staging EXCEPT ![f] = IF r.op = "create" THEN {} ELSE @]
     /\ stored' = [stored EXCEPT ![f] = IF r.op = "put" THEN "whole" ELSE @]
  \/ /\ r.op = "part"
     /\ staging' = [staging EXCEPT ![f] = (IF @ = None THEN {} ELSE @) \cup {r.part}]
     /\ UNCHANGED stored
  \/ /\ r.op \in {"complete", "abort"}
     /\ staging[f] # None
     /\ staging' = [staging EXCEPT ![f] = None]
     /\ stored' = [stored EXCEPT ![f] = IF r.op = "complete" THEN "whole" ELSE @]

Handle(r) ==
  LET f == r.file IN
  \/ /\ r.op = "put"
     /\ stored' = [stored EXCEPT ![f] = "whole"]
     /\ UNCHANGED staging
  \/ /\ r.op = "create"
     /\ staging' = [staging EXCEPT ![f] = {}]
     /\ UNCHANGED stored
  \/ /\ r.op = "part"
     /\ staging[f] # None
     /\ staging' = [staging EXCEPT ![f] = @ \cup {r.part}]
     /\ UNCHANGED stored
  \/ /\ r.op = "complete"
     /\ staging[f] # None
     /\ acked[f] \subseteq staging[f]
     /\ staging' = [staging EXCEPT ![f] = None]
     /\ stored' = [stored EXCEPT ![f] = IF acked[f] = 1..Parts THEN "whole" ELSE "partial"]
  \/ /\ r.op = "abort"
     /\ staging[f] # None
     /\ staging' = [staging EXCEPT ![f] = None]
     /\ UNCHANGED stored

Serve(f) ==
  /\ flight[f] = "sent"
  /\ Handle(Awaited(f))
  /\ flight' = [flight EXCEPT ![f] = "ok"]
  /\ UNCHANGED <<island, stray, aborted>>

(* The storage or the endpoint refuses: a missing upload, bucket or part,  *)
(* a full disk.                                                            *)
Refuse(f) ==
  /\ flight[f] = "sent"
  /\ flight' = [flight EXCEPT ![f] = "refused"]
  /\ UNCHANGED <<island, stray, server, aborted>>

(* The connection breaks: before the request arrived, while the server     *)
(* goes on with it, or before the answer arrived.                          *)
Lose(f) ==
  /\ flight[f] \in {"sent", "ok", "refused"}
  /\ flight' = [flight EXCEPT ![f] = "lost"]
  /\ \/ UNCHANGED stray
     \/ flight[f] = "sent" /\ stray' = stray \cup {Awaited(f)}
  /\ UNCHANGED <<island, server, aborted>>

ServeStray(r) ==
  /\ Handle(r)
  /\ stray' = stray \ {r}
  /\ UNCHANGED <<island, flight, aborted>>

DropStray(r) ==
  /\ stray' = stray \ {r}
  /\ UNCHANGED <<island, flight, server, aborted>>

Done == page = "gone" /\ stray = {} /\ UNCHANGED vars

Init ==
  /\ pc = [f \in Files |-> "idle"]
  /\ part = [f \in Files |-> 0]
  /\ acked = [f \in Files |-> {}]
  /\ status = [f \in Files |-> "InProgress"]
  /\ pending = 0
  /\ anyDone = FALSE
  /\ due = TRUE
  /\ page = "live"
  /\ flight = [f \in Files |-> None]
  /\ stray = {}
  /\ staging = [f \in Files |-> None]
  /\ stored = [f \in Files |-> "none"]
  /\ aborted = {}

(* A file's task: the steps between two awaits, and the XHR's callbacks.   *)
Task(f) ==
  \/ SmallLoaded(f) \/ SmallFailed(f)
  \/ CreateAnswered(f) \/ CreateFailed(f)
  \/ PartAnswered(f) \/ PartFailed(f) \/ AbortEnded(f)
  \/ CompleteAnswered(f) \/ CompleteFailed(f)

Network(f) == Serve(f) \/ Refuse(f) \/ Lose(f)

Next ==
  \/ \E S, unsent \in SUBSET Files : unsent \subseteq S /\ Choose(S, unsent)
  \/ \E f \in Files : Task(f) \/ Network(f)
  \/ ReloadEffect
  \/ Reload
  \/ Leave
  \/ \E r \in stray : ServeStray(r) \/ DropStray(r)
  \/ Done

Spec == Init /\ [][Next]_vars

(* The browser runs its callbacks, ready tasks and effects and reloads     *)
(* when told to; every request is answered or its connection breaks.  The  *)
(* user need not choose files or stay.                                     *)
FairSpec ==
  /\ Spec
  /\ \A f \in Files : WF_vars(Task(f)) /\ WF_vars(Network(f))
  /\ WF_vars(ReloadEffect)
  /\ WF_vars(Reload)

-----------------------------------------------------------------------------
(***************************************************************************)
(* Properties.                                                             *)
(***************************************************************************)
(* Every variable has its type.                                            *)
TypeOK ==
  /\ pc \in [Files -> {"idle", "stuck", "put", "create", "part", "complete", "abort", "settled"}]
  /\ part \in [Files -> 0..Parts]
  /\ acked \in [Files -> SUBSET (1..Parts)]
  /\ status \in [Files -> {"InProgress", "Done", "Error"}]
  /\ pending \in Nat
  /\ anyDone \in BOOLEAN
  /\ due \in BOOLEAN
  /\ page \in {"live", "reloading", "gone"}
  /\ flight \in [Files -> {None, "sent"} \cup Ended]
  /\ stray \subseteq Requests
  /\ staging \in [Files -> {None} \cup SUBSET (1..Parts)]
  /\ stored \in [Files -> {"none", "partial", "whole"}]
  /\ aborted \subseteq Files

(* The counter is exact on every path: it counts the uploads that were     *)
(* chosen and whose entry is still in progress.                            *)
PendingCountsUnsettled ==
  pending = Cardinality({f \in Files : pc[f] # "idle" /\ status[f] = "InProgress"})

(* The island's effect, which clears due, never reloads the page under an  *)
(* upload in progress, which would cut it off in the middle.               *)
ReloadWaitsForAll ==
  [][due /\ ~due' /\ page = "live" /\ page' = "reloading"
       => \A f \in Files : pc[f] \in {"idle", "settled"}]_vars

(* A large file that is shown as done is stored, all parts of it.          *)
LargeDoneIsStored ==
  \A f \in LargeFiles : status[f] = "Done" => stored[f] = "whole"

(* A large file is stored with all of its parts or not at all: not after a *)
(* part that failed, and not by requests the browser has given up on.      *)
LargeIsWholeOrAbsent ==
  \A f \in LargeFiles : stored[f] # "partial"

(* An upload whose abort was acknowledged leaves nothing on the server,    *)
(* and a part still under way does not bring it back.                      *)
AbortedUploadsAreGone ==
  \A f \in aborted : staging[f] = None /\ stored[f] = "none"

(* Every upload that got off settles while the page lives, whatever is     *)
(* refused or lost.                                                        *)
UploadsSettle ==
  \A f \in Files :
    pc[f] \notin {"idle", "stuck"} ~> pc[f] = "settled" \/ page = "gone"

(* Once an upload has succeeded the page is reloaded, as soon as all have  *)
(* settled - unless an upload never got off, which stays pending for ever. *)
SuccessReloads ==
  anyDone ~> page # "live" \/ \E f \in Files : pc[f] = "stuck"

(***************************************************************************)
(* The uploads of large files, requests and parts and the lot, are those   *)
(* of the contract.                                                        *)
(***************************************************************************)
Contract == INSTANCE UploadContract
  WITH Files <- LargeFiles,
       shown <- [f \in LargeFiles |-> IF pc[f] = "idle" THEN "none" ELSE status[f]],
       object <- [f \in LargeFiles |-> stored[f]],
       gone <- aborted

(* A large file becomes an object whole and once, is shown as done only    *)
(* after that, and never after its abort was acknowledged: every step of   *)
(* the tasks, the network and the endpoint is one of the contract or none. *)
UploadsKeepContract == Contract!Spec

(* A small file that is shown as done is stored: the handler that shows it *)
(* is commented "Load (success)."  onload also fires for an error status.  *)
SmallDoneIsStored ==
  \A f \in SmallFiles : status[f] = "Done" => stored[f] = "whole"

=============================================================================
