---------------------------- MODULE ConsoleProofs ----------------------------
(***************************************************************************)
(* Theorems about the upload island, alone and on a page of the console.   *)
(* The island: its counter is exact, it waits for all uploads, and what    *)
(* the panel says of a large file is so.  The page: every call a dialog    *)
(* makes is waited for by it alone, and what holds of the island holds on  *)
(* a page whose dialogs reload it under uploads in progress.               *)
(***************************************************************************)
EXTENDS Console, FiniteSetTheorems, TLAPS

MpRequests == {"create", "part", "complete", "abort"}

Unsettled == {f \in Files : pc[f] # "idle" /\ status[f] = "InProgress"}

(***************************************************************************)
(* A file's entry is in progress exactly until its task settles, and each  *)
(* kind of file has its own requests.                                      *)
(***************************************************************************)
Progress ==
  \A f \in Files :
    /\ pc[f] = "settled" <=> status[f] # "InProgress"
    /\ pc[f] = "put" => f \in SmallFiles
    /\ pc[f] \in MpRequests => f \in LargeFiles
    /\ flight[f] # None => pc[f] \in {"put"} \cup MpRequests

(***************************************************************************)
(* The parts are posted in order, and complete is sent after the last.     *)
(***************************************************************************)
PartsInOrder ==
  \A f \in Files :
    /\ pc[f] \in {"idle", "create"} => acked[f] = {}
    /\ pc[f] = "part" => part[f] \in 1..Parts /\ acked[f] = 1..(part[f] - 1)
    /\ pc[f] = "complete" => acked[f] = 1..Parts

(***************************************************************************)
(* A request that nobody awaits any more was the file's last but for an    *)
(* abort: a create or complete that was given up is followed by nothing.   *)
(***************************************************************************)
Strays ==
  \A r \in stray :
    /\ r.op = "put" => r.file \in SmallFiles
    /\ r.op = "create" =>
         /\ \/ pc[r.file] = "create" /\ flight[r.file] \in {None, "lost"}
            \/ pc[r.file] = "settled"
         /\ r.file \notin aborted
    /\ r.op = "complete" =>
         /\ pc[r.file] \in {"complete", "settled"}
         /\ r.file \notin aborted
         /\ acked[r.file] = 1..Parts
    /\ r.op = "part" => r.part \in 1..Parts

(***************************************************************************)
(* What the server has of a large file, by what its task has come to.      *)
(***************************************************************************)
OnServer ==
  \A f \in LargeFiles :
    /\ stored[f] # "partial"
    /\ pc[f] \in {"idle", "create", "part", "abort"} => stored[f] = "none"
    /\ pc[f] = "complete" /\ flight[f] = "ok" => stored[f] = "whole"
    /\ pc[f] = "abort" /\ flight[f] = "ok" => staging[f] = None
    /\ status[f] = "Done" => stored[f] = "whole"

Aborted ==
  /\ AbortedUploadsAreGone
  /\ \A f \in aborted : f \in LargeFiles /\ pc[f] = "settled"

IInv == TypeOK /\ Progress /\ PartsInOrder /\ Strays /\ OnServer /\ Aborted

(***************************************************************************)
(* The invariant holds initially.                                          *)
(***************************************************************************)
LEMMA InitInv == Init => IInv
<1> SUFFICES ASSUME Init PROVE IInv
  OBVIOUS
<1> USE UploadAssumption DEF Init
<1>1. TypeOK
  <2>1. part \in [Files -> 0..Parts] /\ acked \in [Files -> SUBSET (1..Parts)]
    OBVIOUS
  <2>2. pending \in Nat /\ anyDone \in BOOLEAN /\ due \in BOOLEAN
    OBVIOUS
  <2> QED
    BY <2>1, <2>2 DEF TypeOK, Ended
<1>2. Progress /\ PartsInOrder /\ Strays
  BY DEF Progress, MpRequests, PartsInOrder, Strays
<1>3. OnServer /\ Aborted
  BY DEF OnServer, Aborted, AbortedUploadsAreGone, Files
<1> QED
  BY <1>1, <1>2, <1>3 DEF IInv

(***************************************************************************)
(* Settling: the task is over, with a status the server can answer for.    *)
(***************************************************************************)
LEMMA SettleInv ==
  ASSUME IInv,
         NEW f \in Files, NEW s \in {"Done", "Error"},
         pc[f] \in {"put"} \cup MpRequests,
         Settle(f, s),
         UNCHANGED <<part, acked, page, stray, server>>,
         s = "Done" /\ f \in LargeFiles => stored[f] = "whole",
         \/ UNCHANGED aborted
         \/ aborted' = aborted \cup {f} /\ pc[f] = "abort" /\ flight[f] = "ok"
  PROVE  IInv'
<1> USE UploadAssumption DEF IInv, Settle, server
<1>1. TypeOK'
  BY DEF TypeOK, Ended
<1>2. Progress'
  BY DEF TypeOK, Progress, MpRequests
<1>3. PartsInOrder'
  BY DEF TypeOK, PartsInOrder
<1>4. Strays'
  <2> SUFFICES ASSUME NEW r \in stray
               PROVE  /\ r.op = "put" => r.file \in SmallFiles
                      /\ r.op = "create" =>
                           /\ \/ pc'[r.file] = "create" /\ flight'[r.file] \in {None, "lost"}
                              \/ pc'[r.file] = "settled"
                           /\ r.file \notin aborted'
                      /\ r.op = "complete" =>
                           /\ pc'[r.file] \in {"complete", "settled"}
                           /\ r.file \notin aborted'
                           /\ acked[r.file] = 1..Parts
    BY DEF Strays
  <2>1. r.file \in Files
    BY DEF TypeOK, Requests
  <2> QED
    BY <2>1 DEF TypeOK, Strays
<1>5. OnServer'
  BY DEF TypeOK, OnServer, MpRequests, Files
<1>6. Aborted'
  BY DEF TypeOK, Aborted, AbortedUploadsAreGone, OnServer, Progress, MpRequests
<1> QED
  BY <1>1, <1>2, <1>3, <1>4, <1>5, <1>6

(***************************************************************************)
(* Choosing files starts their uploads and touches no other file.          *)
(***************************************************************************)
LEMMA ChooseInv ==
  ASSUME IInv, NEW S \in SUBSET Files, NEW unsent \in SUBSET Files, Choose(S, unsent)
  PROVE  IInv'
<1> USE UploadAssumption DEF IInv, Choose, server
<1>1. TypeOK'
  <2>1. IsFiniteSet(S)
    BY FS_Subset
  <2>2. Cardinality(S) \in Nat
    BY <2>1, FS_CardinalityType
  <2>3. pending' \in Nat
    BY <2>2 DEF TypeOK
  <2>4. pc' \in [Files -> {"idle", "stuck", "put", "create", "part", "complete", "abort", "settled"}]
    BY DEF TypeOK, FirstRequest
  <2>5. flight' \in [Files -> {None, "sent"} \cup Ended]
    BY DEF TypeOK
  <2> QED
    BY <2>3, <2>4, <2>5 DEF TypeOK
<1>2. Progress'
  BY DEF TypeOK, Progress, MpRequests, FirstRequest, Files
<1>3. PartsInOrder'
  BY DEF TypeOK, PartsInOrder, FirstRequest
<1>4. Strays'
  BY DEF TypeOK, Strays, Requests, FirstRequest
<1>5. OnServer'
  BY DEF TypeOK, OnServer, Progress, FirstRequest, Files
<1>6. Aborted'
  BY DEF TypeOK, Aborted, AbortedUploadsAreGone, FirstRequest
<1> QED
  BY <1>1, <1>2, <1>3, <1>4, <1>5, <1>6

(***************************************************************************)
(* Posting a part: the task awaits that part, or an abort.                 *)
(***************************************************************************)
LEMMA PostPartMoves ==
  ASSUME TypeOK, NEW f \in Files, NEW n \in 0..Parts, PostPart(f, n)
  PROVE  /\ pc'[f] = "abort" \/ (pc'[f] = "part" /\ part'[f] = n)
         /\ \A g \in Files : g # f => pc'[g] = pc[g] /\ part'[g] = part[g]
         /\ part' \in [Files -> 0..Parts]
<1>1. CASE Send(f, "part") /\ part' = [part EXCEPT ![f] = n]
  BY <1>1 DEF TypeOK, Send
<1>2. CASE Send(f, "abort") /\ UNCHANGED part
  BY <1>2 DEF TypeOK, Send
<1> QED
  BY <1>1, <1>2 DEF PostPart

(***************************************************************************)
(* The steps of a task.                                                    *)
(***************************************************************************)
LEMMA TaskInv ==
  ASSUME IInv, NEW f \in Files, Task(f)
  PROVE  IInv'
<1> USE UploadAssumption DEF MpRequests
<1>1. CASE SmallLoaded(f)
  <2>1. f \notin LargeFiles
    BY <1>1 DEF SmallLoaded, IInv, Progress
  <2> QED
    BY <1>1, <2>1, SettleInv DEF SmallLoaded
<1>2. CASE SmallFailed(f)
  BY <1>2, SettleInv DEF SmallFailed
<1>3. CASE CreateFailed(f)
  BY <1>3, SettleInv DEF CreateFailed
<1>4. CASE AbortEnded(f)
  BY <1>4, SettleInv DEF AbortEnded
<1>5. CASE CompleteAnswered(f)
  <2>1. f \in LargeFiles => stored[f] = "whole"
    BY <1>5 DEF CompleteAnswered, IInv, OnServer
  <2> QED
    BY <1>5, <2>1, SettleInv DEF CompleteAnswered
<1>6. CASE CompleteFailed(f)
  BY <1>6, SettleInv DEF CompleteFailed
<1>7. CASE CreateAnswered(f)
  <2> USE <1>7 DEF IInv, CreateAnswered, PostPart, Send, server
  <2>1. TypeOK'
    BY DEF TypeOK, Ended
  <2>2. Progress'
    BY DEF TypeOK, Progress
  <2>3. PartsInOrder'
    <3>1. acked[f] = 1..(1 - 1) /\ 1 \in 1..Parts
      BY DEF PartsInOrder
    <3>2. pc'[f] = "abort" \/ (pc'[f] = "part" /\ part'[f] = 1)
      BY <3>1, PostPartMoves
    <3>3. \A g \in Files : g # f => pc'[g] = pc[g] /\ part'[g] = part[g]
      BY <3>1, PostPartMoves
    <3> HIDE DEF PostPart
    <3> QED
      BY <3>1, <3>2, <3>3 DEF PartsInOrder
  <2>4. Strays'
    <3>1. \A g \in Files : g # f => flight'[g] = flight[g] /\ pc'[g] = pc[g]
      BY DEF TypeOK
    <3>2. \A r \in stray : r.file \in Files
      BY DEF TypeOK, Requests
    <3>3. \A r \in stray : r.file = f => r.op \notin {"create", "complete"}
      BY DEF Strays
    <3> QED
      BY <3>1, <3>2, <3>3 DEF Strays
  <2>5. OnServer'
    BY DEF TypeOK, OnServer, Progress, Files
  <2>6. Aborted'
    BY DEF TypeOK, Aborted, AbortedUploadsAreGone
  <2> QED
    BY <2>1, <2>2, <2>3, <2>4, <2>5, <2>6
<1>8. CASE PartAnswered(f)
  <2> USE <1>8 DEF IInv, PartAnswered, PostPart, Send, server
  <2> DEFINE n == part[f]
  <2>n. n \in 1..Parts /\ acked[f] = 1..(n - 1) /\ acked'[f] = 1..n
    <3>1. n \in 1..Parts /\ acked[f] = 1..(n - 1)
      BY DEF PartsInOrder
    <3>2. (1..(n - 1)) \cup {n} = 1..n
      BY <3>1
    <3> QED
      BY <3>1, <3>2 DEF TypeOK
  <2>1. TypeOK'
    <3>1. part' \in [Files -> 0..Parts]
      <4>1. n < Parts => n + 1 \in 0..Parts
        BY <2>n
      <4>2. part \in [Files -> 0..Parts]
        BY DEF TypeOK
      <4>3. part' = part \/ (n < Parts /\ part' = [part EXCEPT ![f] = n + 1])
        BY <2>n
      <4> QED
        BY <4>1, <4>2, <4>3
    <3>2. acked' \in [Files -> SUBSET (1..Parts)]
      BY <2>n DEF TypeOK
    <3> QED
      BY <3>1, <3>2 DEF TypeOK, Ended
  <2>2. Progress'
    BY DEF TypeOK, Progress
  <2>3. PartsInOrder'
    <3>o. \A g \in Files : g # f =>
            part'[g] = part[g] /\ pc'[g] = pc[g] /\ acked'[g] = acked[g]
      BY DEF TypeOK
    <3>1. CASE n < Parts
      <4>1. n + 1 \in 1..Parts /\ (n + 1) - 1 = n
        BY <3>1, <2>n
      <4>2. QED
        <5>1. pc'[f] = "abort" \/ (pc'[f] = "part" /\ part'[f] = n + 1)
          BY <3>1, <4>1, PostPartMoves
        <5> HIDE DEF PostPart
        <5> QED
          BY <2>n, <3>o, <4>1, <5>1 DEF PartsInOrder
    <3>2. CASE ~(n < Parts)
      <4>1. n = Parts
        BY <3>2, <2>n
      <4>2. QED
        <5>1. pc'[f] = "complete"
          BY <3>2 DEF TypeOK
        <5> QED
          BY <2>n, <3>o, <4>1, <5>1 DEF PartsInOrder
    <3> QED
      BY <3>1, <3>2
  <2>4. Strays'
    BY DEF TypeOK, Strays, Requests, PartsInOrder
  <2>5. OnServer'
    BY DEF TypeOK, OnServer, Progress, Files
  <2>6. Aborted'
    BY DEF TypeOK, Aborted, AbortedUploadsAreGone
  <2> QED
    BY <2>1, <2>2, <2>3, <2>4, <2>5, <2>6
<1>9. CASE PartFailed(f)
  <2> USE <1>9 DEF IInv, PartFailed, Send, server
  <2>1. TypeOK'
    BY DEF TypeOK, Ended
  <2>2. Progress'
    BY DEF TypeOK, Progress
  <2>3. PartsInOrder'
    BY DEF TypeOK, PartsInOrder
  <2>4. Strays'
    BY DEF TypeOK, Strays, Requests
  <2>5. OnServer'
    BY DEF TypeOK, OnServer, Progress, Files
  <2>6. Aborted'
    BY DEF TypeOK, Aborted, AbortedUploadsAreGone
  <2> QED
    BY <2>1, <2>2, <2>3, <2>4, <2>5, <2>6
<1> QED
  BY <1>1, <1>2, <1>3, <1>4, <1>5, <1>6, <1>7, <1>8, <1>9 DEF Task

(***************************************************************************)
(* The endpoint serves a request: awaited by its task, or given up on.     *)
(***************************************************************************)
LEMMA ServeInv ==
  ASSUME IInv, NEW f \in Files, Serve(f)
  PROVE  IInv'
<1> USE UploadAssumption DEF IInv, Serve, Handle, Awaited, island
<1>0. pc[f] \in {"put", "create", "part", "complete", "abort"} /\ flight[f] = "sent"
  BY DEF Progress, MpRequests
<1>1. TypeOK'
  <2>1. pc[f] = "part" => part[f] \in 1..Parts
    BY DEF PartsInOrder
  <2>2. staging' \in [Files -> {None} \cup SUBSET (1..Parts)]
    BY <1>0, <2>1 DEF TypeOK
  <2>3. stored' \in [Files -> {"none", "partial", "whole"}]
    BY <1>0 DEF TypeOK
  <2> QED
    BY <2>2, <2>3 DEF TypeOK, Ended
<1>2. Progress'
  BY DEF TypeOK, Progress
<1>3. PartsInOrder'
  BY DEF TypeOK, PartsInOrder
<1>4. Strays'
  BY DEF TypeOK, Strays, Requests
<1>5. OnServer'
  BY <1>0 DEF TypeOK, OnServer, Progress, PartsInOrder, Files
<1>6. Aborted'
  BY <1>0 DEF TypeOK, Aborted, AbortedUploadsAreGone
<1> QED
  BY <1>1, <1>2, <1>3, <1>4, <1>5, <1>6

LEMMA ServeStrayInv ==
  ASSUME IInv, NEW r \in stray, ServeStray(r)
  PROVE  IInv'
<1> USE UploadAssumption DEF IInv, ServeStray, Handle, island
<1>0. r.file \in Files /\ r.part \in 0..Parts
  BY DEF TypeOK, Requests
<1>1. TypeOK'
  <2>1. r.op = "part" => r.part \in 1..Parts
    BY DEF Strays
  <2>2. staging' \in [Files -> {None} \cup SUBSET (1..Parts)]
    BY <1>0, <2>1 DEF TypeOK
  <2>3. stored' \in [Files -> {"none", "partial", "whole"}]
    BY <1>0 DEF TypeOK
  <2> QED
    BY <2>2, <2>3 DEF TypeOK
<1>2. Progress'
  BY DEF Progress
<1>3. PartsInOrder'
  BY DEF PartsInOrder
<1>4. Strays'
  BY DEF Strays
<1>5. OnServer'
  BY <1>0 DEF TypeOK, OnServer, Strays, Files
<1>6. Aborted'
  BY <1>0 DEF TypeOK, Aborted, AbortedUploadsAreGone, Strays
<1> QED
  BY <1>1, <1>2, <1>3, <1>4, <1>5, <1>6

(***************************************************************************)
(* The network, the reload and the end of the page.                        *)
(***************************************************************************)
LEMMA RefuseInv ==
  ASSUME IInv, NEW f \in Files, Refuse(f)
  PROVE  IInv'
<1> USE UploadAssumption DEF IInv, Refuse, island, server
<1>1. TypeOK' /\ Progress' /\ PartsInOrder'
  BY DEF TypeOK, Ended, Progress, PartsInOrder
<1>2. Strays'
  BY DEF TypeOK, Strays, Requests
<1>3. OnServer' /\ Aborted'
  BY DEF TypeOK, OnServer, Aborted, AbortedUploadsAreGone, Files
<1> QED
  BY <1>1, <1>2, <1>3

LEMMA LoseInv ==
  ASSUME IInv, NEW f \in Files, Lose(f)
  PROVE  IInv'
<1> USE UploadAssumption DEF IInv, Lose, island, server
<1>0. pc[f] \in {"put", "create", "part", "complete", "abort"}
  BY DEF Progress, MpRequests
<1>1. TypeOK'
  BY <1>0 DEF TypeOK, Ended, Awaited, Requests
<1>2. Progress' /\ PartsInOrder'
  BY <1>0 DEF TypeOK, Progress, PartsInOrder, MpRequests
<1>3. Strays'
  <2>1. \A r \in stray : r.file \in Files
    BY DEF TypeOK, Requests
  <2>2. flight'[f] = "lost" /\ \A g \in Files : g # f => flight'[g] = flight[g]
    BY DEF TypeOK
  <2>3. f \in aborted => pc[f] = "settled"
    BY DEF Aborted
  <2> QED
    BY <1>0, <2>1, <2>2, <2>3 DEF Strays, Awaited, Progress, PartsInOrder
<1>4. OnServer' /\ Aborted'
  BY DEF TypeOK, OnServer, Aborted, AbortedUploadsAreGone, Files
<1> QED
  BY <1>1, <1>2, <1>3, <1>4

LEMMA UnloadInv ==
  ASSUME IInv, Unload
  PROVE  IInv'
<1> USE UploadAssumption DEF IInv, Unload, server
<1>1. PICK reached \in SUBSET {f \in Files : flight[f] = "sent"} :
        stray' = stray \cup {Awaited(f) : f \in reached}
  OBVIOUS
<1>2. \A f \in reached :
        f \in Files /\ pc[f] \in {"put", "create", "part", "complete", "abort"}
  BY DEF Progress, MpRequests
<1>3. TypeOK'
  BY <1>1, <1>2 DEF TypeOK, Ended, Awaited, Requests
<1>4. Progress' /\ PartsInOrder'
  BY DEF TypeOK, Progress, PartsInOrder
<1>5. Strays'
  <2>1. \A r \in stray : r.file \in Files
    BY DEF TypeOK, Requests
  <2>2. \A f \in Files : flight'[f] = None
    OBVIOUS
  <2>3. \A f \in aborted : pc[f] = "settled"
    BY DEF Aborted
  <2> QED
    BY <1>1, <1>2, <2>1, <2>2, <2>3 DEF Strays, Awaited, Progress, PartsInOrder
<1>6. OnServer' /\ Aborted'
  BY DEF TypeOK, OnServer, Aborted, AbortedUploadsAreGone, Files
<1> QED
  BY <1>3, <1>4, <1>5, <1>6

LEMMA OtherInv ==
  ASSUME IInv, ReloadEffect \/ (\E r \in stray : DropStray(r)) \/ UNCHANGED vars
  PROVE  IInv'
<1> USE DEF IInv, ReloadEffect, DropStray, vars, island, server
<1>1. TypeOK'
  BY DEF TypeOK
<1>2. Progress' /\ PartsInOrder'
  BY DEF Progress, PartsInOrder
<1>3. Strays'
  BY DEF Strays
<1>4. OnServer' /\ Aborted'
  BY DEF OnServer, Aborted, AbortedUploadsAreGone
<1> QED
  BY <1>1, <1>2, <1>3, <1>4

(***************************************************************************)
(* Every step preserves the invariant.                                     *)
(***************************************************************************)
LEMMA StepInv == IInv /\ [Next]_vars => IInv'
<1> SUFFICES ASSUME IInv, [Next]_vars PROVE IInv'
  OBVIOUS
<1>1. CASE \E S, unsent \in SUBSET Files : unsent \subseteq S /\ Choose(S, unsent)
  BY <1>1, ChooseInv
<1>2. CASE \E f \in Files : Task(f) \/ Network(f)
  BY <1>2, TaskInv, ServeInv, RefuseInv, LoseInv DEF Network
<1>3. CASE Reload \/ Leave
  BY <1>3, UnloadInv DEF Reload, Leave
<1>4. CASE \E r \in stray : ServeStray(r)
  BY <1>4, ServeStrayInv
<1>5. CASE ReloadEffect \/ (\E r \in stray : DropStray(r)) \/ UNCHANGED vars
  BY <1>5, OtherInv
<1> QED
  BY <1>1, <1>2, <1>3, <1>4, <1>5 DEF Next, Done

LEMMA Invariance == Spec => []IInv
BY InitInv, StepInv, PTL DEF Spec

(***************************************************************************)
(* Every variable keeps its type.                                          *)
(***************************************************************************)
THEOREM TypeCorrect == Spec => []TypeOK
<1>1. IInv => TypeOK
  BY DEF IInv
<1> QED
  BY <1>1, Invariance, PTL

(***************************************************************************)
(* What the panel says of a large file is so: one that is shown as done is *)
(* stored with all of its parts, whatever the network lost.                *)
(***************************************************************************)
THEOREM LargeDoneAlwaysStored == Spec => []LargeDoneIsStored
<1>1. IInv => LargeDoneIsStored
  BY DEF IInv, OnServer, LargeDoneIsStored
<1> QED
  BY <1>1, Invariance, PTL

(***************************************************************************)
(* A large file is never stored in part: not by an upload that failed on   *)
(* the way, and not by a late request of one.                              *)
(***************************************************************************)
THEOREM LargeAlwaysWholeOrAbsent == Spec => []LargeIsWholeOrAbsent
<1>1. IInv => LargeIsWholeOrAbsent
  BY DEF IInv, OnServer, LargeIsWholeOrAbsent
<1> QED
  BY <1>1, Invariance, PTL

(***************************************************************************)
(* After the abort of an upload was acknowledged nothing of it is on the   *)
(* server, and no late part of it puts anything back.                      *)
(***************************************************************************)
THEOREM AbortedAlwaysGone == Spec => []AbortedUploadsAreGone
<1>1. IInv => AbortedUploadsAreGone
  BY DEF IInv, Aborted
<1> QED
  BY <1>1, Invariance, PTL

-----------------------------------------------------------------------------
(***************************************************************************)
(* The counter.  A step of a task either settles its file or leaves every  *)
(* entry as it is.                                                         *)
(***************************************************************************)
LEMMA TaskCounts ==
  ASSUME IInv, NEW f \in Files, Task(f)
  PROVE  \/ Unsettled' = Unsettled /\ pending' = pending
         \/ /\ f \in Unsettled
            /\ Unsettled' = Unsettled \ {f}
            /\ pending' = IF pending = 0 THEN 0 ELSE pending - 1
<1>1. CASE \E s \in {"Done", "Error"} : Settle(f, s) /\ pc[f] \in {"put"} \cup MpRequests
  <2>1. f \in Unsettled
    BY <1>1 DEF IInv, Progress, Unsettled, MpRequests
  <2>2. Unsettled' = Unsettled \ {f}
    BY <1>1 DEF IInv, TypeOK, Settle, Unsettled
  <2> QED
    BY <1>1, <2>1, <2>2 DEF Settle
<1>2. CASE \E op \in {"part", "complete", "abort"} : Send(f, op) /\ pc[f] # "idle"
  BY <1>2 DEF IInv, TypeOK, Send, Unsettled
<1>3. CASE SmallLoaded(f) \/ SmallFailed(f)
  BY <1>1, <1>3 DEF SmallLoaded, SmallFailed
<1>4. CASE CreateFailed(f) \/ AbortEnded(f)
  BY <1>1, <1>4 DEF CreateFailed, AbortEnded, MpRequests
<1>5. CASE CompleteAnswered(f) \/ CompleteFailed(f)
  BY <1>1, <1>5 DEF CompleteAnswered, CompleteFailed, MpRequests
<1>6. CASE CreateAnswered(f) \/ PartAnswered(f) \/ PartFailed(f)
  BY <1>2, <1>6 DEF CreateAnswered, PartAnswered, PartFailed, PostPart
<1> QED
  BY <1>3, <1>4, <1>5, <1>6 DEF Task

(***************************************************************************)
(* Every step keeps the counter equal to the number of unsettled uploads.  *)
(***************************************************************************)
LEMMA StepCounts ==
  ASSUME IInv, PendingCountsUnsettled, [Next]_vars
  PROVE  PendingCountsUnsettled'
<1> DEFINE Counts == pending = Cardinality(Unsettled)
<1>1. Counts /\ (Counts' => PendingCountsUnsettled')
  BY DEF PendingCountsUnsettled, Unsettled
<1>2. IsFiniteSet(Unsettled) /\ Cardinality(Unsettled) \in Nat
  BY UploadAssumption, FS_Subset, FS_CardinalityType DEF Unsettled
<1> SUFFICES Counts'
  BY <1>1
<1>3. CASE Unsettled' = Unsettled /\ pending' = pending
  BY <1>1, <1>3
<1>4. ASSUME NEW S \in SUBSET Files, NEW unsent \in SUBSET Files, Choose(S, unsent)
      PROVE  Counts'
  <2>1. Unsettled' = Unsettled \cup S
    BY <1>4 DEF IInv, TypeOK, Progress, Choose, FirstRequest, Unsettled
  <2>2. Unsettled \cap S = {}
    BY <1>4 DEF Choose, Unsettled
  <2>3. IsFiniteSet(S) /\ Cardinality(S) \in Nat
    BY UploadAssumption, FS_Subset, FS_CardinalityType
  <2>4. Cardinality(Unsettled \cup S) = Cardinality(Unsettled) + Cardinality(S)
    <3>1. Cardinality(Unsettled \cup S)
            = Cardinality(Unsettled) + Cardinality(S) - Cardinality(Unsettled \cap S)
      BY <1>2, <2>3, FS_Union
    <3>2. Cardinality(Unsettled \cap S) = 0
      BY <2>2, FS_EmptySet
    <3> HIDE DEF Unsettled
    <3> QED
      BY <1>2, <2>3, <3>1, <3>2
  <2>5. pending' = pending + Cardinality(S)
    BY <1>4 DEF Choose
  <2> QED
    BY <1>1, <2>1, <2>4, <2>5
<1>5. ASSUME NEW f \in Files, Task(f)
      PROVE  Counts'
  <2>1. CASE /\ f \in Unsettled
             /\ Unsettled' = Unsettled \ {f}
             /\ pending' = IF pending = 0 THEN 0 ELSE pending - 1
    <3>1. Cardinality(Unsettled \ {f}) = Cardinality(Unsettled) - 1
      BY <1>2, <2>1, FS_RemoveElement
    <3>2. pending # 0
      BY <1>1, <1>2, <2>1, FS_EmptySet
    <3> QED
      BY <1>1, <2>1, <3>1, <3>2
  <2> QED
    BY <1>3, <1>5, <2>1, TaskCounts
<1>6. ASSUME UNCHANGED <<pc, status, pending>>
      PROVE  Counts'
  BY <1>3, <1>6 DEF Unsettled
<1> QED
  BY <1>4, <1>5, <1>6
     DEF Next, Network, Serve, Refuse, Lose, ReloadEffect, Reload, Leave, Unload,
         ServeStray, DropStray, Done, vars, island

(***************************************************************************)
(* The counter of unfinished uploads is exact on every path.               *)
(***************************************************************************)
THEOREM PendingAlwaysExact == Spec => []PendingCountsUnsettled
<1>1. Init => PendingCountsUnsettled
  BY FS_EmptySet DEF Init, PendingCountsUnsettled
<1>2. IInv /\ PendingCountsUnsettled /\ [Next]_vars => PendingCountsUnsettled'
  BY StepCounts
<1> QED
  BY <1>1, <1>2, Invariance, PTL DEF Spec

(***************************************************************************)
(* The page is never told to reload while an upload is in progress.        *)
(***************************************************************************)
LEMMA ReloadFindsNone ==
  ASSUME IInv, PendingCountsUnsettled, [Next]_vars,
         page = "live", page' = "reloading"
  PROVE  \A f \in Files : pc[f] \in {"idle", "settled"}
<1>1. pending = 0
  BY DEF Next, Task, Network, Choose, SmallLoaded, SmallFailed, CreateAnswered, CreateFailed,
         PartAnswered, PartFailed, AbortEnded, CompleteAnswered, CompleteFailed,
         Serve, Refuse, Lose, ReloadEffect, Reload, Leave, Unload,
         ServeStray, DropStray, Done, vars, island
<1>2. IsFiniteSet(Unsettled)
  BY UploadAssumption, FS_Subset DEF Unsettled
<1>3. Unsettled = {}
  BY <1>1, <1>2, FS_EmptySet DEF PendingCountsUnsettled, Unsettled
<1> QED
  BY <1>3 DEF IInv, Progress, Unsettled

(* The effect reloads the page when every upload has settled, and not      *)
(* before (the signal pending of upload_zone.rs).                   *)
THEOREM ReloadAlwaysWaits == Spec => ReloadWaitsForAll
BY ReloadFindsNone, Invariance, PendingAlwaysExact, PTL DEF Spec, ReloadWaitsForAll

-----------------------------------------------------------------------------
(***************************************************************************)
(* The uploads keep their contract.  A step of a file's task or of the     *)
(* endpoint is a step of the contract, or none, by what the invariant says *)
(* of the server; every other step changes nothing that it speaks of.      *)
(***************************************************************************)
EntryOf == [f \in LargeFiles |-> IF pc[f] = "idle" THEN "none" ELSE status[f]]

ObjectOf == [f \in LargeFiles |-> stored[f]]

LEMMA SettleKeepsContract ==
  ASSUME IInv, NEW f \in Files, NEW s \in {"Done", "Error"},
         pc[f] \in {"put"} \cup MpRequests, Settle(f, s), UNCHANGED <<stored, aborted>>,
         s = "Done" /\ f \in LargeFiles => stored[f] = "whole"
  PROVE  [Contract!Next]_(Contract!vars)
<1>1. status[f] = "InProgress" /\ pc[f] # "idle" /\ pc'[f] # "idle"
  BY DEF IInv, TypeOK, Progress, MpRequests, Settle
<1>2. ObjectOf' = ObjectOf
  BY DEF ObjectOf
<1>3. CASE f \in LargeFiles
  <2>1. EntryOf' = [EntryOf EXCEPT ![f] = s] /\ EntryOf[f] = "InProgress"
    BY <1>1, <1>3 DEF IInv, TypeOK, Settle, EntryOf, Files
  <2>2. Contract!Succeed(f) \/ Contract!Fail(f)
    BY <1>2, <1>3, <2>1 DEF EntryOf, ObjectOf, Contract!Succeed, Contract!Fail
  <2> QED
    BY <1>3, <2>2 DEF Contract!Next
<1>4. CASE f \notin LargeFiles
  <2>1. EntryOf' = EntryOf
    BY <1>4 DEF IInv, TypeOK, Settle, EntryOf, Files
  <2> QED
    BY <1>2, <2>1 DEF EntryOf, ObjectOf, Contract!vars
<1> QED
  BY <1>3, <1>4

LEMMA AbortKeepsContract ==
  ASSUME IInv, NEW f \in Files, AbortEnded(f)
  PROVE  [Contract!Next]_(Contract!vars)
<1>1. CASE flight[f] = "ok"
  <2>1. f \in LargeFiles /\ stored[f] = "none" /\ status[f] = "InProgress"
    BY DEF IInv, TypeOK, Progress, OnServer, AbortEnded, MpRequests
  <2>2. EntryOf' = [EntryOf EXCEPT ![f] = "Error"] /\ EntryOf[f] = "InProgress"
    BY <2>1 DEF IInv, TypeOK, AbortEnded, Settle, EntryOf, Files
  <2>3. ObjectOf' = ObjectOf /\ ObjectOf[f] = "none"
    BY <2>1 DEF AbortEnded, ObjectOf, server
  <2>4. aborted' = aborted \cup {f}
    BY <1>1 DEF AbortEnded
  <2>5. Contract!Abort(f)
    BY <2>2, <2>3, <2>4 DEF EntryOf, ObjectOf, Contract!Abort
  <2> QED
    BY <2>1, <2>5 DEF Contract!Next
<1>2. CASE flight[f] # "ok"
  BY <1>2, SettleKeepsContract DEF AbortEnded, MpRequests, server
<1> QED
  BY <1>1, <1>2

LEMMA TaskKeepsContract ==
  ASSUME IInv, NEW f \in Files, Task(f)
  PROVE  [Contract!Next]_(Contract!vars)
<1>1. CASE SmallLoaded(f) \/ SmallFailed(f)
  <2>1. f \notin LargeFiles
    BY <1>1, UploadAssumption DEF SmallLoaded, SmallFailed, IInv, Progress
  <2> QED
    BY <1>1, <2>1, SettleKeepsContract DEF SmallLoaded, SmallFailed, server
<1>2. CASE CreateFailed(f) \/ CompleteFailed(f)
  BY <1>2, SettleKeepsContract DEF CreateFailed, CompleteFailed, MpRequests, server
<1>3. CASE CompleteAnswered(f)
  <2>1. f \in LargeFiles => stored[f] = "whole"
    BY <1>3 DEF CompleteAnswered, IInv, OnServer
  <2> QED
    BY <1>3, <2>1, SettleKeepsContract DEF CompleteAnswered, MpRequests, server
<1>4. CASE AbortEnded(f)
  BY <1>4, AbortKeepsContract
<1>5. CASE CreateAnswered(f) \/ PartAnswered(f) \/ PartFailed(f)
  <2>1. PICK op \in {"part", "complete", "abort"} : Send(f, op)
    BY <1>5 DEF CreateAnswered, PartAnswered, PartFailed, PostPart
  <2>2. pc[f] # "idle"
    BY <1>5 DEF CreateAnswered, PartAnswered, PartFailed
  <2>3. EntryOf' = EntryOf
    BY <2>1, <2>2 DEF IInv, TypeOK, Send, EntryOf, Files
  <2>4. UNCHANGED <<stored, aborted>>
    BY <1>5 DEF CreateAnswered, PartAnswered, PartFailed, server
  <2> QED
    BY <2>3, <2>4 DEF EntryOf, Contract!vars
<1> QED
  BY <1>1, <1>2, <1>3, <1>4, <1>5 DEF Task

LEMMA HandleKeepsContract ==
  ASSUME IInv, NEW r \in Requests, Handle(r), UNCHANGED <<pc, status, aborted>>,
         r.op = "put" => r.file \in SmallFiles,
         r.op = "complete" =>
           /\ pc[r.file] \in {"complete", "settled"}
           /\ r.file \notin aborted
           /\ acked[r.file] = 1..Parts
  PROVE  [Contract!Next]_(Contract!vars)
<1> DEFINE f == r.file
<1>1. EntryOf' = EntryOf /\ f \in Files
  BY DEF EntryOf, Requests
<1>2. CASE r.op = "complete" /\ f \in LargeFiles /\ stored[f] = "none"
  <2>1. ObjectOf' = [ObjectOf EXCEPT ![f] = "whole"] /\ ObjectOf[f] = "none"
    BY <1>1, <1>2 DEF IInv, TypeOK, Handle, ObjectOf, Files
  <2>2. status[f] # "Done" /\ pc[f] # "idle"
    BY <1>2 DEF IInv, OnServer
  <2>3. EntryOf[f] \in {"InProgress", "Error"}
    BY <1>1, <1>2, <2>2 DEF IInv, TypeOK, EntryOf
  <2>4. Contract!Store(f)
    BY <1>1, <1>2, <2>1, <2>3 DEF EntryOf, ObjectOf, Contract!Store
  <2> QED
    BY <1>2, <2>4 DEF Contract!Next
<1>3. CASE ~(r.op = "complete" /\ f \in LargeFiles /\ stored[f] = "none")
  <2>1. ObjectOf' = ObjectOf
    <3>1. CASE r.op = "complete" /\ f \in LargeFiles
      <4>1. stored[f] = "whole"
        BY <1>3, <3>1 DEF IInv, TypeOK, OnServer, Files
      <4> QED
        BY <3>1, <4>1 DEF IInv, TypeOK, Handle, ObjectOf, Files
    <3>2. CASE r.op \in {"put", "complete"} /\ f \notin LargeFiles
      BY <3>2 DEF IInv, TypeOK, Handle, ObjectOf, Files
    <3>3. CASE r.op \notin {"put", "complete"}
      BY <3>3 DEF Handle, ObjectOf
    <3> QED
      BY <3>1, <3>2, <3>3, UploadAssumption
  <2> QED
    BY <1>1, <2>1 DEF EntryOf, ObjectOf, Contract!vars
<1> QED
  BY <1>2, <1>3

(***************************************************************************)
(* The uploads of large files implement the contract.                      *)
(***************************************************************************)
LEMMA StepKeepsContract ==
  ASSUME IInv, [Next]_vars
  PROVE  [Contract!Next]_(Contract!vars)
<1>1. ASSUME NEW S \in SUBSET Files, NEW unsent \in SUBSET Files, Choose(S, unsent)
      PROVE  [Contract!Next]_(Contract!vars)
  <2>1. \A f \in S : status[f] = "InProgress"
    BY <1>1 DEF Choose, IInv, TypeOK, Progress
  <2>2. EntryOf' = [f \in LargeFiles |->
                      IF f \in S \cap LargeFiles THEN "InProgress" ELSE EntryOf[f]]
    BY <1>1, <2>1 DEF Choose, FirstRequest, EntryOf, Files
  <2>3. ObjectOf' = ObjectOf /\ aborted' = aborted
    BY <1>1 DEF Choose, ObjectOf, server
  <2>4. \A f \in S \cap LargeFiles : EntryOf[f] = "none"
    BY <1>1 DEF Choose, EntryOf
  <2>5. Contract!Begin(S \cap LargeFiles)
    BY <2>2, <2>3, <2>4 DEF EntryOf, ObjectOf, Contract!Begin
  <2>6. S \cap LargeFiles \in SUBSET LargeFiles
    OBVIOUS
  <2> QED
    BY <2>5, <2>6 DEF Contract!Next
<1>2. ASSUME NEW f \in Files, Serve(f)
      PROVE  [Contract!Next]_(Contract!vars)
  <2>1. /\ pc[f] = "put" => f \in SmallFiles
        /\ pc[f] = "complete" => f \notin aborted /\ acked[f] = 1..Parts
        /\ pc[f] \in {"put", "create", "part", "complete", "abort"}
    BY <1>2, UploadAssumption DEF Serve, IInv, Progress, PartsInOrder, Aborted, MpRequests
  <2>2. Awaited(f) \in Requests /\ Awaited(f).file = f /\ Awaited(f).op = pc[f]
    BY <2>1 DEF Awaited, Requests, IInv, TypeOK
  <2>3. Handle(Awaited(f)) /\ UNCHANGED <<pc, status, aborted>>
    BY <1>2 DEF Serve, island
  <2> QED
    BY <2>1, <2>2, <2>3, HandleKeepsContract
<1>3. ASSUME NEW r \in stray, ServeStray(r)
      PROVE  [Contract!Next]_(Contract!vars)
  <2>1. r \in Requests /\ Handle(r) /\ UNCHANGED <<pc, status, aborted>>
    BY <1>3 DEF ServeStray, island, IInv, TypeOK
  <2> QED
    BY <2>1, HandleKeepsContract DEF IInv, Strays
<1>4. ASSUME UNCHANGED <<pc, status, stored, aborted>>
      PROVE  [Contract!Next]_(Contract!vars)
  BY <1>4 DEF Contract!vars
<1>5. CASE \E f \in Files : Task(f)
  BY <1>5, TaskKeepsContract
<1>6. CASE \E f \in Files : Refuse(f) \/ Lose(f)
  BY <1>4, <1>6 DEF Refuse, Lose, island, server
<1>7. CASE \/ ReloadEffect \/ Reload \/ Leave \/ Done
           \/ \E r \in stray : DropStray(r)
           \/ UNCHANGED vars
  BY <1>4, <1>7 DEF ReloadEffect, Reload, Leave, Unload, Done, DropStray, vars, island, server
<1> QED
  BY <1>1, <1>2, <1>3, <1>5, <1>6, <1>7 DEF Next, Network

THEOREM ContractIsKept == Spec => UploadsKeepContract
<1>1. Init => Contract!Init
  BY DEF Init, Contract!Init, Files
<1>2. IInv /\ [Next]_vars => [Contract!Next]_(Contract!vars)
  BY StepKeepsContract
<1> QED
  BY <1>1, <1>2, Invariance, PTL DEF Spec, UploadsKeepContract, Contract!Spec

-----------------------------------------------------------------------------
(***************************************************************************)
(* The page.                                                               *)
(***************************************************************************)
(* The kinds of call that are sent again only once they were answered.     *)
Asked == {"row", "bucket", "inline", "create"}

(***************************************************************************)
(* The inductive invariant.  A dialog's call runs if and only if it is     *)
(* busy, and that is what keeps its button, and the input of the create    *)
(* dialog, disabled; both are lost with the page, never one alone.         *)
(***************************************************************************)
CallsInv ==
  /\ calls \in [Kinds -> Nat]
  /\ \A k \in Asked : calls[k] = IF k \in busy THEN 1 ELSE 0

NameInv == "create" \in busy => name \in {submitted, Blank}

DialogInv == CallsInv /\ NameInv

LEMMA InitDialogs == ConsoleInit => DialogInv
BY DEF ConsoleInit, DialogInv, CallsInv, NameInv, NoCalls, Kinds, Asked

(* What leaves the calls, the busy signals and the names alone, or clears  *)
(* the name, keeps the invariant.                                          *)
LEMMA QuietStep ==
  ASSUME DialogInv, UNCHANGED <<busy, calls, submitted>>,
         name' = name \/ name' = Blank
  PROVE  DialogInv'
BY DEF DialogInv, CallsInv, NameInv

LEMMA PageEndsStep == PageEnds => DialogInv'
BY DEF PageEnds, DialogInv, CallsInv, NameInv, NoCalls, Kinds, Asked

(* A call begins: its dialog was not busy.                                 *)
LEMMA CallBegins ==
  ASSUME DialogInv, NEW k \in Kinds, Begin(k),
         k \in Asked => k \notin busy,
         NEW b \in Kinds, busy' = busy \cup {b}, b \in Asked => b = k,
         k \in Asked => b = k
  PROVE  CallsInv'
<1>1. calls' \in [Kinds -> Nat]
  BY DEF DialogInv, CallsInv, Begin
<1>2. ASSUME NEW a \in Asked PROVE calls'[a] = IF a \in busy' THEN 1 ELSE 0
  <2>1. a \in Kinds
    BY <1>2 DEF Asked, Kinds
  <2>2. calls[a] = IF a \in busy THEN 1 ELSE 0
    BY <1>2 DEF DialogInv, CallsInv
  <2>3. CASE a = k
    BY <2>1, <2>2, <2>3, <1>2 DEF DialogInv, CallsInv, Begin
  <2>4. CASE a # k
    BY <2>1, <2>2, <2>4, <1>2 DEF DialogInv, CallsInv, Begin
  <2>5. QED
    BY <2>3, <2>4
<1>3. QED
  BY <1>1, <1>2 DEF CallsInv

(* A call ends: no other was under way in its dialog.                      *)
LEMMA CallEnds ==
  ASSUME DialogInv, NEW k \in Kinds, Resume(k), NEW b \in Kinds, busy' = busy \ {b},
         b \in Asked => b = k, k \in Asked => b = k
  PROVE  CallsInv'
<1>1. calls[k] \in Nat /\ calls[k] > 0 /\ calls' = [calls EXCEPT ![k] = calls[k] - 1]
  BY DEF DialogInv, CallsInv, Resume
<1>2. calls' \in [Kinds -> Nat]
  BY <1>1 DEF DialogInv, CallsInv
<1>3. ASSUME NEW a \in Asked PROVE calls'[a] = IF a \in busy' THEN 1 ELSE 0
  <2>1. a \in Kinds
    BY <1>3 DEF Asked, Kinds
  <2>2. calls[a] = IF a \in busy THEN 1 ELSE 0
    BY <1>3 DEF DialogInv, CallsInv
  <2>3. CASE a = k
    BY <1>1, <2>1, <2>2, <2>3, <1>3 DEF DialogInv, CallsInv
  <2>4. CASE a # k
    BY <1>1, <2>1, <2>2, <2>4, <1>3 DEF DialogInv, CallsInv
  <2>5. QED
    BY <2>3, <2>4
<1>4. QED
  BY <1>2, <1>3 DEF CallsInv

LEMMA AnswersKeepDialogs ==
  ASSUME DialogInv, NEW k \in Kinds, Answered(k)
  PROVE  DialogInv'
<1>1. PICK ok \in BOOLEAN :
        \/ k \in {"row", "bucket"} /\ ConfirmAnswered(k, ok)
        \/ k = "create" /\ ok /\ BucketCreated
        \/ k = "create" /\ ~ok /\ BucketNotCreated
        \/ k = "head" /\ HeadAnswered(ok)
        \/ k = "presign" /\ PresignAnswered(ok)
        \/ k = "copy" /\ ClipboardSettled
        \/ k = "inline" /\ InlineAnswered(ok)
  BY DEF Answered
<1>2. CASE k \in {"row", "bucket"} /\ ConfirmAnswered(k, ok)
  <2>1. CallsInv'
    BY <1>2, CallEnds DEF ConfirmAnswered
  <2>2. NameInv'
    BY <1>2 DEF ConfirmAnswered, DialogInv, NameInv, create
  <2>3. QED
    BY <2>1, <2>2 DEF DialogInv
<1>3. CASE k = "create" /\ ok /\ BucketCreated
  <2>1. CallsInv'
    BY <1>3, CallEnds DEF BucketCreated, Kinds
  <2>2. NameInv'
    BY <1>3 DEF BucketCreated, NameInv
  <2>3. QED
    BY <2>1, <2>2 DEF DialogInv
<1>4. CASE k = "create" /\ ~ok /\ BucketNotCreated
  <2>1. CallsInv'
    BY <1>4, CallEnds DEF BucketNotCreated, Kinds
  <2>2. NameInv'
    BY <1>4 DEF BucketNotCreated, NameInv
  <2>3. QED
    BY <2>1, <2>2 DEF DialogInv
<1>5. CASE k = "head" /\ HeadAnswered(ok)
  <2>1. CallsInv'
    BY <1>5, CallEnds DEF HeadAnswered, Kinds, Asked
  <2>2. NameInv'
    BY <1>5 DEF HeadAnswered, DialogInv, NameInv, create
  <2>3. QED
    BY <2>1, <2>2 DEF DialogInv
<1>6. CASE k = "presign" /\ PresignAnswered(ok)
  <2>1. /\ calls' = [calls EXCEPT !["presign"] = @ - 1, !["copy"] = IF ok THEN @ + 1 ELSE @]
        /\ calls["presign"] > 0
        /\ busy' = busy \ {"presign"}
        /\ UNCHANGED create
    BY <1>6 DEF PresignAnswered
  <2>2. calls' \in [Kinds -> Nat]
    BY <2>1 DEF DialogInv, CallsInv, Kinds
  <2>3. \A a \in Asked : calls'[a] = calls[a] /\ (a \in busy' <=> a \in busy)
    BY <2>1 DEF DialogInv, CallsInv, Asked, Kinds
  <2>4. NameInv'
    BY <2>1 DEF DialogInv, NameInv, create
  <2>5. QED
    BY <2>2, <2>3, <2>4 DEF DialogInv, CallsInv
<1>7. CASE k = "copy" /\ ClipboardSettled
  <2>1. calls["copy"] \in Nat /\ calls["copy"] > 0 /\ calls' = [calls EXCEPT !["copy"] = calls["copy"] - 1]
    BY <1>7 DEF ClipboardSettled, Resume, DialogInv, CallsInv, Kinds
  <2>2. calls' \in [Kinds -> Nat] /\ \A a \in Asked : calls'[a] = calls[a]
    BY <2>1 DEF DialogInv, CallsInv, Asked, Kinds
  <2>3. UNCHANGED <<busy, create>>
    BY <1>7 DEF ClipboardSettled
  <2>4. QED
    BY <2>2, <2>3 DEF DialogInv, CallsInv, NameInv, create
<1>8. CASE k = "inline" /\ InlineAnswered(ok)
  <2>1. CallsInv'
    BY <1>8, CallEnds DEF InlineAnswered, Kinds
  <2>2. NameInv'
    BY <1>8 DEF InlineAnswered, DialogInv, NameInv, create
  <2>3. QED
    BY <2>1, <2>2 DEF DialogInv
<1>9. QED
  BY <1>1, <1>2, <1>3, <1>4, <1>5, <1>6, <1>7, <1>8

LEMMA ConfirmsKeepDialogs ==
  ASSUME DialogInv, NEW d \in Confirms, ConfirmOpen(d) \/ ConfirmDismiss(d) \/ Confirm(d)
  PROVE  DialogInv'
<1>1. d \in {"row", "bucket"}
  BY DEF Confirms
<1>2. CASE ConfirmOpen(d) \/ ConfirmDismiss(d)
  BY <1>2, QuietStep DEF ConfirmOpen, ConfirmDismiss, create
<1>3. CASE Confirm(d)
  <2>1. CallsInv'
    BY <1>1, <1>3, CallBegins DEF Confirm, ConfirmButton, Kinds
  <2>2. NameInv'
    BY <1>1, <1>3 DEF Confirm, DialogInv, NameInv, create
  <2>3. QED
    BY <2>1, <2>2 DEF DialogInv
<1>4. QED
  BY <1>2, <1>3

LEMMA ObjectsKeepDialogs ==
  ASSUME DialogInv, OnObjects
  PROVE  DialogInv'
<1>1. CASE PanelOpen
  <2>1. CASE busy' = busy \cup {"head"} /\ Begin("head")
    <3>1. CallsInv'
      BY <2>1, CallBegins DEF Kinds, Asked
    <3>2. NameInv'
      BY <1>1, <2>1 DEF PanelOpen, DialogInv, NameInv, create
    <3>3. QED
      BY <3>1, <3>2 DEF DialogInv
  <2>2. CASE UNCHANGED <<busy, calls>>
    BY <1>1, <2>2, QuietStep DEF PanelOpen, create
  <2>3. QED
    BY <1>1, <2>1, <2>2 DEF PanelOpen
<1>2. CASE Presign
  <2>1. CallsInv'
    BY <1>2, CallBegins DEF Presign, Kinds, Asked
  <2>2. NameInv'
    BY <1>2 DEF Presign, DialogInv, NameInv, create
  <2>3. QED
    BY <2>1, <2>2 DEF DialogInv
<1>3. CASE InlineConfirm
  <2>1. CallsInv'
    BY <1>3, CallBegins DEF InlineConfirm, InlineButton, Kinds
  <2>2. NameInv'
    BY <1>3 DEF InlineConfirm, DialogInv, NameInv, create
  <2>3. QED
    BY <2>1, <2>2 DEF DialogInv
<1>4. CASE PanelClose \/ InlineOpen \/ InlineDismiss \/ ClearFinished
  BY <1>4, QuietStep DEF PanelClose, InlineOpen, InlineDismiss, ClearFinished, dialogs, create
<1>5. QED
  BY <1>1, <1>2, <1>3, <1>4 DEF OnObjects

LEMMA BucketsKeepDialogs ==
  ASSUME DialogInv, OnBuckets
  PROVE  DialogInv'
<1>1. CASE CreateOpen \/ CreateDismiss
  BY <1>1, QuietStep DEF CreateOpen, CreateDismiss
<1>2. CASE SubmitBlank
  BY <1>2, QuietStep DEF SubmitBlank
<1>3. CASE \E n \in Names \cup {Blank} : TypeName(n)
  <2>1. "create" \notin busy /\ UNCHANGED <<busy, calls, submitted>>
    BY <1>3 DEF TypeName, CreateForm
  <2>2. QED
    BY <2>1 DEF DialogInv, CallsInv, NameInv
<1>4. CASE Submit
  <2>1. CallsInv'
    BY <1>4, CallBegins DEF Submit, CreateForm, Kinds
  <2>2. NameInv'
    BY <1>4 DEF Submit, NameInv
  <2>3. QED
    BY <2>1, <2>2 DEF DialogInv
<1>5. QED
  BY <1>1, <1>2, <1>3, <1>4 DEF OnBuckets

LEMMA StepKeepsDialogs == DialogInv /\ [ConsoleNext]_cvars => DialogInv'
<1> SUFFICES ASSUME DialogInv, [ConsoleNext]_cvars PROVE DialogInv'
  OBVIOUS
<1>1. CASE \E S, unsent \in SUBSET Files : unsent \subseteq S /\ ChooseFiles(S, unsent)
  BY <1>1, QuietStep DEF ChooseFiles, dialogs, create
<1>2. CASE Uploading
  BY <1>2, QuietStep DEF Uploading, dialogs, create
<1>3. CASE (Reload \/ Leave) /\ PageEnds
  BY <1>3, PageEndsStep
<1>4. CASE \E d \in Confirms : ConfirmOpen(d) \/ ConfirmDismiss(d) \/ Confirm(d)
  BY <1>4, ConfirmsKeepDialogs
<1>5. CASE OnObjects
  BY <1>5, ObjectsKeepDialogs
<1>6. CASE OnBuckets
  BY <1>6, BucketsKeepDialogs
<1>7. CASE \E k \in Kinds : Answered(k)
  BY <1>7, AnswersKeepDialogs
<1>8. CASE UNCHANGED cvars
  BY <1>8, QuietStep DEF cvars, dialogs, create
<1>9. QED
  BY <1>1, <1>2, <1>3, <1>4, <1>5, <1>6, <1>7, <1>8 DEF ConsoleNext

LEMMA DialogsStay == ConsoleSpec => []DialogInv
BY InitDialogs, StepKeepsDialogs, PTL DEF ConsoleSpec

(* No click sends a delete or a create a second time while the first is    *)
(* under way, whatever is dismissed and opened again in the meantime.      *)
THEOREM DialogsAskOnce == ConsoleSpec => []OneCallPerDialog
<1>1. DialogInv => OneCallPerDialog
  BY DEF DialogInv, CallsInv, OneCallPerDialog, Asked
<1>2. QED
  BY <1>1, DialogsStay, PTL

(* The answer to a create call never discards another name than the one    *)
(* it was made with.                                                       *)
THEOREM NoNameIsDiscarded == ConsoleSpec => []LateAnswerDiscardsNothing
<1>1. DialogInv => LateAnswerDiscardsNothing
  BY DEF DialogInv, NameInv, LateAnswerDiscardsNothing
<1>2. QED
  BY <1>1, DialogsStay, PTL

-----------------------------------------------------------------------------
(***************************************************************************)
(* The uploads on the page.  A dialog's step is none of the upload         *)
(* island's, but all it can do to an upload is to tell the page to reload. *)
(***************************************************************************)
DialogReloads ==
  /\ page = "live" /\ page' = "reloading"
  /\ UNCHANGED <<pc, part, acked, status, pending, anyDone, due, flight, stray, server, aborted, entries>>

(* The upload panel after an island step: it gains the chosen files, keeps *)
(* what is in progress, and is emptied with the page.                      *)
PanelKeeps ==
  \/ page' = "gone" /\ page # "gone" /\ entries' = {} /\ UNCHANGED <<pc, status, pending>>
  \/ \E S, unsent \in SUBSET Files : Choose(S, unsent) /\ entries' = entries \cup S
  \/ /\ entries' = entries \/ entries' = {f \in entries : status[f] = "InProgress"}
     /\ UNCHANGED vars
  \/ entries' = entries /\ (ReloadEffect \/ \E f \in Files : Task(f) \/ Network(f))
  \/ entries' = entries /\ \E r \in stray : ServeStray(r) \/ DropStray(r)

LEMMA DialogSteps ==
  ASSUME [ConsoleNext]_cvars
  PROVE  ([Next]_vars /\ PanelKeeps) \/ DialogReloads
<1> DEFINE Goal == ([Next]_vars /\ PanelKeeps) \/ DialogReloads
<1>1. ASSUME UNCHANGED <<page, uploads>>
      PROVE  Goal
  <2>1. UNCHANGED vars /\ entries' = entries
    BY <1>1 DEF uploads, vars, island, server
  <2> QED
    BY <2>1 DEF PanelKeeps
<1>2. ASSUME UNCHANGED uploads, ReloadPage
      PROVE  Goal
  <2>1. CASE page = "live"
    BY <1>2, <2>1 DEF ReloadPage, DialogReloads, uploads
  <2>2. CASE page # "live"
    BY <1>1, <1>2, <2>2 DEF ReloadPage
  <2> QED
    BY <2>1, <2>2
<1>3. ASSUME NEW S \in SUBSET Files, NEW unsent \in SUBSET Files, unsent \subseteq S, ChooseFiles(S, unsent)
      PROVE  Goal
  <2>1. Choose(S, unsent) /\ entries' = entries \cup S
    BY <1>3 DEF ChooseFiles
  <2>2. PanelKeeps
    BY <2>1 DEF PanelKeeps
  <2>3. Next
    BY <1>3, <2>1 DEF Next
  <2> QED
    BY <2>2, <2>3
<1>4. CASE Uploading
  <2>1. /\ \/ \E f \in Files : Task(f) \/ Network(f)
           \/ ReloadEffect
           \/ \E r \in stray : ServeStray(r) \/ DropStray(r)
        /\ entries' = entries
    BY <1>4 DEF Uploading
  <2>2. Next
    BY <2>1 DEF Next
  <2>3. PanelKeeps
    BY <2>1 DEF PanelKeeps
  <2> QED
    BY <2>2, <2>3
<1>5. CASE (Reload \/ Leave) /\ PageEnds
  <2>1. Next
    BY <1>5 DEF Next
  <2>2. PanelKeeps
    BY <1>5 DEF PanelKeeps, PageEnds, Reload, Leave, Unload
  <2> QED
    BY <2>1, <2>2
<1>6. CASE \E d \in Confirms : ConfirmOpen(d) \/ ConfirmDismiss(d) \/ Confirm(d)
  BY <1>1, <1>6 DEF ConfirmOpen, ConfirmDismiss, Confirm, Gesture, Starts
<1>7. CASE OnBuckets
  BY <1>1, <1>7 DEF OnBuckets, CreateOpen, CreateDismiss, Submit, SubmitBlank, TypeName, Gesture, Starts
<1>8. CASE OnObjects
  <2>1. CASE ClearFinished
    BY <2>1 DEF ClearFinished, PanelKeeps
  <2>2. CASE ~ClearFinished
    BY <1>1, <1>8, <2>2 DEF OnObjects, PanelOpen, PanelClose, Presign, InlineOpen, InlineDismiss,
                            InlineConfirm, Gesture, Starts
  <2> QED
    BY <2>1, <2>2
<1>9. CASE \E k \in Kinds : Answered(k)
  BY <1>1, <1>2, <1>9 DEF Answered, ConfirmAnswered, BucketCreated, BucketNotCreated, HeadAnswered,
                          PresignAnswered, ClipboardSettled, InlineAnswered, Callback
<1>10. CASE UNCHANGED cvars
  BY <1>10 DEF cvars, PanelKeeps
<1> QED
  BY <1>3, <1>4, <1>5, <1>6, <1>7, <1>8, <1>9, <1>10 DEF ConsoleNext

(***************************************************************************)
(* The panel lists the uploads that were chosen and not cleared away, and  *)
(* only finished ones are.                                                 *)
(***************************************************************************)
Listed ==
  page # "gone" => Unsettled \subseteq entries /\ \A f \in entries : f \in Files /\ pc[f] # "idle"

PageInv == IInv /\ PendingCountsUnsettled /\ Listed

LEMMA InitPage == ConsoleInit => PageInv
<1>1. ConsoleInit => Unsettled = {} /\ entries = {} /\ pending = 0
  BY DEF ConsoleInit, Init, Unsettled
<1> QED
  BY <1>1, InitInv, FS_EmptySet DEF ConsoleInit, PageInv, PendingCountsUnsettled, Listed, Unsettled

(* A file that was chosen never becomes idle again, nor a settled one      *)
(* unsettled.                                                              *)
LEMMA TasksGoOn ==
  ASSUME IInv, NEW f \in Files, Task(f) \/ Network(f)
  PROVE  /\ Unsettled' \subseteq Unsettled
         /\ \A g \in Files : pc[g] # "idle" => pc'[g] # "idle"
<1>1. CASE Task(f)
  <2>1. Unsettled' \subseteq Unsettled
    BY <1>1, TaskCounts
  <2>2. \A g \in Files : pc[g] # "idle" => pc'[g] # "idle"
    BY <1>1 DEF IInv, TypeOK, Task, SmallLoaded, SmallFailed, CreateAnswered, CreateFailed,
           PartAnswered, PartFailed, AbortEnded, CompleteAnswered, CompleteFailed, PostPart, Send, Settle
  <2> QED
    BY <2>1, <2>2
<1>2. CASE Network(f)
  BY <1>2 DEF Network, Serve, Refuse, Lose, island, Unsettled
<1> QED
  BY <1>1, <1>2

LEMMA PageStep == PageInv /\ [ConsoleNext]_cvars => PageInv'
<1> SUFFICES ASSUME PageInv, [ConsoleNext]_cvars PROVE PageInv'
  OBVIOUS
<1> USE DEF PageInv
<1>1. CASE DialogReloads
  <2>1. IInv'
    BY <1>1 DEF DialogReloads, server, IInv, TypeOK, Progress, PartsInOrder, Strays, OnServer,
                Aborted, AbortedUploadsAreGone
  <2>2. PendingCountsUnsettled' /\ Listed'
    BY <1>1 DEF DialogReloads, PendingCountsUnsettled, Listed, Unsettled
  <2> QED
    BY <2>1, <2>2
<1>2. CASE [Next]_vars /\ PanelKeeps
  <2>1. IInv' /\ PendingCountsUnsettled'
    BY <1>2, StepInv, StepCounts
  <2>2. Listed'
    <3>1. CASE page' = "gone"
      BY <3>1 DEF Listed
    <3>2. ASSUME NEW S \in SUBSET Files, NEW unsent \in SUBSET Files,
                 Choose(S, unsent), entries' = entries \cup S
          PROVE  Listed'
      <4>1. page # "gone" /\ status' = status
        BY <3>2 DEF Choose
      <4>2. \A f \in Files : f \notin S => pc'[f] = pc[f]
        BY <3>2 DEF Choose
      <4>3. \A f \in S : pc'[f] # "idle"
        BY <3>2 DEF Choose, FirstRequest
      <4> QED
        BY <3>2, <4>1, <4>2, <4>3 DEF Listed, Unsettled
    <3>3. CASE /\ entries' = entries \/ entries' = {f \in entries : status[f] = "InProgress"}
               /\ UNCHANGED vars
      BY <3>3 DEF Listed, Unsettled, vars, island
    <3>4. CASE entries' = entries /\ (ReloadEffect \/ \E f \in Files : Task(f) \/ Network(f))
      <4>1. CASE ReloadEffect
        BY <3>4, <4>1 DEF ReloadEffect, Listed, Unsettled
      <4>2. ASSUME NEW f \in Files, Task(f) \/ Network(f)
            PROVE  Listed'
        <5>1. page' = page
          BY <4>2 DEF Task, Network, SmallLoaded, SmallFailed, CreateAnswered, CreateFailed,
                 PartAnswered, PartFailed, AbortEnded, CompleteAnswered, CompleteFailed,
                 Serve, Refuse, Lose, island
        <5> QED
          BY <3>4, <4>2, <5>1, TasksGoOn DEF Listed
      <4> QED
        BY <3>4, <4>1, <4>2
    <3>5. CASE entries' = entries /\ \E r \in stray : ServeStray(r) \/ DropStray(r)
      BY <3>5 DEF ServeStray, DropStray, island, Listed, Unsettled
    <3> QED
      BY <1>2, <3>1, <3>2, <3>3, <3>4, <3>5 DEF PanelKeeps
  <2> QED
    BY <2>1, <2>2
<1> QED
  BY <1>1, <1>2, DialogSteps

LEMMA PageInvariant == ConsoleSpec => []PageInv
BY InitPage, PageStep, PTL DEF ConsoleSpec

(* The user cannot clear away an upload the page still waits for: what the *)
(* panel shows in progress is what the island counts as pending.           *)
THEOREM PanelAlwaysShowsPending == ConsoleSpec => []PanelShowsPending
<1>1. PageInv => PanelShowsPending
  <2> SUFFICES ASSUME PageInv, page # "gone"
               PROVE  pending = Cardinality({f \in entries : status[f] = "InProgress"})
    BY DEF PanelShowsPending
  <2>1. {f \in entries : status[f] = "InProgress"} = Unsettled
    BY DEF PageInv, Listed, Unsettled
  <2> QED
    BY <2>1 DEF PageInv, PendingCountsUnsettled, Unsettled
<1> QED
  BY <1>1, PageInvariant, PTL

(* On a page that its dialogs reload at any moment, the count of uploads   *)
(* is exact, and what is shown of large files is so.                       *)
THEOREM PageKeepsUploads ==
  ConsoleSpec => []( /\ PendingCountsUnsettled
                     /\ LargeDoneIsStored
                     /\ LargeIsWholeOrAbsent
                     /\ AbortedUploadsAreGone )
<1>1. PageInv => /\ PendingCountsUnsettled
                 /\ LargeDoneIsStored
                 /\ LargeIsWholeOrAbsent
                 /\ AbortedUploadsAreGone
  BY DEF PageInv, IInv, OnServer, Aborted, LargeDoneIsStored, LargeIsWholeOrAbsent
<1> QED
  BY <1>1, PageInvariant, PTL

(* Nor does a reload by a dialog take a large file's upload out of its     *)
(* contract: every step of the page is one of the contract or none.        *)
THEOREM PageKeepsContract == ConsoleSpec => UploadsKeepContract
<1>1. ConsoleInit => Contract!Init
  BY DEF ConsoleInit, Init, Contract!Init, Files
<1>2. PageInv /\ [ConsoleNext]_cvars => [Contract!Next]_(Contract!vars)
  <2> SUFFICES ASSUME PageInv, [ConsoleNext]_cvars
               PROVE  [Contract!Next]_(Contract!vars)
    OBVIOUS
  <2>1. CASE [Next]_vars
    BY <2>1, StepKeepsContract DEF PageInv
  <2>2. CASE DialogReloads
    BY <2>2 DEF DialogReloads, server, Contract!vars
  <2> QED
    BY <2>1, <2>2, DialogSteps
<1> QED
  BY <1>1, <1>2, PageInvariant, PTL DEF ConsoleSpec, UploadsKeepContract, Contract!Spec

(* The island's effect still waits for every upload: the reload of a       *)
(* dialog is never taken for its own.                                      *)
THEOREM PageReloadWaits == ConsoleSpec => ReloadWaitsForAll
<1>1. ASSUME PageInv, [ConsoleNext]_cvars, due, ~due', page = "live", page' = "reloading"
      PROVE  \A f \in Files : pc[f] \in {"idle", "settled"}
  <2>1. [Next]_vars
    BY <1>1, DialogSteps DEF DialogReloads
  <2> QED
    BY <1>1, <2>1, ReloadFindsNone DEF PageInv
<1> QED
  BY <1>1, PageInvariant, PTL DEF ConsoleSpec, ReloadWaitsForAll
=============================================================================
