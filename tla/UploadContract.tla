---------------------------- MODULE UploadContract ----------------------------
(***************************************************************************)
(* What the web console promises of the upload of a large file, whatever   *)
(* requests, parts and answers it takes: the file is stored whole in one   *)
(* step or not at all, it is shown as done only once it is stored, what is *)
(* shown is final, and an upload whose abort was acknowledged is never     *)
(* stored.  An upload that failed may still be stored: its complete was    *)
(* under way.                                                              *)
(***************************************************************************)
CONSTANT Files

VARIABLES
  shown,   \* the entry of a file in the panel, "none" before it was chosen
  object,  \* what is stored under the file's key: "none" or "whole"
  gone     \* the uploads whose abort was acknowledged

vars == <<shown, object, gone>>

Init ==
  /\ shown = [f \in Files |-> "none"]
  /\ object = [f \in Files |-> "none"]
  /\ gone = {}

(* Files are chosen, several at once.                                      *)
Begin(S) ==
  /\ \A f \in S : shown[f] = "none"
  /\ shown' = [f \in Files |-> IF f \in S THEN "InProgress" ELSE shown[f]]
  /\ UNCHANGED <<object, gone>>

Store(f) ==
  /\ shown[f] \in {"InProgress", "Error"}
  /\ f \notin gone
  /\ object[f] = "none"
  /\ object' = [object EXCEPT ![f] = "whole"]
  /\ UNCHANGED <<shown, gone>>

Succeed(f) ==
  /\ shown[f] = "InProgress"
  /\ object[f] = "whole"
  /\ shown' = [shown EXCEPT ![f] = "Done"]
  /\ UNCHANGED <<object, gone>>

Fail(f) ==
  /\ shown[f] = "InProgress"
  /\ shown' = [shown EXCEPT ![f] = "Error"]
  /\ UNCHANGED <<object, gone>>

Abort(f) ==
  /\ shown[f] = "InProgress"
  /\ object[f] = "none"
  /\ shown' = [shown EXCEPT ![f] = "Error"]
  /\ gone' = gone \cup {f}
  /\ UNCHANGED object

Next ==
  \/ \E S \in SUBSET Files : Begin(S)
  \/ \E f \in Files : Store(f) \/ Succeed(f) \/ Fail(f) \/ Abort(f)

Spec == Init /\ [][Next]_vars
=============================================================================
