------------------------------ MODULE Console ------------------------------
(***************************************************************************)
(* A page of the web console with everything on it that a user can set     *)
(* going: on the object browser the uploads of module UploadIsland, the    *)
(* delete dialog of a row (ui/src/islands/confirm_modal.rs) and the        *)
(* slide-over panel of an object (slide_over.rs); on the bucket list the   *)
(* delete dialog of a bucket and the dialog that creates one               *)
(* (create_bucket_modal.rs).                                               *)
(*                                                                         *)
(* Each island has signals of its own and a server call that runs on when  *)
(* its dialog is dismissed and opened again; a call that succeeds reloads  *)
(* the whole page.  The server's answer to a call may be anything: what it *)
(* does is the subject of the storage modules.                             *)
(***************************************************************************)
EXTENDS UploadIsland

CONSTANTS
  Names,        \* bucket names a user types
  Blank,        \* an empty or blank name
  Budget,       \* what a user does on one page (bounds the model):
  CallCost,     \*   every call that a dialog starts,
  FileCost      \*   every file that is uploaded

ASSUME ConsoleAssumption ==
  /\ Blank \notin Names
  /\ Budget \in Nat /\ CallCost \in Nat /\ FileCost \in Nat

VARIABLES
  view,         \* the page that is open: "objects" or "buckets"
  open,         \* the dialogs that are shown
  busy,         \* loading, deleting and presigning: a dialog's call runs
  calls,        \* how many calls of each kind are under way
  name,         \* what the input of the create dialog holds
  submitted,    \* the name the create call was made with
  error,        \* the create dialog's error line
  shown,        \* the panel's metadata: not loaded, loaded, or an error
  copied,       \* the panel says "Presigned URL copied to clipboard"
  entries,      \* the files listed in the upload panel
  spent         \* of the budget

create == <<name, submitted, error>>
panel == <<shown, copied>>
dialogs == <<open, busy, calls, create, panel>>
cvars == <<vars, view, dialogs, entries, spent>>

(* The calls, and the writing of the clipboard, that an island awaits.     *)
Kinds == {"row", "bucket", "inline", "create", "head", "presign", "copy"}

NoCalls == [k \in Kinds |-> 0]

Begin(k) == calls' = [calls EXCEPT ![k] = @ + 1]

(* A handler resumes when its call ended: Ok, or Err for a refusal as well *)
(* as for a connection that broke.  A page that is gone resumes nothing.   *)
Resume(k) ==
  /\ page # "gone"
  /\ calls[k] > 0
  /\ calls' = [calls EXCEPT ![k] = @ - 1]

(* window.location().reload(), which does not stop the page at once.       *)
ReloadPage == page' = IF page = "live" THEN "reloading" ELSE page

uploads == <<pc, part, acked, status, pending, anyDone, due, flight, stray, server, aborted, entries>>

Starts ==
  /\ page # "gone"
  /\ spent + CallCost <= Budget
  /\ spent' = spent + CallCost
  /\ UNCHANGED <<page, uploads, view>>

Gesture == page # "gone" /\ UNCHANGED <<page, uploads, view, spent>>

Callback == UNCHANGED <<uploads, view, spent>>

-----------------------------------------------------------------------------
(***************************************************************************)
(* The delete dialog of a row, of an object or of a bucket (ConfirmModal). *)
(* While its call runs both buttons are disabled, the backdrop is not.     *)
(***************************************************************************)
Confirms == IF view = "objects" THEN {"row"} ELSE {"bucket"}

(* Mutant: opening the dialog resets its loading signal.                   *)
ConfirmOpenFresh(d) ==
  /\ Gesture
  /\ open' = open \cup {d}
  /\ busy' = busy \ {d}
  /\ UNCHANGED <<calls, create, panel>>

ConfirmOpen(d) ==
  /\ Gesture
  /\ open' = open \cup {d}
  /\ UNCHANGED <<busy, calls, create, panel>>

ConfirmDismiss(d) ==
  /\ Gesture
  /\ d \in open
  /\ open' = open \ {d}
  /\ UNCHANGED <<busy, calls, create, panel>>

ConfirmButton(d) == d \in open /\ d \notin busy

Confirm(d) ==
  /\ Starts
  /\ ConfirmButton(d)
  /\ busy' = busy \cup {d}
  /\ Begin(d)
  /\ UNCHANGED <<open, create, panel>>

(* Mutant: the loading signal is only reset on success.                    *)
ConfirmAnsweredStuck(d, ok) ==
  /\ Callback
  /\ Resume(d)
  /\ busy' = IF ok THEN busy \ {d} ELSE busy
  /\ open' = IF ok THEN open \ {d} ELSE open
  /\ IF ok THEN ReloadPage ELSE UNCHANGED page
  /\ UNCHANGED <<create, panel>>

ConfirmAnswered(d, ok) ==
  /\ Callback
  /\ Resume(d)
  /\ busy' = busy \ {d}
  /\ open' = IF ok THEN open \ {d} ELSE open
  /\ IF ok THEN ReloadPage ELSE UNCHANGED page
  /\ UNCHANGED <<create, panel>>

-----------------------------------------------------------------------------
(***************************************************************************)
(* The dialog that creates a bucket.  Opening and dismissing it clear the  *)
(* name and the error, but not the call that may still run.                *)
(***************************************************************************)
CreateOpen ==
  /\ Gesture
  /\ open' = open \cup {"create"}
  /\ name' = Blank
  /\ error' = None
  /\ UNCHANGED <<busy, calls, submitted, panel>>

CreateDismiss ==
  /\ Gesture
  /\ "create" \in open
  /\ open' = open \ {"create"}
  /\ name' = Blank
  /\ error' = None
  /\ UNCHANGED <<busy, calls, submitted, panel>>

(* The input, the form and its button; all are disabled while a call runs. *)
CreateForm == "create" \in open /\ "create" \notin busy

(* Mutant: the input stays enabled.                                        *)
TypeNameAnytime(n) ==
  /\ Gesture
  /\ "create" \in open
  /\ name' = n
  /\ UNCHANGED <<open, busy, calls, submitted, error, panel>>

TypeName(n) ==
  /\ Gesture
  /\ CreateForm
  /\ name' = n
  /\ UNCHANGED <<open, busy, calls, submitted, error, panel>>

SubmitBlank ==
  /\ Gesture
  /\ CreateForm
  /\ name = Blank
  /\ error' = "empty"
  /\ UNCHANGED <<open, busy, calls, name, submitted, panel>>

Submit ==
  /\ Starts
  /\ CreateForm
  /\ name # Blank
  /\ busy' = busy \cup {"create"}
  /\ error' = None
  /\ submitted' = name
  /\ Begin("create")
  /\ UNCHANGED <<open, name, panel>>

BucketCreated ==
  /\ Callback
  /\ Resume("create")
  /\ busy' = busy \ {"create"}
  /\ name' = Blank
  /\ open' = open \ {"create"}
  /\ ReloadPage
  /\ UNCHANGED <<submitted, error, panel>>

BucketNotCreated ==
  /\ Callback
  /\ Resume("create")
  /\ busy' = busy \ {"create"}
  /\ error' = "failed"
  /\ UNCHANGED <<page, open, name, submitted, panel>>

-----------------------------------------------------------------------------
(***************************************************************************)
(* The slide-over panel of an object.  It loads the metadata when it is    *)
(* opened and has none; opened again before they came, it asks again.      *)
(***************************************************************************)
PanelOpen ==
  /\ open' = open \cup {"panel"}
  /\ \/ /\ Starts
        /\ shown = "none"
        /\ busy' = busy \cup {"head"}
        /\ Begin("head")
     \/ /\ Gesture
        /\ shown # "none"
        /\ UNCHANGED <<busy, calls>>
  /\ UNCHANGED <<create, panel>>

(* Closing the panel closes the delete confirmation on top of it.          *)
PanelClose ==
  /\ Gesture
  /\ "panel" \in open
  /\ open' = open \ {"panel", "inline"}
  /\ UNCHANGED <<busy, calls, create, panel>>

HeadAnswered(ok) ==
  /\ Callback
  /\ Resume("head")
  /\ shown' = IF ok THEN "loaded" ELSE "error"
  /\ busy' = busy \ {"head"}
  /\ UNCHANGED <<page, open, create, copied>>

(* The body of the panel: loading, then an error or the metadata.          *)
Body == IF "head" \in busy THEN "none" ELSE shown

(* The dashed button, disabled while presigning, or the one that replaces  *)
(* it once a URL was copied.                                               *)
PresignButton ==
  /\ "panel" \in open
  /\ Body = "loaded"
  /\ copied \/ "presign" \notin busy

Presign ==
  /\ Starts
  /\ PresignButton
  /\ busy' = busy \cup {"presign"}
  /\ copied' = FALSE
  /\ Begin("presign")
  /\ UNCHANGED <<open, create, shown>>

(* The URL came: it is written to the clipboard, which is awaited too.     *)
PresignAnswered(ok) ==
  /\ Callback
  /\ page # "gone"
  /\ calls["presign"] > 0
  /\ calls' = [calls EXCEPT !["presign"] = @ - 1, !["copy"] = IF ok THEN @ + 1 ELSE @]
  /\ busy' = busy \ {"presign"}
  /\ UNCHANGED <<page, open, create, panel>>

(* Whatever came of the writing, the row says that the URL was copied.     *)
ClipboardSettled ==
  /\ Callback
  /\ Resume("copy")
  /\ copied' = TRUE
  /\ UNCHANGED <<page, open, busy, create, shown>>

InlineOpen ==
  /\ Gesture
  /\ "panel" \in open
  /\ open' = open \cup {"inline"}
  /\ UNCHANGED <<busy, calls, create, panel>>

InlineDismiss ==
  /\ Gesture
  /\ "inline" \in open
  /\ open' = open \ {"inline"}
  /\ UNCHANGED <<busy, calls, create, panel>>

(* The confirmation is drawn inside the panel, with its own buttons.       *)
InlineButton == {"panel", "inline"} \subseteq open /\ "inline" \notin busy

InlineConfirm ==
  /\ Starts
  /\ InlineButton
  /\ busy' = busy \cup {"inline"}
  /\ Begin("inline")
  /\ UNCHANGED <<open, create, panel>>

InlineAnswered(ok) ==
  /\ Callback
  /\ Resume("inline")
  /\ busy' = busy \ {"inline"}
  /\ open' = IF ok THEN open \ {"panel", "inline"} ELSE open
  /\ IF ok THEN ReloadPage ELSE UNCHANGED page
  /\ UNCHANGED <<create, panel>>

-----------------------------------------------------------------------------
(***************************************************************************)
(* The upload panel, and the steps of UploadIsland on this page.           *)
(***************************************************************************)
(* Mutant: the button clears the whole panel.                              *)
ClearEverything ==
  /\ page # "gone"
  /\ entries' = {}
  /\ UNCHANGED <<vars, view, dialogs, spent>>

ClearFinished ==
  /\ page # "gone"
  /\ entries' = {f \in entries : status[f] = "InProgress"}
  /\ UNCHANGED <<vars, view, dialogs, spent>>

ChooseFiles(S, unsent) ==
  /\ view = "objects"
  /\ spent + FileCost * Cardinality(S) <= Budget
  /\ spent' = spent + FileCost * Cardinality(S)
  /\ Choose(S, unsent)
  /\ entries' = entries \cup S
  /\ UNCHANGED <<view, dialogs>>

Uploading ==
  /\ \/ \E f \in Files : Task(f) \/ Network(f)
     \/ ReloadEffect
     \/ \E r \in stray : ServeStray(r) \/ DropStray(r)
  /\ UNCHANGED <<view, dialogs, entries, spent>>

(* With the page go its dialogs, and whoever awaited their calls.          *)
PageEnds ==
  /\ open' = {} /\ busy' = {} /\ calls' = NoCalls
  /\ name' = Blank /\ submitted' = Blank /\ error' = None
  /\ shown' = "none" /\ copied' = FALSE
  /\ entries' = {}
  /\ spent' = 0
  /\ UNCHANGED view

(* The end of a call; the clipboard's writing ends the same way always.    *)
Answered(k) ==
  \E ok \in BOOLEAN :
    \/ k \in {"row", "bucket"} /\ ConfirmAnswered(k, ok)
    \/ k = "create" /\ ok /\ BucketCreated
    \/ k = "create" /\ ~ok /\ BucketNotCreated
    \/ k = "head" /\ HeadAnswered(ok)
    \/ k = "presign" /\ PresignAnswered(ok)
    \/ k = "copy" /\ ClipboardSettled
    \/ k = "inline" /\ InlineAnswered(ok)

OnObjects ==
  /\ view = "objects"
  /\ \/ PanelOpen \/ PanelClose \/ Presign
     \/ InlineOpen \/ InlineDismiss \/ InlineConfirm
     \/ ClearFinished

OnBuckets ==
  /\ view = "buckets"
  /\ \/ CreateOpen \/ CreateDismiss \/ Submit \/ SubmitBlank
     \/ \E n \in Names \cup {Blank} : TypeName(n)

ConsoleInit ==
  /\ Init
  /\ view \in {"objects", "buckets"}
  /\ open = {}
  /\ busy = {}
  /\ calls = NoCalls
  /\ name = Blank
  /\ submitted = Blank
  /\ error = None
  /\ shown = "none"
  /\ copied = FALSE
  /\ entries = {}
  /\ spent = 0

ConsoleNext ==
  \/ \E S, unsent \in SUBSET Files : unsent \subseteq S /\ ChooseFiles(S, unsent)
  \/ Uploading
  \/ Reload /\ PageEnds
  \/ Leave /\ PageEnds
  \/ \E d \in Confirms : ConfirmOpen(d) \/ ConfirmDismiss(d) \/ Confirm(d)
  \/ OnObjects
  \/ OnBuckets
  \/ \E k \in Kinds : Answered(k)
  \/ page = "gone" /\ stray = {} /\ UNCHANGED cvars

ConsoleSpec == ConsoleInit /\ [][ConsoleNext]_cvars

(* What happens without the user: tasks, handlers and effects that are     *)
(* ready run, requests are answered or their connections break, a page     *)
(* told to reload does.                                                    *)
Running ==
  \/ /\ UNCHANGED <<view, dialogs, entries, spent>>
     /\ \/ \E f \in Files : Task(f) \/ Network(f)
        \/ ReloadEffect
  \/ Reload /\ PageEnds
  \/ \E k \in Kinds : Answered(k)

(* Something of it always goes on.  That is enough, and needs no fairness  *)
(* towards each task: every one of them has only finitely much to do.      *)
ConsoleFairSpec == ConsoleSpec /\ WF_cvars(Running)

-----------------------------------------------------------------------------
(***************************************************************************)
(* Properties.  The invariants of UploadIsland hold on this page too,      *)
(* although its dialogs reload it under uploads in progress.               *)
(***************************************************************************)
(* A dialog has one call under way while it is marked busy, and none       *)
(* otherwise, however often it is dismissed and opened again meanwhile:    *)
(* no delete and no create is sent twice by clicking in between.           *)
OneCallPerDialog ==
  page # "gone" =>
    \A k \in {"row", "bucket", "inline", "create"} :
      calls[k] = IF k \in busy THEN 1 ELSE 0

(* The answer to a create call, which clears the name and closes the       *)
(* dialog, meets no other name than the one that was submitted, although   *)
(* the dialog can be dismissed and opened again before it comes.           *)
LateAnswerDiscardsNothing ==
  "create" \in busy => name \in {submitted, Blank}

(* The upload panel lists every upload that is counted as pending, so the  *)
(* page never waits for an upload the user has cleared away.               *)
PanelShowsPending ==
  page # "gone" => pending = Cardinality({f \in entries : status[f] = "InProgress"})

(* No dialog stays busy, whatever becomes of its call, and a panel that    *)
(* was opened shows the metadata or an error.                              *)
DialogsSettle ==
  /\ \A k \in Kinds \ {"copy"} : k \in busy ~> k \notin busy \/ page = "gone"
  /\ "panel" \in open ~> shown # "none" \/ page = "gone"

=============================================================================
