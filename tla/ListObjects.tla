----------------------------- MODULE ListObjects -----------------------------
(***************************************************************************)
(* list_objects_v2 (crates/storage/src/list.rs) and a client that pages    *)
(* through it while objects are put and deleted.                           *)
(*                                                                         *)
(* A page is a readdir of objects/, the sort, filter and grouping of the   *)
(* keys, and then a read of the sidecar of every object on the page.  A    *)
(* key is a sequence of characters, numbered by their UTF-8 order.  The    *)
(* continuation token is the last key the page covers (its base64 form is  *)
(* undone when it comes back); a client passes no other.                   *)
(*                                                                         *)
(* A put holds a temporary file in objects/ while its body comes in, then  *)
(* renames it to the key, then writes the sidecar; a delete unlinks the    *)
(* body, then the sidecar.  Either may be cut off between two of these.    *)
(***************************************************************************)
EXTENDS Listing

CONSTANTS
  Keys,         \* the keys that occur: a finite set of sequences of numbers
  Temps,        \* the keys that names of temporary files decode to (.tmpXXXXXX)
  Prefixings,   \* the prefixes clients list with
  Delimiters,   \* the non-empty delimiters clients list with
  MaxKeys,      \* the max_keys that clients ask for
  MaxWriters    \* puts and deletes during a listing (bounds the model)

ASSUME ListAssumption ==
  /\ Keys \subseteq Seq(Nat)
  /\ IsFiniteSet(Keys)
  /\ Temps \subseteq Seq(Nat) \ Keys
  /\ IsFiniteSet(Temps)
  /\ Prefixings \subseteq Seq(Nat)
  /\ Delimiters \subseteq Seq(Nat) \ {<<>>}
  /\ MaxKeys \subseteq Nat
  /\ MaxWriters \in Nat

VARIABLES
  store,        \* the keys that the file names in objects/ decode to
  sidecars,     \* the keys that have a sidecar in meta/
  writers,      \* the puts and deletes begun since the listing: next step, key, file
  request,      \* prefix, delimiter and max_keys of the listing
  token,        \* the continuation token of the next page
  page,         \* the page under construction
  unread,       \* its objects whose sidecars are still to be read
  pc,           \* "scan", "resolve" or "end"
  objects,      \* the keys returned as objects, in the order returned
  prefixes,     \* the common prefixes returned, likewise
  (* history *)
  always,       \* the keys that have been in the store since the listing began
  ever          \* the keys that have been in it at any time since

fileVars   == <<store, sidecars, writers, always, ever>>
clientVars == <<request, token, page, unread, pc, objects, prefixes>>
vars       == <<fileVars, clientVars>>

NoPage == [shown |-> {}, next |-> None]

Requests == [prefix : Prefixings, delimiter : Delimiters \cup {None}, max : MaxKeys]

Over == [step |-> "over", key |-> None, tmp |-> None]

-----------------------------------------------------------------------------
(***************************************************************************)
(* The client and list_objects_v2.                                         *)
(***************************************************************************)
Scan ==
  /\ pc = "scan"
  /\ pc' = "resolve"
  /\ page' = Page(store, request, token)
  /\ unread' = ObjectsOf(page', request)
  /\ UNCHANGED <<fileVars, request, token, objects, prefixes>>

NextUnread == CHOOSE k \in unread : \A l \in unread : ~Before(l, k)

ReadSidecar ==
  /\ pc = "resolve"
  /\ unread # {}
  /\ NextUnread \in sidecars
  /\ unread' = unread \ {NextUnread}
  /\ UNCHANGED <<fileVars, request, token, page, pc, objects, prefixes>>

NoSidecar ==
  /\ pc = "resolve"
  /\ unread # {}
  /\ NextUnread \notin sidecars
  /\ UNCHANGED <<fileVars, request, objects, prefixes>>

(* Mutant: an object without its sidecar is left out, with all after it.   *)
DropPage ==
  /\ NoSidecar
  /\ pc' = IF page.next = None THEN "end" ELSE "scan"
  /\ token' = page.next
  /\ page' = NoPage
  /\ unread' = {}

(* Mutant: the sidecars of the page as it was are read over and over.      *)
RetryStalePage ==
  /\ NoSidecar
  /\ UNCHANGED <<token, page, unread, pc>>

(* An object of the page has no sidecar (deleted since the readdir, not    *)
(* yet written, or not an object at all): the page fails with NoSuchKey,   *)
(* and the client asks for it again.                                       *)
FailPage ==
  /\ NoSidecar
  /\ pc' = "scan"
  /\ page' = NoPage
  /\ unread' = {}
  /\ UNCHANGED token

(* Every sidecar has been read: the page is returned.                      *)
Deliver ==
  /\ pc = "resolve"
  /\ unread = {}
  /\ pc' = IF page.next = None THEN "end" ELSE "scan"
  /\ token' = page.next
  /\ page' = NoPage
  /\ objects' = objects \o InOrder(ObjectsOf(page, request))
  /\ prefixes' = prefixes \o InOrder(PrefixesOf(page, request))
  /\ UNCHANGED <<fileVars, request, unread>>

-----------------------------------------------------------------------------
(***************************************************************************)
(* The puts and deletes of other clients, a system call at a time.         *)
(***************************************************************************)
Files(s, d, w) ==
  /\ pc # "end"
  /\ store' = s
  /\ sidecars' = d
  /\ writers' = w
  /\ always' = always \cap s
  /\ ever' = ever \cup s
  /\ UNCHANGED clientVars

Begun(step, k, t) == Append(writers, [step |-> step, key |-> k, tmp |-> t])

PutObject(k, t) ==
  /\ Len(writers) < MaxWriters
  /\ t \notin store
  /\ Files(store \cup {t}, sidecars, Begun("rename", k, t))

(* The body breaks off, or the rename fails: the file is unlinked.         *)
BodyError(i) ==
  /\ writers[i].step = "rename"
  /\ Files(store \ {writers[i].tmp}, sidecars, [writers EXCEPT ![i] = Over])

RenameBody(i) ==
  /\ writers[i].step = "rename"
  /\ Files((store \ {writers[i].tmp}) \cup {writers[i].key}, sidecars,
           [writers EXCEPT ![i].step = "sidecar"])

WriteSidecar(i) ==
  /\ writers[i].step = "sidecar"
  /\ Files(store, sidecars \cup {writers[i].key}, [writers EXCEPT ![i] = Over])

DeleteObject(k) ==
  /\ Len(writers) < MaxWriters
  /\ k \in store
  /\ Files(store \ {k}, sidecars, Begun("unlink", k, None))

DeleteSidecar(i) ==
  /\ writers[i].step = "unlink"
  /\ Files(store, sidecars \ {writers[i].key}, [writers EXCEPT ![i] = Over])

(* The request is dropped, or its next step fails and cleans nothing up: a *)
(* temporary file, a body without sidecar or a sidecar without body stays. *)
CutOff(i) ==
  /\ writers[i] # Over
  /\ Files(store, sidecars, [writers EXCEPT ![i] = Over])

Writer(i) ==
  BodyError(i) \/ RenameBody(i) \/ WriteSidecar(i) \/ DeleteSidecar(i) \/ CutOff(i)

-----------------------------------------------------------------------------
Done == pc = "end" /\ UNCHANGED vars

Init ==
  /\ store \in SUBSET Keys
  /\ sidecars = store
  /\ writers = <<>>
  /\ request \in Requests
  /\ token = None
  /\ page = NoPage
  /\ unread = {}
  /\ pc = "scan"
  /\ objects = <<>>
  /\ prefixes = <<>>
  /\ always = store
  /\ ever = store

Client == Scan \/ ReadSidecar \/ FailPage \/ Deliver

Next ==
  \/ Client
  \/ \E k \in Keys, t \in Temps : PutObject(k, t)
  \/ \E k \in Keys : DeleteObject(k)
  \/ \E i \in DOMAIN writers : Writer(i)
  \/ Done

Spec == Init /\ [][Next]_vars

(* The client keeps asking; nobody has to put or delete, or to finish it.  *)
FairSpec == Spec /\ WF_vars(Client)

-----------------------------------------------------------------------------
(***************************************************************************)
(* Properties.                                                             *)
(***************************************************************************)
(* A key that is in the store throughout the listing is on one of its      *)
(* pages, or its common prefix is, however the pages fall and whatever     *)
(* else is put or deleted between and during them: nothing is skipped (the *)
(* bug CR-01 that the token of a common prefix once had).                  *)
StableKeysAreListed ==
  pc = "end" =>
    /\ Direct(always, request) \subseteq ToSet(objects)
    /\ Collapsed(always, request) \subseteq ToSet(prefixes)

(* No object is listed twice, and they come in order across pages.  Common *)
(* prefixes come in order too, and one comes again on a later page only if *)
(* a key under it appeared while the listing went on.  Nothing is listed   *)
(* that was not there at some time or lacks the prefix, and no temporary   *)
(* file is listed as an object.                                            *)
ListingIsOrdered ==
  /\ \A i, j \in DOMAIN objects : i < j => Before(objects[i], objects[j])
  /\ \A i, j \in DOMAIN prefixes :
       i < j => \/ Before(prefixes[i], prefixes[j])
                \/ /\ prefixes[i] = prefixes[j]
                   /\ prefixes[i] \in Collapsed(ever \ always, request)
  /\ ToSet(objects) \subseteq Direct(ever \cap Keys, request)
  /\ ToSet(prefixes) \subseteq Collapsed(ever, request)

(* Undisturbed, the pages add up to one listing: every object and every    *)
(* common prefix exactly once and in order, whatever the page size.        *)
UndisturbedListingIsExact ==
  pc = "end" /\ writers = <<>> =>
    /\ objects = InOrder(Direct(store, request))
    /\ prefixes = InOrder(Collapsed(store, request))

(* Paging comes to an end if from some time on every file that the listing *)
(* shows as an object has its sidecar.  A torn put or a temporary file     *)
(* left behind breaks that, and its page then fails for ever; outside the  *)
(* prefix or under a common prefix it does no harm.                        *)
ListingEnds == <>[](Direct(store \ sidecars, request) = {}) => <>(pc = "end")

=============================================================================
