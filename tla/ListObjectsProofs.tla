-------------------------- MODULE ListObjectsProofs --------------------------
(***************************************************************************)
(* Paging through a listing while others put and delete, for any set of    *)
(* keys, any prefix, delimiter and page size.                              *)
(***************************************************************************)
EXTENDS ListObjects, ListingProofs

(***************************************************************************)
(* The pages delivered so far cover the keys up to the token.              *)
(***************************************************************************)
Covered(k) == pc = "end" \/ (token # None /\ UpTo(k, token))

Names == Keys \cup Temps

Writes ==
  [step : {"rename", "sidecar", "unlink"}, key : Keys, tmp : Temps \cup {None}] \cup {Over}

TypeInv ==
  /\ store \in SUBSET Names
  /\ sidecars \in SUBSET Keys
  /\ writers \in Seq(Writes)
  /\ always \in SUBSET store
  /\ ever \in SUBSET Names
  /\ store \in SUBSET ever
  /\ request \in Requests
  /\ token \in Names \cup {None}
  /\ pc \in {"scan", "resolve", "end"}
  /\ objects \in Seq(Strings)
  /\ prefixes \in Seq(Strings)

(* A page under construction is that of a store there was since the        *)
(* listing began; an object of it whose sidecar was read is no temporary   *)
(* file.                                                                   *)
PageInv ==
  pc = "resolve" =>
    /\ ObjectsOf(page, request) \ unread \subseteq Keys
    /\ \E S \in SUBSET Names :
         /\ always \subseteq S
         /\ S \subseteq ever
         /\ writers = <<>> => S = store
         /\ page = Page(S, request, token)

Unchanged == writers = <<>> => always = store /\ ever = store

(* All that is listed was there, and was covered; the objects are in       *)
(* order.                                                                  *)
ListedInv ==
  /\ Sorted(objects)
  /\ \A k \in ToSet(objects) : k \in Keys /\ k \in Direct(ever, request) /\ Covered(k)
  /\ \A g \in ToSet(prefixes) :
       \E k \in Matching(ever, request) : Group(k, request) = g /\ g # None /\ Covered(k)

(* All that was there throughout and is covered has been listed.           *)
CoveredInv ==
  \A k \in Matching(always, request) :
    Covered(k) => /\ Group(k, request) = None => k \in ToSet(objects)
                  /\ Group(k, request) # None => Group(k, request) \in ToSet(prefixes)

(* The token is the last of the keys of its group that were there          *)
(* throughout: the next page begins with another group, or with a key that *)
(* appeared since.                                                         *)
TokenInv ==
  token # None =>
    /\ token \in Matching(ever, request)
    /\ Group(token, request) # None =>
         \A l \in Matching(always, request) :
           Group(l, request) = Group(token, request) => UpTo(l, token)

Renewed(g) == \E k \in Matching(ever \ always, request) : Group(k, request) = g

PrefixesInv ==
  \A i, j \in 1..Len(prefixes) :
    i < j => \/ Before(prefixes[i], prefixes[j])
             \/ prefixes[i] = prefixes[j] /\ Renewed(prefixes[i])

ListInv ==
  TypeInv /\ PageInv /\ Unchanged /\ ListedInv /\ CoveredInv /\ TokenInv /\ PrefixesInv

LEMMA Typed ==
  ASSUME TypeInv
  PROVE  /\ IsQuery(request)
         /\ Names \in SUBSET Strings /\ IsFiniteSet(Names)
         /\ token # None => token \in Strings
         /\ \A S \in SUBSET Names : S \in SUBSET Strings /\ IsFiniteSet(S)
<1>1. IsQuery(request)
  BY ListAssumption DEF TypeInv, Requests, IsQuery, Strings
<1>2. Names \in SUBSET Strings /\ IsFiniteSet(Names)
  BY ListAssumption, FS_Union DEF Strings, Names
<1> QED
  BY <1>1, <1>2, FS_Subset DEF TypeInv

LEMMA InitInv == Init => ListInv
<1> SUFFICES ASSUME Init PROVE ListInv
  OBVIOUS
<1> USE DEF Init
<1>1. TypeInv
  BY DEF TypeInv, Names
<1>2. ToSet(objects) = {} /\ ToSet(prefixes) = {} /\ Sorted(objects) /\ Sorted(prefixes)
  BY DEF ToSet, Sorted
<1>3. \A k : ~Covered(k)
  BY DEF Covered
<1> QED
  BY <1>1, <1>2, <1>3 DEF ListInv, PageInv, Unchanged, ListedInv, CoveredInv, TokenInv, PrefixesInv

LEMMA ScanStep ==
  ASSUME ListInv, Scan
  PROVE  ListInv'
<1> USE DEF Scan, ListInv, fileVars
<1>1. TypeInv'
  BY DEF TypeInv
<1>2. PageInv'
  <2>1. ObjectsOf(page', request) \ unread' = {}
    OBVIOUS
  <2> QED
    BY <2>1 DEF PageInv, TypeInv, Unchanged
<1>3. \A k : Covered(k)' <=> Covered(k)
  BY DEF Covered
<1>4. ListedInv' /\ CoveredInv' /\ TokenInv' /\ PrefixesInv' /\ Unchanged'
  BY <1>3 DEF ListedInv, CoveredInv, TokenInv, PrefixesInv, Renewed, Unchanged
<1> QED
  BY <1>1, <1>2, <1>4

(* Only a key of a client has a sidecar.                                   *)
LEMMA ReadStep ==
  ASSUME ListInv, ReadSidecar
  PROVE  ListInv'
<1> USE DEF ReadSidecar, ListInv, fileVars
<1>1. TypeInv'
  BY DEF TypeInv
<1>2. PageInv'
  <2>1. NextUnread \in Keys
    BY DEF TypeInv
  <2> QED
    BY <2>1 DEF PageInv
<1>3. \A k : Covered(k)' <=> Covered(k)
  BY DEF Covered
<1>4. ListedInv' /\ CoveredInv' /\ TokenInv' /\ PrefixesInv' /\ Unchanged'
  BY <1>3 DEF ListedInv, CoveredInv, TokenInv, PrefixesInv, Renewed, Unchanged
<1> QED
  BY <1>1, <1>2, <1>4

LEMMA FailStep ==
  ASSUME ListInv, FailPage
  PROVE  ListInv'
<1> USE DEF FailPage, NoSidecar, ListInv, fileVars
<1>1. TypeInv' /\ PageInv'
  BY DEF TypeInv, PageInv
<1>2. \A k : Covered(k)' <=> Covered(k)
  BY DEF Covered
<1>3. ListedInv' /\ CoveredInv' /\ TokenInv' /\ PrefixesInv' /\ Unchanged'
  BY <1>2 DEF ListedInv, CoveredInv, TokenInv, PrefixesInv, Renewed, Unchanged
<1> QED
  BY <1>1, <1>3

(* Others put and delete: what was there throughout becomes less, what was *)
(* there at some time more.                                                *)
LEMMA FilesStep ==
  ASSUME ListInv, NEW s \in SUBSET Names, NEW d \in SUBSET Keys, NEW w \in Seq(Writes),
         w # <<>>, Files(s, d, w)
  PROVE  ListInv'
<1> USE DEF Files, ListInv, clientVars
<1>1. TypeInv' /\ writers' # <<>>
  BY DEF TypeInv
<1>2. PageInv'
  <2> SUFFICES ASSUME pc = "resolve"
               PROVE  PageInv'
    BY DEF PageInv
  <2>1. PICK T \in SUBSET Names : /\ always \subseteq T /\ T \subseteq ever
                                  /\ page = Page(T, request, token)
    BY DEF PageInv
  <2>2. ObjectsOf(page, request) \ unread \subseteq Keys
    BY DEF PageInv
  <2> QED
    BY <1>1, <2>1, <2>2 DEF PageInv
<1>3. \A k : Covered(k)' <=> Covered(k)
  BY DEF Covered
<1>4. /\ Direct(ever, request) \subseteq Direct(ever', request)
      /\ Matching(ever, request) \subseteq Matching(ever', request)
      /\ Matching(always', request) \subseteq Matching(always, request)
      /\ Matching(ever \ always, request) \subseteq Matching(ever' \ always', request)
  BY DEF Direct, Matching
<1>5. ListedInv'
  BY <1>3, <1>4 DEF ListedInv
<1>6. CoveredInv' /\ TokenInv'
  BY <1>3, <1>4 DEF CoveredInv, TokenInv
<1>7. PrefixesInv'
  <2>1. \A g : Renewed(g) => Renewed(g)'
    BY <1>4 DEF Renewed
  <2> QED
    BY <2>1 DEF PrefixesInv
<1> QED
  BY <1>1, <1>2, <1>5, <1>6, <1>7 DEF Unchanged

LEMMA WriterStep ==
  ASSUME ListInv,
         \/ \E k \in Keys, t \in Temps : PutObject(k, t)
         \/ \E k \in Keys : DeleteObject(k)
         \/ \E i \in DOMAIN writers : Writer(i)
  PROVE  ListInv'
<1>1. /\ store \in SUBSET Names /\ sidecars \in SUBSET Keys /\ writers \in Seq(Writes)
      /\ Over \in Writes
  BY DEF ListInv, TypeInv, Writes
<1>2. ASSUME NEW k \in Keys, NEW t \in Temps, PutObject(k, t)
      PROVE  ListInv'
  <2>1. [step |-> "rename", key |-> k, tmp |-> t] \in Writes
    BY DEF Writes
  <2>2. Begun("rename", k, t) \in Seq(Writes) /\ Begun("rename", k, t) # <<>>
    BY <1>1, <2>1 DEF Begun
  <2>3. store \cup {t} \in SUBSET Names
    BY <1>1 DEF Names
  <2> QED
    BY <1>1, <1>2, <2>2, <2>3, FilesStep DEF PutObject
<1>3. ASSUME NEW k \in Keys, DeleteObject(k)
      PROVE  ListInv'
  <2>1. [step |-> "unlink", key |-> k, tmp |-> None] \in Writes
    BY DEF Writes
  <2>2. Begun("unlink", k, None) \in Seq(Writes) /\ Begun("unlink", k, None) # <<>>
    BY <1>1, <2>1 DEF Begun
  <2> QED
    BY <1>1, <1>3, <2>2, FilesStep DEF DeleteObject
<1>4. ASSUME NEW i \in DOMAIN writers, Writer(i)
      PROVE  ListInv'
  <2> DEFINE over == [writers EXCEPT ![i] = Over]
             next == [writers EXCEPT ![i].step = "sidecar"]
  <2>1. over \in Seq(Writes) /\ over # <<>>
    BY <1>1
  <2>2. ASSUME RenameBody(i)
        PROVE  writers[i].key \in Keys /\ next \in Seq(Writes) /\ next # <<>>
    <3>1. writers[i].step = "rename" /\ writers[i] \in Writes
      BY <1>1, <2>2 DEF RenameBody
    <3>2. writers[i] \in [step : {"rename", "sidecar", "unlink"}, key : Keys, tmp : Temps \cup {None}]
      BY <3>1 DEF Writes, Over
    <3>3. [writers[i] EXCEPT !.step = "sidecar"] \in Writes
      BY <3>2 DEF Writes
    <3> QED
      BY <1>1, <3>2, <3>3
  <2>3. ASSUME WriteSidecar(i)
        PROVE  writers[i].key \in Keys
    BY <1>1, <2>3 DEF WriteSidecar, Writes, Over
  <2> HIDE DEF over, next
  <2>4. CASE BodyError(i)
    BY <1>1, <2>1, <2>4, FilesStep DEF BodyError, over
  <2>5. CASE RenameBody(i)
    <3>1. (store \ {writers[i].tmp}) \cup {writers[i].key} \in SUBSET Names
      BY <1>1, <2>2, <2>5 DEF Names
    <3> QED
      BY <1>1, <2>2, <2>5, <3>1, FilesStep DEF RenameBody, next
  <2>6. CASE WriteSidecar(i)
    <3>1. sidecars \cup {writers[i].key} \in SUBSET Keys
      BY <1>1, <2>3, <2>6
    <3> QED
      BY <1>1, <2>1, <2>6, <3>1, FilesStep DEF WriteSidecar, over
  <2>7. CASE DeleteSidecar(i)
    BY <1>1, <2>1, <2>7, FilesStep DEF DeleteSidecar, over
  <2>8. CASE CutOff(i)
    BY <1>1, <2>1, <2>8, FilesStep DEF CutOff, over
  <2> QED
    BY <1>4, <2>4, <2>5, <2>6, <2>7, <2>8 DEF Writer
<1> QED
  BY <1>2, <1>3, <1>4

(***************************************************************************)
(* A page is delivered.  It adds the keys between the two tokens.          *)
(***************************************************************************)
LEMMA DeliverCovers ==
  ASSUME ListInv, Deliver, NEW S \in SUBSET Names, page = Page(S, request, token),
         NEW sel, sel = Selected(S, request, token)
  PROVE  /\ \A k : Covered(k)' <=> (page.next # None => UpTo(k, page.next))
         /\ sel = {k \in Matching(S, request) : ~Covered(k)}
         /\ \A k \in Strings : Covered(k) => Covered(k)'
         /\ \A k, l \in Strings : Covered(k) /\ ~Covered(l) => Before(k, l)
<1> USE DEF ListInv, Deliver
<1>1. /\ IsQuery(request) /\ S \in SUBSET Strings /\ IsFiniteSet(S)
      /\ token # None => token \in Strings
  BY Typed
<1>2. \A k : Covered(k) <=> token # None /\ UpTo(k, token)
  BY DEF Covered
<1>3. \A k : Covered(k)' <=> (page.next # None => UpTo(k, page.next))
  BY DEF Covered
<1>4. \A k \in Strings : ~Covered(k) <=> (token # None => Before(token, k))
  BY <1>1, <1>2, BeforeOrder DEF UpTo
<1>5. sel = {k \in Matching(S, request) : ~Covered(k)}
  BY <1>1, <1>4 DEF Selected, Matching
<1>6. page.next # None => page.next \in sel
  BY <1>1, PageIsExact
<1>7. \A k \in Strings : Covered(k) => Covered(k)'
  <2> SUFFICES ASSUME NEW k \in Strings, Covered(k), page.next # None
               PROVE  UpTo(k, page.next)
    BY <1>3
  <2>1. token # None /\ UpTo(k, token) /\ page.next \in Strings /\ Before(token, page.next)
    BY <1>1, <1>2, <1>4, <1>5, <1>6 DEF Matching
  <2> QED
    BY <1>1, <2>1, BeforeOrder DEF UpTo
<1>8. \A k, l \in Strings : Covered(k) /\ ~Covered(l) => Before(k, l)
  BY <1>1, <1>2, <1>4, BeforeOrder DEF UpTo
<1> QED
  BY <1>3, <1>5, <1>7, <1>8

LEMMA DeliverStep ==
  ASSUME ListInv, Deliver
  PROVE  ListInv'
<1> USE DEF ListInv
<1>1. PICK S \in SUBSET Names : /\ always \subseteq S /\ S \subseteq ever
                                /\ page = Page(S, request, token)
  BY DEF PageInv, Deliver
<1> DEFINE sel == Selected(S, request, token)
           newObjects == ObjectsOf(page, request)
           newPrefixes == PrefixesOf(page, request)
<1>2. /\ IsQuery(request) /\ S \in SUBSET Strings /\ IsFiniteSet(S)
      /\ always \in SUBSET Strings /\ ever \in SUBSET Strings /\ store \in SUBSET Strings
  BY Typed DEF TypeInv
<1>3. /\ \A k : Covered(k)' <=> (page.next # None => UpTo(k, page.next))
      /\ sel = {k \in Matching(S, request) : ~Covered(k)}
      /\ \A k \in Strings : Covered(k) => Covered(k)'
      /\ \A k, l \in Strings : Covered(k) /\ ~Covered(l) => Before(k, l)
  BY <1>1, DeliverCovers
<1>4. /\ newObjects = {k \in sel : Group(k, request) = None /\ (page.next # None => UpTo(k, page.next))}
      /\ newPrefixes = {Group(k, request) : k \in
           {l \in sel : Group(l, request) # None /\ (page.next # None => UpTo(l, page.next))}}
      /\ page.next # None =>
           /\ page.next \in sel
           /\ Group(page.next, request) # None =>
                \A l \in sel : Group(l, request) = Group(page.next, request) => UpTo(l, page.next)
  BY <1>1, <1>2, PageIsExact
<1>5. /\ newObjects \in SUBSET Strings /\ IsFiniteSet(newObjects)
      /\ newPrefixes \in SUBSET Strings /\ IsFiniteSet(newPrefixes)
  BY <1>1, <1>2, PageSorts
<1>6. /\ InOrder(newObjects) \in Seq(Strings) /\ Sorted(InOrder(newObjects))
      /\ ToSet(InOrder(newObjects)) = newObjects
      /\ InOrder(newPrefixes) \in Seq(Strings) /\ Sorted(InOrder(newPrefixes))
      /\ ToSet(InOrder(newPrefixes)) = newPrefixes
  BY <1>5, InOrderSorts
<1>7. /\ objects' = objects \o InOrder(newObjects)
      /\ prefixes' = prefixes \o InOrder(newPrefixes)
      /\ token' = page.next
      /\ pc' = IF page.next = None THEN "end" ELSE "scan"
      /\ UNCHANGED <<fileVars, request>>
      /\ newObjects \subseteq Keys
  BY DEF Deliver, PageInv
<1> HIDE DEF sel, newObjects, newPrefixes
<1>8. objects \in Seq(Strings) /\ prefixes \in Seq(Strings)
  BY DEF TypeInv
<1>9. /\ objects' \in Seq(Strings) /\ prefixes' \in Seq(Strings)
      /\ ToSet(objects') = ToSet(objects) \cup newObjects
      /\ ToSet(prefixes') = ToSet(prefixes) \cup newPrefixes
  BY <1>6, <1>7, <1>8, ConcatMembers
<1>10. TypeInv'
  <2>1. page.next \in Names \cup {None}
    BY <1>3, <1>4 DEF Matching
  <2> QED
    BY <1>7, <1>9, <2>1 DEF TypeInv, fileVars
<1>11. PageInv' /\ Unchanged'
  BY <1>7 DEF PageInv, Unchanged, fileVars
<1>12. ListedInv'
  <2>1. \A k \in newObjects : k \in Direct(ever, request) /\ ~Covered(k) /\ Covered(k)'
    BY <1>1, <1>2, <1>3, <1>4, ReferenceGroups DEF Matching
  <2>2. \A k \in ToSet(objects) : k \in Strings /\ k \in Direct(ever, request) /\ Covered(k) /\ Covered(k)'
    BY <1>2, <1>3 DEF ListedInv, Direct, Matching
  <2>3. Sorted(objects')
    <3>1. \A x \in ToSet(objects), y \in newObjects : Before(x, y)
      BY <1>3, <1>5, <2>1, <2>2
    <3> QED
      BY <1>6, <1>7, <1>8, <3>1, ConcatSorted DEF ListedInv
  <2>4. \A g \in newPrefixes :
          \E k \in Matching(ever, request) : Group(k, request) = g /\ g # None /\ Covered(k)'
    BY <1>1, <1>3, <1>4 DEF Matching
  <2>5. \A g \in ToSet(prefixes) :
          \E k \in Matching(ever, request) : Group(k, request) = g /\ g # None /\ Covered(k)'
    BY <1>2, <1>3 DEF ListedInv, Matching
  <2> QED
    BY <1>7, <1>9, <2>1, <2>2, <2>3, <2>4, <2>5 DEF ListedInv, fileVars
<1>13. CoveredInv'
  <2> SUFFICES ASSUME NEW k \in Matching(always, request), Covered(k)'
               PROVE  /\ Group(k, request) = None => k \in ToSet(objects')
                      /\ Group(k, request) # None => Group(k, request) \in ToSet(prefixes')
    BY <1>7 DEF CoveredInv, fileVars
  <2>1. CASE Covered(k)
    BY <1>9, <2>1 DEF CoveredInv
  <2>2. CASE ~Covered(k)
    <3>1. k \in sel /\ (page.next # None => UpTo(k, page.next))
      BY <1>1, <1>3, <2>2 DEF Matching
    <3> QED
      BY <1>4, <1>9, <3>1
  <2> QED
    BY <2>1, <2>2
(* A group that is listed again has a key behind the token, which was not  *)
(* there when the token was made.                                          *)
<1>14. ASSUME NEW k \in Matching(ever, request), NEW l \in sel, Covered(k),
              Group(k, request) # None, Group(l, request) = Group(k, request)
       PROVE  Renewed(Group(k, request))
  <2>1. /\ token # None /\ UpTo(k, token) /\ Before(token, l)
        /\ l \in Matching(ever, request)
    BY <1>1, <1>3, <1>14 DEF Covered, Deliver, sel, Selected, Matching
  <2>2. /\ token \in Matching(ever, request)
        /\ Group(token, request) # None =>
             \A x \in Matching(always, request) :
               Group(x, request) = Group(token, request) => UpTo(x, token)
    BY <2>1 DEF TokenInv
  <2>3. \A x \in Matching(ever, request) : x \in Strings /\ IsPrefix(request.prefix, x)
    BY <1>2 DEF Matching
  <2>4. Group(token, request) = Group(k, request)
    <3>1. CASE k = token
      BY <3>1
    <3>2. CASE Before(k, token)
      BY <1>2, <1>14, <2>1, <2>2, <2>3, <3>2, GroupsAdjoin
    <3> QED
      BY <2>1, <3>1, <3>2 DEF UpTo
  <2>5. ~UpTo(l, token)
    BY <2>1, <2>2, <2>3, BeforeOrder DEF UpTo
  <2>6. l \notin always
    BY <1>14, <2>1, <2>2, <2>4, <2>5 DEF Matching
  <2>7. l \in Matching(ever \ always, request)
    BY <2>1, <2>6 DEF Matching
  <2> QED
    BY <1>14, <2>7 DEF Renewed
<1>15. ASSUME NEW g \in ToSet(prefixes), NEW h \in newPrefixes
       PROVE  Before(g, h) \/ (g = h /\ Renewed(g))
  <2>1. PICK k \in Matching(ever, request) : Group(k, request) = g /\ g # None /\ Covered(k)
    BY DEF ListedInv
  <2>2. PICK l \in sel : Group(l, request) = h /\ h # None
    BY <1>4
  <2>3. /\ k \in Strings /\ l \in Strings /\ Before(k, l)
        /\ IsPrefix(request.prefix, k) /\ IsPrefix(request.prefix, l)
    BY <1>2, <1>3, <2>1 DEF Matching
  <2>4. CASE g = h
    BY <1>14, <2>1, <2>2, <2>4
  <2>5. CASE g # h
    BY <1>2, <2>1, <2>2, <2>3, <2>5, GroupsInOrder
  <2> QED
    BY <2>4, <2>5
<1>16. PrefixesInv'
  <2> DEFINE new == InOrder(newPrefixes)
             n == Len(prefixes)
             m == Len(new)
  <2>1. /\ n \in Nat /\ m \in Nat /\ DOMAIN prefixes = 1..n /\ DOMAIN new = 1..m
        /\ Len(prefixes') = n + m
        /\ \A i \in 1..(n + m) : prefixes'[i] = IF i <= n THEN prefixes[i] ELSE new[i - n]
    BY <1>6, <1>7, <1>8, ConcatProperties, LenProperties
  <2>2. \A i \in 1..n : prefixes[i] \in ToSet(prefixes)
    BY <2>1 DEF ToSet
  <2>3. \A i \in 1..m : new[i] \in newPrefixes
    <3>1. \A i \in 1..m : new[i] \in ToSet(new)
      BY <2>1 DEF ToSet
    <3> QED
      BY <1>6, <3>1
  <2>4. \A i, j \in 1..m : i < j => Before(new[i], new[j])
    BY <1>6 DEF Sorted
  <2>5. \A g : Renewed(g)' <=> Renewed(g)
    BY <1>7 DEF Renewed, fileVars
  <2> HIDE DEF new, n, m
  <2> SUFFICES ASSUME NEW i \in 1..(n + m), NEW j \in 1..(n + m), i < j
               PROVE  \/ Before(prefixes'[i], prefixes'[j])
                      \/ prefixes'[i] = prefixes'[j] /\ Renewed(prefixes'[i])
    BY <2>1, <2>5 DEF PrefixesInv
  <2>6. CASE j <= n
    <3>1. i \in 1..n /\ j \in 1..n /\ prefixes'[i] = prefixes[i] /\ prefixes'[j] = prefixes[j]
      BY <2>1, <2>6
    <3> QED
      BY <3>1 DEF PrefixesInv, n
  <2>7. CASE i <= n /\ ~(j <= n)
    <3>1. i \in 1..n /\ j - n \in 1..m /\ prefixes'[i] = prefixes[i] /\ prefixes'[j] = new[j - n]
      BY <2>1, <2>7
    <3> QED
      BY <1>15, <2>2, <2>3, <3>1
  <2>8. CASE ~(i <= n)
    <3>1. /\ i - n \in 1..m /\ j - n \in 1..m /\ i - n < j - n
          /\ prefixes'[i] = new[i - n] /\ prefixes'[j] = new[j - n]
      BY <2>1, <2>8
    <3> QED
      BY <2>4, <3>1
  <2> QED
    BY <2>6, <2>7, <2>8
<1>17. TokenInv'
  <2> SUFFICES ASSUME page.next # None
               PROVE  /\ page.next \in Matching(ever, request)
                      /\ Group(page.next, request) # None =>
                           \A l \in Matching(always, request) :
                             Group(l, request) = Group(page.next, request) => UpTo(l, page.next)
    BY <1>7 DEF TokenInv, fileVars
  <2>1. page.next \in Matching(ever, request)
    BY <1>1, <1>3, <1>4 DEF Matching
  <2>2. ASSUME Group(page.next, request) # None, NEW l \in Matching(always, request),
               Group(l, request) = Group(page.next, request)
        PROVE  UpTo(l, page.next)
    <3>1. CASE Covered(l)
      BY <1>2, <1>3, <3>1 DEF Matching
    <3>2. CASE ~Covered(l)
      <4>1. l \in sel
        BY <1>1, <1>3, <3>2 DEF Matching
      <4> QED
        BY <1>4, <2>2, <4>1
    <3> QED
      BY <3>1, <3>2
  <2> QED
    BY <2>1, <2>2
<1> QED
  BY <1>10, <1>11, <1>12, <1>13, <1>16, <1>17

LEMMA ListInvariant == Spec => []ListInv
<1>1. ASSUME ListInv, [Next]_vars
      PROVE  ListInv'
  <2>1. CASE Scan
    BY <1>1, <2>1, ScanStep
  <2>2. CASE Deliver
    BY <1>1, <2>2, DeliverStep
  <2>3. CASE FailPage
    BY <1>1, <2>3, FailStep
  <2>4. CASE ReadSidecar
    BY <1>1, <2>4, ReadStep
  <2>5. CASE \/ \E k \in Keys, t \in Temps : PutObject(k, t)
             \/ \E k \in Keys : DeleteObject(k)
             \/ \E i \in DOMAIN writers : Writer(i)
    BY <1>1, <2>5, WriterStep
  <2>6. CASE UNCHANGED vars
    BY <1>1, <2>6 DEF vars, fileVars, clientVars, ListInv, TypeInv, PageInv, Unchanged, ListedInv,
       CoveredInv, TokenInv, PrefixesInv, Renewed, Covered
  <2> QED
    BY <1>1, <2>1, <2>2, <2>3, <2>4, <2>5, <2>6 DEF Next, Client, Done
<1> QED
  BY <1>1, InitInv, PTL DEF Spec

-----------------------------------------------------------------------------
(* Every key that is in the store throughout the listing is on at least    *)
(* one of its pages, itself or as its common prefix, for any set of keys,  *)
(* prefix, delimiter and page size, however often others put and delete.   *)
THEOREM StableKeysAreAlwaysListed == Spec => []StableKeysAreListed
<1>1. ListInv => StableKeysAreListed
  <2> SUFFICES ASSUME ListInv, pc = "end"
               PROVE  /\ Direct(always, request) \subseteq ToSet(objects)
                      /\ Collapsed(always, request) \subseteq ToSet(prefixes)
    BY DEF StableKeysAreListed
  <2>1. always \in SUBSET Strings /\ IsQuery(request)
    BY Typed DEF ListInv, TypeInv
  <2>2. \A k \in Matching(always, request) :
          /\ Group(k, request) = None => k \in ToSet(objects)
          /\ Group(k, request) # None => Group(k, request) \in ToSet(prefixes)
    BY DEF ListInv, CoveredInv, Covered
  <2>3. /\ Direct(always, request) = {k \in Matching(always, request) : Group(k, request) = None}
        /\ Collapsed(always, request) =
             {Group(k, request) : k \in {l \in Matching(always, request) : Group(l, request) # None}}
    BY <2>1, ReferenceGroups
  <2> QED
    BY <2>2, <2>3
<1> QED
  BY <1>1, ListInvariant, PTL

(* Across all its pages a listing is in string order and has no key twice, *)
(* and a common prefix again only if a key under it appeared meanwhile;    *)
(* nothing is listed that was not there at some time, and no temporary     *)
(* file as an object.                                                      *)
THEOREM ListingIsAlwaysOrdered == Spec => []ListingIsOrdered
<1>1. ListInv => ListingIsOrdered
  <2> SUFFICES ASSUME ListInv
               PROVE  ListingIsOrdered
    OBVIOUS
  <2>1. /\ ever \in SUBSET Strings /\ ever \cap Keys \in SUBSET Strings
        /\ ever \ always \in SUBSET Strings
        /\ IsQuery(request)
        /\ DOMAIN objects = 1..Len(objects) /\ DOMAIN prefixes = 1..Len(prefixes)
        /\ prefixes \in Seq(Strings)
    BY Typed DEF ListInv, TypeInv
  <2>2. \A i, j \in DOMAIN objects : i < j => Before(objects[i], objects[j])
    BY <2>1 DEF ListInv, ListedInv, Sorted
  <2>3. ToSet(objects) \subseteq Direct(ever \cap Keys, request)
    BY DEF ListInv, ListedInv, Direct, Matching
  <2>4. ToSet(prefixes) \subseteq Collapsed(ever, request)
    BY <2>1, ReferenceGroups DEF ListInv, ListedInv
  <2>5. \A g \in Strings : Renewed(g) => g \in Collapsed(ever \ always, request)
    <3>1. None \notin Strings
      BY ListingAssumption DEF Strings
    <3> QED
      BY <2>1, <3>1, ReferenceGroups DEF Renewed
  <2>6. \A i, j \in DOMAIN prefixes :
          i < j => \/ Before(prefixes[i], prefixes[j])
                   \/ /\ prefixes[i] = prefixes[j]
                      /\ prefixes[i] \in Collapsed(ever \ always, request)
    <3> SUFFICES ASSUME NEW i \in 1..Len(prefixes), NEW j \in 1..Len(prefixes), i < j
                 PROVE  \/ Before(prefixes[i], prefixes[j])
                        \/ /\ prefixes[i] = prefixes[j]
                           /\ prefixes[i] \in Collapsed(ever \ always, request)
      BY <2>1
    <3>1. prefixes[i] \in Strings
      BY <2>1
    <3>2. Before(prefixes[i], prefixes[j]) \/ (prefixes[i] = prefixes[j] /\ Renewed(prefixes[i]))
      BY DEF ListInv, PrefixesInv
    <3> QED
      BY <2>5, <3>1, <3>2
  <2> QED
    BY <2>2, <2>3, <2>4, <2>6 DEF ListingIsOrdered
<1> QED
  BY <1>1, ListInvariant, PTL

(* When nobody puts or deletes, the pages add up to the listing in one     *)
(* piece, exactly: every object and every common prefix once, in order,    *)
(* whatever the page size.                                                 *)
THEOREM UndisturbedListingIsAlwaysExact == Spec => []UndisturbedListingIsExact
<1>1. ListInv => UndisturbedListingIsExact
  <2> SUFFICES ASSUME ListInv, pc = "end", writers = <<>>
               PROVE  /\ objects = InOrder(Direct(store, request))
                      /\ prefixes = InOrder(Collapsed(store, request))
    BY DEF UndisturbedListingIsExact
  <2> DEFINE D == Direct(store, request)
             C == Collapsed(store, request)
  <2>1. /\ IsQuery(request) /\ store \in SUBSET Strings /\ IsFiniteSet(store)
        /\ always = store /\ ever = store
        /\ objects \in Seq(Strings) /\ prefixes \in Seq(Strings)
        /\ Sorted(objects) /\ Sorted(prefixes)
    <3>1. always = store /\ ever = store
      BY DEF ListInv, Unchanged
    <3>2. \A g : ~Renewed(g)
      BY <3>1 DEF Renewed, Matching
    <3>3. Sorted(prefixes)
      BY <3>2 DEF ListInv, PrefixesInv, Sorted
    <3> QED
      BY <3>1, <3>3, Typed DEF ListInv, TypeInv, ListedInv
  <2>2. /\ D = {k \in Matching(store, request) : Group(k, request) = None}
        /\ C = {Group(k, request) : k \in {l \in Matching(store, request) : Group(l, request) # None}}
    BY <2>1, ReferenceGroups
  <2>3. \A k \in Matching(store, request) :
          /\ Group(k, request) = None => k \in ToSet(objects)
          /\ Group(k, request) # None => Group(k, request) \in ToSet(prefixes)
    BY <2>1 DEF ListInv, CoveredInv, Covered
  <2>4. /\ \A k \in ToSet(objects) : k \in D
        /\ \A g \in ToSet(prefixes) :
             \E k \in Matching(store, request) : Group(k, request) = g /\ g # None
    BY <2>1 DEF ListInv, ListedInv
  <2> HIDE DEF D, C
  <2>5. ToSet(objects) = D /\ ToSet(prefixes) = C
    BY <2>2, <2>3, <2>4
  <2>6. D \in SUBSET Strings /\ IsFiniteSet(D)
    <3>1. D \in SUBSET store
      BY <2>2 DEF Matching
    <3> QED
      BY <2>1, <3>1, FS_Subset
  <2>7. C \in SUBSET Strings /\ IsFiniteSet(C)
    <3>1. ToSet(prefixes) \in SUBSET Strings /\ DOMAIN prefixes = 1..Len(prefixes)
          /\ Len(prefixes) \in Nat
      BY <2>1 DEF ToSet
    <3>2. prefixes \in Surjection(1..Len(prefixes), ToSet(prefixes))
      BY <2>1, <3>1 DEF Surjection, ToSet
    <3>3. IsFiniteSet(1..Len(prefixes))
      BY <3>1, FS_Interval
    <3> QED
      BY <2>5, <3>1, <3>2, <3>3, FS_Surjection
  <2>8. objects = InOrder(D)
    BY <2>1, <2>5, <2>6, InOrderIs
  <2>9. prefixes = InOrder(C)
    BY <2>1, <2>5, <2>7, InOrderIs
  <2> QED
    BY <2>8, <2>9 DEF D, C
<1> QED
  BY <1>1, ListInvariant, PTL
=============================================================================
