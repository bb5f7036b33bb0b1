------------------------------- MODULE Listing -------------------------------
(***************************************************************************)
(* One page of list_objects_v2 (crates/storage/src/list.rs): the sort, the *)
(* filter and the grouping of the keys, the token to go on with.           *)
(*                                                                         *)
(* A key is a sequence of characters, numbered by their UTF-8 order.  The  *)
(* continuation token is the last key the page covers; its base64 form is  *)
(* undone when it comes back.                                              *)
(***************************************************************************)
EXTENDS Naturals, FiniteSets, SequencesExt

CONSTANTS
  PageLimit,    \* the cap on a page (1000 in the code)
  None          \* an absent delimiter or token

ASSUME ListingAssumption ==
  /\ PageLimit \in Nat \ {0}
  /\ None \notin Seq(Nat)

(***************************************************************************)
(* String order, and the first place a delimiter occurs in a string.       *)
(***************************************************************************)
Before(s, t) ==
  \/ IsStrictPrefix(s, t)
  \/ \E i \in 1..Len(s) :
       /\ i <= Len(t)
       /\ s[i] < t[i]
       /\ \A j \in 1..(i - 1) : s[j] = t[j]

OccursAt(s, d) == {i \in 1..Len(s) : IsPrefix(d, SubSeq(s, i, Len(s)))}

FirstOf(S) == CHOOSE i \in S : \A j \in S : i <= j

(* Mutant: the delimiter is looked for in the whole key.                   *)
GroupFromStart(k, q) ==
  LET at == OccursAt(k, q.delimiter)
  IN  IF q.delimiter = None \/ at = {} THEN None
      ELSE SubSeq(k, 1, FirstOf(at) + Len(q.delimiter) - 1)

(***************************************************************************)
(* The CommonPrefix a key collapses into: the prefix and the rest of the   *)
(* key up to and including the first delimiter; None for a direct object.  *)
(***************************************************************************)
Group(k, q) ==
  LET rest == SubSeq(k, Len(q.prefix) + 1, Len(k))
      at   == OccursAt(rest, q.delimiter)
  IN  IF q.delimiter = None \/ at = {} THEN None
      ELSE q.prefix \o SubSeq(rest, 1, FirstOf(at) + Len(q.delimiter) - 1)

(* Mutant: the token's key itself is listed again.                         *)
SelectedInclusive(S, q, after) ==
  {k \in S : (after # None => k = after \/ Before(after, k)) /\ IsPrefix(q.prefix, k)}

(***************************************************************************)
(* The keys after the token that have the prefix.                          *)
(***************************************************************************)
Selected(S, q, after) ==
  {k \in S : (after # None => Before(after, k)) /\ IsPrefix(q.prefix, k)}

IsNext(k, l, S) == Before(k, l) /\ ~\E m \in S : Before(k, m) /\ Before(m, l)

(***************************************************************************)
(* The loop emits an object for every key without a group, and one common  *)
(* prefix for a run of adjacent keys with the same group.  An item is      *)
(* named by the last key that contributed to it.                           *)
(***************************************************************************)
Items(S, q) ==
  {k \in S : Group(k, q) # None => \A l \in S : IsNext(k, l, S) => Group(l, q) # Group(k, q)}

(***************************************************************************)
(* A page: the first items, at most max_keys of them clamped to            *)
(* 1..PageLimit, and a token for the last of them if there are more.       *)
(***************************************************************************)
Clamp(n) == IF n = 0 THEN 1 ELSE IF n > PageLimit THEN PageLimit ELSE n

Rank(k, S) == Cardinality({l \in S : Before(l, k)}) + 1

Page(S, q, after) ==
  LET items == Items(Selected(S, q, after), q)
      shown == {k \in items : Rank(k, items) <= Clamp(q.max)}
  IN  [shown |-> shown,
       next  |-> IF shown = items THEN None
                 ELSE CHOOSE k \in shown : Rank(k, items) = Clamp(q.max)]

ObjectsOf(p, q) == {k \in p.shown : Group(k, q) = None}

PrefixesOf(p, q) == {Group(k, q) : k \in p.shown \ ObjectsOf(p, q)}

(* The sorted sequence of a set: what is i-th in it has rank i.            *)
InOrder(S) == [i \in 1..Cardinality(S) |-> CHOOSE k \in S : Rank(k, S) = i]

-----------------------------------------------------------------------------
(***************************************************************************)
(* The reference: what a listing in one piece would say of a key.  It is   *)
(* in the shortest extension of the prefix that ends with the delimiter.   *)
(***************************************************************************)
Cuts(k, q) ==
  {p \in Prefixes(k) :
     Len(p) >= Len(q.prefix) + Len(q.delimiter) /\ IsSuffix(q.delimiter, p)}

IsDirect(k, q) == q.delimiter = None \/ Cuts(k, q) = {}

Shortest(k, q) == CHOOSE p \in Cuts(k, q) : \A c \in Cuts(k, q) : Len(p) <= Len(c)

Matching(S, q) == {k \in S : IsPrefix(q.prefix, k)}

Direct(S, q) == {k \in Matching(S, q) : IsDirect(k, q)}

Collapsed(S, q) == {Shortest(k, q) : k \in {x \in Matching(S, q) : ~IsDirect(x, q)}}
=============================================================================
