--------------------------- MODULE ListingProofs ---------------------------
(***************************************************************************)
(* What Listing computes: string order is a total order, ranks number a    *)
(* finite set along it, Group is the shortest cut behind a delimiter, and  *)
(* a page is an initial segment of the items behind its token.             *)
(***************************************************************************)
EXTENDS Listing, FiniteSetTheorems, SequenceTheorems, WellFoundedInduction, TLAPS

Strings == Seq(Nat)

(***************************************************************************)
(* Prefixes, place by place.                                               *)
(***************************************************************************)
LEMMA PrefixPlaces ==
  ASSUME NEW s \in Strings, NEW t \in Strings
  PROVE  IsPrefix(s, t) <=> Len(s) <= Len(t) /\ \A i \in 1..Len(s) : s[i] = t[i]
<1> USE DEF Strings
<1>1. Len(s) \in Nat /\ Len(t) \in Nat /\ SubSeq(s, 1, Len(s)) = s
  BY SubSeqFull
<1>2. ASSUME Len(s) <= Len(t)
      PROVE  /\ SubSeq(t, 1, Len(s)) \in Seq(Nat)
             /\ Len(SubSeq(t, 1, Len(s))) = Len(s)
             /\ \A i \in 1..Len(s) : SubSeq(t, 1, Len(s))[i] = t[i]
  BY <1>1, <1>2
<1> QED
  BY <1>1, <1>2, SeqEqual DEF IsPrefix

(* Every set of numbers that is not empty has a least one.                 *)
LEMMA LeastNumber ==
  ASSUME NEW T \in SUBSET Nat, T # {}
  PROVE  \E n \in T : \A m \in T : n <= m
<1> DEFINE R == {p \in Nat \X Nat : p[1] < p[2]}
<1>1. IsWellFoundedOn(R, Nat)
  BY NatLessThanWellFounded DEF OpToRel
<1>2. \A m, n \in Nat : m < n => <<m, n>> \in R
  OBVIOUS
<1> HIDE DEF R
<1>3. PICK n \in T : \A m \in T : ~(<<m, n>> \in R)
  BY <1>1, WFMin
<1>4. \A m \in T : ~(m < n)
  BY <1>2, <1>3
<1> QED
  BY <1>4

(* Two strings that differ have a first place where they do, or one is a   *)
(* prefix of the other.                                                    *)
LEMMA FirstDifference ==
  ASSUME NEW s \in Strings, NEW t \in Strings, s # t
  PROVE  \/ IsStrictPrefix(s, t)
         \/ IsStrictPrefix(t, s)
         \/ \E i \in 1..Len(s) : /\ i <= Len(t)
                                 /\ s[i] # t[i]
                                 /\ \A j \in 1..(i - 1) : s[j] = t[j]
<1> DEFINE T == {i \in 1..Len(s) : i <= Len(t) /\ s[i] # t[i]}
<1>1. Len(s) \in Nat /\ Len(t) \in Nat
  BY DEF Strings
<1>2. CASE T = {}
  <2>1. \A i \in 1..Len(s) : i <= Len(t) => s[i] = t[i]
    BY <1>2
  <2> QED
    BY <1>1, <2>1, PrefixPlaces DEF IsStrictPrefix
<1>3. CASE T # {}
  <2>1. T \in SUBSET Nat
    BY <1>1
  <2>2. PICK i \in T : \A m \in T : i <= m
    BY <1>3, <2>1, LeastNumber
  <2>3. \A j \in 1..(i - 1) : s[j] = t[j]
    BY <1>1, <2>2
  <2> QED
    BY <2>2, <2>3
<1> QED
  BY <1>2, <1>3

(***************************************************************************)
(* Before is a strict total order.  Where Splits holds of n, the strings   *)
(* agree up to place n and s ends there or is the smaller one behind it.   *)
(***************************************************************************)
Splits(s, t, n) ==
  /\ n <= Len(s)
  /\ n < Len(t)
  /\ \A j \in 1..n : s[j] = t[j]
  /\ n < Len(s) => s[n + 1] < t[n + 1]

LEMMA BeforeSplits ==
  ASSUME NEW s \in Strings, NEW t \in Strings
  PROVE  Before(s, t) <=> \E n \in Nat : Splits(s, t, n)
<1>1. Len(s) \in Nat /\ Len(t) \in Nat
  BY DEF Strings
<1>2. ASSUME IsStrictPrefix(s, t)
      PROVE  \E n \in Nat : Splits(s, t, n)
  <2>1. Len(s) <= Len(t) /\ \A i \in 1..Len(s) : s[i] = t[i]
    BY <1>2, PrefixPlaces DEF IsStrictPrefix
  <2>2. Len(s) # Len(t)
    BY <1>2, <2>1, SeqEqual DEF IsStrictPrefix, Strings
  <2>3. Splits(s, t, Len(s))
    BY <1>1, <2>1, <2>2 DEF Splits
  <2> QED
    BY <1>1, <2>3
<1>3. ASSUME NEW i \in 1..Len(s), i <= Len(t), s[i] < t[i], \A j \in 1..(i - 1) : s[j] = t[j]
      PROVE  \E n \in Nat : Splits(s, t, n)
  <2>1. Splits(s, t, i - 1) /\ i - 1 \in Nat
    BY <1>1, <1>3 DEF Splits
  <2> QED
    BY <2>1
<1>4. ASSUME NEW n \in Nat, Splits(s, t, n)
      PROVE  Before(s, t)
  <2>1. CASE n = Len(s)
    <3>1. IsPrefix(s, t) /\ s # t
      BY <1>1, <1>4, <2>1, PrefixPlaces DEF Splits
    <3> QED
      BY <3>1 DEF Before, IsStrictPrefix
  <2>2. CASE n < Len(s)
    <3>1. /\ n + 1 \in 1..Len(s)
          /\ n + 1 <= Len(t)
          /\ s[n + 1] < t[n + 1]
          /\ \A j \in 1..((n + 1) - 1) : s[j] = t[j]
      BY <1>1, <1>4, <2>2 DEF Splits
    <3> QED
      BY <3>1 DEF Before
  <2> QED
    BY <1>1, <1>4, <2>1, <2>2 DEF Splits
<1> QED
  BY <1>2, <1>3, <1>4 DEF Before

LEMMA BeforeIrreflexive ==
  ASSUME NEW s \in Strings
  PROVE  ~Before(s, s)
<1>1. \A i \in 1..Len(s) : s[i] \in Nat
  BY DEF Strings
<1>2. Len(s) \in Nat
  BY DEF Strings
<1>3. \A n \in Nat : ~Splits(s, s, n)
  BY <1>1, <1>2 DEF Splits
<1> QED
  BY <1>3, BeforeSplits

LEMMA BeforeTransitive ==
  ASSUME NEW s \in Strings, NEW t \in Strings, NEW u \in Strings, Before(s, t), Before(t, u)
  PROVE  Before(s, u)
<1>1. /\ Len(s) \in Nat /\ Len(t) \in Nat /\ Len(u) \in Nat
      /\ \A i \in 1..Len(s) : s[i] \in Nat
      /\ \A i \in 1..Len(t) : t[i] \in Nat
      /\ \A i \in 1..Len(u) : u[i] \in Nat
  BY DEF Strings
<1>2. PICK n \in Nat : Splits(s, t, n)
  BY BeforeSplits
<1>3. PICK m \in Nat : Splits(t, u, m)
  BY BeforeSplits
<1>4. CASE n <= m
  <2>1. n <= Len(s) /\ n < Len(u) /\ \A j \in 1..n : s[j] = u[j]
    BY <1>1, <1>2, <1>3, <1>4 DEF Splits
  <2>2. ASSUME n < Len(s)
        PROVE  s[n + 1] < u[n + 1]
    <3>1. s[n + 1] < t[n + 1] /\ n + 1 \in 1..Len(t)
      BY <1>1, <1>2, <2>2 DEF Splits
    <3>2. CASE n = m
      BY <1>1, <1>3, <2>1, <2>2, <3>1, <3>2 DEF Splits
    <3>3. CASE n < m
      BY <1>1, <1>3, <2>1, <2>2, <3>1, <3>3 DEF Splits
    <3> QED
      BY <1>4, <3>2, <3>3
  <2>3. Splits(s, u, n)
    BY <2>1, <2>2 DEF Splits
  <2> QED
    BY <2>3, BeforeSplits
<1>5. CASE m < n
  <2>1. Splits(s, u, m)
    BY <1>1, <1>2, <1>3, <1>5 DEF Splits
  <2> QED
    BY <2>1, BeforeSplits
<1> QED
  BY <1>4, <1>5

LEMMA BeforeTotal ==
  ASSUME NEW s \in Strings, NEW t \in Strings, s # t
  PROVE  Before(s, t) \/ Before(t, s)
<1>1. /\ Len(s) \in Nat /\ Len(t) \in Nat
      /\ \A i \in 1..Len(s) : s[i] \in Nat
      /\ \A i \in 1..Len(t) : t[i] \in Nat
  BY DEF Strings
<1>2. ASSUME NEW i \in 1..Len(s), i <= Len(t), s[i] # t[i], \A j \in 1..(i - 1) : s[j] = t[j]
      PROVE  Before(s, t) \/ Before(t, s)
  <2>1. i \in 1..Len(t) /\ (s[i] < t[i] \/ t[i] < s[i])
    BY <1>1, <1>2
  <2> QED
    BY <1>1, <1>2, <2>1 DEF Before
<1> QED
  BY <1>2, FirstDifference DEF Before

(* The order as one fact, for any set of strings.                          *)
LEMMA BeforeOrder ==
  /\ \A s \in Strings : ~Before(s, s)
  /\ \A s, t, u \in Strings : Before(s, t) /\ Before(t, u) => Before(s, u)
  /\ \A s, t \in Strings : s # t => Before(s, t) \/ Before(t, s)
  /\ \A s, t \in Strings : Before(s, t) => ~Before(t, s)
BY BeforeIrreflexive, BeforeTransitive, BeforeTotal

-----------------------------------------------------------------------------
(***************************************************************************)
(* Ranks.  The rank of a member is one more than the number of those       *)
(* before it: ranks follow the order and leave out no number.              *)
(***************************************************************************)
Below(k, S) == {l \in S : Before(l, k)}

LEMMA RankRange ==
  ASSUME NEW S \in SUBSET Strings, IsFiniteSet(S), NEW k
  PROVE  /\ IsFiniteSet(Below(k, S)) /\ Cardinality(Below(k, S)) \in Nat
         /\ Rank(k, S) = Cardinality(Below(k, S)) + 1
         /\ Rank(k, S) \in Nat \ {0}
         /\ k \in S => Rank(k, S) <= Cardinality(S)
<1>1. Below(k, S) \in SUBSET S
  BY DEF Below
<1>2. /\ IsFiniteSet(Below(k, S))
      /\ Cardinality(Below(k, S)) <= Cardinality(S)
      /\ Cardinality(S) = Cardinality(Below(k, S)) => S = Below(k, S)
  BY <1>1, FS_Subset
<1>3. Cardinality(Below(k, S)) \in Nat /\ Cardinality(S) \in Nat
  BY <1>2, FS_CardinalityType
<1>4. Rank(k, S) = Cardinality(Below(k, S)) + 1
  BY DEF Rank, Below
<1>5. k \in S => Below(k, S) # S
  BY BeforeOrder DEF Below
<1> QED
  BY <1>2, <1>3, <1>4, <1>5

LEMMA RankFollowsOrder ==
  ASSUME NEW S \in SUBSET Strings, IsFiniteSet(S), NEW k \in S, NEW l \in S
  PROVE  /\ Before(k, l) <=> Rank(k, S) < Rank(l, S)
         /\ Rank(k, S) = Rank(l, S) => k = l
<1>1. ASSUME NEW x \in S, NEW y \in S, Before(x, y)
      PROVE  Rank(x, S) < Rank(y, S)
  <2>1. /\ Below(x, S) \in SUBSET Below(y, S)
        /\ Below(x, S) # Below(y, S)
    BY <1>1, BeforeOrder DEF Below
  <2>2. IsFiniteSet(Below(y, S))
    BY RankRange
  <2>3. /\ Cardinality(Below(x, S)) <= Cardinality(Below(y, S))
        /\ Cardinality(Below(x, S)) # Cardinality(Below(y, S))
    BY <2>1, <2>2, FS_Subset
  <2> QED
    BY <2>3, RankRange
<1>2. Rank(k, S) \in Nat /\ Rank(l, S) \in Nat
  BY RankRange
<1>3. k = l \/ Before(k, l) \/ Before(l, k)
  BY BeforeOrder
<1> QED
  BY <1>1, <1>2, <1>3

LEMMA LeastString ==
  ASSUME NEW S \in SUBSET Strings, IsFiniteSet(S), S # {}
  PROVE  \E x \in S : \A y \in S : y = x \/ Before(x, y)
<1> DEFINE R == {Rank(k, S) : k \in S}
<1>1. R \in SUBSET Nat /\ R # {}
  BY RankRange
<1>2. PICK n \in R : \A m \in R : n <= m
  BY <1>1, LeastNumber
<1>3. PICK x \in S : n = Rank(x, S)
  BY <1>2
<1>4. \A y \in S : ~Before(y, x)
  <2> TAKE y \in S
  <2>1. n <= Rank(y, S) /\ n \in Nat /\ Rank(y, S) \in Nat
    BY <1>1, <1>2
  <2> QED
    BY <1>3, <2>1, RankFollowsOrder
<1> QED
  BY <1>4, BeforeOrder

LEMMA GreatestString ==
  ASSUME NEW S \in SUBSET Strings, IsFiniteSet(S), S # {}
  PROVE  \E x \in S : \A y \in S : y = x \/ Before(y, x)
<1> DEFINE R == {Cardinality(S) - Rank(k, S) : k \in S}
<1>1. Cardinality(S) \in Nat
  BY FS_CardinalityType
<1>2. R \in SUBSET Nat /\ R # {}
  BY <1>1, RankRange
<1>3. PICK n \in R : \A m \in R : n <= m
  BY <1>2, LeastNumber
<1>4. PICK x \in S : n = Cardinality(S) - Rank(x, S)
  BY <1>3
<1>5. \A y \in S : ~Before(x, y)
  <2> TAKE y \in S
  <2>1. n <= Cardinality(S) - Rank(y, S) /\ Rank(x, S) \in Nat /\ Rank(y, S) \in Nat
    BY <1>3, RankRange
  <2> QED
    BY <1>1, <1>4, <2>1, RankFollowsOrder
<1> QED
  BY <1>5, BeforeOrder

(* Where a rank is exceeded, it occurs.                                    *)
LEMMA RankOccurs ==
  ASSUME NEW S \in SUBSET Strings, IsFiniteSet(S), NEW c \in Nat \ {0}, NEW k \in S, Rank(k, S) > c
  PROVE  \E x \in S : Rank(x, S) = c
<1> DEFINE T == {l \in S : Rank(l, S) > c}
<1>1. \A l \in S : Rank(l, S) \in Nat \ {0} /\ l \in Strings
  BY RankRange
<1>2. T \in SUBSET Strings /\ IsFiniteSet(T) /\ T # {}
  BY FS_Subset
<1>3. PICK m \in T : \A y \in T : y = m \/ Before(m, y)
  BY <1>2, LeastString
<1>4. Below(m, S) = S \ T
  <2>1. ASSUME NEW l \in S, l \notin T
        PROVE  Before(l, m)
    BY <1>1, <1>3, <2>1, RankFollowsOrder
  <2>2. ASSUME NEW l \in T
        PROVE  ~Before(l, m)
    BY <1>1, <1>3, BeforeOrder
  <2> QED
    BY <2>1, <2>2 DEF Below
<1>5. /\ IsFiniteSet(Below(m, S))
      /\ Rank(m, S) = Cardinality(Below(m, S)) + 1
      /\ Cardinality(Below(m, S)) \in Nat
  BY RankRange
<1>6. Below(m, S) # {}
  BY <1>3, <1>5, FS_EmptySet
<1>7. PICK x \in Below(m, S) : \A y \in Below(m, S) : y = x \/ Before(y, x)
  <2>1. Below(m, S) \in SUBSET Strings
    BY DEF Below
  <2> QED
    BY <1>5, <1>6, <2>1, GreatestString
<1>8. x \in S /\ ~(Rank(x, S) > c)
  BY <1>4, <1>7
<1>9. Below(x, S) = Below(m, S) \ {x}
  <2>1. \A y \in S : Before(y, x) => Before(y, m)
    BY <1>1, <1>3, <1>7, <1>8, BeforeOrder DEF Below
  <2> QED
    BY <1>1, <1>7, <1>8, <2>1, BeforeOrder DEF Below
<1>10. Cardinality(Below(x, S)) = Cardinality(Below(m, S)) - 1
  <2>1. Cardinality(Below(m, S) \ {x}) = Cardinality(Below(m, S)) - 1
    BY <1>5, <1>7, FS_RemoveElement
  <2> QED
    BY <1>9, <2>1
<1>11. Rank(x, S) = Cardinality(Below(x, S)) + 1 /\ Rank(x, S) \in Nat /\ Rank(m, S) > c
  BY <1>3, <1>8, RankRange
<1>12. Rank(x, S) = c
  BY <1>5, <1>8, <1>10, <1>11
<1> QED
  BY <1>8, <1>12

LEMMA RankOnto ==
  ASSUME NEW S \in SUBSET Strings, IsFiniteSet(S), NEW i \in 1..Cardinality(S)
  PROVE  \E x \in S : Rank(x, S) = i
<1>1. Cardinality(S) \in Nat /\ S # {}
  BY FS_CardinalityType, FS_EmptySet
<1>2. PICK g \in S : \A y \in S : y = g \/ Before(y, g)
  BY <1>1, GreatestString
<1>3. Below(g, S) = S \ {g}
  BY <1>2, BeforeOrder DEF Below
<1>4. Cardinality(S \ {g}) = Cardinality(S) - 1
  BY FS_RemoveElement
<1>5. Rank(g, S) = Cardinality(S)
  <2>1. Rank(g, S) = Cardinality(Below(g, S)) + 1
    BY RankRange
  <2> QED
    BY <1>1, <1>3, <1>4, <2>1
<1>6. CASE i = Cardinality(S)
  BY <1>5, <1>6
<1>7. CASE i # Cardinality(S)
  BY <1>1, <1>5, <1>7, RankOccurs
<1> QED
  BY <1>6, <1>7

(***************************************************************************)
(* Sorted sequences.  There is one for each finite set, InOrder of it.     *)
(***************************************************************************)
Sorted(s) == \A i, j \in 1..Len(s) : i < j => Before(s[i], s[j])

LEMMA InOrderSorts ==
  ASSUME NEW S \in SUBSET Strings, IsFiniteSet(S)
  PROVE  /\ InOrder(S) \in Seq(S)
         /\ InOrder(S) \in Seq(Strings)
         /\ ToSet(InOrder(S)) = S
         /\ Sorted(InOrder(S))
<1> DEFINE o == InOrder(S)
           n == Cardinality(S)
<1>1. n \in Nat
  BY FS_CardinalityType
<1>2. o = [i \in 1..n |-> CHOOSE k \in S : Rank(k, S) = i]
  BY DEF InOrder
<1>3. \A i \in 1..n : o[i] \in S /\ Rank(o[i], S) = i
  <2> TAKE i \in 1..n
  <2>1. \E x \in S : Rank(x, S) = i
    BY RankOnto
  <2> QED
    BY <1>2, <2>1
<1>4. o \in Seq(S) /\ Len(o) = n /\ DOMAIN o = 1..n
  <2>1. o \in [1..n -> S]
    BY <1>2, <1>3
  <2> QED
    BY <1>1, <2>1
<1> HIDE DEF o
<1>5. o \in Seq(Strings)
  BY <1>4, SeqMonotonic
<1>6. \A k \in S : \E i \in 1..n : o[i] = k
  <2> TAKE k \in S
  <2>1. Rank(k, S) \in 1..n
    BY <1>1, RankRange
  <2>2. o[Rank(k, S)] = k
    BY <1>3, <2>1, RankFollowsOrder
  <2> QED
    BY <2>1, <2>2
<1>7. ToSet(o) = S
  BY <1>3, <1>4, <1>6 DEF ToSet
<1>8. Sorted(o)
  <2> SUFFICES ASSUME NEW i \in 1..n, NEW j \in 1..n, i < j
               PROVE  Before(o[i], o[j])
    BY <1>4 DEF Sorted
  <2> QED
    BY <1>3, RankFollowsOrder
<1> QED
  BY <1>4, <1>5, <1>7, <1>8 DEF o

LEMMA SortedUnique ==
  ASSUME NEW s \in Seq(Strings), NEW t \in Seq(Strings),
         Sorted(s), Sorted(t), ToSet(s) = ToSet(t)
  PROVE  s = t
<1> DEFINE Equal(i) == i <= Len(s) /\ i <= Len(t) /\ s[i] = t[i]
           D == {i \in 1..Len(s) \cup 1..Len(t) : ~Equal(i)}
<1>1. /\ Len(s) \in Nat /\ DOMAIN s = 1..Len(s)
      /\ Len(t) \in Nat /\ DOMAIN t = 1..Len(t)
      /\ \A i \in 1..Len(s) : s[i] \in Strings
      /\ \A i \in 1..Len(t) : t[i] \in Strings
  OBVIOUS
<1>2. CASE D = {}
  <2>1. \A i \in 1..Len(s) \cup 1..Len(t) : Equal(i)
    BY <1>2
  <2>2. Len(s) = Len(t)
    <3>1. Len(s) # 0 => Equal(Len(s))
      <4>1. Len(s) # 0 => Len(s) \in 1..Len(s) \cup 1..Len(t)
        BY <1>1
      <4> QED
        BY <2>1, <4>1
    <3>2. Len(t) # 0 => Equal(Len(t))
      <4>1. Len(t) # 0 => Len(t) \in 1..Len(s) \cup 1..Len(t)
        BY <1>1
      <4> QED
        BY <2>1, <4>1
    <3>3. Len(s) <= Len(t)
      BY <1>1, <3>1
    <3>4. Len(t) <= Len(s)
      BY <1>1, <3>2
    <3>5. \A m, n \in Nat : m <= n /\ n <= m => m = n
      OBVIOUS
    <3>6. Len(s) \in Nat /\ Len(t) \in Nat
      BY <1>1
    <3> QED
      BY ONLY <3>3, <3>4, <3>5, <3>6, Zenon
  <2> QED
    BY <2>1, <2>2, SeqEqual
<1>3. CASE D # {}
  <2>1. D \in SUBSET Nat
    BY <1>1
  <2>2. PICK i \in D : \A m \in D : i <= m
    BY <1>3, <2>1, LeastNumber
  <2>3. \A j \in 1..(i - 1) : Equal(j)
    BY <1>1, <2>2
  <2>4. i \in Nat \ {0}
    BY <2>2
  <2>5. ASSUME NEW u \in Seq(Strings), NEW v \in Seq(Strings),
               Sorted(u), Sorted(v), i \in 1..Len(u), ToSet(u) = ToSet(v),
               \A j \in 1..(i - 1) : j <= Len(v) /\ u[j] = v[j]
        PROVE  i <= Len(v) /\ (v[i] = u[i] \/ Before(v[i], u[i]))
    <3>0. DOMAIN u = 1..Len(u) /\ DOMAIN v = 1..Len(v)
      BY <2>5, LenProperties
    <3>1. u[i] \in ToSet(v)
      BY <2>5, <3>0 DEF ToSet
    <3>2. PICK j \in 1..Len(v) : v[j] = u[i]
      BY <3>0, <3>1 DEF ToSet
    <3>3. ~(j < i)
      <4> SUFFICES ASSUME j < i PROVE FALSE
        OBVIOUS
      <4>1. j \in 1..(i - 1) /\ j \in 1..Len(u)
        BY <2>4, <2>5
      <4>2. Before(u[j], u[i]) /\ u[j] = u[i] /\ u[i] \in Strings
        BY <2>5, <3>2, <4>1 DEF Sorted
      <4> QED
        BY <4>2, BeforeOrder
    <3>4. i \in 1..Len(v)
      BY <2>4, <3>2, <3>3
    <3> QED
      BY <2>4, <2>5, <3>2, <3>3, <3>4 DEF Sorted
  <2>6. i \in 1..Len(s) => i <= Len(t) /\ (t[i] = s[i] \/ Before(t[i], s[i]))
    BY <2>3, <2>5
  <2>7. i \in 1..Len(t) => i <= Len(s) /\ (s[i] = t[i] \/ Before(s[i], t[i]))
    BY <2>3, <2>5
  <2>8. i \in 1..Len(s) /\ i \in 1..Len(t)
    BY <1>1, <2>2, <2>4, <2>6, <2>7
  <2>9. s[i] = t[i]
    BY <1>1, <2>6, <2>7, <2>8, BeforeOrder
  <2> QED
    BY <2>2, <2>8, <2>9
<1> QED
  BY <1>2, <1>3

(* What is sorted and has the members of S is InOrder(S).                  *)
LEMMA InOrderIs ==
  ASSUME NEW S \in SUBSET Strings, IsFiniteSet(S), NEW s \in Seq(Strings), Sorted(s), ToSet(s) = S
  PROVE  s = InOrder(S)
BY InOrderSorts, SortedUnique

LEMMA ConcatMembers ==
  ASSUME NEW s \in Seq(Strings), NEW t \in Seq(Strings)
  PROVE  /\ s \o t \in Seq(Strings)
         /\ ToSet(s \o t) = ToSet(s) \cup ToSet(t)
<1> DEFINE c == s \o t
<1>1. /\ Len(s) \in Nat /\ DOMAIN s = 1..Len(s)
      /\ Len(t) \in Nat /\ DOMAIN t = 1..Len(t)
  OBVIOUS
<1>2. /\ c \in Seq(Strings)
      /\ DOMAIN c = 1..(Len(s) + Len(t))
      /\ \A i \in 1..(Len(s) + Len(t)) : c[i] = IF i <= Len(s) THEN s[i] ELSE t[i - Len(s)]
  BY ConcatProperties, LenProperties
<1> HIDE DEF c
<1>3. ASSUME NEW i \in 1..Len(s)
      PROVE  s[i] \in ToSet(c)
  <2>1. i \in DOMAIN c /\ c[i] = s[i]
    BY <1>1, <1>2
  <2> QED
    BY <2>1 DEF ToSet
<1>4. ASSUME NEW i \in 1..Len(t)
      PROVE  t[i] \in ToSet(c)
  <2>1. i + Len(s) \in DOMAIN c /\ c[i + Len(s)] = t[i]
    BY <1>1, <1>2
  <2> QED
    BY <2>1 DEF ToSet
<1>5. ASSUME NEW i \in DOMAIN c
      PROVE  c[i] \in ToSet(s) \cup ToSet(t)
  <2>1. CASE i <= Len(s)
    BY <1>1, <1>2, <2>1 DEF ToSet
  <2>2. CASE Len(s) < i
    <3>1. i - Len(s) \in DOMAIN t /\ c[i] = t[i - Len(s)]
      BY <1>1, <1>2, <2>2
    <3> QED
      BY <3>1 DEF ToSet
  <2> QED
    BY <1>1, <1>2, <2>1, <2>2
<1>6. ToSet(c) = ToSet(s) \cup ToSet(t)
  BY <1>1, <1>3, <1>4, <1>5 DEF ToSet
<1> QED
  BY <1>2, <1>6 DEF c

LEMMA ConcatSorted ==
  ASSUME NEW s \in Seq(Strings), NEW t \in Seq(Strings), Sorted(s), Sorted(t),
         \A x \in ToSet(s), y \in ToSet(t) : Before(x, y)
  PROVE  Sorted(s \o t)
<1> DEFINE c == s \o t
<1>1. /\ Len(s) \in Nat /\ DOMAIN s = 1..Len(s)
      /\ Len(t) \in Nat /\ DOMAIN t = 1..Len(t)
  OBVIOUS
<1>2. /\ Len(c) = Len(s) + Len(t)
      /\ \A i \in 1..(Len(s) + Len(t)) : c[i] = IF i <= Len(s) THEN s[i] ELSE t[i - Len(s)]
  BY ConcatProperties
<1> HIDE DEF c
<1> SUFFICES ASSUME NEW i \in 1..Len(c), NEW j \in 1..Len(c), i < j
             PROVE  Before(c[i], c[j])
  BY DEF Sorted, c
<1>3. CASE j <= Len(s)
  BY <1>1, <1>2, <1>3 DEF Sorted
<1>4. CASE Len(s) < i
  <2>1. /\ i - Len(s) \in 1..Len(t) /\ j - Len(s) \in 1..Len(t)
        /\ i - Len(s) < j - Len(s)
        /\ c[i] = t[i - Len(s)] /\ c[j] = t[j - Len(s)]
    BY <1>1, <1>2, <1>4
  <2> QED
    BY <2>1 DEF Sorted
<1>5. CASE i <= Len(s) /\ Len(s) < j
  <2>1. /\ i \in 1..Len(s) /\ c[i] = s[i]
        /\ j - Len(s) \in 1..Len(t) /\ c[j] = t[j - Len(s)]
    BY <1>1, <1>2, <1>5
  <2>2. c[i] \in ToSet(s) /\ c[j] \in ToSet(t)
    BY <1>1, <2>1 DEF ToSet
  <2> QED
    BY <2>2
<1> QED
  BY <1>1, <1>2, <1>3, <1>4, <1>5

-----------------------------------------------------------------------------
(***************************************************************************)
(* Groups.  Ends are the places of a key behind its prefix where a         *)
(* delimiter ends.                                                         *)
(***************************************************************************)
IsQuery(q) ==
  /\ q.prefix \in Strings
  /\ q.delimiter \in (Strings \ {<<>>}) \cup {None}
  /\ q.max \in Nat

Ends(k, q) ==
  {n \in 0..Len(k) :
     /\ n >= Len(q.prefix) + Len(q.delimiter)
     /\ \A j \in 1..Len(q.delimiter) : k[n - Len(q.delimiter) + j] = q.delimiter[j]}

(* The first n characters of a string.                                     *)
LEMMA Cut ==
  ASSUME NEW k \in Strings, NEW n \in 0..Len(k)
  PROVE  /\ SubSeq(k, 1, n) \in Strings
         /\ Len(SubSeq(k, 1, n)) = n
         /\ \A i \in 1..n : SubSeq(k, 1, n)[i] = k[i]
         /\ IsPrefix(SubSeq(k, 1, n), k)
<1> DEFINE c == SubSeq(k, 1, n)
<1>1. Len(k) \in Nat /\ n \in Nat /\ n <= Len(k) /\ \A i \in 1..n : k[i] \in Nat
  BY DEF Strings
<1>2. c \in Strings /\ Len(c) = n /\ \A i \in 1..n : c[i] = k[i]
  BY <1>1, SubSeqProperties DEF Strings
<1> HIDE DEF c
<1>3. IsPrefix(c, k)
  BY <1>1, <1>2, PrefixPlaces
<1> QED
  BY <1>2, <1>3 DEF c

LEMMA OccursPlaces ==
  ASSUME NEW s \in Strings, NEW d \in Strings, NEW i \in 1..Len(s)
  PROVE  i \in OccursAt(s, d) <=> /\ i + Len(d) - 1 <= Len(s)
                                  /\ \A j \in 1..Len(d) : s[i + j - 1] = d[j]
<1> DEFINE t == SubSeq(s, i, Len(s))
<1>1. /\ Len(s) \in Nat /\ Len(d) \in Nat /\ i \in Nat /\ i <= Len(s)
      /\ \A j \in i..Len(s) : s[j] \in Nat
  BY DEF Strings
<1>2. /\ t \in Strings
      /\ Len(t) = Len(s) - i + 1
      /\ \A j \in 1..(Len(s) - i + 1) : t[j] = s[i + j - 1]
  BY <1>1, SubSeqProperties DEF Strings
<1> HIDE DEF t
<1>3. IsPrefix(d, t) <=> Len(d) <= Len(t) /\ \A j \in 1..Len(d) : d[j] = t[j]
  BY <1>2, PrefixPlaces
<1>4. i \in OccursAt(s, d) <=> IsPrefix(d, t)
  BY DEF OccursAt, t
<1> QED
  BY <1>1, <1>2, <1>3, <1>4

(* The characters from place m + 1 on.                                     *)
LEMMA Rest ==
  ASSUME NEW k \in Strings, NEW L \in Nat, L = Len(k), NEW m \in 0..L
  PROVE  /\ SubSeq(k, m + 1, L) \in Strings
         /\ Len(SubSeq(k, m + 1, L)) = L - m
         /\ \A i \in 1..(L - m) : SubSeq(k, m + 1, L)[i] = k[m + i]
<1>1. m + 1 \in Int /\ L \in Int /\ \A i \in (m + 1)..L : k[i] \in Nat
  BY DEF Strings
<1>2. /\ SubSeq(k, m + 1, L) \in Seq(Nat)
      /\ Len(SubSeq(k, m + 1, L)) = IF m + 1 <= L THEN L - (m + 1) + 1 ELSE 0
      /\ \A i \in 1..(L - (m + 1) + 1) : SubSeq(k, m + 1, L)[i] = k[(m + 1) + i - 1]
  BY <1>1, SubSeqProperties
<1>3. L - (m + 1) + 1 = L - m /\ (m + 1 <= L \/ L - m = 0)
  OBVIOUS
<1>4. \A i \in 1..(L - m) : (m + 1) + i - 1 = m + i
  OBVIOUS
<1> QED
  BY <1>2, <1>3, <1>4 DEF Strings

(* Group cuts a key behind the first delimiter that follows its prefix.    *)
LEMMA GroupCut ==
  ASSUME NEW k \in Strings, NEW q, IsQuery(q), IsPrefix(q.prefix, k), q.delimiter # None
  PROVE  /\ Ends(k, q) = {} => Group(k, q) = None
         /\ \A n \in Ends(k, q) : (\A m \in Ends(k, q) : n <= m) => Group(k, q) = SubSeq(k, 1, n)
<1> DEFINE p == q.prefix
           d == q.delimiter
           P == Len(p)
           D == Len(d)
           L == Len(k)
<1>1. p \in Strings /\ d \in Strings /\ d # <<>>
  BY DEF IsQuery
<1>2. L \in Nat /\ P \in Nat /\ D \in Nat \ {0} /\ P <= L /\ \A i \in 1..P : p[i] = k[i]
  BY <1>1, PrefixPlaces, EmptySeq DEF Strings
<1>8. L = Len(k) /\ P = Len(p) /\ D = Len(d)
  OBVIOUS
<1>5. Ends(k, q) = {n \in 0..L : n >= P + D /\ \A j \in 1..D : k[n - D + j] = d[j]}
  BY DEF Ends
<1>0. p = q.prefix /\ d = q.delimiter
  OBVIOUS
<1> HIDE DEF p, d, P, D, L
<1> DEFINE rest == SubSeq(k, P + 1, L)
           at == OccursAt(rest, d)
<1>3. /\ rest \in Strings
      /\ Len(rest) = L - P
      /\ \A i \in 1..(L - P) : rest[i] = k[P + i]
  BY <1>2, <1>8, Rest
<1>4. Group(k, q) = IF at = {} THEN None ELSE p \o SubSeq(rest, 1, FirstOf(at) + D - 1)
  BY <1>0, <1>8 DEF Group
<1>6. at \subseteq 1..(L - P)
  BY <1>3 DEF OccursAt
<1> HIDE DEF rest
<1>7. ASSUME NEW n \in Int
      PROVE  n - P - D + 1 \in at <=> n \in Ends(k, q)
  <2> DEFINE i == n - P - D + 1
  <2>1. i \in 1..(L - P) /\ i + D - 1 <= L - P <=> n \in 0..L /\ n >= P + D
    BY <1>2
  <2>2. ASSUME n <= L, n >= P + D, NEW j \in 1..D
        PROVE  rest[i + j - 1] = k[n - D + j]
    <3>1. i + j - 1 \in 1..(L - P) /\ P + (i + j - 1) = n - D + j
      BY <1>2, <2>2
    <3> QED
      BY <1>3, <3>1
  <2> HIDE DEF i
  <2>3. ASSUME i \in 1..(L - P)
        PROVE  i \in at <=> i + D - 1 <= L - P /\ \A j \in 1..D : rest[i + j - 1] = d[j]
    <3>1. i \in 1..Len(rest)
      BY <1>3, <2>3
    <3>2. i \in at <=> /\ i + Len(d) - 1 <= Len(rest)
                       /\ \A j \in 1..Len(d) : rest[i + j - 1] = d[j]
      BY <1>1, <1>3, <3>1, OccursPlaces
    <3> QED
      BY <1>3, <1>8, <3>2
  <2>4. i \in at <=> n \in Ends(k, q)
    BY <1>5, <1>6, <2>1, <2>2, <2>3
  <2> QED
    BY <2>4 DEF i
<1> HIDE DEF at
<1>9. ASSUME NEW i \in at
      PROVE  i \in Int /\ i + P + D - 1 \in Ends(k, q)
  <2>1. i \in Int /\ i + P + D - 1 \in Int /\ (i + P + D - 1) - P - D + 1 = i
    BY <1>2, <1>6
  <2> QED
    BY <1>7, <2>1
<1>10. ASSUME NEW n \in Ends(k, q), \A m \in Ends(k, q) : n <= m
       PROVE  Group(k, q) = SubSeq(k, 1, n)
  <2>1. n \in 0..L /\ n >= P + D /\ n \in Nat
    BY <1>2, <1>5
  <2>2. n - P - D + 1 \in at
    BY <1>7, <2>1
  <2>3. \A i \in at : n - P - D + 1 <= i
    <3> TAKE i \in at
    <3>1. i \in Int /\ n <= i + P + D - 1
      BY <1>9, <1>10
    <3> QED
      BY <1>2, <2>1, <3>1
  <2>4. FirstOf(at) = n - P - D + 1
    <3>1. FirstOf(at) \in at /\ \A i \in at : FirstOf(at) <= i
      BY <2>2, <2>3 DEF FirstOf
    <3>2. FirstOf(at) \in Int /\ n - P - D + 1 <= FirstOf(at) /\ FirstOf(at) <= n - P - D + 1
      BY <1>9, <2>2, <2>3, <3>1
    <3> QED
      BY <1>2, <2>1, <3>2
  <2>5. FirstOf(at) + D - 1 = n - P /\ n - P \in 0..(L - P)
    BY <1>2, <2>1, <2>4
  <2> DEFINE c == SubSeq(rest, 1, n - P)
  <2>6. c \in Strings /\ Len(c) = n - P /\ \A i \in 1..(n - P) : c[i] = rest[i]
    BY <1>3, <2>5, Cut
  <2>7. Group(k, q) = p \o c
    BY <1>4, <2>2, <2>5
  <2> HIDE DEF c
  <2>8. /\ p \o c \in Seq(Nat) /\ Len(p \o c) = n
        /\ \A i \in 1..n : (p \o c)[i] = k[i]
    <3>1. /\ p \o c \in Seq(Nat) /\ Len(p \o c) = P + (n - P)
          /\ \A i \in 1..(P + (n - P)) : (p \o c)[i] = IF i <= P THEN p[i] ELSE c[i - P]
      <4>1. p \in Seq(Nat) /\ c \in Seq(Nat)
        BY <1>1, <2>6 DEF Strings
      <4>2. /\ p \o c \in Seq(Nat) /\ Len(p \o c) = Len(p) + Len(c)
            /\ \A i \in 1..(Len(p) + Len(c)) : (p \o c)[i] = IF i <= Len(p) THEN p[i] ELSE c[i - Len(p)]
        BY <4>1, ConcatProperties
      <4> QED
        BY <1>8, <2>6, <4>2
    <3>2. P + (n - P) = n
      BY <1>2, <2>1
    <3>3. ASSUME NEW i \in 1..n, ~(i <= P)
          PROVE  c[i - P] = k[i]
      <4>1. i - P \in 1..(n - P) /\ i - P \in 1..(L - P) /\ P + (i - P) = i
        BY <1>2, <2>1, <3>3
      <4>2. c[i - P] = rest[i - P] /\ rest[i - P] = k[P + (i - P)]
        BY <1>3, <2>6, <4>1
      <4> QED
        BY <4>1, <4>2
    <3>4. ASSUME NEW i \in 1..n, i <= P
          PROVE  p[i] = k[i]
      BY <1>2, <3>4
    <3> QED
      BY <3>1, <3>2, <3>3, <3>4
  <2>9. SubSeq(k, 1, n) \in Seq(Nat) /\ Len(SubSeq(k, 1, n)) = n /\ \A i \in 1..n : SubSeq(k, 1, n)[i] = k[i]
    BY <1>8, <2>1, Cut DEF Strings
  <2>10. p \o c = SubSeq(k, 1, n)
    BY <2>8, <2>9, SeqEqual
  <2> QED
    BY <2>7, <2>10
<1>11. Ends(k, q) = {} => Group(k, q) = None
  BY <1>4, <1>9
<1> QED
  BY <1>10, <1>11

LEMMA SuffixPlaces ==
  ASSUME NEW d \in Strings, NEW c \in Strings
  PROVE  IsSuffix(d, c) <=> /\ Len(d) <= Len(c)
                            /\ \A j \in 1..Len(d) : c[Len(c) - Len(d) + j] = d[j]
<1> DEFINE D == Len(d)
           C == Len(c)
           rd == Reverse(d)
           rc == Reverse(c)
<1>1. D \in Nat /\ C \in Nat /\ (\A i \in 1..D : d[i] \in Nat) /\ \A i \in 1..C : c[i] \in Nat
  BY DEF Strings
<1>2. rd = [i \in 1..D |-> d[(D - i) + 1]] /\ rc = [i \in 1..C |-> c[(C - i) + 1]]
  BY DEF Reverse
<1> HIDE DEF D, C, rd, rc
<1>3. rd \in Strings /\ Len(rd) = D /\ \A i \in 1..D : rd[i] = d[(D - i) + 1]
  <2>1. \A i \in 1..D : (D - i) + 1 \in 1..D
    BY <1>1
  <2>2. rd \in [1..D -> Nat]
    BY <1>1, <1>2, <2>1
  <2> QED
    BY <1>1, <1>2, <2>2 DEF Strings
<1>4. rc \in Strings /\ Len(rc) = C /\ \A i \in 1..C : rc[i] = c[(C - i) + 1]
  <2>1. \A i \in 1..C : (C - i) + 1 \in 1..C
    BY <1>1
  <2>2. rc \in [1..C -> Nat]
    BY <1>1, <1>2, <2>1
  <2> QED
    BY <1>1, <1>2, <2>2 DEF Strings
<1>5. IsSuffix(d, c) <=> D <= C /\ \A i \in 1..D : rd[i] = rc[i]
  BY <1>3, <1>4, PrefixPlaces DEF IsSuffix, rd, rc
<1>6. ASSUME D <= C
      PROVE  (\A i \in 1..D : rd[i] = rc[i]) <=> (\A j \in 1..D : c[C - D + j] = d[j])
  <2>1. ASSUME NEW i \in 1..D
        PROVE  /\ (D - i) + 1 \in 1..D
               /\ rd[i] = d[(D - i) + 1]
               /\ rc[i] = c[C - D + ((D - i) + 1)]
               /\ rd[(D - i) + 1] = d[i]
               /\ rc[(D - i) + 1] = c[C - D + i]
    <3>1. (D - i) + 1 \in 1..D /\ i \in 1..C /\ (D - i) + 1 \in 1..C
      BY <1>1, <1>6
    <3>2. /\ (C - i) + 1 = C - D + ((D - i) + 1)
          /\ (D - ((D - i) + 1)) + 1 = i
          /\ (C - ((D - i) + 1)) + 1 = C - D + i
      BY <1>1
    <3>3. /\ rd[i] = d[(D - i) + 1] /\ rd[(D - i) + 1] = d[(D - ((D - i) + 1)) + 1]
          /\ rc[i] = c[(C - i) + 1] /\ rc[(D - i) + 1] = c[(C - ((D - i) + 1)) + 1]
      BY <1>3, <1>4, <3>1
    <3> QED
      BY <3>1, <3>2, <3>3
  <2> QED
    BY <2>1
<1> QED
  BY <1>5, <1>6 DEF D, C

LEMMA CutsEnd ==
  ASSUME NEW k \in Strings, NEW q, IsQuery(q), q.delimiter # None
  PROVE  Cuts(k, q) = {SubSeq(k, 1, n) : n \in Ends(k, q)}
<1>1. ASSUME NEW n \in 0..Len(k)
      PROVE  /\ n \in Ends(k, q) <=> SubSeq(k, 1, n) \in Cuts(k, q)
  <2> DEFINE c == SubSeq(k, 1, n)
             d == q.delimiter
             D == Len(d)
             P == Len(q.prefix)
  <2>1. c \in Strings /\ Len(c) = n /\ \A i \in 1..n : c[i] = k[i]
    BY Cut
  <2>2. /\ d \in Strings /\ D = Len(d) /\ D \in Nat /\ P \in Nat /\ n \in Nat
    BY DEF IsQuery, Strings
  <2>3. c \in Cuts(k, q) <=> Len(c) >= P + D /\ IsSuffix(d, c)
    BY DEF Cuts, Prefixes
  <2>4. n \in Ends(k, q) <=> n >= P + D /\ \A j \in 1..D : k[n - D + j] = d[j]
    BY DEF Ends
  <2> HIDE DEF c, d, D, P
  <2>5. IsSuffix(d, c) <=> D <= n /\ \A j \in 1..D : c[n - D + j] = d[j]
    BY <2>1, <2>2, SuffixPlaces
  <2>6. ASSUME D <= n, NEW j \in 1..D
        PROVE  c[n - D + j] = k[n - D + j]
    <3>1. n - D + j \in 1..n
      BY <2>2, <2>6
    <3> QED
      BY <2>1, <3>1
  <2>7. n >= P + D => D <= n
    BY <2>2
  <2>8. n \in Ends(k, q) <=> c \in Cuts(k, q)
    BY <2>1, <2>3, <2>4, <2>5, <2>6, <2>7
  <2> QED
    BY <2>8 DEF c
<1>2. \A p \in Cuts(k, q) : \E n \in 0..Len(k) : p = SubSeq(k, 1, n)
  BY DEF Cuts, Prefixes
<1>3. Ends(k, q) \subseteq 0..Len(k)
  BY DEF Ends
<1> QED
  BY <1>1, <1>2, <1>3

(***************************************************************************)
(* What Group says of a key that has the prefix is what the reference says *)
(* of it in one piece.                                                     *)
(***************************************************************************)
LEMMA GroupIsShortest ==
  ASSUME NEW k \in Strings, NEW q, IsQuery(q), IsPrefix(q.prefix, k)
  PROVE  /\ Group(k, q) = None <=> IsDirect(k, q)
         /\ Group(k, q) # None =>
              /\ Group(k, q) = Shortest(k, q)
              /\ Group(k, q) \in Strings
              /\ IsPrefix(Group(k, q), k)
              /\ q.delimiter # None
              /\ Len(Group(k, q)) \in Ends(k, q)
              /\ \A m \in Ends(k, q) : Len(Group(k, q)) <= m
<1>1. CASE q.delimiter = None
  BY <1>1 DEF Group, IsDirect
<1>2. CASE q.delimiter # None /\ Ends(k, q) = {}
  BY <1>2, GroupCut, CutsEnd DEF IsDirect
<1>3. CASE q.delimiter # None /\ Ends(k, q) # {}
  <2>1. Ends(k, q) \subseteq 0..Len(k) /\ Ends(k, q) \in SUBSET Nat
    <3>1. Ends(k, q) \subseteq 0..Len(k)
      BY DEF Ends
    <3> QED
      BY <3>1
  <2>2. PICK n \in Ends(k, q) : \A m \in Ends(k, q) : n <= m
    BY <1>3, <2>1, LeastNumber
  <2>3. Group(k, q) = SubSeq(k, 1, n)
    BY <1>3, <2>2, GroupCut
  <2>4. /\ SubSeq(k, 1, n) \in Strings
        /\ Len(SubSeq(k, 1, n)) = n
        /\ IsPrefix(SubSeq(k, 1, n), k)
    BY <2>1, <2>2, Cut
  <2>5. SubSeq(k, 1, n) # None
    BY <2>4, ListingAssumption DEF Strings
  <2>6. Cuts(k, q) = {SubSeq(k, 1, m) : m \in Ends(k, q)}
    BY <1>3, CutsEnd
  <2>7. \A m \in Ends(k, q) : Len(SubSeq(k, 1, m)) = m
    BY <2>1, Cut
  <2>8. Shortest(k, q) = SubSeq(k, 1, n)
    <3> DEFINE s == Shortest(k, q)
    <3>1. SubSeq(k, 1, n) \in Cuts(k, q) /\ \A c \in Cuts(k, q) : Len(SubSeq(k, 1, n)) <= Len(c)
      BY <2>2, <2>6, <2>7
    <3>2. s \in Cuts(k, q) /\ \A c \in Cuts(k, q) : Len(s) <= Len(c)
      BY <3>1 DEF Shortest
    <3>3. PICK m \in Ends(k, q) : s = SubSeq(k, 1, m)
      BY <2>6, <3>2
    <3>4. m <= n /\ n <= m
      BY <2>2, <2>6, <2>7, <3>2, <3>3
    <3>5. m = n
      BY <2>1, <2>2, <3>4
    <3> QED
      BY <3>3, <3>5
  <2>9. ~IsDirect(k, q)
    BY <1>3, <2>6 DEF IsDirect
  <2> QED
    BY <1>3, <2>2, <2>3, <2>4, <2>5, <2>8, <2>9
<1> QED
  BY <1>1, <1>2, <1>3

(***************************************************************************)
(* Groups and the order.  A group belongs to every key that begins with    *)
(* it; so the keys of one group lie side by side, and groups lie in the    *)
(* order of their keys.                                                    *)
(***************************************************************************)
LEMMA SameGroup ==
  ASSUME NEW k \in Strings, NEW m \in Strings, NEW q, IsQuery(q),
         IsPrefix(q.prefix, k), IsPrefix(q.prefix, m),
         Group(k, q) # None, IsPrefix(Group(k, q), m)
  PROVE  Group(m, q) = Group(k, q)
<1> DEFINE g == Group(k, q)
           n == Len(g)
           d == q.delimiter
           D == Len(d)
           P == Len(q.prefix)
<1>1. /\ g \in Strings /\ IsPrefix(g, k) /\ IsPrefix(g, m)
      /\ d # None /\ n \in Ends(k, q) /\ \A e \in Ends(k, q) : n <= e
  BY GroupIsShortest
<1>2. /\ D \in Nat \ {0} /\ P \in Nat /\ Len(k) \in Nat /\ Len(m) \in Nat /\ n \in Nat
  <2>1. d \in Seq(Nat) /\ d # <<>> /\ q.prefix \in Seq(Nat)
    BY <1>1 DEF IsQuery, Strings
  <2>2. D \in Nat /\ D # 0
    BY ONLY <2>1, EmptySeq, LenProperties
  <2>3. P \in Nat
    BY ONLY <2>1, LenProperties
  <2>4. Len(k) \in Nat /\ Len(m) \in Nat /\ n \in Nat
    BY <1>1, LenProperties DEF Strings
  <2> QED
    BY <2>2, <2>3, <2>4
<1>3. /\ n <= Len(k) /\ n <= Len(m) /\ \A i \in 1..n : g[i] = k[i] /\ g[i] = m[i]
  BY <1>1, PrefixPlaces
<1>4. \A x : Ends(x, q) = {e \in 0..Len(x) : e >= P + D /\ \A j \in 1..D : x[e - D + j] = d[j]}
  BY DEF Ends
<1> HIDE DEF g, n, d, D, P
<1>5. ASSUME NEW e \in 0..n, e >= P + D, NEW j \in 1..D
      PROVE  k[e - D + j] = m[e - D + j]
  <2>1. e - D + j \in 1..n
    BY <1>2, <1>5
  <2> QED
    BY <1>3, <2>1
<1>6. n \in Ends(m, q)
  <2>1. n \in 0..n /\ n \in 0..Len(m) /\ n >= P + D /\ \A j \in 1..D : k[n - D + j] = d[j]
    BY <1>1, <1>2, <1>3, <1>4
  <2> QED
    BY <1>4, <1>5, <2>1
<1>7. ASSUME NEW e \in Ends(m, q), e < n
      PROVE  FALSE
  <2>1. e \in 0..Len(m) /\ e >= P + D /\ \A j \in 1..D : m[e - D + j] = d[j]
    BY <1>4
  <2>2. e \in 0..n /\ e \in 0..Len(k)
    BY <1>2, <1>3, <1>7, <2>1
  <2>3. e \in Ends(k, q)
    BY <1>4, <1>5, <2>1, <2>2
  <2> QED
    BY <1>1, <1>2, <1>7, <2>2, <2>3
<1>8. \A e \in Ends(m, q) : n <= e
  <2>1. \A e \in Ends(m, q) : e \in Nat
    BY <1>2, <1>4
  <2> QED
    BY <1>2, <1>7, <2>1
<1>9. Group(m, q) = SubSeq(m, 1, n)
  BY <1>1, <1>6, <1>8, GroupCut DEF d
<1>10. SubSeq(m, 1, n) = g
  <2>1. /\ SubSeq(m, 1, n) \in Strings /\ Len(SubSeq(m, 1, n)) = n
        /\ \A i \in 1..n : SubSeq(m, 1, n)[i] = m[i]
    BY <1>2, <1>3, Cut
  <2>2. Len(g) = n
    BY DEF n
  <2> QED
    BY <1>1, <1>3, <2>1, <2>2, SeqEqual DEF Strings
<1> QED
  BY <1>9, <1>10 DEF g

LEMMA PrefixConvex ==
  ASSUME NEW g \in Strings, NEW k \in Strings, NEW m \in Strings, NEW l \in Strings,
         IsPrefix(g, k), IsPrefix(g, l), Before(k, m), Before(m, l)
  PROVE  IsPrefix(g, m)
<1>1. /\ Len(g) \in Nat /\ Len(k) \in Nat /\ Len(m) \in Nat /\ Len(l) \in Nat
      /\ \A i \in 1..Len(m) : m[i] \in Nat
      /\ \A i \in 1..Len(g) : g[i] \in Nat
  BY DEF Strings
<1>2. /\ Len(g) <= Len(k) /\ Len(g) <= Len(l)
      /\ \A i \in 1..Len(g) : g[i] = k[i] /\ g[i] = l[i]
  BY PrefixPlaces
<1>3. PICK n \in Nat : Splits(k, m, n)
  BY BeforeSplits
<1>4. PICK o \in Nat : Splits(m, l, o)
  BY BeforeSplits
<1>5. CASE Len(g) <= n
  <2>1. Len(g) <= Len(m) /\ \A i \in 1..Len(g) : g[i] = m[i]
    BY <1>1, <1>2, <1>3, <1>5 DEF Splits
  <2> QED
    BY <2>1, PrefixPlaces
<1>6. CASE Len(g) <= o
  <2>1. Len(g) <= Len(m) /\ \A i \in 1..Len(g) : g[i] = m[i]
    BY <1>1, <1>2, <1>4, <1>6 DEF Splits
  <2> QED
    BY <2>1, PrefixPlaces
<1>7. CASE n < Len(g) /\ o < Len(g)
  <2>1. /\ n < Len(m) /\ n + 1 \in 1..Len(g) /\ n + 1 \in 1..Len(m)
        /\ g[n + 1] < m[n + 1]
        /\ \A j \in 1..n : g[j] = m[j]
    BY <1>1, <1>2, <1>3, <1>7 DEF Splits
  <2>2. /\ o + 1 \in 1..Len(g)
        /\ o < Len(m) => o + 1 \in 1..Len(m) /\ m[o + 1] < g[o + 1]
        /\ \A j \in 1..o : m[j] = g[j]
        /\ o <= Len(m)
    BY <1>1, <1>2, <1>4, <1>7 DEF Splits
  <2>3. CASE n < o
    BY <1>1, <2>1, <2>2, <2>3
  <2>4. CASE o < n
    BY <1>1, <2>1, <2>2, <2>4
  <2>5. CASE n = o
    BY <1>1, <2>1, <2>2, <2>5
  <2> QED
    BY <2>3, <2>4, <2>5
<1> QED
  BY <1>1, <1>5, <1>6, <1>7

LEMMA GroupsAdjoin ==
  ASSUME NEW k \in Strings, NEW m \in Strings, NEW l \in Strings, NEW q, IsQuery(q),
         IsPrefix(q.prefix, k), IsPrefix(q.prefix, m), IsPrefix(q.prefix, l),
         Group(k, q) # None, Group(l, q) = Group(k, q), Before(k, m), Before(m, l)
  PROVE  Group(m, q) = Group(k, q)
<1>1. Group(k, q) \in Strings /\ IsPrefix(Group(k, q), k) /\ IsPrefix(Group(k, q), l)
  BY GroupIsShortest
<1>2. IsPrefix(Group(k, q), m)
  BY <1>1, PrefixConvex
<1> QED
  BY <1>2, SameGroup

LEMMA GroupsInOrder ==
  ASSUME NEW k \in Strings, NEW l \in Strings, NEW q, IsQuery(q),
         IsPrefix(q.prefix, k), IsPrefix(q.prefix, l),
         Group(k, q) # None, Group(l, q) # None, Group(k, q) # Group(l, q), Before(k, l)
  PROVE  Before(Group(k, q), Group(l, q))
<1> DEFINE g == Group(k, q)
           h == Group(l, q)
<1>1. g \in Strings /\ h \in Strings /\ IsPrefix(g, k) /\ IsPrefix(h, l)
  BY GroupIsShortest
<1>2. ~IsPrefix(g, l) /\ ~IsPrefix(h, k)
  BY SameGroup
<1> HIDE DEF g, h
<1>3. /\ Len(g) \in Nat /\ Len(h) \in Nat /\ Len(k) \in Nat /\ Len(l) \in Nat
      /\ Len(g) <= Len(k) /\ \A i \in 1..Len(g) : g[i] = k[i]
      /\ Len(h) <= Len(l) /\ \A i \in 1..Len(h) : h[i] = l[i]
  BY <1>1, PrefixPlaces DEF Strings
<1>4. PICK n \in Nat : Splits(k, l, n)
  BY BeforeSplits
<1>5. n < Len(g)
  <2> SUFFICES ASSUME Len(g) <= n PROVE FALSE
    BY <1>3
  <2>1. Len(g) <= Len(l) /\ \A i \in 1..Len(g) : g[i] = l[i]
    BY <1>3, <1>4 DEF Splits
  <2> QED
    BY <1>1, <1>2, <2>1, PrefixPlaces
<1>6. n < Len(h)
  <2> SUFFICES ASSUME Len(h) <= n PROVE FALSE
    BY <1>3
  <2>1. Len(h) <= Len(k) /\ \A i \in 1..Len(h) : h[i] = k[i]
    BY <1>3, <1>4 DEF Splits
  <2> QED
    BY <1>1, <1>2, <2>1, PrefixPlaces
<1>7. Splits(g, h, n)
  <2>1. n + 1 \in 1..Len(g) /\ n + 1 \in 1..Len(h) /\ n < Len(k)
    BY <1>3, <1>5, <1>6
  <2>2. g[n + 1] < h[n + 1]
    BY <1>3, <1>4, <2>1 DEF Splits
  <2> QED
    BY <1>3, <1>4, <1>5, <1>6, <2>2 DEF Splits
<1> QED
  BY <1>1, <1>7, BeforeSplits DEF g, h

-----------------------------------------------------------------------------
(***************************************************************************)
(* Pages.                                                                  *)
(***************************************************************************)
UpTo(k, t) == k = t \/ Before(k, t)

LEMMA Selection ==
  ASSUME NEW S \in SUBSET Strings, IsFiniteSet(S), NEW q, NEW after
  PROVE  /\ Selected(S, q, after) \in SUBSET Strings
         /\ IsFiniteSet(Selected(S, q, after))
         /\ \A k \in Selected(S, q, after) : IsPrefix(q.prefix, k)
<1>1. Selected(S, q, after) \in SUBSET S
  BY DEF Selected
<1>2. \A k \in Selected(S, q, after) : IsPrefix(q.prefix, k)
  BY DEF Selected
<1> QED
  BY <1>1, <1>2, FS_Subset

(* The item of a group is its last key.                                    *)
LEMMA ItemsAreLast ==
  ASSUME NEW X \in SUBSET Strings, IsFiniteSet(X), NEW q, IsQuery(q),
         \A k \in X : IsPrefix(q.prefix, k), NEW k \in X
  PROVE  k \in Items(X, q)
           <=> (Group(k, q) # None => \A l \in X : Group(l, q) = Group(k, q) => UpTo(l, k))
<1>1. ASSUME Group(k, q) # None => \A l \in X : Group(l, q) = Group(k, q) => UpTo(l, k)
      PROVE  k \in Items(X, q)
  <2> SUFFICES ASSUME Group(k, q) # None, NEW l \in X, IsNext(k, l, X), Group(l, q) = Group(k, q)
               PROVE  FALSE
    BY DEF Items
  <2>1. UpTo(l, k) /\ Before(k, l)
    BY <1>1 DEF IsNext
  <2> QED
    BY <2>1, BeforeOrder DEF UpTo
<1>2. ASSUME k \in Items(X, q), Group(k, q) # None, NEW l \in X, Group(l, q) = Group(k, q)
      PROVE  UpTo(l, k)
  <2> SUFFICES ASSUME Before(k, l) PROVE FALSE
    BY BeforeOrder DEF UpTo
  <2> DEFINE T == {m \in X : Before(k, m)}
  <2>1. T \in SUBSET Strings /\ IsFiniteSet(T) /\ l \in T
    BY FS_Subset
  <2>2. PICK m \in T : \A y \in T : y = m \/ Before(m, y)
    BY <2>1, LeastString
  <2>3. IsNext(k, m, X)
    BY <2>2, BeforeOrder DEF IsNext
  <2>4. Group(m, q) = Group(k, q)
    <3>1. CASE l = m
      BY <1>2, <3>1
    <3>2. CASE Before(m, l)
      BY <1>2, <2>2, <3>2, GroupsAdjoin
    <3> QED
      BY <2>1, <2>2, <3>1, <3>2
  <2> QED
    BY <1>2, <2>2, <2>3, <2>4 DEF Items
<1> QED
  BY <1>1, <1>2

(* A page shows the items up to its token, or all if it has none.          *)
LEMMA PageShows ==
  ASSUME NEW S \in SUBSET Strings, IsFiniteSet(S), NEW q, IsQuery(q), NEW after,
         NEW items, items = Items(Selected(S, q, after), q),
         NEW p, p = Page(S, q, after)
  PROVE  /\ p.next = None => p.shown = items
         /\ p.next # None => /\ p.next \in items
                             /\ p.shown = {k \in items : UpTo(k, p.next)}
<1> DEFINE c == Clamp(q.max)
<1>1. c \in Nat \ {0}
  BY ListingAssumption DEF Clamp, IsQuery
<1>2. items \in SUBSET Strings /\ IsFiniteSet(items)
  <2>1. items \in SUBSET Selected(S, q, after)
    BY DEF Items
  <2> QED
    BY <2>1, Selection, FS_Subset
<1>3. /\ p.shown = {k \in items : Rank(k, items) <= c}
      /\ p.next = IF p.shown = items THEN None ELSE CHOOSE k \in p.shown : Rank(k, items) = c
  BY DEF Page
<1> HIDE DEF c
<1>4. CASE p.shown = items
  BY <1>3, <1>4
<1>5. CASE p.shown # items
  <2>1. PICK k \in items : ~(Rank(k, items) <= c)
    BY <1>3, <1>5
  <2>2. \A x \in items : Rank(x, items) \in Nat
    BY <1>2, RankRange
  <2>3. \E x \in items : Rank(x, items) = c
    BY <1>1, <1>2, <2>1, <2>2, RankOccurs
  <2>4. \E x \in p.shown : Rank(x, items) = c
    BY <1>1, <1>3, <2>3
  <2>5. p.next \in items /\ Rank(p.next, items) = c
    BY <1>3, <1>5, <2>4
  <2>6. \A x \in items : Rank(x, items) <= c <=> UpTo(x, p.next)
    BY <1>1, <1>2, <2>2, <2>5, RankFollowsOrder DEF UpTo
  <2>7. p.next # None
    BY <1>2, <2>5, ListingAssumption DEF Strings
  <2> QED
    BY <1>3, <2>5, <2>6, <2>7
<1> QED
  BY <1>4, <1>5

(***************************************************************************)
(* A page has the objects and the common prefixes of all keys between its  *)
(* two tokens, and its token is the last key of its group.                 *)
(***************************************************************************)
LEMMA PageIsExact ==
  ASSUME NEW S \in SUBSET Strings, IsFiniteSet(S), NEW q, IsQuery(q), NEW after,
         NEW p, p = Page(S, q, after),
         NEW sel, sel = Selected(S, q, after)
  PROVE  /\ ObjectsOf(p, q) = {k \in sel : Group(k, q) = None /\ (p.next # None => UpTo(k, p.next))}
         /\ PrefixesOf(p, q) =
              {Group(k, q) : k \in {l \in sel : Group(l, q) # None /\ (p.next # None => UpTo(l, p.next))}}
         /\ p.next # None =>
              /\ p.next \in sel
              /\ Group(p.next, q) # None =>
                   \A l \in sel : Group(l, q) = Group(p.next, q) => UpTo(l, p.next)
<1> DEFINE items == Items(sel, q)
<1>1. /\ sel \in SUBSET Strings /\ IsFiniteSet(sel) /\ \A k \in sel : IsPrefix(q.prefix, k)
  BY Selection
<1>2. items \in SUBSET sel
  BY DEF Items
<1>3. \A k \in sel : k \in items
        <=> (Group(k, q) # None => \A l \in sel : Group(l, q) = Group(k, q) => UpTo(l, k))
  BY <1>1, ItemsAreLast
<1>4. /\ p.next = None => p.shown = items
      /\ p.next # None => p.next \in items /\ p.shown = {k \in items : UpTo(k, p.next)}
  BY PageShows
<1> HIDE DEF items
<1>5. ObjectsOf(p, q) = {k \in sel : Group(k, q) = None /\ (p.next # None => UpTo(k, p.next))}
  BY <1>2, <1>3, <1>4 DEF ObjectsOf
<1>6. ASSUME NEW k \in sel, Group(k, q) # None, p.next # None => UpTo(k, p.next)
      PROVE  Group(k, q) \in PrefixesOf(p, q)
  <2> DEFINE T == {l \in sel : Group(l, q) = Group(k, q)}
  <2>1. T \in SUBSET Strings /\ IsFiniteSet(T) /\ k \in T
    BY <1>1, FS_Subset
  <2>2. PICK m \in T : \A y \in T : y = m \/ Before(y, m)
    BY <2>1, GreatestString
  <2>3. m \in items
    BY <1>3, <2>2 DEF UpTo
  <2>4. ASSUME p.next # None
        PROVE  UpTo(m, p.next)
    <3>1. p.next \in sel /\ p.next \in Strings /\ UpTo(k, p.next)
      BY <1>1, <1>2, <1>4, <1>6, <2>4
    <3> SUFFICES ASSUME Before(p.next, m) PROVE FALSE
      BY <1>1, <2>2, <3>1, BeforeOrder DEF UpTo
    <3>2. Group(p.next, q) = Group(k, q)
      <4>1. CASE k = p.next
        BY <4>1
      <4>2. CASE Before(k, p.next)
        BY <1>1, <1>6, <2>2, <3>1, <4>2, GroupsAdjoin
      <4> QED
        BY <3>1, <4>1, <4>2 DEF UpTo
    <3>3. UpTo(m, p.next)
      BY <1>3, <1>4, <1>6, <2>2, <2>4, <3>1, <3>2
    <3> QED
      BY <1>1, <2>2, <3>1, <3>3, BeforeOrder DEF UpTo
  <2>5. m \in p.shown
    BY <1>4, <2>3, <2>4
  <2> QED
    BY <1>6, <2>2, <2>5 DEF PrefixesOf, ObjectsOf
<1>7. ASSUME NEW g \in PrefixesOf(p, q)
      PROVE  \E k \in sel : /\ Group(k, q) # None /\ (p.next # None => UpTo(k, p.next))
                            /\ g = Group(k, q)
  BY <1>2, <1>4 DEF PrefixesOf, ObjectsOf
<1>8. p.next # None =>
        /\ p.next \in sel
        /\ Group(p.next, q) # None =>
             \A l \in sel : Group(l, q) = Group(p.next, q) => UpTo(l, p.next)
  BY <1>2, <1>3, <1>4
<1> QED
  BY <1>5, <1>6, <1>7, <1>8

(* The reference, in terms of groups.                                      *)
LEMMA ReferenceGroups ==
  ASSUME NEW S \in SUBSET Strings, NEW q, IsQuery(q)
  PROVE  /\ Direct(S, q) = {k \in Matching(S, q) : Group(k, q) = None}
         /\ Collapsed(S, q) = {Group(k, q) : k \in {l \in Matching(S, q) : Group(l, q) # None}}
<1>1. \A k \in Matching(S, q) : k \in Strings /\ IsPrefix(q.prefix, k)
  BY DEF Matching
<1>2. \A k \in Matching(S, q) : /\ IsDirect(k, q) <=> Group(k, q) = None
                                /\ Group(k, q) # None => Shortest(k, q) = Group(k, q)
  BY <1>1, GroupIsShortest
<1>3. Direct(S, q) = {k \in Matching(S, q) : Group(k, q) = None}
  BY <1>2 DEF Direct
<1>4. Collapsed(S, q) = {Group(k, q) : k \in {l \in Matching(S, q) : Group(l, q) # None}}
  BY <1>2 DEF Collapsed
<1> QED
  BY <1>3, <1>4

(* The sorted sequences of a page.                                         *)
LEMMA PageSorts ==
  ASSUME NEW S \in SUBSET Strings, IsFiniteSet(S), NEW q, IsQuery(q), NEW after,
         NEW p, p = Page(S, q, after)
  PROVE  /\ ObjectsOf(p, q) \in SUBSET Strings /\ IsFiniteSet(ObjectsOf(p, q))
         /\ PrefixesOf(p, q) \in SUBSET Strings /\ IsFiniteSet(PrefixesOf(p, q))
<1> DEFINE sel == Selected(S, q, after)
           X == {l \in sel : Group(l, q) # None /\ (p.next # None => UpTo(l, p.next))}
           Y == PrefixesOf(p, q)
           f == [l \in X |-> Group(l, q)]
<1>1. sel \in SUBSET Strings /\ IsFiniteSet(sel) /\ \A k \in sel : IsPrefix(q.prefix, k)
  BY Selection
<1>2. ObjectsOf(p, q) \in SUBSET sel /\ Y = {Group(k, q) : k \in X}
  BY PageIsExact
<1>3. X \in SUBSET sel
  OBVIOUS
<1> HIDE DEF sel, X, Y
<1>4. IsFiniteSet(ObjectsOf(p, q)) /\ IsFiniteSet(X)
  BY <1>1, <1>2, <1>3, FS_Subset
<1>5. Y \in SUBSET Strings
  BY <1>1, <1>2, <1>3, GroupIsShortest DEF X
<1>6. f \in Surjection(X, Y)
  BY <1>2 DEF Surjection
<1>7. IsFiniteSet(Y)
  BY <1>4, <1>6, FS_Surjection
<1> QED
  BY <1>1, <1>2, <1>4, <1>5, <1>7 DEF Y
=============================================================================
