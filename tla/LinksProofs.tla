----------------------------- MODULE LinksProofs -----------------------------
(***************************************************************************)
(* Links give back what they were made from, for every set of keys, every  *)
(* name and every time: the files of keys, the pages of a folder, its      *)
(* crumbs, downloads, uploads and presigned URLs (Links).  On the way:     *)
(* what percent-encoding, splitting, joining and resolving of Names give   *)
(* for words of any length, and the dates of Calendar for any day.         *)
(***************************************************************************)
EXTENDS Links, ListingProofs

(* Bytes, words of bytes, and the pieces of a text.                        *)
Bytes == 0..255
Words == Seq(Bytes)
Texts == Seq(Words)

(* Three words are put together in either order.                           *)
LEMMA Associate ==
  ASSUME NEW s \in Words, NEW t \in Words, NEW u \in Words
  PROVE  (s \o t) \o u = s \o (t \o u)
<1>1. s \in Seq(Bytes) /\ t \in Seq(Bytes) /\ u \in Seq(Bytes)
  BY DEF Words
<1> QED
  BY ONLY <1>1, ConcatAssociative

(***************************************************************************)
(* Induction along 0..n, for a set of numbers; and what it gives: a        *)
(* definition by recursion along 0..n has a value.                         *)
(***************************************************************************)
LEMMA Climb ==
  ASSUME NEW n \in Nat, NEW G, 0 \in G, \A i \in 1..n : i - 1 \in G => i \in G
  PROVE  \A i \in 0..n : i \in G
<1> DEFINE T == {m \in 0..n : m \notin G}
<1>1. T \in SUBSET Nat
  OBVIOUS
<1>2. ASSUME T # {} PROVE FALSE
  <2>1. PICK m \in T : \A l \in T : m <= l
    <3> HIDE DEF T
    <3> QED
      BY <1>1, <1>2, LeastNumber
  <2>2. m \in 1..n /\ m - 1 \in 0..n /\ m - 1 \notin T
    BY <2>1
  <2> QED
    BY <2>1, <2>2
<1> QED
  BY <1>2

(* f is defined by recursion from base, step by step.                      *)
Follows(f, n, base, step) ==
  f[0] = base /\ \A i \in 1..n : f[i] = step[<<i, f[i - 1]>>]

(* A definition by recursion along 0..n has a value.                       *)
LEMMA Recursion ==
  ASSUME NEW V, NEW n \in Nat, NEW base \in V, NEW step \in [(1..n) \X V -> V]
  PROVE  \E f \in [0..n -> V] : Follows(f, n, base, step)
<1> DEFINE Upto(m) == \E f \in [0..m -> V] :
                        f[0] = base /\ \A i \in 1..m : f[i] = step[<<i, f[i - 1]>>]
           G == {m \in 0..n : Upto(m)}
<1>1. 0 \in G
  <2> DEFINE f == [i \in 0..0 |-> base]
  <2>1. f \in [0..0 -> V] /\ f[0] = base /\ \A i \in 1..0 : f[i] = step[<<i, f[i - 1]>>]
    OBVIOUS
  <2> HIDE DEF f
  <2> QED
    BY <2>1
<1>2. ASSUME NEW m \in 1..n, m - 1 \in G PROVE m \in G
  <2>1. PICK f \in [0..(m - 1) -> V] :
           f[0] = base /\ \A i \in 1..(m - 1) : f[i] = step[<<i, f[i - 1]>>]
    BY <1>2
  <2> DEFINE g == [i \in 0..m |-> IF i = m THEN step[<<m, f[m - 1]>>] ELSE f[i]]
  <2>2. f[m - 1] \in V
    OBVIOUS
  <2>3. <<m, f[m - 1]>> \in (1..n) \X V
    BY <2>2
  <2>4. step[<<m, f[m - 1]>>] \in V
    BY <2>3
  <2>5. g \in [0..m -> V]
    BY <2>4
  <2>6. g[0] = base /\ g[m] = step[<<m, f[m - 1]>>] /\ g[m - 1] = f[m - 1]
    BY <2>1
  <2>7. ASSUME NEW i \in 1..(m - 1) PROVE g[i] = step[<<i, g[i - 1]>>]
    <3>1. g[i] = f[i] /\ g[i - 1] = f[i - 1]
      OBVIOUS
    <3> QED
      BY <2>1, <3>1
  <2>8. \A i \in 1..m : g[i] = step[<<i, g[i - 1]>>]
    <3> HIDE DEF g
    <3>1. \A i \in 1..m : i \in 1..(m - 1) \/ i = m
      OBVIOUS
    <3> QED
      BY <2>6, <2>7, <3>1
  <2>9. Upto(m)
    <3> HIDE DEF g
    <3> QED
      BY <2>5, <2>6, <2>8
  <2> QED
    BY <2>9
<1>3. n \in G
  <2> HIDE DEF G
  <2> QED
    BY <1>1, <1>2, Climb
<1> QED
  BY <1>3 DEF Follows

(***************************************************************************)
(* Split, byte by byte.                                                    *)
(***************************************************************************)
SplitStep(before, b, c) ==
  IF b = c THEN Append(before, <<>>)
  ELSE Append(Front(before), Append(Last(before), b))

(* f[i] holds the pieces of the first i bytes.                             *)
SplitSteps(s, c, f) ==
  /\ f \in [0..Len(s) -> Texts \ {<<>>}]
  /\ f[0] = << <<>> >>
  /\ \A i \in 1..Len(s) : f[i] = SplitStep(f[i - 1], s[i], c)

(* A step keeps a text, and never leaves none.                             *)
LEMMA SplitStepTyped ==
  ASSUME NEW t \in Texts \ {<<>>}, NEW b \in Bytes, NEW c
  PROVE  SplitStep(t, b, c) \in Texts \ {<<>>}
<1>1. Len(t) \in Nat /\ Len(t) # 0 /\ t[Len(t)] \in Words
  BY EmptySeq, LenProperties, ElementOfSeq DEF Texts
<1>2. Append(t, <<>>) \in Texts \ {<<>>}
  BY DEF Texts, Words
<1>3. Front(t) \in Texts
  BY <1>1, SubSeqProperties DEF Front, Texts
<1>4. Append(Last(t), b) \in Words
  BY <1>1 DEF Last, Words
<1>5. Append(Front(t), Append(Last(t), b)) \in Texts \ {<<>>}
  BY <1>3, <1>4 DEF Texts
<1> QED
  BY <1>2, <1>5 DEF SplitStep

(* Split is what these steps come to.                                      *)
LEMMA SplitTrace ==
  ASSUME NEW s \in Words, NEW c
  PROVE  \E f : SplitSteps(s, c, f) /\ Split(s, c) = f[Len(s)]
<1> DEFINE n == Len(s)
           V == Texts \ {<<>>}
           base == << <<>> >>
           step == [p \in (1..n) \X V |-> SplitStep(p[2], s[p[1]], c)]
           eq(f) == f = [i \in 0..n |->
                          IF i = 0 THEN << <<>> >>
                          ELSE LET before == f[i - 1]
                               IN  IF s[i] = c THEN Append(before, <<>>)
                                   ELSE Append(Front(before), Append(Last(before), s[i]))]
           eq2(f) == f = [i \in 0..n |->
                           IF i = 0 THEN << <<>> >> ELSE SplitStep(f[i - 1], s[i], c)]
<1>1. n \in Nat /\ \A i \in 1..n : s[i] \in Bytes
  BY DEF Words
<1>2. base \in V
  BY DEF Texts, Words
<1>3. step \in [(1..n) \X V -> V]
  BY <1>1, SplitStepTyped
<1>4. PICK f \in [0..n -> V] : Follows(f, n, base, step)
  <2> HIDE DEF step, base, V, n
  <2> QED
    BY <1>1, <1>2, <1>3, Recursion
<1>5. ASSUME NEW i \in 1..n PROVE f[i] = SplitStep(f[i - 1], s[i], c)
  <2>1. i - 1 \in 0..n
    BY <1>1
  <2>2. f[i - 1] \in V
    BY <2>1
  <2>3. <<i, f[i - 1]>> \in (1..n) \X V
    BY <2>2
  <2> QED
    BY <1>4, <2>3 DEF Follows
<1>6. eq2(f)
  <2> HIDE DEF n, V, step
  <2>1. \A i \in 0..n : i = 0 \/ i \in 1..n
    BY <1>1
  <2> QED
    BY <1>4, <1>5, <2>1 DEF Follows
<1>7. \A g : eq(g) <=> eq2(g)
  BY DEF SplitStep
<1>8. Split(s, c) = (CHOOSE g : eq(g))[n]
  BY DEF Split
<1>9. PICK g : eq2(g) /\ Split(s, c) = g[n]
  <2> HIDE DEF eq, eq2
  <2> QED
    BY <1>6, <1>7, <1>8
<1>10. /\ DOMAIN g = 0..n /\ g[0] = << <<>> >>
       /\ \A i \in 1..n : g[i] = SplitStep(g[i - 1], s[i], c)
  <2> HIDE DEF n
  <2>1. \A i \in 1..n : i \in 0..n /\ i # 0
    BY <1>1
  <2>2. 0 \in 0..n
    BY <1>1
  <2> QED
    BY <1>9, <2>1, <2>2
<1>11. \A i \in 0..n : g[i] \in V
  <2> DEFINE G == {i \in 0..n : g[i] \in V}
  <2>1. 0 \in G
    BY <1>1, <1>2, <1>10
  <2>2. \A i \in 1..n : i - 1 \in G => i \in G
    BY <1>1, <1>10, SplitStepTyped
  <2>3. \A i \in 0..n : i \in G
    <3> HIDE DEF G, n
    <3> QED
      BY <1>1, <2>1, <2>2, Climb
  <2> QED
    BY <2>3
<1>12. g \in [0..n -> V]
  <2> HIDE DEF n, V
  <2> QED
    BY <1>9, <1>10, <1>11
<1> QED
  BY <1>9, <1>10, <1>12 DEF SplitSteps

(***************************************************************************)
(* Sequences, from their end.                                              *)
(***************************************************************************)
(* A prefix is the one before it and one element.                          *)
LEMMA OneMore ==
  ASSUME NEW E, NEW s \in Seq(E), NEW i \in 1..Len(s)
  PROVE  /\ SubSeq(s, 1, i - 1) \in Seq(E) /\ Len(SubSeq(s, 1, i - 1)) = i - 1
         /\ s[i] \in E
         /\ SubSeq(s, 1, i) = Append(SubSeq(s, 1, i - 1), s[i])
<1>1. /\ SubSeq(s, 1, i - 1) \in Seq(E) /\ Len(SubSeq(s, 1, i - 1)) = i - 1
      /\ s[i] \in E
  OBVIOUS
<1> QED
  BY <1>1

(* Induction along a sequence, for a set of sequences: what holds of the   *)
(* empty one and of one element more holds of all.                         *)
LEMMA SeqClimb ==
  ASSUME NEW E, NEW G, <<>> \in G,
         \A s \in Seq(E), e \in E : s \in G => Append(s, e) \in G
  PROVE  \A s \in Seq(E) : s \in G
<1> SUFFICES ASSUME NEW s \in Seq(E) PROVE s \in G
  OBVIOUS
<1> DEFINE n == Len(s)
           H == {i \in 0..n : SubSeq(s, 1, i) \in G}
<1>1. n \in Nat
  OBVIOUS
<1>2. 0 \in H
  <2>1. SubSeq(s, 1, 0) = <<>>
    BY SubSeqEmpty
  <2>2. 0 \in 0..n
    BY <1>1
  <2> HIDE DEF n
  <2> QED
    BY <2>1, <2>2
<1>3. ASSUME NEW i \in 1..n, i - 1 \in H PROVE i \in H
  <2> DEFINE u == SubSeq(s, 1, i - 1)
             e == s[i]
  <2>1. u \in Seq(E) /\ e \in E /\ SubSeq(s, 1, i) = Append(u, e)
    BY OneMore
  <2>2. u \in G
    BY <1>3
  <2>3. Append(u, e) \in G
    <3> HIDE DEF u, e
    <3> QED
      BY <2>1, <2>2
  <2>4. i \in 0..n
    BY <1>1
  <2> HIDE DEF n, u, e
  <2> QED
    BY <2>1, <2>3, <2>4
<1>4. n \in H
  <2> HIDE DEF H, n
  <2> QED
    BY <1>1, <1>2, <1>3, Climb
<1>5. SubSeq(s, 1, n) \in G
  BY <1>4
<1>6. SubSeq(s, 1, n) = s
  BY SubSeqFull
<1> QED
  BY <1>5, <1>6

(* A sequence is its front and its last element,                           *)
LEMMA FrontLast ==
  ASSUME NEW E, NEW s \in Seq(E), s # <<>>
  PROVE  /\ Front(s) \in Seq(E) /\ Last(s) \in E /\ Len(Front(s)) = Len(s) - 1
         /\ s = Append(Front(s), Last(s))
<1>1. Len(s) \in 1..Len(s) /\ SubSeq(s, 1, Len(s)) = s
  BY EmptySeq, LenProperties, SubSeqFull
<1> QED
  BY <1>1, OneMore DEF Front, Last

(* which are what it was put together from.                                *)
LEMMA FrontAppend ==
  ASSUME NEW E, NEW s \in Seq(E), NEW e \in E
  PROVE  Front(Append(s, e)) = s /\ Last(Append(s, e)) = e
BY DEF Front, Last

(* Appending behind a concatenation,                                       *)
LEMMA ConcatAppend ==
  ASSUME NEW E, NEW s \in Seq(E), NEW t \in Seq(E), NEW e \in E
  PROVE  s \o Append(t, e) = Append(s \o t, e)
OBVIOUS

(* and appending as a concatenation.                                       *)
LEMMA ConcatOne ==
  ASSUME NEW E, NEW s \in Seq(E), NEW e \in E
  PROVE  s \o <<e>> = Append(s, e)
OBVIOUS

(* The end of a concatenation is the end of its second part.               *)
LEMMA FrontConcat ==
  ASSUME NEW E, NEW s \in Seq(E), NEW t \in Seq(E), t # <<>>
  PROVE  Front(s \o t) = s \o Front(t) /\ Last(s \o t) = Last(t)
<1>1. Front(t) \in Seq(E) /\ Last(t) \in E /\ t = Append(Front(t), Last(t))
  BY FrontLast
<1> DEFINE u == Front(t)
           e == Last(t)
<1>2. s \o t = Append(s \o u, e) /\ s \o u \in Seq(E)
  <2> HIDE DEF u, e
  <2> QED
    BY <1>1, ConcatAppend, ConcatProperties DEF u, e
<1>3. Front(Append(s \o u, e)) = s \o u /\ Last(Append(s \o u, e)) = e
  <2> HIDE DEF u, e
  <2> QED
    BY <1>1, <1>2, FrontAppend DEF u, e
<1> QED
  BY <1>2, <1>3

(***************************************************************************)
(* What Split does of one byte more, and of a separator.                   *)
(***************************************************************************)
(* What is split is pieces, and at least one.                              *)
LEMMA SplitTyped ==
  ASSUME NEW s \in Words, NEW c
  PROVE  Split(s, c) \in Texts \ {<<>>}
<1>1. PICK f : SplitSteps(s, c, f) /\ Split(s, c) = f[Len(s)]
  BY SplitTrace
<1>2. Len(s) \in 0..Len(s)
  BY DEF Words
<1> QED
  BY <1>1, <1>2 DEF SplitSteps

(* The empty text has one piece, the empty one.                            *)
LEMMA SplitEmpty ==
  ASSUME NEW c
  PROVE  Split(<<>>, c) = << <<>> >>
<1>1. <<>> \in Words /\ Len(<<>>) = 0
  BY DEF Words
<1>2. PICK f : SplitSteps(<<>>, c, f) /\ Split(<<>>, c) = f[Len(<<>>)]
  BY <1>1, SplitTrace
<1> QED
  BY <1>1, <1>2 DEF SplitSteps

(* One byte more is one step more.                                         *)
LEMMA SplitAppend ==
  ASSUME NEW s \in Words, NEW b \in Bytes, NEW c
  PROVE  Split(Append(s, b), c) = SplitStep(Split(s, c), b, c)
<1> DEFINE t == Append(s, b)
           n == Len(s)
<1>1. /\ t \in Words /\ n \in Nat /\ Len(t) = n + 1 /\ t[n + 1] = b
      /\ \A i \in 1..n : t[i] = s[i]
  BY AppendProperties DEF Words
<1>2. PICK f : SplitSteps(s, c, f) /\ Split(s, c) = f[n]
  BY SplitTrace
<1>3. PICK g : SplitSteps(t, c, g) /\ Split(t, c) = g[Len(t)]
  BY <1>1, SplitTrace
<1> HIDE DEF t, n
<1>4. \A i \in 1..n : g[i] = SplitStep(g[i - 1], s[i], c) /\ f[i] = SplitStep(f[i - 1], s[i], c)
  <2>1. \A i \in 1..n : i \in 1..Len(t)
    BY <1>1
  <2> QED
    BY <1>1, <1>2, <1>3, <2>1 DEF SplitSteps, n
<1>5. g[n] = f[n]
  <2> DEFINE G == {i \in 0..n : g[i] = f[i]}
  <2>1. 0 \in G
    BY <1>1, <1>2, <1>3 DEF SplitSteps
  <2>2. \A i \in 1..n : i - 1 \in G => i \in G
    BY <1>1, <1>4
  <2>3. \A i \in 0..n : i \in G
    <3> HIDE DEF G
    <3> QED
      BY ONLY <1>1, <2>1, <2>2, Climb
  <2>4. n \in 0..n
    BY <1>1
  <2> QED
    BY <2>3, <2>4
<1>6. g[n + 1] = SplitStep(g[n], b, c)
  <2>1. n + 1 \in 1..Len(t) /\ (n + 1) - 1 = n
    BY <1>1
  <2> QED
    BY <1>1, <1>3, <2>1 DEF SplitSteps
<1> QED
  BY <1>1, <1>2, <1>3, <1>5, <1>6 DEF t

(* A step leaves the pieces before the last alone.                         *)
LEMMA SplitStepConcat ==
  ASSUME NEW p \in Texts, NEW q \in Texts \ {<<>>}, NEW b \in Bytes, NEW c
  PROVE  SplitStep(p \o q, b, c) = p \o SplitStep(q, b, c)
<1>1. Front(p \o q) = p \o Front(q) /\ Last(p \o q) = Last(q) /\ Front(q) \in Texts /\ Last(q) \in Words
  BY FrontConcat, FrontLast DEF Texts
<1>2. <<>> \in Words /\ Append(Last(q), b) \in Words
  BY <1>1, AppendProperties, EmptySeq DEF Words
<1>3. p \o Append(q, <<>>) = Append(p \o q, <<>>)
  BY <1>2, ConcatAppend DEF Texts
<1> DEFINE u == Front(q)
           w == Append(Last(q), b)
<1>4. p \o Append(u, w) = Append(p \o u, w)
  <2> HIDE DEF u, w
  <2> QED
    BY <1>1, <1>2, ConcatAppend DEF Texts, u, w
<1> QED
  BY <1>1, <1>3, <1>4 DEF SplitStep

(* Split at a separator, a text has the pieces of its two sides.           *)
LEMMA SplitConcat ==
  ASSUME NEW s \in Words, NEW c \in Bytes, NEW t \in Words
  PROVE  Split(Append(s, c) \o t, c) = Split(s, c) \o Split(t, c)
<1> DEFINE w == Append(s, c)
           G == {u \in Words : Split(w \o u, c) = Split(s, c) \o Split(u, c)}
<1>1. w \in Words /\ Split(s, c) \in Texts \ {<<>>}
  BY AppendProperties, SplitTyped DEF Words
<1>2. <<>> \in G
  <2>1. <<>> \in Words /\ w \o <<>> = w
    BY <1>1, EmptySeq, ConcatEmptySeq DEF Words
  <2>2. Split(w, c) = Append(Split(s, c), <<>>)
    BY SplitAppend DEF SplitStep
  <2>3. Append(Split(s, c), <<>>) = Split(s, c) \o << <<>> >>
    BY <1>1, <2>1, AppendIsConcat DEF Texts
  <2> QED
    BY <2>1, <2>2, <2>3, SplitEmpty
<1>3. ASSUME NEW u \in Words, NEW b \in Bytes, u \in G PROVE Append(u, b) \in G
  <2>1. w \o Append(u, b) = Append(w \o u, b) /\ w \o u \in Words /\ Append(u, b) \in Words
    BY <1>1, ConcatAppend, ConcatProperties, AppendProperties DEF Words
  <2> DEFINE x == w \o u
  <2>2. Split(Append(x, b), c) = SplitStep(Split(x, c), b, c)
    <3> HIDE DEF x, w
    <3> QED
      BY <2>1, SplitAppend DEF x
  <2>3. Split(x, c) = Split(s, c) \o Split(u, c)
    BY <1>3
  <2>4. SplitStep(Split(s, c) \o Split(u, c), b, c) = Split(s, c) \o SplitStep(Split(u, c), b, c)
    BY <1>1, SplitTyped, SplitStepConcat
  <2>5. SplitStep(Split(u, c), b, c) = Split(Append(u, b), c)
    BY SplitAppend
  <2> QED
    BY <2>1, <2>2, <2>3, <2>4, <2>5
<1>4. t \in G
  <2> HIDE DEF G
  <2> QED
    BY <1>2, <1>3, SeqClimb DEF Words
<1> QED
  BY <1>4

(***************************************************************************)
(* Flattening, and so encoding, of one piece more.                         *)
(***************************************************************************)
FlattenSteps(ss, f) ==
  /\ DOMAIN f = 1..Len(ss)
  /\ \A i \in 1..Len(ss) : f[i] = IF i = 1 THEN ss[i] ELSE f[i - 1] \o ss[i]

(* FlattenSeq is what these steps come to,                                 *)
LEMMA FlattenTrace ==
  ASSUME NEW E, NEW ss \in Seq(Seq(E)), ss # <<>>
  PROVE  \E f : FlattenSteps(ss, f) /\ FlattenSeq(ss) = f[Len(ss)]
<1> DEFINE n == Len(ss)
           V == Seq(E)
           base == <<>>
           step == [p \in (1..n) \X V |-> p[2] \o ss[p[1]]]
           eq(f) == f = [i \in 1..n |-> IF i = 1 THEN ss[i] ELSE f[i - 1] \o ss[i]]
<1>1. n \in Nat /\ n # 0 /\ \A i \in 1..n : ss[i] \in V
  BY EmptySeq
<1>2. base \in V
  OBVIOUS
<1>3. step \in [(1..n) \X V -> V]
  BY <1>1, ConcatProperties
<1>4. PICK f \in [0..n -> V] : Follows(f, n, base, step)
  <2> HIDE DEF step, base, V, n
  <2> QED
    BY <1>1, <1>2, <1>3, Recursion
<1>5. ASSUME NEW i \in 1..n PROVE f[i - 1] \in V /\ f[i] = f[i - 1] \o ss[i]
  <2>1. i - 1 \in 0..n
    BY <1>1
  <2>2. f[i - 1] \in V
    BY <2>1
  <2>3. <<i, f[i - 1]>> \in (1..n) \X V
    BY <2>2
  <2>4. step[<<i, f[i - 1]>>] = f[i - 1] \o ss[i]
    BY <2>3
  <2>5. f[i] = step[<<i, f[i - 1]>>]
    <3> HIDE DEF step, base
    <3> QED
      BY <1>4 DEF Follows
  <2> QED
    BY <2>2, <2>4, <2>5
<1>6. f[1] = ss[1]
  <2>1. 1 \in 1..n /\ 1 - 1 = 0
    BY <1>1
  <2>2. f[1] = <<>> \o ss[1]
    <3>1. f[0] = <<>>
      <4> HIDE DEF step
      <4> QED
        BY <1>4 DEF Follows
    <3> QED
      BY <1>5, <2>1, <3>1
  <2> QED
    BY <1>1, <2>1, <2>2, ConcatEmptySeq
<1> DEFINE g == [i \in 1..n |-> f[i]]
<1>7. eq(g)
  <2>1. \A i \in 1..n : g[i] = f[i] /\ (i # 1 => g[i - 1] = f[i - 1])
    BY <1>1
  <2>2. \A i \in 1..n : g[i] = IF i = 1 THEN ss[i] ELSE g[i - 1] \o ss[i]
    <3> HIDE DEF n, g
    <3> QED
      BY <1>5, <1>6, <2>1
  <2>3. g = [i \in 1..n |-> g[i]]
    OBVIOUS
  <2> HIDE DEF n, g
  <2> QED
    BY <2>2, <2>3
<1>8. FlattenSeq(ss) = (CHOOSE h : eq(h))[n]
  BY <1>1 DEF FlattenSeq
<1>9. PICK h : eq(h) /\ FlattenSeq(ss) = h[n]
  <2> HIDE DEF eq
  <2> QED
    BY <1>7, <1>8
<1>10. FlattenSteps(ss, h)
  <2>1. DOMAIN h = 1..n /\ \A i \in 1..n : h[i] = IF i = 1 THEN ss[i] ELSE h[i - 1] \o ss[i]
    <3> HIDE DEF n
    <3> QED
      BY <1>9
  <2> QED
    BY <2>1 DEF FlattenSteps
<1> QED
  BY <1>9, <1>10

(* so one sequence more is one concatenation more,                         *)
LEMMA FlattenAppend ==
  ASSUME NEW E, NEW ss \in Seq(Seq(E)), NEW x \in Seq(E)
  PROVE  FlattenSeq(Append(ss, x)) = FlattenSeq(ss) \o x
<1> DEFINE t == Append(ss, x)
           n == Len(ss)
<1>1. /\ t \in Seq(Seq(E)) /\ t # <<>> /\ n \in Nat /\ Len(t) = n + 1 /\ t[n + 1] = x
      /\ \A i \in 1..n : t[i] = ss[i]
  BY AppendProperties
<1>2. PICK g : FlattenSteps(t, g) /\ FlattenSeq(t) = g[Len(t)]
  BY <1>1, FlattenTrace
<1>3. CASE ss = <<>>
  <2>1. n = 0 /\ FlattenSeq(ss) = <<>>
    BY <1>3 DEF FlattenSeq
  <2>2. g[1] = x
    BY <1>1, <1>2, <2>1 DEF FlattenSteps
  <2>3. <<>> \o x = x
    BY ConcatEmptySeq
  <2> QED
    BY <1>1, <1>2, <2>1, <2>2, <2>3
<1>4. CASE ss # <<>>
  <2>1. PICK f : FlattenSteps(ss, f) /\ FlattenSeq(ss) = f[n]
    BY <1>4, FlattenTrace
  <2>2. n \in Nat \ {0}
    BY <1>4, EmptySeq
  <2> HIDE DEF t, n
  <2>3. \A i \in 1..n : /\ f[i] = IF i = 1 THEN ss[i] ELSE f[i - 1] \o ss[i]
                        /\ g[i] = IF i = 1 THEN ss[i] ELSE g[i - 1] \o ss[i]
    <3>1. \A i \in 1..n : i \in 1..Len(t)
      BY <1>1
    <3> QED
      BY <1>1, <1>2, <2>1, <3>1 DEF FlattenSteps, n
  <2> DEFINE G == {i \in 0..n : i # 0 => g[i] = f[i]}
  <2>4. 0 \in G
    BY <1>1
  <2>5. \A i \in 1..n : i - 1 \in G => i \in G
    BY <1>1, <2>3
  <2> n \in Nat
    BY <1>1
  <2> HIDE DEF G
  <2>6. \A i \in 0..n : i \in G
    BY <2>4, <2>5, Climb
  <2> USE DEF G
  <2>7. g[n + 1] = g[n] \o x
    <3>1. n + 1 \in 1..Len(t) /\ (n + 1) - 1 = n /\ n + 1 # 1
      BY <1>1, <2>2
    <3> QED
      BY <1>1, <1>2, <3>1 DEF FlattenSteps
  <2>8. g[n] = f[n]
    BY <2>2, <2>6
  <2> QED
    BY <1>1, <1>2, <2>1, <2>7, <2>8 DEF t
<1> QED
  BY <1>3, <1>4

(* and the elements stay what they are.                                    *)
LEMMA FlattenTyped ==
  ASSUME NEW E, NEW ss \in Seq(Seq(E))
  PROVE  FlattenSeq(ss) \in Seq(E)
<1> DEFINE G == {tt \in Seq(Seq(E)) : FlattenSeq(tt) \in Seq(E)}
<1>1. <<>> \in G
  BY EmptySeq DEF FlattenSeq
<1>2. ASSUME NEW tt \in Seq(Seq(E)), NEW x \in Seq(E), tt \in G PROVE Append(tt, x) \in G
  BY <1>2, FlattenAppend, AppendProperties, ConcatProperties
<1>3. ss \in G
  <2> HIDE DEF G
  <2> QED
    BY <1>1, <1>2, SeqClimb
<1> QED
  BY <1>3

(***************************************************************************)
(* Encoding, byte by byte.                                                 *)
(***************************************************************************)
Escape(b, kept) ==
  IF b \in kept THEN <<b>> ELSE <<Percent, Hex(b \div 16), Hex(b % 16)>>

(* A hexadecimal digit has its value.                                      *)
LEMMA HexDigit ==
  ASSUME NEW n \in 0..15
  PROVE  Hex(n) \in HexDigits /\ Hex(n) \in Digits \cup Uppercase /\ HexValue(Hex(n)) = n
BY DEF Hex, HexDigits, HexValue, Digits, Uppercase

(* A byte is the two halves of its escape.                                 *)
LEMMA Halves ==
  ASSUME NEW b \in Bytes
  PROVE  b \div 16 \in 0..15 /\ b % 16 \in 0..15 /\ 16 * (b \div 16) + (b % 16) = b
BY SMT DEF Bytes

(* Two hexadecimal digits are a byte.                                      *)
LEMMA HexPair ==
  ASSUME NEW c \in HexDigits, NEW d \in HexDigits
  PROVE  16 * HexValue(c) + HexValue(d) \in Bytes
<1>1. HexValue(c) \in 0..15 /\ HexValue(d) \in 0..15
  BY DEF HexDigits, HexValue, Digits, Uppercase
<1> QED
  BY <1>1 DEF Bytes

(* An escape is a word.                                                    *)
LEMMA EscapeTyped ==
  ASSUME NEW b \in Bytes, NEW kept
  PROVE  Escape(b, kept) \in Words
<1>1. Hex(b \div 16) \in Bytes /\ Hex(b % 16) \in Bytes /\ Percent \in Bytes
  BY Halves, HexDigit DEF Bytes, Digits, Uppercase, Percent
<1> QED
  BY <1>1 DEF Escape, Words

(* Nothing is encoded as nothing,                                          *)
LEMMA EncodeEmpty ==
  ASSUME NEW kept
  PROVE  PercentEncode(<<>>, kept) = <<>>
<1> DEFINE p == [i \in DOMAIN <<>> |-> Escape(<<>>[i], kept)]
<1>1. p = <<>>
  OBVIOUS
<1>2. FlattenSeq(p) = <<>>
  BY <1>1 DEF FlattenSeq
<1> QED
  BY <1>2 DEF PercentEncode, Escape

(* and one byte more as its escape more.                                   *)
LEMMA EncodeAppend ==
  ASSUME NEW s \in Words, NEW b \in Bytes, NEW kept
  PROVE  PercentEncode(Append(s, b), kept) = PercentEncode(s, kept) \o Escape(b, kept)
<1> DEFINE t == Append(s, b)
           n == Len(s)
           p == [i \in DOMAIN s |-> Escape(s[i], kept)]
           q == [i \in DOMAIN t |-> Escape(t[i], kept)]
<1>1. /\ t \in Words /\ n \in Nat /\ Len(t) = n + 1 /\ t[n + 1] = b
      /\ DOMAIN s = 1..n /\ DOMAIN t = 1..(n + 1)
      /\ \A i \in 1..n : t[i] = s[i] /\ s[i] \in Bytes
  BY AppendProperties, LenProperties DEF Words
<1>2. p \in Texts /\ Len(p) = n /\ \A i \in 1..n : p[i] = Escape(s[i], kept)
  BY <1>1, EscapeTyped DEF Texts
<1>3. q \in Texts /\ Len(q) = n + 1 /\ \A i \in 1..(n + 1) : q[i] = Escape(t[i], kept)
  <2>1. \A i \in 1..(n + 1) : t[i] \in Bytes
    BY <1>1
  <2> HIDE DEF t, n
  <2> QED
    BY <1>1, <2>1, EscapeTyped DEF Texts
<1>4. q = Append(p, Escape(b, kept))
  <2> DEFINE r == Append(p, Escape(b, kept))
  <2>1. /\ r \in Texts /\ Len(r) = n + 1 /\ r[n + 1] = Escape(b, kept)
        /\ \A i \in 1..n : r[i] = p[i]
    BY <1>2, EscapeTyped, AppendProperties DEF Texts
  <2> HIDE DEF p, q, r, t, n
  <2>2. \A i \in 1..(n + 1) : i \in 1..n \/ i = n + 1
    BY <1>1
  <2>3. \A i \in 1..(n + 1) : q[i] = r[i]
    BY <1>1, <1>2, <1>3, <2>1, <2>2
  <2>4. q = r
    BY <1>3, <2>1, <2>3, SeqEqual DEF Texts
  <2> QED
    BY <2>4 DEF r
<1>5. FlattenSeq(q) = FlattenSeq(p) \o Escape(b, kept)
  <2>1. FlattenSeq(Append(p, Escape(b, kept))) = FlattenSeq(p) \o Escape(b, kept)
    <3> HIDE DEF p
    <3> QED
      BY <1>2, EscapeTyped, FlattenAppend DEF Texts, Words
  <2> QED
    BY <1>4, <2>1
<1> QED
  BY <1>5 DEF PercentEncode, Escape

(* An encoding is a word.                                                  *)
LEMMA EncodeTyped ==
  ASSUME NEW s \in Words, NEW kept
  PROVE  PercentEncode(s, kept) \in Words
<1> DEFINE G == {w \in Words : PercentEncode(w, kept) \in Words}
<1>1. <<>> \in G
  <2>1. PercentEncode(<<>>, kept) = <<>>
    BY EncodeEmpty
  <2>2. <<>> \in Words
    BY EmptySeq DEF Words
  <2> QED
    BY <2>1, <2>2, Zenon
<1>2. ASSUME NEW w \in Words, NEW b \in Bytes, w \in G PROVE Append(w, b) \in G
  <2> DEFINE e == PercentEncode(w, kept)
             x == Escape(b, kept)
  <2>1. PercentEncode(Append(w, b), kept) = e \o x
    BY EncodeAppend
  <2>2. e \in Words /\ x \in Words
    BY <1>2, EscapeTyped
  <2> HIDE DEF e, x
  <2>3. e \o x \in Words /\ Append(w, b) \in Words
    BY <2>2, ConcatProperties, AppendProperties DEF Words
  <2> QED
    BY <2>1, <2>3
<1>3. s \in G
  <2> HIDE DEF G
  <2> QED
    BY <1>1, <1>2, SeqClimb DEF Words
<1> QED
  BY <1>3

(* Only kept bytes, percent signs, digits and capital letters.             *)
LEMMA EncodeBytes ==
  ASSUME NEW s \in Words, NEW kept
  PROVE  ToSet(PercentEncode(s, kept)) \subseteq kept \cup {Percent} \cup Digits \cup Uppercase
<1> DEFINE K == kept \cup {Percent} \cup Digits \cup Uppercase
           G == {w \in Words : PercentEncode(w, kept) \in Seq(K)}
<1>1. <<>> \in G
  <2>1. PercentEncode(<<>>, kept) = <<>>
    BY EncodeEmpty
  <2>2. <<>> \in Words /\ <<>> \in Seq(K)
    BY EmptySeq DEF Words
  <2> QED
    BY <2>1, <2>2, Zenon
<1>2. ASSUME NEW w \in Words, NEW b \in Bytes, w \in G PROVE Append(w, b) \in G
  <2>1. Escape(b, kept) \in Seq(K)
    <3>1. Hex(b \div 16) \in K /\ Hex(b % 16) \in K /\ Percent \in K /\ (b \in kept => b \in K)
      BY Halves, HexDigit
    <3> HIDE DEF K
    <3> QED
      BY <3>1 DEF Escape
  <2> DEFINE e == PercentEncode(w, kept)
             x == Escape(b, kept)
  <2>2. PercentEncode(Append(w, b), kept) = e \o x /\ e \in Seq(K)
    BY <1>2, EncodeAppend
  <2> HIDE DEF e, x, K
  <2>3. e \o x \in Seq(K) /\ Append(w, b) \in Words
    BY <2>1, <2>2, ConcatProperties, AppendProperties DEF Words, x
  <2> QED
    BY <2>2, <2>3
<1>3. s \in G
  <2> HIDE DEF G
  <2> QED
    BY <1>1, <1>2, SeqClimb DEF Words
<1> QED
  BY <1>3 DEF ToSet

(***************************************************************************)
(* Decoding, from the end of the text to its beginning.                    *)
(***************************************************************************)
DecodeStep(s, f, i) ==
  IF IsEscape(s, i) THEN <<16 * HexValue(s[i + 1]) + HexValue(s[i + 2])>> \o f[i + 3]
  ELSE <<s[i]>> \o f[i + 1]

(* f[i] is the decoding of what begins at byte i.                          *)
DecodeSteps(s, f, first) ==
  /\ f \in [first..(Len(s) + 1) -> Words]
  /\ f[Len(s) + 1] = <<>>
  /\ \A i \in first..Len(s) : f[i] = DecodeStep(s, f, i)

(* An escape lies within its word and stands for one byte.                 *)
LEMMA EscapeWithin ==
  ASSUME NEW s \in Words, NEW i \in 1..Len(s), IsEscape(s, i)
  PROVE  /\ i + 3 \in 1..(Len(s) + 1)
         /\ <<16 * HexValue(s[i + 1]) + HexValue(s[i + 2])>> \in Words
<1>1. Len(s) \in Nat
  BY DEF Words
<1>2. s[i + 1] \in HexDigits /\ s[i + 2] \in HexDigits /\ i + 2 <= Len(s)
  BY DEF IsEscape
<1>3. 16 * HexValue(s[i + 1]) + HexValue(s[i + 2]) \in Bytes
  BY <1>2, HexPair
<1> QED
  BY <1>1, <1>2, <1>3 DEF Words

(* Decoding goes one byte further to the front.                            *)
LEMMA DecodeOneMore ==
  ASSUME NEW s \in Words, NEW i \in 1..Len(s), NEW f, DecodeSteps(s, f, i + 1)
  PROVE  \E g : DecodeSteps(s, g, i)
<1> DEFINE n == Len(s)
           x == DecodeStep(s, f, i)
           g == [j \in i..(n + 1) |-> IF j = i THEN x ELSE f[j]]
<1>1. n \in Nat /\ i \in Nat /\ i <= n /\ s[i] \in Bytes
  BY DEF Words
<1>2. f \in [(i + 1)..(n + 1) -> Words] /\ f[n + 1] = <<>>
  BY DEF DecodeSteps
<1>3. x \in Words
  <2>1. CASE IsEscape(s, i)
    <3>1. i + 3 \in 1..(n + 1)
      BY <2>1, EscapeWithin
    <3>2. i + 3 \in (i + 1)..(n + 1)
      BY <1>1, <3>1
    <3>3. f[i + 3] \in Words
      BY <1>2, <3>2
    <3> DEFINE e == <<16 * HexValue(s[i + 1]) + HexValue(s[i + 2])>>
    <3>4. e \in Words
      BY <2>1, EscapeWithin
    <3>5. x = e \o f[i + 3]
      BY <2>1 DEF DecodeStep
    <3> HIDE DEF e, x
    <3> QED
      BY <3>3, <3>4, <3>5, ConcatProperties DEF Words
  <2>2. CASE ~IsEscape(s, i)
    <3>1. f[i + 1] \in Words /\ <<s[i]>> \in Words
      BY <1>1, <1>2 DEF Words
    <3>2. x = <<s[i]>> \o f[i + 1]
      BY <2>2 DEF DecodeStep
    <3> HIDE DEF x
    <3> QED
      BY <3>1, <3>2, ConcatProperties DEF Words
  <2> QED
    BY <2>1, <2>2
<1> HIDE DEF x
<1>4. g \in [i..(n + 1) -> Words]
  BY <1>1, <1>2, <1>3
<1>5. \A j \in (i + 1)..(n + 1) : g[j] = f[j]
  BY <1>1
<1>6. g[i] = x /\ g[n + 1] = <<>>
  BY <1>1, <1>2
<1>7. ASSUME NEW j \in i..n PROVE DecodeStep(s, g, j) = DecodeStep(s, f, j)
  <2>1. j + 1 \in (i + 1)..(n + 1) /\ (IsEscape(s, j) => j + 3 \in (i + 1)..(n + 1))
    <3>1. j \in 1..n
      BY <1>1
    <3>2. IsEscape(s, j) => j + 3 \in 1..(n + 1)
      BY <3>1, EscapeWithin
    <3> QED
      BY <1>1, <3>2
  <2>2. g[j + 1] = f[j + 1] /\ (IsEscape(s, j) => g[j + 3] = f[j + 3])
    <3> HIDE DEF g
    <3> QED
      BY <1>5, <2>1
  <2> HIDE DEF g
  <2> QED
    BY <2>2 DEF DecodeStep
<1>8. \A j \in i..n : g[j] = DecodeStep(s, g, j)
  <2>1. \A j \in i..n : j = i \/ (j \in (i + 1)..n /\ j \in (i + 1)..(n + 1))
    BY <1>1
  <2> HIDE DEF g
  <2>2. \A j \in (i + 1)..n : f[j] = DecodeStep(s, f, j)
    BY DEF DecodeSteps
  <2> QED
    BY <1>5, <1>6, <1>7, <2>1, <2>2 DEF x
<1> QED
  BY <1>4, <1>6, <1>8 DEF DecodeSteps

(* PercentDecode is what these steps come to.                              *)
LEMMA DecodeTrace ==
  ASSUME NEW s \in Words
  PROVE  \E f : DecodeSteps(s, f, 1) /\ PercentDecode(s) = f[1]
<1> DEFINE n == Len(s)
           G == {m \in 0..n : \E f : DecodeSteps(s, f, n + 1 - m)}
           eq(f) == f = [i \in 1..(n + 1) |->
                          IF i > n THEN <<>>
                          ELSE IF IsEscape(s, i)
                               THEN <<16 * HexValue(s[i + 1]) + HexValue(s[i + 2])>> \o f[i + 3]
                               ELSE <<s[i]>> \o f[i + 1]]
           eq2(f) == f = [i \in 1..(n + 1) |-> IF i > n THEN <<>> ELSE DecodeStep(s, f, i)]
<1>1. n \in Nat
  BY DEF Words
<1>2. 0 \in G
  <2> DEFINE f == [i \in (n + 1)..(n + 1) |-> <<>>]
  <2>1. f \in [(n + 1)..(n + 1) -> Words] /\ f[n + 1] = <<>> /\ (n + 1)..n = {}
    BY <1>1, EmptySeq DEF Words
  <2> HIDE DEF f
  <2>2. DecodeSteps(s, f, n + 1)
    BY <2>1 DEF DecodeSteps
  <2>3. 0 \in 0..n /\ n + 1 - 0 = n + 1
    BY <1>1
  <2> HIDE DEF n
  <2> QED
    BY <2>2, <2>3
<1>3. ASSUME NEW m \in 1..n, m - 1 \in G PROVE m \in G
  <2>1. PICK f : DecodeSteps(s, f, n + 1 - (m - 1))
    BY <1>3
  <2>2. n + 1 - m \in 1..n /\ n + 1 - (m - 1) = (n + 1 - m) + 1 /\ m \in 0..n
    BY <1>1
  <2>3. \E g : DecodeSteps(s, g, n + 1 - m)
    BY <2>1, <2>2, DecodeOneMore
  <2> HIDE DEF n
  <2> QED
    BY <2>2, <2>3
<1>4. n \in G
  <2> HIDE DEF n, G
  <2> QED
    BY <1>1, <1>2, <1>3, Climb
<1>5. PICK f : DecodeSteps(s, f, 1)
  <2>1. n + 1 - n = 1
    BY <1>1
  <2> QED
    BY <1>4, <2>1
<1>6. eq2(f)
  <2>1. f \in [1..(n + 1) -> Words] /\ f[n + 1] = <<>> /\ \A i \in 1..n : f[i] = DecodeStep(s, f, i)
    BY <1>5 DEF DecodeSteps
  <2>2. \A i \in 1..(n + 1) : IF i > n THEN i = n + 1 ELSE i \in 1..n
    BY <1>1
  <2> HIDE DEF n
  <2> QED
    BY <2>1, <2>2
<1>7. \A g : eq(g) <=> eq2(g)
  BY DEF DecodeStep
<1>8. PercentDecode(s) = (CHOOSE g : eq(g))[1]
  BY DEF PercentDecode
<1>9. PICK g : eq2(g) /\ PercentDecode(s) = g[1]
  <2> HIDE DEF eq, eq2
  <2> QED
    BY <1>6, <1>7, <1>8
<1>10. /\ DOMAIN g = 1..(n + 1) /\ g[n + 1] = <<>>
       /\ \A i \in 1..n : g[i] = DecodeStep(s, g, i)
  <2>1. \A i \in 1..n : i \in 1..(n + 1) /\ ~(i > n)
    BY <1>1
  <2>2. n + 1 \in 1..(n + 1) /\ n + 1 > n
    BY <1>1
  <2> HIDE DEF n
  <2> QED
    BY <1>9, <2>1, <2>2
<1>11. /\ f \in [1..(n + 1) -> Words] /\ f[n + 1] = <<>>
       /\ \A i \in 1..n : f[i] = DecodeStep(s, f, i)
  BY <1>5 DEF DecodeSteps
<1> DEFINE H == {m \in 0..n : \A j \in (n + 1 - m)..(n + 1) : g[j] = f[j]}
<1>12. 0 \in H
  BY <1>1, <1>10, <1>11
<1>13. ASSUME NEW m \in 1..n, m - 1 \in H PROVE m \in H
  <2> DEFINE i == n + 1 - m
  <2>1. i \in 1..n /\ \A j \in (i + 1)..(n + 1) : g[j] = f[j]
    BY <1>1, <1>13
  <2>2. i + 1 \in (i + 1)..(n + 1) /\ (IsEscape(s, i) => i + 3 \in (i + 1)..(n + 1))
    <3>1. IsEscape(s, i) => i + 3 \in 1..(n + 1)
      BY <2>1, EscapeWithin
    <3> QED
      BY <1>1, <2>1, <3>1
  <2>3. g[i + 1] = f[i + 1] /\ (IsEscape(s, i) => g[i + 3] = f[i + 3])
    BY <2>1, <2>2
  <2>4. g[i] = f[i]
    <3> HIDE DEF i, n
    <3>1. g[i] = DecodeStep(s, g, i) /\ f[i] = DecodeStep(s, f, i)
      BY <1>10, <1>11, <2>1
    <3> QED
      BY <2>3, <3>1 DEF DecodeStep
  <2>5. \A j \in i..(n + 1) : j = i \/ j \in (i + 1)..(n + 1)
    <3>1. n \in Nat /\ i \in Nat
      BY <1>1, <2>1
    <3> HIDE DEF n, i
    <3> QED
      BY <3>1
  <2>6. m \in 0..n
    BY <1>1
  <2> HIDE DEF n
  <2> QED
    BY <2>1, <2>4, <2>5, <2>6
<1>14. n \in H
  <2> HIDE DEF n, H
  <2> QED
    BY <1>1, <1>12, <1>13, Climb
<1>15. g[1] = f[1]
  <2>1. 1 \in (n + 1 - n)..(n + 1)
    BY <1>1
  <2> HIDE DEF n
  <2> QED
    BY <1>14, <2>1
<1> QED
  BY <1>5, <1>9, <1>15

(* A decoding is a word.                                                   *)
LEMMA DecodeTyped ==
  ASSUME NEW s \in Words
  PROVE  PercentDecode(s) \in Words
<1>1. PICK f : DecodeSteps(s, f, 1) /\ PercentDecode(s) = f[1]
  BY DecodeTrace
<1>2. 1 \in 1..(Len(s) + 1)
  BY DEF Words
<1> QED
  BY <1>1, <1>2 DEF DecodeSteps

(* Nothing is decoded as nothing,                                          *)
LEMMA DecodeEmpty == PercentDecode(<<>>) = <<>>
<1>1. <<>> \in Words /\ Len(<<>>) = 0
  BY EmptySeq DEF Words
<1>2. PICK f : DecodeSteps(<<>>, f, 1) /\ PercentDecode(<<>>) = f[1]
  BY <1>1, DecodeTrace
<1> QED
  BY <1>1, <1>2 DEF DecodeSteps

(* Behind a word, the rest is decoded as it is alone.                      *)
LEMMA DecodeRest ==
  ASSUME NEW s \in Words, NEW t \in Words, NEW f, DecodeSteps(s \o t, f, 1)
  PROVE  f[Len(s) + 1] = PercentDecode(t)
<1> DEFINE a == Len(s)
           n == Len(t)
           w == s \o t
<1>1. /\ a \in Nat /\ n \in Nat /\ Len(w) = a + n
      /\ \A i \in 1..n : w[a + i] = t[i]
  BY ConcatProperties DEF Words
<1>2. PICK g : DecodeSteps(t, g, 1) /\ PercentDecode(t) = g[1]
  BY DecodeTrace
<1>3. \A i \in 1..n : IsEscape(w, a + i) <=> IsEscape(t, i)
  <2> SUFFICES ASSUME NEW i \in 1..n PROVE IsEscape(w, a + i) <=> IsEscape(t, i)
    OBVIOUS
  <2> HIDE DEF a, n, w
  <2>1. a + i + 2 <= Len(w) <=> i + 2 <= n
    BY <1>1
  <2>2. w[a + i] = t[i]
    BY <1>1
  <2>3. i + 2 <= n => w[a + i + 1] = t[i + 1] /\ w[a + i + 2] = t[i + 2]
    <3>1. i + 2 <= n => i + 1 \in 1..n /\ i + 2 \in 1..n
      BY <1>1
    <3>2. a + (i + 1) = a + i + 1 /\ a + (i + 2) = a + i + 2
      BY <1>1
    <3> QED
      BY <1>1, <3>1, <3>2
  <2> QED
    BY <2>1, <2>2, <2>3 DEF IsEscape, n
<1>4. /\ f[a + n + 1] = <<>> /\ g[n + 1] = <<>>
      /\ \A i \in 1..n : f[a + i] = DecodeStep(w, f, a + i) /\ g[i] = DecodeStep(t, g, i)
  <2>1. \A i \in 1..n : a + i \in 1..Len(w)
    BY <1>1
  <2>2. /\ f[Len(w) + 1] = <<>>
        /\ \A i \in 1..Len(w) : f[i] = DecodeStep(w, f, i)
    BY DEF DecodeSteps
  <2>3. /\ g[n + 1] = <<>>
        /\ \A i \in 1..n : g[i] = DecodeStep(t, g, i)
    BY <1>2 DEF DecodeSteps
  <2> HIDE DEF a, n, w
  <2> QED
    BY <1>1, <2>1, <2>2, <2>3
<1> DEFINE H == {m \in 0..n : \A j \in (n + 1 - m)..(n + 1) : f[a + j] = g[j]}
<1>5. 0 \in H
  <2>1. \A j \in (n + 1 - 0)..(n + 1) : j = n + 1 /\ a + j = a + n + 1
    BY <1>1
  <2>2. 0 \in 0..n
    BY <1>1
  <2> HIDE DEF a, n, w
  <2> QED
    BY <1>4, <2>1, <2>2
<1>6. ASSUME NEW m \in 1..n, m - 1 \in H PROVE m \in H
  <2> DEFINE i == n + 1 - m
  <2>1. i \in 1..n /\ \A j \in (i + 1)..(n + 1) : f[a + j] = g[j]
    BY <1>1, <1>6
  <2>2. i + 1 \in (i + 1)..(n + 1) /\ (IsEscape(t, i) => i + 3 \in (i + 1)..(n + 1))
    <3>1. IsEscape(t, i) => i + 3 \in 1..(n + 1)
      BY <2>1, EscapeWithin
    <3> QED
      BY <1>1, <2>1, <3>1
  <2>3. a + (i + 1) = a + i + 1 /\ a + (i + 2) = a + i + 2 /\ a + (i + 3) = a + i + 3
    BY <1>1, <2>1
  <2>4. f[a + i + 1] = g[i + 1] /\ (IsEscape(t, i) => f[a + i + 3] = g[i + 3])
    <3> HIDE DEF i, a, n, w
    <3> QED
      BY <2>1, <2>2, <2>3
  <2>5. IsEscape(t, i) => w[a + i + 1] = t[i + 1] /\ w[a + i + 2] = t[i + 2]
    <3>1. IsEscape(t, i) => i + 1 \in 1..n /\ i + 2 \in 1..n
      BY <1>1, <2>1 DEF IsEscape
    <3> HIDE DEF i, a, n, w
    <3> QED
      BY <1>1, <2>3, <3>1
  <2>6. w[a + i] = t[i]
    BY <1>1, <2>1
  <2>7. f[a + i] = g[i]
    <3> HIDE DEF i, a, n, w
    <3>1. f[a + i] = DecodeStep(w, f, a + i) /\ g[i] = DecodeStep(t, g, i)
      BY <1>4, <2>1
    <3>2. IsEscape(w, a + i) <=> IsEscape(t, i)
      BY <1>3, <2>1
    <3> QED
      BY <2>4, <2>5, <2>6, <3>1, <3>2 DEF DecodeStep
  <2>8. \A j \in i..(n + 1) : j = i \/ j \in (i + 1)..(n + 1)
    <3>1. n \in Nat /\ i \in Nat
      BY <1>1, <2>1
    <3> HIDE DEF n, i
    <3> QED
      BY <3>1
  <2>9. m \in 0..n
    BY <1>1
  <2> HIDE DEF n, a, w
  <2> QED
    BY <2>1, <2>7, <2>8, <2>9
<1>7. n \in H
  <2>1. n \in Nat
    BY <1>1
  <2> HIDE DEF n, H
  <2> QED
    BY <2>1, <1>5, <1>6, Climb
<1>8. 1 \in (n + 1 - n)..(n + 1)
  BY <1>1
<1> HIDE DEF n, a, w
<1> QED
  BY <1>2, <1>7, <1>8 DEF a

(* a byte that is no percent sign as itself,                               *)
LEMMA DecodeByte ==
  ASSUME NEW b \in Bytes, b # Percent, NEW t \in Words
  PROVE  PercentDecode(<<b>> \o t) = <<b>> \o PercentDecode(t)
<1> DEFINE w == <<b>> \o t
<1>1. <<b>> \in Words /\ Len(<<b>>) = 1 /\ w \in Words /\ w[1] = b /\ 1 \in 1..Len(w)
  BY ConcatProperties DEF Words
<1>2. PICK f : DecodeSteps(w, f, 1) /\ PercentDecode(w) = f[1]
  BY <1>1, DecodeTrace
<1>3. ~IsEscape(w, 1)
  BY <1>1 DEF IsEscape
<1>4. f[1] = <<b>> \o f[2]
  <2>1. f[1] = DecodeStep(w, f, 1)
    BY <1>1, <1>2 DEF DecodeSteps
  <2> HIDE DEF w
  <2> QED
    BY <1>1, <1>3, <2>1 DEF DecodeStep
<1>5. f[2] = PercentDecode(t)
  <2> DEFINE u == <<b>>
  <2>1. f[Len(u) + 1] = PercentDecode(t)
    <3> HIDE DEF u
    <3> QED
      BY <1>1, <1>2, DecodeRest DEF u
  <2> QED
    BY <1>1, <2>1
<1> QED
  BY <1>2, <1>4, <1>5

(* and an escape as the byte it was made from.                             *)
LEMMA DecodeEscape ==
  ASSUME NEW b \in Bytes, NEW kept, Percent \notin kept, NEW t \in Words
  PROVE  PercentDecode(Escape(b, kept) \o t) = <<b>> \o PercentDecode(t)
<1>1. CASE b \in kept
  BY <1>1, DecodeByte DEF Escape
<1>2. CASE b \notin kept
  <2> DEFINE h == Hex(b \div 16)
             l == Hex(b % 16)
             u == <<Percent, h, l>>
             w == u \o t
  <2>1. /\ h \in HexDigits /\ l \in HexDigits /\ 16 * HexValue(h) + HexValue(l) = b
        /\ h \in Bytes /\ l \in Bytes /\ Percent \in Bytes
    <3>1. /\ h \in HexDigits /\ HexValue(h) = b \div 16 /\ h \in Digits \cup Uppercase
          /\ l \in HexDigits /\ HexValue(l) = b % 16 /\ l \in Digits \cup Uppercase
      BY Halves, HexDigit
    <3>2. 16 * HexValue(h) + HexValue(l) = b
      BY <3>1, Halves
    <3> QED
      BY <3>1, <3>2 DEF Bytes, Percent, Digits, Uppercase
  <2> HIDE DEF h, l
  <2>2. u \in Words /\ Len(u) = 3
    BY <2>1 DEF Words
  <2>3. /\ w \in Words /\ w[1] = Percent /\ w[2] = h /\ w[3] = l /\ 3 <= Len(w) /\ 1 \in 1..Len(w)
    BY <2>1, <2>2, ConcatProperties DEF Words
  <2>4. PICK f : DecodeSteps(w, f, 1) /\ PercentDecode(w) = f[1]
    BY <2>3, DecodeTrace
  <2>5. f[4] = PercentDecode(t)
    <3>1. f[Len(u) + 1] = PercentDecode(t)
      <4> HIDE DEF u
      <4> QED
        BY <2>2, <2>4, DecodeRest DEF w
    <3> QED
      BY <2>2, <3>1
  <2> HIDE DEF w
  <2>6. IsEscape(w, 1)
    BY <2>1, <2>3 DEF IsEscape
  <2>7. f[1] = <<16 * HexValue(w[2]) + HexValue(w[3])>> \o f[4]
    <3>1. f[1] = DecodeStep(w, f, 1)
      BY <2>3, <2>4 DEF DecodeSteps
    <3> QED
      BY <2>6, <3>1 DEF DecodeStep
  <2> QED
    BY <1>2, <2>1, <2>3, <2>4, <2>5, <2>7 DEF Escape, h, l, w
<1> QED
  BY <1>1, <1>2

(* What is encoded comes back, if the percent sign is encoded too.         *)
LEMMA EncodeDecode ==
  ASSUME NEW s \in Words, NEW kept, Percent \notin kept
  PROVE  PercentDecode(PercentEncode(s, kept)) = s
<1> DEFINE G == {w \in Words :
                   \A t \in Words : PercentDecode(PercentEncode(w, kept) \o t) = w \o PercentDecode(t)}
<1>1. <<>> \in G
  <2>1. PercentEncode(<<>>, kept) = <<>> /\ <<>> \in Words
    BY EncodeEmpty, EmptySeq DEF Words
  <2>2. \A t \in Words : <<>> \o t = t /\ <<>> \o PercentDecode(t) = PercentDecode(t)
    BY DecodeTyped, ConcatEmptySeq DEF Words
  <2> QED
    BY <2>1, <2>2
<1>2. ASSUME NEW w \in Words, NEW b \in Bytes, w \in G PROVE Append(w, b) \in G
  <2>1. Append(w, b) \in Words
    BY AppendProperties DEF Words
  <2>2. ASSUME NEW t \in Words
        PROVE  PercentDecode(PercentEncode(Append(w, b), kept) \o t) = Append(w, b) \o PercentDecode(t)
    <3> DEFINE e == PercentEncode(w, kept)
               x == Escape(b, kept)
               d == PercentDecode(t)
    <3>1. e \in Words /\ x \in Words /\ d \in Words /\ <<b>> \in Words
      BY EncodeTyped, EscapeTyped, DecodeTyped DEF Words
    <3>2. PercentEncode(Append(w, b), kept) = e \o x
      BY EncodeAppend
    <3>3. PercentDecode(x \o t) = <<b>> \o d
      BY DecodeEscape
    <3>4. \A y \in Words : PercentDecode(e \o y) = w \o PercentDecode(y)
      BY <1>2
    <3>5. (e \o x) \o t = e \o (x \o t) /\ x \o t \in Words
      <4> HIDE DEF e, x
      <4>1. e \in Words /\ x \in Words /\ t \in Words
        BY <3>1
      <4>2. (e \o x) \o t = e \o (x \o t)
        BY ONLY <4>1, Associate, SMTT(20)
      <4>3. x \o t \in Words
        BY <4>1, ConcatProperties DEF Words
      <4> QED
        BY <4>2, <4>3
    <3>6. w \o (<<b>> \o d) = Append(w, b) \o d
      <4> HIDE DEF d
      <4> DEFINE v == <<b>>
      <4>1. (w \o v) \o d = w \o (v \o d)
        <5>1. w \in Words /\ v \in Words /\ d \in Words
          BY <3>1
        <5> HIDE DEF v
        <5> QED
          BY ONLY <5>1, Associate
      <4> QED
        BY <4>1, ConcatOne DEF Words
    <3> HIDE DEF e, x, d
    <3> QED
      BY <3>2, <3>3, <3>4, <3>5, <3>6 DEF d
  <2> QED
    BY <2>1, <2>2
<1>3. s \in G
  <2> HIDE DEF G
  <2> QED
    BY <1>1, <1>2, SeqClimb DEF Words
<1>4. PercentDecode(PercentEncode(s, kept) \o <<>>) = s \o PercentDecode(<<>>)
  BY <1>3, EmptySeq DEF Words
<1> QED
  BY <1>4, DecodeEmpty, EncodeTyped, ConcatEmptySeq DEF Words

(* What has only bytes that are kept is its own encoding.                  *)
LEMMA EncodeKept ==
  ASSUME NEW s \in Words, NEW kept, ToSet(s) \subseteq kept
  PROVE  PercentEncode(s, kept) = s
<1> DEFINE G == {w \in Words : ToSet(w) \subseteq kept => PercentEncode(w, kept) = w}
<1>1. <<>> \in G
  <2>1. PercentEncode(<<>>, kept) = <<>> /\ <<>> \in Words
    BY EncodeEmpty, EmptySeq DEF Words
  <2> QED
    BY <2>1
<1>2. ASSUME NEW w \in Words, NEW b \in Bytes, w \in G PROVE Append(w, b) \in G
  <2>1. Append(w, b) \in Words /\ w \o <<b>> = Append(w, b)
    BY AppendProperties, ConcatOne DEF Words
  <2>2. ASSUME ToSet(Append(w, b)) \subseteq kept PROVE PercentEncode(Append(w, b), kept) = Append(w, b)
    <3>1. ToSet(w) \subseteq kept /\ b \in kept
      <4>1. /\ Len(w) \in Nat /\ DOMAIN w = 1..Len(w) /\ DOMAIN Append(w, b) = 1..(Len(w) + 1)
            /\ \A i \in 1..Len(w) : Append(w, b)[i] = w[i]
            /\ Append(w, b)[Len(w) + 1] = b
        BY AppendProperties DEF Words
      <4>2. Len(w) + 1 \in 1..(Len(w) + 1) /\ \A i \in 1..Len(w) : i \in 1..(Len(w) + 1)
        BY <4>1
      <4> QED
        BY <2>2, <4>1, <4>2 DEF ToSet
    <3>2. PercentEncode(w, kept) = w
      BY <1>2, <3>1
    <3>3. Escape(b, kept) = <<b>>
      BY <3>1 DEF Escape
    <3>4. PercentEncode(Append(w, b), kept) = PercentEncode(w, kept) \o Escape(b, kept)
      BY EncodeAppend
    <3>5. w \o <<b>> = Append(w, b)
      BY ConcatOne DEF Words
    <3> QED
      BY <2>1, <3>2, <3>3, <3>4, <3>5
  <2> QED
    BY <2>1, <2>2
<1>3. s \in G
  <2> HIDE DEF G
  <2> QED
    BY <1>1, <1>2, SeqClimb DEF Words
<1> QED
  BY <1>3

(* What has no percent sign is its own decoding.                           *)
LEMMA DecodePlain ==
  ASSUME NEW s \in Words, Percent \notin ToSet(s)
  PROVE  PercentDecode(s) = s
<1>1. ToSet(s) \subseteq Bytes \ {Percent}
  BY DEF Words, ToSet
<1> QED
  BY <1>1, EncodeKept, EncodeDecode

(***************************************************************************)
(* Join, and that it undoes Split.                                         *)
(***************************************************************************)
Marks(pieces, c) == [j \in DOMAIN pieces |-> <<c>> \o pieces[j]]

(* The pieces, each behind a separator.                                    *)
LEMMA MarksTyped ==
  ASSUME NEW p \in Texts, NEW c \in Bytes
  PROVE  /\ Marks(p, c) \in Texts /\ Len(Marks(p, c)) = Len(p)
         /\ \A j \in 1..Len(p) : Marks(p, c)[j] = <<c>> \o p[j]
         /\ FlattenSeq(Marks(p, c)) \in Words
<1>1. Len(p) \in Nat /\ DOMAIN p = 1..Len(p) /\ \A j \in 1..Len(p) : p[j] \in Words
  BY DEF Texts
<1>2. \A j \in 1..Len(p) : <<c>> \o p[j] \in Words
  <2>1. <<c>> \in Words
    BY DEF Words
  <2> QED
    BY <1>1, <2>1, ConcatProperties DEF Words
<1>3. Marks(p, c) \in Texts /\ Len(Marks(p, c)) = Len(p)
  BY <1>1, <1>2 DEF Marks, Texts
<1>4. \A j \in 1..Len(p) : Marks(p, c)[j] = <<c>> \o p[j]
  BY <1>1 DEF Marks
<1> QED
  BY <1>3, <1>4, FlattenTyped DEF Texts, Words

(* No pieces, no separators;                                               *)
LEMMA MarksEmpty ==
  ASSUME NEW c
  PROVE  FlattenSeq(Marks(<<>>, c)) = <<>>
<1>1. Marks(<<>>, c) = <<>>
  BY DEF Marks
<1> QED
  BY <1>1 DEF FlattenSeq

(* one piece more, one separator more.                                     *)
LEMMA MarksAppend ==
  ASSUME NEW p \in Texts, NEW w \in Words, NEW c \in Bytes
  PROVE  FlattenSeq(Marks(Append(p, w), c)) = FlattenSeq(Marks(p, c)) \o (<<c>> \o w)
<1> DEFINE q == Append(p, w)
           n == Len(p)
           x == <<c>> \o w
           l == Marks(q, c)
           r == Append(Marks(p, c), x)
<1>1. /\ q \in Texts /\ n \in Nat /\ Len(q) = n + 1 /\ q[n + 1] = w
      /\ \A i \in 1..n : q[i] = p[i]
  BY AppendProperties DEF Texts
<1>2. x \in Words
  BY ConcatProperties DEF Words
<1>3. /\ l \in Texts /\ Len(l) = n + 1 /\ \A j \in 1..(n + 1) : l[j] = <<c>> \o q[j]
      /\ Marks(p, c) \in Texts /\ Len(Marks(p, c)) = n /\ \A j \in 1..n : Marks(p, c)[j] = <<c>> \o p[j]
  <2> HIDE DEF q
  <2> QED
    BY <1>1, MarksTyped
<1>4. /\ r \in Texts /\ Len(r) = n + 1 /\ r[n + 1] = x
      /\ \A i \in 1..n : r[i] = Marks(p, c)[i]
  <2> HIDE DEF x
  <2> QED
    BY <1>2, <1>3, AppendProperties DEF Texts
<1>5. l = r
  <2> HIDE DEF q, l, r, n
  <2>1. \A i \in 1..(n + 1) : i \in 1..n \/ i = n + 1
    BY <1>1
  <2>2. ASSUME NEW i \in 1..n PROVE l[i] = r[i]
    <3>1. i \in 1..(n + 1)
      BY <1>1
    <3>2. l[i] = <<c>> \o q[i]
      BY <1>3, <3>1
    <3>3. r[i] = <<c>> \o p[i]
      BY <1>3, <1>4
    <3> QED
      BY <1>1, <3>2, <3>3
  <2>3. l[n + 1] = r[n + 1]
    BY <1>1, <1>3, <1>4
  <2>4. \A i \in 1..(n + 1) : l[i] = r[i]
    BY <2>1, <2>2, <2>3
  <2> QED
    BY <1>3, <1>4, <2>4, SeqEqual DEF Texts
<1>6. FlattenSeq(r) = FlattenSeq(Marks(p, c)) \o x
  <2> HIDE DEF x
  <2> QED
    BY <1>2, <1>3, FlattenAppend DEF Texts, Words
<1> QED
  BY <1>5, <1>6

(* Join leaves out the first separator.                                    *)
LEMMA JoinMarks ==
  ASSUME NEW p \in Texts \ {<<>>}, NEW c \in Bytes
  PROVE  /\ Join(p, c) \in Words
         /\ <<c>> \o Join(p, c) = FlattenSeq(Marks(p, c))
<1> DEFINE G == {q \in Texts : q # <<>> => /\ FlattenSeq(Marks(q, c)) # <<>>
                                           /\ FlattenSeq(Marks(q, c))[1] = c}
<1>1. <<>> \in G
  BY EmptySeq DEF Texts
<1>2. ASSUME NEW q \in Texts, NEW w \in Words, q \in G PROVE Append(q, w) \in G
  <2> DEFINE f == FlattenSeq(Marks(q, c))
             x == <<c>> \o w
  <2>1. f \in Words /\ x \in Words /\ x # <<>> /\ x[1] = c /\ Len(x) \in Nat \ {0}
    <3>1. <<c>> \in Words /\ Len(<<c>>) = 1 /\ Len(w) \in Nat
      BY DEF Words
    <3>2. x \in Words /\ Len(x) = 1 + Len(w) /\ x[1] = c
      BY <3>1, ConcatProperties DEF Words
    <3>3. f \in Words
      BY <1>2, MarksTyped
    <3> HIDE DEF x, f
    <3>4. Len(x) \in Nat \ {0}
      BY <3>1, <3>2
    <3>5. x # <<>>
      BY <3>4, EmptySeq
    <3> QED
      BY <3>2, <3>3, <3>4, <3>5
  <2>2. f # <<>> => f[1] = c /\ Len(f) \in Nat \ {0}
    <3>1. CASE q = <<>>
      BY <3>1, MarksEmpty
    <3>2. CASE q # <<>>
      <4> HIDE DEF x
      <4> QED
        BY <1>2, <2>1, <3>2, EmptySeq DEF Words
    <3> QED
      BY <3>1, <3>2
  <2>3. FlattenSeq(Marks(Append(q, w), c)) = f \o x
    BY MarksAppend
  <2>4. (f \o x) # <<>> /\ (f \o x)[1] = c
    <3> HIDE DEF f, x
    <3>1. Len(f \o x) = Len(f) + Len(x) /\ Len(f) \in Nat
      BY <2>1, ConcatProperties DEF Words
    <3>2. (f \o x) # <<>>
      BY <2>1, <3>1
    <3>3. CASE f = <<>>
      BY <2>1, <3>3, ConcatEmptySeq DEF Words
    <3>4. CASE f # <<>>
      <4>1. 1 \in 1..(Len(f) + Len(x)) /\ 1 <= Len(f)
        BY <2>1, <2>2, <3>4
      <4>2. (f \o x)[1] = f[1]
        BY <2>1, <4>1, ConcatProperties DEF Words
      <4> QED
        BY <2>2, <3>2, <3>4, <4>2
    <3> QED
      BY <3>2, <3>3, <3>4
  <2>5. Append(q, w) \in Texts
    BY AppendProperties DEF Texts
  <2> HIDE DEF f, x
  <2> QED
    BY <2>3, <2>4, <2>5
<1>3. p \in G
  <2> HIDE DEF G
  <2> QED
    BY <1>1, <1>2, SeqClimb DEF Texts
<1> DEFINE f == FlattenSeq(Marks(p, c))
<1>4. f \in Words /\ f # <<>> /\ f[1] = c
  BY <1>3, MarksTyped
<1>5. Join(p, c) = Tail(f)
  BY DEF Join, Marks
<1>6. Tail(f) \in Words /\ <<c>> \o Tail(f) = f
  <2> HIDE DEF f
  <2>1. /\ Tail(f) \in Words /\ Len(Tail(f)) = Len(f) - 1 /\ Len(f) \in Nat
        /\ \A i \in 1..Len(Tail(f)) : Tail(f)[i] = f[i + 1]
    BY <1>4, HeadTailProperties, LenProperties DEF Words
  <2> DEFINE t == Tail(f)
             g == <<c>> \o t
  <2> HIDE DEF t
  <2>2. <<c>> \in Words /\ Len(<<c>>) = 1 /\ <<c>>[1] = c
    BY DEF Words
  <2>3. /\ g \in Words /\ Len(g) = 1 + Len(t)
        /\ \A i \in 1..(1 + Len(t)) : g[i] = IF i <= 1 THEN <<c>>[i] ELSE t[i - 1]
    BY <2>1, <2>2, ConcatProperties DEF Words, t
  <2> HIDE DEF g
  <2>4. Len(t) \in Nat /\ Len(f) = 1 + Len(t) /\ \A i \in 1..Len(t) : t[i] = f[i + 1]
    BY <1>4, <2>1, LenProperties DEF t, Words
  <2>5. \A i \in 1..(1 + Len(t)) : g[i] = f[i]
    <3> SUFFICES ASSUME NEW i \in 1..(1 + Len(t)) PROVE g[i] = f[i]
      OBVIOUS
    <3>1. CASE i = 1
      BY <1>4, <2>2, <2>3, <3>1
    <3>2. CASE i # 1
      <4>1. i - 1 \in 1..Len(t) /\ (i - 1) + 1 = i /\ ~(i <= 1)
        BY <2>4, <3>2
      <4>2. g[i] = t[i - 1] /\ t[i - 1] = f[(i - 1) + 1]
        BY <2>3, <2>4, <4>1
      <4> QED
        BY <4>1, <4>2
    <3> QED
      BY <3>1, <3>2
  <2>6. g = f
    BY <1>4, <2>3, <2>4, <2>5, SeqEqual DEF Words
  <2> QED
    BY <2>1, <2>6 DEF g, t
<1> QED
  BY <1>5, <1>6

(* Texts that are equal behind the same byte are equal.                    *)
LEMMA CancelFirst ==
  ASSUME NEW s \in Words, NEW t \in Words, NEW c \in Bytes, <<c>> \o s = <<c>> \o t
  PROVE  s = t
<1>1. \A u, v, w \in Words : w \o u = w \o v => u = v
  BY ConcatSimplifications, Zenon DEF Words
<1>2. <<c>> \in Words
  BY DEF Words
<1> QED
  BY <1>1, <1>2

(* One piece alone is joined to itself.                                    *)
LEMMA JoinOne ==
  ASSUME NEW w \in Words, NEW c \in Bytes
  PROVE  Join(<<w>>, c) = w
<1>1. <<w>> \in Texts \ {<<>>} /\ <<>> \in Texts /\ <<w>> = Append(<<>>, w) /\ <<c>> \in Words
  BY DEF Texts, Words
<1>2. FlattenSeq(Marks(<<w>>, c)) = <<>> \o (<<c>> \o w)
  BY <1>1, MarksAppend, MarksEmpty
<1>3. <<>> \o (<<c>> \o w) = <<c>> \o w
  BY <1>1, ConcatProperties, ConcatEmptySeq DEF Words
<1>4. Join(<<w>>, c) \in Words /\ <<c>> \o Join(<<w>>, c) = <<c>> \o w
  BY <1>1, <1>2, <1>3, JoinMarks
<1> DEFINE j == Join(<<w>>, c)
<1> HIDE DEF j
<1>5. j = w
  BY <1>4, CancelFirst DEF j
<1> QED
  BY <1>5 DEF j

(* Pieces behind pieces, with their separators,                            *)
LEMMA MarksConcat ==
  ASSUME NEW p \in Texts, NEW q \in Texts, NEW c \in Bytes
  PROVE  FlattenSeq(Marks(p \o q, c)) = FlattenSeq(Marks(p, c)) \o FlattenSeq(Marks(q, c))
<1> DEFINE fp == FlattenSeq(Marks(p, c))
           G == {u \in Texts : FlattenSeq(Marks(p \o u, c)) = fp \o FlattenSeq(Marks(u, c))}
<1>1. <<>> \in G
  <2>1. p \o <<>> = p /\ fp \o <<>> = fp /\ <<>> \in Texts
    BY MarksTyped, ConcatEmptySeq, EmptySeq DEF Texts, Words
  <2> QED
    BY <2>1, MarksEmpty
<1>2. ASSUME NEW u \in Texts, NEW w \in Words, u \in G PROVE Append(u, w) \in G
  <2> DEFINE v == p \o u
             x == <<c>> \o w
             fu == FlattenSeq(Marks(u, c))
  <2>1. p \o Append(u, w) = Append(v, w) /\ v \in Texts /\ Append(u, w) \in Texts
    BY ConcatAppend, ConcatProperties, AppendProperties DEF Texts
  <2>2. FlattenSeq(Marks(Append(v, w), c)) = FlattenSeq(Marks(v, c)) \o x
    <3> HIDE DEF v
    <3> QED
      BY <2>1, MarksAppend
  <2>3. FlattenSeq(Marks(v, c)) = fp \o fu
    BY <1>2
  <2>4. FlattenSeq(Marks(Append(u, w), c)) = fu \o x
    BY MarksAppend
  <2>5. (fp \o fu) \o x = fp \o (fu \o x)
    <3>1. fp \in Words /\ fu \in Words /\ x \in Words
      <4>1. fp \in Words /\ fu \in Words
        BY MarksTyped
      <4>2. x \in Words
        BY ConcatProperties DEF Words
      <4> QED
        BY <4>1, <4>2
    <3> HIDE DEF fp, fu, x
    <3> QED
      BY <3>1, Associate, Zenon
  <2> HIDE DEF fp, fu, x, v
  <2> QED
    BY <2>1, <2>2, <2>3, <2>4, <2>5
<1>3. q \in G
  <2> HIDE DEF G
  <2> QED
    BY <1>1, <1>2, SeqClimb DEF Texts
<1> QED
  BY <1>3

(* are joined with one between them.                                       *)
LEMMA JoinConcat ==
  ASSUME NEW p \in Texts \ {<<>>}, NEW q \in Texts \ {<<>>}, NEW c \in Bytes
  PROVE  Join(p \o q, c) = Append(Join(p, c), c) \o Join(q, c)
<1> DEFINE r == p \o q
           a == Join(p, c)
           b == Join(q, c)
<1>1. r \in Texts \ {<<>>}
  BY ConcatProperties, ConcatEqualIffEmpty DEF Texts
<1>2. a \in Words /\ b \in Words /\ <<c>> \in Words /\ Join(r, c) \in Words
  <2>1. a \in Words /\ b \in Words
    BY JoinMarks
  <2>2. Join(r, c) \in Words
    BY <1>1, JoinMarks
  <2>3. <<c>> \in Words
    BY DEF Words
  <2> QED
    BY <2>1, <2>2, <2>3
<1>3. <<c>> \o Join(r, c) = (<<c>> \o a) \o (<<c>> \o b)
  <2>1. <<c>> \o a = FlattenSeq(Marks(p, c)) /\ <<c>> \o b = FlattenSeq(Marks(q, c))
    BY JoinMarks
  <2>2. <<c>> \o Join(r, c) = FlattenSeq(Marks(r, c))
    BY <1>1, JoinMarks
  <2> QED
    BY <2>1, <2>2, MarksConcat
<1> HIDE DEF r, a, b
<1>4. (<<c>> \o a) \o (<<c>> \o b) = <<c>> \o (Append(a, c) \o b) /\ Append(a, c) \o b \in Words
  <2> DEFINE x == <<c>>
  <2>1. x \o b \in Words /\ a \o x \in Words /\ Append(a, c) = a \o x
    BY <1>2, ConcatProperties, ConcatOne DEF Words
  <2> HIDE DEF x
  <2>2. x \in Words
    BY <1>2 DEF x
  <2> DEFINE y == x \o b
  <2>3. (x \o a) \o y = x \o (a \o y)
    <3>1. x \in Words /\ a \in Words /\ y \in Words
      BY <1>2, <2>1, <2>2
    <3> HIDE DEF y
    <3> QED
      BY ONLY <3>1, Associate
  <2>4. a \o (x \o b) = (a \o x) \o b
    <3>1. x \in Words /\ a \in Words /\ b \in Words
      BY <1>2, <2>2
    <3> QED
      BY ONLY <3>1, Associate
  <2>5. (a \o x) \o b \in Words
    BY <1>2, <2>1, ConcatProperties DEF Words
  <2> QED
    BY <2>1, <2>3, <2>4, <2>5 DEF x
<1> DEFINE j == Join(r, c)
           k == Append(a, c) \o b
<1>5. j \in Words /\ k \in Words /\ <<c>> \o j = <<c>> \o k
  BY <1>2, <1>3, <1>4
<1>6. j = k
  <2> HIDE DEF j, k
  <2> QED
    BY <1>5, CancelFirst
<1> QED
  BY <1>6 DEF r, a, b

(* What is split and joined again is what it was.                          *)
LEMMA JoinSplit ==
  ASSUME NEW s \in Words, NEW c \in Bytes
  PROVE  Join(Split(s, c), c) = s
<1> DEFINE G == {w \in Words : FlattenSeq(Marks(Split(w, c), c)) = <<c>> \o w}
<1>1. <<>> \in G
  <2>1. <<>> \in Words /\ <<>> \in Texts /\ << <<>> >> = Append(<<>>, <<>>) /\ <<c>> \o <<>> = <<c>> /\ <<>> \o <<c>> = <<c>>
    BY DEF Words, Texts
  <2>2. FlattenSeq(Marks(<< <<>> >>, c)) = <<>> \o (<<c>> \o <<>>)
    <3>1. FlattenSeq(Marks(Append(<<>>, <<>>), c)) = FlattenSeq(Marks(<<>>, c)) \o (<<c>> \o <<>>)
      BY <2>1, MarksAppend
    <3> QED
      BY <2>1, <3>1, MarksEmpty
  <2> QED
    BY <2>1, <2>2, SplitEmpty
<1>2. ASSUME NEW w \in Words, NEW b \in Bytes, w \in G PROVE Append(w, b) \in G
  <2> DEFINE p == Split(w, c)
  <2>1. p \in Texts \ {<<>>} /\ Split(Append(w, b), c) = SplitStep(p, b, c)
        /\ FlattenSeq(Marks(p, c)) = <<c>> \o w /\ Append(w, b) \in Words
    BY <1>2, SplitTyped, SplitAppend, AppendProperties DEF Words
  <2> HIDE DEF p
  <2>2. <<c>> \in Words /\ <<>> \in Words /\ <<c>> \o w \in Words /\ <<c>> \o <<>> = <<c>>
    BY ConcatProperties DEF Words
  <2>3. <<c>> \o Append(w, b) = Append(<<c>> \o w, b)
    BY <2>2, ConcatAppend DEF Words
  <2>4. CASE b = c
    <3>3. FlattenSeq(Marks(Append(p, <<>>), c)) = FlattenSeq(Marks(p, c)) \o (<<c>> \o <<>>)
      BY <2>1, <2>2, MarksAppend
    <3>1. FlattenSeq(Marks(Append(p, <<>>), c)) = (<<c>> \o w) \o <<c>>
      BY <2>1, <2>2, <3>3
    <3> DEFINE x == <<c>> \o w
    <3>2. x \o <<c>> = Append(x, c)
      <4> HIDE DEF x
      <4> QED
        BY <2>2, ConcatOne DEF x, Words
    <3> QED
      BY <2>1, <2>3, <2>4, <3>1, <3>2 DEF SplitStep
  <2>5. CASE b # c
    <3> DEFINE f == Front(p)
               l == Last(p)
               m == FlattenSeq(Marks(f, c))
               x == <<c>> \o l
    <3>1. f \in Texts /\ l \in Words /\ p = Append(f, l)
      BY <2>1, FrontLast DEF Texts
    <3>2. SplitStep(p, b, c) = Append(f, Append(l, b)) /\ Append(l, b) \in Words
      BY <2>5, <3>1, AppendProperties DEF SplitStep, Words
    <3> HIDE DEF f, l
    <3>3. m \o x = <<c>> \o w
      BY <2>1, <3>1, MarksAppend
    <3>4. FlattenSeq(Marks(Append(f, Append(l, b)), c)) = m \o (<<c>> \o Append(l, b))
      BY <3>1, <3>2, MarksAppend
    <3>5. <<c>> \o Append(l, b) = Append(x, b) /\ x \in Words /\ m \in Words
      <4>1. <<c>> \in Words
        BY DEF Words
      <4>2. <<c>> \o Append(l, b) = Append(x, b)
        BY <3>1, <4>1, ConcatAppend DEF Words
      <4>3. x \in Words
        BY <3>1, <4>1, ConcatProperties DEF Words
      <4>4. m \in Words
        BY <3>1, MarksTyped
      <4> QED
        BY <4>2, <4>3, <4>4
    <3>6. m \o Append(x, b) = Append(m \o x, b)
      <4> HIDE DEF m, x
      <4> QED
        BY <3>5, ConcatAppend DEF Words
    <3> HIDE DEF m, x
    <3> QED
      BY <2>1, <2>3, <3>2, <3>3, <3>4, <3>5, <3>6
  <2> QED
    BY <2>4, <2>5
<1>3. s \in G
  <2> HIDE DEF G
  <2> QED
    BY <1>1, <1>2, SeqClimb DEF Words
<1> DEFINE p == Split(s, c)
           j == Join(p, c)
<1>4. p \in Texts \ {<<>>}
  BY SplitTyped
<1>5. j \in Words /\ <<c>> \o j = FlattenSeq(Marks(p, c))
  <2> HIDE DEF p
  <2> QED
    BY <1>4, JoinMarks
<1>6. <<c>> \o j = <<c>> \o s
  BY <1>3, <1>5
<1>7. j = s
  <2> HIDE DEF j
  <2> QED
    BY <1>5, <1>6, CancelFirst
<1> QED
  BY <1>7

(* Only nothing is decoded as nothing.                                     *)
LEMMA DecodeNonEmpty ==
  ASSUME NEW s \in Words, s # <<>>
  PROVE  PercentDecode(s) # <<>>
<1>1. PICK f : DecodeSteps(s, f, 1) /\ PercentDecode(s) = f[1]
  BY DecodeTrace
<1>2. Len(s) \in Nat \ {0} /\ 1 \in 1..Len(s) /\ s[1] \in Bytes
  BY EmptySeq DEF Words
<1>3. \A b \in Bytes, w \in Words : <<b>> \o w # <<>>
  <2> SUFFICES ASSUME NEW b \in Bytes, NEW w \in Words PROVE <<b>> \o w # <<>>
    OBVIOUS
  <2>1. <<b>> \in Words /\ <<b>> # <<>>
    BY DEF Words
  <2> QED
    BY <2>1, ConcatEqualIffEmpty DEF Words
<1>4. f \in [1..(Len(s) + 1) -> Words] /\ f[1] = DecodeStep(s, f, 1)
  BY <1>1, <1>2 DEF DecodeSteps
<1>5. CASE IsEscape(s, 1)
  <2>1. 1 + 3 \in 1..(Len(s) + 1)
    BY <1>2, <1>5, EscapeWithin
  <2>2. f[1 + 3] \in Words
    BY <1>4, <2>1
  <2>3. 16 * HexValue(s[1 + 1]) + HexValue(s[1 + 2]) \in Bytes
    BY <1>5, HexPair DEF IsEscape
  <2>4. f[1] = <<16 * HexValue(s[1 + 1]) + HexValue(s[1 + 2])>> \o f[1 + 3]
    BY <1>4, <1>5 DEF DecodeStep
  <2> QED
    BY <1>1, <1>3, <2>2, <2>3, <2>4
<1>6. CASE ~IsEscape(s, 1)
  <2>1. 1 + 1 \in 1..(Len(s) + 1)
    BY <1>2
  <2>2. f[1 + 1] \in Words
    BY <1>4, <2>1
  <2>3. f[1] = <<s[1]>> \o f[1 + 1]
    BY <1>4, <1>6 DEF DecodeStep
  <2> QED
    BY <1>1, <1>2, <1>3, <2>2, <2>3
<1> QED
  BY <1>5, <1>6

(***************************************************************************)
(* What is sent of a path.                                                 *)
(***************************************************************************)
ResolveStep(before, p) ==
  IF PercentDecode(p) = <<Dot>> THEN before
  ELSE IF PercentDecode(p) = <<Dot, Dot>>
       THEN IF before = <<>> THEN <<>> ELSE Front(before)
  ELSE Append(before, p)

(* Walked is what these steps come to.                                     *)
LEMMA WalkTrace ==
  ASSUME NEW s \in Texts
  PROVE  \E f : /\ f \in [0..Len(s) -> Texts] /\ f[0] = <<>>
                /\ \A i \in 1..Len(s) : f[i] = ResolveStep(f[i - 1], s[i])
                /\ Walked(s) = f[Len(s)]
<1> DEFINE n == Len(s)
           V == Texts
           base == <<>>
           step == [p \in (1..n) \X V |-> ResolveStep(p[2], s[p[1]])]
           eq(f) == f = [i \in 0..n |->
                          IF i = 0 THEN <<>>
                          ELSE LET before == f[i - 1]
                               IN  IF PercentDecode(s[i]) = <<Dot>> THEN before
                                   ELSE IF PercentDecode(s[i]) = <<Dot, Dot>>
                                        THEN IF before = <<>> THEN <<>> ELSE Front(before)
                                   ELSE Append(before, s[i])]
           eq2(f) == f = [i \in 0..n |-> IF i = 0 THEN <<>> ELSE ResolveStep(f[i - 1], s[i])]
<1>1. n \in Nat /\ \A i \in 1..n : s[i] \in Words
  BY DEF Texts
<1>2. base \in V
  BY EmptySeq DEF Texts
<1>13. \A t \in V, w \in Words : ResolveStep(t, w) \in V
  <2> SUFFICES ASSUME NEW t \in V, NEW w \in Words PROVE ResolveStep(t, w) \in V
    OBVIOUS
  <2>1. t # <<>> => Front(t) \in V
    BY FrontLast DEF Texts
  <2>2. Append(t, w) \in V
    BY AppendProperties DEF Texts
  <2> QED
    BY <1>2, <2>1, <2>2 DEF ResolveStep
<1>3. step \in [(1..n) \X V -> V]
  BY <1>1, <1>13
<1>4. PICK f \in [0..n -> V] : Follows(f, n, base, step)
  <2> HIDE DEF step, base, V, n
  <2> QED
    BY <1>1, <1>2, <1>3, Recursion
<1>5. ASSUME NEW i \in 1..n PROVE f[i] = ResolveStep(f[i - 1], s[i])
  <2>1. i - 1 \in 0..n
    BY <1>1
  <2>2. f[i - 1] \in V
    BY <2>1
  <2>3. <<i, f[i - 1]>> \in (1..n) \X V
    BY <2>2
  <2> HIDE DEF V
  <2> QED
    BY <1>4, <2>3 DEF Follows
<1>6. eq2(f)
  <2>1. \A i \in 0..n : i = 0 \/ i \in 1..n
    BY <1>1
  <2>2. f[0] = <<>>
    BY <1>4 DEF Follows
  <2> HIDE DEF n, V, step
  <2> QED
    BY <1>5, <2>1, <2>2
<1>7. \A g : eq(g) <=> eq2(g)
  BY DEF ResolveStep
<1>8. Walked(s) = (CHOOSE g : eq(g))[n]
  BY DEF Walked
<1>9. PICK g : eq2(g) /\ Walked(s) = g[n]
  <2> HIDE DEF eq, eq2
  <2> QED
    BY <1>6, <1>7, <1>8
<1>10. /\ DOMAIN g = 0..n /\ g[0] = <<>>
       /\ \A i \in 1..n : g[i] = ResolveStep(g[i - 1], s[i])
  <2>1. \A i \in 1..n : i \in 0..n /\ i # 0
    BY <1>1
  <2>2. 0 \in 0..n
    BY <1>1
  <2> HIDE DEF n
  <2> QED
    BY <1>9, <2>1, <2>2
<1>11. \A i \in 0..n : g[i] \in V
  <2> DEFINE G == {i \in 0..n : g[i] \in V}
  <2>1. 0 \in G
    BY <1>1, <1>2, <1>10
  <2>2. \A i \in 1..n : i - 1 \in G => i \in G
    <3> SUFFICES ASSUME NEW i \in 1..n, i - 1 \in G PROVE i \in G
      OBVIOUS
    <3>1. i \in 0..n
      BY <1>1
    <3> HIDE DEF n, V
    <3> QED
      BY <1>1, <1>10, <1>13, <3>1
  <2>3. \A i \in 0..n : i \in G
    <3>1. n \in Nat
      BY <1>1
    <3> HIDE DEF G, n
    <3> QED
      BY <3>1, <2>1, <2>2, Climb
  <2> QED
    BY <2>3
<1>12. g \in [0..n -> V]
  <2> HIDE DEF n, V
  <2> QED
    BY <1>9, <1>10, <1>11
<1> QED
  BY <1>9, <1>10, <1>12

(* Resolved pieces are pieces.                                             *)
LEMMA ResolveTyped ==
  ASSUME NEW s \in Texts
  PROVE  Resolve(s) \in Texts
<1>1. PICK f : f \in [0..Len(s) -> Texts] /\ Walked(s) = f[Len(s)]
  BY WalkTrace
<1>2. Len(s) \in 0..Len(s)
  BY DEF Texts
<1>3. Walked(s) \in Texts
  BY <1>1, <1>2
<1>4. Append(Walked(s), <<>>) \in Texts
  BY <1>3 DEF Texts, Words
<1> QED
  BY <1>3, <1>4 DEF Resolve

(* Where no piece is a dot segment, nothing is walked away,                *)
LEMMA WalkPlain ==
  ASSUME NEW s \in Texts,
         \A i \in 1..Len(s) : PercentDecode(s[i]) \notin {<<Dot>>, <<Dot, Dot>>}
  PROVE  Walked(s) = s
<1> DEFINE n == Len(s)
<1>1. PICK f : /\ f[0] = <<>>
               /\ \A i \in 1..n : f[i] = ResolveStep(f[i - 1], s[i])
               /\ Walked(s) = f[n]
  BY WalkTrace
<1> DEFINE G == {i \in 0..n : f[i] = SubSeq(s, 1, i)}
<1>2. n \in Nat
  BY DEF Texts
<1>3. 0 \in G
  <2>1. SubSeq(s, 1, 0) = <<>> /\ 0 \in 0..n
    BY <1>2, SubSeqEmpty
  <2> HIDE DEF n
  <2> QED
    BY <1>1, <2>1
<1>4. ASSUME NEW i \in 1..n, i - 1 \in G PROVE i \in G
  <2>1. SubSeq(s, 1, i) = Append(SubSeq(s, 1, i - 1), s[i])
    BY OneMore DEF Texts
  <2>2. f[i] = Append(f[i - 1], s[i])
    BY <1>1 DEF ResolveStep
  <2>3. i \in 0..n
    BY <1>2
  <2> HIDE DEF n
  <2> QED
    BY <1>4, <2>1, <2>2, <2>3
<1>5. \A i \in 0..n : i \in G
  <2>1. \A i \in 1..n : i - 1 \in G => i \in G
    BY <1>4
  <2> HIDE DEF n, G
  <2> QED
    BY ONLY <1>2, <1>3, <2>1, Climb
<1>6. n \in G
  <2>1. n \in 0..n
    BY <1>2
  <2> QED
    BY <1>5, <2>1
<1> QED
  BY <1>1, <1>6, SubSeqFull DEF Texts

(* and nothing is resolved.                                                *)
LEMMA ResolvePlain ==
  ASSUME NEW s \in Texts \ {<<>>},
         \A i \in 1..Len(s) : PercentDecode(s[i]) \notin {<<Dot>>, <<Dot, Dot>>}
  PROVE  Resolve(s) = s
<1>1. Last(s) = s[Len(s)] /\ Len(s) \in 1..Len(s)
  BY DEF Last, Texts
<1>2. Walked(s) = s
  BY WalkPlain
<1> QED
  BY <1>1, <1>2 DEF Resolve, Dots

(* What is sent of a path is pieces,                                       *)
LEMMA SentTyped ==
  ASSUME NEW path \in Words
  PROVE  Sent(path) \in Texts
<1> DEFINE n == Len(path)
           ends == {i \in DOMAIN path : path[i] \in {Question, Hash}} \cup {n + 1}
           end == CHOOSE i \in ends : \A j \in ends : i <= j
           t == SubSeq(path, 1, end - 1)
           p == Split(t, Slash)
<1>1. n \in Nat /\ DOMAIN path = 1..n
  BY DEF Words
<1>2. ends \in SUBSET Nat /\ ends # {} /\ \A i \in ends : i \in 1..(n + 1)
  BY <1>1
<1>3. end \in ends
  <2> HIDE DEF ends
  <2>1. \E i \in ends : \A j \in ends : i <= j
    BY <1>2, LeastNumber
  <2> QED
    BY <2>1
<1>4. end \in 1..(n + 1)
  <2> HIDE DEF ends, end
  <2> QED
    BY <1>2, <1>3
<1>5. t \in Words
  <2> HIDE DEF ends, end
  <2>1. \A i \in 1..(end - 1) : path[i] \in Bytes
    BY <1>1, <1>4 DEF Words
  <2>2. end - 1 \in Int
    BY <1>1, <1>4
  <2> QED
    BY <2>1, <2>2, SubSeqProperties DEF Words
<1>6. p \in Texts \ {<<>>}
  <2> HIDE DEF t
  <2> QED
    BY <1>5, SplitTyped
<1>7. Tail(p) \in Texts
  <2> HIDE DEF p
  <2> QED
    BY <1>6, HeadTailProperties DEF Texts
<1>8. Sent(path) = Resolve(Tail(p))
  BY DEF Sent
<1> QED
  <2> HIDE DEF p
  <2> QED
    BY <1>7, <1>8, ResolveTyped

(* all of them if there is no query and no fragment.                       *)
LEMMA SentPlain ==
  ASSUME NEW path \in Words, Question \notin ToSet(path), Hash \notin ToSet(path)
  PROVE  Sent(path) = Resolve(Tail(Split(path, Slash)))
<1> DEFINE n == Len(path)
           ends == {i \in DOMAIN path : path[i] \in {Question, Hash}} \cup {n + 1}
           end == CHOOSE i \in ends : \A j \in ends : i <= j
<1>1. n \in Nat /\ DOMAIN path = 1..n
  BY DEF Words
<1>2. ends = {n + 1}
  BY <1>1 DEF ToSet
<1>3. end = n + 1
  <2> HIDE DEF ends
  <2> QED
    BY <1>1, <1>2
<1>4. SubSeq(path, 1, end - 1) = path
  <2>1. end - 1 = n
    <3> HIDE DEF end
    <3> QED
      BY <1>1, <1>3
  <2> HIDE DEF end
  <2> QED
    BY <2>1, SubSeqFull DEF Words
<1>5. Sent(path) = Resolve(Tail(Split(SubSeq(path, 1, end - 1), Slash)))
  BY DEF Sent
<1> QED
  BY <1>4, <1>5

-----------------------------------------------------------------------------
(***************************************************************************)
(* Time stamps.                                                            *)
(***************************************************************************)
(***************************************************************************)
(* The leap days up to and with year y.                                    *)
(***************************************************************************)
Leaps(y) == y \div 4 - y \div 100 + y \div 400

(***************************************************************************)
(* A leap year has one more than the year before it.                       *)
(***************************************************************************)
LEMMA OneMoreLeapDay ==
  ASSUME NEW y \in Int
  PROVE  Leaps(y - 1) = Leaps(y) - (IF LeapYear(y) THEN 1 ELSE 0)
BY SMT DEF Leaps, LeapYear

(***************************************************************************)
(* Within an era the year and the day of the year are in range, and only   *)
(* the last day of a year whose February is long is the 366th.             *)
(***************************************************************************)
LEMMA YearInRange ==
  ASSUME NEW doe \in Int, 0 <= doe, doe <= 146096,
         NEW yoe \in Int, yoe = YearOfEra(doe)
  PROVE  /\ 0 <= yoe /\ yoe <= 399
         /\ 0 <= DayOfYear(doe) /\ DayOfYear(doe) <= 365
         /\ DayOfYear(doe) = 365 => LeapYear(yoe + 1)
BY SMT DEF YearOfEra, DayOfYear, LeapYear

(***************************************************************************)
(* The month, and the day in it, of a day of a year that begins in March:  *)
(* five months have 153 days.                                              *)
(***************************************************************************)
LEMMA MonthOfDay ==
  ASSUME NEW doy \in Int, 0 <= doy, doy <= 365,
         NEW m \in Int, m = MonthOf(doy),
         NEW d \in Int, d = DayOfMonth(doy)
  PROVE  \/ m = 3 /\ doy = d - 1 /\ 1 <= d /\ d <= 31
         \/ m = 4 /\ doy = 31 + d - 1 /\ 1 <= d /\ d <= 30
         \/ m = 5 /\ doy = 61 + d - 1 /\ 1 <= d /\ d <= 31
         \/ m = 6 /\ doy = 92 + d - 1 /\ 1 <= d /\ d <= 30
         \/ m = 7 /\ doy = 122 + d - 1 /\ 1 <= d /\ d <= 31
         \/ m = 8 /\ doy = 153 + d - 1 /\ 1 <= d /\ d <= 31
         \/ m = 9 /\ doy = 184 + d - 1 /\ 1 <= d /\ d <= 30
         \/ m = 10 /\ doy = 214 + d - 1 /\ 1 <= d /\ d <= 31
         \/ m = 11 /\ doy = 245 + d - 1 /\ 1 <= d /\ d <= 30
         \/ m = 12 /\ doy = 275 + d - 1 /\ 1 <= d /\ d <= 31
         \/ m = 1 /\ doy = 306 + d - 1 /\ 1 <= d /\ d <= 31
         \/ m = 2 /\ doy = 337 + d - 1 /\ 1 <= d /\ d <= 29 /\ (d = 29 => doy = 365)
BY SMTT(30) DEF MonthFromMarch, MonthOf, DayOfMonth

(***************************************************************************)
(* The year that begins in March, and the days before it.                  *)
(***************************************************************************)
LEMMA MarchYear ==
  ASSUME NEW days \in Nat,
         NEW doy \in Int, doy = DayOfYear(DayOfEra(days)),
         NEW y \in Int, y = YearFromMarch(days)
  PROVE  /\ 0 <= doy /\ doy <= 365
         /\ doy = 365 => LeapYear(y + 1)
         /\ days + 719468 = 365 * y + Leaps(y) + doy
<1> DEFINE doe == DayOfEra(days)
           era == (days + 719468) \div 146097
           yoe == YearOfEra(doe)
<1>1. /\ doe \in Int /\ era \in Int
      /\ days + 719468 = 146097 * era + doe /\ 0 <= doe /\ doe <= 146096
  BY SMT DEF DayOfEra
<1>2. yoe \in Int
  BY <1>1, SMT DEF YearOfEra
<1>3. doy = DayOfYear(doe) /\ y = yoe + era * 400
  BY SMT DEF YearFromMarch
<1> HIDE DEF doe, era
<1>4. doe = 365 * yoe + yoe \div 4 - yoe \div 100 + doy
  BY <1>1, <1>2, <1>3, SMT DEF DayOfYear
<1> HIDE DEF yoe
<1>5. /\ 0 <= yoe /\ yoe <= 399
      /\ 0 <= doy /\ doy <= 365
      /\ doy = 365 => LeapYear(yoe + 1)
  BY <1>1, <1>2, <1>3, YearInRange, SMT DEF yoe
<1>6. /\ LeapYear(y + 1) <=> LeapYear(yoe + 1)
      /\ Leaps(y) = yoe \div 4 - yoe \div 100 + 97 * era
  BY <1>1, <1>2, <1>3, <1>5, SMT DEF LeapYear, Leaps
<1>7. Leaps(y) \in Int
  BY SMT DEF Leaps
<1> QED
  BY <1>1, <1>2, <1>3, <1>4, <1>5, <1>6, <1>7, SMT

(***************************************************************************)
(* That month and day, as a date of the year that begins in January: the   *)
(* day exists, and the days before it are those since March and the 59 or  *)
(* 60 of January and February, which in turn follow 306 of the year before.*)
(***************************************************************************)
LeapDay(y) == IF LeapYear(y) THEN 1 ELSE 0

(* Month m and day d are those of day doy of the year y from March.        *)
DateFits(y, doy, m, d) ==
  /\ m \in 1..12 /\ 1 <= d
  /\ m > 2 => /\ d <= DaysInMonth(y, m)
              /\ DaysBeforeMonth(y, m) + d - 1
                   = doy + 59 + LeapDay(y)
  /\ m <= 2 => /\ d <= DaysInMonth(y + 1, m)
               /\ DaysBeforeMonth(y + 1, m) + d - 1 = doy - 306

(* The month and the day of every day of a year are those of its date.     *)
LEMMA DateOfDay ==
  ASSUME NEW y \in Int,
         NEW doy \in Int, 0 <= doy, doy <= 365,
         doy = 365 => LeapYear(y + 1)
  PROVE  DateFits(y, doy, MonthOf(doy), DayOfMonth(doy))
<1> DEFINE m == MonthOf(doy)
           d == DayOfMonth(doy)
<1>1. /\ DaysBeforeMonth(y, 3) = 59 + LeapDay(y) /\ DaysInMonth(y, 3) = 31
      /\ DaysBeforeMonth(y, 4) = 90 + LeapDay(y) /\ DaysInMonth(y, 4) = 30
      /\ DaysBeforeMonth(y, 5) = 120 + LeapDay(y) /\ DaysInMonth(y, 5) = 31
      /\ DaysBeforeMonth(y, 6) = 151 + LeapDay(y) /\ DaysInMonth(y, 6) = 30
      /\ DaysBeforeMonth(y, 7) = 181 + LeapDay(y) /\ DaysInMonth(y, 7) = 31
  BY SMT DEF DaysBeforeMonth, DaysInMonth, LeapDay
<1>2. /\ DaysBeforeMonth(y, 8) = 212 + LeapDay(y) /\ DaysInMonth(y, 8) = 31
      /\ DaysBeforeMonth(y, 9) = 243 + LeapDay(y) /\ DaysInMonth(y, 9) = 30
      /\ DaysBeforeMonth(y, 10) = 273 + LeapDay(y) /\ DaysInMonth(y, 10) = 31
      /\ DaysBeforeMonth(y, 11) = 304 + LeapDay(y) /\ DaysInMonth(y, 11) = 30
      /\ DaysBeforeMonth(y, 12) = 334 + LeapDay(y) /\ DaysInMonth(y, 12) = 31
  BY SMT DEF DaysBeforeMonth, DaysInMonth, LeapDay
<1>3. /\ DaysBeforeMonth(y + 1, 1) = 0 /\ DaysInMonth(y + 1, 1) = 31
      /\ DaysBeforeMonth(y + 1, 2) = 31
      /\ DaysInMonth(y + 1, 2) = IF LeapYear(y + 1) THEN 29 ELSE 28
  BY SMT DEF DaysBeforeMonth, DaysInMonth
<1>4. m \in Int /\ d \in Int /\ LeapDay(y) \in Int
  BY SMT DEF MonthOf, MonthFromMarch, DayOfMonth, LeapDay
<1>5. \/ m = 3 /\ doy = d - 1 /\ 1 <= d /\ d <= 31
      \/ m = 4 /\ doy = 31 + d - 1 /\ 1 <= d /\ d <= 30
      \/ m = 5 /\ doy = 61 + d - 1 /\ 1 <= d /\ d <= 31
      \/ m = 6 /\ doy = 92 + d - 1 /\ 1 <= d /\ d <= 30
      \/ m = 7 /\ doy = 122 + d - 1 /\ 1 <= d /\ d <= 31
      \/ m = 8 /\ doy = 153 + d - 1 /\ 1 <= d /\ d <= 31
      \/ m = 9 /\ doy = 184 + d - 1 /\ 1 <= d /\ d <= 30
      \/ m = 10 /\ doy = 214 + d - 1 /\ 1 <= d /\ d <= 31
      \/ m = 11 /\ doy = 245 + d - 1 /\ 1 <= d /\ d <= 30
      \/ m = 12 /\ doy = 275 + d - 1 /\ 1 <= d /\ d <= 31
      \/ m = 1 /\ doy = 306 + d - 1 /\ 1 <= d /\ d <= 31
      \/ m = 2 /\ doy = 337 + d - 1 /\ 1 <= d /\ d <= 29 /\ (d = 29 => doy = 365)
  BY <1>4, MonthOfDay, SMT
<1> SUFFICES DateFits(y, doy, m, d)
  OBVIOUS
<1> HIDE DEF m, d
<1>6. CASE m \in 3..7
  BY <1>1, <1>4, <1>5, <1>6, SMT DEF DateFits
<1>7. CASE m \in 8..12
  BY <1>2, <1>4, <1>5, <1>7, SMT DEF DateFits
<1>8. CASE m \in 1..2
  BY <1>3, <1>4, <1>5, <1>8, SMT DEF DateFits
<1> QED
  BY <1>4, <1>5, <1>6, <1>7, <1>8, SMT

(***************************************************************************)
(* Reading the date that days_to_ymd returns gives back the day, and it is *)
(* a date of the calendar, for every number of days.                       *)
(***************************************************************************)
THEOREM DatesAreExact ==
  ASSUME NEW days \in Nat
  PROVE  IsDate(DaysToYmd(days)) /\ DayNumber(DaysToYmd(days)) = days
<1> DEFINE doy == DayOfYear(DayOfEra(days))
           y == YearFromMarch(days)
           m == MonthOf(doy)
           d == DayOfMonth(doy)
           year == IF m <= 2 THEN y + 1 ELSE y
<1>1. DaysToYmd(days) = [year |-> year, month |-> m, day |-> d]
  BY DEF DaysToYmd
<1>2. doy \in Int
  BY SMT DEF DayOfYear, YearOfEra, DayOfEra
<1>3. y \in Int
  BY SMT DEF YearFromMarch, YearOfEra, DayOfEra
<1> HIDE DEF doy, y
<1>4. d \in Int /\ m \in Int
  BY <1>2, SMT DEF DayOfMonth, MonthOf, MonthFromMarch
<1> HIDE DEF d, m
<1>5. days + 719468 = 365 * y + Leaps(y) + doy
  BY <1>2, <1>3, MarchYear, SMT DEF doy, y
<1>6. 0 <= doy /\ doy <= 365 /\ (doy = 365 => LeapYear(y + 1))
  BY <1>2, <1>3, MarchYear, SMT DEF doy, y
<1>7. DateFits(y, doy, m, d)
  BY <1>3, <1>2, <1>6, DateOfDay, SMT DEF m, d
<1>8. DaysBeforeYear(year) = 365 * (year - 1970) + Leaps(year - 1) - 477
  BY SMT DEF DaysBeforeYear, Leaps
<1>9. Leaps(y) \in Int /\ Leaps(y - 1) \in Int
  BY <1>3, SMT DEF Leaps
<1>10. /\ DaysBeforeYear(year) + DaysBeforeMonth(year, m) + d - 1 = days
       /\ d \in 1..DaysInMonth(year, m)
  <2>1. CASE m > 2
    <3>1. Leaps(y - 1) = Leaps(y) - LeapDay(y) /\ LeapDay(y) \in Int
      BY <1>3, OneMoreLeapDay, SMT DEF LeapDay
    <3>2. year = y
      BY <2>1, <1>4, SMT
    <3>3. DaysBeforeMonth(y, m) \in Int
      BY <1>7, SMT DEF DateFits, DaysBeforeMonth
    <3> QED
      BY <1>2, <1>3, <1>4, <1>5, <1>7, <1>8, <1>9, <2>1, <3>1, <3>2, <3>3, SMT DEF DateFits
  <2>2. CASE m <= 2
    <3>1. year = y + 1 /\ year - 1 = y
      BY <2>2, <1>3, <1>4, SMT
    <3>2. DaysBeforeMonth(year, m) \in Int
      BY <1>7, SMT DEF DateFits, DaysBeforeMonth
    <3> QED
      BY <1>2, <1>3, <1>4, <1>5, <1>7, <1>8, <1>9, <2>2, <3>1, <3>2, SMT DEF DateFits
  <2> QED
    BY <1>4, <2>1, <2>2, SMT
<1> HIDE DEF year
<1> QED
  BY <1>1, <1>7, <1>10, SMT DEF DateFits, IsDate, DayNumber

(***************************************************************************)
(* Hours, minutes and seconds add up.                                      *)
(***************************************************************************)
LEMMA ClockAddsUp ==
  ASSUME NEW s \in Int
  PROVE  3600 * (s \div 3600) + 60 * ((s % 3600) \div 60) + (s % 60) = s
<1> DEFINE hours == s \div 3600
           rest == s % 3600
<1>1. s = 3600 * hours + rest /\ hours \in Int /\ rest \in Int
  BY SMT
<1>2. s % 60 = rest % 60
  BY SMT
<1> HIDE DEF hours, rest
<1>3. rest = 60 * (rest \div 60) + (rest % 60) /\ rest \div 60 \in Int /\ rest % 60 \in Int
  BY <1>1, SMT
<1>4. 3600 * hours + 60 * (rest \div 60) + (rest % 60) = s
  BY <1>1, <1>3, SMT
<1> QED
  BY <1>2, <1>4, SMT DEF hours, rest

(***************************************************************************)
(* The stamp of a URL, read back, is the instant it was minted at.         *)
(***************************************************************************)
THEOREM StampsAreExact ==
  ASSUME NEW t \in Instants
  PROVE  ReadStamp(FormatUtc(t)) = t
<1>1. t = [day |-> t.day, second |-> t.second]
  BY SMT DEF Instants
<1>2. t.day \in Nat /\ t.second \in Int
  BY SMT DEF Instants
<1>3. DayNumber(DaysToYmd(t.day)) = t.day
  BY <1>2, DatesAreExact, SMT
<1>4. 3600 * (t.second \div 3600) + 60 * ((t.second % 3600) \div 60) + (t.second % 60) = t.second
  BY <1>2, ClockAddsUp, SMT
<1>5. ReadStamp(FormatUtc(t)) = [day |-> DayNumber(DaysToYmd(t.day)), second |->
        3600 * (t.second \div 3600) + 60 * ((t.second % 3600) \div 60) + (t.second % 60)]
  BY SMT DEF ReadStamp, FormatUtc
<1> QED
  BY <1>1, <1>3, <1>4, <1>5

-----------------------------------------------------------------------------
(***************************************************************************)
(* What links are made of.                                                 *)
(***************************************************************************)
(* Keys are words that are not empty; a page is a prefix and a token.      *)
Keys == Words \ {<<>>}
Places == [prefix : Words, token : Words \cup {None}]

(* Words are strings as listings order them; None is none of them.         *)
LEMMA WordsAreStrings ==
  Words \in SUBSET Strings /\ None \notin Words
<1>1. Bytes \in SUBSET Nat
  BY DEF Bytes
<1>2. ASSUME NEW w \in Words PROVE w \in Strings
  <2>1. w = [i \in 1..Len(w) |-> w[i]] /\ Len(w) \in Nat /\ \A i \in 1..Len(w) : w[i] \in Bytes
    BY DEF Words
  <2>2. \A i \in 1..Len(w) : w[i] \in Nat
    BY <1>1, <2>1
  <2> QED
    BY <2>1, <2>2 DEF Strings
<1> QED
  BY <1>2, ListingAssumption DEF Strings

(* What is put in a link comes out of it, whatever its bytes.              *)
LEMMA ThroughIs ==
  ASSUME NEW s \in Words \cup {None}
  PROVE  Through(s) = s
<1>1. Percent \notin Unreserved \cup {Slash}
  BY DEF Percent, Slash, Unreserved, Alphanumeric, Digits, Uppercase, Lowercase, Hyphen, Dot
<1>2. CASE s \in Words
  BY <1>1, <1>2, EncodeDecode DEF Through, QueryEncode
<1>3. CASE s = None
  BY <1>3 DEF Through
<1> QED
  BY <1>2, <1>3

(* A page asks for a listing by slashes.                                   *)
LEMMA QueryTyped ==
  ASSUME NEW prefix \in Words
  PROVE  /\ IsQuery(Query(prefix)) /\ Query(prefix).prefix = prefix
         /\ Query(prefix).delimiter = <<Slash>> /\ Query(prefix).delimiter # None
         /\ Query(prefix).max = PageLimit
<1>1. prefix \in Strings
  BY WordsAreStrings
<1>2. <<Slash>> \in Strings \ {<<>>}
  BY DEF Strings, Slash
<1>3. PageLimit \in Nat
  BY ListingAssumption
<1>4. <<Slash>> # None
  BY <1>2, ListingAssumption DEF Strings
<1> QED
  BY <1>1, <1>2, <1>3, <1>4 DEF Query, IsQuery

(* A prefix of a word is a word.                                           *)
LEMMA PrefixOfWord ==
  ASSUME NEW k \in Words, NEW g \in Strings, IsPrefix(g, k)
  PROVE  g \in Words
<1>1. Len(g) <= Len(k) /\ \A i \in 1..Len(g) : g[i] = k[i]
  BY WordsAreStrings, PrefixPlaces
<1>2. \A i \in 1..Len(k) : k[i] \in Bytes
  BY DEF Words
<1>3. Len(g) \in Nat /\ Len(k) \in Nat
  BY DEF Words, Strings
<1>4. \A i \in 1..Len(g) : g[i] \in Bytes
  BY <1>1, <1>2, <1>3
<1>5. g = [i \in 1..Len(g) |-> g[i]]
  BY DEF Strings
<1> QED
  BY <1>3, <1>4, <1>5 DEF Words

(* A folder of a page ends with a slash, and has an object in it.          *)
LEMMA FolderIs ==
  ASSUME NEW S \in SUBSET Words, IsFiniteSet(S), NEW page \in Places,
         NEW folder \in PrefixesOf(Shown(S, page), Query(page.prefix))
  PROVE  /\ folder \in Words /\ folder # <<>> /\ folder[Len(folder)] = Slash
         /\ IsPrefix(page.prefix, folder)
         /\ \E k \in S : IsPrefix(folder, k)
<1> DEFINE q == Query(page.prefix)
           p == Shown(S, page)
           sel == Selected(S, q, page.token)
<1>1. page.prefix \in Words
  BY DEF Places
<1>2. IsQuery(q) /\ q.prefix = page.prefix /\ q.delimiter = <<Slash>> /\ q.delimiter # None
  BY <1>1, QueryTyped
<1>3. S \in SUBSET Strings
  BY WordsAreStrings
<1>4. p = Page(S, q, page.token)
  BY DEF Shown
<1> HIDE DEF q, p, sel
<1>5. PrefixesOf(p, q) = {Group(k, q) : k \in {l \in sel : Group(l, q) # None /\ (p.next # None => UpTo(l, p.next))}}
  BY <1>2, <1>3, <1>4, PageIsExact DEF sel
<1>6. PICK k \in sel : Group(k, q) # None /\ folder = Group(k, q)
  BY <1>5 DEF p, q
<1>7. k \in S /\ IsPrefix(q.prefix, k)
  BY <1>6 DEF sel, Selected
<1>8. k \in Words /\ k \in Strings
  BY <1>3, <1>7
<1>9. folder \in Strings /\ IsPrefix(folder, k) /\ Len(folder) \in Ends(k, q)
  BY <1>2, <1>6, <1>7, <1>8, GroupIsShortest
<1>10. folder \in Words
  BY <1>8, <1>9, PrefixOfWord
<1>11. Len(folder) \in Nat /\ Len(page.prefix) \in Nat /\ Len(k) \in Nat
  BY <1>1, <1>8, <1>10 DEF Words
<1>12. Len(folder) >= Len(page.prefix) + 1 /\ k[Len(folder)] = Slash
  <2>1. Len(<<Slash>>) = 1 /\ <<Slash>>[1] = Slash
    OBVIOUS
  <2>2. /\ Len(folder) >= Len(page.prefix) + 1
        /\ \A j \in 1..1 : k[Len(folder) - 1 + j] = <<Slash>>[j]
    BY <1>2, <1>9, <2>1 DEF Ends
  <2>3. k[Len(folder) - 1 + 1] = Slash /\ Len(folder) - 1 + 1 = Len(folder)
    BY <1>11, <2>1, <2>2
  <2> QED
    BY <2>2, <2>3
<1>13. /\ Len(folder) <= Len(k) /\ \A i \in 1..Len(folder) : folder[i] = k[i]
       /\ Len(page.prefix) <= Len(k) /\ \A i \in 1..Len(page.prefix) : page.prefix[i] = k[i]
  <2>1. page.prefix \in Strings
    BY <1>1, WordsAreStrings
  <2> QED
    BY <1>2, <1>7, <1>8, <1>9, <2>1, PrefixPlaces
<1>14. folder # <<>> /\ folder[Len(folder)] = Slash
  BY <1>11, <1>12, <1>13
<1>15. IsPrefix(page.prefix, folder)
  <2>1. page.prefix \in Strings
    BY <1>1, WordsAreStrings
  <2>2. Len(page.prefix) <= Len(folder) /\ \A i \in 1..Len(page.prefix) : page.prefix[i] = folder[i]
    BY <1>11, <1>12, <1>13
  <2> QED
    BY <1>9, <2>1, <2>2, PrefixPlaces
<1> QED
  BY <1>7, <1>9, <1>10, <1>14, <1>15

-----------------------------------------------------------------------------
(***************************************************************************)
(* The state.                                                              *)
(***************************************************************************)
(* The URL at hand was made for a stored key.                              *)
UrlIsMade ==
  \E key \in stored, time \in Instants, expires \in Nat : url = PresignUrl(key, time, expires)

(* What the state is made of; the URL is part of it, for UseUrl takes it   *)
(* apart.                                                                  *)
TypeInv ==
  /\ bucket \in Words /\ ValidBucketName(bucket)
  /\ stored \in SUBSET Keys /\ IsFiniteSet(stored)
  /\ \A k \in stored : Accepted(k)
  /\ at \in Places
  /\ typed \in BOOLEAN /\ quiet \in BOOLEAN
  /\ url # None => UrlIsMade

(* A sequence over a set is one over every larger set.                     *)
LEMMA SeqWithin ==
  ASSUME NEW A, NEW B, A \subseteq B, NEW s \in Seq(A)
  PROVE  s \in Seq(B)
<1>1. s = [i \in 1..Len(s) |-> s[i]] /\ Len(s) \in Nat /\ \A i \in 1..Len(s) : s[i] \in A
  OBVIOUS
<1>2. \A i \in 1..Len(s) : s[i] \in B
  BY <1>1
<1> QED
  BY <1>1, <1>2

(* Words of bytes below 128 are words.                                     *)
LEMMA AsciiWords ==
  Seq(0..127) \in SUBSET Words
<1>1. 0..127 \subseteq Bytes
  BY DEF Bytes
<1> QED
  BY <1>1, SeqWithin DEF Words

(* What is behind the first three pieces of four or more.                  *)
LEMMA TailTail ==
  ASSUME NEW E, NEW s \in Seq(E), Len(s) >= 4
  PROVE  /\ Head(Tail(Tail(s))) = s[3]
         /\ Tail(Tail(Tail(s))) = SubSeq(s, 4, Len(s))
         /\ SubSeq(s, 4, Len(s)) \in Seq(E) \ {<<>>}
<1> DEFINE t == Tail(s)
           u == Tail(t)
           v == Tail(u)
           n == Len(s)
<1>1. n \in Nat
  OBVIOUS
<1>2. t \in Seq(E) /\ Len(t) = n - 1 /\ \A i \in 1..(n - 1) : t[i] = s[i + 1]
  OBVIOUS
<1> HIDE DEF t
<1>3. u \in Seq(E) /\ Len(u) = n - 2 /\ \A i \in 1..(n - 2) : u[i] = t[i + 1]
  BY <1>1, <1>2
<1> HIDE DEF u
<1>4. v \in Seq(E) /\ Len(v) = n - 3 /\ \A i \in 1..(n - 3) : v[i] = u[i + 1]
  BY <1>1, <1>3
<1>5. Head(u) = u[1]
  OBVIOUS
<1> HIDE DEF v
<1>6. /\ SubSeq(s, 4, n) \in Seq(E) /\ Len(SubSeq(s, 4, n)) = n - 3
      /\ \A i \in 1..(n - 3) : SubSeq(s, 4, n)[i] = s[i + 3]
  <2>1. 4 \in Int /\ n \in Int /\ \A i \in 4..n : s[i] \in E
    BY <1>1
  <2> HIDE DEF n
  <2>2. 4 <= n
    BY DEF n
  <2>3. n - 4 + 1 = n - 3 /\ \A i \in 1..(n - 3) : 4 + i - 1 = i + 3
    BY <1>1
  <2> QED
    BY <2>1, <2>2, <2>3, SubSeqProperties
<1>7. \A i \in 1..(n - 3) : v[i] = SubSeq(s, 4, n)[i]
  <2> SUFFICES ASSUME NEW i \in 1..(n - 3) PROVE v[i] = SubSeq(s, 4, n)[i]
    OBVIOUS
  <2>1. v[i] = u[i + 1] /\ u[i + 1] = t[i + 2] /\ t[i + 2] = s[i + 3]
    <3>1. i + 1 \in 1..(n - 2) /\ i + 2 \in 1..(n - 1) /\ (i + 1) + 1 = i + 2 /\ (i + 2) + 1 = i + 3
      BY <1>1
    <3>2. u[i + 1] = t[(i + 1) + 1] /\ t[i + 2] = s[(i + 2) + 1]
      BY <1>2, <1>3, <3>1
    <3> QED
      BY <1>4, <3>1, <3>2
  <2> QED
    BY <1>6, <2>1
<1>8. v = SubSeq(s, 4, n)
  <2> HIDE DEF n
  <2> DEFINE w == SubSeq(s, 4, n)
  <2> HIDE DEF w
  <2>1. v \in Seq(E) /\ w \in Seq(E) /\ Len(v) = Len(w) /\ \A i \in 1..Len(v) : v[i] = w[i]
    BY <1>4, <1>6, <1>7 DEF w
  <2>2. v = w
    BY <2>1, SeqEqual
  <2> QED
    BY <2>2 DEF w
<1>9. u[1] = s[3]
  <2>1. u[1] = t[1 + 1] /\ t[2] = s[2 + 1]
    BY <1>1, <1>2, <1>3
  <2> QED
    BY <2>1
<1>10. SubSeq(s, 4, n) # <<>>
  <2>1. n - 3 > 0
    BY <1>1
  <2> HIDE DEF n
  <2> DEFINE w == SubSeq(s, 4, n)
  <2> HIDE DEF w
  <2>2. Len(w) # 0
    BY <1>6, <2>1 DEF w
  <2>3. Len(<<>>) = 0
    OBVIOUS
  <2>4. w # <<>>
    BY <2>2, <2>3
  <2> QED
    BY <2>4 DEF w
<1> QED
  BY <1>5, <1>6, <1>8, <1>9, <1>10, Zenon DEF u, v, t

(* The path of a link of the console is a word.                            *)
LEMMA ConsolePathTyped ==
  ASSUME bucket \in Words, NEW route \in Words, NEW key \in Words
  PROVE  /\ << <<>>, Ui, route, bucket, key >> \in Texts \ {<<>>}
         /\ ConsolePath(route, key) \in Words
<1>1. <<>> \in Words /\ Ui \in Words /\ Slash \in Bytes
  BY DEF Words, Ui, Bytes, Slash
<1>2. << <<>>, Ui, route, bucket, key >> \in Texts \ {<<>>}
  BY <1>1 DEF Texts
<1> QED
  BY <1>1, <1>2, JoinMarks DEF ConsolePath

(* What the console takes a request to be about.                           *)
LEMMA ServedByConsole ==
  ASSUME NEW pieces \in Texts, Served(pieces).by = "console"
  PROVE  /\ Len(pieces) >= 4
         /\ Served(pieces).bucket = PercentDecode(pieces[3])
         /\ Served(pieces).key = PercentDecode(Join(SubSeq(pieces, 4, Len(pieces)), Slash))
         /\ Served(pieces).key \in Keys
<1> DEFINE rest == SubSeq(pieces, 4, Len(pieces))
<1>1. /\ Len(pieces) >= 4 /\ Join(rest, Slash) # <<>>
      /\ Served(pieces) = Target("console", Tail(Tail(pieces)))
  <2>1. \A t : Target("assets", t).by = "assets" /\ Target("s3", t).by = "s3"
    BY DEF Target
  <2> QED
    BY <2>1, Zenon DEF Served
<1>2. Len(pieces) \in Nat
  BY DEF Texts
<1>3. /\ Head(Tail(Tail(pieces))) = pieces[3] /\ Tail(Tail(Tail(pieces))) = rest
      /\ rest \in Texts \ {<<>>}
  BY <1>1, TailTail DEF Texts
<1> HIDE DEF rest
<1>5. Slash \in Bytes
  BY DEF Bytes, Slash
<1>6. Join(rest, Slash) \in Words
  BY <1>3, <1>5, JoinMarks
<1>7. PercentDecode(Join(rest, Slash)) \in Keys
  BY <1>1, <1>6, DecodeTyped, DecodeNonEmpty DEF Keys
<1>8. /\ Served(pieces).bucket = PercentDecode(Head(Tail(Tail(pieces))))
      /\ Served(pieces).key = PercentDecode(Join(Tail(Tail(Tail(pieces))), Slash))
  BY <1>1 DEF Target
<1>9. Served(pieces).key = PercentDecode(Join(rest, Slash))
  BY <1>3, <1>8
<1> QED
  BY <1>1, <1>3, <1>7, <1>8, <1>9, Zenon DEF rest

(* The segments of a prefix are pieces,                                    *)
LEMMA SegmentsTyped ==
  ASSUME NEW prefix \in Words
  PROVE  Segments(prefix) \in Texts
<1> DEFINE pieces == Split(prefix, Slash)
           ss == [i \in DOMAIN pieces |-> IF pieces[i] = <<>> THEN <<>> ELSE << pieces[i] >>]
<1>1. pieces \in Texts
  BY SplitTyped
<1>2. ss \in Seq(Seq(Words))
  <2> HIDE DEF pieces
  <2>1. DOMAIN pieces = 1..Len(pieces) /\ Len(pieces) \in Nat
    BY <1>1 DEF Texts
  <2>2. ASSUME NEW i \in 1..Len(pieces)
        PROVE  (IF pieces[i] = <<>> THEN <<>> ELSE << pieces[i] >>) \in Seq(Words)
    <3>1. pieces[i] \in Words
      BY <1>1, <2>1 DEF Texts
    <3> QED
      BY <3>1
  <2> QED
    BY <2>1, <2>2
<1>3. FlattenSeq(ss) \in Seq(Words)
  <2> HIDE DEF ss
  <2> QED
    BY <1>2, FlattenTyped
<1> QED
  BY <1>3 DEF Segments, Texts

(* and the prefix of a crumb is a word.                                    *)
LEMMA CrumbTyped ==
  ASSUME NEW segments \in Texts, NEW i \in 1..Len(segments)
  PROVE  CrumbPrefix(segments, i) \in Words
<1>1. SubSeq(segments, 1, i) \in Texts \ {<<>>}
  BY DEF Texts
<1>2. Slash \in Bytes
  BY DEF Bytes, Slash
<1>3. Join(SubSeq(segments, 1, i), Slash) \in Words
  BY <1>1, <1>2, JoinMarks
<1>4. <<Slash>> \in Words
  BY <1>2 DEF Words
<1> QED
  BY <1>3, <1>4 DEF CrumbPrefix, Words

(* The token of a page is one of the keys selected for it.                 *)
LEMMA TokenIsKey ==
  ASSUME NEW S \in SUBSET Words, IsFiniteSet(S), NEW page \in Places, Shown(S, page).next # None
  PROVE  /\ Shown(S, page).next \in S /\ Shown(S, page).next \in Words
         /\ Shown(S, page).next \in Selected(S, Query(page.prefix), page.token)
<1> DEFINE q == Query(page.prefix)
           p == Shown(S, page)
<1>1. IsQuery(q)
  BY QueryTyped DEF Places
<1>2. S \in SUBSET Strings
  BY WordsAreStrings
<1>3. p = Page(S, q, page.token)
  BY DEF Shown
<1> HIDE DEF p, q
<1>4. p.next # None
  BY DEF p
<1>5. p.next \in Selected(S, q, page.token)
  BY <1>1, <1>2, <1>3, <1>4, PageIsExact
<1>6. p.next \in S
  BY <1>5 DEF Selected
<1> QED
  BY <1>5, <1>6 DEF p, q

(* Opening a prefix keeps the state as it should be,                       *)
LEMMA GoToTyped ==
  ASSUME TypeInv, NEW prefix \in Words, GoTo(prefix), typed' \in BOOLEAN
  PROVE  TypeInv'
<1>1. UNCHANGED <<bucket, stored>> /\ at' \in Places /\ quiet' \in BOOLEAN /\ url' = None
  BY DEF GoTo, Places
<1> QED
  BY <1>1 DEF TypeInv

(* and so does making a URL for a stored key.                              *)
LEMMA MintedTyped ==
  ASSUME TypeInv, NEW keys \in SUBSET stored, NEW expires \in Nat, Minted(keys, expires)
  PROVE  TypeInv'
<1>1. PICK key \in keys, time \in MintTimes : url' = PresignUrl(key, time, expires)
  BY DEF Minted
<1>2. UNCHANGED <<bucket, stored, at, typed, seen, quiet>>
  BY DEF Minted
<1>3. time \in Instants /\ key \in stored
  BY <1>1, LinksAssumption
<1>4. UrlIsMade'
  BY <1>1, <1>2, <1>3 DEF UrlIsMade, PresignUrl, ObjectPath
<1> QED
  BY <1>2, <1>4 DEF TypeInv

(* The objects on a page are stored.                                       *)
LEMMA ShownObjectsAreStored ==
  ASSUME TypeInv
  PROVE  ShownObjects \in SUBSET stored
<1> DEFINE q == Query(at.prefix)
           p == Shown(stored, at)
<1>1. IsQuery(q)
  BY QueryTyped DEF Places, TypeInv
<1>2. stored \in SUBSET Strings /\ IsFiniteSet(stored)
  BY WordsAreStrings DEF TypeInv, Keys
<1>3. p = Page(stored, q, at.token)
  BY DEF Shown
<1> HIDE DEF p, q
<1>4. ObjectsOf(p, q) \in SUBSET Selected(stored, q, at.token)
  BY <1>1, <1>2, <1>3, PageIsExact
<1>5. ObjectsOf(p, q) \in SUBSET stored
  BY <1>4 DEF Selected
<1> QED
  BY <1>5 DEF ShownObjects, p, q

(* What clients have tried to store is a finite set of keys.               *)
LEMMA StoresAreKeys ==
  ASSUME NEW S \in Stores
  PROVE  S \in SUBSET Keys /\ IsFiniteSet(S)
BY AsciiWords, LinksAssumption DEF Keys

(***************************************************************************)
(* The state stays what it should be: keys are accepted words, the page is *)
(* a prefix and a key or none, and a presigned URL is one made for a       *)
(* stored key.                                                             *)
(***************************************************************************)
THEOREM LinksTyped == Spec => []TypeInv
<1>1. Init => TypeInv
  <2> SUFFICES ASSUME Init PROVE TypeInv
    OBVIOUS
  <2>1. bucket \in Words /\ ValidBucketName(bucket)
    BY AsciiWords, LinksAssumption DEF Init
  <2>2. PICK S \in Stores : stored = {k \in S : Accepted(k)}
    BY DEF Init
  <2>3. stored \in SUBSET S /\ \A k \in stored : Accepted(k)
    BY <2>2
  <2>4. stored \in SUBSET Keys /\ IsFiniteSet(stored)
    BY <2>3, StoresAreKeys, FS_Subset
  <2>5. <<>> \in Words
    BY DEF Words
  <2>6. at \in Places /\ typed \in BOOLEAN /\ quiet \in BOOLEAN /\ url = None
    BY <2>5 DEF Init, Places
  <2> QED
    BY <2>1, <2>3, <2>4, <2>6 DEF TypeInv
<1>2. TypeInv /\ [Next]_vars => TypeInv'
  <2> SUFFICES ASSUME TypeInv, [Next]_vars PROVE TypeInv'
    OBVIOUS
  <2>1. stored \in SUBSET Words /\ IsFiniteSet(stored) /\ at \in Places /\ typed \in BOOLEAN
    BY DEF TypeInv, Keys
  <2>2. CASE OpenFolder
    <3>1. PICK folder \in PrefixesOf(Shown(stored, at), Query(at.prefix)) : GoTo(Through(folder))
      BY <2>2 DEF OpenFolder
    <3>2. folder \in Words
      BY <2>1, FolderIs
    <3>3. GoTo(folder) /\ typed' \in BOOLEAN
      BY <2>1, <2>2, <3>1, <3>2, ThroughIs DEF OpenFolder
    <3> QED
      BY <3>2, <3>3, GoToTyped
  <2>3. CASE OpenCrumb
    <3> DEFINE segments == Segments(at.prefix)
    <3>1. PICK i \in 1..(Len(segments) - 1) : GoTo(Through(CrumbPrefix(segments, i)))
      BY <2>3 DEF OpenCrumb
    <3>2. segments \in Texts
      BY <2>1, SegmentsTyped DEF Places
    <3> HIDE DEF segments
    <3>3. i \in 1..Len(segments)
      BY <3>2 DEF Texts
    <3>4. CrumbPrefix(segments, i) \in Words
      BY <3>2, <3>3, CrumbTyped
    <3>5. GoTo(CrumbPrefix(segments, i)) /\ typed' \in BOOLEAN
      BY <2>1, <2>3, <3>1, <3>4, ThroughIs DEF OpenCrumb
    <3> QED
      BY <3>4, <3>5, GoToTyped
  <2>4. CASE OpenBucket
    <3>1. <<>> \in Words
      BY DEF Words
    <3> QED
      BY <2>4, <3>1, GoToTyped DEF OpenBucket
  <2>5. CASE Filter
    <3>1. PICK t \in Filters : GoTo(t)
      BY <2>5 DEF Filter
    <3>2. t \in Words /\ typed' \in BOOLEAN
      BY <2>5, AsciiWords, LinksAssumption DEF Filter
    <3> QED
      BY <3>1, <3>2, GoToTyped
  <2>6. CASE NextPage
    <3>1. Shown(stored, at).next \in Words
      BY <2>1, <2>6, TokenIsKey DEF NextPage
    <3>2. at.prefix \in Words
      BY <2>1 DEF Places
    <3>3. at' \in Places
      BY <2>6, <3>1, <3>2, ThroughIs DEF NextPage, NextHref, Places
    <3> QED
      BY <2>6, <3>3 DEF NextPage, TypeInv
  <2>7. CASE Download
    BY <2>7 DEF Download, TypeInv
  <2>8. CASE Upload
    <3>1. PICK name \in FileNames :
             LET target == Served(Sent(ConsolePath(UploadRoute, UploadKey(at.prefix, name))))
                 taken  == target.by = "console" /\ target.bucket = bucket /\ Accepted(target.key)
             IN  stored' = IF taken THEN stored \cup {target.key} ELSE stored
      BY <2>8 DEF Upload
    <3> DEFINE path == ConsolePath(UploadRoute, UploadKey(at.prefix, name))
               target == Served(Sent(path))
               taken == target.by = "console" /\ target.bucket = bucket /\ Accepted(target.key)
    <3>2. UNCHANGED <<bucket, at, typed>> /\ url' = None /\ quiet' = (quiet /\ stored' = stored)
      BY <2>8 DEF Upload
    <3>3. CASE taken
      <4>1. UploadRoute \in Words
        BY DEF UploadRoute, Words, Bytes
      <4>2. name \in Words
        BY AsciiWords, LinksAssumption
      <4>3. UploadKey(at.prefix, name) \in Words
        BY <2>1, <4>2 DEF UploadKey, Places, Words
      <4>4. path \in Words
        BY <4>1, <4>3, ConsolePathTyped DEF TypeInv
      <4>5. Sent(path) \in Texts
        <5> HIDE DEF path
        <5> QED
          BY <4>4, SentTyped
      <4>6. target.key \in Keys
        <5> HIDE DEF path
        <5> QED
          BY <3>3, <4>5, ServedByConsole
      <4>7. stored' = stored \cup {target.key} /\ Accepted(target.key)
        BY <3>1, <3>3
      <4>8. stored' \in SUBSET Keys /\ IsFiniteSet(stored') /\ \A k \in stored' : Accepted(k)
        <5> HIDE DEF target
        <5> QED
          BY <4>6, <4>7, FS_AddElement DEF TypeInv
      <4> HIDE DEF target, taken, path
      <4> QED
        BY <3>2, <4>8 DEF TypeInv
    <3>4. CASE ~taken
      <4>1. stored' = stored
        BY <3>1, <3>4
      <4> HIDE DEF target, taken, path
      <4> QED
        BY <3>2, <4>1 DEF TypeInv
    <3> QED
      BY <3>3, <3>4
  <2>9. CASE Presign
    <3>1. ShownObjects \in SUBSET stored
      BY ShownObjectsAreStored
    <3> QED
      BY <2>9, <3>1, MintedTyped DEF Presign
  <2>10. CASE PresignOnCommandLine
    <3>1. PICK expires \in Lifetimes : Minted(stored, expires)
      BY <2>10 DEF PresignOnCommandLine
    <3>2. expires \in Nat /\ stored \in SUBSET stored
      BY LinksAssumption
    <3> QED
      BY <3>1, <3>2, MintedTyped
  <2>11. CASE UseUrl
    BY <2>11 DEF UseUrl, TypeInv
  <2>12. CASE UNCHANGED vars
    BY <2>12 DEF vars, TypeInv, UrlIsMade, PresignUrl, ObjectPath
  <2> QED
    BY <2>2, <2>3, <2>4, <2>5, <2>6, <2>7, <2>8, <2>9, <2>10, <2>11, <2>12 DEF Next
<1> QED
  BY <1>1, <1>2, PTL DEF Spec

(***************************************************************************)
(* The files of objects give back the keys, whatever bytes are in them,    *)
(* and are told apart from each other and from the other files of their    *)
(* directory (encode.rs).                                                  *)
(***************************************************************************)
THEOREM FilesAreFaithful == Spec => []FilesKeepTheirKeys
<1>1. ASSUME TypeInv PROVE FilesKeepTheirKeys
  <2>1. ASSUME NEW k \in stored
        PROVE  /\ IsKeyFile(KeyFile(k)) /\ PercentDecode(KeyFile(k)) = k
               /\ Slash \notin ToSet(KeyFile(k))
               /\ Head(KeyFile(k)) # Dot
    <3>1. k \in Words /\ k # <<>> /\ ~TraversalUnsafe(k)
      BY <1>1 DEF TypeInv, Keys, Accepted
    <3>2. Percent \notin Alphanumeric
      BY DEF Percent, Alphanumeric, Digits, Uppercase, Lowercase
    <3>3. PercentDecode(KeyFile(k)) = k
      BY <3>1, <3>2, EncodeDecode DEF KeyFile
    <3>4. KeyFile(k) \in Words /\ ToSet(KeyFile(k)) \subseteq Alphanumeric \cup {Percent}
      BY <3>1, EncodeTyped, EncodeBytes DEF KeyFile, Alphanumeric
    <3>5. {Slash, Dot} \cap (Alphanumeric \cup {Percent}) = {}
      BY DEF Slash, Dot, Percent, Alphanumeric, Digits, Uppercase, Lowercase
    <3>6. KeyFile(k) # <<>>
      BY <3>1, <3>3, DecodeEmpty
    <3>7. Head(KeyFile(k)) \in ToSet(KeyFile(k))
      <4> DEFINE f == KeyFile(k)
      <4> HIDE DEF f
      <4>1. f \in Words /\ f # <<>>
        BY <3>4, <3>6 DEF f
      <4>2. Head(f) = f[1] /\ 1 \in DOMAIN f
        BY <4>1 DEF Words
      <4> QED
        BY <4>2 DEF f, ToSet
    <3> QED
      BY <3>1, <3>3, <3>4, <3>5, <3>7 DEF IsKeyFile
  <2> QED
    BY <2>1, Zenon DEF FilesKeepTheirKeys
<1> QED
  BY <1>1, LinksTyped, PTL

-----------------------------------------------------------------------------
(***************************************************************************)
(* Turning the pages of a prefix.                                          *)
(***************************************************************************)
(* The rows of the keys in X up to token t, or of all if there is none.    *)
Part(X, q, t) ==
  {k \in X : Group(k, q) = None /\ (t # None => UpTo(k, t))}
    \cup {Group(k, q) : k \in {l \in X : Group(l, q) # None /\ (t # None => UpTo(l, t))}}

(* The pages turned so far have shown what is up to the last one's token.  *)
SeenInv ==
  quiet => seen = Part(Matching(stored, Query(at.prefix)), Query(at.prefix), Shown(stored, at).next)

(* The rows of a page are those of the keys selected for it, up to its     *)
(* token.                                                                  *)
LEMMA RowsArePart ==
  ASSUME NEW S \in SUBSET Words, IsFiniteSet(S), NEW page \in Places
  PROVE  Rows(S, page)
           = Part(Selected(S, Query(page.prefix), page.token), Query(page.prefix), Shown(S, page).next)
<1> DEFINE q == Query(page.prefix)
           p == Shown(S, page)
<1>1. IsQuery(q)
  BY QueryTyped DEF Places
<1>2. S \in SUBSET Strings
  BY WordsAreStrings
<1>3. p = Page(S, q, page.token)
  BY DEF Shown
<1>4. Rows(S, page) = ObjectsOf(p, q) \cup PrefixesOf(p, q)
  BY DEF Rows
<1> HIDE DEF p, q
<1>5. Rows(S, page) = Part(Selected(S, q, page.token), q, p.next)
  BY <1>1, <1>2, <1>3, <1>4, PageIsExact DEF Part
<1> QED
  BY <1>5 DEF p, q

(* The first page, and one more.                                           *)
LEMMA FirstRows ==
  ASSUME NEW S \in SUBSET Words, IsFiniteSet(S), NEW page \in Places, page.token = None
  PROVE  Rows(S, page) = Part(Matching(S, Query(page.prefix)), Query(page.prefix), Shown(S, page).next)
<1>1. Selected(S, Query(page.prefix), page.token) = Matching(S, Query(page.prefix))
  BY DEF Selected, Matching
<1> QED
  BY <1>1, RowsArePart

(* One page more shows what lies between two tokens.                       *)
LEMMA MoreRows ==
  ASSUME NEW S \in SUBSET Words, IsFiniteSet(S), NEW page \in Places, NEW t, page.token = t,
         t \in Words, NEW q, q = Query(page.prefix)
  PROVE  Part(Matching(S, q), q, t) \cup Rows(S, page) = Part(Matching(S, q), q, Shown(S, page).next)
<1> DEFINE u == Shown(S, page).next
           M == Matching(S, q)
           X == Selected(S, q, t)
<1>1. u # None => u \in X /\ u \in Words
  BY TokenIsKey
<1>2. Rows(S, page) = Part(X, q, u)
  BY RowsArePart
<1>3. t # None /\ t \in Strings /\ S \in SUBSET Strings
  BY WordsAreStrings
<1>4. X = {k \in M : Before(t, k)} /\ M \in SUBSET Strings
  BY <1>3 DEF Selected, Matching
<1>5. u # None => u \in Strings /\ Before(t, u)
  BY <1>1, <1>4
<1> HIDE DEF u, M, X
<1>6. ASSUME NEW k \in M
      PROVE  (u # None => UpTo(k, u)) <=> UpTo(k, t) \/ (k \in X /\ (u # None => UpTo(k, u)))
  <2>1. UpTo(k, t) \/ k \in X
    BY <1>3, <1>4, BeforeOrder DEF UpTo
  <2>2. UpTo(k, t) /\ u # None => UpTo(k, u)
    BY <1>3, <1>4, <1>5, BeforeOrder DEF UpTo
  <2> QED
    BY <2>1, <2>2
<1>7. X \in SUBSET M
  BY <1>4
<1>8. Part(M, q, t) \cup Part(X, q, u) = Part(M, q, u)
  <2> DEFINE In(k) == u # None => UpTo(k, u)
  <2>1. \A k \in M : In(k) <=> UpTo(k, t) \/ (k \in X /\ In(k))
    BY <1>6
  <2>2. /\ Part(M, q, u) = {k \in M : Group(k, q) = None /\ In(k)}
                             \cup {Group(k, q) : k \in {l \in M : Group(l, q) # None /\ In(l)}}
        /\ Part(X, q, u) = {k \in X : Group(k, q) = None /\ In(k)}
                             \cup {Group(k, q) : k \in {l \in X : Group(l, q) # None /\ In(l)}}
        /\ Part(M, q, t) = {k \in M : Group(k, q) = None /\ UpTo(k, t)}
                             \cup {Group(k, q) : k \in {l \in M : Group(l, q) # None /\ UpTo(l, t)}}
    BY <1>3 DEF Part
  <2> HIDE DEF In
  <2>3. /\ {k \in M : Group(k, q) = None /\ UpTo(k, t)} \cup {k \in X : Group(k, q) = None /\ In(k)}
             = {k \in M : Group(k, q) = None /\ In(k)}
        /\ {l \in M : Group(l, q) # None /\ UpTo(l, t)} \cup {l \in X : Group(l, q) # None /\ In(l)}
             = {l \in M : Group(l, q) # None /\ In(l)}
    BY <1>7, <2>1
  <2> DEFINE A == {l \in M : Group(l, q) # None /\ UpTo(l, t)}
             B == {l \in X : Group(l, q) # None /\ In(l)}
             C == {l \in M : Group(l, q) # None /\ In(l)}
  <2>4. A \cup B = C
    BY <2>3
  <2> HIDE DEF A, B, C
  <2>5. {Group(k, q) : k \in A} \cup {Group(k, q) : k \in B} = {Group(k, q) : k \in C}
    BY <2>4
  <2> QED
    BY <2>2, <2>3, <2>5 DEF A, B, C
<1> QED
  BY <1>2, <1>8 DEF u, M

(* Any page shows rows of its keys up to its token only.                   *)
LEMMA RowsOfMatching ==
  ASSUME NEW S \in SUBSET Words, IsFiniteSet(S), NEW page \in Places
  PROVE  Rows(S, page) \subseteq Part(Matching(S, Query(page.prefix)), Query(page.prefix), Shown(S, page).next)
<1>1. Selected(S, Query(page.prefix), page.token) \subseteq Matching(S, Query(page.prefix))
  BY DEF Selected, Matching
<1> QED
  BY <1>1, RowsArePart DEF Part

(* Opening a prefix begins to see it.                                      *)
LEMMA GoToSeen ==
  ASSUME TypeInv, TypeInv', NEW prefix, GoTo(prefix)
  PROVE  SeenInv'
<1>1. stored' = stored /\ seen' = Rows(stored, at') /\ at'.token = None
  BY DEF GoTo
<1>2. stored \in SUBSET Words /\ IsFiniteSet(stored) /\ at' \in Places
  BY DEF TypeInv, Keys
<1> QED
  BY <1>1, <1>2, FirstRows DEF SeenInv

(***************************************************************************)
(* Who turns the pages of a prefix to the last sees its objects and its    *)
(* folders, all of them and nothing else: no row is lost or shown between  *)
(* two pages that is not there.                                            *)
(***************************************************************************)
THEOREM PagesAreExhaustive == Spec => []PagesCoverFolder
<1>1. Init /\ TypeInv => SeenInv
  <2> SUFFICES ASSUME Init, TypeInv PROVE SeenInv
    OBVIOUS
  <2>1. seen = Rows(stored, at) /\ at.token = None
    BY DEF Init
  <2>2. stored \in SUBSET Words /\ IsFiniteSet(stored) /\ at \in Places
    BY DEF TypeInv, Keys
  <2> QED
    BY <2>1, <2>2, FirstRows DEF SeenInv
<1>2. TypeInv /\ TypeInv' /\ SeenInv /\ [Next]_vars => SeenInv'
  <2> SUFFICES ASSUME TypeInv, TypeInv', SeenInv, [Next]_vars PROVE SeenInv'
    OBVIOUS
  <2>1. stored \in SUBSET Words /\ IsFiniteSet(stored) /\ at \in Places /\ at' \in Places
    BY DEF TypeInv, Keys
  <2>2. CASE OpenFolder \/ OpenCrumb \/ OpenBucket \/ Filter
    <3>1. \E prefix : GoTo(prefix)
      BY <2>2, Zenon DEF OpenFolder, OpenCrumb, OpenBucket, Filter
    <3> QED
      BY <3>1, GoToSeen
  <2>3. CASE NextPage
    <3> DEFINE t == Shown(stored, at).next
               q == Query(at.prefix)
    <3>1. t # None /\ stored' = stored /\ quiet' = quiet /\ seen' = seen \cup Rows(stored, at')
      BY <2>3 DEF NextPage
    <3>2. t \in Words /\ at.prefix \in Words
      BY <2>1, <3>1, TokenIsKey DEF Places
    <3>3. at' = [prefix |-> at.prefix, token |-> t]
      BY <2>3, <3>2, ThroughIs DEF NextPage, NextHref
    <3>4. at'.token = t /\ at'.prefix = at.prefix
      BY <3>3
    <3> HIDE DEF t
    <3>5. Part(Matching(stored, q), q, t) \cup Rows(stored, at') = Part(Matching(stored, q), q, Shown(stored, at').next)
      <4>1. q = Query(at'.prefix)
        BY <3>4
      <4> HIDE DEF q
      <4> QED
        BY <2>1, <3>2, <3>4, <4>1, MoreRows
    <3>6. quiet => seen = Part(Matching(stored, q), q, t)
      BY DEF SeenInv, t
    <3> QED
      BY <3>1, <3>4, <3>5, <3>6 DEF SeenInv
  <2>4. CASE Upload
    <3>1. /\ quiet' = (quiet /\ stored' = stored) /\ at' = at /\ seen' = seen \cup Rows(stored', at)
      BY <2>4 DEF Upload
    <3>2. quiet' => quiet /\ stored' = stored
      BY <3>1
    <3>3. Rows(stored, at) \subseteq Part(Matching(stored, Query(at.prefix)), Query(at.prefix), Shown(stored, at).next)
      BY <2>1, RowsOfMatching
    <3> QED
      BY <3>1, <3>2, <3>3 DEF SeenInv
  <2>5. CASE Download \/ Presign \/ PresignOnCommandLine \/ UseUrl \/ UNCHANGED vars
    <3>1. UNCHANGED <<stored, at, seen, quiet>>
      BY <2>5 DEF Download, Presign, PresignOnCommandLine, Minted, UseUrl, vars
    <3> QED
      BY <3>1 DEF SeenInv
  <2> QED
    BY <2>2, <2>3, <2>4, <2>5 DEF Next
<1>3. TypeInv /\ SeenInv => PagesCoverFolder
  <2> SUFFICES ASSUME TypeInv, SeenInv, quiet, Shown(stored, at).next = None
               PROVE  seen = Direct(stored, Query(at.prefix)) \cup Collapsed(stored, Query(at.prefix))
    BY DEF PagesCoverFolder
  <2> DEFINE q == Query(at.prefix)
  <2>1. IsQuery(q) /\ stored \in SUBSET Strings
    BY QueryTyped, WordsAreStrings DEF TypeInv, Keys, Places
  <2>2. seen = Part(Matching(stored, q), q, None)
    BY DEF SeenInv
  <2> HIDE DEF q
  <2>3. Part(Matching(stored, q), q, None) = Direct(stored, q) \cup Collapsed(stored, q)
    BY <2>1, ReferenceGroups DEF Part
  <2> QED
    BY <2>2, <2>3 DEF q
<1> QED
  BY <1>1, <1>2, <1>3, LinksTyped, PTL DEF Spec

-----------------------------------------------------------------------------
(***************************************************************************)
(* Where links lead.                                                       *)
(***************************************************************************)
(* The bytes of one byte more,                                             *)
LEMMA AppendBytes ==
  ASSUME NEW E, NEW s \in Seq(E), NEW e \in E
  PROVE  ToSet(Append(s, e)) = ToSet(s) \cup {e}
<1> DEFINE u == Append(s, e)
           n == Len(s)
<1>1. n \in Nat /\ DOMAIN s = 1..n
  OBVIOUS
<1>2. DOMAIN u = 1..(n + 1) /\ u[n + 1] = e /\ \A i \in 1..n : u[i] = s[i]
  BY <1>1
<1>3. \A i \in 1..(n + 1) : i \in 1..n \/ i = n + 1
  BY <1>1
<1>4. n + 1 \in 1..(n + 1) /\ \A i \in 1..n : i \in 1..(n + 1)
  BY <1>1
<1> HIDE DEF u, n
<1>5. ToSet(u) = ToSet(s) \cup {e}
  BY <1>1, <1>2, <1>3, <1>4 DEF ToSet
<1> QED
  BY <1>5 DEF u

(* and those of two words together.                                        *)
LEMMA ConcatBytes ==
  ASSUME NEW E, NEW s \in Seq(E), NEW t \in Seq(E)
  PROVE  ToSet(s \o t) = ToSet(s) \cup ToSet(t)
<1> DEFINE u == s \o t
           n == Len(s)
           m == Len(t)
<1>1. n \in Nat /\ m \in Nat /\ DOMAIN s = 1..n /\ DOMAIN t = 1..m
  OBVIOUS
<1>2. u \in Seq(E) /\ Len(u) = n + m /\ \A i \in 1..(n + m) : u[i] = IF i <= n THEN s[i] ELSE t[i - n]
  BY ConcatProperties
<1> HIDE DEF u, n, m
<1>3. DOMAIN u = 1..(n + m)
  BY <1>2
<1>4. ASSUME NEW i \in 1..(n + m), i \notin 1..n PROVE i - n \in 1..m /\ u[i] = t[i - n]
  <2>1. i - n \in 1..m /\ ~(i <= n)
    BY <1>1, <1>4
  <2> QED
    BY <1>2, <2>1
<1>5. \A i \in 1..n : i \in 1..(n + m) /\ u[i] = s[i]
  BY <1>1, <1>2
<1>6. ASSUME NEW i \in 1..m PROVE n + i \in 1..(n + m) /\ u[n + i] = t[i]
  <2>1. n + i \in 1..(n + m) /\ ~(n + i <= n) /\ n + i - n = i
    BY <1>1
  <2> DEFINE j == n + i
  <2>2. j \in 1..(n + m) /\ ~(j <= n) /\ j - n = i
    BY <1>1, <2>1
  <2> HIDE DEF j
  <2>3. u[j] = t[i]
    BY <1>2, <2>2
  <2> QED
    BY <2>2, <2>3 DEF j
<1>7. ToSet(u) \subseteq ToSet(s) \cup ToSet(t)
  BY <1>1, <1>3, <1>4, <1>5 DEF ToSet
<1>8. ToSet(s) \cup ToSet(t) \subseteq ToSet(u)
  BY <1>1, <1>3, <1>5, <1>6 DEF ToSet
<1> QED
  BY <1>7, <1>8 DEF u

(* A word is a prefix of it and more.                                      *)
LEMMA PrefixConcat ==
  ASSUME NEW s \in Words, NEW t \in Words
  PROVE  s \o t \in Words /\ IsPrefix(s, s \o t)
<1>1. s \o t \in Words /\ Len(s) \in Nat /\ Len(t) \in Nat /\ Len(s \o t) = Len(s) + Len(t)
  BY DEF Words
<1>2. \A i \in 1..Len(s) : (s \o t)[i] = s[i]
  BY DEF Words
<1>3. Len(s) <= Len(s \o t)
  BY <1>1
<1>4. s \in Strings /\ s \o t \in Strings
  BY <1>1, WordsAreStrings
<1> DEFINE u == s \o t
<1> HIDE DEF u
<1>5. IsPrefix(s, u)
  BY <1>2, <1>3, <1>4, PrefixPlaces DEF u
<1> QED
  BY <1>1, <1>5 DEF u

(* A word is a prefix of it and the rest.                                  *)
LEMMA PrefixRest ==
  ASSUME NEW g \in Words, NEW k \in Words, IsPrefix(g, k)
  PROVE  \E rest \in Words : k = g \o rest
<1> DEFINE n == Len(g)
           rest == SubSeq(k, n + 1, Len(k))
<1>1. n <= Len(k) /\ \A i \in 1..n : g[i] = k[i]
  BY WordsAreStrings, PrefixPlaces
<1>2. n \in Nat /\ Len(k) \in Nat
  BY DEF Words
<1>3. rest \in Words /\ Len(rest) = Len(k) - n /\ \A i \in 1..(Len(k) - n) : rest[i] = k[n + i]
  <2>1. \A i \in (n + 1)..Len(k) : k[i] \in Bytes
    BY <1>2 DEF Words
  <2>2. n + 1 \in Int /\ Len(k) \in Int
    BY <1>2
  <2> HIDE DEF n
  <2>3. /\ rest \in Seq(Bytes)
        /\ Len(rest) = IF n + 1 <= Len(k) THEN Len(k) - (n + 1) + 1 ELSE 0
        /\ \A i \in 1..(Len(k) - (n + 1) + 1) : rest[i] = k[(n + 1) + i - 1]
    BY <2>1, <2>2, SubSeqProperties
  <2>4. Len(rest) = Len(k) - n
    <3> HIDE DEF rest
    <3> QED
      BY <1>1, <1>2, <2>3 DEF n
  <2>5. ASSUME NEW i \in 1..(Len(k) - n) PROVE rest[i] = k[n + i]
    <3>1. Len(k) - (n + 1) + 1 = Len(k) - n /\ (n + 1) + i - 1 = n + i
      BY <1>2 DEF n
    <3> HIDE DEF rest
    <3>2. rest[i] = k[(n + 1) + i - 1]
      BY <2>3, <3>1
    <3> QED
      BY <3>1, <3>2
  <2> QED
    BY <2>3, <2>4, <2>5 DEF Words
<1> HIDE DEF rest
<1>4. g \o rest \in Words /\ Len(g \o rest) = Len(k)
  BY <1>1, <1>2, <1>3 DEF Words
<1>5. ASSUME NEW i \in 1..Len(k) PROVE (g \o rest)[i] = k[i]
  <2>1. (g \o rest)[i] = IF i <= n THEN g[i] ELSE rest[i - n]
    BY <1>2, <1>3, <1>4 DEF Words
  <2>2. CASE i <= n
    BY <1>1, <1>2, <2>1, <2>2
  <2>3. CASE ~(i <= n)
    <3>1. i - n \in 1..(Len(k) - n) /\ n + (i - n) = i
      BY <1>2, <2>3
    <3>2. rest[i - n] = k[n + (i - n)]
      BY <1>3, <3>1
    <3> QED
      BY <2>1, <2>3, <3>1, <3>2
  <2> QED
    BY <2>2, <2>3
<1> DEFINE u == g \o rest
<1> HIDE DEF u
<1>6. k = u
  BY <1>4, <1>5, SeqEqual DEF Words, u
<1> QED
  BY <1>3, <1>6 DEF u

(* A prefix of a prefix is a prefix.                                       *)
LEMMA PrefixChain ==
  ASSUME NEW f \in Words, NEW g \in Words, NEW k \in Words, IsPrefix(f, g), IsPrefix(g, k)
  PROVE  IsPrefix(f, k)
<1>1. f \in Strings /\ g \in Strings /\ k \in Strings
  BY WordsAreStrings
<1>2. /\ Len(f) <= Len(g) /\ \A i \in 1..Len(f) : f[i] = g[i]
      /\ Len(g) <= Len(k) /\ \A i \in 1..Len(g) : g[i] = k[i]
  BY <1>1, PrefixPlaces
<1>3. Len(f) \in Nat /\ Len(g) \in Nat /\ Len(k) \in Nat
  BY DEF Words
<1>4. Len(f) <= Len(k) /\ \A i \in 1..Len(f) : f[i] = k[i]
  BY <1>2, <1>3
<1> QED
  BY <1>1, <1>4, PrefixPlaces

(* The pieces of a text that are not empty.                                *)
Single(piece) == IF piece = <<>> THEN <<>> ELSE << piece >>
Singles(t) == [i \in DOMAIN t |-> Single(t[i])]

(* One piece or none for each,                                             *)
LEMMA SinglesTyped ==
  ASSUME NEW t \in Texts
  PROVE  /\ Singles(t) \in Seq(Texts) /\ Len(Singles(t)) = Len(t)
         /\ \A i \in 1..Len(t) : Singles(t)[i] = Single(t[i])
<1>1. DOMAIN t = 1..Len(t) /\ Len(t) \in Nat /\ \A i \in 1..Len(t) : t[i] \in Words
  BY DEF Texts
<1>2. ASSUME NEW w \in Words PROVE Single(w) \in Texts
  BY DEF Single, Texts
<1>3. \A i \in 1..Len(t) : Single(t[i]) \in Texts
  BY <1>1, <1>2
<1> QED
  BY <1>1, <1>3 DEF Singles

(* and one more for one more.                                              *)
LEMMA SinglesAppend ==
  ASSUME NEW t \in Texts, NEW w \in Words
  PROVE  Singles(Append(t, w)) = Append(Singles(t), Single(w))
<1> DEFINE u == Append(t, w)
           m == Len(t)
<1>1. u \in Texts /\ Len(u) = m + 1 /\ m \in Nat /\ u[m + 1] = w /\ \A i \in 1..m : u[i] = t[i]
  BY DEF Texts
<1>2. Single(w) \in Texts
  BY DEF Single, Texts
<1> HIDE DEF u
<1>3. /\ Singles(u) \in Seq(Texts) /\ Len(Singles(u)) = m + 1
      /\ \A i \in 1..(m + 1) : Singles(u)[i] = Single(u[i])
  BY <1>1, SinglesTyped
<1>4. /\ Singles(t) \in Seq(Texts) /\ Len(Singles(t)) = m
      /\ \A i \in 1..m : Singles(t)[i] = Single(t[i])
  BY SinglesTyped
<1> DEFINE v == Append(Singles(t), Single(w))
<1>5. v \in Seq(Texts) /\ Len(v) = m + 1 /\ v[m + 1] = Single(w) /\ \A i \in 1..m : v[i] = Singles(t)[i]
  BY <1>1, <1>2, <1>4
<1> HIDE DEF v, m
<1>6. \A i \in 1..(m + 1) : Singles(u)[i] = v[i]
  <2> SUFFICES ASSUME NEW i \in 1..(m + 1) PROVE Singles(u)[i] = v[i]
    OBVIOUS
  <2>1. i \in 1..m \/ i = m + 1
    BY <1>1
  <2> QED
    BY <1>1, <1>3, <1>4, <1>5, <2>1
<1>7. Singles(u) = v
  BY <1>3, <1>5, <1>6, SeqEqual
<1> QED
  BY <1>7 DEF u, v

(* Where no piece is empty, none is left out.                              *)
LEMMA WholePieces ==
  ASSUME NEW t \in Texts, <<>> \notin ToSet(t)
  PROVE  FlattenSeq(Singles(t)) = t
<1> DEFINE G == {s \in Texts : <<>> \notin ToSet(s) => FlattenSeq(Singles(s)) = s}
<1>1. <<>> \in G
  <2>1. <<>> \in Texts
    BY DEF Texts
  <2>2. Singles(<<>>) = <<>>
    <3>1. Singles(<<>>) \in Seq(Texts) /\ Len(Singles(<<>>)) = 0
      BY <2>1, SinglesTyped
    <3> QED
      BY <3>1, EmptySeq
  <2>3. FlattenSeq(<<>>) = <<>>
    BY DEF FlattenSeq
  <2> QED
    BY <2>1, <2>2, <2>3
<1>2. ASSUME NEW s \in Seq(Words), NEW w \in Words, s \in G PROVE Append(s, w) \in G
  <2>1. s \in Texts /\ Append(s, w) \in Texts
    BY DEF Texts
  <2>2. SUFFICES ASSUME <<>> \notin ToSet(Append(s, w)) PROVE FlattenSeq(Singles(Append(s, w))) = Append(s, w)
    BY <2>1
  <2>3. w # <<>> /\ <<>> \notin ToSet(s)
    BY <2>2, AppendBytes
  <2>4. Single(w) = <<w>> /\ <<w>> \in Texts
    BY <2>3 DEF Single, Texts
  <2>5. Singles(Append(s, w)) = Append(Singles(s), <<w>>)
    BY <2>1, <2>4, SinglesAppend
  <2>6. Singles(s) \in Seq(Seq(Words)) /\ <<w>> \in Seq(Words)
    BY <2>1, <2>4, SinglesTyped DEF Texts
  <2>7. FlattenSeq(Append(Singles(s), <<w>>)) = FlattenSeq(Singles(s)) \o <<w>>
    BY <2>6, FlattenAppend
  <2>8. FlattenSeq(Singles(s)) = s
    BY <1>2, <2>3
  <2> QED
    BY <2>1, <2>5, <2>7, <2>8, ConcatOne DEF Texts
<1>3. \A s \in Seq(Words) : s \in G
  <2>1. \A s \in Seq(Words), w \in Words : s \in G => Append(s, w) \in G
    BY <1>2
  <2> HIDE DEF G
  <2> QED
    BY ONLY <1>1, <2>1, SeqClimb
<1> QED
  BY <1>3 DEF Texts

(* A slash at the end leaves an empty piece behind it.                     *)
LEMMA SplitBefore ==
  ASSUME NEW s \in Words
  PROVE  Split(Append(s, Slash), Slash) = Append(Split(s, Slash), <<>>)
<1>1. Slash \in Bytes /\ <<>> \in Words
  BY DEF Slash, Bytes, Words
<1> DEFINE p == Split(s, Slash)
<1>2. p \in Texts \ {<<>>}
  BY SplitTyped
<1>3. Split(Append(s, Slash), Slash) = SplitStep(p, Slash, Slash)
  BY <1>1, SplitAppend
<1> QED
  BY <1>3 DEF SplitStep

(* A crumb of a folder with an object in it that has no empty segment      *)
(* leads to a folder that holds this one.                                  *)
LEMMA CrumbIsFolder ==
  ASSUME NEW prefix \in Words, prefix # <<>>, prefix[Len(prefix)] = Slash,
         NEW k \in Words, IsPrefix(prefix, k), <<>> \notin ToSet(Front(Split(k, Slash))),
         NEW i \in 1..(Len(Segments(prefix)) - 1)
  PROVE  IsPrefix(CrumbPrefix(Segments(prefix), i), prefix)
<1> DEFINE r == Front(prefix)
           p == Split(r, Slash)
<1>1. Slash \in Bytes /\ <<>> \in Words
  BY DEF Slash, Bytes, Words
<1>2. r \in Words /\ prefix = Append(r, Slash)
  <2>1. r \in Words /\ prefix = Append(r, Last(prefix))
    BY FrontLast DEF Words
  <2>2. Last(prefix) = Slash
    BY DEF Last
  <2> QED
    BY <2>1, <2>2
<1> HIDE DEF r
<1>3. p \in Texts \ {<<>>}
  BY <1>2, SplitTyped
<1>4. PICK rest \in Words : k = prefix \o rest
  BY PrefixRest
<1>5. <<>> \notin ToSet(p)
  <2> DEFINE u == Split(rest, Slash)
  <2>1. Split(k, Slash) = p \o u
    <3>1. k = Append(r, Slash) \o rest
      BY <1>2, <1>4
    <3>2. Split(Append(r, Slash) \o rest, Slash) = Split(r, Slash) \o Split(rest, Slash)
      BY <1>1, <1>2, SplitConcat
    <3> QED
      BY <3>1, <3>2
  <2>2. u \in Texts \ {<<>>}
    BY SplitTyped
  <2> HIDE DEF u, p
  <2>3. Front(p \o u) = p \o Front(u) /\ Front(u) \in Texts
    BY <1>3, <2>2, FrontConcat, FrontLast DEF Texts
  <2> DEFINE v == Front(u)
  <2> HIDE DEF v
  <2>4. \A j \in 1..Len(p) : j \in DOMAIN (p \o v) /\ (p \o v)[j] = p[j]
    BY <1>3, <2>3 DEF v, Texts
  <2>5. DOMAIN p = 1..Len(p)
    BY <1>3 DEF Texts
  <2>6. ToSet(p) \subseteq ToSet(p \o v)
    BY <2>4, <2>5 DEF ToSet
  <2> QED
    BY <2>1, <2>3, <2>6 DEF v
<1> DEFINE w == Append(p, <<>>)
<1>6. Segments(prefix) = p
  <2>1. Split(prefix, Slash) = w
    BY <1>2, SplitBefore
  <2>2. Segments(prefix) = FlattenSeq(Singles(w))
    BY <2>1 DEF Segments, Singles, Single
  <2> HIDE DEF p
  <2>3. Singles(w) = Append(Singles(p), <<>>)
    BY <1>1, <1>3, SinglesAppend DEF Single
  <2>4. Singles(p) \in Seq(Seq(Words)) /\ <<>> \in Seq(Words)
    BY <1>3, SinglesTyped DEF Texts
  <2>5. FlattenSeq(Append(Singles(p), <<>>)) = FlattenSeq(Singles(p)) \o <<>>
    BY <2>4, FlattenAppend
  <2>6. FlattenSeq(Singles(p)) = p
    BY <1>3, <1>5, WholePieces
  <2>7. p \o <<>> = p
    BY <1>3, ConcatEmptySeq DEF Texts
  <2> QED
    BY <2>2, <2>3, <2>5, <2>6, <2>7
<1> DEFINE a == SubSeq(p, 1, i)
           b == SubSeq(p, i + 1, Len(p))
<1> HIDE DEF p
<1>7. i \in 1..(Len(p) - 1) /\ Len(p) \in Nat
  BY <1>3, <1>6 DEF Texts
<1>8. a \in Texts \ {<<>>} /\ b \in Texts \ {<<>>} /\ p = a \o b
  <2> DEFINE L == Len(p)
  <2>0. L \in Nat /\ i \in 1..(L - 1) /\ \A j \in 1..L : p[j] \in Words
    BY <1>3, <1>7 DEF Texts
  <2> HIDE DEF L
  <2>1. a \in Seq(Words) /\ Len(a) = i /\ \A j \in 1..i : a[j] = p[j]
    <3>1. \A j \in 1..i : p[j] \in Words
      BY <2>0
    <3>2. i \in Int /\ 1 \in Int /\ 1 <= i /\ i - 1 + 1 = i
      BY <2>0
    <3>3. \A j \in 1..i : 1 + j - 1 = j
      OBVIOUS
    <3> QED
      BY <3>1, <3>2, <3>3, SubSeqProperties
  <2>2. b \in Seq(Words) /\ Len(b) = L - i /\ \A j \in 1..(L - i) : b[j] = p[i + j]
    <3>1. \A j \in (i + 1)..L : p[j] \in Words
      BY <2>0
    <3>2. i + 1 \in Int /\ L \in Int /\ i + 1 <= L /\ L - (i + 1) + 1 = L - i
      BY <2>0
    <3>3. \A j \in 1..(L - i) : (i + 1) + j - 1 = i + j
      BY <2>0
    <3>4. /\ b \in Seq(Words) /\ Len(b) = IF i + 1 <= L THEN L - (i + 1) + 1 ELSE 0
          /\ \A j \in 1..(L - (i + 1) + 1) : b[j] = p[(i + 1) + j - 1]
      BY <3>1, <3>2, SubSeqProperties DEF L
    <3> HIDE DEF b
    <3> QED
      BY <3>2, <3>3, <3>4
  <2> HIDE DEF a, b
  <2>3. a # <<>> /\ b # <<>>
    <3>1. Len(a) # 0 /\ Len(b) # 0
      BY <2>0, <2>1, <2>2
    <3> QED
      BY <3>1
  <2>4. a \o b \in Seq(Words) /\ Len(a \o b) = L
    <3>1. a \o b \in Seq(Words) /\ Len(a \o b) = Len(a) + Len(b)
      BY <2>1, <2>2, ConcatProperties
    <3>2. i + (L - i) = L
      BY <2>0
    <3> QED
      BY <2>1, <2>2, <3>1, <3>2
  <2>5. ASSUME NEW j \in 1..L PROVE (a \o b)[j] = p[j]
    <3>1. (a \o b)[j] = IF j <= i THEN a[j] ELSE b[j - i]
      BY <2>0, <2>1, <2>2
    <3>2. CASE j <= i
      BY <2>1, <3>1, <3>2
    <3>3. CASE ~(j <= i)
      <4>1. j - i \in 1..(L - i) /\ i + (j - i) = j
        BY <2>0, <3>3
      <4>2. b[j - i] = p[i + (j - i)]
        BY <2>2, <4>1
      <4> QED
        BY <3>1, <3>3, <4>1, <4>2
    <3> QED
      BY <3>2, <3>3
  <2> DEFINE ab == a \o b
  <2> HIDE DEF ab
  <2>6. p = ab
    BY <1>3, <2>4, <2>5, SeqEqual DEF ab, L, Texts
  <2> QED
    BY <2>1, <2>2, <2>3, <2>6 DEF ab, Texts
<1> HIDE DEF a, b
<1> DEFINE ja == Join(a, Slash)
           jb == Join(b, Slash)
<1>9. ja \in Words /\ jb \in Words
  BY <1>1, <1>8, JoinMarks
<1>10. r = Append(ja, Slash) \o jb
  <2>1. Join(p, Slash) = r
    BY <1>1, <1>2, JoinSplit DEF p
  <2>2. Join(a \o b, Slash) = Append(Join(a, Slash), Slash) \o Join(b, Slash)
    BY <1>1, <1>8, JoinConcat
  <2> QED
    BY <1>8, <2>1, <2>2
<1>11. CrumbPrefix(Segments(prefix), i) = ja \o <<Slash>>
  BY <1>6 DEF CrumbPrefix, a
<1> HIDE DEF ja, jb
<1> DEFINE f == Append(ja, Slash)
<1>12. ja \o <<Slash>> = f /\ f \in Words
  BY <1>1, <1>9, ConcatOne DEF Words
<1> HIDE DEF f
<1>13. IsPrefix(f, r)
  BY <1>9, <1>10, <1>12, PrefixConcat DEF f
<1>14. IsPrefix(r, prefix)
  <2>1. <<Slash>> \in Words /\ prefix = r \o <<Slash>>
    BY <1>1, <1>2, ConcatOne DEF Words
  <2> QED
    BY <1>2, <2>1, PrefixConcat
<1>15. IsPrefix(f, prefix)
  BY <1>2, <1>12, <1>13, <1>14, PrefixChain
<1> QED
  BY <1>11, <1>12, <1>15

(* The prefix of a crumb ends with a slash.                                *)
LEMMA CrumbEnds ==
  ASSUME NEW segments \in Texts, NEW i \in 1..Len(segments), NEW c, c = CrumbPrefix(segments, i)
  PROVE  c # <<>> /\ c[Len(c)] = Slash
<1> DEFINE a == SubSeq(segments, 1, i)
           j == Join(a, Slash)
<1>1. a \in Texts \ {<<>>}
  BY DEF Texts
<1>2. Slash \in Bytes
  BY DEF Bytes, Slash
<1> HIDE DEF a
<1>3. j \in Words
  BY <1>1, <1>2, JoinMarks
<1>4. c = j \o <<Slash>>
  BY DEF CrumbPrefix, a
<1> HIDE DEF j
<1>5. c = Append(j, Slash)
  BY <1>2, <1>3, <1>4, ConcatOne DEF Words
<1>6. Len(c) = Len(j) + 1 /\ c[Len(j) + 1] = Slash /\ Len(j) \in Nat
  BY <1>2, <1>3, <1>5 DEF Words
<1> QED
  BY <1>6

(* A key of the folder is left to be shown on the page.                    *)
Waiting(S, page) ==
  \E k \in S : IsPrefix(page.prefix, k) /\ (page.token # None => Before(page.token, k))

(* No key has an empty segment before its last.                            *)
Tidy(S) == \A k \in S : <<>> \notin ToSet(Front(Split(k, Slash)))

(* The prefix is empty or a folder, and a key of it is left to be shown if *)
(* there are keys. An invariant of Next, which LinksReachObjects alone is  *)
(* not: it says nothing of the rows behind the page.                       *)
ReachInv ==
  ~typed => /\ at.prefix # <<>> => at.prefix[Len(at.prefix)] = Slash
            /\ stored = {} => at.prefix = <<>> /\ at.token = None
            /\ stored # {} /\ Tidy(stored) => Waiting(stored, at)

(* Where a page has a token, there is more.                                *)
LEMMA PageGoesOn ==
  ASSUME NEW S \in SUBSET Words, IsFiniteSet(S), NEW page \in Places,
         NEW t, t = Shown(S, page).next, t # None
  PROVE  Waiting(S, [prefix |-> page.prefix, token |-> t])
<1> DEFINE q == Query(page.prefix)
           p == Shown(S, page)
           sel == Selected(S, q, page.token)
           items == Items(sel, q)
<1>1. IsQuery(q) /\ q.prefix = page.prefix
  BY QueryTyped DEF Places
<1>2. S \in SUBSET Strings
  BY WordsAreStrings
<1>3. p = Page(S, q, page.token)
  BY DEF Shown
<1>4. p.shown # items
  <2>1. p.next = IF p.shown = items THEN None
                 ELSE CHOOSE k \in p.shown : Rank(k, items) = Clamp(q.max)
    BY <1>3 DEF Page
  <2> QED
    BY <2>1
<1>5. items \in SUBSET sel /\ sel \in SUBSET S /\ \A k \in sel : IsPrefix(q.prefix, k)
  BY DEF Items, Selected
<1>6. t = p.next
  OBVIOUS
<1> HIDE DEF p, q
<1>7. t \in items /\ p.shown = {k \in items : UpTo(k, t)}
  BY <1>1, <1>2, <1>3, <1>6, PageShows
<1> HIDE DEF items, sel
<1>8. PICK k \in items : ~UpTo(k, t)
  BY <1>4, <1>7
<1>9. Before(t, k)
  <2>1. t \in Strings /\ k \in Strings
    BY <1>2, <1>5, <1>7
  <2> QED
    BY <1>8, <2>1, BeforeOrder DEF UpTo
<1> QED
  BY <1>1, <1>5, <1>8, <1>9 DEF Waiting

(* Where a key is left, the page has a row.                                *)
LEMMA WaitingShows ==
  ASSUME NEW S \in SUBSET Words, IsFiniteSet(S), NEW page \in Places, Waiting(S, page)
  PROVE  Rows(S, page) # {}
<1> DEFINE q == Query(page.prefix)
           t == Shown(S, page).next
           sel == Selected(S, q, page.token)
<1>1. Rows(S, page) = Part(sel, q, t)
  BY RowsArePart
<1>2. PICK k \in S : IsPrefix(page.prefix, k) /\ (page.token # None => Before(page.token, k))
  BY DEF Waiting
<1>3. k \in sel
  BY <1>2, QueryTyped DEF Selected, Places
<1>4. t # None => t \in sel /\ UpTo(t, t)
  BY TokenIsKey DEF UpTo
<1> HIDE DEF sel, q, t
<1>5. \E x \in sel : t # None => UpTo(x, t)
  BY <1>3, <1>4
<1> QED
  BY <1>1, <1>5 DEF Part

(* Opening the folder of a key comes to where that key is left.            *)
LEMMA GoToReaches ==
  ASSUME TypeInv, NEW prefix \in Words, GoTo(prefix),
         prefix # <<>> => prefix[Len(prefix)] = Slash,
         stored = {} => prefix = <<>>,
         stored # {} /\ Tidy(stored) => \E k \in stored : IsPrefix(prefix, k)
  PROVE  ReachInv'
<1>1. stored' = stored /\ at' = [prefix |-> prefix, token |-> None]
  BY DEF GoTo
<1>2. at'.prefix = prefix /\ at'.token = None
  BY <1>1
<1>3. stored # {} /\ Tidy(stored) => Waiting(stored, at')
  BY <1>2 DEF Waiting
<1> QED
  BY <1>1, <1>2, <1>3 DEF ReachInv

(* Every step of the user keeps a key of the folder to be shown.           *)
LEMMA LinksReach == Spec => []ReachInv
<1>0. \A k \in Words : IsPrefix(<<>>, k)
  <2>1. <<>> \in Words
    BY DEF Words
  <2> QED
    BY <2>1, WordsAreStrings, PrefixPlaces
<1>1. Init /\ TypeInv => ReachInv
  <2> SUFFICES ASSUME Init, TypeInv PROVE ReachInv
    OBVIOUS
  <2>1. at.prefix = <<>> /\ at.token = None /\ stored \in SUBSET Words
    BY DEF Init, TypeInv, Keys
  <2>2. stored # {} => Waiting(stored, at)
    BY <1>0, <2>1 DEF Waiting
  <2> QED
    BY <2>1, <2>2 DEF ReachInv
<1>2. TypeInv /\ TypeInv' /\ ReachInv /\ [Next]_vars => ReachInv'
  <2> SUFFICES ASSUME TypeInv, TypeInv', ReachInv, [Next]_vars PROVE ReachInv'
    OBVIOUS
  <2>1. stored \in SUBSET Words /\ IsFiniteSet(stored) /\ at \in Places /\ at.prefix \in Words
    BY DEF TypeInv, Keys, Places
  <2>2. CASE OpenFolder
    <3>1. PICK folder \in PrefixesOf(Shown(stored, at), Query(at.prefix)) : GoTo(Through(folder))
      BY <2>2 DEF OpenFolder
    <3>2. /\ folder \in Words /\ folder[Len(folder)] = Slash
          /\ \E k \in stored : IsPrefix(folder, k)
      BY <2>1, FolderIs
    <3>3. GoTo(folder)
      BY <3>1, <3>2, ThroughIs
    <3> QED
      BY <3>2, <3>3, GoToReaches
  <2>3. CASE OpenCrumb
    <3> SUFFICES ASSUME ~typed PROVE ReachInv'
      BY <2>3 DEF OpenCrumb, ReachInv
    <3> DEFINE segments == Segments(at.prefix)
    <3>1. PICK i \in 1..(Len(segments) - 1) : GoTo(Through(CrumbPrefix(segments, i)))
      BY <2>3 DEF OpenCrumb
    <3>2. segments \in Texts
      BY <2>1, SegmentsTyped
    <3> DEFINE c == CrumbPrefix(segments, i)
    <3>3. c \in Words /\ c # <<>> /\ c[Len(c)] = Slash
      <4> HIDE DEF segments
      <4>1. i \in 1..Len(segments)
        BY <3>2 DEF Texts
      <4> QED
        BY <3>2, <4>1, CrumbTyped, CrumbEnds
    <3>4. GoTo(c)
      BY <3>1, <3>3, ThroughIs
    <3>5. at.prefix # <<>>
      <4> SUFFICES ASSUME at.prefix = <<>> PROVE FALSE
        OBVIOUS
      <4>1. Split(at.prefix, Slash) = << <<>> >>
        BY SplitEmpty
      <4>2. segments = FlattenSeq(Singles(<< <<>> >>))
        BY <4>1 DEF Segments, Singles, Single
      <4>3. <<>> \in Texts /\ <<>> \in Words /\ << <<>> >> = Append(<<>>, <<>>)
        BY DEF Texts, Words
      <4>4. Singles(<< <<>> >>) = Append(Singles(<<>>), <<>>)
        BY <4>3, SinglesAppend DEF Single
      <4>5. Singles(<<>>) \in Seq(Seq(Words)) /\ <<>> \in Seq(Words)
        BY <4>3, SinglesTyped DEF Texts
      <4>6. segments = FlattenSeq(Singles(<<>>)) \o <<>>
        BY <4>2, <4>4, <4>5, FlattenAppend
      <4>7. FlattenSeq(Singles(<<>>)) = <<>>
        <5>1. <<>> \notin ToSet(<<>>)
          BY DEF ToSet
        <5> QED
          BY <4>3, <5>1, WholePieces
      <4>8. segments = <<>>
        BY <4>6, <4>7
      <4> HIDE DEF segments
      <4> QED
        BY <4>8
    <3>6. at.prefix[Len(at.prefix)] = Slash /\ stored # {} /\ (Tidy(stored) => Waiting(stored, at))
      BY <3>5 DEF ReachInv
    <3>7. ASSUME Tidy(stored) PROVE \E k \in stored : IsPrefix(c, k)
      <4>1. PICK k \in stored : IsPrefix(at.prefix, k)
        BY <3>6, <3>7 DEF Waiting
      <4>2. k \in Words /\ <<>> \notin ToSet(Front(Split(k, Slash)))
        BY <2>1, <3>7 DEF Tidy
      <4>3. IsPrefix(c, at.prefix)
        BY <2>1, <3>5, <3>6, <4>1, <4>2, CrumbIsFolder
      <4> QED
        BY <2>1, <3>3, <4>1, <4>2, <4>3, PrefixChain
    <3> QED
      BY <3>3, <3>4, <3>6, <3>7, GoToReaches
  <2>4. CASE OpenBucket
    <3>1. <<>> \in Words /\ GoTo(<<>>)
      BY <2>4 DEF OpenBucket, Words
    <3>2. stored # {} => \E k \in stored : IsPrefix(<<>>, k)
      BY <1>0, <2>1
    <3> QED
      BY <3>1, <3>2, GoToReaches
  <2>5. CASE Filter
    BY <2>5 DEF Filter, ReachInv
  <2>6. CASE NextPage
    <3> DEFINE t == Shown(stored, at).next
    <3>1. t # None /\ stored' = stored /\ typed' = typed
      BY <2>6 DEF NextPage
    <3>2. t \in Words /\ t \in stored
      BY <2>1, <3>1, TokenIsKey
    <3>3. at' = [prefix |-> at.prefix, token |-> t]
      BY <2>1, <2>6, <3>2, ThroughIs DEF NextPage, NextHref
    <3>4. Waiting(stored, [prefix |-> at.prefix, token |-> t])
      BY <2>1, <3>1, PageGoesOn
    <3>5. Waiting(stored', at')
      BY <3>1, <3>3, <3>4
    <3>6. at'.prefix = at.prefix /\ stored' # {}
      BY <3>1, <3>2, <3>3
    <3> HIDE DEF t
    <3> QED
      BY <3>1, <3>5, <3>6 DEF ReachInv
  <2>7. CASE Upload
    <3>1. at' = at /\ typed' = typed
      BY <2>7 DEF Upload
    <3>2. stored \subseteq stored' /\ stored' \in SUBSET Words
      BY <2>7, Zenon DEF Upload, TypeInv, Keys
    <3> SUFFICES ASSUME ~typed, stored' # {}, Tidy(stored') PROVE Waiting(stored', at')
      BY <3>1, <3>2 DEF ReachInv
    <3>3. CASE stored = {}
      <4>1. at.prefix = <<>> /\ at.token = None
        BY <3>3 DEF ReachInv
      <4> QED
        BY <1>0, <3>1, <3>2, <4>1 DEF Waiting
    <3>4. CASE stored # {}
      <4>1. Tidy(stored)
        BY <3>2 DEF Tidy
      <4>2. Waiting(stored, at)
        BY <3>4, <4>1 DEF ReachInv
      <4> QED
        BY <3>1, <3>2, <4>2 DEF Waiting
    <3> QED
      BY <3>3, <3>4
  <2>8. CASE Download \/ Presign \/ PresignOnCommandLine \/ UseUrl \/ UNCHANGED vars
    <3>1. UNCHANGED <<stored, at, typed>>
      BY <2>8 DEF Download, Presign, PresignOnCommandLine, Minted, UseUrl, vars
    <3> QED
      BY <3>1 DEF ReachInv, Waiting, Tidy
  <2> QED
    BY <2>2, <2>3, <2>4, <2>5, <2>6, <2>7, <2>8 DEF Next
<1> QED
  BY <1>1, <1>2, LinksTyped, PTL DEF Spec

(***************************************************************************)
(* Folders, crumbs and next pages lead to where there are objects, as long *)
(* as no key has an empty piece before its last.                           *)
(***************************************************************************)
THEOREM LinksLeadToObjects == Spec => []LinksReachObjects
<1>1. TypeInv /\ ReachInv => LinksReachObjects
  <2> SUFFICES ASSUME TypeInv, ReachInv, ~typed, stored # {}, Tidy(stored)
               PROVE  Rows(stored, at) # {}
    BY DEF LinksReachObjects, Tidy
  <2>1. Waiting(stored, at)
    BY DEF ReachInv
  <2>2. stored \in SUBSET Words /\ IsFiniteSet(stored) /\ at \in Places
    BY DEF TypeInv, Keys
  <2> QED
    BY <2>1, <2>2, WaitingShows
<1> QED
  BY <1>1, LinksReach, LinksTyped, PTL

-----------------------------------------------------------------------------
(***************************************************************************)
(* Requests by path.                                                       *)
(***************************************************************************)
(* A word is a sequence over its own bytes,                                *)
LEMMA OwnBytes ==
  ASSUME NEW s \in Words
  PROVE  s \in Seq(ToSet(s)) /\ ToSet(s) \subseteq Bytes
<1>1. s = [i \in 1..Len(s) |-> s[i]] /\ Len(s) \in Nat /\ DOMAIN s = 1..Len(s)
      /\ \A i \in 1..Len(s) : s[i] \in Bytes
  BY DEF Words
<1>2. \A i \in 1..Len(s) : s[i] \in ToSet(s)
  BY <1>1 DEF ToSet
<1>3. s \in Seq(ToSet(s))
  BY <1>1, <1>2
<1> QED
  BY <1>1, <1>3 DEF ToSet

(* and a sequence over a set has its bytes in there.                       *)
LEMMA SeqBytes ==
  ASSUME NEW A, NEW s \in Seq(A)
  PROVE  ToSet(s) \subseteq A
BY DEF ToSet

(* A word without the separator is in one piece.                           *)
LEMMA SplitWhole ==
  ASSUME NEW s \in Words, NEW c, c \notin ToSet(s)
  PROVE  Split(s, c) = <<s>>
<1> DEFINE G == {w \in Words : c \notin ToSet(w) => Split(w, c) = <<w>>}
<1>1. <<>> \in G
  BY SplitEmpty DEF Words
<1>2. ASSUME NEW w \in Seq(Bytes), NEW b \in Bytes, w \in G PROVE Append(w, b) \in G
  <2>1. w \in Words /\ Append(w, b) \in Words
    BY DEF Words
  <2>2. ToSet(Append(w, b)) = ToSet(w) \cup {b}
    BY AppendBytes
  <2>3. SUFFICES ASSUME c \notin ToSet(w), b # c PROVE Split(Append(w, b), c) = <<Append(w, b)>>
    BY <2>1, <2>2
  <2>4. Split(Append(w, b), c) = SplitStep(<<w>>, b, c)
    BY <1>2, <2>1, <2>3, SplitAppend
  <2>5. <<w>> = Append(<<>>, w) /\ <<>> \in Texts
    BY DEF Texts
  <2>6. Front(<<w>>) = <<>> /\ Last(<<w>>) = w
    BY <2>1, <2>5, FrontAppend DEF Texts
  <2> DEFINE x == Append(w, b)
  <2>7. SplitStep(<<w>>, b, c) = Append(<<>>, x)
    BY <2>3, <2>6 DEF SplitStep
  <2>8. x \in Words
    BY <2>1
  <2> HIDE DEF x
  <2>9. Append(<<>>, x) = <<x>>
    BY <2>8
  <2> QED
    BY <2>4, <2>7, <2>9 DEF x
<1>3. \A w \in Seq(Bytes) : w \in G
  <2>1. \A w \in Seq(Bytes), b \in Bytes : w \in G => Append(w, b) \in G
    BY <1>2
  <2> HIDE DEF G
  <2> QED
    BY ONLY <1>1, <2>1, SeqClimb
<1> QED
  BY <1>3 DEF Words

(* Splitting adds no bytes,                                                *)
LEMMA SplitWithin ==
  ASSUME NEW A \in SUBSET Bytes, NEW s \in Seq(A), NEW c
  PROVE  Split(s, c) \in Seq(Seq(A)) \ {<<>>}
<1> DEFINE V == Seq(Seq(A)) \ {<<>>}
           G == {w \in Seq(A) : Split(w, c) \in V}
<1>1. <<>> \in G
  <2>1. << <<>> >> \in V /\ <<>> \in Seq(A)
    OBVIOUS
  <2> QED
    BY <2>1, SplitEmpty
<1>2. ASSUME NEW w \in Seq(A), NEW b \in A, w \in G PROVE Append(w, b) \in G
  <2> DEFINE p == Split(w, c)
  <2>1. w \in Words /\ b \in Bytes
    BY SeqWithin DEF Words
  <2>2. p \in Seq(Seq(A)) /\ p # <<>>
    BY <1>2
  <2>3. Split(Append(w, b), c) = SplitStep(p, b, c)
    BY <2>1, SplitAppend
  <2> HIDE DEF p
  <2>4. Front(p) \in Seq(Seq(A)) /\ Last(p) \in Seq(A)
    BY <2>2, FrontLast
  <2>5. Append(p, <<>>) \in V /\ Append(Front(p), Append(Last(p), b)) \in V
    <3> DEFINE x == Append(Last(p), b)
               y == Front(p)
    <3>1. x \in Seq(A) /\ y \in Seq(Seq(A)) /\ <<>> \in Seq(A)
      BY <2>4
    <3> HIDE DEF x, y
    <3> DEFINE B == Seq(A)
    <3> HIDE DEF B
    <3>2. /\ Append(y, x) \in Seq(B) /\ Len(Append(y, x)) = Len(y) + 1
          /\ Append(p, <<>>) \in Seq(B) /\ Len(Append(p, <<>>)) = Len(p) + 1
      BY <2>2, <3>1, AppendProperties DEF B
    <3>3. Len(y) \in Nat /\ Len(p) \in Nat
      BY <2>2, <3>1 DEF B
    <3>4. Append(y, x) # <<>> /\ Append(p, <<>>) # <<>>
      <4>1. Len(Append(y, x)) # 0 /\ Len(Append(p, <<>>)) # 0
        BY <3>2, <3>3
      <4>2. \A z : Len(z) # 0 => z # <<>>
        OBVIOUS
      <4> QED
        BY <4>1, <4>2, Zenon
    <3> QED
      BY <3>2, <3>4 DEF x, y, B
  <2>6. Append(w, b) \in Seq(A)
    OBVIOUS
  <2> QED
    BY <2>3, <2>5, <2>6 DEF SplitStep
<1>3. \A w \in Seq(A) : w \in G
  <2>1. \A w \in Seq(A), b \in A : w \in G => Append(w, b) \in G
    BY <1>2
  <2> HIDE DEF G
  <2> QED
    BY ONLY <1>1, <2>1, SeqClimb
<1> QED
  BY <1>3

(* so the pieces are of the bytes of the whole.                            *)
LEMMA PieceBytes ==
  ASSUME NEW s \in Words, NEW c, NEW i \in 1..Len(Split(s, c))
  PROVE  Split(s, c)[i] \in Words /\ ToSet(Split(s, c)[i]) \subseteq ToSet(s)
<1> DEFINE A == ToSet(s)
           p == Split(s, c)
<1>1. A \in SUBSET Bytes /\ s \in Seq(A)
  BY OwnBytes
<1> HIDE DEF A
<1>2. p \in Seq(Seq(A))
  BY <1>1, SplitWithin
<1>3. i \in 1..Len(p)
  OBVIOUS
<1> HIDE DEF p
<1>4. p[i] \in Seq(A)
  BY <1>2, <1>3
<1>5. p[i] \in Words
  BY <1>1, <1>4, SeqWithin DEF Words
<1> QED
  BY <1>4, <1>5, SeqBytes DEF A, p

(* One piece before others.                                                *)
LEMMA PieceFirst ==
  ASSUME NEW E, NEW w \in E, NEW p \in Seq(E), NEW s, s = <<w>> \o p
  PROVE  /\ s \in Seq(E) \ {<<>>} /\ Len(s) = Len(p) + 1
         /\ s[1] = w /\ \A i \in 1..Len(p) : s[i + 1] = p[i]
         /\ Head(s) = w /\ Tail(s) = p
<1> DEFINE n == Len(p)
<1>1. n \in Nat /\ <<w>> \in Seq(E) /\ Len(<<w>>) = 1 /\ <<w>>[1] = w
  OBVIOUS
<1>2. s \in Seq(E) /\ Len(s) = 1 + n /\ \A i \in 1..(1 + n) : s[i] = IF i <= 1 THEN <<w>>[i] ELSE p[i - 1]
  BY <1>1, ConcatProperties
<1> HIDE DEF n
<1>3. s[1] = w
  <2>1. 1 \in 1..(1 + n) /\ 1 <= 1
    BY <1>1
  <2> QED
    BY <1>1, <1>2, <2>1
<1>4. ASSUME NEW i \in 1..n PROVE s[i + 1] = p[i]
  <2> DEFINE j == i + 1
  <2>1. j \in 1..(1 + n) /\ ~(j <= 1) /\ j - 1 = i
    BY <1>1
  <2> HIDE DEF j
  <2>2. s[j] = p[i]
    BY <1>2, <2>1
  <2> QED
    BY <2>2 DEF j
<1>5. s # <<>>
  <2>1. Len(s) # 0
    BY <1>1, <1>2
  <2> QED
    BY <2>1
<1>6. Head(s) = w
  BY <1>2, <1>3, <1>5
<1>7. Tail(s) = p
  <2>1. /\ Tail(s) \in Seq(E) /\ Len(Tail(s)) = Len(s) - 1
        /\ \A i \in 1..Len(Tail(s)) : Tail(s)[i] = s[i + 1]
    BY <1>2, <1>5, HeadTailProperties
  <2>2. Len(Tail(s)) = n /\ Len(p) = n
    BY <1>1, <1>2, <2>1 DEF n
  <2> DEFINE u == Tail(s)
  <2> HIDE DEF u
  <2>3. \A i \in 1..n : u[i] = p[i]
    BY <1>4, <2>1, <2>2 DEF u
  <2>4. u = p
    BY <2>1, <2>2, <2>3, SeqEqual DEF u
  <2> QED
    BY <2>4 DEF u
<1> QED
  BY <1>1, <1>2, <1>3, <1>4, <1>5, <1>6, <1>7 DEF n

(* Pieces with one before them (a name, to keep the provers from taking it *)
(* apart).                                                                 *)
Led(w, pieces) == <<w>> \o pieces

(* A path with one segment more before the others.                         *)
LEMMA PathCons ==
  ASSUME NEW w \in Words, Slash \notin ToSet(w), NEW p \in Texts \ {<<>>}, NEW x, x = <<w>> \o p
  PROVE  /\ x \in Texts \ {<<>>}
         /\ Join(x, Slash) \in Words /\ Join(p, Slash) \in Words
         /\ Join(x, Slash) = Append(w, Slash) \o Join(p, Slash)
         /\ Split(Join(x, Slash), Slash) = Led(w, Split(Join(p, Slash), Slash))
         /\ ToSet(Join(x, Slash)) = ToSet(w) \cup {Slash} \cup ToSet(Join(p, Slash))
<1> DEFINE path == Join(x, Slash)
           t == Join(p, Slash)
<1>1. Slash \in Bytes
  BY DEF Slash, Bytes
<1>2. <<w>> \in Texts \ {<<>>} /\ x \in Texts \ {<<>>}
  <2>1. <<w>> \in Texts \ {<<>>}
    BY DEF Texts
  <2> QED
    BY <2>1, PieceFirst DEF Texts
<1>3. t \in Words /\ path \in Words
  BY <1>1, <1>2, JoinMarks
<1>4. path = Append(w, Slash) \o t
  <2>1. Join(<<w>> \o p, Slash) = Append(Join(<<w>>, Slash), Slash) \o Join(p, Slash)
    BY <1>1, <1>2, JoinConcat
  <2>2. Join(<<w>>, Slash) = w
    BY <1>1, JoinOne
  <2> QED
    BY <2>1, <2>2
<1>5. Split(path, Slash) = <<w>> \o Split(t, Slash)
  <2>1. Split(w, Slash) = <<w>>
    BY SplitWhole
  <2> HIDE DEF t, path
  <2>2. Split(Append(w, Slash) \o t, Slash) = Split(w, Slash) \o Split(t, Slash)
    BY <1>1, <1>3, SplitConcat
  <2> QED
    BY <1>4, <2>1, <2>2
<1>6. ToSet(path) = ToSet(w) \cup {Slash} \cup ToSet(t)
  <2> DEFINE u == Append(w, Slash)
  <2>1. u \in Words /\ ToSet(u) = ToSet(w) \cup {Slash}
    BY <1>1, AppendBytes DEF Words
  <2> HIDE DEF u
  <2>2. ToSet(u \o t) = ToSet(u) \cup ToSet(t)
    BY <1>3, <2>1, ConcatBytes DEF Words
  <2> QED
    BY <1>4, <2>1, <2>2 DEF u
<1> QED
  BY <1>2, <1>3, <1>4, <1>5, <1>6, Zenon DEF Led

(* The name of a bucket stands in a path as it is.                         *)
LEMMA BucketIs ==
  ASSUME bucket \in Words, ValidBucketName(bucket)
  PROVE  /\ ToSet(bucket) \subseteq Unreserved
         /\ ToSet(bucket) \cap {Slash, Hash, Percent, Question} = {}
         /\ bucket \notin Reserved /\ bucket \notin Dots
<1>1. ToSet(bucket) \subseteq Lowercase \cup Digits \cup {Hyphen, Dot} /\ bucket \notin Reserved
  BY DEF ValidBucketName
<1>2. ToSet(bucket) \subseteq Unreserved
  BY <1>1 DEF Unreserved, Alphanumeric
<1>3. (Lowercase \cup Digits \cup {Hyphen, Dot}) \cap {Slash, Hash, Percent, Question} = {}
  BY DEF Lowercase, Digits, Hyphen, Dot, Slash, Hash, Percent, Question
<1>4. bucket \notin Dots
  <2>1. Len(bucket) \in 3..63
    BY DEF ValidBucketName
  <2>2. Len(<<Dot>>) = 1 /\ Len(<<Dot, Dot>>) = 2
    OBVIOUS
  <2> QED
    BY <2>1, <2>2 DEF Dots
<1> QED
  BY <1>1, <1>2, <1>3, <1>4

(* The pieces of a plain name are sent as they are.                        *)
LEMMA PlainPieces ==
  ASSUME NEW key \in Words, Plain(key), NEW p, p = Split(key, Slash)
  PROVE  /\ p \in Texts \ {<<>>} /\ Join(p, Slash) = key
         /\ \A i \in 1..Len(p) : PercentDecode(p[i]) \notin Dots
<1>1. p \in Texts \ {<<>>} /\ Join(p, Slash) = key
  <2>1. Slash \in Bytes
    BY DEF Slash, Bytes
  <2> QED
    BY <2>1, SplitTyped, JoinSplit
<1>2. ASSUME NEW i \in 1..Len(p) PROVE PercentDecode(p[i]) \notin Dots
  <2>1. p[i] \in Words /\ ToSet(p[i]) \subseteq ToSet(key)
    BY PieceBytes
  <2>2. Percent \notin ToSet(p[i])
    BY <2>1 DEF Plain
  <2>3. PercentDecode(p[i]) = p[i]
    BY <2>1, <2>2, DecodePlain
  <2>4. p[i] \in ToSet(p)
    BY <1>1 DEF ToSet, Texts
  <2> QED
    BY <2>3, <2>4 DEF Plain, Dots
<1> QED
  BY <1>1, <1>2

(* A segment that stands for itself before others that do.                 *)
LEMMA ConsPlain ==
  ASSUME NEW w \in Words, Percent \notin ToSet(w), w \notin Dots, NEW p \in Texts,
         \A i \in 1..Len(p) : PercentDecode(p[i]) \notin Dots
  PROVE  /\ <<w>> \o p \in Texts \ {<<>>}
         /\ \A i \in 1..Len(<<w>> \o p) : PercentDecode((<<w>> \o p)[i]) \notin Dots
<1> DEFINE s == <<w>> \o p
           n == Len(p)
<1>1. /\ s \in Texts \ {<<>>} /\ Len(s) = n + 1
      /\ s[1] = w /\ \A i \in 1..n : s[i + 1] = p[i]
  <2>1. s = <<w>> \o p
    OBVIOUS
  <2> HIDE DEF s
  <2> QED
    BY <2>1, PieceFirst DEF Texts
<1>2. n \in Nat
  BY DEF Texts
<1>3. PercentDecode(w) = w
  BY DecodePlain
<1> HIDE DEF s
<1>4. ASSUME NEW i \in 1..Len(s) PROVE PercentDecode(s[i]) \notin Dots
  <2>1. CASE i = 1
    BY <1>1, <1>3, <2>1
  <2>2. CASE i # 1
    <3> DEFINE j == i - 1
    <3>1. j \in 1..n /\ j + 1 = i
      BY <1>1, <1>2, <2>2
    <3> HIDE DEF j
    <3> QED
      BY <1>1, <3>1
  <2> QED
    BY <2>1, <2>2
<1> QED
  BY <1>1, <1>4 DEF s

(* Pieces are the first one and the others;                                *)
LEMMA FirstAndRest ==
  ASSUME NEW u \in Texts, u # <<>>
  PROVE  u = <<Head(u)>> \o Tail(u)
<1> DEFINE w == Head(u)
           p == Tail(u)
           v == <<w>> \o p
<1>1. w \in Words /\ p \in Texts /\ Len(p) = Len(u) - 1 /\ \A i \in 1..Len(p) : p[i] = u[i + 1]
  BY HeadTailProperties DEF Texts
<1>2. w = u[1] /\ Len(u) \in Nat
  BY DEF Texts
<1>3. v = <<w>> \o p
  OBVIOUS
<1> HIDE DEF v, w, p
<1>4. v \in Texts /\ Len(v) = Len(p) + 1 /\ v[1] = w /\ \A i \in 1..Len(p) : v[i + 1] = p[i]
  BY <1>1, <1>3, PieceFirst DEF Texts
<1>5. ASSUME NEW i \in 1..Len(u) PROVE v[i] = u[i]
  <2>1. CASE i = 1
    BY <1>2, <1>4, <2>1
  <2>2. CASE i # 1
    <3> DEFINE j == i - 1
    <3>1. j \in 1..Len(p) /\ j + 1 = i
      BY <1>1, <1>2, <2>2
    <3> HIDE DEF j
    <3> QED
      BY <1>1, <1>4, <3>1
  <2> QED
    BY <2>1, <2>2
<1>6. Len(v) = Len(u)
  BY <1>1, <1>2, <1>4
<1>7. u = v
  BY <1>4, <1>5, <1>6, SeqEqual DEF Texts
<1> QED
  BY <1>3, <1>7 DEF w, p

(* so are two of them,                                                     *)
LEMMA TwoPieces ==
  ASSUME NEW a \in Words, NEW b \in Words
  PROVE  <<a, b>> = <<a>> \o <<b>>
<1> DEFINE u == <<a, b>>
<1>1. u \in Texts /\ u # <<>> /\ Head(u) = a /\ Tail(u) = <<b>>
  BY DEF Texts
<1> HIDE DEF u
<1>2. u = <<a>> \o <<b>>
  BY <1>1, FirstAndRest
<1> QED
  BY <1>2 DEF u

(* and three.                                                              *)
LEMMA ThreePieces ==
  ASSUME NEW a \in Words, NEW b \in Words, NEW c \in Words
  PROVE  <<a, b, c>> = <<a>> \o (<<b>> \o <<c>>)
<1> DEFINE u == <<a, b, c>>
<1>1. u \in Texts /\ u # <<>> /\ Head(u) = a /\ Tail(u) = <<b, c>>
  BY DEF Texts
<1>2. <<b, c>> = <<b>> \o <<c>>
  BY TwoPieces
<1> DEFINE x == <<b>> \o <<c>>
<1> HIDE DEF u, x
<1>3. Tail(u) = x
  BY <1>1, <1>2 DEF x
<1>4. u = <<a>> \o x
  BY <1>1, <1>3, FirstAndRest
<1> QED
  BY <1>4 DEF u, x

(* The console serves what its links to a plain key are about.             *)
LEMMA ConsoleServes ==
  ASSUME bucket \in Words, ValidBucketName(bucket),
         NEW route, route \in {DownloadRoute, UploadRoute},
         NEW key \in Keys, Plain(key),
         NEW target, target = Served(Sent(ConsolePath(route, key)))
  PROVE  target.by = "console" /\ target.bucket = bucket /\ target.key = key
<1> DEFINE nil == <<>>
           p == Split(key, Slash)
           x0 == <<key>>
           x1 == <<bucket>> \o x0
           x2 == <<route>> \o x1
           x3 == <<Ui>> \o x2
           x4 == <<nil>> \o x3
           path == ConsolePath(route, key)
<1>1. key \in Words /\ key # <<>> /\ <<>> \in Words /\ Ui \in Words /\ route \in Words
  <2>1. Ui \in Words
    BY DEF Words, Bytes, Ui
  <2>2. DownloadRoute \in Words
    BY DEF Words, Bytes, DownloadRoute
  <2>3. UploadRoute \in Words
    BY DEF Words, Bytes, UploadRoute
  <2>4. <<>> \in Words
    BY DEF Words
  <2> QED
    BY <2>1, <2>2, <2>3, <2>4, Zenon DEF Keys
<1>2. /\ ToSet(Ui) = {117, 105} /\ ToSet(<<>>) = {}
      /\ ToSet(DownloadRoute) = {100, 111, 119, 110, 108, 97}
      /\ ToSet(UploadRoute) = {117, 112, 108, 111, 97, 100}
  BY DEF ToSet, Ui, DownloadRoute, UploadRoute
<1>3. /\ ToSet(Ui) \cap {Slash, Hash, Percent, Question} = {}
      /\ ToSet(route) \cap {Slash, Hash, Percent, Question} = {}
      /\ ToSet(bucket) \cap {Slash, Hash, Percent, Question} = {}
  BY <1>2, BucketIs DEF Slash, Hash, Percent, Question
<1>4. Ui \notin Dots /\ route \notin Dots /\ bucket \notin Dots
  BY <1>3, BucketIs DEF Dots, Ui, Dot, DownloadRoute, UploadRoute
<1>5. x0 \in Texts \ {<<>>} /\ Join(x0, Slash) = key
  <2>1. Slash \in Bytes
    BY DEF Slash, Bytes
  <2> QED
    BY <1>1, <2>1, JoinOne DEF Texts
<1>6. x1 = <<bucket>> \o x0 /\ x2 = <<route>> \o x1 /\ x3 = <<Ui>> \o x2 /\ x4 = <<nil>> \o x3
  OBVIOUS
<1>7. path = Join(x4, Slash)
  <2>1. path = Join(<<nil, Ui, route, bucket, key>>, Slash)
    BY DEF ConsolePath
  <2>2. nil \in Words
    BY <1>1
  <2> HIDE DEF path, nil
  <2>3. Ui \in Words /\ route \in Words /\ key \in Words
    BY <1>1
  <2> DEFINE u == <<nil, Ui, route, bucket, key>>
             v == <<Ui, route, bucket, key>>
  <2>4. u \in Texts /\ u # <<>> /\ Head(u) = nil /\ Tail(u) = v
    BY <2>2, <2>3 DEF Texts
  <2>5. v \in Texts /\ v # <<>> /\ Head(v) = Ui /\ Tail(v) = <<route, bucket, key>>
    BY <2>3 DEF Texts
  <2>6. <<route, bucket, key>> = x2
    BY <2>3, ThreePieces, Zenon
  <2> HIDE DEF u, v, x0, x1, x2, x3, x4
  <2>7. v = x3
    BY <1>6, <2>5, <2>6, FirstAndRest
  <2>8. u = x4
    BY <1>6, <2>4, <2>7, FirstAndRest
  <2> QED
    BY <2>1, <2>8, Zenon DEF u
<1>24. route \in Words
  BY <1>1
<1>25. Ui \in Words
  BY <1>1
<1>26. nil \in Words /\ Slash \notin ToSet(nil)
  BY <1>1, <1>2
<1> HIDE DEF x0, x1, x2, x3, x4, path, nil
<1>8. /\ x1 \in Texts \ {<<>>} /\ Join(x1, Slash) \in Words
      /\ Split(Join(x1, Slash), Slash) = Led(bucket, Split(key, Slash))
      /\ ToSet(Join(x1, Slash)) = ToSet(bucket) \cup {Slash} \cup ToSet(key)
  <2>1. Slash \notin ToSet(bucket)
    BY <1>3
  <2>2. x0 \in Texts \ {<<>>} /\ x1 = <<bucket>> \o x0 /\ Join(x0, Slash) = key
    BY <1>5, <1>6
  <2> QED
    BY ONLY bucket \in Words, <2>1, <2>2, PathCons
<1>9. /\ x2 \in Texts \ {<<>>} /\ Join(x2, Slash) \in Words
      /\ Split(Join(x2, Slash), Slash) = Led(route, Split(Join(x1, Slash), Slash))
      /\ ToSet(Join(x2, Slash)) = ToSet(route) \cup {Slash} \cup ToSet(Join(x1, Slash))
  <2>1. Slash \notin ToSet(route)
    BY <1>3
  <2>2. x1 \in Texts \ {<<>>} /\ x2 = <<route>> \o x1
    BY <1>6, <1>8
  <2> QED
    BY ONLY <1>24, <2>1, <2>2, PathCons
<1>27. /\ x3 \in Texts \ {<<>>} /\ Join(x3, Slash) \in Words
        /\ Split(Join(x3, Slash), Slash) = Led(Ui, Split(Join(x2, Slash), Slash))
        /\ ToSet(Join(x3, Slash)) = ToSet(Ui) \cup {Slash} \cup ToSet(Join(x2, Slash))
  <2>1. Slash \notin ToSet(Ui)
    BY <1>3
  <2>2. x2 \in Texts \ {<<>>}
    BY <1>9
  <2>3. x3 = <<Ui>> \o x2
    BY <1>6
  <2> QED
    BY ONLY <1>25, <2>1, <2>2, <2>3, PathCons
<1>10. /\ path \in Words
       /\ Split(path, Slash) = Led(nil, Split(Join(x3, Slash), Slash))
       /\ ToSet(path) = ToSet(nil) \cup {Slash} \cup ToSet(Join(x3, Slash))
  <2>1. x3 \in Texts \ {<<>>}
    BY <1>27
  <2>2. x4 = <<nil>> \o x3
    BY <1>6
  <2>3. /\ Join(x4, Slash) \in Words
        /\ Split(Join(x4, Slash), Slash) = Led(nil, Split(Join(x3, Slash), Slash))
        /\ ToSet(Join(x4, Slash)) = ToSet(nil) \cup {Slash} \cup ToSet(Join(x3, Slash))
    BY ONLY <1>26, <2>1, <2>2, PathCons
  <2> QED
    BY <1>7, <2>3
<1>11. /\ p \in Texts \ {<<>>} /\ Join(p, Slash) = key
       /\ \A i \in 1..Len(p) : PercentDecode(p[i]) \notin Dots
  BY <1>1, PlainPieces
<1> HIDE DEF p
<1> DEFINE b == <<bucket>> \o p
           r == <<route>> \o b
           s == <<Ui>> \o r
<1>12. b \in Texts \ {<<>>} /\ \A i \in 1..Len(b) : PercentDecode(b[i]) \notin Dots
  <2>1. Percent \notin ToSet(bucket)
    BY <1>3
  <2> QED
    BY <1>4, <1>11, <2>1, ConsPlain
<1>13. r \in Texts \ {<<>>} /\ \A i \in 1..Len(r) : PercentDecode(r[i]) \notin Dots
  <2>1. Percent \notin ToSet(route)
    BY <1>3
  <2> HIDE DEF b
  <2> QED
    BY <1>1, <1>4, <1>12, <2>1, ConsPlain
<1>14. s \in Texts \ {<<>>} /\ \A i \in 1..Len(s) : PercentDecode(s[i]) \notin Dots
  <2>1. Percent \notin ToSet(Ui)
    BY <1>3
  <2> HIDE DEF r
  <2> QED
    BY <1>1, <1>4, <1>13, <2>1, ConsPlain
<1>15. Head(b) = bucket /\ Tail(b) = p /\ Len(b) = Len(p) + 1
  <2>1. b = <<bucket>> \o p
    OBVIOUS
  <2> HIDE DEF b
  <2> QED
    BY <1>11, <2>1, PieceFirst DEF Texts
<1>16. r[1] = route /\ Tail(r) = b /\ Len(r) = Len(b) + 1
  <2>1. r = <<route>> \o b
    OBVIOUS
  <2> HIDE DEF r, b
  <2> QED
    BY <1>1, <1>12, <2>1, PieceFirst DEF Texts
<1>17. s[1] = Ui /\ s[2] = route /\ Tail(s) = r /\ Len(s) = Len(r) + 1
  <2>1. s = <<Ui>> \o r
    OBVIOUS
  <2> HIDE DEF s, r
  <2>2. s[1] = Ui /\ Tail(s) = r /\ Len(s) = Len(r) + 1 /\ \A i \in 1..Len(r) : s[i + 1] = r[i]
    BY <1>1, <1>13, <2>1, PieceFirst DEF Texts
  <2>3. 1 \in 1..Len(r)
    BY <1>13 DEF Texts
  <2>4. s[1 + 1] = r[1]
    BY <2>2, <2>3
  <2> QED
    BY <1>16, <2>2, <2>4
<1> HIDE DEF s, r, b
<1>18. Split(path, Slash) = <<nil>> \o s
  BY <1>8, <1>9, <1>27, <1>10 DEF s, r, b, p, Led
<1>19. Sent(path) = s
  <2>1. Question \notin ToSet(path) /\ Hash \notin ToSet(path)
    <3>1. {Question, Hash} \cap ToSet(key) = {}
      BY DEF Plain
    <3>2. {Question, Hash} \cap {Slash} = {}
      BY DEF Question, Hash, Slash
    <3>3. ToSet(path) = {Slash} \cup ToSet(Ui) \cup ToSet(route) \cup ToSet(bucket) \cup ToSet(key)
      BY <1>2, <1>8, <1>9, <1>27, <1>10, Zenon DEF nil
    <3> QED
      BY <1>3, <3>1, <3>2, <3>3
  <2>2. Sent(path) = Resolve(Tail(Split(path, Slash)))
    BY <1>10, <2>1, SentPlain
  <2>3. Tail(<<nil>> \o s) = s
    BY <1>26, <1>14, PieceFirst DEF Texts
  <2>4. Resolve(s) = s
    BY <1>14, ResolvePlain DEF Dots
  <2> QED
    BY <1>18, <2>2, <2>3, <2>4
<1>20. Len(s) >= 4 /\ SubSeq(s, 4, Len(s)) = p /\ Tail(Tail(s)) = b
  <2>1. Len(p) \in Nat /\ Len(p) # 0
    BY <1>11 DEF Texts
  <2>2. Len(s) >= 4
    BY <1>15, <1>16, <1>17, <2>1
  <2>3. Tail(Tail(Tail(s))) = SubSeq(s, 4, Len(s))
    BY <1>14, <2>2, TailTail DEF Texts
  <2> QED
    BY <1>15, <1>16, <1>17, <2>2, <2>3
<1>21. Served(s) = Target("console", b)
  BY <1>1, <1>11, <1>17, <1>20, Zenon DEF Served
<1>22. PercentDecode(bucket) = bucket /\ PercentDecode(key) = key
  BY <1>1, <1>3, DecodePlain DEF Plain
<1>23. Target("console", b) = [by |-> "console", bucket |-> bucket, key |-> key]
  BY <1>11, <1>15, <1>22 DEF Target
<1> QED
  BY <1>19, <1>21, <1>23 DEF path

(* The last piece of a key is the name it was uploaded under, and there is *)
(* no folder between it and the prefix.                                    *)
LEMMA UploadIsDirect ==
  ASSUME NEW prefix \in Words, prefix # <<>> => prefix[Len(prefix)] = Slash,
         NEW name \in Words, name # <<>>, Slash \notin ToSet(name),
         NEW key, key = UploadKey(prefix, name)
  PROVE  /\ key \in Keys /\ IsPrefix(prefix, key)
         /\ IsDirect(key, Query(prefix))
         /\ Last(Split(key, Slash)) = name
<1> DEFINE q == Query(prefix)
           m == Len(prefix)
           n == Len(name)
<1>1. key = prefix \o name
  BY DEF UploadKey
<1>2. key \in Words /\ Len(key) = m + n /\ m \in Nat /\ n \in Nat
  BY <1>1 DEF Words
<1>3. IsPrefix(prefix, key)
  BY <1>1, PrefixConcat
<1>4. ASSUME NEW i \in 1..n PROVE key[m + i] = name[i] /\ name[i] # Slash
  <2> DEFINE j == m + i
  <2>1. j \in 1..(m + n) /\ ~(j <= m) /\ j - m = i
    BY <1>2
  <2>2. \A l \in 1..(m + n) : key[l] = IF l <= m THEN prefix[l] ELSE name[l - m]
    <3>1. \A l \in 1..(Len(prefix) + Len(name)) :
            (prefix \o name)[l] = IF l <= Len(prefix) THEN prefix[l] ELSE name[l - Len(prefix)]
      BY ConcatProperties DEF Words
    <3> QED
      BY <1>1, <3>1
  <2> HIDE DEF j
  <2>3. key[j] = name[i]
    BY <2>1, <2>2
  <2>4. i \in DOMAIN name
    BY <1>2 DEF Words
  <2> QED
    BY <2>3, <2>4 DEF j, ToSet
<1>5. key # <<>>
  <2>1. n # 0
    BY DEF Words
  <2>2. Len(key) # 0
    BY <1>2, <2>1
  <2> QED
    BY <2>2
<1>6. IsQuery(q) /\ q.prefix = prefix /\ q.delimiter = <<Slash>> /\ q.delimiter # None
  BY QueryTyped
<1>7. key \in Strings
  BY <1>2, WordsAreStrings
<1> HIDE DEF q
<1>8. Ends(key, q) = {}
  <2> SUFFICES ASSUME NEW e \in Ends(key, q) PROVE FALSE
    OBVIOUS
  <2>1. Len(<<Slash>>) = 1 /\ <<Slash>>[1] = Slash
    OBVIOUS
  <2>2. e \in 0..(m + n) /\ e >= m + 1 /\ \A j \in 1..1 : key[e - 1 + j] = <<Slash>>[j]
    BY <1>2, <1>6, <2>1 DEF Ends
  <2>3. key[e - 1 + 1] = Slash /\ e - 1 + 1 = e
    BY <1>2, <2>1, <2>2
  <2> DEFINE i == e - m
  <2>4. i \in 1..n /\ m + i = e
    BY <1>2, <2>2
  <2> HIDE DEF i
  <2> QED
    BY <1>4, <2>3, <2>4
<1>9. IsDirect(key, q)
  <2>1. Group(key, q) = None
    BY <1>3, <1>6, <1>7, <1>8, GroupCut
  <2> QED
    BY <1>3, <1>6, <1>7, <2>1, GroupIsShortest
<1>10. Last(Split(key, Slash)) = name
  <2>1. Split(name, Slash) = <<name>>
    BY SplitWhole
  <2>2. <<name>> \in Texts /\ Last(<<name>>) = name /\ <<name>> # <<>>
    BY DEF Texts, Last
  <2>3. CASE prefix = <<>>
    <3>1. key = name
      BY <1>1, <2>3 DEF Words
    <3> QED
      BY <2>1, <2>2, <3>1
  <2>4. CASE prefix # <<>>
    <3> DEFINE r == Front(prefix)
    <3>1. r \in Words /\ prefix = Append(r, Slash)
      <4>1. r \in Words /\ prefix = Append(r, Last(prefix))
        BY <2>4, FrontLast DEF Words
      <4>2. Last(prefix) = Slash
        BY <2>4 DEF Last
      <4> QED
        BY <4>1, <4>2
    <3> HIDE DEF r
    <3>2. Slash \in Bytes
      BY DEF Slash, Bytes
    <3> DEFINE p == Split(r, Slash)
               w == <<name>>
    <3>3. Split(key, Slash) = p \o w
      <4>1. Split(Append(r, Slash) \o name, Slash) = Split(r, Slash) \o Split(name, Slash)
        BY <3>1, <3>2, SplitConcat
      <4> QED
        BY <1>1, <2>1, <3>1, <4>1
    <3>4. p \in Texts
      BY <3>1, SplitTyped
    <3>5. w \in Texts /\ w # <<>> /\ Last(w) = name
      BY <2>2
    <3> HIDE DEF p, w
    <3>6. Last(p \o w) = Last(w)
      BY <3>4, <3>5, FrontConcat DEF Texts
    <3> QED
      BY <3>3, <3>5, <3>6
  <2> QED
    BY <2>3, <2>4
<1> QED
  BY <1>2, <1>3, <1>5, <1>9, <1>10 DEF q, Keys

(***************************************************************************)
(* A file uploaded in a folder is then an object of that folder, directly  *)
(* in it, with the file's own name.                                        *)
(***************************************************************************)
THEOREM UploadsAreShown == Spec => []UploadsLandOnPage
<1>1. Init => UploadsLandOnPage
  BY DEF Init, NoRequest, UploadsLandOnPage
<1>2. TypeInv /\ TypeInv' /\ ReachInv /\ UploadsLandOnPage /\ [Next]_vars => UploadsLandOnPage'
  <2> SUFFICES ASSUME TypeInv, TypeInv', ReachInv, UploadsLandOnPage, [Next]_vars
               PROVE  UploadsLandOnPage'
    OBVIOUS
  <2>1. CASE Upload
    <3>1. PICK name \in FileNames :
             LET target == Served(Sent(ConsolePath(UploadRoute, UploadKey(at.prefix, name))))
                 taken  == target.by = "console" /\ target.bucket = bucket /\ Accepted(target.key)
             IN  /\ stored' = IF taken THEN stored \cup {target.key} ELSE stored
                 /\ last' = [by |-> "upload", wanted |-> name, late |-> FALSE,
                              got |-> IF taken THEN target.key ELSE None]
      BY <2>1 DEF Upload
    <3> DEFINE key == UploadKey(at.prefix, name)
               target == Served(Sent(ConsolePath(UploadRoute, key)))
               taken == target.by = "console" /\ target.bucket = bucket /\ Accepted(target.key)
    <3>2. at' = at /\ typed' = typed
      BY <2>1 DEF Upload
    <3>3. last'.wanted = name /\ last'.got = (IF taken THEN target.key ELSE None)
      BY <3>1
    <3>4. stored' = IF taken THEN stored \cup {target.key} ELSE stored
      BY <3>1
    <3> SUFFICES ASSUME last'.got # None, ~typed, Plain(at.prefix \o name)
                 PROVE  /\ last'.got \in Direct(stored', Query(at.prefix))
                        /\ Last(Split(last'.got, Slash)) = name
      BY <3>2, <3>3 DEF UploadsLandOnPage
    <3>5. at.prefix \in Words /\ (at.prefix # <<>> => at.prefix[Len(at.prefix)] = Slash)
      BY DEF ReachInv, TypeInv, Places
    <3>6. name \in Words /\ name # <<>> /\ Slash \notin ToSet(name)
      BY AsciiWords, LinksAssumption
    <3>7. Plain(key) /\ key = UploadKey(at.prefix, name)
      BY DEF UploadKey
    <3>8. bucket \in Words /\ ValidBucketName(bucket)
      BY DEF TypeInv
    <3> HIDE DEF key
    <3>9. /\ key \in Keys /\ IsPrefix(at.prefix, key)
          /\ IsDirect(key, Query(at.prefix))
          /\ Last(Split(key, Slash)) = name
      BY <3>5, <3>6, <3>7, UploadIsDirect
    <3>10. target.key = key
      BY <3>7, <3>8, <3>9, ConsoleServes
    <3>11. last'.got = key /\ key \in stored'
      <4>1. taken
        BY <3>3
      <4> HIDE DEF target, taken
      <4> QED
        BY <3>3, <3>4, <3>10, <4>1
    <3>12. key \in Matching(stored', Query(at.prefix))
      BY <3>5, <3>9, <3>11, QueryTyped DEF Matching
    <3> QED
      BY <3>9, <3>11, <3>12 DEF Direct
  <2>2. CASE OpenFolder \/ OpenCrumb \/ OpenBucket \/ Filter
    <3>1. last' = NoRequest
      BY <2>2, Zenon DEF OpenFolder, OpenCrumb, OpenBucket, Filter, GoTo
    <3> QED
      BY <3>1 DEF NoRequest, UploadsLandOnPage
  <2>3. CASE NextPage \/ Presign \/ PresignOnCommandLine
    <3>1. last' = NoRequest
      BY <2>3 DEF NextPage, Presign, PresignOnCommandLine, Minted
    <3> QED
      BY <3>1 DEF NoRequest, UploadsLandOnPage
  <2>4. CASE Download
    <3>1. last'.by = "download"
      BY <2>4 DEF Download
    <3> QED
      BY <3>1 DEF UploadsLandOnPage
  <2>5. CASE UseUrl
    <3>1. last'.by = "url"
      BY <2>5 DEF UseUrl
    <3> QED
      BY <3>1 DEF UploadsLandOnPage
  <2>6. CASE UNCHANGED vars
    BY <2>6 DEF vars, UploadsLandOnPage
  <2> QED
    BY <2>1, <2>2, <2>3, <2>4, <2>5, <2>6 DEF Next
<1>3. Spec => []ReachInv
  BY LinksReach
<1> QED
  BY <1>1, <1>2, <1>3, LinksTyped, PTL DEF Spec

-----------------------------------------------------------------------------
(***************************************************************************)
(* Presigned URLs.                                                         *)
(***************************************************************************)
(* The verifier finds out how long ago a URL was made.                     *)
LEMMA AgeIsDelay ==
  ASSUME NEW time \in Instants, NEW delay \in Nat
  PROVE  Age(FormatUtc(time), After(time, delay)) = delay
<1> DEFINE now == After(time, delay)
           x == time.second + delay
<1>1. time.day \in Int /\ time.second \in Int
  BY SMT DEF Instants
<1>2. ReadStamp(FormatUtc(time)) = time
  BY StampsAreExact
<1>3. now.day = time.day + x \div SecondsPerDay /\ now.second = x % SecondsPerDay
  BY DEF After
<1>4. x \in Int /\ x - time.second = delay
  BY <1>1
<1> HIDE DEF x, now
<1>5. /\ x \div SecondsPerDay \in Int /\ x % SecondsPerDay \in Int
      /\ SecondsPerDay * (x \div SecondsPerDay) + (x % SecondsPerDay) = x
  BY <1>4, SMT DEF SecondsPerDay
<1>6. SecondsPerDay * (now.day - time.day) = SecondsPerDay * (x \div SecondsPerDay)
  <2>1. now.day - time.day = x \div SecondsPerDay
    BY <1>1, <1>3, <1>5
  <2> QED
    BY <2>1
<1>7. Age(FormatUtc(time), now) = SecondsPerDay * (now.day - time.day) + now.second - time.second
  BY <1>2 DEF Age
<1>8. SecondsPerDay * (x \div SecondsPerDay) \in Int
  BY <1>5, SMT DEF SecondsPerDay
<1> DEFINE whole == SecondsPerDay * (x \div SecondsPerDay)
           part == x % SecondsPerDay
<1>9. whole + part - time.second = delay
  <2>1. whole \in Int /\ part \in Int /\ whole + part = x
    BY <1>5, <1>8
  <2> HIDE DEF whole, part
  <2> QED
    BY <1>1, <1>4, <2>1
<1> QED
  BY <1>3, <1>6, <1>7, <1>9 DEF now

(* What is written without the percent sign was not encoded.               *)
LEMMA EncodedAsItIs ==
  ASSUME NEW s \in Words, NEW kept, Percent \notin ToSet(PercentEncode(s, kept))
  PROVE  PercentEncode(s, kept) = s
<1> DEFINE G == {w \in Words : Percent \notin ToSet(PercentEncode(w, kept)) => ToSet(w) \subseteq kept}
<1>1. <<>> \in G
  BY DEF Words, ToSet
<1>2. ASSUME NEW w \in Seq(Bytes), NEW b \in Bytes, w \in G PROVE Append(w, b) \in G
  <2>1. w \in Words /\ Append(w, b) \in Words
    BY DEF Words
  <2> DEFINE x == PercentEncode(w, kept)
             y == Escape(b, kept)
  <2>2. x \in Words /\ y \in Words
    BY <2>1, EncodeTyped, EscapeTyped
  <2>3. PercentEncode(Append(w, b), kept) = x \o y
    BY <2>1, EncodeAppend
  <2> HIDE DEF x, y
  <2>4. ToSet(x \o y) = ToSet(x) \cup ToSet(y)
    BY <2>2, ConcatBytes DEF Words
  <2>5. b \notin kept => Percent \in ToSet(y)
    BY DEF y, Escape, ToSet
  <2>6. ToSet(Append(w, b)) = ToSet(w) \cup {b}
    BY AppendBytes
  <2>7. Percent \notin ToSet(x) => ToSet(w) \subseteq kept
    BY <1>2 DEF x
  <2> QED
    BY <2>1, <2>3, <2>4, <2>5, <2>6, <2>7
<1>3. \A w \in Seq(Bytes) : w \in G
  <2>1. \A w \in Seq(Bytes), b \in Bytes : w \in G => Append(w, b) \in G
    BY <1>2
  <2> HIDE DEF G
  <2> QED
    BY ONLY <1>1, <2>1, SeqClimb
<1>4. ToSet(s) \subseteq kept
  BY <1>3 DEF Words
<1> QED
  BY <1>4, EncodeKept

(* Texts that are equal behind the same text are equal.                    *)
LEMMA CancelPrefix ==
  ASSUME NEW a \in Words, NEW s \in Words, NEW t \in Words, a \o s = a \o t
  PROVE  s = t
<1> DEFINE n == Len(a)
           u == a \o s
           v == a \o t
<1>1. n \in Nat /\ Len(s) \in Nat /\ Len(t) \in Nat
  BY DEF Words
<1>2. /\ Len(u) = n + Len(s)
      /\ \A l \in 1..(n + Len(s)) : u[l] = IF l <= n THEN a[l] ELSE s[l - n]
  BY ConcatProperties DEF Words
<1>3. /\ Len(v) = n + Len(t)
      /\ \A l \in 1..(n + Len(t)) : v[l] = IF l <= n THEN a[l] ELSE t[l - n]
  BY ConcatProperties DEF Words
<1>4. u = v
  OBVIOUS
<1> HIDE DEF u, v, n
<1>5. Len(s) = Len(t)
  BY <1>1, <1>2, <1>3, <1>4
<1>6. ASSUME NEW i \in 1..Len(s) PROVE s[i] = t[i]
  <2> DEFINE l == n + i
  <2>1. l \in 1..(n + Len(s)) /\ ~(l <= n) /\ l - n = i
    BY <1>1
  <2> HIDE DEF l
  <2>2. u[l] = s[i] /\ v[l] = t[i]
    BY <1>2, <1>3, <1>5, <2>1
  <2> QED
    BY <1>4, <2>2
<1> QED
  BY <1>5, <1>6, SeqEqual DEF Words

(* Resolving adds no bytes.                                                *)
LEMMA WalkWithin ==
  ASSUME NEW A \in SUBSET Bytes, NEW s \in Seq(Seq(A))
  PROVE  Resolve(s) \in Seq(Seq(A))
<1> DEFINE n == Len(s)
           V == Seq(Seq(A))
<1>1. s \in Texts
  <2>1. Seq(A) \subseteq Words
    BY SeqWithin DEF Words
  <2> DEFINE E == Seq(A)
  <2> HIDE DEF E
  <2>2. E \subseteq Words /\ s \in Seq(E)
    BY <2>1 DEF E
  <2> QED
    BY <2>2, SeqWithin DEF Texts
<1>2. PICK f : /\ f[0] = <<>>
               /\ \A i \in 1..n : f[i] = ResolveStep(f[i - 1], s[i])
               /\ Walked(s) = f[n]
  BY <1>1, WalkTrace
<1>3. n \in Nat /\ <<>> \in V /\ <<>> \in Seq(A) /\ \A i \in 1..n : s[i] \in Seq(A)
  OBVIOUS
<1> DEFINE G == {i \in 0..n : f[i] \in V}
<1>4. 0 \in G
  <2>1. 0 \in 0..n
    BY <1>3
  <2> HIDE DEF n, V
  <2> QED
    BY <1>2, <1>3, <2>1
<1>5. ASSUME NEW i \in 1..n, i - 1 \in G PROVE i \in G
  <2> DEFINE t == f[i - 1]
             w == s[i]
  <2>1. t \in V /\ w \in Seq(A) /\ i \in 0..n
    BY <1>3, <1>5
  <2>2. f[i] = ResolveStep(t, w)
    BY <1>2
  <2> HIDE DEF t, w, n
  <2>3. t # <<>> => Front(t) \in V
    BY <2>1, FrontLast
  <2>4. Append(t, w) \in V
    <3> DEFINE E == Seq(A)
    <3> HIDE DEF E
    <3>1. Append(t, w) \in Seq(E)
      BY <2>1, AppendProperties DEF E
    <3> QED
      BY <3>1 DEF E
  <2> HIDE DEF V
  <2>5. ResolveStep(t, w) \in V
    BY <1>3, <2>1, <2>3, <2>4 DEF ResolveStep
  <2> QED
    BY <2>1, <2>2, <2>5
<1>6. Walked(s) \in V
  <2>1. \A i \in 1..n : i - 1 \in G => i \in G
    BY <1>5
  <2>2. \A i \in 0..n : i \in G
    <3>1. n \in Nat
      BY <1>3
    <3> HIDE DEF n, G
    <3> QED
      BY ONLY <3>1, <1>4, <2>1, Climb
  <2>3. n \in 0..n
    BY <1>3
  <2> QED
    BY <1>2, <2>2, <2>3
<1>7. Append(Walked(s), <<>>) \in V
  <2> DEFINE E == Seq(A)
             z == Walked(s)
  <2>1. z \in Seq(E) /\ <<>> \in E
    BY <1>3, <1>6
  <2> HIDE DEF E, z
  <2>2. Append(z, <<>>) \in Seq(E)
    BY <2>1, AppendProperties
  <2> QED
    BY <2>2 DEF E, z
<1> QED
  BY <1>6, <1>7 DEF Resolve

(* The tail of a sequence over a set is one over that set.                 *)
LEMMA TailWithin ==
  ASSUME NEW E, NEW s \in Seq(E), s # <<>>
  PROVE  Tail(s) \in Seq(E)
BY HeadTailProperties

(* What is sent of a path has no other bytes than the path,                *)
LEMMA SentWithin ==
  ASSUME NEW path \in Words, path # <<>>, path[1] = Slash
  PROVE  Sent(path) \in Seq(Seq(ToSet(path)))
<1> DEFINE A == ToSet(path)
           n == Len(path)
           ends == {i \in DOMAIN path : path[i] \in {Question, Hash}} \cup {n + 1}
           end == CHOOSE i \in ends : \A j \in ends : i <= j
           t == SubSeq(path, 1, end - 1)
           p == Split(t, Slash)
<1>1. n \in Nat /\ DOMAIN path = 1..n
  BY DEF Words
<1>2. ends \in SUBSET Nat /\ ends # {} /\ \A i \in ends : i \in 1..(n + 1)
  BY <1>1
<1>3. end \in ends
  <2> HIDE DEF ends
  <2>1. \E i \in ends : \A j \in ends : i <= j
    BY <1>2, LeastNumber
  <2> QED
    BY <2>1
<1>4. end \in 1..(n + 1)
  <2> HIDE DEF ends, end
  <2> QED
    BY <1>2, <1>3
<1>5. A \in SUBSET Bytes /\ path \in Seq(A)
  BY OwnBytes
<1>6. t \in Seq(A)
  <2> HIDE DEF ends, end, A
  <2>1. \A i \in 1..(end - 1) : path[i] \in A
    BY <1>1, <1>4, <1>5
  <2>2. end - 1 \in Int
    BY <1>1, <1>4
  <2> QED
    BY <2>1, <2>2, SubSeqProperties
<1> HIDE DEF A
<1>7. p \in Seq(Seq(A)) \ {<<>>}
  <2> HIDE DEF t
  <2> QED
    BY <1>5, <1>6, SplitWithin
<1>8. Tail(p) \in Seq(Seq(A))
  <2> HIDE DEF p
  <2> QED
    BY <1>7, TailWithin
<1>9. Sent(path) = Resolve(Tail(p))
  BY DEF Sent
<1>10. Sent(path) \in Seq(Seq(A))
  <2> HIDE DEF p
  <2> QED
    BY <1>5, <1>8, <1>9, WalkWithin
<1> QED
  BY <1>10 DEF A

(* and joined pieces have those of the pieces and the separator.           *)
LEMMA JoinWithin ==
  ASSUME NEW A \in SUBSET Bytes, NEW p \in Seq(Seq(A)), NEW c \in A
  PROVE  Join(p, c) \in Seq(A)
<1> DEFINE m == [j \in DOMAIN p |-> <<c>> \o p[j]]
<1>1. DOMAIN p = 1..Len(p) /\ Len(p) \in Nat /\ \A j \in 1..Len(p) : p[j] \in Seq(A)
  OBVIOUS
<1>2. \A j \in 1..Len(p) : <<c>> \o p[j] \in Seq(A) \ {<<>>}
  <2> SUFFICES ASSUME NEW j \in 1..Len(p) PROVE <<c>> \o p[j] \in Seq(A) \ {<<>>}
    OBVIOUS
  <2> DEFINE w == p[j]
             s == <<c>> \o w
  <2>1. w \in Seq(A) /\ s = <<c>> \o w
    BY <1>1
  <2> HIDE DEF w, s
  <2>2. s \in Seq(A) \ {<<>>}
    BY <2>1, PieceFirst
  <2> QED
    BY <2>2 DEF s, w
<1>3. m \in Seq(Seq(A)) /\ Len(m) = Len(p)
  BY <1>1, <1>2
<1>4. CASE p = <<>>
  BY <1>4 DEF Join
<1>5. CASE p # <<>>
  <2>1. Join(p, c) = Tail(FlattenSeq(m))
    BY <1>5 DEF Join
  <2>2. FlattenSeq(m) \in Seq(A)
    <3> HIDE DEF m
    <3> QED
      BY <1>3, FlattenTyped
  <2>3. FlattenSeq(m) # <<>>
    <3>1. p \in Texts \ {<<>>}
      <4> DEFINE E == Seq(A)
      <4>1. E \subseteq Words
        BY SeqWithin DEF Words
      <4>2. p \in Seq(E)
        OBVIOUS
      <4> HIDE DEF E
      <4> QED
        BY <1>5, <4>1, <4>2, SeqWithin DEF Texts
    <3>2. c \in Bytes
      OBVIOUS
    <3>3. <<c>> \o Join(p, c) = FlattenSeq(Marks(p, c)) /\ Join(p, c) \in Words
      BY <3>1, <3>2, JoinMarks
    <3>4. m = Marks(p, c)
      BY DEF Marks
    <3> DEFINE w == Join(p, c)
               s == <<c>> \o w
    <3>5. w \in Words /\ s = <<c>> \o w
      BY <3>3
    <3> HIDE DEF w, s
    <3>6. s # <<>>
      BY <3>2, <3>5, PieceFirst DEF Words
    <3> QED
      BY <3>3, <3>4, <3>6 DEF s, w
  <2> HIDE DEF m
  <2> QED
    BY <2>1, <2>2, <2>3, TailWithin
<1> QED
  BY <1>4, <1>5

(* The path of an object.                                                  *)
LEMMA ObjectPathIs ==
  ASSUME bucket \in Words, ValidBucketName(bucket), NEW key \in Words
  PROVE  /\ ObjectPath(key) \in Words
         /\ ObjectPath(key) = Append(<<>>, Slash) \o (Append(bucket, Slash) \o key)
         /\ Split(ObjectPath(key), Slash) = Led(<<>>, Led(bucket, Split(key, Slash)))
         /\ ToSet(ObjectPath(key)) = {Slash} \cup ToSet(bucket) \cup ToSet(key)
<1> DEFINE nil == <<>>
           x0 == <<key>>
           x1 == <<bucket>> \o x0
           x2 == <<nil>> \o x1
<1>1. x1 = <<bucket>> \o x0 /\ x2 = <<nil>> \o x1
  OBVIOUS
<1>2. nil \in Words /\ ToSet(nil) = {} /\ Slash \in Bytes
  BY DEF Words, ToSet, Slash, Bytes
<1>3. Slash \notin ToSet(bucket)
  BY BucketIs
<1>4. ObjectPath(key) = Join(x2, Slash)
  <2>1. ObjectPath(key) = Join(<<nil, bucket, key>>, Slash)
    BY DEF ObjectPath
  <2> HIDE DEF nil
  <2>2. <<nil, bucket, key>> = <<nil>> \o (<<bucket>> \o <<key>>)
    BY <1>2, ThreePieces, Zenon
  <2> QED
    BY <2>1, <2>2, Zenon
<1>5. x0 \in Texts \ {<<>>} /\ Join(x0, Slash) = key
  BY <1>2, JoinOne DEF Texts
<1> HIDE DEF nil, x0, x1, x2
<1>6. /\ x1 \in Texts \ {<<>>} /\ Join(x1, Slash) = Append(bucket, Slash) \o key
      /\ Split(Join(x1, Slash), Slash) = Led(bucket, Split(key, Slash))
      /\ ToSet(Join(x1, Slash)) = ToSet(bucket) \cup {Slash} \cup ToSet(key)
  BY <1>1, <1>3, <1>5, PathCons
<1>7. /\ Join(x2, Slash) \in Words
      /\ Join(x2, Slash) = Append(nil, Slash) \o Join(x1, Slash)
      /\ Split(Join(x2, Slash), Slash) = Led(nil, Split(Join(x1, Slash), Slash))
      /\ ToSet(Join(x2, Slash)) = ToSet(nil) \cup {Slash} \cup ToSet(Join(x1, Slash))
  <2>1. x1 \in Texts \ {<<>>} /\ x2 = <<nil>> \o x1
    BY <1>1, <1>6
  <2>2. nil \in Words /\ Slash \notin ToSet(nil)
    BY <1>2
  <2> QED
    BY ONLY <2>1, <2>2, PathCons
<1>8. ToSet(Join(x2, Slash)) = {Slash} \cup ToSet(bucket) \cup ToSet(key)
  BY <1>2, <1>6, <1>7
<1> QED
  BY <1>4, <1>6, <1>7, <1>8, Zenon DEF nil

(* A URL whose path holds no percent sign is only good for its own path,   *)
(* and so for its own key.                                                 *)
LEMMA UrlFindsItsKey ==
  ASSUME bucket \in Words, ValidBucketName(bucket),
         NEW key \in Keys, Percent \notin ToSet(key),
         NEW pieces, pieces = Sent(ObjectPath(key)),
         ObjectPath(key) = PercentEncode(PercentDecode(Join(<< <<>> >> \o pieces, Slash)),
                                         Unreserved \cup {Slash}),
         NEW target, target = Target("s3", pieces),
         target.bucket = bucket, target.key # <<>>
  PROVE  target.key = key
<1> DEFINE path == ObjectPath(key)
           A == ToSet(path)
           nil == <<>>
           all == <<nil>> \o pieces
           J == Join(all, Slash)
           kept == Unreserved \cup {Slash}
<1>1. /\ path \in Words
      /\ path = Append(nil, Slash) \o (Append(bucket, Slash) \o key)
      /\ A = {Slash} \cup ToSet(bucket) \cup ToSet(key)
  BY ObjectPathIs DEF Keys
<1>2. nil \in Words /\ ToSet(nil) = {} /\ Slash \in Bytes /\ Slash # Percent
  BY DEF Words, ToSet, Slash, Bytes, Percent
<1>3. Percent \notin A /\ Slash \in A
  BY <1>1, <1>2, BucketIs
<1>4. A \in SUBSET Bytes /\ path \in Seq(A)
  BY <1>1, OwnBytes
<1>5. path = PercentEncode(PercentDecode(J), kept)
  OBVIOUS
<1> HIDE DEF path, J, kept
<1>6. path # <<>> /\ path[1] = Slash
  <2> DEFINE r == Append(bucket, Slash) \o key
             s == <<Slash>> \o r
  <2>1. r \in Words
    BY <1>2 DEF Words, Keys
  <2>2. Append(nil, Slash) = <<Slash>>
    OBVIOUS
  <2>3. path = s /\ s = <<Slash>> \o r
    BY <1>1, <2>2
  <2> HIDE DEF r, s
  <2> QED
    BY <1>2, <2>1, <2>3, PieceFirst DEF Words
<1>7. pieces \in Seq(Seq(A))
  BY <1>1, <1>6, SentWithin DEF path
<1>8. all \in Seq(Seq(A)) \ {<<>>}
  <2> DEFINE E == Seq(A)
  <2>1. nil \in E /\ pieces \in Seq(E) /\ all = <<nil>> \o pieces
    BY <1>7
  <2> HIDE DEF E, nil, all
  <2>2. all \in Seq(E) \ {<<>>}
    BY <2>1, PieceFirst
  <2> QED
    BY <2>2 DEF E
<1>9. J \in Seq(A)
  <2> HIDE DEF A, all
  <2> QED
    BY <1>3, <1>4, <1>8, JoinWithin DEF J
<1>10. J \in Words /\ Percent \notin ToSet(J)
  <2> HIDE DEF A
  <2> QED
    BY <1>3, <1>4, <1>9, SeqWithin, SeqBytes DEF Words
<1>11. J = path
  <2>1. PercentDecode(J) = J
    BY <1>10, DecodePlain
  <2>2. Percent \notin ToSet(PercentEncode(J, kept))
    BY <1>3, <1>5, <2>1
  <2> QED
    BY <1>5, <1>10, <2>1, <2>2, EncodedAsItIs
<1>12. pieces \in Texts
  <2> DEFINE E == Seq(A)
  <2>1. E \subseteq Words
    <3> HIDE DEF A
    <3> QED
      BY <1>4, SeqWithin DEF Words
  <2>2. pieces \in Seq(E)
    BY <1>7
  <2> HIDE DEF E
  <2> QED
    BY <2>1, <2>2, SeqWithin DEF Texts
<1>13. pieces # <<>>
  <2> SUFFICES ASSUME pieces = <<>> PROVE FALSE
    OBVIOUS
  <2>1. all = <<nil>>
    OBVIOUS
  <2>2. J = nil
    <3> HIDE DEF nil, all
    <3> QED
      BY <1>2, <2>1, JoinOne DEF J
  <2> QED
    BY <1>6, <1>11, <2>2
<1> DEFINE h == Head(pieces)
           t == Tail(pieces)
<1>14. pieces = <<h>> \o t /\ h \in Words /\ t \in Texts
  <2>1. h \in Words /\ t \in Texts
    BY <1>12, <1>13 DEF Texts
  <2> QED
    BY <1>12, <1>13, <2>1, FirstAndRest
<1>15. target = [by |-> "s3", bucket |-> PercentDecode(h), key |-> PercentDecode(Join(t, Slash))]
  BY DEF Target
<1>16. target.bucket = PercentDecode(h) /\ target.key = PercentDecode(Join(t, Slash))
  BY ONLY <1>15
<1>17. t # <<>>
  BY <1>16, DecodeEmpty DEF Join
<1>18. h = bucket
  <2>1. Seq(A) \subseteq Words
    <3> HIDE DEF A
    <3> QED
      BY <1>4, SeqWithin DEF Words
  <2>2. h \in Seq(A)
    <3> DEFINE E == Seq(A)
    <3>1. pieces \in Seq(E)
      BY <1>7
    <3> HIDE DEF E
    <3>2. h \in E
      BY <1>13, <3>1
    <3> QED
      BY <3>2 DEF E
  <2>3. ToSet(h) \subseteq A
    <3> HIDE DEF A, h
    <3> QED
      BY <2>2, SeqBytes
  <2>4. PercentDecode(h) = h
    <3> HIDE DEF h
    <3> QED
      BY <1>3, <1>14, <2>3, DecodePlain
  <2> QED
    BY <1>16, <2>4
<1> HIDE DEF h, t
<1>19. Slash \notin ToSet(bucket)
  BY BucketIs
<1>20. pieces = <<bucket>> \o t /\ t \in Texts \ {<<>>}
  BY <1>14, <1>17, <1>18
<1>21. /\ pieces \in Texts \ {<<>>} /\ Join(pieces, Slash) \in Words /\ Join(t, Slash) \in Words
       /\ Join(pieces, Slash) = Append(bucket, Slash) \o Join(t, Slash)
  BY ONLY bucket \in Words, <1>19, <1>20, PathCons
<1>22. J = Append(nil, Slash) \o Join(pieces, Slash)
  <2>1. nil \in Words /\ Slash \notin ToSet(nil) /\ all = <<nil>> \o pieces
    BY <1>2
  <2> HIDE DEF all, nil
  <2>2. Join(all, Slash) = Append(nil, Slash) \o Join(pieces, Slash)
    BY ONLY <1>21, <2>1, PathCons
  <2> QED
    BY <2>2 DEF J
<1>23. Join(t, Slash) = key
  <2> DEFINE a == Append(nil, Slash)
             c == Append(bucket, Slash)
             u == c \o Join(t, Slash)
             v == c \o key
  <2>1. a \in Words /\ c \in Words /\ key \in Words
    BY <1>2 DEF Words, Keys
  <2>2. u \in Words /\ v \in Words
    <3> HIDE DEF c
    <3> QED
      BY <1>21, <2>1, PrefixConcat
  <2>3. a \o u = a \o v
    BY <1>1, <1>11, <1>21, <1>22
  <2> HIDE DEF a
  <2>4. u = v
    <3> HIDE DEF u, v
    <3> QED
      BY <2>1, <2>2, <2>3, CancelPrefix
  <2> HIDE DEF c
  <2> QED
    BY <1>21, <2>1, <2>4, CancelPrefix
<1> QED
  BY <1>16, <1>23, DecodePlain DEF Keys

(* A URL of a key that is written as it is opens that key: the path comes  *)
(* to the verifier as it was signed, and bucket and key are read off it.   *)
LEMMA UrlOpensItsKey ==
  ASSUME bucket \in Words, ValidBucketName(bucket),
         NEW key \in Keys, Plain(key), ToSet(key) \subseteq Unreserved \cup {Slash},
         NEW pieces, pieces = Sent(ObjectPath(key))
  PROVE  /\ ObjectPath(key) = PercentEncode(PercentDecode(Join(<< <<>> >> \o pieces, Slash)),
                                            Unreserved \cup {Slash})
         /\ Served(pieces) = [by |-> "s3", bucket |-> bucket, key |-> key]
<1> DEFINE path == ObjectPath(key)
           p == Split(key, Slash)
           b == <<bucket>> \o p
           nil == <<>>
           all == <<nil>> \o b
           kept == Unreserved \cup {Slash}
<1>1. key \in Words /\ key # <<>>
  BY DEF Keys
<1>2. /\ path \in Words
      /\ Split(path, Slash) = Led(nil, Led(bucket, p))
      /\ ToSet(path) = {Slash} \cup ToSet(bucket) \cup ToSet(key)
  BY <1>1, ObjectPathIs
<1>3. /\ p \in Texts \ {<<>>} /\ Join(p, Slash) = key
      /\ \A i \in 1..Len(p) : PercentDecode(p[i]) \notin Dots
  BY <1>1, PlainPieces
<1>4. nil \in Words /\ ToSet(nil) = {} /\ Slash \in Bytes
  BY DEF Words, ToSet, Slash, Bytes
<1>5. ToSet(path) \cap {Question, Hash, Percent} = {}
  <2>1. ToSet(key) \cap {Hash, Percent, Question} = {}
    BY DEF Plain
  <2>2. Slash \notin {Question, Hash, Percent}
    BY DEF Slash, Question, Hash, Percent
  <2> QED
    BY <1>2, <2>1, <2>2, BucketIs
<1>6. Split(path, Slash) = all
  BY <1>2 DEF Led
<1> HIDE DEF path, p
<1>7. /\ b \in Texts \ {<<>>} /\ Len(b) = Len(p) + 1 /\ Head(b) = bucket /\ Tail(b) = p /\ b[1] = bucket
      /\ \A i \in 1..Len(b) : PercentDecode(b[i]) \notin Dots
  <2>1. Percent \notin ToSet(bucket) /\ bucket \notin Dots
    BY BucketIs
  <2>2. b = <<bucket>> \o p
    OBVIOUS
  <2>3. b \in Texts \ {<<>>} /\ \A i \in 1..Len(b) : PercentDecode(b[i]) \notin Dots
    BY <1>3, <2>1, ConsPlain
  <2> HIDE DEF b
  <2> QED
    BY <1>3, <2>2, <2>3, PieceFirst DEF Texts
<1>8. all \in Texts \ {<<>>} /\ Tail(all) = b
  <2>1. all = <<nil>> \o b
    OBVIOUS
  <2> HIDE DEF all, b, nil
  <2> QED
    BY <1>4, <1>7, <2>1, PieceFirst DEF Texts
<1>9. pieces = b
  <2>1. Sent(path) = Resolve(Tail(Split(path, Slash)))
    BY <1>2, <1>5, SentPlain
  <2> HIDE DEF all, b
  <2>2. Resolve(b) = b
    BY <1>7, ResolvePlain DEF Dots
  <2> QED
    BY <1>6, <1>8, <2>1, <2>2 DEF path
<1>10. path = Join(<<nil>> \o pieces, Slash)
  <2>1. Join(Split(path, Slash), Slash) = path
    BY <1>2, <1>4, JoinSplit
  <2> QED
    BY <1>6, <1>9, <2>1
<1>11. PercentEncode(PercentDecode(path), kept) = path
  <2>1. ToSet(path) \subseteq kept
    BY <1>2, BucketIs
  <2>2. PercentDecode(path) = path
    BY <1>2, <1>5, DecodePlain
  <2> HIDE DEF kept
  <2> QED
    BY <1>2, <2>1, <2>2, EncodeKept
<1>12. PercentDecode(bucket) = bucket /\ PercentDecode(key) = key
  BY <1>1, BucketIs, DecodePlain DEF Plain
<1>13. Served(b) = Target("s3", b)
  <2>1. b[1] # Ui /\ b[1] # Pkg
    BY <1>7, BucketIs DEF Reserved
  <2> HIDE DEF b
  <2> QED
    BY <2>1 DEF Served
<1>14. Target("s3", b) = [by |-> "s3", bucket |-> bucket, key |-> key]
  <2> HIDE DEF b
  <2> QED
    BY <1>3, <1>7, <1>12 DEF Target
<1> QED
  BY <1>9, <1>10, <1>11, <1>13, <1>14 DEF path

(* What a URL gives when it is used.                                       *)
Opened(u, pieces, delay) ==
  IF /\ Served(pieces).by = "s3"
     /\ Verified(u, pieces, After(u.minted, delay))
  THEN Found(Served(pieces)) ELSE None

(* That is its object, for as long as the URL is good.                     *)
LEMMA UrlIsExact ==
  ASSUME bucket \in Words, ValidBucketName(bucket), stored \in SUBSET Keys,
         NEW key \in stored, NEW time \in Instants, NEW expires \in Nat, NEW delay \in Nat,
         NEW u, u = PresignUrl(key, time, expires),
         NEW pieces, pieces = Sent(u.path),
         NEW got, got = Opened(u, pieces, delay)
  PROVE  /\ delay > u.expires => got = None
         /\ Percent \notin ToSet(key) => got \in {key, None}
         /\ (/\ ~(delay > u.expires)
             /\ Plain(key)
             /\ ToSet(key) \subseteq Unreserved \cup {Slash})
            => got = key
<1> DEFINE signed == ObjectPath(key) = PercentEncode(PercentDecode(Join(<< <<>> >> \o pieces, Slash)),
                                                     Unreserved \cup {Slash})
<1>1. /\ u.expires = expires /\ u.minted = time /\ u.path = ObjectPath(key)
      /\ u.date = FormatUtc(time) /\ u.scope = u.date.date
  BY DEF PresignUrl, AmzTimestamps, FormatUtc
<1>2. Verified(u, pieces, After(time, delay)) <=> signed /\ delay \in 0..expires
  BY <1>1, AgeIsDelay DEF Verified
<1> DEFINE opens == Served(pieces).by = "s3" /\ signed /\ delay <= expires
<1>3. got = IF opens THEN Found(Served(pieces)) ELSE None
  BY <1>1, <1>2 DEF Opened
<1>4. key \in Keys /\ key # <<>> /\ <<>> \notin stored
  BY DEF Keys
<1> HIDE DEF signed
<1>5. delay > u.expires => got = None
  BY <1>1, <1>3
<1>6. ASSUME Percent \notin ToSet(key), got # None PROVE got = key
  <2> DEFINE target == Served(pieces)
  <2>1. target.by = "s3" /\ signed /\ got = target.key
        /\ target.bucket = bucket /\ target.key \in stored
    BY <1>3, <1>6 DEF Found
  <2>2. target = Target("s3", pieces)
    <3>1. \A ps : Target("console", ps).by # "s3" /\ Target("assets", ps).by # "s3"
      BY DEF Target
    <3> QED
      BY <2>1, <3>1 DEF Served
  <2> HIDE DEF target
  <2>3. target.key = key
    BY <1>1, <1>4, <1>6, <2>1, <2>2, UrlFindsItsKey DEF signed
  <2> QED
    BY <2>1, <2>3
<1>7. ASSUME ~(delay > u.expires), Plain(key), ToSet(key) \subseteq Unreserved \cup {Slash}
      PROVE  got = key
  <2>1. signed /\ Served(pieces) = [by |-> "s3", bucket |-> bucket, key |-> key]
    BY <1>1, <1>4, <1>7, UrlOpensItsKey DEF signed
  <2>2. delay <= expires
    BY <1>1, <1>7
  <2>3. opens
    BY <2>1, <2>2
  <2> DEFINE target == Served(pieces)
  <2>4. target.bucket = bucket /\ target.key = key
    BY ONLY <2>1
  <2>5. got = Found(target)
    <3> HIDE DEF opens
    <3> QED
      BY <1>3, <2>3
  <2> HIDE DEF target
  <2> QED
    BY ONLY <2>4, <2>5, key \in stored DEF Found
<1> QED
  BY <1>5, <1>6, <1>7

(***************************************************************************)
(* A download link opens the object it was made for, and a presigned URL   *)
(* too, for exactly as long as it is good.                                 *)
(***************************************************************************)
THEOREM LinksAreExact == Spec => []LinksOpenTheirObject
<1>1. Init => LinksOpenTheirObject
  BY DEF Init, NoRequest, LinksOpenTheirObject
<1>2. TypeInv /\ LinksOpenTheirObject /\ [Next]_vars => LinksOpenTheirObject'
  <2> SUFFICES ASSUME TypeInv, LinksOpenTheirObject, [Next]_vars
               PROVE  LinksOpenTheirObject'
    OBVIOUS
  <2>1. bucket \in Words /\ ValidBucketName(bucket) /\ stored \in SUBSET Keys
    BY DEF TypeInv
  <2>2. CASE Download
    <3>1. PICK key \in ShownObjects :
            LET target == Served(Sent(ConsolePath(DownloadRoute, key)))
            IN  last' = [by |-> "download", wanted |-> key, late |-> FALSE,
                         got |-> IF target.by = "console" THEN Found(target) ELSE None]
      BY <2>2 DEF Download
    <3> DEFINE target == Served(Sent(ConsolePath(DownloadRoute, key)))
    <3>2. /\ last'.by = "download" /\ last'.wanted = key
          /\ last'.got = IF target.by = "console" THEN Found(target) ELSE None
      BY <3>1
    <3>3. key \in stored /\ key \in Keys
      BY <2>1, ShownObjectsAreStored
    <3>4. ASSUME Plain(key) PROVE last'.got = key
      <4>1. target.by = "console" /\ target.bucket = bucket /\ target.key = key
        BY <2>1, <3>3, <3>4, ConsoleServes
      <4> HIDE DEF target
      <4> QED
        BY <3>2, <3>3, <4>1 DEF Found
    <3> QED
      BY <3>2, <3>4 DEF LinksOpenTheirObject
  <2>3. CASE UseUrl
    <3>1. PICK delay \in Delays :
            LET pieces == Sent(url.path)
                opens  == /\ Served(pieces).by = "s3"
                          /\ Verified(url, pieces, After(url.minted, delay))
            IN  last' = [by |-> "url", wanted |-> url.key, late |-> delay > url.expires,
                         got |-> IF opens THEN Found(Served(pieces)) ELSE None]
      BY <2>3 DEF UseUrl
    <3> DEFINE pieces == Sent(url.path)
               got == Opened(url, pieces, delay)
    <3>2. PICK key \in stored, time \in Instants, expires \in Nat :
            url = PresignUrl(key, time, expires)
      BY <2>3 DEF UseUrl, TypeInv, UrlIsMade
    <3>3. delay \in Nat
      BY LinksAssumption
    <3>4. url.key = key
      BY <3>2 DEF PresignUrl
    <3>5. /\ last'.by = "url" /\ last'.wanted = key /\ last'.late = (delay > url.expires)
          /\ last'.got = got
      BY <3>1, <3>4 DEF Opened
    <3> HIDE DEF pieces
    <3>6. pieces = Sent(url.path) /\ got = Opened(url, pieces, delay)
      BY DEF pieces
    <3> HIDE DEF got
    <3>7. /\ delay > url.expires => got = None
          /\ Percent \notin ToSet(key) => got \in {key, None}
          /\ (/\ ~(delay > url.expires)
              /\ Plain(key)
              /\ ToSet(key) \subseteq Unreserved \cup {Slash})
             => got = key
      BY ONLY <2>1, <3>2, <3>3, <3>6, UrlIsExact
    <3> QED
      BY <3>5, <3>7 DEF LinksOpenTheirObject
  <2>4. CASE OpenFolder \/ OpenCrumb \/ OpenBucket \/ Filter
    <3>1. last' = NoRequest
      BY <2>4, Zenon DEF OpenFolder, OpenCrumb, OpenBucket, Filter, GoTo
    <3> QED
      BY <3>1 DEF NoRequest, LinksOpenTheirObject
  <2>5. CASE NextPage \/ Presign \/ PresignOnCommandLine
    <3>1. last' = NoRequest
      BY <2>5 DEF NextPage, Presign, PresignOnCommandLine, Minted
    <3> QED
      BY <3>1 DEF NoRequest, LinksOpenTheirObject
  <2>6. CASE Upload
    <3>1. last'.by = "upload"
      BY <2>6 DEF Upload
    <3> QED
      BY <3>1 DEF LinksOpenTheirObject
  <2>7. CASE UNCHANGED vars
    BY <2>7 DEF vars, LinksOpenTheirObject
  <2> QED
    BY <2>2, <2>3, <2>4, <2>5, <2>6, <2>7 DEF Next
<1> QED
  BY <1>1, <1>2, LinksTyped, PTL DEF Spec
=============================================================================
