--------------------------- MODULE RangedGetProofs ---------------------------
(***************************************************************************)
(* Proofs about RangedGet, for objects and range headers of any size: the  *)
(* resolved window lies within the object, and an undisturbed get sends    *)
(* exactly the bytes asked for.                                            *)
(***************************************************************************)
EXTENDS RangedGet, TLAPS

(***************************************************************************)
(* What resolve returns: no window exactly when no byte is asked for (but  *)
(* for suffixes, which always have one), else the window of those bytes.   *)
(***************************************************************************)
Covers(w, rg, len) ==
  \A i \in Int : (w.start <= i /\ i < w.start + w.length) <=> i \in Asked(rg, len)

Fits(w, len) ==
  /\ w = [start |-> w.start, length |-> w.length]
  /\ w.start \in 0..len
  /\ w.length \in 0..len
  /\ w.start + w.length <= len

(* resolve on a range with both ends: the window is exact, or no byte of   *)
(* the object is asked for.                                                *)
LEMMA ResolveFullExact ==
  ASSUME NEW rg \in [kind : {"full"}, first : Offsets, last : Offsets], NEW len \in Sizes
  PROVE  LET w == ResolveFull(rg.first, rg.last, len)
         IN  IF w = None THEN Asked(rg, len) = {}
             ELSE Fits(w, len) /\ Covers(w, rg, len) /\ w.length > 0
<1> DEFINE end == Least(rg.last, U64(len - 1))
<1>1. /\ U64Max \in Nat /\ MaxSize \in 0..U64Max /\ Offsets \subseteq 0..U64Max
      /\ rg.first \in 0..U64Max /\ rg.last \in 0..U64Max /\ len \in 0..MaxSize
      /\ rg.kind = "full"
  BY RangeAssumption DEF Sizes
<1>2. Asked(rg, len) = {i \in 0..(len - 1) : rg.first <= i /\ i <= rg.last}
  BY <1>1 DEF Asked
<1>3. CASE len = 0 \/ rg.first >= len \/ rg.first > end
  <2>1. ResolveFull(rg.first, rg.last, len) = None
    BY <1>3 DEF ResolveFull
  <2>2. Asked(rg, len) = {}
    BY <1>1, <1>2, <1>3 DEF Least, U64
  <2> QED BY <2>1, <2>2
<1>4. CASE ~(len = 0 \/ rg.first >= len \/ rg.first > end)
  <2>1. end \in 0..(len - 1) /\ (end = rg.last \/ (end = len - 1 /\ end <= rg.last))
    BY <1>1, <1>4 DEF Least, U64
  <2>2. U64(U64(end - rg.first) + 1) = end - rg.first + 1
    BY <1>1, <1>4, <2>1 DEF U64
  <2> DEFINE w == ResolveFull(rg.first, rg.last, len)
  <2>3. w = [start |-> rg.first, length |-> end - rg.first + 1]
    BY <1>4, <2>2 DEF ResolveFull, Window
  <2>4. w # None /\ Fits(w, len) /\ w.length > 0
    <3>1. w \in [start : 0..U64Max, length : 0..U64Max]
      BY <1>1, <1>4, <2>1, <2>3
    <3> QED BY <1>1, <1>4, <2>1, <2>3, <3>1, RangeAssumption DEF Fits
  <2>5. Covers(w, rg, len)
    BY <1>1, <1>2, <1>4, <2>1, <2>3 DEF Covers
  <2> QED BY <2>4, <2>5
<1> QED BY <1>3, <1>4

(* The same for a range without an end.                                    *)
LEMMA ResolveOpenExact ==
  ASSUME NEW rg \in [kind : {"open"}, first : Offsets], NEW len \in Sizes
  PROVE  LET w == ResolveOpen(rg.first, len)
         IN  IF w = None THEN Asked(rg, len) = {}
             ELSE Fits(w, len) /\ Covers(w, rg, len) /\ w.length > 0
<1>1. /\ U64Max \in Nat /\ MaxSize \in 0..U64Max /\ Offsets \subseteq 0..U64Max
      /\ rg.first \in 0..U64Max /\ len \in 0..MaxSize /\ rg.kind = "open"
  BY RangeAssumption DEF Sizes
<1>2. Asked(rg, len) = {i \in 0..(len - 1) : rg.first <= i}
  BY <1>1 DEF Asked
<1>3. CASE len = 0 \/ rg.first >= len
  <2>1. ResolveOpen(rg.first, len) = None
    BY <1>3 DEF ResolveOpen
  <2>2. Asked(rg, len) = {}
    BY <1>1, <1>2, <1>3
  <2> QED BY <2>1, <2>2
<1>4. CASE ~(len = 0 \/ rg.first >= len)
  <2> DEFINE w == ResolveOpen(rg.first, len)
  <2>1. w = [start |-> rg.first, length |-> len - rg.first]
    BY <1>1, <1>4 DEF ResolveOpen, Window, U64
  <2>2. w \in [start : 0..U64Max, length : 0..U64Max]
    BY <1>1, <1>4, <2>1
  <2>3. w # None /\ Fits(w, len) /\ w.length > 0
    BY <1>1, <1>4, <2>1, <2>2, RangeAssumption DEF Fits
  <2>4. Covers(w, rg, len)
    BY <1>1, <1>2, <1>4, <2>1 DEF Covers
  <2> QED BY <2>3, <2>4
<1> QED BY <1>3, <1>4

(* A suffix always has a window, empty when nothing is asked for.          *)
LEMMA ResolveSuffixExact ==
  ASSUME NEW rg \in [kind : {"suffix"}, n : Offsets], NEW len \in Sizes
  PROVE  LET w == ResolveSuffix(rg.n, len)
         IN  /\ w # None
             /\ Fits(w, len)
             /\ Covers(w, rg, len)
             /\ w.length = 0 <=> rg.n = 0 \/ len = 0
<1>1. /\ U64Max \in Nat /\ MaxSize \in 0..U64Max /\ Offsets \subseteq 0..U64Max
      /\ rg.n \in 0..U64Max /\ len \in 0..MaxSize /\ rg.kind = "suffix"
  BY RangeAssumption DEF Sizes
<1>2. Asked(rg, len) = {i \in 0..(len - 1) : i + rg.n >= len}
  BY <1>1 DEF Asked
<1> DEFINE c == Least(rg.n, len)
           w == ResolveSuffix(rg.n, len)
<1>3. c \in 0..len /\ ((c = rg.n) \/ (c = len /\ len <= rg.n))
  BY <1>1 DEF Least
<1>4. w = [start |-> len - c, length |-> c]
  BY <1>1, <1>3 DEF ResolveSuffix, Window, U64
<1>5. w \in [start : 0..U64Max, length : 0..U64Max]
  BY <1>1, <1>3, <1>4
<1>6. w # None /\ Fits(w, len)
  BY <1>1, <1>3, <1>4, <1>5, RangeAssumption DEF Fits
<1>7. Covers(w, rg, len)
  BY <1>1, <1>2, <1>3, <1>4 DEF Covers
<1>8. w.length = 0 <=> rg.n = 0 \/ len = 0
  BY <1>1, <1>3, <1>4 DEF Least
<1> QED BY <1>6, <1>7, <1>8

(* The three kinds together, as the actions use resolve.                   *)
LEMMA ResolveExact ==
  ASSUME NEW rg \in Ranges, NEW len \in Sizes
  PROVE  LET w == Resolve(rg, len)
         IN  /\ w = None => Asked(rg, len) = {}
             /\ w # None => Fits(w, len) /\ Covers(w, rg, len)
             /\ w # None /\ w.length = 0 => rg.kind = "suffix" /\ (rg.n = 0 \/ len = 0)
<1>1. CASE rg \in [kind : {"full"}, first : Offsets, last : Offsets]
  <2>1. rg.kind = "full" /\ Resolve(rg, len) = ResolveFull(rg.first, rg.last, len)
    BY <1>1 DEF Resolve
  <2> QED BY <1>1, <2>1, ResolveFullExact
<1>2. CASE rg \in [kind : {"open"}, first : Offsets]
  <2>1. rg.kind = "open" /\ Resolve(rg, len) = ResolveOpen(rg.first, len)
    BY <1>2 DEF Resolve
  <2> QED BY <1>2, <2>1, ResolveOpenExact
<1>3. CASE rg \in [kind : {"suffix"}, n : Offsets]
  <2>1. rg.kind = "suffix" /\ Resolve(rg, len) = ResolveSuffix(rg.n, len)
    BY <1>3 DEF Resolve
  <2> QED BY <1>3, <2>1, ResolveSuffixExact
<1> QED BY <1>1, <1>2, <1>3 DEF Ranges

LEMMA FitsIsWindow ==
  ASSUME NEW w, NEW len \in Sizes, Fits(w, len)
  PROVE  w \in Windows
BY RangeAssumption DEF Fits, Windows, Sizes

LEMMA RangesAreRanged == \A rg \in Ranges : rg # Unranged
BY DEF Ranges, Unranged

-----------------------------------------------------------------------------
(***************************************************************************)
(* The inductive invariant.  An open get remembers the size it resolved    *)
(* against; as long as it is quiet, that size is the body's too.           *)
(***************************************************************************)
StoreInv ==
  /\ wpc = "idle" => sidecar = body
  /\ wpc = "meta" => writing = body
  /\ quiet => wpc = "idle"

OpenInv ==
  gpc = "open" =>
    /\ size \in Sizes
    /\ quiet => body = size
    /\ range = Unranged => window = None
    /\ range # Unranged => window # None /\ window = Resolve(range, size)

IInv == TypeOK /\ WindowsAreWithin /\ StoreInv /\ OpenInv /\ ReplyIsExact

LEMMA FailureIsReply ==
  ASSUME NEW s \in {404, 416}
  PROVE  /\ Failure(s) \in Replies
         /\ Failure(s).status = s /\ Failure(s).contentLength = 0
         /\ Failure(s).count = 0 /\ Sent(Failure(s)) = {}
BY RangeAssumption DEF Failure, Answer, Replies, Sent, Sizes

LEMMA InitIInv == Init => IInv
<1> SUFFICES ASSUME Init PROVE IInv
  OBVIOUS
<1>1. TypeOK
  BY FailureIsReply DEF Init, TypeOK
<1> QED BY <1>1 DEF Init, IInv, WindowsAreWithin, StoreInv, OpenInv, ReplyIsExact

LEMMA WriteStep ==
  ASSUME IInv, (\E s \in Sizes \cup {None} : WriteBody(s)) \/ WriteSidecar
  PROVE  IInv'
<1>1. TypeOK' /\ StoreInv' /\ ~quiet' /\ UNCHANGED <<gpc, range, size, window, reply>>
  BY DEF IInv, TypeOK, StoreInv, WriteBody, WriteSidecar
<1>2. WindowsAreWithin' /\ OpenInv' /\ ReplyIsExact'
  BY <1>1 DEF IInv, WindowsAreWithin, OpenInv, ReplyIsExact
<1> QED BY <1>1, <1>2 DEF IInv

LEMMA StartGetStep ==
  ASSUME IInv, NEW rg \in Ranges \cup {Unranged}, StartGet(rg)
  PROVE  IInv'
<1> DEFINE w == IF sidecar = None \/ rg = Unranged THEN None ELSE Resolve(rg, sidecar)
<1>1. /\ TypeOK /\ StoreInv
      /\ UNCHANGED storeVars
      /\ range' = rg /\ size' = sidecar /\ quiet' = (wpc = "idle") /\ window' = w
  BY DEF IInv, StartGet
<1>2. None \notin Sizes
  BY RangeAssumption DEF Sizes
<1>3. w # None => sidecar \in Sizes /\ rg \in Ranges /\ Fits(w, sidecar)
  BY <1>1, ResolveExact DEF TypeOK
<1>4. window' \in Windows \cup {None} /\ WindowsAreWithin'
  BY <1>1, <1>2, <1>3, FitsIsWindow DEF WindowsAreWithin, Fits
<1>5. StoreInv'
  BY <1>1 DEF StoreInv, storeVars
<1>6. /\ body' \in Sizes \cup {None} /\ sidecar' \in Sizes \cup {None}
      /\ writing' \in Sizes \cup {None} /\ wpc' \in {"idle", "meta"}
      /\ range' \in Ranges \cup {Unranged} /\ size' \in Sizes \cup {None}
      /\ quiet' \in BOOLEAN
  BY <1>1 DEF TypeOK, storeVars
<1>7. CASE sidecar = None /\ reply' = Failure(404) /\ gpc' = "replied"
  <2>1. TypeOK'
    BY <1>4, <1>6, <1>7, FailureIsReply DEF TypeOK
  <2>2. OpenInv' /\ ReplyIsExact'
    BY <1>1, <1>7, FailureIsReply DEF OpenInv, ReplyIsExact, storeVars
  <2> QED BY <1>4, <1>5, <2>1, <2>2 DEF IInv
<1>8. CASE sidecar # None /\ rg # Unranged /\ w = None /\ reply' = Failure(416) /\ gpc' = "replied"
  <2>1. TypeOK'
    BY <1>4, <1>6, <1>8, FailureIsReply DEF TypeOK
  <2>2. sidecar \in Sizes /\ rg \in Ranges /\ Asked(rg, sidecar) = {}
    BY <1>1, <1>8, ResolveExact DEF TypeOK
  <2>3. sidecar' = sidecar
    BY <1>1 DEF storeVars
  <2>4. ReplyIsExact'
    <3>1. Sent(reply') = {} /\ reply'.status = 416 /\ reply'.contentLength = 0 /\ reply'.count = 0
      BY <1>8, FailureIsReply
    <3> QED BY <1>1, <1>8, <2>2, <2>3, <3>1 DEF ReplyIsExact, Sent
  <2>5. OpenInv'
    BY <1>8 DEF OpenInv
  <2> QED BY <1>4, <1>5, <2>1, <2>4, <2>5 DEF IInv
<1>9. CASE sidecar # None /\ (rg = Unranged \/ w # None) /\ gpc' = "open" /\ UNCHANGED reply
  <2>1. TypeOK'
    BY <1>1, <1>4, <1>6, <1>9 DEF TypeOK
  <2>2. OpenInv'
    BY <1>1, <1>9 DEF OpenInv, TypeOK, StoreInv, storeVars
  <2>3. ReplyIsExact'
    BY <1>9 DEF ReplyIsExact
  <2> QED BY <1>4, <1>5, <2>1, <2>2, <2>3 DEF IInv
<1> QED BY <1>7, <1>8, <1>9 DEF StartGet

LEMMA OpenAndReplyStep ==
  ASSUME IInv, OpenAndReply
  PROVE  IInv'
<1>1. /\ TypeOK /\ WindowsAreWithin /\ StoreInv /\ OpenInv
      /\ gpc = "open" /\ gpc' = "replied"
      /\ UNCHANGED <<body, sidecar, writing, wpc, range, size, window, quiet>>
  BY DEF IInv, OpenAndReply, storeVars
<1>2. /\ U64Max \in Nat /\ MaxSize \in 0..U64Max /\ Sizes = 0..MaxSize /\ None \notin Sizes
      /\ size \in Sizes
  BY <1>1, RangeAssumption DEF Sizes, OpenInv
<1>3. StoreInv' /\ OpenInv' /\ WindowsAreWithin'
  BY <1>1 DEF StoreInv, OpenInv, WindowsAreWithin
<1>4. window # None => range \in Ranges /\ Fits(window, size) /\ Covers(window, range, size)
                       /\ (window.length = 0 => range.kind = "suffix" /\ (range.n = 0 \/ size = 0))
  BY <1>1, <1>2, ResolveExact DEF OpenInv, TypeOK
<1>5. quiet => body = size /\ sidecar = size
  BY <1>1 DEF OpenInv, StoreInv
<1>6. SUFFICES reply' \in Replies /\ ReplyIsExact'
  BY <1>1, <1>3 DEF IInv, TypeOK
<1>7. CASE body = None /\ reply' = Failure(404)
  <2>1. ~quiet'
    BY <1>1, <1>2, <1>5, <1>7
  <2> QED BY <1>7, <2>1, FailureIsReply DEF ReplyIsExact
<1>8. CASE body # None /\ window = None /\ reply' = Complete
  <2>1. body \in 0..MaxSize /\ range = Unranged
    BY <1>1, <1>2, <1>8 DEF TypeOK, OpenInv
  <2>2. reply' = [status |-> 200, contentLength |-> size, contentRange |-> None,
                  from |-> 0, count |-> body]
    BY <1>8 DEF Complete, Answer, StreamFrom, StreamCount
  <2>3. reply' \in Replies
    BY <1>2, <2>1, <2>2 DEF Replies
  <2>4. Asked(range, size) = 0..(size - 1)
    BY <1>2, <2>1 DEF Asked, Unranged
  <2>5. quiet => Sent(reply') = 0..(size - 1)
    BY <1>2, <1>5, <2>1, <2>2 DEF Sent
  <2>6. Sent(reply') = Sent(reply)'
    BY DEF Sent
  <2> QED BY <1>1, <1>2, <1>5, <2>1, <2>2, <2>3, <2>4, <2>5, <2>6 DEF ReplyIsExact
<1>9. CASE body # None /\ window # None /\ window.length > 0 /\ reply' = Partial(window)
  <2>1. /\ body \in 0..MaxSize /\ size \in 0..MaxSize /\ range \in Ranges /\ range # Unranged
        /\ window.start \in 0..size /\ window.length \in 0..size
        /\ window.start + window.length <= size
    BY <1>1, <1>2, <1>4, <1>9, RangesAreRanged DEF TypeOK, Fits
  <2>2. LastByte(window) = window.start + window.length - 1
    BY <1>2, <1>9, <2>1 DEF LastByte, U64
  <2>3. StreamFrom = window.start /\ StreamCount \in 0..MaxSize
        /\ (quiet => StreamCount = window.length)
    BY <1>2, <1>5, <1>9, <2>1 DEF StreamFrom, StreamCount, Least
  <2>4. reply' = [status |-> 206, contentLength |-> window.length,
                  contentRange |-> Window(window.start, window.start + window.length - 1),
                  from |-> window.start, count |-> StreamCount]
    BY <1>9, <2>2, <2>3 DEF Partial, Answer
  <2>5. reply' \in Replies
    BY <1>2, <1>9, <2>1, <2>3, <2>4 DEF Replies, Windows, Window
  <2>6. ASSUME quiet PROVE Sent(reply') = Asked(range, size) /\ Asked(range, size) # {}
    <3>1. \A i \in Int : i \in Sent(reply') <=> window.start <= i /\ i < window.start + window.length
      BY <1>2, <2>1, <2>3, <2>4, <2>6 DEF Sent
    <3>2. Sent(reply') \subseteq Int /\ Asked(range, size) \subseteq Int
      <4>1. \A a : Sent(a) \subseteq Int
        BY RangeAssumption DEF Sent
      <4>2. \A i \in Asked(range, size) : i \in 0..(size - 1)
        BY DEF Asked
      <4> QED BY <2>1, <4>1, <4>2
    <3>3. Sent(reply') = Asked(range, size)
      <4>1. \A i \in Int : i \in Sent(reply') <=> i \in Asked(range, size)
        BY <1>4, <1>9, <3>1 DEF Covers
      <4> QED BY <3>2, <4>1
    <3>4. window.start \in Sent(reply')
      BY <1>9, <2>1, <3>1
    <3> QED BY <3>3, <3>4
  <2>7. Sent(reply') = Sent(reply)'
    BY DEF Sent
  <2>8. (Asked(range, sidecar))' = Asked(range, sidecar)
    BY <1>1 DEF Asked
  <2> QED BY <1>1, <1>2, <1>5, <2>1, <2>3, <2>4, <2>5, <2>6, <2>7, <2>8 DEF ReplyIsExact
<1>10. CASE body # None /\ window # None /\ ~(window.length > 0) /\ reply' = Complete
  <2>1. /\ body \in 0..MaxSize /\ size \in 0..MaxSize /\ range \in Ranges /\ range # Unranged
        /\ window.start \in 0..size /\ window.length = 0
    BY <1>1, <1>2, <1>4, <1>10, RangesAreRanged DEF TypeOK, Fits
  <2>2. StreamFrom = window.start /\ StreamCount = 0
    BY <1>2, <1>10, <2>1 DEF StreamFrom, StreamCount, Least
  <2>3. reply' = [status |-> 200, contentLength |-> size, contentRange |-> None,
                  from |-> window.start, count |-> 0]
    BY <1>10, <2>2 DEF Complete, Answer
  <2>4. reply' \in Replies
    BY <1>2, <2>1, <2>3 DEF Replies
  <2>5. Sent(reply)' = {}
    BY <1>2, <2>1, <2>3 DEF Sent
  <2>6. ASSUME quiet, ~ZeroSuffix PROVE size = 0 /\ Asked(range, size) = {}
    <3>1. size = 0
      BY <1>4, <1>10, <2>1, <2>6 DEF ZeroSuffix
    <3>2. \A rg : Asked(rg, 0) = {}
      BY DEF Asked
    <3> QED BY <3>1, <3>2
  <2>7. (Asked(range, sidecar))' = Asked(range, sidecar) /\ ZeroSuffix' = ZeroSuffix
    BY <1>1 DEF Asked, ZeroSuffix
  <2> QED BY <1>1, <1>2, <1>5, <2>1, <2>3, <2>4, <2>5, <2>6, <2>7 DEF ReplyIsExact
<1> QED BY <1>7, <1>8, <1>9, <1>10 DEF OpenAndReply

LEMMA StutterStep ==
  ASSUME IInv, UNCHANGED vars
  PROVE  IInv'
<1>1. /\ UNCHANGED <<body, sidecar, writing, wpc>>
      /\ UNCHANGED <<gpc, range, size, window, reply, quiet>>
  BY DEF vars
<1>2. TypeOK'
  BY <1>1 DEF IInv, TypeOK
<1>3. WindowsAreWithin' /\ StoreInv' /\ OpenInv'
  BY <1>1 DEF IInv, WindowsAreWithin, StoreInv, OpenInv
<1>4. Sent(reply)' = Sent(reply) /\ Asked(range, sidecar)' = Asked(range, sidecar)
  BY <1>1 DEF Sent, Asked
<1>5. ReplyIsExact'
  BY <1>1, <1>4 DEF IInv, ReplyIsExact, ZeroSuffix
<1> QED BY <1>2, <1>3, <1>5 DEF IInv

THEOREM SpecIInv == Spec => []IInv
<1>1. IInv /\ [Next]_vars => IInv'
  BY WriteStep, StartGetStep, OpenAndReplyStep, StutterStep DEF Next
<1> QED BY InitIInv, <1>1, PTL DEF Spec

(* ResolvedRange's promise, start + length <= object_len, for every range  *)
(* and object of u64 size.                                                 *)
THEOREM WindowsAlwaysWithin == Spec => []WindowsAreWithin
<1>1. IInv => WindowsAreWithin
  BY DEF IInv
<1> QED BY SpecIInv, <1>1, PTL

(* An undisturbed get sends exactly the bytes its range asks for, under    *)
(* headers that say so.                                                    *)
THEOREM RepliesAreExact == Spec => []ReplyIsExact
<1>1. IInv => ReplyIsExact
  BY DEF IInv
<1> QED BY SpecIInv, <1>1, PTL

=============================================================================
