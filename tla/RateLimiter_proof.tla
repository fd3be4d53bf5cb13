--------------------------- MODULE RateLimiter_proof ---------------------------
(***************************************************************************)
(* Proofs about RateLimiter, for any keys, limit, window and clock bound:  *)
(* the limit holds in every window, and the limiter implements the         *)
(* abstract SlidingWindow.                                                 *)
(***************************************************************************)
EXTENDS RateLimiter, FiniteSetTheorems, SequenceTheorems, TLAPS

\* The conjunction that every step preserves.
LimiterInv == TypeOK /\ SuffixOfLog /\ WindowBound

\* What Allow keeps of a slice r whose first n timestamps have expired.
Valid(r, n) == SubSeq(r, n + 1, Len(r))

\* The element-wise facts about Valid(r, n), and about s2 = Append(s, t).
Keeps(r, n, v) ==
    /\ v \in Seq(Times)
    /\ Len(v) = Len(r) - n
    /\ \A i \in 1 .. Len(r) - n : v[i] = r[n + i]

Extends(s, s2, t) ==
    /\ s2 \in Seq(Times)
    /\ Len(s2) = Len(s) + 1
    /\ \A i \in 1 .. Len(s) : s2[i] = s[i]
    /\ s2[Len(s) + 1] = t

\* What stands where in a slice after its expired prefix was cut off.
LEMMA ValidKeeps ==
    ASSUME NEW r \in Seq(Times), NEW n \in 0 .. Len(r)
    PROVE  Keeps(r, n, Valid(r, n))
<1>1. Len(r) \in Nat /\ n \in Nat /\ n <= Len(r)
  OBVIOUS
<1>2. \A i \in n + 1 .. Len(r) : r[i] \in Times
  BY <1>1, ElementOfSeq
<1>3. /\ Valid(r, n) \in Seq(Times)
      /\ Len(Valid(r, n)) = IF n + 1 <= Len(r) THEN Len(r) - (n + 1) + 1 ELSE 0
      /\ \A i \in 1 .. Len(r) - (n + 1) + 1 : Valid(r, n)[i] = r[n + 1 + i - 1]
  <2>1. n + 1 \in Int /\ Len(r) \in Int
    BY <1>1
  <2> QED
    BY <2>1, <1>2, SubSeqProperties DEF Valid
<1> QED
  BY <1>1, <1>3 DEF Keeps

\* What stands where after an append.
LEMMA AppendExtends ==
    ASSUME NEW s \in Seq(Times), NEW t \in Times
    PROVE  Extends(s, Append(s, t), t)
  BY DEF Extends

\* The index after the last of a sequence that was extended.
LEMMA LastOrBefore ==
    ASSUME NEW a \in Int, NEW i \in Int, i <= a + 1
    PROVE  i <= a \/ i = a + 1
  OBVIOUS

\* The instance of SlidingWindow has its own copy of FiniteSets.
LEMMA SameCardinality ==
    ASSUME NEW S
    PROVE  Abstract!Cardinality(S) = Cardinality(S)
  BY DEF Abstract!Cardinality, Cardinality

\* The ticks of the clock are natural numbers.
LEMMA TimesAreNat == Times \subseteq Nat
  BY LimiterAssumption DEF Times

-----------------------------------------------------------------------------
\* The slice stays the end of the log when the clock advances ...
LEMMA SuffixLater ==
    ASSUME NEW r \in Seq(Times), NEW l \in Seq(Times), NEW t \in Times,
           Suffix(r, l, t)
    PROVE  Suffix(r, l, t + 1)
<1>1. \A i \in 1 .. Len(l) : l[i] \in Nat
  BY TimesAreNat, ElementOfSeq
<1>2. Len(r) \in Nat /\ Len(l) \in Nat /\ t \in Nat
  BY TimesAreNat
<1>3. ASSUME NEW i \in 1 .. Len(l)
      PROVE  /\ l[i] <= t => l[i] <= t + 1
             /\ l[i] <= t - Window => l[i] <= (t + 1) - Window
  BY <1>1, <1>2, LimiterAssumption
<1>4. \A i \in 1 .. Len(l) - Len(r) : i \in 1 .. Len(l)
  BY <1>2
<1>5. \A i \in 1 .. Len(l) - Len(r) : l[i] <= (t + 1) - Window
  BY <1>3, <1>4 DEF Suffix
<1>6. \A i \in 1 .. Len(l) : l[i] <= t + 1
  BY <1>3 DEF Suffix
<1> QED
  BY <1>5, <1>6 DEF Suffix

\* ... and when an admission prunes it and appends to both.
LEMMA SuffixAdmit ==
    ASSUME now \in Times,
           NEW r \in Seq(Times), NEW l \in Seq(Times), Suffix(r, l, now),
           NEW n \in 0 .. Len(r), Expired(r, n),
           NEW v, Keeps(r, n, v),
           NEW r2, Extends(v, r2, now), NEW l2, Extends(l, l2, now)
    PROVE  Suffix(r2, l2, now)
<1> DEFINE m == Len(l) - Len(r)
<1>1. now \in Times /\ now \in Nat
  BY TimesAreNat
<1>2. /\ Len(r2) = Len(r) - n + 1
      /\ \A i \in 1 .. Len(r) - n : r2[i] = r[n + i]
      /\ r2[Len(r) - n + 1] = now
  BY DEF Keeps, Extends
<1>3. /\ Len(l2) = Len(l) + 1
      /\ \A i \in 1 .. Len(l) : l2[i] = l[i]
      /\ l2[Len(l) + 1] = now
  BY DEF Extends
<1>4. /\ Len(r) \in Nat /\ Len(l) \in Nat /\ n \in Nat /\ n <= Len(r)
      /\ m \in Nat /\ Window \in Nat
  BY LimiterAssumption DEF Suffix
<1>5. \A i \in 1 .. Len(l) : l[i] \in Nat /\ l[i] <= now
  BY TimesAreNat, ElementOfSeq DEF Suffix
<1>6. Len(l2) - Len(r2) = m + n
  BY <1>2, <1>3, <1>4
<1>7. \A i \in 1 .. Len(r2) : r2[i] = l2[m + n + i]
  <2> SUFFICES ASSUME NEW i \in 1 .. Len(r2) PROVE r2[i] = l2[m + n + i]
    OBVIOUS
  <2>1. CASE i <= Len(r) - n
    <3>1. r2[i] = r[n + i] /\ n + i \in 1 .. Len(r)
      BY <1>2, <1>4, <2>1
    <3>2. r[n + i] = l[m + (n + i)]
      BY <3>1 DEF Suffix
    <3>3. m + n + i \in 1 .. Len(l) /\ m + (n + i) = m + n + i
      BY <1>4, <2>1
    <3> QED
      BY <3>1, <3>2, <3>3, <1>3
  <2>2. CASE i = Len(r) - n + 1
    BY <1>2, <1>3, <1>4, <2>2
  <2>3. i <= Len(r) - n \/ i = Len(r) - n + 1
    <3>1. Len(r) - n \in Int /\ i \in Int /\ i <= Len(r) - n + 1
      BY <1>2, <1>4
    <3> QED
      BY <3>1, LastOrBefore
  <2> QED
    BY <2>1, <2>2, <2>3
<1>8. \A i \in 1 .. m + n : l2[i] <= now - Window
  <2> SUFFICES ASSUME NEW i \in 1 .. m + n PROVE l2[i] <= now - Window
    OBVIOUS
  <2>1. i \in 1 .. Len(l) /\ l2[i] = l[i]
    BY <1>3, <1>4
  <2>2. CASE i <= m
    BY <2>1, <2>2, <1>4 DEF Suffix
  <2>3. CASE i > m
    <3>1. i - m \in 1 .. n /\ i - m \in 1 .. Len(r) /\ m + (i - m) = i
      BY <2>3, <1>4
    <3>2. r[i - m] = l[i]
      BY <3>1 DEF Suffix
    <3> QED
      BY <2>1, <3>1, <3>2 DEF Expired
  <2> QED
    BY <2>2, <2>3, <1>4
<1>9. \A i, j \in 1 .. Len(l2) : i <= j => l2[i] <= l2[j]
  <2> SUFFICES ASSUME NEW i \in 1 .. Len(l2), NEW j \in 1 .. Len(l2), i <= j
               PROVE  l2[i] <= l2[j]
    OBVIOUS
  <2>1. CASE j <= Len(l)
    <3>1. i \in 1 .. Len(l) /\ j \in 1 .. Len(l)
      BY <2>1, <1>3, <1>4
    <3> QED
      BY <3>1, <1>3 DEF Suffix
  <2>2. CASE j = Len(l) + 1
    BY <2>2, <1>1, <1>3, <1>4, <1>5
  <2> QED
    BY <1>3, <1>4, <2>1, <2>2
<1>10. \A i \in 1 .. Len(l2) : l2[i] <= now
  BY <1>1, <1>3, <1>4, <1>5
<1>11. Len(l2) - Len(r2) >= 0
  BY <1>4, <1>6
<1> HIDE DEF m
<1> QED
  BY <1>6, <1>7, <1>8, <1>9, <1>10, <1>11 DEF Suffix

\* An admission below the limit keeps the log spaced: what stands MaxRequests
\* before the new entry has expired, whether it was pruned now or long ago.
LEMMA SpacedAdmit ==
    ASSUME now \in Times,
           NEW r \in Seq(Times), NEW l \in Seq(Times), Suffix(r, l, now),
           NEW n \in 0 .. Len(r), Expired(r, n), ~LimitReached(Len(r) - n),
           Spaced(l), NEW l2, Extends(l, l2, now)
    PROVE  Spaced(l2)
<1> DEFINE m == Len(l) - Len(r)
<1>1. now \in Times /\ now \in Nat
  BY TimesAreNat
<1>2. /\ Len(l2) = Len(l) + 1
      /\ \A i \in 1 .. Len(l) : l2[i] = l[i]
      /\ l2[Len(l) + 1] = now
  BY DEF Extends
<1>3. /\ Len(r) \in Nat /\ Len(l) \in Nat /\ n \in Nat /\ n <= Len(r)
      /\ m \in Nat /\ Window \in Nat /\ MaxRequests \in Nat
      /\ Len(r) - n < MaxRequests
  BY LimiterAssumption DEF Suffix, LimitReached
<1>4. SUFFICES ASSUME NEW i \in 1 .. Len(l2), i + MaxRequests <= Len(l2)
               PROVE  l2[i + MaxRequests] - l2[i] >= Window
  BY DEF Spaced
<1>5. CASE i + MaxRequests <= Len(l)
  BY <1>2, <1>3, <1>5 DEF Spaced
<1>6. CASE i + MaxRequests = Len(l) + 1
  <2>1. i \in 1 .. Len(l) /\ i <= m + n
    BY <1>3, <1>6
  <2>2. l2[i + MaxRequests] = now /\ l2[i] = l[i]
    BY <1>2, <1>6, <2>1
  <2>3. l[i] \in Nat
    BY <2>1, TimesAreNat, ElementOfSeq
  <2>4. l[i] <= now - Window
    <3>1. CASE i <= m
      BY <2>1, <3>1, <1>3 DEF Suffix
    <3>2. CASE i > m
      <4>1. i - m \in 1 .. n /\ i - m \in 1 .. Len(r) /\ m + (i - m) = i
        BY <2>1, <3>2, <1>3
      <4> QED
        BY <4>1 DEF Suffix, Expired
    <3> QED
      BY <3>1, <3>2, <1>3
  <2> QED
    BY <1>1, <1>3, <2>2, <2>3, <2>4
<1>7. i + MaxRequests <= Len(l) \/ i + MaxRequests = Len(l) + 1
  <2>1. Len(l) \in Int /\ i + MaxRequests \in Int /\ i + MaxRequests <= Len(l) + 1
    BY <1>2, <1>3, <1>4
  <2> QED
    BY <2>1, LastOrBefore
<1> QED
  BY <1>5, <1>6, <1>7

\* What Allow counts in a slice is what the window covers of its log.
LEMMA CountIsInWindow ==
    ASSUME now \in Times,
           NEW r \in Seq(Times), NEW l \in Seq(Times), Suffix(r, l, now),
           NEW n \in 0 .. Len(r), Expired(r, n)
    PROVE  Cardinality({i \in 1 .. Len(l) : l[i] > now - Window}) = Len(r) - n
<1> DEFINE m == Len(l) - Len(r)
<1>2. /\ Len(r) \in Nat /\ Len(l) \in Nat /\ n \in Nat /\ n <= Len(r)
      /\ m \in Nat /\ Window \in Nat /\ now \in Nat
  BY LimiterAssumption, TimesAreNat DEF Suffix
<1>3. \A i \in 1 .. Len(l) : l[i] \in Nat
  BY TimesAreNat, ElementOfSeq
<1>4. \A i \in 1 .. Len(l) : l[i] > now - Window <=> i > m + n
  <2> SUFFICES ASSUME NEW i \in 1 .. Len(l)
               PROVE  l[i] > now - Window <=> i > m + n
    OBVIOUS
  <2>1. CASE i <= m
    <3>1. l[i] <= now - Window
      BY <2>1, <1>2 DEF Suffix
    <3> QED
      BY <2>1, <3>1, <1>2, <1>3
  <2>2. CASE i > m
    <3>1. i - m \in 1 .. Len(r) /\ m + (i - m) = i
      BY <2>2, <1>2
    <3>2. r[i - m] = l[i]
      BY <3>1 DEF Suffix
    <3>3. CASE i - m <= n
      <4>1. i - m \in 1 .. n
        BY <3>1, <3>3, <1>2
      <4>2. l[i] <= now - Window
        BY <3>2, <4>1 DEF Expired
      <4> QED
        BY <3>3, <4>2, <1>2, <1>3
    <3>4. CASE i - m > n
      <4>1. i - m \in n + 1 .. Len(r)
        BY <3>1, <3>4, <1>2
      <4>2. l[i] > now - Window
        BY <3>2, <4>1 DEF Expired
      <4> QED
        BY <3>4, <4>2, <1>2
    <3> QED
      BY <3>3, <3>4, <1>2
  <2> QED
    BY <2>1, <2>2, <1>2
<1>5. {i \in 1 .. Len(l) : l[i] > now - Window} = m + n + 1 .. Len(l)
  BY <1>2, <1>4
<1>6. Cardinality(m + n + 1 .. Len(l)) =
        IF m + n + 1 > Len(l) THEN 0 ELSE Len(l) - (m + n + 1) + 1
  <2>1. m + n + 1 \in Int /\ Len(l) \in Int
    BY <1>2
  <2> HIDE DEF m
  <2> QED
    BY <2>1, FS_Interval
<1>7. Len(l) - (m + n + 1) + 1 = Len(r) - n /\ m + n <= Len(l)
  BY <1>2
<1>8. m + n + 1 > Len(l) => Len(r) - n = 0
  BY <1>2
<1> HIDE DEF m
<1> QED
  BY <1>5, <1>6, <1>7, <1>8

-----------------------------------------------------------------------------
\* What a call of Allow does, in one of its two outcomes.
Refuses(k) ==
    /\ verdict' = {<<k, FALSE>>}
    /\ UNCHANGED <<now, requests, log>>

Admits(k, n) ==
    /\ requests' = [requests EXCEPT ![k] = Append(Valid(requests[k], n), now)]
    /\ verdict' = {<<k, TRUE>>}
    /\ log' = [log EXCEPT ![k] = Append(@, now)]
    /\ UNCHANGED now

\* A request is one call of Allow for some key: it is refused and changes no slice,
\* or is admitted and appended to the slice without its expired prefix.
LEMMA AllowOutcomes ==
    ASSUME LimiterInv, Request
    PROVE  \E k \in Key, n \in Nat :
              /\ n \in 0 .. Len(requests[k])
              /\ Expired(requests[k], n)
              /\ \/ LimitReached(Len(requests[k]) - n) /\ Refuses(k)
                 \/ ~LimitReached(Len(requests[k]) - n) /\ Admits(k, n)
<1>1. PICK k \in Key : Allow(k)
  BY DEF Request, ClientKey, Key
<1>2. requests[k] \in Seq(Times)
  BY <1>1 DEF LimiterInv, TypeOK
<1>3. PICK n \in 0 .. Len(requests[k]) :
          /\ Expired(requests[k], n)
          /\ \/ LimitReached(Len(Valid(requests[k], n))) /\ Refuses(k)
             \/ /\ ~LimitReached(Len(Valid(requests[k], n)))
                /\ Admits(k, n)
  BY <1>1 DEF Allow, Valid, Refuses, Admits
<1>4. Len(Valid(requests[k], n)) = Len(requests[k]) - n
  BY <1>2, ValidKeeps DEF Keeps
<1> QED
  BY <1>1, <1>3, <1>4

\* Every step, a tick or a request, preserves the inductive invariant.
LEMMA InvStep ==
    ASSUME LimiterInv, [Next]_vars
    PROVE  LimiterInv'
<1> USE DEF LimiterInv
<1>1. CASE Tick
  <2>1. TypeOK'
    BY <1>1, LimiterAssumption DEF Tick, TypeOK, RetainedBound, Times
  <2>2. SuffixOfLog'
    BY <1>1, SuffixLater DEF Tick, TypeOK, SuffixOfLog
  <2> QED
    BY <1>1, <2>1, <2>2 DEF Tick, WindowBound, Spaced
<1>2. CASE Request
  <2>1. PICK k \in Key, n \in Nat :
            /\ n \in 0 .. Len(requests[k])
            /\ Expired(requests[k], n)
            /\ \/ LimitReached(Len(requests[k]) - n) /\ Refuses(k)
               \/ ~LimitReached(Len(requests[k]) - n) /\ Admits(k, n)
    BY <1>2, AllowOutcomes
  <2>2. CASE Refuses(k)
    <3>1. TypeOK'
      <4>1. <<k, FALSE>> \in Key \X BOOLEAN
        OBVIOUS
      <4>2. verdict' \in SUBSET (Key \X BOOLEAN)
        BY <2>2, <4>1 DEF Refuses
      <4> QED
        BY <2>2, <4>2 DEF Refuses, TypeOK, RetainedBound
    <3>2. (SuffixOfLog /\ WindowBound)'
      BY <2>2 DEF Refuses, SuffixOfLog, Suffix, WindowBound, Spaced
    <3> QED
      BY <3>1, <3>2
  <2>3. CASE ~LimitReached(Len(requests[k]) - n) /\ Admits(k, n)
    <3>1. /\ requests[k] \in Seq(Times) /\ log[k] \in Seq(Times)
          /\ now \in Times
      BY DEF TypeOK
    <3> DEFINE v  == Valid(requests[k], n)
               r2 == Append(v, now)
               l2 == Append(log[k], now)
    <3>2. /\ Keeps(requests[k], n, v) /\ v \in Seq(Times)
          /\ Extends(v, r2, now)
          /\ Extends(log[k], l2, now)
      <4>1. Keeps(requests[k], n, v)
        BY <2>1, <3>1, ValidKeeps
      <4>2. v \in Seq(Times)
        BY <4>1 DEF Keeps
      <4> QED
        BY <3>1, <4>1, <4>2, AppendExtends
    <3>0. /\ requests' = [requests EXCEPT ![k] = r2]
          /\ log' = [log EXCEPT ![k] = l2]
          /\ verdict' = {<<k, TRUE>>}
          /\ now' = now
      BY <2>3 DEF Admits
    <3> HIDE DEF v, r2, l2
    <3>3. RetainedBound'
      <4>1. Len(r2) = Len(requests[k]) - n + 1 /\ Len(requests[k]) \in Nat
        BY <3>1, <3>2 DEF Keeps, Extends
      <4>2. Len(r2) <= MaxRequests
        BY <2>1, <2>3, <4>1, LimiterAssumption DEF LimitReached
      <4> QED
        BY <3>0, <4>2 DEF RetainedBound, TypeOK
    <3>4. TypeOK'
      <4>1. r2 \in Seq(Times) /\ l2 \in Seq(Times)
        BY <3>2 DEF Extends
      <4>2. verdict' \in SUBSET (Key \X BOOLEAN)
        <5>1. <<k, TRUE>> \in Key \X BOOLEAN
          OBVIOUS
        <5> QED
          BY <5>1, <3>0
      <4> QED
        BY <3>0, <3>3, <4>1, <4>2 DEF TypeOK
    <3>5. SuffixOfLog'
      <4>1. Suffix(r2, l2, now)
        BY <2>1, <3>1, <3>2, SuffixAdmit DEF SuffixOfLog
      <4> QED
        BY <3>0, <4>1 DEF SuffixOfLog, TypeOK
    <3>6. WindowBound'
      <4>1. Spaced(l2)
        BY <2>1, <2>3, <3>1, <3>2, SpacedAdmit DEF SuffixOfLog, WindowBound
      <4> QED
        BY <3>0, <4>1 DEF WindowBound, TypeOK
    <3> QED
      BY <3>4, <3>5, <3>6
  <2> QED
    BY <2>1, <2>2, <2>3
<1>3. CASE UNCHANGED vars
  BY <1>3
  DEF vars, TypeOK, RetainedBound, SuffixOfLog, Suffix, WindowBound, Spaced
<1> QED
  BY <1>1, <1>2, <1>3 DEF Next

\* LimiterInv holds in every reachable state: what Allow has pruned from a slice
\* had expired, so the slice suffices to enforce the limit on the whole log.
THEOREM LimiterInvariant == Spec => []LimiterInv
<1>1. Init => LimiterInv
  <2> SUFFICES ASSUME Init PROVE LimiterInv
    OBVIOUS
  <2>1. <<>> \in Seq(Times) /\ Len(<<>>) = 0
    OBVIOUS
  <2>2. TypeOK
    BY <2>1, LimiterAssumption DEF Init, TypeOK, RetainedBound, Times
  <2>3. SuffixOfLog
    BY <2>1 DEF Init, SuffixOfLog, Suffix
  <2>4. WindowBound
    BY <2>1, LimiterAssumption DEF Init, WindowBound, Spaced
  <2> QED
    BY <2>2, <2>3, <2>4 DEF LimiterInv
<1>2. LimiterInv /\ [Next]_vars => LimiterInv'
  BY InvStep
<1> QED
  BY <1>1, <1>2, PTL DEF Spec

\* No window of any key ever holds more than MaxRequests admitted requests.
THEOREM LimitHoldsInEveryWindow == Spec => []WindowBound
<1>1. LimiterInv => WindowBound
  BY DEF LimiterInv
<1> QED
  BY <1>1, LimiterInvariant, PTL

\* Slices and logs hold timestamps, and no slice more than MaxRequests of them.
THEOREM LimiterTypes == Spec => []TypeOK
<1>1. LimiterInv => TypeOK
  BY DEF LimiterInv
<1> QED
  BY <1>1, LimiterInvariant, PTL

\* The limiter implements the sliding window: it admits a request if and only
\* if fewer than MaxRequests admissions of its key are in the window.
THEOREM LimiterRefinesSlidingWindow == Spec => ImplementsSlidingWindow
<1>1. Init => Abstract!Init
  BY DEF Init, Abstract!Init
<1>2. LimiterInv /\ [Next]_vars => [Abstract!Next]_(Abstract!vars)
  <2> SUFFICES ASSUME LimiterInv, [Next]_vars
               PROVE  [Abstract!Next]_(Abstract!vars)
    OBVIOUS
  <2>1. CASE Tick
    BY <2>1 DEF Tick, Abstract!Next, Abstract!Tick
  <2>2. ASSUME Request
        PROVE  Abstract!Next
    <3>1. PICK k \in Key, n \in Nat :
              /\ n \in 0 .. Len(requests[k])
              /\ Expired(requests[k], n)
              /\ \/ LimitReached(Len(requests[k]) - n) /\ Refuses(k)
                 \/ ~LimitReached(Len(requests[k]) - n) /\ Admits(k, n)
      BY <2>2, AllowOutcomes
    <3>2. Abstract!Cardinality(Abstract!InWindow(k)) = Len(requests[k]) - n
      <4>1. /\ requests[k] \in Seq(Times) /\ log[k] \in Seq(Times)
            /\ Suffix(requests[k], log[k], now)
        BY DEF LimiterInv, TypeOK, SuffixOfLog
      <4> QED
        BY <3>1, <4>1, CountIsInWindow, SameCardinality
        DEF LimiterInv, TypeOK, Abstract!InWindow
    <3>3. CASE LimitReached(Len(requests[k]) - n) /\ Refuses(k)
      BY <3>2, <3>3
      DEF LimitReached, Refuses, Abstract!Refuse, Abstract!Next
    <3>4. CASE ~LimitReached(Len(requests[k]) - n) /\ Admits(k, n)
      <4>1. Len(requests[k]) \in Nat
        BY DEF LimiterInv, TypeOK
      <4>2. Abstract!Cardinality(Abstract!InWindow(k)) < MaxRequests
        BY <3>2, <3>4, <4>1, LimiterAssumption DEF LimitReached
      <4>3. Abstract!Admit(k)
        BY <3>4, <4>2 DEF Admits, Abstract!Admit
      <4> QED
        BY <4>3 DEF Abstract!Next
    <3> QED
      BY <3>1, <3>3, <3>4
  <2>3. CASE UNCHANGED vars
    BY <2>3 DEF vars, Abstract!vars
  <2> QED
    BY <2>1, <2>2, <2>3 DEF Next
<1> QED
  BY <1>1, <1>2, LimiterInvariant, PTL
  DEF Spec, ImplementsSlidingWindow, Abstract!Spec
=============================================================================
