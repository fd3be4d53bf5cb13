---------------------------- MODULE RateLimiter ----------------------------
(***************************************************************************)
(* The rate limiter in front of every route of /api: getClientIP chooses   *)
(* the key of a request, RateLimiter.Allow (atomic: it holds the mutex)    *)
(* keeps one slice of timestamps per key.                                  *)
(***************************************************************************)
EXTENDS Integers, Sequences

CONSTANTS
    RemoteAddr,   \* addresses with port, one per TCP connection
    Header,       \* what clients put into X-Forwarded-For, any text
    None,         \* no such header, or an empty one
    MaxRequests,  \* ratelimit.maxrequests (a negative value acts as 0)
    Window,       \* ratelimit.window, in ticks of the clock
    MaxTime       \* bound: last tick

ASSUME LimiterAssumption ==
    /\ None \notin Header
    /\ MaxRequests \in Nat
    /\ Window \in Nat
    /\ MaxTime \in Nat

VARIABLES
    now,       \* time.Now()
    requests,  \* RateLimiter.requests: key -> timestamps ("absent" is <<>>)
    verdict,   \* {} or {<<key, answer>>}: the last call of Allow since the tick
    log        \* history: per key, when each admitted request was admitted

vars == <<now, requests, verdict, log>>

Key == RemoteAddr \cup Header

Times == 0 .. MaxTime

\* The memory of a key is bounded, refusals never grow it.
RetainedBound == \A k \in Key : Len(requests[k]) <= MaxRequests

TypeOK ==
    /\ now \in Times
    /\ requests \in [Key -> Seq(Times)]
    /\ verdict \in SUBSET (Key \X BOOLEAN)
    /\ log \in [Key -> Seq(Times)]
    /\ RetainedBound

Init ==
    /\ now = 0
    /\ requests = [k \in Key |-> <<>>]
    /\ verdict = {}
    /\ log = [k \in Key |-> <<>>]

Tick ==
    /\ now < MaxTime
    /\ now' = now + 1
    /\ verdict' = {}
    /\ UNCHANGED <<requests, log>>

\* getClientIP: the header as the client sent it if there is one, else the address.
ClientKey(remoteAddr, forwardedFor) ==
    IF forwardedFor # None THEN forwardedFor ELSE remoteAddr

\* What sort.Search finds in the sorted slice s: the first n timestamps are
\* not After(windowStart), the others are.  (Variants for the checks: a
\* timestamp as old as the window is kept; once the oldest has expired, all go,
\* as if the window were fixed.)
ExpiredStrictly(s, n) ==
    /\ \A i \in 1 .. n : s[i] < now - Window
    /\ \A i \in n + 1 .. Len(s) : s[i] >= now - Window
FixedWindow(s, n) ==
    n = IF s # <<>> /\ s[1] <= now - Window THEN Len(s) ELSE 0
Expired(s, n) ==
    /\ \A i \in 1 .. n : s[i] <= now - Window
    /\ \A i \in n + 1 .. Len(s) : s[i] > now - Window

\* The test against the limit.  (Variant for the checks: off by one.)
OneMore(count) == count > MaxRequests
LimitReached(count) == count >= MaxRequests

\* One call of Allow for key k.  A refusal leaves the slice as it was, expired
\* timestamps included.
Allow(k) ==
    \E n \in 0 .. Len(requests[k]) :
        /\ Expired(requests[k], n)
        /\ LET valid == SubSeq(requests[k], n + 1, Len(requests[k])) IN
              \/ /\ LimitReached(Len(valid))
                 /\ verdict' = {<<k, FALSE>>}
                 /\ UNCHANGED <<requests, log>>
              \/ /\ ~LimitReached(Len(valid))
                 /\ requests' = [requests EXCEPT ![k] = Append(valid, now)]
                 /\ verdict' = {<<k, TRUE>>}
                 /\ log' = [log EXCEPT ![k] = Append(@, now)]
        /\ UNCHANGED now

\* A request of some connection goes through RateLimitMiddleware.
Request ==
    \E from \in RemoteAddr, forwardedFor \in Header \cup {None} :
        Allow(ClientKey(from, forwardedFor))

Next == Tick \/ Request

Spec == Init /\ [][Next]_vars

-----------------------------------------------------------------------------
\* Any MaxRequests + 1 admissions of the sequence l take at least a Window.
Spaced(l) ==
    \A i \in 1 .. Len(l) :
        i + MaxRequests <= Len(l) => l[i + MaxRequests] - l[i] >= Window

\* No MaxRequests + 1 admitted requests of one key lie in a window: however
\* pruning, refusals and the clock interleave, the limit holds at any time and
\* not only at multiples of the window.  The key is all that is limited: one
\* client may use several, and several clients one.
WindowBound == \A k \in Key : Spaced(log[k])

\* The slice r is the end of the sorted log l, and what is missing had expired
\* by time t.
Suffix(r, l, t) ==
    LET m == Len(l) - Len(r)
    IN /\ m >= 0
       /\ \A i \in 1 .. Len(r) : r[i] = l[m + i]
       /\ \A i \in 1 .. m : l[i] <= t - Window
       /\ \A i, j \in 1 .. Len(l) : i <= j => l[i] <= l[j]
       /\ \A i \in 1 .. Len(l) : l[i] <= t

\* The inductive invariant behind WindowBound and the refinement: pruning has
\* forgotten nothing that the window still covers.
SuffixOfLog == \A k \in Key : Suffix(requests[k], log[k], now)

\* The limiter implements the abstract sliding window.
Abstract == INSTANCE SlidingWindow
ImplementsSlidingWindow == Abstract!Spec
=============================================================================
