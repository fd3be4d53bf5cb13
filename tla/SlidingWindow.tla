---------------------------- MODULE SlidingWindow ----------------------------
(***************************************************************************)
(* What a sliding-window rate limiter promises: a request is admitted      *)
(* exactly when fewer than MaxRequests requests with the same key were     *)
(* admitted during the last Window units of time.                          *)
(***************************************************************************)
EXTENDS Integers, Sequences, FiniteSets

CONSTANTS
    Key,          \* what requests are counted by
    MaxRequests,  \* requests admitted per window
    Window        \* length of the window

VARIABLES
    now,     \* the clock
    log,     \* per key, when each admitted request was admitted
    verdict  \* {} or {<<key, answer>>}: the last request at the present time

vars == <<now, log, verdict>>

\* The admissions of key k that the window still covers.
InWindow(k) == {i \in 1 .. Len(log[k]) : log[k][i] > now - Window}

Init ==
    /\ now = 0
    /\ log = [k \in Key |-> <<>>]
    /\ verdict = {}

Tick ==
    /\ now' = now + 1
    /\ verdict' = {}
    /\ UNCHANGED log

Admit(k) ==
    /\ Cardinality(InWindow(k)) < MaxRequests
    /\ log' = [log EXCEPT ![k] = Append(@, now)]
    /\ verdict' = {<<k, TRUE>>}
    /\ UNCHANGED now

Refuse(k) ==
    /\ Cardinality(InWindow(k)) >= MaxRequests
    /\ verdict' = {<<k, FALSE>>}
    /\ UNCHANGED <<now, log>>

Next == Tick \/ \E k \in Key : Admit(k) \/ Refuse(k)

Spec == Init /\ [][Next]_vars
=============================================================================
