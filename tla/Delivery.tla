------------------------------ MODULE Delivery ------------------------------
(***************************************************************************)
(* What the hub promises, with no rooms, buffers or goroutines: each chat  *)
(* has one sequence of messages, a user is in some chats, and the one      *)
(* connection that serves him enters each of them at its end and goes      *)
(* through it message by message, until it is out of the hub, for good.    *)
(***************************************************************************)
EXTENDS Naturals

CONSTANTS User, Client, Owner, Chat

VARIABLES
    posted,  \* how many messages a chat has
    member,  \* the chats a user is in
    stage,   \* a connection is "new", "in" service or "out"
    taken    \* the last message of a chat that a connection in service has taken

vars == <<posted, member, stage, taken>>

Follows(c) == IF stage[c] = "in" THEN member[Owner[c]] ELSE {}

Init ==
    /\ posted = [k \in Chat |-> 0]
    /\ member = [u \in User |-> {}]
    /\ stage = [c \in Client |-> "new"]
    /\ taken = [c \in Client |-> [k \in Chat |-> 0]]

\* The next message of the chat.
Post(k) ==
    /\ posted' = [posted EXCEPT ![k] = @ + 1]
    /\ UNCHANGED <<member, stage, taken>>

\* The connection takes over from an older one of the user, if there is one.
Register(c) ==
    /\ stage[c] = "new"
    /\ stage' = [d \in Client |->
                    IF d = c THEN "in"
                    ELSE IF Owner[d] = Owner[c] /\ stage[d] = "in" THEN "out" ELSE stage[d]]
    /\ taken' = [d \in Client |-> [k \in Chat |->
                    IF Owner[d] # Owner[c] THEN taken[d][k]
                    ELSE IF d = c /\ k \in member[Owner[c]] THEN posted[k] ELSE 0]]
    /\ UNCHANGED <<posted, member>>

\* What was posted before is not delivered, whatever comes now is.
Join(u, k) ==
    /\ k \notin member[u]
    /\ member' = [member EXCEPT ![u] = @ \cup {k}]
    /\ taken' = [c \in Client |-> IF Owner[c] = u /\ stage[c] = "in"
                                  THEN [taken[c] EXCEPT ![k] = posted[k]] ELSE taken[c]]
    /\ UNCHANGED <<posted, stage>>

Take(c, k) ==
    /\ k \in Follows(c)
    /\ taken[c][k] < posted[k]
    /\ taken' = [taken EXCEPT ![c][k] = @ + 1]
    /\ UNCHANGED <<posted, member, stage>>

\* The user loses his connection, and no chat unless he loses it.
Part(u, gone) ==
    /\ member' = [member EXCEPT ![u] = @ \ gone]
    /\ stage' = [c \in Client |-> IF Owner[c] = u /\ stage[c] = "in" THEN "out" ELSE stage[c]]
    /\ taken' = [c \in Client |-> IF Owner[c] = u THEN [k \in Chat |-> 0] ELSE taken[c]]
    /\ UNCHANGED posted

Next ==
    \/ \E k \in Chat : Post(k)
    \/ \E c \in Client : Register(c) \/ \E k \in Chat : Take(c, k)
    \/ \E u \in User : \/ \E k \in Chat : Join(u, k)
                       \/ \E gone \in SUBSET Chat : Part(u, gone)

Spec == Init /\ [][Next]_vars
=============================================================================
