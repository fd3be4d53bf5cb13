------------------------------- MODULE ChatLog -------------------------------
(***************************************************************************)
(* What the chat service promises its users, with no processes, queries or *)
(* failures: a chat appears with all its members at once, only those whom  *)
(* the list of its members names post in it or delete it, and with a       *)
(* deleted chat all its messages are gone for ever.                        *)
(*                                                                         *)
(* A name may be read as other names: Pieces.  In a chat whose members all *)
(* have names that read as themselves, the members alone post and delete.  *)
(***************************************************************************)
EXTENDS Naturals

CONSTANTS User, ChatId, MessageId, Pieces

VARIABLES
    alive,    \* the chats there are
    gone,     \* the chats that were deleted
    members,  \* the members of each chat, {} unless it is alive
    posts     \* the messages that can be read

vars == <<alive, gone, members, posts>>

\* Whom the list of the members of k names.
NamedIn(k) == UNION {Pieces[u] : u \in members[k]}

Init ==
    /\ alive = {}
    /\ gone = {}
    /\ members = [k \in ChatId |-> {}]
    /\ posts = {}

\* A group of at least two users gets a new chat.
Create(k, group) ==
    /\ k \notin alive \cup gone
    /\ \E u, w \in group : u # w
    /\ alive' = alive \cup {k}
    /\ members' = [members EXCEPT ![k] = group]
    /\ UNCHANGED <<gone, posts>>

Post(k, u, n) ==
    /\ k \in alive
    /\ u \in NamedIn(k)
    /\ \A m \in posts : m.id # n
    /\ posts' = posts \cup {[id |-> n, chat |-> k, sender |-> u]}
    /\ UNCHANGED <<alive, gone, members>>

Delete(k, u) ==
    /\ k \in alive
    /\ u \in NamedIn(k)
    /\ alive' = alive \ {k}
    /\ gone' = gone \cup {k}
    /\ members' = [members EXCEPT ![k] = {}]
    /\ posts' = {m \in posts : m.chat # k}

Next ==
    \E k \in ChatId :
        \/ \E group \in SUBSET User : Create(k, group)
        \/ \E u \in User : Delete(k, u)
        \/ \E u \in User, n \in MessageId : Post(k, u, n)

Spec == Init /\ [][Next]_vars
=============================================================================
