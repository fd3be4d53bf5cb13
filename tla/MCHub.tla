------------------------------- MODULE MCHub -------------------------------
(* Small instances of Hub: users ann and bob, connections a1, a2 of ann     *)
(* and b1 of bob.                                                           *)
EXTENDS Hub, TLC

CONSTANTS ann, bob, a1, a2, b1, h1, h2

\* The user of each connection, restricted to the connections of the instance.
MCOwner == [c \in Client |-> IF c = b1 THEN bob ELSE ann]

\* The connections of ann can be exchanged: no operator prefers one of them.
Symmetry == Permutations({a1, a2})
=============================================================================
