------------------------------- MODULE MCAuth -------------------------------
(* A small instance of Auth: two people, two addresses, two passwords, two    *)
(* requests at a time.                                                        *)
EXTENDS Auth, TLC

CONSTANTS ann, bob, mailA, mailB, x, y, p1, p2

Symmetry == Permutations(Proc) \cup Permutations(Password)
========================================================================
