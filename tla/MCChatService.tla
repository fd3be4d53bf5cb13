---------------------------- MODULE MCChatService ----------------------------
(* Small instances of ChatService: two plain names, and one that the text of  *)
(* the array turns into both of them and two others (x,a,b,y).                *)
EXTENDS ChatService, TLC

CONSTANTS ann, bob, eve, other, p1, p2

M == INSTANCE MemberList

MCUser == {ann, bob, eve}
MCName == MCUser \cup {other}

Spelling == ann :> <<"a">> @@ bob :> <<"b">>
         @@ eve :> <<"x", ",", "a", ",", "b", ",", "y">>

MCPieces == ann :> {ann} @@ bob :> {bob} @@ eve :> {ann, bob, other}

\* These are the pieces that MemberList gives.
UserNamed(read) == {u \in MCUser : Spelling[u] = read}
ASSUME PiecesAreThoseOfTheText ==
    \A u \in MCUser :
        LET read == M!Members(M!ArrayText(<<Spelling[u]>>))
        IN MCPieces[u] = UNION {IF UserNamed(read[i]) = {} THEN {other}
                                ELSE UserNamed(read[i]) : i \in 1 .. Len(read)}

\* Goroutines are interchangeable, and so are the plain users, who are alike in
\* Pieces: no operator chooses among them, and every property is an invariant
\* or about one step (ChatLog's Spec has no fairness).
Symmetry == Permutations({ann, bob}) \cup Permutations(Proc)
=============================================================================
