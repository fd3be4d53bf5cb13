----------------------------- MODULE MCChatReads -----------------------------
(* A small instance of ChatReads: two plain names and one that contains one   *)
(* of them between commas; limits below, at and above the greatest.  Lists of *)
(* more names are checked by the assumption alone.                            *)
EXTENDS ChatReads

MCUser == {<<"a">>, <<"b">>, <<",", "a", ",">>}
MCGroups == {{<<"a">>, <<"b">>}, {<<"b">>, <<",", "a", ",">>}}
MCAsked == {None, 1, 3}

\* Every list of up to three names comes back as the names that are read for
\* each of them, the plain ones as themselves.
Names == {<<"a">>, <<"a", "b">>, <<>>, <<",">>, <<"a", ",", "b">>,
          <<"{", "a", "}">>, <<"\"">>, <<"a", "\\">>, <<"a", " ">>,
          <<"n", "u", "L", "l">>}
ASSUME ListsComeBackNameByName ==
    \A list \in UNION {[1 .. n -> Names] : n \in 0 .. 3} :
        LET read == Members(ArrayText(list))
        IN /\ ToSet(read) = UNION {ReadAs(list[i]) : i \in DOMAIN list}
           /\ (\A i \in DOMAIN list : Plain(list[i])) => read = list
=============================================================================
