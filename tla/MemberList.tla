----------------------------- MODULE MemberList -----------------------------
(***************************************************************************)
(* The members of a chat travel from PostgreSQL to the service as the text *)
(* of an array: ARRAY_AGG writes it, the repository takes it apart again   *)
(* with strings.Trim and strings.Split.  A name is a sequence of           *)
(* characters here, for the two sides do not agree on every name.          *)
(***************************************************************************)
EXTENDS Naturals, SequencesExt

\* The database (array_out of PostgreSQL): an element is put in quotes if it
\* is empty, reads NULL, or has a character that the text of an array uses or a
\* blank; quotes and backslashes get a backslash.
Blank == {" ", "\t", "\n", "\r", "\f", "VT"}
InQuotes == {",", "{", "}", "\"", "\\"} \cup Blank

ReadsNull(name) ==
    /\ Len(name) = 4
    /\ name[1] \in {"n", "N"} /\ name[2] \in {"u", "U"}
    /\ name[3] \in {"l", "L"} /\ name[4] \in {"l", "L"}

Plain(name) ==
    /\ name # <<>>
    /\ ~ReadsNull(name)
    /\ \A i \in 1 .. Len(name) : name[i] \notin InQuotes

Escaped(name) ==
    FlattenSeq([i \in 1 .. Len(name) |->
        IF name[i] \in {"\"", "\\"} THEN <<"\\", name[i]>> ELSE <<name[i]>>])

Element(name) ==
    IF Plain(name) THEN name ELSE <<"\"">> \o Escaped(name) \o <<"\"">>

\* The text of ARRAY_AGG over the names in the order of the list.
ArrayText(list) ==
    <<"{">> \o FlattenSeq([i \in 1 .. Len(list) |->
                   IF i = 1 THEN Element(list[i]) ELSE <<",">> \o Element(list[i])])
            \o <<"}">>

\* strings.Trim(text, "{}").
TrimBraces(text) ==
    LET kept == {i \in 1 .. Len(text) : text[i] \notin {"{", "}"}}
    IN IF kept = {} THEN <<>>
       ELSE SubSeq(text, CHOOSE i \in kept : \A j \in kept : i <= j,
                         CHOOSE i \in kept : \A j \in kept : i >= j)

\* strings.Split(text, ",").
SplitAtCommas(text) ==
    FoldLeft(LAMBDA fields, ch :
                 IF ch = "," THEN Append(fields, <<>>)
                 ELSE [fields EXCEPT ![Len(fields)] = Append(@, ch)],
             << <<>> >>, text)

\* chat.Members: the names the repository reads from the text.
Members(text) ==
    LET inner == TrimBraces(text)
    IN IF inner = <<>> THEN <<>> ELSE SplitAtCommas(inner)

\* The names read where the database wrote this one: himself if it is plain.
ReadAs(name) ==
    IF Plain(name) THEN {name} ELSE ToSet(SplitAtCommas(Element(name)))
=============================================================================
