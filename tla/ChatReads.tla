------------------------------ MODULE ChatReads ------------------------------
(***************************************************************************)
(* The operations of the chat service that only read, GetUserChats and     *)
(* GetChatMessages, beside the statements that change what they read: the  *)
(* transaction of CreateChat, INSERT INTO messages, DELETE FROM chats.     *)
(*                                                                         *)
(* A query is one snapshot.  CURRENT_TIMESTAMP is the time at which the    *)
(* transaction of a statement began, so that a row may become visible      *)
(* after a row with a later timestamp, and several rows may share one.     *)
(* Who sent a message and what it says make no difference here.            *)
(***************************************************************************)
EXTENDS MemberList, FiniteSets

CONSTANTS
    User,         \* names of registered users, sequences of characters
    Groups,       \* bound: the sets of members that chats are created for
    ChatId,       \* ids of chats
    None,         \* a query parameter that is absent or not a number; nil
    DefaultLimit, \* 50 in the code
    MaxLimit,     \* 100 in the code
    Asked,        \* the limits that clients ask for
    MaxMessages,  \* bound: messages inserted
    MaxTime       \* bound: ticks of the clock of the database

ASSUME ReadsAssumption ==
    /\ ChatId \subseteq Nat
    /\ Groups \subseteq SUBSET User
    /\ DefaultLimit \in Nat \ {0}
    /\ MaxLimit \in Nat
    /\ DefaultLimit <= MaxLimit
    /\ Asked \subseteq Int \cup {None}
    /\ None \notin Int
    /\ MaxMessages \in Nat
    /\ MaxTime \in Nat

VARIABLES
    now,       \* the clock of the database
    joined,    \* table chat_participants
    messages,  \* table messages
    txs,       \* the open transactions of CreateChat
    used,      \* ids that chats have had
    inserting, \* INSERTs of messages that are under way
    started,   \* number of INSERTs so far
    reader     \* a client that pages through the messages of a chat, or None

vars == <<now, joined, messages, txs, used, inserting, started, reader>>

Row == [chat : ChatId, user : User, at : Nat]
Message == [id : Nat, chat : ChatId, at : Nat]

Chats == {r.chat : r \in joined}
Participants(k) == {r.user : r \in {x \in joined : x.chat = k}}
MessagesOf(k) == {m \in messages : m.chat = k}

TypeOK ==
    /\ now \in 0 .. MaxTime
    /\ joined \subseteq Row
    /\ messages \subseteq Message
    /\ txs \subseteq [chat : ChatId, at : Nat, todo : SUBSET User,
                       rows : SUBSET Row]
    /\ used \subseteq ChatId
    /\ inserting \subseteq Message
    /\ started \in 0 .. MaxMessages
    /\ reader = None \/ reader \in [chat : ChatId, asked : Asked, first : SUBSET Message,
                                    seen : SUBSET Message, received : Nat,
                                    page : 0 .. MaxLimit, state : {"more", "end"}]

Init ==
    /\ now = 0
    /\ joined = {}
    /\ messages = {}
    /\ txs = {}
    /\ used = {}
    /\ inserting = {}
    /\ started = 0
    /\ reader = None

Tick ==
    /\ now < MaxTime
    /\ now' = now + 1
    /\ UNCHANGED <<joined, messages, txs, used, inserting, started, reader>>

-----------------------------------------------------------------------------
(* CreateChat and DeleteChat.                                              *)

\* BEGIN, and the row of chats under the next id; the service has found two
\* members or more.
BeginChat ==
    /\ \E k \in ChatId \ used, group \in Groups :
          /\ \A j \in ChatId \ used : k <= j
          /\ Cardinality(group) >= 2
          /\ txs' = txs \cup {[chat |-> k, at |-> now, todo |-> group, rows |-> {}]}
          /\ used' = used \cup {k}
    /\ UNCHANGED <<now, joined, messages, inserting, started, reader>>

\* joined_at, the time of the transaction.  (Variant for the checks: every row
\* is inserted in a transaction of its own.)
TimeOfStatement(tx) == now
TimeOfTransaction(tx) == tx.at

InsertParticipant ==
    /\ \E tx \in txs : \E u \in tx.todo :
          LET row == [chat |-> tx.chat, user |-> u, at |-> TimeOfTransaction(tx)]
          IN txs' = (txs \ {tx}) \cup
                       {[tx EXCEPT !.todo = @ \ {u}, !.rows = @ \cup {row}]}
    /\ UNCHANGED <<now, joined, messages, used, inserting, started, reader>>

CommitChat ==
    /\ \E tx \in txs :
          /\ tx.todo = {}
          /\ joined' = joined \cup tx.rows
          /\ txs' = txs \ {tx}
    /\ UNCHANGED <<now, messages, used, inserting, started, reader>>

\* The participants and the messages go with the chat.
DeleteChat(k) ==
    /\ k \in Chats
    /\ joined' = {r \in joined : r.chat # k}
    /\ messages' = {m \in messages : m.chat # k}
    /\ UNCHANGED <<now, txs, used, inserting, started, reader>>

-----------------------------------------------------------------------------
(* Who is a member: GetChatByID and the loops of the service.              *)

\* chat.Members for a set of participants, as the repository reads it from the
\* text of ARRAY_AGG, whose order is open.
Lists(names) == {Members(ArrayText(list)) : list \in SetToSeqs(names)}

\* isMember.  (Variant for the checks: the loop ends with the first member.)
IsFirstMember(u, list) == list # <<>> /\ u = list[1]
IsMember(u, list) == u \in ToSet(list)

\* SendMessage has found the sender among the members; its INSERT begins.
StartInsert(k) ==
    /\ started < MaxMessages
    /\ \E u \in User, list \in Lists(Participants(k)) : IsMember(u, list)
    /\ started' = started + 1
    /\ inserting' = inserting \cup {[id |-> started, chat |-> k, at |-> now]}
    /\ UNCHANGED <<now, joined, messages, txs, used, reader>>

\* The row becomes visible, or is refused because its chat is gone.
EndInsert ==
    /\ \E m \in inserting :
          /\ inserting' = inserting \ {m}
          /\ messages' = IF m.chat \in Chats THEN messages \cup {m} ELSE messages
    /\ UNCHANGED <<now, joined, txs, used, started, reader>>

-----------------------------------------------------------------------------
(* GetUserChats.                                                           *)

\* A participant is shown an entry for each group of rows that have the id of his
\* chat and one joined_at; its members are one of Lists(users).
Grouped(k) ==
    {[at |-> r.at, users |-> {x.user : x \in {y \in joined : y.chat = k /\ y.at = r.at}}] :
         r \in {x \in joined : x.chat = k}}

-----------------------------------------------------------------------------
(* GetChatMessages.                                                        *)

\* The limit that the handler, then the service, make of the parameter.
\* (Variants for the checks: a limit that is too large is served, or gives the
\* default.)
Unclamped(asked) == IF asked # None /\ asked > 0 THEN asked ELSE DefaultLimit
DefaultIfLarge(asked) ==
    IF asked # None /\ asked > 0 /\ asked <= MaxLimit THEN asked ELSE DefaultLimit
Limit(asked) ==
    LET given == IF asked # None /\ asked > 0 THEN asked ELSE DefaultLimit
    IN IF given > MaxLimit THEN MaxLimit ELSE given

\* The offset likewise.  (Variant for the checks: it is capped like the limit.)
CappedOffset(asked) == IF asked = None \/ asked < 0 THEN 0 ELSE Limit(asked)
Offset(asked) == IF asked = None \/ asked < 0 THEN 0 ELSE asked

\* top is what comes first in the n newest of the rows; among equal timestamps
\* the database may choose, and choose again in the next query.
Newest(top, rows, n) ==
    /\ top \subseteq rows
    /\ Cardinality(top) = IF n <= Cardinality(rows) THEN n ELSE Cardinality(rows)
    /\ \A m \in top, x \in rows \ top : m.at >= x.at

\* The possible results of ORDER BY created_at DESC LIMIT limit OFFSET offset.
Pages(rows, limit, offset) ==
    UNION {{below \ above : above \in {top \in SUBSET below : Newest(top, rows, offset)}} :
              below \in {top \in SUBSET rows : Newest(top, rows, offset + limit)}}

\* A client asks for the first page of a chat.
FirstPage(k) ==
    /\ reader = None
    /\ \E asked \in Asked :
       \E page \in Pages(MessagesOf(k), Limit(asked), Offset(None)) :
          reader' = [chat |-> k, asked |-> asked, first |-> MessagesOf(k),
                     seen |-> page, received |-> Cardinality(page),
                     page |-> Cardinality(page), state |-> "more"]
    /\ UNCHANGED <<now, joined, messages, txs, used, inserting, started>>

\* What a client that knows the documented limits takes for a full page.
FullPage(asked) ==
    IF asked = None \/ asked <= 0 THEN DefaultLimit
    ELSE IF asked <= MaxLimit THEN asked ELSE MaxLimit

\* It asks for what follows the messages it has received.
NextPage ==
    /\ reader # None
    /\ reader.state = "more"
    /\ reader.page = FullPage(reader.asked)
    /\ \E page \in Pages(MessagesOf(reader.chat), Limit(reader.asked),
                         Offset(reader.received)) :
          reader' = [reader EXCEPT !.seen = @ \cup page,
                                   !.received = @ + Cardinality(page),
                                   !.page = Cardinality(page)]
    /\ UNCHANGED <<now, joined, messages, txs, used, inserting, started>>

\* A page that is not full was the last.
LastPage ==
    /\ reader # None
    /\ reader.state = "more"
    /\ reader.page < FullPage(reader.asked)
    /\ reader' = [reader EXCEPT !.state = "end"]
    /\ UNCHANGED <<now, joined, messages, txs, used, inserting, started>>

Next ==
    \/ Tick
    \/ BeginChat \/ InsertParticipant \/ CommitChat
    \/ \E k \in ChatId : DeleteChat(k) \/ StartInsert(k) \/ FirstPage(k)
    \/ EndInsert \/ NextPage \/ LastPage

Spec == Init /\ [][Next]_vars

-----------------------------------------------------------------------------
\* A chat is one entry for all its participants: grouping by joined_at splits no
\* chat, however long its transaction took and whatever other chats it overlapped.
EachChatIsListedOnce ==
    \A k \in Chats : \A g, h \in Grouped(k) : g.users = Participants(k) /\ g = h

\* Whatever the order in the text, the names read for a chat, by GetChatByID and
\* for its entry in the lists, are those that the participants' own names are
\* read as, side by side, and just these are taken for members: a participant
\* with a plain name always; one with another name only if a name is read so
\* that it is his; a stranger only if a participant's name is read as his.
MembersAreThoseNamed ==
    \A k \in Chats :
        LET named == UNION {ReadAs(u) : u \in Participants(k)}
        IN \A list \in Lists(Participants(k)) :
              /\ ToSet(list) = named
              /\ \A u \in User : IsMember(u, list) <=> u \in named

\* m shares its timestamp with another message of its chat.
Tied(m) == \E x \in MessagesOf(m.chat) \ {m} : x.at = m.at

\* Paging by the number of messages received, until a page is not full, reaches
\* every message that was there when it began, although others arrive
\* meanwhile, some of them in the middle; two messages with one timestamp may
\* change places between two pages, and then one of them may be missed.
OldMessagesAreRead ==
    (reader # None /\ reader.state = "end" /\ reader.chat \in Chats) =>
        \A m \in reader.first \ reader.seen : Tied(m)

\* A message comes twice only if others have arrived or timestamps are equal.
RepeatsHaveAReason ==
    (reader # None /\ reader.received > Cardinality(reader.seen)) =>
        \/ MessagesOf(reader.chat) # reader.first
        \/ \E m \in reader.first : Tied(m)
=============================================================================
