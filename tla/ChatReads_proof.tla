--------------------------- MODULE ChatReads_proof ---------------------------
(***************************************************************************)
(* Proofs about ChatReads, for any users, chats, limits and bounds: a chat *)
(* is listed once, and paging by the number of messages received is sound. *)
(***************************************************************************)
EXTENDS ChatReads, FiniteSetTheorems, TLAPS

\* The participants of a chat were all inserted at one time, in a transaction
\* that ended before anybody could see the chat; its id is never used again.
OneTime ==
    /\ \A r, s \in joined : r.chat = s.chat => r.at = s.at
    /\ Chats \subseteq used
    /\ \A tx \in txs : /\ tx.chat \in used \ Chats
                       /\ \A r \in tx.rows : r.chat = tx.chat /\ r.at = tx.at
    /\ \A x, y \in txs : x.chat = y.chat => x = y

\* A message is never visible without its chat.
MessagesHaveChats ==
    /\ IsFiniteSet(messages)
    /\ \A m \in messages : m.chat \in Chats

\* What was in the chat when the reader began stays there until the chat is
\* deleted, and then nothing comes back.
FirstStays ==
    (reader # None /\ reader.first # {}) =>
        /\ reader.chat \in used
        /\ \A tx \in txs : tx.chat # reader.chat
        /\ \A m \in reader.first : m.chat = reader.chat
        /\ reader.chat \in Chats => reader.first \subseteq MessagesOf(reader.chat)

Newer(m) == {x \in MessagesOf(m.chat) : x.at > m.at}

\* The reader has not come as far as the messages it has not seen: there are at
\* least as many newer ones as it has received, and there will be another page.
Ahead(m) ==
    /\ reader.state = "more"
    /\ reader.page = Limit(reader.asked)
    /\ Cardinality(Newer(m)) >= reader.received

OldMessagesAreAhead ==
    (reader # None /\ reader.first # {} /\ reader.chat \in Chats) =>
        \A m \in reader.first \ reader.seen : Tied(m) \/ Ahead(m)

\* In a chat that does not change and has no ties, what the reader has seen are
\* the newest messages, each once.
Untroubled ==
    /\ MessagesOf(reader.chat) = reader.first
    /\ \A m \in reader.first : ~ Tied(m)

SeenIsNewest ==
    reader # None =>
        /\ reader.first = {} => reader.received = 0 /\ reader.page = 0 /\ reader.seen = {}
        /\ Untroubled => /\ reader.received = Cardinality(reader.seen)
                         /\ Newest(reader.seen, reader.first, reader.received)

ReadsInv ==
    /\ TypeOK
    /\ OneTime
    /\ MessagesHaveChats
    /\ FirstStays
    /\ OldMessagesAreAhead
    /\ SeenIsNewest

-----------------------------------------------------------------------------
(* Pages.                                                                  *)

\* What the service makes of a limit is at least one, at most MaxLimit, and what
\* a client takes for a full page.
LEMMA LimitIsClamped ==
    ASSUME NEW asked \in Asked
    PROVE  Limit(asked) \in 1 .. MaxLimit /\ FullPage(asked) = Limit(asked)
<1>1. CASE asked = None
  BY <1>1, ReadsAssumption DEF Limit, FullPage
<1>2. CASE asked # None
  <2>1. asked \in Int
    BY <1>2, ReadsAssumption
  <2> QED
    BY <1>2, <2>1, ReadsAssumption DEF Limit, FullPage
<1> QED
  BY <1>1, <1>2

\* The page is what lies between two sets of newest rows.
Between(page, above, below, rows, limit, offset) ==
    /\ above \in SUBSET rows /\ below \in SUBSET rows
    /\ above \subseteq below
    /\ page = below \ above
    /\ Newest(above, rows, offset)
    /\ Newest(below, rows, offset + limit)
    /\ Cardinality(below) = Cardinality(above) + Cardinality(page)

\* What LIMIT and OFFSET cut out of the rows, whatever the order of ties.
LEMMA PageIsBetween ==
    ASSUME NEW rows, IsFiniteSet(rows), NEW limit \in Nat, NEW offset \in Nat,
           NEW page \in Pages(rows, limit, offset)
    PROVE  /\ page \subseteq rows
           /\ IsFiniteSet(page)
           /\ Cardinality(page) \in 0 .. limit
           /\ \E above, below : Between(page, above, below, rows, limit, offset)
<1>1. PICK above, below \in SUBSET rows :
          /\ above \subseteq below
          /\ page = below \ above
          /\ Newest(above, rows, offset)
          /\ Newest(below, rows, offset + limit)
  BY DEF Pages
<1>2. IsFiniteSet(above) /\ IsFiniteSet(below) /\ IsFiniteSet(page)
  BY <1>1, FS_Subset
<1>3. Cardinality(below \ above) = Cardinality(below) - Cardinality(below \cap above)
  BY <1>2, FS_Difference
<1>4. Cardinality(page) = Cardinality(below) - Cardinality(above)
  <2>1. below \cap above = above
    BY <1>1
  <2> QED
    BY <1>1, <1>3, <2>1
<1>5. /\ Cardinality(above) \in Nat /\ Cardinality(below) \in Nat
      /\ Cardinality(page) \in Nat /\ Cardinality(rows) \in Nat
  BY <1>2, FS_CardinalityType
<1>6. /\ Cardinality(above) = IF offset <= Cardinality(rows) THEN offset
                              ELSE Cardinality(rows)
      /\ Cardinality(below) = IF offset + limit <= Cardinality(rows) THEN offset + limit
                              ELSE Cardinality(rows)
  BY <1>1 DEF Newest
<1>7. /\ Cardinality(page) \in 0 .. limit
      /\ Cardinality(below) = Cardinality(above) + Cardinality(page)
  BY <1>4, <1>5, <1>6
<1>8. Between(page, above, below, rows, limit, offset)
  BY <1>1, <1>7 DEF Between
<1> QED
  BY <1>1, <1>2, <1>7, <1>8

\* A row that no other ties with, and that has as many newer ones as the offset,
\* is on the page, or the page is full and the row comes after it.
LEMMA PageMovesOn ==
    ASSUME NEW rows \in SUBSET Message, IsFiniteSet(rows),
           NEW limit \in Nat, NEW offset \in Nat, NEW page \in Pages(rows, limit, offset),
           NEW m \in rows, m \notin page,
           \A x \in rows \ {m} : x.at # m.at,
           Cardinality({x \in rows : x.at > m.at}) >= offset
    PROVE  /\ Cardinality(page) = limit
           /\ Cardinality({x \in rows : x.at > m.at}) >= offset + limit
<1> DEFINE newer == {x \in rows : x.at > m.at}
<1>1. PICK above, below : Between(page, above, below, rows, limit, offset)
  BY PageIsBetween
<1>2. \A x \in rows : x.at \in Nat
  BY DEF Message
<1>3. /\ IsFiniteSet(above) /\ IsFiniteSet(below) /\ IsFiniteSet(newer)
      /\ Cardinality(above) \in Nat /\ Cardinality(below) \in Nat
      /\ Cardinality(newer) \in Nat /\ Cardinality(rows) \in Nat
      /\ Cardinality(page) \in Nat
  <2>1. newer \in SUBSET rows
    OBVIOUS
  <2> QED
    BY <1>1, <2>1, FS_Subset, FS_CardinalityType, PageIsBetween DEF Between
<1>4. m \notin above
  <2> SUFFICES ASSUME m \in above PROVE FALSE
    OBVIOUS
  <2>1. newer \subseteq above
    BY <1>1, <1>2 DEF Between, Newest
  <2>2. newer \cup {m} \in SUBSET above /\ m \notin newer
    BY <1>2, <2>1
  <2>3. Cardinality(newer \cup {m}) = Cardinality(newer) + 1
    BY <1>3, <2>2, FS_AddElement
  <2>4. Cardinality(newer) + 1 <= Cardinality(above)
    BY <1>3, <2>2, <2>3, FS_Subset
  <2>5. Cardinality(above) <= offset
    BY <1>1, <1>3 DEF Between, Newest
  <2> QED
    BY <1>3, <2>4, <2>5
<1>5. m \notin below
  BY <1>1, <1>4 DEF Between
<1>6. below \subseteq newer
  BY <1>1, <1>2, <1>5 DEF Between, Newest
<1>7. Cardinality(below) # Cardinality(rows)
  BY <1>1, <1>5, FS_Subset DEF Between
<1>8. Cardinality(below) = offset + limit /\ offset + limit <= Cardinality(rows)
  BY <1>1, <1>3, <1>7 DEF Between, Newest
<1>9. Cardinality(above) = offset
  BY <1>1, <1>3, <1>8 DEF Between, Newest
<1>10. Cardinality(below) <= Cardinality(newer)
  BY <1>3, <1>6, FS_Subset
<1> QED
  BY <1>1, <1>3, <1>8, <1>9, <1>10 DEF Between

\* Without ties there is one choice only of the newest rows.
LEMMA NewestIsUnique ==
    ASSUME NEW rows \in SUBSET Message, IsFiniteSet(rows), NEW n \in Nat,
           \A x \in rows : \A y \in rows \ {x} : x.at # y.at,
           NEW p, NEW q, Newest(p, rows, n), Newest(q, rows, n)
    PROVE  p = q
<1>1. \A x \in rows : x.at \in Nat
  BY DEF Message
<1>2. /\ p \in SUBSET rows /\ q \in SUBSET rows
      /\ Cardinality(p) = Cardinality(q)
  BY DEF Newest
<1>3. IsFiniteSet(p) /\ IsFiniteSet(q)
  BY <1>2, FS_Subset
<1>4. p \subseteq q \/ q \subseteq p
  <2> SUFFICES ASSUME NEW a \in p, a \notin q, NEW b \in q, b \notin p PROVE FALSE
    OBVIOUS
  <2>1. a.at >= b.at /\ b.at >= a.at
    BY <1>2 DEF Newest
  <2> QED
    BY <1>1, <1>2, <2>1
<1> QED
  BY <1>2, <1>3, <1>4, FS_Subset

\* The newest rows are the newest of their number.
LEMMA NewestOfItsSize ==
    ASSUME NEW rows, IsFiniteSet(rows), NEW n \in Nat, NEW top, Newest(top, rows, n)
    PROVE  /\ IsFiniteSet(top)
           /\ Newest(top, rows, Cardinality(top))
<1>1. top \in SUBSET rows
  BY DEF Newest
<1>2. IsFiniteSet(top) /\ Cardinality(top) \in Nat /\ Cardinality(rows) \in Nat
      /\ Cardinality(top) <= Cardinality(rows)
  BY <1>1, FS_Subset, FS_CardinalityType
<1> QED
  BY <1>2 DEF Newest

-----------------------------------------------------------------------------
(* The invariant: steps that change the chats.                             *)

TxType == [chat : ChatId, at : Nat, todo : SUBSET User, rows : SUBSET Row]

\* A row is added to one transaction; its chat and time are those of the others.
LEMMA InsertEffect ==
    ASSUME TypeOK, InsertParticipant
    PROVE  \E tx \in txs, longer \in TxType :
              /\ longer.chat = tx.chat /\ longer.at = tx.at
              /\ \A r \in longer.rows \ tx.rows : r.chat = tx.chat /\ r.at = tx.at
              /\ txs' = (txs \ {tx}) \cup {longer}
<1> DEFINE row(tx, u) == [chat |-> tx.chat, user |-> u, at |-> tx.at]
           with(tx, u) == [tx EXCEPT !.todo = @ \ {u}, !.rows = @ \cup {row(tx, u)}]
<1>1. PICK tx \in txs : \E u \in tx.todo : txs' = (txs \ {tx}) \cup {with(tx, u)}
  BY DEF InsertParticipant, TimeOfTransaction
<1>2. PICK u \in tx.todo : txs' = (txs \ {tx}) \cup {with(tx, u)}
  BY <1>1
<1>3. tx \in TxType
  BY DEF TypeOK, TxType
<1>4. row(tx, u) \in Row
  BY <1>3 DEF TxType, Row
<1>5. /\ with(tx, u) \in TxType
      /\ with(tx, u).chat = tx.chat /\ with(tx, u).at = tx.at
      /\ with(tx, u).rows = tx.rows \cup {row(tx, u)}
  BY <1>3, <1>4 DEF TxType
<1>6. \A r \in with(tx, u).rows \ tx.rows : r.chat = tx.chat /\ r.at = tx.at
  BY <1>5
<1> QED
  BY <1>2, <1>5, <1>6

\* Types.
LEMMA TypeStep ==
    ASSUME ReadsInv, Next
    PROVE  TypeOK'
<1> USE ReadsAssumption DEF ReadsInv
<1>1. CASE Tick
  BY <1>1 DEF Tick, TypeOK
<1>2. CASE BeginChat
  <2>1. PICK k \in ChatId, group \in Groups :
            /\ txs' = txs \cup {[chat |-> k, at |-> now, todo |-> group, rows |-> {}]}
            /\ used' = used \cup {k}
    BY <1>2 DEF BeginChat
  <2>2. [chat |-> k, at |-> now, todo |-> group, rows |-> {}] \in TxType
    BY DEF TypeOK, TxType
  <2>3. txs' \subseteq TxType /\ used' \subseteq ChatId
    BY <2>1, <2>2 DEF TypeOK, TxType
  <2> QED
    BY <1>2, <2>3 DEF BeginChat, TypeOK, TxType
<1>3. CASE InsertParticipant
  <2>1. txs' \subseteq TxType
    BY <1>3, InsertEffect DEF TypeOK, TxType
  <2> QED
    BY <1>3, <2>1 DEF InsertParticipant, TypeOK, TxType
<1>4. CASE CommitChat
  BY <1>4 DEF CommitChat, TypeOK
<1>5. ASSUME NEW k \in ChatId, DeleteChat(k) PROVE TypeOK'
  BY <1>5 DEF DeleteChat, TypeOK
<1>6. ASSUME NEW k \in ChatId, StartInsert(k) PROVE TypeOK'
  <2>1. [id |-> started, chat |-> k, at |-> now] \in Message
    BY DEF TypeOK, Message
  <2>2. inserting' \subseteq Message /\ started' \in 0 .. MaxMessages
    BY <1>6, <2>1 DEF StartInsert, TypeOK
  <2> QED
    BY <1>6, <2>2 DEF StartInsert, TypeOK
<1>7. CASE EndInsert
  BY <1>7 DEF EndInsert, TypeOK
<1>8. ASSUME NEW k \in ChatId, FirstPage(k) PROVE TypeOK'
  <2>0. PICK asked \in Asked :
            \E page \in Pages(MessagesOf(k), Limit(asked), Offset(None)) :
                reader' = [chat |-> k, asked |-> asked, first |-> MessagesOf(k),
                           seen |-> page, received |-> Cardinality(page),
                           page |-> Cardinality(page), state |-> "more"]
    BY <1>8 DEF FirstPage
  <2>1. PICK page \in Pages(MessagesOf(k), Limit(asked), Offset(None)) :
            reader' = [chat |-> k, asked |-> asked, first |-> MessagesOf(k),
                       seen |-> page, received |-> Cardinality(page),
                       page |-> Cardinality(page), state |-> "more"]
    BY <2>0
  <2>2. MessagesOf(k) \subseteq Message /\ IsFiniteSet(MessagesOf(k))
    BY FS_Subset DEF MessagesHaveChats, MessagesOf, TypeOK
  <2>3. Limit(asked) \in 1 .. MaxLimit /\ Offset(None) = 0
    BY LimitIsClamped DEF Offset
  <2>4. page \subseteq MessagesOf(k) /\ Cardinality(page) \in 0 .. Limit(asked)
    BY <2>2, <2>3, PageIsBetween
  <2>5. Cardinality(page) \in Nat /\ Cardinality(page) \in 0 .. MaxLimit
    BY <2>3, <2>4
  <2>6. reader' \in [chat : ChatId, asked : Asked, first : SUBSET Message,
                     seen : SUBSET Message, received : Nat,
                     page : 0 .. MaxLimit, state : {"more", "end"}]
    BY <2>1, <2>2, <2>4, <2>5
  <2> QED
    BY <1>8, <2>6 DEF FirstPage, TypeOK
<1>9. CASE NextPage
  <2>1. PICK page \in Pages(MessagesOf(reader.chat), Limit(reader.asked),
                            Offset(reader.received)) :
            reader' = [reader EXCEPT !.seen = @ \cup page,
                                     !.received = @ + Cardinality(page),
                                     !.page = Cardinality(page)]
    BY <1>9 DEF NextPage
  <2>2. reader \in [chat : ChatId, asked : Asked, first : SUBSET Message,
                    seen : SUBSET Message, received : Nat,
                    page : 0 .. MaxLimit, state : {"more", "end"}]
    BY <1>9 DEF NextPage, TypeOK
  <2>3. /\ MessagesOf(reader.chat) \subseteq Message
        /\ IsFiniteSet(MessagesOf(reader.chat))
    BY FS_Subset DEF MessagesHaveChats, MessagesOf, TypeOK
  <2>4. Limit(reader.asked) \in 1 .. MaxLimit /\ Offset(reader.received) \in Nat
    BY <2>2, LimitIsClamped DEF Offset
  <2>5. /\ page \subseteq MessagesOf(reader.chat)
        /\ Cardinality(page) \in 0 .. Limit(reader.asked)
    BY <2>3, <2>4, PageIsBetween
  <2>6. Cardinality(page) \in Nat /\ Cardinality(page) \in 0 .. MaxLimit
    BY <2>4, <2>5
  <2>7. /\ reader.seen \cup page \in SUBSET Message
        /\ reader.received + Cardinality(page) \in Nat
    BY <2>2, <2>3, <2>5, <2>6
  <2>8. reader' \in [chat : ChatId, asked : Asked, first : SUBSET Message,
                     seen : SUBSET Message, received : Nat,
                     page : 0 .. MaxLimit, state : {"more", "end"}]
    BY <2>1, <2>2, <2>6, <2>7
  <2> QED
    BY <1>9, <2>8 DEF NextPage, TypeOK
<1>10. CASE LastPage
  BY <1>10 DEF LastPage, TypeOK
<1> QED
  BY <1>1, <1>2, <1>3, <1>4, <1>5, <1>6, <1>7, <1>8, <1>9, <1>10 DEF Next

\* Chats have one time each, and their ids are not used again.
LEMMA OneTimeStep ==
    ASSUME ReadsInv, Next
    PROVE  OneTime'
<1> USE DEF ReadsInv
<1>1. CASE BeginChat
  <2>1. PICK k \in ChatId \ used, group \in Groups :
            /\ txs' = txs \cup {[chat |-> k, at |-> now, todo |-> group, rows |-> {}]}
            /\ used' = used \cup {k}
    BY <1>1 DEF BeginChat
  <2>2. joined' = joined /\ k \notin Chats /\ \A tx \in txs : tx.chat # k
    BY <1>1 DEF BeginChat, OneTime
  <2>3. Chats' = Chats /\ used' = used \cup {k}
    BY <2>1, <2>2 DEF Chats
  <2>4. \A x \in txs' : /\ x.chat \in used' \ Chats
                       /\ \A r \in x.rows : r.chat = x.chat /\ r.at = x.at
    BY <2>1, <2>2, <2>3 DEF OneTime
  <2>5. \A x, y \in txs' : x.chat = y.chat => x = y
    BY <2>1, <2>2 DEF OneTime
  <2> QED
    BY <2>2, <2>3, <2>4, <2>5 DEF OneTime
<1>2. CASE InsertParticipant
  <2>1. PICK tx \in txs, longer \in TxType :
            /\ longer.chat = tx.chat /\ longer.at = tx.at
            /\ \A r \in longer.rows \ tx.rows : r.chat = tx.chat /\ r.at = tx.at
            /\ txs' = (txs \ {tx}) \cup {longer}
    BY <1>2, InsertEffect
  <2>2. joined' = joined /\ used' = used
    BY <1>2 DEF InsertParticipant
  <2>3. Chats' = Chats
    BY <2>2 DEF Chats
  <2>4. \A r \in longer.rows : r.chat = longer.chat /\ r.at = longer.at
    BY <2>1 DEF OneTime
  <2>5. \A x \in txs' : /\ x.chat \in used \ Chats
                       /\ \A r \in x.rows : r.chat = x.chat /\ r.at = x.at
    BY <2>1, <2>4 DEF OneTime
  <2>6. \A x, y \in txs' : x.chat = y.chat => x = y
    BY <2>1 DEF OneTime
  <2> QED
    BY <2>2, <2>3, <2>5, <2>6 DEF OneTime
<1>3. CASE CommitChat
  <2>1. PICK tx \in txs : joined' = joined \cup tx.rows /\ txs' = txs \ {tx} /\ used' = used
    BY <1>3 DEF CommitChat
  <2>2. \A r, s \in joined' : r.chat = s.chat => r.at = s.at
    BY <2>1 DEF OneTime, Chats
  <2>3. Chats' \subseteq Chats \cup {tx.chat}
    BY <2>1 DEF OneTime, Chats
  <2>4. \A x \in txs' : x.chat # tx.chat
    BY <2>1 DEF OneTime
  <2> QED
    BY <2>1, <2>2, <2>3, <2>4 DEF OneTime
<1>4. ASSUME NEW k \in ChatId, DeleteChat(k) PROVE OneTime'
  BY <1>4 DEF DeleteChat, OneTime, Chats
<1>5. CASE UNCHANGED <<joined, used, txs>>
  BY <1>5 DEF OneTime, Chats
<1> QED
  BY <1>1, <1>2, <1>3, <1>4, <1>5
  DEF Next, Tick, StartInsert, FirstPage, EndInsert, NextPage, LastPage

\* A message is added to a chat that is there, and goes with it.
LEMMA MessagesHaveChatsStep ==
    ASSUME ReadsInv, Next
    PROVE  MessagesHaveChats'
<1> USE DEF ReadsInv
<1>1. CASE CommitChat
  BY <1>1 DEF CommitChat, MessagesHaveChats, Chats
<1>2. ASSUME NEW k \in ChatId, DeleteChat(k) PROVE MessagesHaveChats'
  <2>1. messages' \in SUBSET messages
    BY <1>2 DEF DeleteChat
  <2>2. IsFiniteSet(messages')
    BY <2>1, FS_Subset DEF MessagesHaveChats
  <2>3. \A m \in messages' : m.chat \in Chats'
    BY <1>2 DEF DeleteChat, MessagesHaveChats, Chats
  <2> QED
    BY <2>2, <2>3 DEF MessagesHaveChats
<1>3. CASE EndInsert
  <2>1. PICK m \in inserting :
            messages' = IF m.chat \in Chats THEN messages \cup {m} ELSE messages
    BY <1>3 DEF EndInsert
  <2>2. Chats' = Chats
    BY <1>3 DEF EndInsert, Chats
  <2>3. IsFiniteSet(messages')
    BY <2>1, FS_AddElement DEF MessagesHaveChats
  <2> QED
    BY <2>1, <2>2, <2>3 DEF MessagesHaveChats
<1>4. CASE UNCHANGED <<joined, messages>>
  BY <1>4 DEF MessagesHaveChats, Chats
<1> QED
  BY <1>1, <1>2, <1>3, <1>4
  DEF Next, Tick, BeginChat, InsertParticipant, StartInsert, FirstPage, NextPage, LastPage

-----------------------------------------------------------------------------
(* The invariant: the reader.                                              *)

ReaderType == [chat : ChatId, asked : Asked, first : SUBSET Message,
               seen : SUBSET Message, received : Nat,
               page : 0 .. MaxLimit, state : {"more", "end"}]

\* A reader keeps its chat and what was there when it began.
LEMMA ReaderKeeps ==
    ASSUME ReadsInv, Next, reader # None
    PROVE  /\ reader \in ReaderType
           /\ reader'.chat = reader.chat
           /\ reader'.asked = reader.asked
           /\ reader'.first = reader.first
           /\ reader.seen \subseteq reader'.seen
           /\ \/ reader' = reader
              \/ NextPage
              \/ LastPage
<1>1. reader \in ReaderType
  BY DEF ReadsInv, TypeOK, ReaderType
<1>2. CASE reader' = reader
  BY <1>1, <1>2
<1>3. CASE NextPage
  <2>1. reader'.state = reader.state /\ reader.state = "more"
    BY <1>1, <1>3 DEF NextPage, ReaderType
  <2> QED
    BY <1>1, <1>3, <2>1 DEF NextPage, ReaderType
<1>4. CASE LastPage
  BY <1>1, <1>4 DEF LastPage, ReaderType
<1> QED
  BY <1>2, <1>3, <1>4
  DEF Next, Tick, BeginChat, InsertParticipant, CommitChat, DeleteChat, StartInsert, FirstPage,
      EndInsert

\* The chat of a reader who has found messages was there all the time; nothing
\* but its end takes messages away.
LEMMA ChatStays ==
    ASSUME ReadsInv, Next, reader # None, reader.first # {}, reader.chat \in Chats'
    PROVE  /\ reader.chat \in Chats
           /\ MessagesOf(reader.chat) \subseteq {m \in messages' : m.chat = reader.chat}
           /\ reader.first \subseteq MessagesOf(reader.chat)
<1>1. /\ reader.chat \in Chats
      /\ MessagesOf(reader.chat) \subseteq {m \in messages' : m.chat = reader.chat}
  <2>1. CASE CommitChat
    BY <2>1 DEF CommitChat, ReadsInv, FirstStays, OneTime, Chats, MessagesOf
  <2>2. ASSUME NEW k \in ChatId, DeleteChat(k)
        PROVE  /\ reader.chat \in Chats
               /\ MessagesOf(reader.chat) \subseteq {m \in messages' : m.chat = reader.chat}
    BY <2>2 DEF DeleteChat, Chats, MessagesOf
  <2>3. CASE EndInsert
    BY <2>3 DEF EndInsert, Chats, MessagesOf
  <2>4. CASE UNCHANGED <<joined, messages>>
    BY <2>4 DEF Chats, MessagesOf
  <2> QED
    BY <2>1, <2>2, <2>3, <2>4
    DEF Next, Tick, BeginChat, InsertParticipant, StartInsert, FirstPage, NextPage, LastPage
<1> QED
  BY <1>1 DEF ReadsInv, FirstStays

\* The first page of a chat, with offset 0.
LEMMA FirstPageEffect ==
    ASSUME ReadsInv, NEW k \in ChatId, FirstPage(k)
    PROVE  \E asked \in Asked : \E page :
              /\ page \in Pages(MessagesOf(k), Limit(asked), 0)
              /\ reader' = [chat |-> k, asked |-> asked, first |-> MessagesOf(k),
                            seen |-> page, received |-> Cardinality(page),
                            page |-> Cardinality(page), state |-> "more"]
  BY ReadsAssumption DEF FirstPage, Offset

\* Every further page is asked for after a full one, at what has been received.
LEMMA NextPageEffect ==
    ASSUME ReadsInv, NextPage
    PROVE  /\ reader.page = Limit(reader.asked)
           /\ Limit(reader.asked) \in 1 .. MaxLimit
           /\ reader.state = "more"
           /\ \E page :
                 /\ page \in Pages(MessagesOf(reader.chat), Limit(reader.asked),
                                  reader.received)
                 /\ reader'.seen = reader.seen \cup page
                 /\ reader'.received = reader.received + Cardinality(page)
                 /\ reader'.page = Cardinality(page)
                 /\ reader'.state = "more"
<1>1. reader \in ReaderType
  BY DEF NextPage, ReadsInv, TypeOK, ReaderType
<1>2. Limit(reader.asked) \in 1 .. MaxLimit /\ FullPage(reader.asked) = Limit(reader.asked)
  BY <1>1, LimitIsClamped DEF ReaderType
<1>3. Offset(reader.received) = reader.received
  BY <1>1, ReadsAssumption DEF ReaderType, Offset
<1>4. PICK page \in Pages(MessagesOf(reader.chat), Limit(reader.asked),
                         Offset(reader.received)) :
          reader' = [reader EXCEPT !.seen = @ \cup page,
                                   !.received = @ + Cardinality(page),
                                   !.page = Cardinality(page)]
  BY DEF NextPage
<1>5. /\ page \in Pages(MessagesOf(reader.chat), Limit(reader.asked), reader.received)
      /\ reader'.seen = reader.seen \cup page
      /\ reader'.received = reader.received + Cardinality(page)
      /\ reader'.page = Cardinality(page)
      /\ reader'.state = reader.state
  BY <1>1, <1>3, <1>4 DEF ReaderType
<1> QED
  BY <1>2, <1>5 DEF NextPage

\* Nothing deletes the messages of a chat but the deletion of the chat.
LEMMA FirstStaysStep ==
    ASSUME ReadsInv, Next
    PROVE  FirstStays'
<1> SUFFICES ASSUME reader' # None, reader'.first # {}
             PROVE  /\ reader'.chat \in used'
                    /\ \A tx \in txs' : tx.chat # reader'.chat
                    /\ \A m \in reader'.first : m.chat = reader'.chat
                    /\ reader'.chat \in Chats' =>
                           reader'.first \subseteq {m \in messages' : m.chat = reader'.chat}
  BY DEF FirstStays, MessagesOf
<1>1. CASE reader # None
  <2>1. reader'.chat = reader.chat /\ reader'.first = reader.first
    BY <1>1, ReaderKeeps
  <2>2. /\ reader.chat \in used
        /\ \A tx \in txs : tx.chat # reader.chat
        /\ \A m \in reader.first : m.chat = reader.chat
    BY <1>1, <2>1 DEF ReadsInv, FirstStays
  <2>3. reader.chat \in used' /\ \A tx \in txs' : tx.chat # reader.chat
    <3>1. CASE BeginChat
      BY <2>2, <3>1 DEF BeginChat
    <3>2. CASE InsertParticipant
      <4>1. used' = used /\ TypeOK
        BY <3>2 DEF InsertParticipant, ReadsInv
      <4> QED
        BY <2>2, <3>2, <4>1, InsertEffect
    <3>3. CASE CommitChat
      BY <2>2, <3>3 DEF CommitChat
    <3>4. CASE UNCHANGED <<used, txs>>
      BY <2>2, <3>4
    <3> QED
      BY <3>1, <3>2, <3>3, <3>4
      DEF Next, Tick, DeleteChat, StartInsert, FirstPage, EndInsert, NextPage, LastPage
  <2>4. reader.chat \in Chats' => reader.first \subseteq {m \in messages' : m.chat = reader.chat}
    BY <1>1, <2>1, ChatStays
  <2> QED
    BY <2>1, <2>2, <2>3, <2>4
<1>2. CASE reader = None
  <2>1. PICK k \in ChatId : FirstPage(k)
    BY <1>2 DEF Next, Tick, BeginChat, InsertParticipant, CommitChat, DeleteChat, StartInsert,
                EndInsert, NextPage, LastPage
  <2>2. reader'.chat = k /\ reader'.first = MessagesOf(k)
    BY <2>1 DEF FirstPage
  <2>3. UNCHANGED <<joined, messages, txs, used>>
    BY <2>1 DEF FirstPage
  <2>4. k \in Chats
    BY <2>2 DEF ReadsInv, MessagesHaveChats, MessagesOf
  <2> QED
    BY <2>2, <2>3, <2>4 DEF ReadsInv, OneTime, MessagesOf
<1> QED
  BY <1>1, <1>2

\* Messages that arrive push the old ones back, so that the reader, who goes on by
\* the number he has received, cannot pass them.
LEMMA OldMessagesStep ==
    ASSUME ReadsInv, Next, MessagesHaveChats'
    PROVE  OldMessagesAreAhead'
<1> SUFFICES ASSUME reader' # None, reader'.first # {}, (reader.chat \in Chats)',
                    NEW m \in reader'.first, m \notin reader'.seen, ~ Tied(m)'
             PROVE  Ahead(m)'
  BY DEF OldMessagesAreAhead
<1>1. CASE reader # None
  <2> DEFINE k == reader.chat
  <2>1. /\ reader'.chat = k /\ reader'.first = reader.first /\ reader'.asked = reader.asked
        /\ m \in reader.first /\ m \notin reader.seen
        /\ reader \in ReaderType
        /\ reader' = reader \/ NextPage \/ LastPage
    BY <1>1, ReaderKeeps
  <2>2. /\ k \in Chats
        /\ MessagesOf(k) \subseteq {x \in messages' : x.chat = k}
        /\ m \in MessagesOf(k)
    BY <1>1, <2>1, ChatStays
  <2>3. m.chat = k
    BY <2>2 DEF MessagesOf
  <2>4. ~ Tied(m)
    BY <2>2, <2>3 DEF Tied, MessagesOf
  <2>5. Ahead(m)
    BY <1>1, <2>1, <2>2, <2>4 DEF ReadsInv, OldMessagesAreAhead
  <2>6. CASE reader' = reader
    <3>1. Newer(m) \in SUBSET Newer(m)'
      BY <2>2, <2>3 DEF Newer, MessagesOf
    <3>2. Newer(m)' \in SUBSET messages'
      BY DEF Newer, MessagesOf
    <3>3. IsFiniteSet(Newer(m)') /\ IsFiniteSet(Newer(m))
      BY <3>1, <3>2, FS_Subset DEF MessagesHaveChats
    <3>4. /\ Cardinality(Newer(m)) <= Cardinality(Newer(m)')
          /\ Cardinality(Newer(m)) \in Nat /\ Cardinality(Newer(m)') \in Nat
      BY <3>1, <3>3, FS_Subset, FS_CardinalityType
    <3> QED
      BY <2>1, <2>5, <2>6, <3>4 DEF Ahead, ReaderType
  <2>7. CASE NextPage
    <3>1. PICK page : /\ page \in Pages(MessagesOf(k), Limit(reader.asked), reader.received)
                      /\ reader'.seen = reader.seen \cup page
                      /\ reader'.received = reader.received + Cardinality(page)
                      /\ reader'.page = Cardinality(page)
                      /\ reader'.state = "more"
      BY <2>7, NextPageEffect
    <3>2. UNCHANGED messages /\ Limit(reader.asked) \in Nat /\ reader.received \in Nat
      <4>1. Limit(reader.asked) \in 1 .. MaxLimit
        BY <2>7, NextPageEffect
      <4>2. Limit(reader.asked) \in Nat
        BY <4>1, ReadsAssumption
      <4>3. reader.received \in Nat
        BY <2>1 DEF ReaderType
      <4> QED
        BY <2>7, <4>2, <4>3 DEF NextPage
    <3>3. MessagesOf(k) \in SUBSET Message /\ IsFiniteSet(MessagesOf(k))
      BY FS_Subset DEF ReadsInv, MessagesHaveChats, MessagesOf, TypeOK
    <3>4. \A x \in MessagesOf(k) \ {m} : x.at # m.at
      BY <2>3, <2>4 DEF Tied
    <3>5. Newer(m) = {x \in MessagesOf(k) : x.at > m.at}
      BY <2>3 DEF Newer
    <3>6. Cardinality({x \in MessagesOf(k) : x.at > m.at}) >= reader.received
      BY <2>5, <3>5 DEF Ahead
    <3>7. m \notin page
      BY <2>1, <3>1
    <3>8. /\ Cardinality(page) = Limit(reader.asked)
          /\ Cardinality(Newer(m)) >= reader.received + Limit(reader.asked)
      BY <2>2, <3>1, <3>2, <3>3, <3>4, <3>5, <3>6, <3>7, PageMovesOn
    <3>9. Newer(m)' = Newer(m)
      BY <3>2 DEF Newer, MessagesOf
    <3>10. Limit(reader'.asked) = Limit(reader.asked)
      BY <2>1
    <3> QED
      BY <3>1, <3>8, <3>9, <3>10 DEF Ahead, Limit
  <2>8. CASE LastPage
    <3>1. reader.asked \in Asked /\ reader.page \in 0 .. MaxLimit
      BY <2>1 DEF ReaderType
    <3>2. FullPage(reader.asked) = Limit(reader.asked) /\ Limit(reader.asked) \in 1 .. MaxLimit
      BY <3>1, LimitIsClamped
    <3> QED
      BY <2>5, <2>8, <3>1, <3>2, ReadsAssumption DEF LastPage, Ahead
  <2> QED
    BY <2>1, <2>6, <2>7, <2>8
<1>2. CASE reader = None
  <2>1. PICK k \in ChatId : FirstPage(k)
    BY <1>2 DEF Next, Tick, BeginChat, InsertParticipant, CommitChat, DeleteChat, StartInsert,
                EndInsert, NextPage, LastPage
  <2>2. PICK asked \in Asked : \E page :
            /\ page \in Pages(MessagesOf(k), Limit(asked), 0)
            /\ reader' = [chat |-> k, asked |-> asked, first |-> MessagesOf(k),
                          seen |-> page, received |-> Cardinality(page),
                          page |-> Cardinality(page), state |-> "more"]
    BY <2>1, FirstPageEffect
  <2>3. PICK page :
            /\ page \in Pages(MessagesOf(k), Limit(asked), 0)
            /\ reader' = [chat |-> k, asked |-> asked, first |-> MessagesOf(k),
                          seen |-> page, received |-> Cardinality(page),
                          page |-> Cardinality(page), state |-> "more"]
    BY <2>2
  <2>4. UNCHANGED messages /\ Limit(asked) \in Nat
    BY <2>1, LimitIsClamped, ReadsAssumption DEF FirstPage
  <2>5. MessagesOf(k) \in SUBSET Message /\ IsFiniteSet(MessagesOf(k))
    BY FS_Subset DEF ReadsInv, MessagesHaveChats, MessagesOf, TypeOK
  <2>6. m \in MessagesOf(k) /\ m \notin page /\ m.chat = k
    BY <2>3 DEF MessagesOf
  <2>7. \A x \in MessagesOf(k) \ {m} : x.at # m.at
    BY <2>4, <2>6 DEF Tied, MessagesOf
  <2> DEFINE newer == {x \in MessagesOf(k) : x.at > m.at}
  <2>8. Newer(m)' = newer
    BY <2>4, <2>6 DEF Newer, MessagesOf
  <2>9. Cardinality(newer) >= 0
    <3>1. newer \in SUBSET MessagesOf(k)
      OBVIOUS
    <3>2. Cardinality(newer) \in Nat
      BY <2>5, <3>1, FS_Subset, FS_CardinalityType
    <3> QED
      BY <3>2
  <2>10. Cardinality(page) = Limit(asked) /\ Cardinality(newer) >= 0 + Limit(asked)
    BY <2>3, <2>4, <2>5, <2>6, <2>7, <2>9, PageMovesOn
  <2> QED
    BY <2>3, <2>4, <2>8, <2>10 DEF Ahead, Limit
<1> QED
  BY <1>1, <1>2

\* Without ties and changes each page goes on where the last one ended.
LEMMA SeenIsNewestStep ==
    ASSUME ReadsInv, Next, MessagesHaveChats'
    PROVE  SeenIsNewest'
<1> SUFFICES ASSUME reader' # None
             PROVE  /\ reader'.first = {} => /\ reader'.received = 0
                                             /\ reader'.page = 0
                                             /\ reader'.seen = {}
                    /\ Untroubled' => /\ reader'.received = Cardinality(reader'.seen)
                                      /\ Newest(reader'.seen, reader'.first, reader'.received)
  BY DEF SeenIsNewest, Newest
<1>1. CASE reader = None
  <2>1. PICK k \in ChatId : FirstPage(k)
    BY <1>1 DEF Next, Tick, BeginChat, InsertParticipant, CommitChat, DeleteChat, StartInsert,
                EndInsert, NextPage, LastPage
  <2>2. PICK asked \in Asked : \E page :
            /\ page \in Pages(MessagesOf(k), Limit(asked), 0)
            /\ reader' = [chat |-> k, asked |-> asked, first |-> MessagesOf(k),
                          seen |-> page, received |-> Cardinality(page),
                          page |-> Cardinality(page), state |-> "more"]
    BY <2>1, FirstPageEffect
  <2>3. PICK page :
            /\ page \in Pages(MessagesOf(k), Limit(asked), 0)
            /\ reader' = [chat |-> k, asked |-> asked, first |-> MessagesOf(k),
                          seen |-> page, received |-> Cardinality(page),
                          page |-> Cardinality(page), state |-> "more"]
    BY <2>2
  <2>4. Limit(asked) \in Nat
    BY LimitIsClamped, ReadsAssumption
  <2>5. MessagesOf(k) \in SUBSET Message /\ IsFiniteSet(MessagesOf(k))
    BY FS_Subset DEF ReadsInv, MessagesHaveChats, MessagesOf, TypeOK
  <2>6. page \subseteq MessagesOf(k)
    BY <2>3, <2>4, <2>5, PageIsBetween
  <2>7. Newest(page, MessagesOf(k), Cardinality(page))
    <3>1. PICK above, below : Between(page, above, below, MessagesOf(k), Limit(asked), 0)
      BY <2>3, <2>4, <2>5, PageIsBetween
    <3>2. IsFiniteSet(above) /\ Cardinality(MessagesOf(k)) \in Nat
      BY <2>5, <3>1, FS_Subset, FS_CardinalityType DEF Between
    <3>3. Cardinality(above) = 0
      BY <3>1, <3>2 DEF Between, Newest
    <3>4. above = {}
      BY <3>2, <3>3, FS_EmptySet
    <3>5. page = below /\ Newest(below, MessagesOf(k), 0 + Limit(asked))
      BY <3>1, <3>4 DEF Between
    <3> QED
      BY <2>4, <2>5, <3>5, NewestOfItsSize
  <2>8. page = {} => Cardinality(page) = 0
    BY FS_EmptySet
  <2> QED
    BY <2>3, <2>6, <2>7, <2>8
<1>2. CASE reader # None
  <2> DEFINE k == reader.chat
  <2>1. /\ reader'.chat = k /\ reader'.first = reader.first /\ reader'.asked = reader.asked
        /\ reader \in ReaderType
        /\ reader' = reader \/ NextPage \/ LastPage
    BY <1>2, ReaderKeeps
  <2>2. reader' = reader \/ LastPage => /\ reader'.received = reader.received
                                        /\ reader'.page = reader.page
                                        /\ reader'.seen = reader.seen
    BY <2>1 DEF LastPage, ReaderType
  <2>3. CASE reader.first = {}
    <3>1. reader.received = 0 /\ reader.page = 0 /\ reader.seen = {}
      BY <1>2, <2>3 DEF ReadsInv, SeenIsNewest
    <3>2. ~ NextPage
      BY <3>1, NextPageEffect
    <3>3. Cardinality({}) = 0 /\ Newest({}, {}, 0)
      BY FS_EmptySet DEF Newest
    <3> QED
      BY <2>1, <2>2, <2>3, <3>1, <3>2, <3>3
  <2>4. CASE reader.first # {}
    <3> SUFFICES ASSUME Untroubled'
                 PROVE  /\ reader'.received = Cardinality(reader'.seen)
                        /\ Newest(reader'.seen, reader'.first, reader'.received)
      BY <2>1, <2>4
    <3>1. {m \in messages' : m.chat = k} = reader.first
      BY <2>1 DEF Untroubled, MessagesOf
    <3>2. k \in Chats'
      BY <2>4, <3>1 DEF MessagesHaveChats
    <3>3. MessagesOf(k) = reader.first
      BY <1>2, <2>4, <3>1, <3>2, ChatStays
    <3>4. \A m \in reader.first : m.chat = k
      BY <3>3 DEF MessagesOf
    <3>5. \A m \in reader.first : ~ Tied(m)
      <4> SUFFICES ASSUME NEW m \in reader.first, Tied(m) PROVE FALSE
        OBVIOUS
      <4>1. MessagesOf(m.chat)' = MessagesOf(m.chat)
        BY <3>1, <3>3, <3>4 DEF MessagesOf
      <4>2. Tied(m)'
        BY <4>1 DEF Tied
      <4> QED
        BY <2>1, <4>2 DEF Untroubled
    <3>6. /\ reader.received = Cardinality(reader.seen)
          /\ Newest(reader.seen, reader.first, reader.received)
      BY <1>2, <3>3, <3>5 DEF ReadsInv, SeenIsNewest, Untroubled
    <3>7. CASE NextPage
      <4> DEFINE limit == Limit(reader.asked)
      <4>1. PICK page : /\ page \in Pages(MessagesOf(k), limit, reader.received)
                        /\ reader'.seen = reader.seen \cup page
                        /\ reader'.received = reader.received + Cardinality(page)
        BY <3>7, NextPageEffect
      <4>2. limit \in Nat
        <5>1. limit \in 1 .. MaxLimit
          BY <3>7, NextPageEffect
        <5> QED
          BY <5>1, ReadsAssumption
      <4>3. reader.received \in Nat
        BY <2>1 DEF ReaderType
      <4>4. reader.first \in SUBSET Message /\ IsFiniteSet(reader.first)
        BY <3>3, FS_Subset DEF ReadsInv, MessagesHaveChats, MessagesOf, TypeOK
      <4> HIDE DEF limit
      <4>5. PICK above, below :
                Between(page, above, below, reader.first, limit, reader.received)
        BY <3>3, <4>1, <4>2, <4>3, <4>4, PageIsBetween
      <4>6. \A x \in reader.first : \A y \in reader.first \ {x} : x.at # y.at
        BY <3>3, <3>4, <3>5 DEF Tied
      <4>7. Newest(above, reader.first, reader.received)
        BY <4>5 DEF Between
      <4>8. above = reader.seen
        BY <3>6, <4>3, <4>4, <4>6, <4>7, NewestIsUnique
      <4>9. reader'.seen = below /\ reader'.received = Cardinality(below)
        BY <3>6, <4>1, <4>5, <4>8 DEF Between
      <4>10. Newest(below, reader.first, reader.received + limit)
        BY <4>5 DEF Between
      <4>11. Newest(below, reader.first, Cardinality(below))
        BY <4>2, <4>3, <4>4, <4>10, NewestOfItsSize
      <4> QED
        BY <2>1, <4>9, <4>11
    <3> QED
      BY <2>1, <2>2, <3>6, <3>7
  <2> QED
    BY <2>3, <2>4
<1> QED
  BY <1>1, <1>2

-----------------------------------------------------------------------------
(* The theorems.                                                           *)

\* Every step keeps the invariant.
LEMMA ReadsStep == ReadsInv /\ Next => ReadsInv'
  BY TypeStep, OneTimeStep, MessagesHaveChatsStep, FirstStaysStep, OldMessagesStep,
     SeenIsNewestStep DEF ReadsInv

\* The invariant of the tables and of a client that pages through one chat.
THEOREM ReadsInvariant == Spec => []ReadsInv
<1>1. Init => ReadsInv
  BY FS_EmptySet, ReadsAssumption
  DEF Init, ReadsInv, TypeOK, OneTime, MessagesHaveChats, FirstStays, OldMessagesAreAhead,
      SeenIsNewest, Chats
<1>2. ReadsInv /\ UNCHANGED vars => ReadsInv'
  BY DEF vars, ReadsInv, TypeOK, OneTime, MessagesHaveChats, FirstStays, OldMessagesAreAhead,
         SeenIsNewest, Chats, MessagesOf, Tied, Ahead, Newer, Untroubled
<1>3. ReadsInv /\ [Next]_vars => ReadsInv'
  BY <1>2, ReadsStep
<1> QED
  BY <1>1, <1>3, PTL DEF Spec

\* Every variable keeps its type; no page is longer than MaxLimit.
THEOREM ReadsTypes == Spec => []TypeOK
<1>1. ReadsInv => TypeOK
  BY DEF ReadsInv
<1> QED
  BY <1>1, ReadsInvariant, PTL

\* A chat is one entry in the lists of its participants, for all of them, however
\* many transactions of CreateChat overlap.
THEOREM ListedOnce == Spec => []EachChatIsListedOnce
<1>1. ReadsInv => EachChatIsListedOnce
  <2> DEFINE group(k, r) ==
                 [at |-> r.at,
                  users |-> {x.user : x \in {y \in joined : y.chat = k /\ y.at = r.at}}]
  <2> SUFFICES ASSUME ReadsInv, NEW k \in Chats, NEW g \in Grouped(k), NEW h \in Grouped(k)
               PROVE  g.users = Participants(k) /\ g = h
    BY DEF EachChatIsListedOnce
  <2>1. PICK r \in joined : r.chat = k /\ g = group(k, r)
    BY DEF Grouped
  <2>2. PICK s \in joined : s.chat = k /\ h = group(k, s)
    BY DEF Grouped
  <2>3. \A a, b \in joined : a.chat = b.chat => a.at = b.at
    BY DEF ReadsInv, OneTime
  <2>4. {y \in joined : y.chat = k /\ y.at = r.at} = {y \in joined : y.chat = k}
    BY <2>1, <2>3
  <2>5. g.users = Participants(k)
    BY <2>1, <2>4 DEF Participants
  <2>6. group(k, r) = group(k, s)
    BY <2>1, <2>2, <2>3
  <2> QED
    BY <2>1, <2>2, <2>5, <2>6
<1> QED
  BY <1>1, ReadsInvariant, PTL

\* Paging to the end misses no old message whose timestamp is its own, for any
\* limit that is asked for.
THEOREM NothingOldIsMissed == Spec => []OldMessagesAreRead
<1>1. ReadsInv => OldMessagesAreRead
  BY DEF ReadsInv, OldMessagesAreAhead, Ahead, OldMessagesAreRead
<1> QED
  BY <1>1, ReadsInvariant, PTL

\* In a chat that does not change and has no equal timestamps no message is
\* received twice.
THEOREM NothingIsRepeated == Spec => []RepeatsHaveAReason
<1>1. ReadsInv => RepeatsHaveAReason
  <2> SUFFICES ASSUME ReadsInv, reader # None, Untroubled
               PROVE  ~ reader.received > Cardinality(reader.seen)
    BY DEF RepeatsHaveAReason, Untroubled
  <2>1. reader.received = Cardinality(reader.seen) /\ reader.received \in Nat
    BY DEF ReadsInv, SeenIsNewest, TypeOK
  <2> QED
    BY <2>1
<1> QED
  BY <1>1, ReadsInvariant, PTL
=============================================================================
