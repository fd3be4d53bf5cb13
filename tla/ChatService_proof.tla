-------------------------- MODULE ChatService_proof --------------------------
(***************************************************************************)
(* Proofs about ChatService, for any users, goroutines, ids and faults:    *)
(* ServiceInv is an invariant, every safety property of the module follows *)
(* from it, and the service implements ChatLog.                            *)
(*                                                                         *)
(* The argument has two halves.  What a step does to the tables is one of  *)
(* four things (TableEffects), whichever of the twenty actions did it: so  *)
(* everything said of tables, histories and the abstract log is proved for *)
(* four cases.  What a step does to the calls is proved action by action   *)
(* (CallTypesStep, TransactionsStep, CallsKnowStep).                       *)
(***************************************************************************)
EXTENDS ChatService, TLAPS

-----------------------------------------------------------------------------
(* The parts of the type invariant.                                        *)

TableTypes ==
    /\ users \in SUBSET User
    /\ chats \in SUBSET ChatId
    /\ participants \in [ChatId -> SUBSET User]
    /\ messages \in SUBSET Message
    /\ nextChat \in 1 .. MaxChats + 1
    /\ nextMessage \in 1 .. MaxMessages + 1

CallTypes ==
    /\ pc \in [Proc -> {"idle", "checkUsers", "insertParticipants",
                        "notifyCreated", "getChatToSend", "insertMessage",
                        "publish", "getChatToDelete", "deleteChat",
                        "deleteMessages", "notifyDeleted"}]
    /\ caller \in [Proc -> User \cup {None}]
    /\ chat \in [Proc -> ChatId \cup {None}]
    /\ members \in [Proc -> SUBSET Name]
    /\ todo \in [Proc -> SUBSET Name]
    /\ tx \in [Proc -> SUBSET User]
    /\ \A p \in Proc : todo[p] \cup tx[p] \subseteq members[p]

HistTypes ==
    /\ faults \in 0 .. MaxFaults
    /\ gone \in SUBSET ChatId
    /\ asked \in [ChatId -> SUBSET User]
    /\ published \in SUBSET [chat : ChatId, sender : User]
    /\ notices \in SUBSET Notice
    /\ finished \in SUBSET [type : {"chat_created", "chat_deleted"},
                            chat : ChatId, by : User]
    /\ interrupted \in SUBSET Change

\* The type invariant of the service speaks of the database, of the calls and
\* of the histories, and of nothing else.
LEMMA TypeParts == TypeOK <=> TableTypes /\ CallTypes /\ HistTypes
  BY DEF TypeOK, TableTypes, CallTypes, HistTypes

-----------------------------------------------------------------------------
(* What a step does to the tables.                                         *)

\* What the repository reads for users are names.
LEMMA NamedAreNames ==
    ASSUME NEW S \in SUBSET User
    PROVE  Named(S) \in SUBSET Name
  BY ServiceAssumption DEF Named

TablesKept ==
    /\ UNCHANGED <<chats, participants, messages, nextMessage, gone, asked>>
    /\ users' \in SUBSET User
    /\ \/ nextChat' = nextChat
       \/ nextChat' = nextChat + 1 /\ nextChat <= MaxChats

Commits(p) ==
    /\ pc[p] = "insertParticipants"
    /\ CommitChat(p)
    /\ UNCHANGED <<users, messages, nextChat, nextMessage, gone>>

Stores(p) ==
    /\ pc[p] = "insertMessage"
    /\ StoreMessage(p)
    /\ UNCHANGED <<users, chats, participants, nextChat, gone, asked>>

Deletes(p) ==
    /\ pc[p] = "deleteChat"
    /\ RemoveChat(chat[p])
    /\ UNCHANGED <<users, nextChat, nextMessage, asked>>

\* DELETE FROM messages of a chat that is gone changes nothing: that is why it
\* is not a fifth kind of step.
LEMMA NoMessageOfAGoneChat ==
    ASSUME ServiceInv, NEW k \in gone
    PROVE  messages = {m \in messages : m.chat # k}
  BY DEF ServiceInv, SerialIds, MessagesBelong

\* Of all actions only COMMIT, INSERT INTO messages and DELETE FROM chats, each
\* with or without an answer, change the chats and messages.
LEMMA TableEffects ==
    ASSUME ServiceInv, Next
    PROVE  \/ TablesKept
           \/ \E p \in Proc : Commits(p) \/ Stores(p) \/ Deletes(p)
<1> USE DEF tables, callVars, histVars
<1>1. users \in SUBSET User
  BY DEF ServiceInv, TypeOK
<1>2. CASE \E u \in User : CreateUser(u)
  BY <1>1, <1>2 DEF CreateUser, TablesKept
<1>3. CASE \E p \in Proc : CallCreate(p) \/ CallSend(p) \/ CallDelete(p)
  BY <1>1, <1>3 DEF CallCreate, CallSend, CallDelete, TablesKept
<1>4. CASE \E p \in Proc : \/ CheckUser(p) \/ InsertParticipant(p)
                           \/ GetChatToSend(p) \/ GetChatToDelete(p)
  BY <1>1, <1>4 DEF CheckUser, InsertParticipant, GetChatToSend,
     GetChatToDelete, GetChat, TablesKept
<1>5. CASE \E p \in Proc : Publish(p) \/ NotifyCreated(p) \/ NotifyDeleted(p)
  BY <1>1, <1>5 DEF Publish, NotifyCreated, NotifyDeleted, Notify, TablesKept
<1>6. CASE \E p \in Proc : InsertChat(p)
  BY <1>1, <1>6 DEF InsertChat, TablesKept
<1>7. CASE \E p \in Proc : Created(p)
  BY <1>7 DEF Created, Commits
<1>8. CASE \E p \in Proc : InsertMessage(p)
  BY <1>1, <1>8 DEF InsertMessage, Stores, TablesKept
<1>9. CASE \E p \in Proc : DeleteChat(p)
  BY <1>9 DEF DeleteChat, Deletes
<1>10. CASE \E p \in Proc : DeleteMessages(p)
  <2>1. PICK p \in Proc : DeleteMessages(p)
    BY <1>10
  <2>2. chat[p] \in gone
    BY <2>1 DEF DeleteMessages, ServiceInv, CallsKnow, CallKnows
  <2>3. messages' = messages
    BY <2>1, <2>2, NoMessageOfAGoneChat DEF DeleteMessages
  <2> QED
    BY <1>1, <2>1, <2>3 DEF DeleteMessages, TablesKept
<1>11. CASE \E p \in Proc : Fail(p)
  BY <1>1, <1>11 DEF Fail, TablesKept
<1>12. CASE \E p \in Proc : FailAfterwards(p)
  BY <1>12 DEF FailAfterwards, Commits, Stores, Deletes
<1>13. CASE Crash
  BY <1>1, <1>13 DEF Crash, TablesKept
<1> QED
  BY <1>2, <1>3, <1>4, <1>5, <1>6, <1>7, <1>8, <1>9, <1>10, <1>11, <1>12,
     <1>13 DEF Next, Step

\* COMMIT adds one chat that nobody knew, with all its members, at least two.
LEMMA CommitEffect ==
    ASSUME ServiceInv, NEW p \in Proc, Commits(p)
    PROVE  /\ chat[p] \in ChatId /\ chat[p] \notin chats \cup gone
           /\ chat[p] < nextChat
           /\ chats' = chats \cup {chat[p]}
           /\ members[p] \in SUBSET User
           /\ \E u, w \in members[p] : u # w
           /\ participants' = [participants EXCEPT ![chat[p]] = members[p]]
           /\ asked' = [asked EXCEPT ![chat[p]] = members[p]]
<1>1. tx[p] = members[p]
  BY DEF ServiceInv, Transactions, Commits, CommitChat, AllInserted
<1> QED
  BY <1>1 DEF Commits, CommitChat, ServiceInv, TypeOK, Transactions

\* INSERT INTO messages adds a message of a member, above all others.
LEMMA StoreEffect ==
    ASSUME ServiceInv, NEW p \in Proc, Stores(p)
    PROVE  /\ chat[p] \in chats /\ chat[p] \in ChatId
           /\ caller[p] \in User /\ caller[p] \in Named(participants[chat[p]])
           /\ nextMessage \in MessageId /\ nextMessage' = nextMessage + 1
           /\ \A m \in messages : m.id \in Nat /\ m.id < nextMessage
           /\ messages' = messages \cup {[id |-> nextMessage, chat |-> chat[p],
                                          sender |-> caller[p]]}
<1>1. chat[p] \in chats /\ chat[p] \in ChatId
  BY DEF Stores, StoreMessage, References, ServiceInv, TypeOK
<1>2. caller[p] \in User /\ caller[p] \in Named(participants[chat[p]])
  BY <1>1 DEF Stores, ServiceInv, CallsKnow, CallKnows, ChatsAreComplete
<1>3. nextMessage \in MessageId
  BY ServiceAssumption DEF Stores, StoreMessage, ServiceInv, TypeOK, MessageId
<1>4. \A m \in messages : m.id \in Nat /\ m.id < nextMessage
  BY DEF ServiceInv, TypeOK, SerialIds, Message, MessageId
<1> QED
  BY <1>1, <1>2, <1>3, <1>4 DEF Stores, StoreMessage

\* DELETE FROM chats: the chat was there or is gone already.
LEMMA DeleteEffect ==
    ASSUME ServiceInv, NEW p \in Proc, Deletes(p)
    PROVE  /\ chat[p] \in ChatId
           /\ caller[p] \in User /\ caller[p] \in Named(asked[chat[p]])
           /\ chats' = chats \ {chat[p]}
           /\ gone' = gone \cup {chat[p]}
           /\ participants' = [participants EXCEPT ![chat[p]] = {}]
           /\ messages' = {m \in messages : m.chat # chat[p]}
  BY DEF Deletes, RemoveChat, MessagesWithout, ServiceInv, TypeOK, CallsKnow,
     CallKnows

\* Every step keeps the types of the tables.
LEMMA TableTypesStep ==
    ASSUME ServiceInv, Next
    PROVE  TableTypes'
<1>1. TableTypes
  BY TypeParts DEF ServiceInv
<1>2. CASE TablesKept
  BY <1>1, <1>2, ServiceAssumption DEF TablesKept, TableTypes
<1>3. ASSUME NEW p \in Proc, Commits(p)
      PROVE  TableTypes'
  BY <1>1, <1>3, CommitEffect DEF Commits, TableTypes
<1>4. ASSUME NEW p \in Proc, Stores(p)
      PROVE  TableTypes'
  <2>1. nextMessage' \in 1 .. MaxMessages + 1
    BY <1>4, StoreEffect, ServiceAssumption DEF MessageId
  <2>2. messages' \in SUBSET Message
    BY <1>1, <1>4, StoreEffect DEF TableTypes, Message
  <2> QED
    BY <1>1, <1>4, <2>1, <2>2 DEF Stores, TableTypes
<1>5. ASSUME NEW p \in Proc, Deletes(p)
      PROVE  TableTypes'
  BY <1>1, <1>5, DeleteEffect DEF Deletes, TableTypes
<1> QED
  BY <1>2, <1>3, <1>4, <1>5, TableEffects

\* Every step keeps ids unique, and the chats that are gone, gone.
LEMMA SerialIdsStep ==
    ASSUME ServiceInv, Next
    PROVE  SerialIds'
<1>1. SerialIds /\ nextChat \in Nat /\ chats \cup gone \subseteq Nat
  BY DEF ServiceInv, TypeOK, ChatId
<1>2. CASE TablesKept
  BY <1>1, <1>2 DEF TablesKept, SerialIds
<1>3. ASSUME NEW p \in Proc, Commits(p)
      PROVE  SerialIds'
  BY <1>1, <1>3, CommitEffect DEF Commits, SerialIds
<1>4. ASSUME NEW p \in Proc, Stores(p)
      PROVE  SerialIds'
  <2>1. \A m \in messages' : m.id < nextMessage'
    BY <1>4, StoreEffect DEF MessageId
  <2> QED
    BY <1>1, <1>4, <2>1 DEF Stores, SerialIds
<1>5. ASSUME NEW p \in Proc, Deletes(p)
      PROVE  SerialIds'
  <2>1. chat[p] < nextChat
    BY <1>1, <1>5 DEF Deletes, ServiceInv, CallsKnow, CallKnows, SerialIds
  <2> QED
    BY <1>1, <1>5, <2>1, DeleteEffect DEF Deletes, SerialIds
<1> QED
  BY <1>2, <1>3, <1>4, <1>5, TableEffects

\* Every step keeps the tables consistent: all members or no chat, and no
\* message without its chat and without its sender among the participants.
LEMMA TablesStep ==
    ASSUME ServiceInv, Next
    PROVE  ChatsAreComplete' /\ MessagesBelong'
<1>1. /\ ChatsAreComplete /\ MessagesBelong /\ chats \in SUBSET ChatId
      /\ participants \in [ChatId -> SUBSET User]
      /\ asked \in [ChatId -> SUBSET User]
  BY DEF ServiceInv, TypeOK
<1>2. CASE TablesKept
  BY <1>1, <1>2 DEF TablesKept, ChatsAreComplete, MessagesBelong
<1>3. ASSUME NEW p \in Proc, Commits(p)
      PROVE  ChatsAreComplete' /\ MessagesBelong'
  <2>1. ChatsAreComplete'
    BY <1>1, <1>3, CommitEffect DEF Commits, ChatsAreComplete
  <2>2. \A k \in chats : participants'[k] = participants[k]
    BY <1>1, <1>3, CommitEffect
  <2>3. MessagesBelong'
    BY <1>1, <1>3, <2>2, CommitEffect DEF Commits, MessagesBelong
  <2> QED
    BY <2>1, <2>3
<1>4. ASSUME NEW p \in Proc, Stores(p)
      PROVE  ChatsAreComplete' /\ MessagesBelong'
  BY <1>1, <1>4, StoreEffect DEF Stores, ChatsAreComplete, MessagesBelong
<1>5. ASSUME NEW p \in Proc, Deletes(p)
      PROVE  ChatsAreComplete' /\ MessagesBelong'
  <2>1. ChatsAreComplete'
    <3>1. /\ asked' = asked /\ chats' = chats \ {chat[p]}
          /\ participants' = [participants EXCEPT ![chat[p]] = {}]
      BY <1>5, DeleteEffect DEF Deletes
    <3> QED
      BY <1>1, <3>1 DEF ChatsAreComplete
  <2>2. \A k \in chats \ {chat[p]} : participants'[k] = participants[k]
    BY <1>1, <1>5, DeleteEffect
  <2>3. MessagesBelong'
    BY <1>1, <1>5, <2>2, DeleteEffect DEF MessagesBelong
  <2> QED
    BY <2>1, <2>3
<1> QED
  BY <1>2, <1>3, <1>4, <1>5, TableEffects

-----------------------------------------------------------------------------
(* What a step does to the histories.                                      *)

\* Handing a message to the hub and the notices are steps of their own, that
\* leave the tables alone; every other step leaves these histories alone.
LEMMA HistoryEffects ==
    ASSUME Next
    PROVE  \/ UNCHANGED <<published, notices, finished>>
           \/ \E p \in Proc : \/ Publish(p)
                              \/ NotifyCreated(p) \/ NotifyDeleted(p)
<1> USE DEF tables, callVars, histVars
<1>1. CASE \E u \in User : CreateUser(u)
  BY <1>1 DEF CreateUser
<1>2. CASE \E p \in Proc : CallCreate(p) \/ CallSend(p) \/ CallDelete(p)
  BY <1>2 DEF CallCreate, CallSend, CallDelete
<1>3. CASE \E p \in Proc : \/ CheckUser(p) \/ InsertChat(p)
                           \/ InsertParticipant(p) \/ Created(p)
  BY <1>3 DEF CheckUser, InsertChat, InsertParticipant, Created
<1>4. CASE \E p \in Proc : \/ GetChatToSend(p) \/ InsertMessage(p)
                           \/ GetChatToDelete(p) \/ DeleteChat(p)
                           \/ DeleteMessages(p)
  BY <1>4 DEF GetChatToSend, GetChatToDelete, GetChat, InsertMessage,
     DeleteChat, DeleteMessages
<1>5. CASE Crash \/ \E p \in Proc : Fail(p) \/ FailAfterwards(p)
  BY <1>5 DEF Crash, Fail, FailAfterwards
<1> QED
  BY <1>1, <1>2, <1>3, <1>4, <1>5 DEF Next, Step

\* Publish and the notices leave the tables alone.
LEMMA HistoryStepsKeepTables ==
    ASSUME NEW p \in Proc, Publish(p) \/ NotifyCreated(p) \/ NotifyDeleted(p)
    PROVE  UNCHANGED <<chats, messages, gone, asked>>
  BY DEF Publish, NotifyCreated, NotifyDeleted, Notify, tables

\* A step of a notification loop tells a member, or ends the call.
LEMMA NotifyEffect ==
    ASSUME NEW p \in Proc, NEW at, NEW type, Notify(p, at, type)
    PROVE  /\ UNCHANGED published
           /\ \/ /\ \E u \in todo[p] : notices' = notices \cup
                       {[to |-> u, type |-> type, chat |-> chat[p]]}
                 /\ UNCHANGED finished
              \/ /\ todo[p] = {}
                 /\ finished' = finished \cup
                       {[type |-> type, chat |-> chat[p], by |-> caller[p]]}
                 /\ UNCHANGED notices
  BY DEF Notify

\* Faults are counted up to the bound.
LEMMA FaultsStep ==
    ASSUME faults \in 0 .. MaxFaults, Next
    PROVE  faults' \in 0 .. MaxFaults
<1> USE DEF tables, callVars, histVars
<1>1. CASE UNCHANGED faults
  BY <1>1
<1>2. CASE faults < MaxFaults /\ faults' = faults + 1
  BY <1>2, ServiceAssumption
<1>3. CASE \E u \in User : CreateUser(u)
  BY <1>1, <1>3 DEF CreateUser
<1>4. CASE \E p \in Proc : CallCreate(p) \/ CallSend(p) \/ CallDelete(p)
  BY <1>1, <1>4 DEF CallCreate, CallSend, CallDelete
<1>5. CASE \E p \in Proc : Step(p)
  BY <1>1, <1>2, <1>5
  DEF Step, CheckUser, InsertChat, InsertParticipant, Created, GetChatToSend,
      InsertMessage, Publish, GetChatToDelete, GetChat, DeleteChat,
      DeleteMessages, NotifyCreated, NotifyDeleted, Notify
<1>6. CASE Crash \/ \E p \in Proc : Fail(p) \/ FailAfterwards(p)
  BY <1>2, <1>6 DEF Crash, Fail, FailAfterwards
<1> QED
  BY <1>3, <1>4, <1>5, <1>6 DEF Next

\* An interruption is of a chat that was changed, and is never forgotten.
LEMMA InterruptedStep ==
    ASSUME ServiceInv, Next
    PROVE  interrupted \subseteq interrupted' /\ interrupted' \in SUBSET Change
<1> USE DEF tables, callVars, histVars
<1>1. interrupted \in SUBSET Change /\ chats \cup gone \subseteq ChatId
  BY DEF ServiceInv, TypeOK
<1>2. \A p \in Proc : Untold(p) \subseteq Change
  BY <1>1 DEF Untold, Change, ServiceInv, CallsKnow, CallKnows
<1>3. CASE UNCHANGED interrupted
  BY <1>1, <1>3
<1>4. CASE \E u \in User : CreateUser(u)
  BY <1>3, <1>4 DEF CreateUser
<1>5. CASE \E p \in Proc : CallCreate(p) \/ CallSend(p) \/ CallDelete(p)
  BY <1>3, <1>5 DEF CallCreate, CallSend, CallDelete
<1>6. CASE \E p \in Proc : Step(p)
  BY <1>3, <1>6
  DEF Step, CheckUser, InsertChat, InsertParticipant, Created, GetChatToSend,
      InsertMessage, Publish, GetChatToDelete, GetChat, DeleteChat,
      DeleteMessages, NotifyCreated, NotifyDeleted, Notify
<1>7. ASSUME NEW p \in Proc, FailAfterwards(p)
      PROVE  interrupted \subseteq interrupted' /\ interrupted' \in SUBSET Change
  <2>1. pc[p] \in {"insertParticipants", "deleteChat"} => chat[p] \in ChatId
    BY <1>1 DEF ServiceInv, Transactions, CallsKnow, CallKnows
  <2> QED
    BY <1>1, <1>7, <2>1 DEF FailAfterwards, Change
<1>8. CASE Crash \/ \E p \in Proc : Fail(p)
  BY <1>1, <1>2, <1>8 DEF Crash, Fail
<1> QED
  BY <1>4, <1>5, <1>6, <1>7, <1>8 DEF Next

\* Every step keeps the types of the histories.
LEMMA HistTypesStep ==
    ASSUME ServiceInv, Next
    PROVE  HistTypes'
<1>1. HistTypes
  BY TypeParts DEF ServiceInv
<1>2. faults' \in 0 .. MaxFaults /\ interrupted' \in SUBSET Change
  BY <1>1, FaultsStep, InterruptedStep DEF HistTypes
<1>3. gone' \in SUBSET ChatId /\ asked' \in [ChatId -> SUBSET User]
  <2>1. CASE TablesKept
    BY <1>1, <2>1 DEF TablesKept, HistTypes
  <2>2. ASSUME NEW p \in Proc, Commits(p)
        PROVE  gone' \in SUBSET ChatId /\ asked' \in [ChatId -> SUBSET User]
    BY <1>1, <2>2, CommitEffect DEF Commits, HistTypes
  <2>3. ASSUME NEW p \in Proc, Stores(p)
        PROVE  gone' \in SUBSET ChatId /\ asked' \in [ChatId -> SUBSET User]
    BY <1>1, <2>3 DEF Stores, HistTypes
  <2>4. ASSUME NEW p \in Proc, Deletes(p)
        PROVE  gone' \in SUBSET ChatId /\ asked' \in [ChatId -> SUBSET User]
    BY <1>1, <2>4, DeleteEffect DEF Deletes, HistTypes
  <2> QED
    BY <2>1, <2>2, <2>3, <2>4, TableEffects
<1>4. CASE UNCHANGED <<published, notices, finished>>
  BY <1>1, <1>2, <1>3, <1>4 DEF HistTypes
<1>5. \A p \in Proc : pc[p] \in {"publish", "notifyCreated", "notifyDeleted"} =>
          /\ chat[p] \in ChatId /\ caller[p] \in User
          /\ todo[p] \subseteq Name
  BY DEF ServiceInv, TypeOK, CallsKnow, CallKnows
<1>6. ASSUME NEW p \in Proc, Publish(p)
      PROVE  HistTypes'
  BY <1>1, <1>2, <1>3, <1>5, <1>6 DEF Publish, HistTypes
<1>7. ASSUME NEW p \in Proc, NEW type \in {"chat_created", "chat_deleted"},
             NEW at \in {"notifyCreated", "notifyDeleted"}, Notify(p, at, type)
      PROVE  HistTypes'
  <2>1. chat[p] \in ChatId /\ caller[p] \in User /\ todo[p] \subseteq Name
    BY <1>5, <1>7 DEF Notify
  <2>2. notices' \in SUBSET Notice
    BY <1>1, <1>7, <2>1, NotifyEffect DEF HistTypes, Notice
  <2>3. finished' \in SUBSET [type : {"chat_created", "chat_deleted"},
                              chat : ChatId, by : User]
    BY <1>1, <1>7, <2>1, NotifyEffect DEF HistTypes
  <2> QED
    BY <1>1, <1>2, <1>3, <1>7, <2>2, <2>3, NotifyEffect DEF HistTypes
<1> QED
  BY <1>4, <1>6, <1>7, HistoryEffects DEF NotifyCreated, NotifyDeleted

\* What the histories say of the present.
HistoriesTrue == NoticesAreTrue /\ PublishedWasStored /\ FinishedAreGone

\* No change of the tables makes a history false: no chat that it speaks of
\* gets other members, and what is gone stays gone.
LEMMA TablesKeepHistories ==
    ASSUME ServiceInv, Next, UNCHANGED <<published, notices, finished>>
    PROVE  HistoriesTrue'
<1> USE DEF HistoriesTrue, NoticesAreTrue, PublishedWasStored, FinishedAreGone
<1>1. /\ HistoriesTrue /\ asked \in [ChatId -> SUBSET User]
      /\ chats \cup gone \subseteq ChatId
  BY DEF ServiceInv, TypeOK
<1>2. CASE TablesKept
  BY <1>1, <1>2 DEF TablesKept
<1>3. ASSUME NEW p \in Proc, Commits(p)
      PROVE  HistoriesTrue'
  <2>1. /\ \A n \in notices : n.chat \in chats \cup gone
        /\ \A x \in published : x.chat \in chats \cup gone
        /\ \A f \in finished : f.type = "chat_deleted" => f.chat \in gone
    BY <1>1 DEF ServiceInv, TypeOK, Notice, MessagesBelong
  <2>2. \A k \in chats \cup gone : asked'[k] = asked[k]
    BY <1>1, <1>3, CommitEffect
  <2>3. NoticesAreTrue'
    BY <1>1, <1>3, <2>1, <2>2, CommitEffect DEF Commits
  <2>4. PublishedWasStored'
    BY <1>1, <1>3, <2>1, <2>2 DEF Commits
  <2>5. FinishedAreGone'
    BY <1>1, <1>3, <2>1 DEF Commits
  <2> QED
    BY <2>3, <2>4, <2>5
<1>4. ASSUME NEW p \in Proc, Stores(p)
      PROVE  HistoriesTrue'
  BY <1>1, <1>4, StoreEffect DEF Stores
<1>5. ASSUME NEW p \in Proc, Deletes(p)
      PROVE  HistoriesTrue'
  BY <1>1, <1>5, DeleteEffect DEF Deletes
<1> QED
  BY <1>2, <1>3, <1>4, <1>5, TableEffects

\* Every step keeps the histories true.
LEMMA HistoriesStep ==
    ASSUME ServiceInv, Next
    PROVE  HistoriesTrue'
<1> USE DEF HistoriesTrue, NoticesAreTrue, PublishedWasStored, FinishedAreGone
<1>1. HistoriesTrue
  BY DEF ServiceInv
<1>2. CASE UNCHANGED <<published, notices, finished>>
  BY <1>2, TablesKeepHistories
<1>3. ASSUME NEW p \in Proc, Publish(p)
      PROVE  HistoriesTrue'
  BY <1>1, <1>3, HistoryStepsKeepTables
  DEF Publish, ServiceInv, CallsKnow, CallKnows
<1>4. ASSUME NEW p \in Proc, NotifyCreated(p)
      PROVE  HistoriesTrue'
  <2>1. /\ chat[p] \in chats \cup gone
        /\ todo[p] \subseteq asked[chat[p]]
    BY <1>4
    DEF NotifyCreated, Notify, ServiceInv, CallsKnow, CallKnows, TypeOK
  <2> QED
    BY <1>1, <1>4, <2>1, HistoryStepsKeepTables, NotifyEffect
    DEF NotifyCreated
<1>5. ASSUME NEW p \in Proc, NotifyDeleted(p)
      PROVE  HistoriesTrue'
  <2>1. /\ chat[p] \in gone \ chats
        /\ todo[p] \subseteq Named(asked[chat[p]])
    BY <1>5
    DEF NotifyDeleted, Notify, ServiceInv, CallsKnow, CallKnows, SerialIds,
        TypeOK
  <2> QED
    BY <1>1, <1>5, <2>1, HistoryStepsKeepTables, NotifyEffect
    DEF NotifyDeleted
<1> QED
  BY <1>2, <1>3, <1>4, <1>5, HistoryEffects

-----------------------------------------------------------------------------
(* What a step does to the calls.                                          *)

\* A call that returns leaves nothing behind, and no trace in other calls.
LEMMA ReturnEffect ==
    ASSUME CallTypes, NEW p \in Proc, Return(p)
    PROVE  CallTypes'
  BY DEF CallTypes, Return, Rollback, GoTo, Loop

\* A loop over members goes on with a member less.
LEMMA LoopEffect ==
    ASSUME CallTypes, NEW p \in Proc, NEW u, Loop(p, todo[p] \ {u}),
           UNCHANGED <<pc, caller, chat, members, tx>>
    PROVE  CallTypes'
  BY DEF CallTypes, Loop

\* GetChatByID hands the participants to a call that has no loop under way.
LEMMA GetChatEffect ==
    ASSUME ServiceInv, NEW p \in Proc,
           NEW at \in {"getChatToSend", "getChatToDelete"},
           NEW next \in {"insertMessage", "deleteChat"}, GetChat(p, at, next)
    PROVE  CallTypes'
<1>1. CallTypes
  BY TypeParts DEF ServiceInv
<1>2. CASE Return(p)
  BY <1>1, <1>2, ReturnEffect
<1>3. CASE ~Return(p)
  <2>1. /\ pc[p] = at /\ chat[p] \in chats
        /\ members' = [members EXCEPT ![p] = Named(participants[chat[p]])]
        /\ pc' = [pc EXCEPT ![p] = next]
        /\ UNCHANGED <<caller, chat, todo, tx>>
    BY <1>3 DEF GetChat, GoTo
  <2>2. Named(participants[chat[p]]) \in SUBSET Name
    BY <2>1, NamedAreNames DEF ServiceInv, TypeOK
  <2>3. todo[p] = {} /\ tx[p] = {}
    BY <2>1 DEF ServiceInv, CallsKnow, CallKnows, Transactions
  <2> QED
    BY <1>1, <2>1, <2>2, <2>3 DEF CallTypes
<1> QED
  BY <1>2, <1>3

\* Every step keeps the types of the calls.
LEMMA CallTypesStep ==
    ASSUME ServiceInv, Next
    PROVE  CallTypes'
<1>1. CallTypes
  BY TypeParts DEF ServiceInv
<1>2. ASSUME NEW u \in User, CreateUser(u)
      PROVE  CallTypes'
  BY <1>1, <1>2 DEF CreateUser, CallTypes, callVars
<1>3. ASSUME NEW p \in Proc, CallCreate(p)
      PROVE  CallTypes'
  <2>1. PICK u \in users, group \in SUBSET User :
            /\ caller' = [caller EXCEPT ![p] = u]
            /\ members' = [members EXCEPT ![p] = group]
            /\ todo' = [todo EXCEPT ![p] = group]
    BY <1>3 DEF CallCreate, Loop
  <2>2. u \in User /\ group \in SUBSET Name
    BY ServiceAssumption DEF ServiceInv, TypeOK
  <2>3. tx[p] = {}
    BY <1>3 DEF ServiceInv, Transactions, CallCreate
  <2>4. pc' = [pc EXCEPT ![p] = "checkUsers"] /\ UNCHANGED <<chat, tx>>
    BY <1>3 DEF CallCreate, GoTo
  <2> QED
    BY <1>1, <2>1, <2>2, <2>3, <2>4 DEF CallTypes
<1>4. ASSUME NEW p \in Proc, CallSend(p) \/ CallDelete(p)
      PROVE  CallTypes'
  <2>1. users \in SUBSET User
    BY DEF ServiceInv, TypeOK
  <2> QED
    BY <1>1, <1>4, <2>1 DEF CallSend, CallDelete, GoTo, CallTypes
<1>5. ASSUME NEW p \in Proc, CheckUser(p)
      PROVE  CallTypes'
  BY <1>1, <1>5, ReturnEffect, LoopEffect DEF CheckUser
<1>6. ASSUME NEW p \in Proc, InsertChat(p)
      PROVE  CallTypes'
  BY <1>1, <1>6
  DEF InsertChat, Loop, GoTo, ServiceInv, TypeOK, CallTypes, ChatId
<1>7. ASSUME NEW p \in Proc, InsertParticipant(p)
      PROVE  CallTypes'
  <2>1. todo[p] \subseteq User
    BY <1>7 DEF InsertParticipant, ServiceInv, Transactions
  <2> QED
    BY <1>1, <1>7, <2>1 DEF InsertParticipant, Loop, CallTypes
<1>8. ASSUME NEW p \in Proc, Created(p)
      PROVE  CallTypes'
  BY <1>1, <1>8 DEF Created, ToldOfCreation, Loop, GoTo, CallTypes
<1>9. ASSUME NEW p \in Proc, GetChatToSend(p) \/ GetChatToDelete(p)
      PROVE  CallTypes'
  BY <1>9, GetChatEffect DEF GetChatToSend, GetChatToDelete
<1>10. ASSUME NEW p \in Proc, InsertMessage(p)
      PROVE  CallTypes'
  BY <1>1, <1>10, ReturnEffect DEF InsertMessage, GoTo, CallTypes
<1>11. ASSUME NEW p \in Proc, Publish(p)
      PROVE  CallTypes'
  BY <1>1, <1>11, ReturnEffect DEF Publish
<1>12. ASSUME NEW p \in Proc, DeleteChat(p)
      PROVE  CallTypes'
  BY <1>1, <1>12 DEF DeleteChat, GoTo, CallTypes
<1>13. ASSUME NEW p \in Proc, DeleteMessages(p)
      PROVE  CallTypes'
  BY <1>1, <1>13
  DEF DeleteMessages, AllMembers, Loop, GoTo, CallTypes
<1>14. ASSUME NEW p \in Proc, NotifyCreated(p) \/ NotifyDeleted(p)
      PROVE  CallTypes'
  BY <1>1, <1>14, ReturnEffect, LoopEffect
  DEF NotifyCreated, NotifyDeleted, Notify
<1>15. ASSUME NEW p \in Proc, Fail(p) \/ FailAfterwards(p)
      PROVE  CallTypes'
  BY <1>1, <1>15, ReturnEffect DEF Fail, FailAfterwards
<1>16. CASE Crash
  BY <1>16 DEF Crash, CallTypes
<1> QED
  BY <1>2, <1>3, <1>4, <1>5, <1>6, <1>7, <1>8, <1>9, <1>10, <1>11, <1>12,
     <1>13, <1>14, <1>15, <1>16 DEF Next, Step

\* A call that returns closes its transaction; unless it committed a chat, the
\* ids of the other transactions stay free.
LEMMA ReturnKeepsTransactions ==
    ASSUME ServiceInv, NEW p \in Proc, Return(p), UNCHANGED nextChat,
           chats' \cup gone' = chats \cup gone
    PROVE  Transactions'
  BY DEF Return, Rollback, GoTo, Loop, ServiceInv, TypeOK, Transactions

\* A call at another statement than the insertion of participants has no open
\* transaction, before and after a step within the call.
LEMMA OutsideTransaction ==
    ASSUME ServiceInv, NEW p \in Proc, NEW at, GoTo(p, at),
           pc[p] # "insertParticipants",
           at \notin {"checkUsers", "insertParticipants"},
           \A q \in Proc \ {p} : /\ members'[q] = members[q]
                                 /\ todo'[q] = todo[q] /\ chat'[q] = chat[q],
           UNCHANGED <<tx, nextChat>>, chats' \cup gone' = chats \cup gone
    PROVE  Transactions'
  BY DEF GoTo, ServiceInv, TypeOK, Transactions

\* Every step keeps the open transactions apart.
LEMMA TransactionsStep ==
    ASSUME ServiceInv, Next
    PROVE  Transactions'
<1> USE DEF tables, histVars
<1>1. CallTypes /\ Transactions
  BY TypeParts DEF ServiceInv
<1>2. ASSUME NEW u \in User, CreateUser(u)
      PROVE  Transactions'
  BY <1>1, <1>2 DEF CreateUser, callVars, Transactions
<1>3. ASSUME NEW p \in Proc, CallCreate(p)
      PROVE  Transactions'
  BY <1>1, <1>3 DEF CallCreate, GoTo, Loop, CallTypes, Transactions
<1>4. ASSUME NEW p \in Proc, CallSend(p) \/ CallDelete(p)
      PROVE  Transactions'
  BY <1>1, <1>4, OutsideTransaction DEF CallSend, CallDelete, CallTypes
<1>5. ASSUME NEW p \in Proc, CheckUser(p)
      PROVE  Transactions'
  <2>1. CASE Return(p)
    BY <1>5, <2>1, ReturnKeepsTransactions DEF CheckUser
  <2>2. CASE ~Return(p)
    BY <1>1, <1>5, <2>2 DEF CheckUser, Loop, CallTypes, Transactions
  <2> QED
    BY <2>1, <2>2
<1>6. ASSUME NEW p \in Proc, InsertChat(p)
      PROVE  Transactions'
  <2>1. nextChat \in ChatId /\ nextChat' = nextChat + 1
    BY <1>6, ServiceAssumption DEF InsertChat, ServiceInv, TypeOK, ChatId
  <2>2. \A q \in Proc : pc[q] = "insertParticipants" =>
            chat[q] < nextChat' /\ chat[q] # nextChat
    BY <1>1, <2>1 DEF Transactions, ChatId
  <2>3. nextChat \notin chats \cup gone /\ nextChat < nextChat'
    BY <2>1 DEF ServiceInv, TypeOK, SerialIds, ChatId
  <2> QED
    BY <1>1, <1>6, <2>1, <2>2, <2>3
    DEF InsertChat, Loop, GoTo, CallTypes, Transactions
<1>7. ASSUME NEW p \in Proc, InsertParticipant(p)
      PROVE  Transactions'
  BY <1>1, <1>7 DEF InsertParticipant, Loop, CallTypes, Transactions
<1>8. ASSUME NEW p \in Proc, Created(p)
      PROVE  Transactions'
  BY <1>1, <1>8
  DEF Created, CommitChat, ToldOfCreation, Loop, GoTo, CallTypes, Transactions
<1>9. ASSUME NEW p \in Proc, GetChatToSend(p) \/ GetChatToDelete(p)
      PROVE  Transactions'
  BY <1>1, <1>9, ReturnKeepsTransactions, OutsideTransaction
  DEF GetChatToSend, GetChatToDelete, GetChat, CallTypes
<1>10. ASSUME NEW p \in Proc, InsertMessage(p)
      PROVE  Transactions'
  BY <1>1, <1>10, ReturnKeepsTransactions, OutsideTransaction
  DEF InsertMessage
<1>11. ASSUME NEW p \in Proc, Publish(p)
      PROVE  Transactions'
  BY <1>11, ReturnKeepsTransactions DEF Publish
<1>12. ASSUME NEW p \in Proc, DeleteChat(p)
      PROVE  Transactions'
  BY <1>12, OutsideTransaction DEF DeleteChat, RemoveChat
<1>13. ASSUME NEW p \in Proc, DeleteMessages(p)
      PROVE  Transactions'
  BY <1>1, <1>13, OutsideTransaction DEF DeleteMessages, Loop, CallTypes
<1>14. ASSUME NEW p \in Proc, NotifyCreated(p) \/ NotifyDeleted(p)
      PROVE  Transactions'
  <2>1. CASE Return(p)
    BY <1>14, <2>1, ReturnKeepsTransactions
    DEF NotifyCreated, NotifyDeleted, Notify
  <2>2. CASE ~Return(p)
    BY <1>1, <1>14, <2>2
    DEF NotifyCreated, NotifyDeleted, Notify, Loop, CallTypes, Transactions
  <2> QED
    BY <2>1, <2>2
<1>15. ASSUME NEW p \in Proc, Fail(p)
      PROVE  Transactions'
  BY <1>15, ReturnKeepsTransactions DEF Fail
<1>16. ASSUME NEW p \in Proc, FailAfterwards(p)
      PROVE  Transactions'
  <2>1. CASE pc[p] = "insertParticipants"
    BY <1>1, <1>16, <2>1
    DEF FailAfterwards, CommitChat, Return, Rollback, GoTo, Loop, CallTypes,
        Transactions
  <2>2. CASE pc[p] # "insertParticipants"
    BY <1>16, <2>2, ReturnKeepsTransactions
    DEF FailAfterwards, RemoveChat
  <2> QED
    BY <2>1, <2>2
<1>17. CASE Crash
  BY <1>17 DEF Crash, Transactions
<1> QED
  BY <1>2, <1>3, <1>4, <1>5, <1>6, <1>7, <1>8, <1>9, <1>10, <1>11, <1>12,
     <1>13, <1>14, <1>15, <1>16, <1>17 DEF Next, Step

\* Notices are never withdrawn.
LEMMA NoticesGrow ==
    ASSUME Next
    PROVE  notices \subseteq notices'
  BY HistoryEffects, NotifyEffect DEF Publish, NotifyCreated, NotifyDeleted

\* What a call knows stays true while others take steps: the members of a chat
\* do not change, a chat that is gone stays gone, and a message that is deleted
\* leaves a chat that is gone.
LEMMA KnowledgeStays ==
    ASSUME ServiceInv, Next, NEW q \in Proc,
           pc'[q] = pc[q], caller'[q] = caller[q], chat'[q] = chat[q],
           members'[q] = members[q], todo'[q] = todo[q]
    PROVE  CallKnows(q)'
<1> USE DEF CallKnows
<1>1. /\ CallKnows(q) /\ notices \subseteq notices'
      /\ asked \in [ChatId -> SUBSET User]
      /\ chats \cup gone \subseteq ChatId
  BY NoticesGrow DEF ServiceInv, CallsKnow, TypeOK
<1>2. CASE TablesKept
  BY <1>1, <1>2 DEF TablesKept
<1>3. ASSUME NEW p \in Proc, Commits(p)
      PROVE  CallKnows(q)'
  <2>1. chats \subseteq chats' /\ gone' = gone /\ messages' = messages
    BY <1>3, CommitEffect DEF Commits
  <2>2. \A k \in chats \cup gone : asked'[k] = asked[k]
    BY <1>1, <1>3, CommitEffect
  <2> QED
    BY <1>1, <2>1, <2>2
<1>4. ASSUME NEW p \in Proc, Stores(p)
      PROVE  CallKnows(q)'
  <2>1. messages \subseteq messages' /\ UNCHANGED <<chats, gone, asked>>
    BY <1>4, StoreEffect DEF Stores
  <2> QED
    BY <1>1, <2>1
<1>5. ASSUME NEW p \in Proc, Deletes(p)
      PROVE  CallKnows(q)'
  <2>1. /\ chats \cup gone \subseteq chats' \cup gone' /\ gone \subseteq gone'
        /\ \A m \in messages : m \in messages' \/ m.chat \in gone'
        /\ asked' = asked
    BY <1>5, DeleteEffect DEF Deletes
  <2> QED
    BY <1>1, <2>1
<1> QED
  BY <1>2, <1>3, <1>4, <1>5, TableEffects

\* A step of one call leaves the others where they are.
OthersStay(p) ==
    \A q \in Proc \ {p} :
        /\ pc'[q] = pc[q] /\ caller'[q] = caller[q] /\ chat'[q] = chat[q]
        /\ members'[q] = members[q] /\ todo'[q] = todo[q]

\* A call that has returned has nothing left to know.
LEMMA ReturnKnows ==
    ASSUME CallTypes, NEW p \in Proc, Return(p)
    PROVE  CallKnows(p)' /\ OthersStay(p)
  BY DEF CallTypes, Return, GoTo, Loop, CallKnows, OthersStay

\* A loop that goes on knows what it knew.
LEMMA LoopKnows ==
    ASSUME CallTypes, NEW p \in Proc, NEW u, Loop(p, todo[p] \ {u}),
           UNCHANGED <<pc, caller, chat, members>>
    PROVE  OthersStay(p) /\ todo'[p] = todo[p] \ {u}
  BY DEF CallTypes, Loop, OthersStay

\* A call that has found itself in the chat knows the members.
LEMMA GetChatKnows ==
    ASSUME ServiceInv, NEW p \in Proc,
           NEW at \in {"getChatToSend", "getChatToDelete"},
           NEW next \in {"insertMessage", "deleteChat"}, GetChat(p, at, next)
    PROVE  CallKnows(p)' /\ OthersStay(p)
<1>1. CallTypes
  BY TypeParts DEF ServiceInv
<1>2. CASE Return(p)
  BY <1>1, <1>2, ReturnKnows
<1>3. CASE ~Return(p)
  <2>1. /\ pc[p] = at /\ chat[p] \in chats
        /\ caller[p] \in Named(participants[chat[p]])
        /\ members' = [members EXCEPT ![p] = Named(participants[chat[p]])]
        /\ pc' = [pc EXCEPT ![p] = next]
        /\ UNCHANGED <<caller, chat, todo, chats, gone, asked>>
    BY <1>3 DEF GetChat, GoTo, IsMember, tables, histVars
  <2>2. caller[p] \in User /\ todo[p] = {}
    BY <2>1 DEF ServiceInv, CallsKnow, CallKnows
  <2>3. participants[chat[p]] = asked[chat[p]]
    BY <2>1 DEF ServiceInv, TypeOK, ChatsAreComplete
  <2> QED
    BY <1>1, <2>1, <2>2, <2>3 DEF CallTypes, CallKnows, OthersStay
<1> QED
  BY <1>2, <1>3

\* The call that takes a step knows what its next statement relies on.
LEMMA CallerKnows ==
    ASSUME ServiceInv, NEW p \in Proc,
           \/ CallCreate(p) \/ CallSend(p) \/ CallDelete(p) \/ Step(p)
           \/ Fail(p) \/ FailAfterwards(p)
    PROVE  CallKnows(p)' /\ OthersStay(p)
<1> USE DEF tables, histVars
<1>1. CallTypes /\ CallKnows(p) /\ users \in SUBSET User
  BY TypeParts DEF ServiceInv, TypeOK, CallsKnow
<1>2. CASE CallCreate(p)
  BY <1>1, <1>2
  DEF CallCreate, GoTo, Loop, CallTypes, CallKnows, OthersStay
<1>3. CASE CallSend(p) \/ CallDelete(p)
  BY <1>1, <1>3
  DEF CallSend, CallDelete, GoTo, CallTypes, CallKnows, OthersStay
<1>4. CASE CheckUser(p)
  BY <1>1, <1>4, ReturnKnows, LoopKnows DEF CheckUser, CallKnows
<1>5. CASE InsertChat(p)
  BY <1>1, <1>5
  DEF InsertChat, GoTo, Loop, CallTypes, CallKnows, OthersStay
<1>6. CASE InsertParticipant(p)
  BY <1>1, <1>6, LoopKnows DEF InsertParticipant, CallKnows
<1>7. CASE Created(p)
  <2>1. asked'[chat[p]] = members[p] /\ chat[p] \in chats'
    BY <1>7, CommitEffect
    DEF Created, Commits, ServiceInv, TypeOK
  <2> QED
    BY <1>1, <1>7, <2>1
    DEF Created, ToldOfCreation, GoTo, Loop, CallTypes, CallKnows, OthersStay
<1>8. CASE GetChatToSend(p) \/ GetChatToDelete(p)
  BY <1>8, GetChatKnows DEF GetChatToSend, GetChatToDelete
<1>9. CASE InsertMessage(p)
  <2>1. CASE Return(p)
    BY <1>1, <2>1, ReturnKnows
  <2>2. CASE ~Return(p)
    <3>1. Stores(p)
      BY <1>9, <2>2 DEF InsertMessage, Stores
    <3>2. [id |-> nextMessage, chat |-> chat[p], sender |-> caller[p]]
            \in messages'
      BY <3>1, StoreEffect
    <3> QED
      BY <1>1, <1>9, <2>2, <3>2
      DEF InsertMessage, GoTo, CallTypes, CallKnows, OthersStay
  <2> QED
    BY <2>1, <2>2
<1>10. CASE Publish(p)
  BY <1>1, <1>10, ReturnKnows DEF Publish
<1>11. CASE DeleteChat(p)
  BY <1>1, <1>11, DeleteEffect
  DEF DeleteChat, Deletes, GoTo, CallTypes, CallKnows, OthersStay
<1>12. CASE DeleteMessages(p)
  BY <1>1, <1>12
  DEF DeleteMessages, AllMembers, GoTo, Loop, CallTypes, CallKnows, OthersStay
<1>13. CASE NotifyCreated(p)
  <2>1. CASE Return(p)
    BY <1>1, <2>1, ReturnKnows
  <2>2. CASE ~Return(p)
    <3>1. PICK u \in todo[p] : Loop(p, todo[p] \ {u})
      BY <1>13, <2>2 DEF NotifyCreated, Notify
    <3>2. /\ pc[p] = "notifyCreated"
          /\ UNCHANGED <<pc, caller, chat, members, chats, gone, asked>>
      BY <1>13, <2>2 DEF NotifyCreated, Notify
    <3>3. OthersStay(p) /\ todo'[p] = todo[p] \ {u}
      BY <1>1, <3>1, <3>2, LoopKnows
    <3> QED
      BY <1>1, <3>1, <3>2, <3>3 DEF CallKnows
  <2> QED
    BY <2>1, <2>2
<1>14. CASE NotifyDeleted(p)
  <2>1. CASE Return(p)
    BY <1>1, <2>1, ReturnKnows
  <2>2. CASE ~Return(p)
    <3>1. PICK u \in todo[p] :
            /\ notices' = notices \cup
                  {[to |-> u, type |-> "chat_deleted", chat |-> chat[p]]}
            /\ Loop(p, todo[p] \ {u})
      BY <1>14, <2>2 DEF NotifyDeleted, Notify
    <3>2. /\ pc[p] = "notifyDeleted"
          /\ UNCHANGED <<pc, caller, chat, members, chats, gone, asked>>
      BY <1>14, <2>2 DEF NotifyDeleted, Notify
    <3>3. OthersStay(p) /\ todo'[p] = todo[p] \ {u}
      BY <1>1, <3>1, <3>2, LoopKnows
    <3> QED
      BY <1>1, <3>1, <3>2, <3>3 DEF CallKnows
  <2> QED
    BY <2>1, <2>2
<1>15. CASE Fail(p) \/ FailAfterwards(p)
  BY <1>1, <1>15, ReturnKnows DEF Fail, FailAfterwards
<1> QED
  BY <1>2, <1>3, <1>4, <1>5, <1>6, <1>7, <1>8, <1>9, <1>10, <1>11, <1>12,
     <1>13, <1>14, <1>15 DEF Step

\* Every step keeps what the calls know.
LEMMA CallsKnowStep ==
    ASSUME ServiceInv, Next
    PROVE  CallsKnow'
<1>1. ASSUME NEW u \in User, CreateUser(u)
      PROVE  CallsKnow'
  BY <1>1, KnowledgeStays DEF CreateUser, callVars, CallsKnow
<1>2. ASSUME NEW p \in Proc, CallKnows(p)', OthersStay(p)
      PROVE  CallsKnow'
  BY <1>2, KnowledgeStays DEF OthersStay, CallsKnow
<1>3. CASE Crash
  BY <1>3 DEF Crash, CallsKnow, CallKnows
<1> QED
  BY <1>1, <1>2, <1>3, CallerKnows DEF Next

-----------------------------------------------------------------------------
(* Who is told, and who is not.                                            *)

\* A step within a call, or an error, leaves the other calls where they are.
LEMMA StepOfOne ==
    ASSUME ServiceInv, Next
    PROVE  \/ Crash
           \/ UNCHANGED callVars
           \/ \E p \in Proc :
                 /\ OthersStay(p)
                 /\ \/ CallCreate(p) \/ CallSend(p) \/ CallDelete(p) \/ Step(p)
                    \/ Fail(p) \/ FailAfterwards(p)
  BY CallerKnows DEF Next, CreateUser

\* Whom a loop was to tell is told, or remains to be told, or the loop is
\* interrupted.
LEMMA PromisesAreKept ==
    ASSUME ServiceInv, Next, NEW u, NEW k,
           NEW type \in {"chat_created", "chat_deleted"}, WillBeTold(u, type, k)
    PROVE  Told(u, type, k)' \/ WillBeTold(u, type, k)' \/ Interrupted(type, k)'
<1>1. PICK p \in Proc :
        /\ chat[p] = k
        /\ \/ type = "chat_created" /\ pc[p] = "notifyCreated" /\ u \in todo[p]
           \/ type = "chat_deleted" /\ pc[p] = "deleteMessages" /\ u \in members[p]
           \/ type = "chat_deleted" /\ pc[p] = "notifyDeleted" /\ u \in todo[p]
  BY DEF WillBeTold
<1>2. CallTypes
  BY TypeParts DEF ServiceInv
<1>3. Untold(p) = {[type |-> type, chat |-> k]}
  BY <1>1 DEF Untold
<1>4. CASE Crash
  BY <1>3, <1>4 DEF Crash, Interrupted
<1>5. CASE UNCHANGED callVars
  BY <1>1, <1>5 DEF callVars, WillBeTold
<1>6. ASSUME NEW q \in Proc \ {p}, OthersStay(q)
      PROVE  WillBeTold(u, type, k)'
  BY <1>1, <1>6 DEF OthersStay, WillBeTold
<1>7. CASE Fail(p)
  BY <1>3, <1>7 DEF Fail, Interrupted
<1>8. CASE DeleteMessages(p)
  BY <1>1, <1>2, <1>8
  DEF DeleteMessages, AllMembers, Loop, GoTo, CallTypes, WillBeTold
<1>9. CASE NotifyCreated(p) \/ NotifyDeleted(p)
  <2>1. u \in todo[p]
    BY <1>1, <1>9 DEF NotifyCreated, NotifyDeleted, Notify
  <2>2. PICK w \in todo[p] :
          /\ notices' = notices \cup {[to |-> w, type |-> type, chat |-> k]}
          /\ Loop(p, todo[p] \ {w})
          /\ UNCHANGED <<pc, chat, members>>
    BY <1>1, <1>9, <2>1 DEF NotifyCreated, NotifyDeleted, Notify
  <2>3. CASE w = u
    BY <2>2, <2>3 DEF Told
  <2>4. CASE w # u
    <3>1. u \in todo'[p] /\ chat'[p] = k /\ pc'[p] = pc[p]
      BY <1>1, <1>2, <2>1, <2>2, <2>4 DEF Loop, CallTypes
    <3> QED
      BY <1>1, <1>9, <3>1 DEF WillBeTold, NotifyCreated, NotifyDeleted, Notify
  <2> QED
    BY <2>3, <2>4
<1>10. ASSUME \/ CallCreate(p) \/ CallSend(p) \/ CallDelete(p) \/ Step(p)
              \/ FailAfterwards(p)
       PROVE  DeleteMessages(p) \/ NotifyCreated(p) \/ NotifyDeleted(p)
  BY <1>1, <1>10
  DEF CallCreate, CallSend, CallDelete, FailAfterwards, Step, CheckUser,
      InsertChat, InsertParticipant, Created, GetChatToSend, GetChatToDelete,
      GetChat, InsertMessage, Publish, DeleteChat
<1> QED
  BY <1>4, <1>5, <1>6, <1>7, <1>8, <1>9, <1>10, StepOfOne

\* Chats come and go with three actions.
LEMMA WhoChangesChats ==
    ASSUME Next
    PROVE  \/ UNCHANGED <<chats, gone, asked>>
           \/ \E p \in Proc : Created(p) \/ DeleteChat(p) \/ FailAfterwards(p)
<1> USE DEF tables, callVars, histVars
<1>1. CASE \E u \in User : CreateUser(u)
  BY <1>1 DEF CreateUser
<1>2. CASE \E p \in Proc : CallCreate(p) \/ CallSend(p) \/ CallDelete(p)
  BY <1>2 DEF CallCreate, CallSend, CallDelete
<1>3. CASE \E p \in Proc : CheckUser(p) \/ InsertChat(p) \/ InsertParticipant(p)
  BY <1>3 DEF CheckUser, InsertChat, InsertParticipant
<1>4. CASE \E p \in Proc : \/ GetChatToSend(p) \/ InsertMessage(p) \/ Publish(p)
                           \/ GetChatToDelete(p) \/ DeleteMessages(p)
                           \/ NotifyCreated(p) \/ NotifyDeleted(p)
  BY <1>4 DEF GetChatToSend, GetChatToDelete, GetChat, InsertMessage, Publish,
     DeleteMessages, NotifyCreated, NotifyDeleted, Notify
<1>5. CASE Crash \/ \E p \in Proc : Fail(p)
  BY <1>5 DEF Crash, Fail
<1> QED
  BY <1>1, <1>2, <1>3, <1>4, <1>5 DEF Next, Step

\* The step that deletes a chat has still to tell everybody whom it names, or
\* its answer is lost.
LEMMA DeletionBegins ==
    ASSUME ServiceInv, Next, NEW k \in gone' \ gone, NEW u \in Named(asked[k])
    PROVE  /\ \/ WillBeTold(u, "chat_deleted", k)'
              \/ Interrupted("chat_deleted", k)'
           /\ UNCHANGED <<asked, finished>>
<1>1. CallTypes
  BY TypeParts DEF ServiceInv
<1>2. PICK p \in Proc : DeleteChat(p) \/ (FailAfterwards(p) /\ pc[p] = "deleteChat")
  BY WhoChangesChats DEF Created, FailAfterwards
<1>3. Deletes(p)
  BY <1>2 DEF DeleteChat, FailAfterwards, Deletes
<1>4. chat[p] = k /\ members[p] = Named(asked[k]) /\ asked' = asked
  BY <1>3, DeleteEffect
  DEF Deletes, ServiceInv, CallsKnow, CallKnows
<1>5. CASE DeleteChat(p)
  BY <1>1, <1>4, <1>5 DEF DeleteChat, GoTo, CallTypes, WillBeTold
<1>6. CASE FailAfterwards(p) /\ pc[p] = "deleteChat"
  BY <1>4, <1>6 DEF FailAfterwards, Interrupted
<1> QED
  BY <1>2, <1>5, <1>6

\* The step that creates a chat has still to tell all but one, or its answer is
\* lost.
LEMMA CreationBegins ==
    ASSUME ServiceInv, Next,
           NEW k \in (chats' \cup gone') \ (chats \cup gone),
           NEW u \in asked'[k], NEW w \in asked'[k], u # w
    PROVE  \/ WillBeTold(u, "chat_created", k)'
           \/ WillBeTold(w, "chat_created", k)'
           \/ Interrupted("chat_created", k)'
<1>1. CallTypes /\ asked \in [ChatId -> SUBSET User]
  BY TypeParts DEF ServiceInv, TypeOK
<1>2. ASSUME NEW q \in Proc, Deletes(q)
      PROVE  FALSE
  BY <1>2, DeleteEffect DEF Deletes, ServiceInv, CallsKnow, CallKnows
<1>3. PICK p \in Proc : \/ Created(p)
                        \/ FailAfterwards(p) /\ pc[p] = "insertParticipants"
  BY <1>2, WhoChangesChats DEF DeleteChat, FailAfterwards, Deletes
<1>4. Commits(p)
  BY <1>3 DEF Created, FailAfterwards, Commits
<1>5. chat[p] = k /\ asked'[k] = members[p]
  BY <1>1, <1>4, CommitEffect DEF Commits
<1>6. CASE Created(p)
  <2>1. PICK createdBy \in members[p] : Loop(p, members[p] \ {createdBy})
    BY <1>6 DEF Created, ToldOfCreation
  <2>2. \E x \in {u, w} : x \in todo'[p]
    BY <1>1, <1>5, <2>1 DEF Loop, CallTypes
  <2>3. pc'[p] = "notifyCreated" /\ chat'[p] = k
    BY <1>1, <1>5, <1>6 DEF Created, GoTo, CallTypes
  <2> QED
    BY <2>2, <2>3 DEF WillBeTold
<1>7. CASE FailAfterwards(p) /\ pc[p] = "insertParticipants"
  BY <1>5, <1>7 DEF FailAfterwards, Interrupted
<1> QED
  BY <1>3, <1>6, <1>7

\* The histories of what was told and interrupted only grow.
LEMMA WhatIsTold ==
    ASSUME ServiceInv, Next, NEW u, NEW type, NEW k
    PROVE  /\ Told(u, type, k) => Told(u, type, k)'
           /\ Interrupted(type, k) => Interrupted(type, k)'
  BY NoticesGrow, InterruptedStep DEF Told, Interrupted

\* The members of a chat that was ever there do not change.
LEMMA AskedStays ==
    ASSUME ServiceInv, Next, NEW k \in chats \cup gone
    PROVE  asked'[k] = asked[k] /\ k \in chats' \cup gone'
<1>1. asked \in [ChatId -> SUBSET User] /\ chats \cup gone \subseteq ChatId
  BY DEF ServiceInv, TypeOK
<1>2. CASE TablesKept
  BY <1>2 DEF TablesKept
<1>3. ASSUME NEW p \in Proc, Commits(p)
      PROVE  asked'[k] = asked[k] /\ k \in chats' \cup gone'
  BY <1>1, <1>3, CommitEffect DEF Commits
<1>4. ASSUME NEW p \in Proc, Stores(p) \/ Deletes(p)
      PROVE  asked'[k] = asked[k] /\ k \in chats' \cup gone'
  BY <1>4, DeleteEffect DEF Stores, Deletes
<1> QED
  BY <1>2, <1>3, <1>4, TableEffects

\* A DeleteChat that returns success has told everybody.
LEMMA FinishedHaveTold ==
    ASSUME ServiceInv, Next,
           NEW f \in finished' \ finished, f.type = "chat_deleted",
           NEW u \in Named(asked[f.chat])
    PROVE  Told(u, "chat_deleted", f.chat)
<1>1. PICK p \in Proc : /\ NotifyDeleted(p) /\ todo[p] = {}
                        /\ f.chat = chat[p]
  BY HistoryEffects, NotifyEffect DEF Publish, NotifyCreated, NotifyDeleted
<1> QED
  BY <1>1 DEF NotifyDeleted, Notify, ServiceInv, CallsKnow, CallKnows, Told

\* Every step keeps the account of who was told of a deletion.
LEMMA DeletionToldStep ==
    ASSUME ServiceInv, Next
    PROVE  EveryMemberIsToldOfDeletion'
<1> SUFFICES ASSUME NEW k \in gone', NEW u \in Named(asked'[k])
             PROVE  \/ Told(u, "chat_deleted", k)'
                    \/ /\ \/ WillBeTold(u, "chat_deleted", k)'
                          \/ Interrupted("chat_deleted", k)'
                       /\ \A f \in finished' :
                             f.type = "chat_deleted" => f.chat # k
  BY DEF EveryMemberIsToldOfDeletion, Named
<1>1. CASE k \in gone
  <2>1. u \in Named(asked[k])
    BY <1>1, AskedStays
  <2>2. CASE Told(u, "chat_deleted", k)
    BY <2>2, WhatIsTold
  <2>3. CASE ~Told(u, "chat_deleted", k)
    <3>1. /\ \/ WillBeTold(u, "chat_deleted", k)
             \/ Interrupted("chat_deleted", k)
          /\ \A f \in finished : f.type = "chat_deleted" => f.chat # k
      BY <1>1, <2>1, <2>3 DEF ServiceInv, EveryMemberIsToldOfDeletion
    <3>2. \A f \in finished' : f.type = "chat_deleted" => f.chat # k
      BY <2>1, <2>3, <3>1, FinishedHaveTold
    <3> QED
      BY <3>1, <3>2, PromisesAreKept, WhatIsTold
  <2> QED
    BY <2>2, <2>3
<1>2. CASE k \notin gone
  <2>1. \A v \in Named(asked[k]) :
          /\ \/ WillBeTold(v, "chat_deleted", k)'
             \/ Interrupted("chat_deleted", k)'
          /\ UNCHANGED <<asked, finished>>
    BY <1>2, DeletionBegins
  <2>2. asked' = asked
    <3>1. PICK p \in Proc : Deletes(p)
      BY <1>2, TableEffects DEF TablesKept, Commits, Stores
    <3> QED
      BY <3>1 DEF Deletes
  <2>3. \A f \in finished : f.type = "chat_deleted" => f.chat # k
    BY <1>2 DEF ServiceInv, FinishedAreGone
  <2> QED
    BY <2>1, <2>2, <2>3
<1> QED
  BY <1>1, <1>2

\* Every step keeps the account of who was told of a creation.
LEMMA CreationToldStep ==
    ASSUME ServiceInv, Next
    PROVE  AllButOneAreToldOfCreation'
<1> SUFFICES ASSUME NEW k \in chats' \cup gone',
                    NEW u \in asked'[k], NEW w \in asked'[k], u # w
             PROVE  \/ \E x \in {u, w} : \/ Told(x, "chat_created", k)'
                                         \/ WillBeTold(x, "chat_created", k)'
                    \/ Interrupted("chat_created", k)'
  BY DEF AllButOneAreToldOfCreation
<1>1. CASE k \in chats \cup gone
  <2>1. asked'[k] = asked[k]
    BY <1>1, AskedStays
  <2>2. \/ \E x \in {u, w} : \/ Told(x, "chat_created", k)
                             \/ WillBeTold(x, "chat_created", k)
        \/ Interrupted("chat_created", k)
    BY <1>1, <2>1 DEF ServiceInv, AllButOneAreToldOfCreation
  <2> QED
    BY <2>2, PromisesAreKept, WhatIsTold
<1>2. CASE k \notin chats \cup gone
  BY <1>2, CreationBegins
<1> QED
  BY <1>1, <1>2

-----------------------------------------------------------------------------
(* The theorems.                                                           *)

\* The invariant holds before the first call.
LEMMA ServiceInvInit ==
    ASSUME Init
    PROVE  ServiceInv
  BY ServiceAssumption
  DEF Init, ServiceInv, TypeOK, SerialIds, Transactions, CallsKnow, CallKnows,
      ChatsAreComplete, MessagesBelong, NoticesAreTrue, PublishedWasStored,
      EveryMemberIsToldOfDeletion, AllButOneAreToldOfCreation, FinishedAreGone

\* Every step keeps it.
LEMMA ServiceInvStep ==
    ASSUME ServiceInv, [Next]_vars
    PROVE  ServiceInv'
<1>1. CASE Next
  <2>1. TypeOK'
    <3>1. TableTypes' /\ CallTypes' /\ HistTypes'
      BY <1>1, TableTypesStep, CallTypesStep, HistTypesStep
    <3> QED
      BY <3>1 DEF TypeOK, TableTypes, CallTypes, HistTypes
  <2> QED
    BY <1>1, <2>1, SerialIdsStep, TransactionsStep, CallsKnowStep, TablesStep,
       HistoriesStep, DeletionToldStep, CreationToldStep
    DEF ServiceInv, HistoriesTrue
<1>2. CASE UNCHANGED vars
  BY <1>2
  DEF vars, tables, callVars, histVars, ServiceInv, TypeOK, SerialIds,
      Transactions, CallsKnow, CallKnows, ChatsAreComplete, MessagesBelong,
      NoticesAreTrue, PublishedWasStored, EveryMemberIsToldOfDeletion,
      AllButOneAreToldOfCreation, FinishedAreGone, Told, WillBeTold,
      Interrupted
<1> QED
  BY <1>1, <1>2

\* The inductive invariant holds for any number of concurrent CreateChat,
\* SendMessage and DeleteChat calls, failures and crashes.
THEOREM ServiceInvariant == Spec => []ServiceInv
  BY ServiceInvInit, ServiceInvStep, PTL DEF Spec

\* A chat is visible with exactly the members it was created for, or not at
\* all (CreateChat's transaction).
THEOREM CompleteChats == Spec => [](TypeOK /\ ChatsAreComplete)
<1>1. ServiceInv => TypeOK /\ ChatsAreComplete
  BY DEF ServiceInv
<1> QED
  BY <1>1, ServiceInvariant, PTL

\* SendMessage reads the list of members one statement before it inserts, and
\* still no message is without its chat (the foreign key), or by somebody whom
\* the list did not name.
THEOREM BelongingMessages == Spec => []MessagesBelong
<1>1. ServiceInv => MessagesBelong
  BY DEF ServiceInv
<1> QED
  BY <1>1, ServiceInvariant, PTL

\* In a chat whose participants all have names that read as themselves only
\* participants have posted.
THEOREM PlainChatsAreClosed ==
    Spec => [](\A m \in messages :
                  (\A u \in participants[m.chat] : Pieces[u] = {u})
                  => m.sender \in participants[m.chat])
<1>1. MessagesBelong => \A m \in messages :
          (\A u \in participants[m.chat] : Pieces[u] = {u})
          => m.sender \in participants[m.chat]
  BY DEF MessagesBelong, Named
<1> QED
  BY <1>1, BelongingMessages, PTL

\* What clients are told is true when they look.
THEOREM TrueNotices == Spec => []NoticesAreTrue
<1>1. ServiceInv => NoticesAreTrue
  BY DEF ServiceInv
<1> QED
  BY <1>1, ServiceInvariant, PTL

\* Each message that the hub is handed was stored, by somebody whom the list of
\* its chat names.
THEOREM StoredBeforePublished == Spec => []PublishedWasStored
<1>1. ServiceInv => PublishedWasStored
  BY DEF ServiceInv
<1> QED
  BY <1>1, ServiceInvariant, PTL

\* Tables, calls and what was told have their types.
THEOREM ServiceTypes == Spec => []TypeOK
<1>1. ServiceInv => TypeOK
  BY DEF ServiceInv
<1> QED
  BY <1>1, ServiceInvariant, PTL

\* Everybody whom the list of a deleted chat named is told, but for losses,
\* panics and crashes in every call that deleted it.
THEOREM DeletionIsTold == Spec => []EveryMemberIsToldOfDeletion
<1>1. ServiceInv => EveryMemberIsToldOfDeletion
  BY DEF ServiceInv
<1> QED
  BY <1>1, ServiceInvariant, PTL

\* All but one of those a chat was created for are told, but for losses, panics
\* and crashes.
THEOREM CreationIsTold == Spec => []AllButOneAreToldOfCreation
<1>1. ServiceInv => AllButOneAreToldOfCreation
  BY DEF ServiceInv
<1> QED
  BY <1>1, ServiceInvariant, PTL

\* DeleteMessagesByChatID, whose error DeleteChat ignores, has nothing to do.
THEOREM NoMessagesLeft == Spec => []NothingLeftToDelete
<1>1. ServiceInv => NothingLeftToDelete
  BY DEF ServiceInv, CallsKnow, CallKnows, SerialIds, MessagesBelong,
     NothingLeftToDelete
<1> QED
  BY <1>1, ServiceInvariant, PTL

-----------------------------------------------------------------------------
(* The refinement.                                                         *)

\* COMMIT of CreateChat is the creation of the chat for its members.
LEMMA CommitIsCreate ==
    ASSUME ServiceInv, NEW p \in Proc, Commits(p)
    PROVE  Log!Create(chat[p], members[p])
  BY CommitEffect DEF Commits, Log!Create

\* INSERT INTO messages is a post by somebody whom the list names, under a new
\* id.
LEMMA StoreIsPost ==
    ASSUME ServiceInv, NEW p \in Proc, Stores(p)
    PROVE  Log!Post(chat[p], caller[p], nextMessage)
<1>1. \A m \in messages : m.id # nextMessage
  BY StoreEffect DEF MessageId
<1> QED
  BY <1>1, StoreEffect DEF Stores, Named, Log!NamedIn, Log!Post

\* DELETE FROM chats is the deletion by somebody whom the list names, or happens to a chat that
\* another call has deleted: then nothing changes.
LEMMA DeleteIsDelete ==
    ASSUME ServiceInv, NEW p \in Proc, Deletes(p)
    PROVE  Log!Delete(chat[p], caller[p]) \/ UNCHANGED Log!vars
<1>1. CASE chat[p] \in chats
  <2>1. caller[p] \in Named(participants[chat[p]])
    BY <1>1, DeleteEffect DEF ServiceInv, ChatsAreComplete
  <2> QED
    BY <1>1, <2>1, DeleteEffect DEF Named, Log!NamedIn, Log!Delete
<1>2. CASE chat[p] \notin chats
  <2>1. chat[p] \in gone
    BY <1>2 DEF Deletes, ServiceInv, CallsKnow, CallKnows
  <2>2. chats' = chats /\ gone' = gone
    <3>1. chats' = chats \ {chat[p]} /\ gone' = gone \cup {chat[p]}
      BY DeleteEffect
    <3> QED
      BY <1>2, <2>1, <3>1
  <2>3. participants[chat[p]] = {}
    BY <1>2, DeleteEffect DEF ServiceInv, ChatsAreComplete
  <2>4. participants \in [ChatId -> SUBSET User]
    BY DEF ServiceInv, TypeOK
  <2>5. participants' = participants
    <3>1. participants' = [participants EXCEPT ![chat[p]] = {}]
      BY DeleteEffect
    <3> QED
      BY <2>3, <2>4, <3>1
  <2>6. messages' = messages
    BY <2>1, DeleteEffect, NoMessageOfAGoneChat
  <2> QED
    BY <2>2, <2>5, <2>6 DEF Log!vars
<1> QED
  BY <1>1, <1>2

\* Whatever calls overlap, fail and crash, users of the service see chats
\* appear with all members, messages and deletions only by those whom the list
\* of members names, and chats disappear with their messages for ever: the
\* statements of the repositories are these steps, and everything else is
\* invisible.
THEOREM ServiceImplementsChatLog == Spec => ImplementsChatLog
<1>1. Init => Log!Init
  BY DEF Init, Log!Init
<1>2. ServiceInv /\ [Next]_vars => [Log!Next]_(Log!vars)
  <2>1. CASE UNCHANGED vars
    BY <2>1 DEF vars, tables, histVars, Log!vars
  <2>2. ASSUME ServiceInv, Next
        PROVE  [Log!Next]_(Log!vars)
    <3>1. CASE TablesKept
      BY <3>1 DEF TablesKept, Log!vars
    <3>2. ASSUME NEW p \in Proc, Commits(p)
          PROVE  [Log!Next]_(Log!vars)
      BY <2>2, <3>2, CommitIsCreate, CommitEffect DEF Log!Next
    <3>3. ASSUME NEW p \in Proc, Stores(p)
          PROVE  [Log!Next]_(Log!vars)
      BY <2>2, <3>3, StoreIsPost, StoreEffect DEF Log!Next
    <3>4. ASSUME NEW p \in Proc, Deletes(p)
          PROVE  [Log!Next]_(Log!vars)
      BY <2>2, <3>4, DeleteIsDelete, DeleteEffect DEF Log!Next
    <3> QED
      BY <2>2, <3>1, <3>2, <3>3, <3>4, TableEffects
  <2> QED
    BY <2>1, <2>2
<1> QED
  BY <1>1, <1>2, ServiceInvariant, PTL DEF Spec, ImplementsChatLog, Log!Spec
=============================================================================
