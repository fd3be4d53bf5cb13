----------------------------- MODULE ChatService -----------------------------
(***************************************************************************)
(* ChatService and its repositories: concurrent calls of CreateChat,       *)
(* SendMessage and DeleteChat, each a sequence of SQL statements that      *)
(* interleave with those of the other calls, over the tables chats,        *)
(* chat_participants and messages.                                         *)
(*                                                                         *)
(* PostgreSQL is external: a statement outside a transaction is atomic,    *)
(* what a transaction wrote is seen by others when it commits, a key that  *)
(* references a row of chats is checked when a row is inserted, and        *)
(* deleting a chat cascades.  A call is executed by a goroutine (a request,*)
(* or ReadPump for SendMessage); any statement may fail, and a failed one  *)
(* may have been executed (its answer was lost); the process may crash.    *)
(* A chat name and a text are opaque and not empty here.                   *)
(*                                                                         *)
(* CreateChat uses the names it was given.  SendMessage and DeleteChat use *)
(* those that GetChatByID reads from the text of ARRAY_AGG, and nothing    *)
(* keeps a user from a name that reads as other names (MemberList has the  *)
(* conversion, which goes name by name): Pieces says which.                *)
(***************************************************************************)
EXTENDS Naturals, Sequences

CONSTANTS
    User,         \* user names
    Name,         \* user names and whatever else is read for one
    Pieces,       \* user name -> the names read where the database wrote it
    Proc,         \* goroutines that serve calls
    MaxChats,     \* bound: values taken from the sequence chats.id
    MaxMessages,  \* bound: values taken from the sequence messages.id
    None,         \* nil
    MaxFaults     \* bound: failed statements and crashes

ASSUME ServiceAssumption ==
    /\ User \subseteq Name
    /\ Pieces \in [User -> SUBSET Name]
    /\ MaxChats \in Nat
    /\ MaxMessages \in Nat
    /\ MaxFaults \in Nat

ChatId == 1 .. MaxChats
MessageId == 1 .. MaxMessages

\* chat.Members of a chat with the participants S, as GetChatByID reads them.
Named(S) == UNION {Pieces[u] : u \in S}

VARIABLES
    users,         \* table users: names; no code deletes one
    chats,         \* table chats: ids
    participants,  \* table chat_participants: chat -> users
    messages,      \* table messages
    nextChat,      \* sequence of chats.id, never rolled back
    nextMessage,   \* sequence of messages.id
    pc,            \* the statement or call that each goroutine does next
    caller,        \* the user it serves
    chat,          \* its chatID
    members,       \* memberIDs, or chat.Members that GetChatByID returned
    todo,          \* the members that its loop has still to visit
    tx,            \* the participants that its transaction has inserted
    faults,        \* how much of the bound is used
    gone,          \* history: the chats that were deleted
    asked,         \* history: the members that each new chat was created for
    published,     \* history: what was handed to Hub.Broadcast
    notices,       \* history: what was given to Hub.BroadcastToUser
    finished,      \* history: CreateChat and DeleteChat that returned no error
    interrupted    \* history: those that ended after they changed the tables
                   \* and before they had told everybody

tables == <<users, chats, participants, messages, nextChat, nextMessage>>
callVars == <<pc, caller, chat, members, todo, tx>>
histVars == <<gone, asked, published, notices, finished, interrupted>>
vars == <<tables, callVars, faults, histVars>>

Message == [id : MessageId, chat : ChatId, sender : User]
Change == [type : {"chat_created", "chat_deleted"}, chat : ChatId]
Notice == [to : Name, type : {"chat_created", "chat_deleted"}, chat : ChatId]

TypeOK ==
    /\ users \in SUBSET User
    /\ chats \in SUBSET ChatId
    /\ participants \in [ChatId -> SUBSET User]
    /\ messages \in SUBSET Message
    /\ nextChat \in 1 .. MaxChats + 1
    /\ nextMessage \in 1 .. MaxMessages + 1
    /\ pc \in [Proc -> {"idle", "checkUsers", "insertParticipants",
                        "notifyCreated", "getChatToSend", "insertMessage",
                        "publish", "getChatToDelete", "deleteChat",
                        "deleteMessages", "notifyDeleted"}]
    /\ caller \in [Proc -> User \cup {None}]
    /\ chat \in [Proc -> ChatId \cup {None}]
    /\ members \in [Proc -> SUBSET Name]
    /\ todo \in [Proc -> SUBSET Name]
    /\ tx \in [Proc -> SUBSET User]
    /\ \A p \in Proc : todo[p] \cup tx[p] \subseteq members[p]
    /\ faults \in 0 .. MaxFaults
    /\ gone \in SUBSET ChatId
    /\ asked \in [ChatId -> SUBSET User]
    /\ published \in SUBSET [chat : ChatId, sender : User]
    /\ notices \in SUBSET Notice
    /\ finished \in SUBSET [type : {"chat_created", "chat_deleted"},
                            chat : ChatId, by : User]
    /\ interrupted \in SUBSET Change

Init ==
    /\ users = {}
    /\ chats = {}
    /\ participants = [k \in ChatId |-> {}]
    /\ messages = {}
    /\ nextChat = 1
    /\ nextMessage = 1
    /\ pc = [p \in Proc |-> "idle"]
    /\ caller = [p \in Proc |-> None]
    /\ chat = [p \in Proc |-> None]
    /\ members = [p \in Proc |-> {}]
    /\ todo = [p \in Proc |-> {}]
    /\ tx = [p \in Proc |-> {}]
    /\ faults = 0
    /\ gone = {}
    /\ asked = [k \in ChatId |-> {}]
    /\ published = {}
    /\ notices = {}
    /\ finished = {}
    /\ interrupted = {}

\* UserRepository.CreateUser.
CreateUser(u) ==
    /\ users' = users \cup {u}
    /\ UNCHANGED <<chats, participants, messages, nextChat, nextMessage,
                   callVars, faults, histVars>>

\* p goes on at pc with the loop, if there is one, over the users S.
GoTo(p, at) == pc' = [pc EXCEPT ![p] = at]
Loop(p, S) == todo' = [todo EXCEPT ![p] = S]

\* defer tx.Rollback().  (Variant for the checks: the transaction stays open.)
NoRollback(p) == UNCHANGED tx
Rollback(p) == tx' = [tx EXCEPT ![p] = {}]

\* The call of p is over, with or without an error.
Return(p) ==
    /\ GoTo(p, "idle")
    /\ Loop(p, {})
    /\ caller' = [caller EXCEPT ![p] = None]
    /\ chat' = [chat EXCEPT ![p] = None]
    /\ members' = [members EXCEPT ![p] = {}]
    /\ Rollback(p)

-----------------------------------------------------------------------------
(* CreateChat.                                                             *)

\* The handler adds the caller to the members and removes repetitions; fewer
\* than two members are refused at once.
CallCreate(p) ==
    /\ pc[p] = "idle"
    /\ \E u \in users, group \in SUBSET User :
          /\ u \in group
          /\ group # {u}
          /\ caller' = [caller EXCEPT ![p] = u]
          /\ members' = [members EXCEPT ![p] = group]
          /\ Loop(p, group)
    /\ GoTo(p, "checkUsers")
    /\ UNCHANGED <<tables, chat, tx, faults, histVars>>

\* GetUserByName for the next member, in the order the map gave.
CheckUser(p) ==
    /\ pc[p] = "checkUsers"
    /\ \E u \in todo[p] :
          \/ u \notin users /\ Return(p)
          \/ u \in users /\ Loop(p, todo[p] \ {u})
                         /\ UNCHANGED <<pc, caller, chat, members, tx>>
    /\ UNCHANGED <<tables, faults, histVars>>

\* The transaction begins: the row of chats is inserted, the ids of the members
\* are selected (all exist: they were found before and users stay).
InsertChat(p) ==
    /\ pc[p] = "checkUsers"
    /\ todo[p] = {}
    /\ nextChat <= MaxChats
    /\ nextChat' = nextChat + 1
    /\ chat' = [chat EXCEPT ![p] = nextChat]
    /\ Loop(p, members[p])
    /\ GoTo(p, "insertParticipants")
    /\ UNCHANGED <<users, chats, participants, messages, nextMessage, caller,
                   members, tx, faults, histVars>>

InsertParticipant(p) ==
    /\ pc[p] = "insertParticipants"
    /\ \E u \in todo[p] :
          /\ tx' = [tx EXCEPT ![p] = @ \cup {u}]
          /\ Loop(p, todo[p] \ {u})
    /\ UNCHANGED <<tables, pc, caller, chat, members, faults, histVars>>

\* The loop over the participants has ended.  (Variant for the checks: the
\* rows are committed one by one.)
Anytime(p) == TRUE
AllInserted(p) == todo[p] = {}

\* COMMIT makes the chat and its participants visible.  (Variant for the
\* checks: the call goes on without it.)
CommitForgotten(p) == AllInserted(p) /\ UNCHANGED <<chats, participants, asked>>
CommitChat(p) ==
    /\ AllInserted(p)
    /\ chats' = chats \cup {chat[p]}
    /\ participants' = [participants EXCEPT ![chat[p]] = tx[p]]
    /\ asked' = [asked EXCEPT ![chat[p]] = members[p]]

\* notifyChatCreated skips createdBy.  (Variant for the checks: and the caller.)
SkipCallerToo(p, createdBy) == members[p] \ {createdBy, caller[p]}
ToldOfCreation(p, createdBy) == members[p] \ {createdBy}

\* createdBy is memberIDs[0], the first member in the order of the map.
Created(p) ==
    /\ pc[p] = "insertParticipants"
    /\ CommitChat(p)
    /\ \E createdBy \in members[p] : Loop(p, ToldOfCreation(p, createdBy))
    /\ tx' = [tx EXCEPT ![p] = {}]
    /\ GoTo(p, "notifyCreated")
    /\ UNCHANGED <<users, messages, nextChat, nextMessage, caller, chat, members,
                   faults, gone, published, notices, finished, interrupted>>

-----------------------------------------------------------------------------
(* SendMessage, as ReadPump calls it, and DeleteChat.                      *)

CallSend(p) ==
    /\ pc[p] = "idle"
    /\ \E u \in users, k \in ChatId :
          /\ caller' = [caller EXCEPT ![p] = u]
          /\ chat' = [chat EXCEPT ![p] = k]
    /\ GoTo(p, "getChatToSend")
    /\ UNCHANGED <<tables, members, todo, tx, faults, histVars>>

CallDelete(p) ==
    /\ pc[p] = "idle"
    /\ \E u \in users, k \in ChatId :
          /\ caller' = [caller EXCEPT ![p] = u]
          /\ chat' = [chat EXCEPT ![p] = k]
    /\ GoTo(p, "getChatToDelete")
    /\ UNCHANGED <<tables, members, todo, tx, faults, histVars>>

\* isMember of the list that GetChatByID returned.  (Variant for the checks:
\* any user passes.)
AnyUser(u, list) == TRUE
IsMember(u, list) == u \in list

\* GetChatByID, one query; a chat that is absent has no row in the join.
GetChat(p, at, next) ==
    /\ pc[p] = at
    /\ LET list == Named(participants[chat[p]])
       IN \/ /\ chat[p] \in chats
             /\ IsMember(caller[p], list)
             /\ members' = [members EXCEPT ![p] = list]
             /\ GoTo(p, next)
             /\ UNCHANGED <<caller, chat, todo, tx>>
          \/ /\ chat[p] \notin chats \/ ~IsMember(caller[p], list)
             /\ Return(p)
    /\ UNCHANGED <<tables, faults, histVars>>

GetChatToSend(p) == GetChat(p, "getChatToSend", "insertMessage")
GetChatToDelete(p) == GetChat(p, "getChatToDelete", "deleteChat")

\* INSERT INTO messages: refused if the chat it references is not there.
\* (Variant for the checks: the key is not checked.)
NoReference(k) == TRUE
References(k) == k \in chats

StoreMessage(p) ==
    /\ References(chat[p])
    /\ nextMessage <= MaxMessages
    /\ nextMessage' = nextMessage + 1
    /\ messages' = messages \cup
          {[id |-> nextMessage, chat |-> chat[p], sender |-> caller[p]]}

InsertMessage(p) ==
    /\ pc[p] = "insertMessage"
    /\ \/ /\ StoreMessage(p)
          /\ GoTo(p, "publish")
          /\ UNCHANGED <<caller, chat, members, todo, tx>>
       \/ /\ ~References(chat[p])
          /\ Return(p)
          /\ UNCHANGED <<messages, nextMessage>>
    /\ UNCHANGED <<users, chats, participants, nextChat, faults, histVars>>

\* ReadPump: c.Hub.Broadcast <- msg.
Publish(p) ==
    /\ pc[p] = "publish"
    /\ published' = published \cup {[chat |-> chat[p], sender |-> caller[p]]}
    /\ Return(p)
    /\ UNCHANGED <<tables, faults, gone, asked, notices, finished, interrupted>>

\* DELETE FROM chats and its cascade; no row is no error.  (Variant for the
\* checks: no cascade on messages.)
KeptMessages(k) == messages
MessagesWithout(k) == {m \in messages : m.chat # k}

RemoveChat(k) ==
    /\ chats' = chats \ {k}
    /\ participants' = [participants EXCEPT ![k] = {}]
    /\ messages' = MessagesWithout(k)
    /\ gone' = IF k \in chats THEN gone \cup {k} ELSE gone

DeleteChat(p) ==
    /\ pc[p] = "deleteChat"
    /\ RemoveChat(chat[p])
    /\ GoTo(p, "deleteMessages")
    /\ UNCHANGED <<users, nextChat, nextMessage, caller, chat, members, todo, tx,
                   faults, asked, published, notices, finished, interrupted>>

\* notifyChatDeleted is for the members that GetChatByID returned.  (Variant
\* for the checks: not for the caller.)
OtherMembers(p) == members[p] \ {caller[p]}
AllMembers(p) == members[p]

\* DeleteMessagesByChatID; the members are notified whether it fails or not.
DeleteMessages(p) ==
    /\ pc[p] = "deleteMessages"
    /\ \/ /\ messages' = {m \in messages : m.chat # chat[p]}
          /\ UNCHANGED faults
       \/ /\ faults < MaxFaults
          /\ faults' = faults + 1
          /\ UNCHANGED messages
    /\ Loop(p, AllMembers(p))
    /\ GoTo(p, "notifyDeleted")
    /\ UNCHANGED <<users, chats, participants, nextChat, nextMessage, caller,
                   chat, members, tx, histVars>>

-----------------------------------------------------------------------------
(* The notifications of both, and what can go wrong.                       *)

Notify(p, at, type) ==
    /\ pc[p] = at
    /\ \/ \E u \in todo[p] :
            /\ notices' = notices \cup
                  {[to |-> u, type |-> type, chat |-> chat[p]]}
            /\ Loop(p, todo[p] \ {u})
            /\ UNCHANGED <<pc, caller, chat, members, tx, finished>>
       \/ /\ todo[p] = {}
          /\ finished' = finished \cup
                {[type |-> type, chat |-> chat[p], by |-> caller[p]]}
          /\ Return(p)
          /\ UNCHANGED notices
    /\ UNCHANGED <<tables, faults, gone, asked, published, interrupted>>

NotifyCreated(p) == Notify(p, "notifyCreated", "chat_created")
NotifyDeleted(p) == Notify(p, "notifyDeleted", "chat_deleted")

\* What the call of p has changed, and not finished telling, at pc[p].
Untold(p) ==
    CASE pc[p] = "notifyCreated" -> {[type |-> "chat_created", chat |-> chat[p]]}
      [] pc[p] \in {"deleteMessages", "notifyDeleted"} ->
            {[type |-> "chat_deleted", chat |-> chat[p]]}
      [] OTHER -> {}

\* A statement fails and the call returns the error; an open transaction is
\* rolled back.  Or BroadcastToUser panics in the middle of the members: the
\* server answers for the call, and the members after him are not told.
Fail(p) ==
    /\ pc[p] \in {"checkUsers", "insertParticipants", "getChatToSend",
                  "insertMessage", "getChatToDelete", "deleteChat",
                  "notifyCreated", "notifyDeleted"}
    /\ pc[p] \in {"notifyCreated", "notifyDeleted"} => todo[p] # {}
    /\ faults < MaxFaults
    /\ faults' = faults + 1
    /\ interrupted' = interrupted \cup Untold(p)
    /\ Return(p)
    /\ UNCHANGED <<tables, gone, asked, published, notices, finished>>

\* The same, but the server did execute the statement.
FailAfterwards(p) ==
    /\ faults < MaxFaults
    /\ faults' = faults + 1
    /\ \/ /\ pc[p] = "insertParticipants"
          /\ CommitChat(p)
          /\ interrupted' = interrupted \cup
                {[type |-> "chat_created", chat |-> chat[p]]}
          /\ UNCHANGED <<messages, nextMessage, gone>>
       \/ /\ pc[p] = "insertMessage"
          /\ StoreMessage(p)
          /\ UNCHANGED <<chats, participants, gone, asked, interrupted>>
       \/ /\ pc[p] = "deleteChat"
          /\ RemoveChat(chat[p])
          /\ interrupted' = interrupted \cup
                {[type |-> "chat_deleted", chat |-> chat[p]]}
          /\ UNCHANGED <<nextMessage, asked>>
    /\ Return(p)
    /\ UNCHANGED <<users, nextChat, published, notices, finished>>

\* The process is killed and started again.
Crash ==
    /\ faults < MaxFaults
    /\ faults' = faults + 1
    /\ pc' = [p \in Proc |-> "idle"]
    /\ caller' = [p \in Proc |-> None]
    /\ chat' = [p \in Proc |-> None]
    /\ members' = [p \in Proc |-> {}]
    /\ todo' = [p \in Proc |-> {}]
    /\ tx' = [p \in Proc |-> {}]
    /\ interrupted' = interrupted \cup UNION {Untold(p) : p \in Proc}
    /\ UNCHANGED <<tables, gone, asked, published, notices, finished>>

Step(p) ==
    \/ CheckUser(p) \/ InsertChat(p) \/ InsertParticipant(p) \/ Created(p)
    \/ GetChatToSend(p) \/ InsertMessage(p) \/ Publish(p)
    \/ GetChatToDelete(p) \/ DeleteChat(p) \/ DeleteMessages(p)
    \/ NotifyCreated(p) \/ NotifyDeleted(p)

Next ==
    \/ \E u \in User : CreateUser(u)
    \/ \E p \in Proc : CallCreate(p) \/ CallSend(p) \/ CallDelete(p)
    \/ \E p \in Proc : Step(p)
    \/ \E p \in Proc : Fail(p) \/ FailAfterwards(p)
    \/ Crash

Spec == Init /\ [][Next]_vars

-----------------------------------------------------------------------------
\* Whatever calls overlap and fail, a chat has exactly the participants it was
\* created for, and none once it is deleted.
ChatsAreComplete ==
    \A k \in ChatId : participants[k] = IF k \in chats THEN asked[k] ELSE {}

\* A message is of a chat that exists and by somebody whom its list of members
\* names, although SendMessage looks at the list one statement before it
\* inserts.  Where every name reads as itself these are the participants.
MessagesBelong ==
    \A m \in messages :
        m.chat \in chats /\ m.sender \in Named(participants[m.chat])

\* A client that reloads its chats when it is notified finds what the notice
\* says: a created chat is or was there, and he is one of those it was created
\* for; a deleted one is gone for good, and its list named him.
NoticesAreTrue ==
    \A n \in notices :
        \/ /\ n.type = "chat_created"
           /\ n.to \in asked[n.chat]
           /\ n.chat \in chats \cup gone
        \/ /\ n.type = "chat_deleted"
           /\ n.to \in Named(asked[n.chat])
           /\ n.chat \in gone \ chats

\* u has been told of the change, or a loop that is under way will come to him.
Told(u, type, k) == [to |-> u, type |-> type, chat |-> k] \in notices
WillBeTold(u, type, k) ==
    \E p \in Proc :
        /\ chat[p] = k
        /\ \/ type = "chat_created" /\ pc[p] = "notifyCreated" /\ u \in todo[p]
           \/ type = "chat_deleted" /\ pc[p] = "deleteMessages" /\ u \in members[p]
           \/ type = "chat_deleted" /\ pc[p] = "notifyDeleted" /\ u \in todo[p]
Interrupted(type, k) == [type |-> type, chat |-> k] \in interrupted

\* Everybody whom the list of a deleted chat named is told, of whichever of the
\* calls that deleted it, even if the deletion of its messages failed; only an
\* answer that was lost, a panic among the notices or a crash leaves somebody
\* out, and never if one of the calls succeeded.
EveryMemberIsToldOfDeletion ==
    \A k \in gone : \A u \in Named(asked[k]) :
        \/ Told(u, "chat_deleted", k)
        \/ /\ \/ WillBeTold(u, "chat_deleted", k)
              \/ Interrupted("chat_deleted", k)
           /\ \A f \in finished : f.type = "chat_deleted" => f.chat # k

\* Of those a chat was created for, at most one is not told (the one taken for
\* the creator), unless the call was interrupted.
AllButOneAreToldOfCreation ==
    \A k \in chats \cup gone : \A u, w \in asked[k] :
        \/ u = w
        \/ \E x \in {u, w} : \/ Told(x, "chat_created", k)
                             \/ WillBeTold(x, "chat_created", k)
        \/ Interrupted("chat_created", k)

\* Only stored messages, by somebody whom the list of members names, are handed
\* to the hub.
PublishedWasStored ==
    \A x \in published :
        /\ x.sender \in Named(asked[x.chat])
        /\ \/ x.chat \in gone
           \/ \E m \in messages : m.chat = x.chat /\ m.sender = x.sender

\* DELETE FROM messages never finds a row: the cascade and the reference leave
\* none, so that its ignored error costs nothing.
NothingLeftToDelete ==
    \A p \in Proc : pc[p] \in {"deleteMessages", "notifyDeleted"} =>
        \A m \in messages : m.chat # chat[p]

\* A chat is deleted by a member.
OnlyMembersDelete ==
    \A f \in finished : f.type = "chat_deleted" => f.by \in asked[f.chat]

-----------------------------------------------------------------------------
(* The inductive invariant behind all of these.                            *)

\* Serial ids are used once, and a chat that is gone does not come back.
SerialIds ==
    /\ chats \cap gone = {}
    /\ \A k \in chats \cup gone : k < nextChat
    /\ \A m \in messages : m.id < nextMessage

\* An open transaction has an id of its own that nobody else can see yet, and
\* has inserted or will insert every member.
Transactions ==
    /\ \A p \in Proc : pc[p] # "insertParticipants" => tx[p] = {}
    /\ \A p \in Proc : pc[p] = "insertParticipants" =>
          /\ todo[p] \cup tx[p] = members[p]
          /\ chat[p] \in ChatId
          /\ chat[p] < nextChat
          /\ chat[p] \notin chats \cup gone
    /\ \A p \in Proc : pc[p] \in {"checkUsers", "insertParticipants"} =>
          members[p] \subseteq User
    /\ \A p, q \in Proc :
          pc[p] = "insertParticipants" /\ pc[q] = "insertParticipants" /\ p # q
          => chat[p] # chat[q]
    /\ \A p \in Proc : pc[p] \in {"checkUsers", "insertParticipants"} =>
          \E u, w \in members[p] : u # w

\* What a call has learnt from its statements stays true until it uses it, for
\* the members of a chat never change.
CallKnows(p) ==
    /\ pc[p] # "idle" => caller[p] \in User
    /\ todo[p] # {} => pc[p] \in {"checkUsers", "insertParticipants",
                                 "notifyCreated", "notifyDeleted"}
    /\ pc[p] \in {"getChatToSend", "getChatToDelete"} => chat[p] \in ChatId
    /\ pc[p] \in {"insertMessage", "publish", "deleteChat", "deleteMessages",
                  "notifyCreated", "notifyDeleted"} =>
          chat[p] \in chats \cup gone
    /\ pc[p] \in {"insertMessage", "publish", "deleteChat"} =>
          caller[p] \in Named(asked[chat[p]])
    /\ pc[p] = "notifyCreated" => todo[p] \subseteq asked[chat[p]]
    /\ pc[p] \in {"deleteChat", "deleteMessages", "notifyDeleted"} =>
          members[p] = Named(asked[chat[p]])
    /\ pc[p] \in {"deleteMessages", "notifyDeleted"} => chat[p] \in gone
    /\ pc[p] = "publish" =>
          \/ chat[p] \in gone
          \/ \E m \in messages : m.chat = chat[p] /\ m.sender = caller[p]
    /\ pc[p] = "notifyDeleted" => \A u \in members[p] \ todo[p] :
          [to |-> u, type |-> "chat_deleted", chat |-> chat[p]] \in notices

CallsKnow == \A p \in Proc : CallKnows(p)

\* What the notices of a chat rest on.
FinishedAreGone == \A f \in finished : f.type = "chat_deleted" => f.chat \in gone

ServiceInv ==
    /\ TypeOK
    /\ SerialIds /\ Transactions /\ CallsKnow
    /\ ChatsAreComplete /\ MessagesBelong
    /\ NoticesAreTrue /\ PublishedWasStored
    /\ EveryMemberIsToldOfDeletion /\ AllButOneAreToldOfCreation
    /\ FinishedAreGone

\* The service implements the abstract log of chats.
Log == INSTANCE ChatLog WITH alive <- chats, members <- participants,
                             posts <- messages
ImplementsChatLog == Log!Spec
=============================================================================
