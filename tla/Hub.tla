-------------------------------- MODULE Hub --------------------------------
(***************************************************************************)
(* The WebSocket hub of the messenger: the goroutine of Hub.Run, the       *)
(* ReadPump and WritePump goroutines of every connection, the request      *)
(* goroutines that call Hub.BroadcastToUser, and the panics that end the   *)
(* process.                                                                *)
(*                                                                         *)
(* Register, Unregister and Broadcast are unbuffered channels: a receive   *)
(* of the hub is one step with the send of the goroutine blocked on it.    *)
(* What a goroutine does between two accesses to shared state is one step. *)
(* Message contents are opaque here.                                       *)
(***************************************************************************)
EXTENDS Naturals, Sequences

CONSTANTS
    User,       \* user names
    Client,     \* connections, each used once (a *Client of hub.go)
    Owner,      \* Owner[c] is the user whose token opened connection c
    Chat,       \* chat identifiers
    Caller,     \* request goroutines that call BroadcastToUser
    HubLoop,    \* the goroutine of Hub.Run
    None,       \* nil
    BufCap,     \* capacity of Client.Send (256 in the code)
    MaxFrames,  \* bound: frames read from all the connections together
    MaxCalls    \* bound: calls of BroadcastToUser

ASSUME ConstantsAssumption ==
    /\ Owner \in [Client -> User]
    /\ HubLoop \notin Caller
    /\ None \notin Client
    /\ BufCap \in Nat \ {0}
    /\ MaxFrames \in Nat
    /\ MaxCalls \in Nat

VARIABLES
    clients,    \* Hub.Clients: user -> connection or None
    chatRooms,  \* Hub.ChatRooms: chat -> members ({} is an absent room)
    chatIDs,    \* Client.ChatIDs
    send,       \* what Client.Send holds
    closed,     \* has Client.Send been closed?
    conn,       \* the socket: "none", "open", "lost" (peer gone), "closed"
    reader,     \* where HandleWebSocket, then ReadPump, of c stands
    out,        \* the models.Message that ReadPump of c is publishing
    writer,     \* where WritePump of c stands
    hub,        \* where Hub.Run stands
    cur,        \* the *Client that Hub.Run registers or unregisters
    curMsg,     \* the models.Message that Hub.Run handles
    todo,       \* users the loop over the room has still to visit
    push,       \* where each pusher stands in the lookup-send-close-delete code
    pushUser,   \* its userID
    pushClient, \* its client
    panicked,   \* the process is gone
    frames, calls,  \* how much of the bounds is used
    overflowed, \* history: connections closed because their buffer was full
    posted,     \* history: messages the hub has started to fan out, per chat
    seen,       \* history: last message of the chat that WritePump of c took, or
                \* the last one posted when c came to follow the chat
    doubled     \* history: users who had two connections at once

roomVars == <<clients, chatRooms, chatIDs>>
pumpVars == <<conn, reader, out, writer>>
hubVars  == <<hub, cur, curMsg, todo>>
pushVars == <<push, pushUser, pushClient>>
histVars == <<overflowed, posted, seen, doubled>>
vars == <<roomVars, send, closed, pumpVars, hubVars, pushVars, panicked,
          frames, calls, histVars>>

Pusher == Caller \cup {HubLoop}

Broadcasts == [type : {"join_chat", "message"}, chat : Chat, sender : User]

\* What travels through Client.Send: the n-th message of a chat, a
\* chat_created or chat_deleted notification, an error reply.
Message(k, n) == [kind |-> "message", chat |-> k, n |-> n]
Notice        == [kind |-> "notice", chat |-> None, n |-> 0]
ErrorReply    == [kind |-> "error", chat |-> None, n |-> 0]

Items == [kind : {"message"}, chat : Chat, n : Nat] \cup {Notice, ErrorReply}

\* Type invariant; the last conjunct is the capacity of the channels.

TypeOK ==
    /\ clients \in [User -> Client \cup {None}]
    /\ chatRooms \in [Chat -> SUBSET User]
    /\ chatIDs \in [Client -> SUBSET Chat]
    /\ send \in [Client -> Seq(Items)]
    /\ closed \in [Client -> BOOLEAN]
    /\ conn \in [Client -> {"none", "open", "lost", "closed"}]
    /\ reader \in [Client -> {"none", "registering", "reading", "publish",
                              "reply", "leaving", "done"}]
    /\ out \in [Client -> Broadcasts \cup {None}]
    /\ writer \in [Client -> {"none", "running", "writing", "done"}]
    /\ hub \in {"select", "register", "unregister", "join", "message"}
    /\ cur \in Client \cup {None}
    /\ curMsg \in Broadcasts \cup {None}
    /\ todo \in SUBSET User
    /\ push \in [Pusher -> {"idle", "lookup", "send", "close", "delete"}]
    /\ pushUser \in [Pusher -> User \cup {None}]
    /\ pushClient \in [Pusher -> Client \cup {None}]
    /\ panicked \in BOOLEAN
    /\ frames \in 0 .. MaxFrames
    /\ calls \in 0 .. MaxCalls
    /\ overflowed \in SUBSET Client
    /\ posted \in [Chat -> Nat]
    /\ seen \in [Client -> [Chat -> Nat]]
    /\ doubled \in SUBSET User
    /\ \A c \in Client : Len(send[c]) <= BufCap

Init ==
    /\ clients = [u \in User |-> None]
    /\ chatRooms = [k \in Chat |-> {}]
    /\ chatIDs = [c \in Client |-> {}]
    /\ send = [c \in Client |-> <<>>]
    /\ closed = [c \in Client |-> FALSE]
    /\ conn = [c \in Client |-> "none"]
    /\ reader = [c \in Client |-> "none"]
    /\ out = [c \in Client |-> None]
    /\ writer = [c \in Client |-> "none"]
    /\ hub = "select"
    /\ cur = None
    /\ curMsg = None
    /\ todo = {}
    /\ push = [p \in Pusher |-> "idle"]
    /\ pushUser = [p \in Pusher |-> None]
    /\ pushClient = [p \in Pusher |-> None]
    /\ panicked = FALSE
    /\ frames = 0
    /\ calls = 0
    /\ overflowed = {}
    /\ posted = [k \in Chat |-> 0]
    /\ seen = [c \in Client |-> [k \in Chat |-> 0]]
    /\ doubled = {}

-----------------------------------------------------------------------------
(* HandleWebSocket, and the socket itself.                                 *)

\* c exists for the hub: its handler has started and it is not unregistered.
Live(c) == \/ reader[c] \notin {"none", "done"}
           \/ hub = "unregister" /\ cur = c

\* A valid token: the socket is upgraded, the handler blocks on Register.  Nobody
\* asks whether the user has another connection.
Connect(c) ==
    /\ reader[c] = "none"
    /\ reader' = [reader EXCEPT ![c] = "registering"]
    /\ conn' = [conn EXCEPT ![c] = "open"]
    /\ doubled' = IF \E d \in Client : Owner[d] = Owner[c] /\ Live(d)
                  THEN doubled \cup {Owner[c]} ELSE doubled
    /\ UNCHANGED <<roomVars, send, closed, out, writer, hubVars, pushVars,
                   panicked, frames, calls, overflowed, posted, seen>>

\* The peer goes away, and reading from the socket fails from now on.  (A loss that
\* nobody notices leaves the connection open: there is no read deadline.)
PeerLost(c) ==
    /\ conn[c] = "open"
    /\ conn' = [conn EXCEPT ![c] = "lost"]
    /\ UNCHANGED <<roomVars, send, closed, reader, out, writer, hubVars,
                   pushVars, panicked, frames, calls, histVars>>

-----------------------------------------------------------------------------
(* ReadPump.                                                               *)

\* A join_chat frame, or a message frame that ChatService.SendMessage accepted.
ReadPublish(c) ==
    /\ reader[c] = "reading"
    /\ conn[c] = "open"
    /\ frames < MaxFrames
    /\ frames' = frames + 1
    /\ \E type \in {"join_chat", "message"}, k \in Chat :
          out' = [out EXCEPT ![c] =
                    [type |-> type, chat |-> k, sender |-> Owner[c]]]
    /\ reader' = [reader EXCEPT ![c] = "publish"]
    /\ UNCHANGED <<roomVars, send, closed, conn, writer, hubVars, pushVars,
                   panicked, calls, histVars>>

\* A frame with a malformed chat_id, or a message that SendMessage refused.
ReadReject(c) ==
    /\ reader[c] = "reading"
    /\ conn[c] = "open"
    /\ frames < MaxFrames
    /\ frames' = frames + 1
    /\ reader' = [reader EXCEPT ![c] = "reply"]
    /\ UNCHANGED <<roomVars, send, closed, conn, out, writer, hubVars, pushVars,
                   panicked, calls, histVars>>

\* Client.Send can take one more item.  (Variant for the checks: a queue
\* without capacity.)
UnboundedRoom(c) == TRUE
HasRoom(c) == Len(send[c]) < BufCap

\* c.Send <- errorData blocks while the buffer is full; it panics, and the
\* process with it, once the channel is closed.
ReplyError(c) ==
    /\ reader[c] = "reply"
    /\ \/ /\ closed[c]
          /\ panicked' = TRUE
          /\ UNCHANGED <<send, reader>>
       \/ /\ ~closed[c]
          /\ HasRoom(c)
          /\ send' = [send EXCEPT ![c] = Append(@, ErrorReply)]
          /\ reader' = [reader EXCEPT ![c] = "reading"]
          /\ UNCHANGED panicked
    /\ UNCHANGED <<roomVars, closed, conn, out, writer, hubVars, pushVars,
                   frames, calls, histVars>>

\* ReadMessage fails: the deferred function blocks on Unregister.
ReadError(c) ==
    /\ reader[c] = "reading"
    /\ conn[c] \in {"lost", "closed"}
    /\ reader' = [reader EXCEPT ![c] = "leaving"]
    /\ UNCHANGED <<roomVars, send, closed, conn, out, writer, hubVars, pushVars,
                   panicked, frames, calls, histVars>>

-----------------------------------------------------------------------------
(* WritePump.                                                              *)

\* Take the next buffered item and start to write it to the socket.
WriteTake(c) ==
    /\ writer[c] = "running"
    /\ send[c] # <<>>
    /\ send' = [send EXCEPT ![c] = Tail(@)]
    /\ writer' = [writer EXCEPT ![c] = "writing"]
    /\ LET item == Head(send[c]) IN
          seen' = IF item.kind = "message"
                  THEN [seen EXCEPT ![c][item.chat] = item.n]
                  ELSE seen
    /\ UNCHANGED <<roomVars, closed, conn, reader, out, hubVars, pushVars,
                   panicked, frames, calls, overflowed, posted, doubled>>

\* The write succeeds (it may, into the kernel's buffer, when the peer is gone).
WriteDone(c) ==
    /\ writer[c] = "writing"
    /\ conn[c] # "closed"
    /\ writer' = [writer EXCEPT ![c] = "running"]
    /\ UNCHANGED <<roomVars, send, closed, conn, reader, out, hubVars, pushVars,
                   panicked, frames, calls, histVars>>

\* WritePump returns, after a failed write or because Send is closed and
\* drained; its deferred function closes the socket.  (Variants for the checks:
\* it closes Send as well; it does not see that Send is closed.)
WriteStopCloses(c) ==
    /\ writer[c] = "writing" /\ conn[c] # "open"
    /\ writer' = [writer EXCEPT ![c] = "done"]
    /\ conn' = [conn EXCEPT ![c] = "closed"]
    /\ closed' = [closed EXCEPT ![c] = TRUE]
    /\ UNCHANGED <<roomVars, send, reader, out, hubVars, pushVars, panicked, frames,
                   calls, histVars>>
WriteStopOnError(c) ==
    /\ writer[c] = "writing" /\ conn[c] # "open"
    /\ writer' = [writer EXCEPT ![c] = "done"]
    /\ conn' = [conn EXCEPT ![c] = "closed"]
    /\ UNCHANGED <<roomVars, send, closed, reader, out, hubVars, pushVars,
                   panicked, frames, calls, histVars>>
WriteStop(c) ==
    /\ \/ writer[c] = "writing" /\ conn[c] # "open"
       \/ writer[c] = "running" /\ closed[c] /\ send[c] = <<>>
    /\ writer' = [writer EXCEPT ![c] = "done"]
    /\ conn' = [conn EXCEPT ![c] = "closed"]
    /\ UNCHANGED <<roomVars, send, closed, reader, out, hubVars, pushVars,
                   panicked, frames, calls, histVars>>

-----------------------------------------------------------------------------
(* Hub.Run: one receive per channel, then the body of its case.            *)

\* No request goroutine is inside its RLock: Mutex.Lock() can be acquired.
NoReaders == \A p \in Caller : push[p] = "idle"

\* The handler's send completes; it goes on to start the two pumps.
RegisterRecv(c) ==
    /\ hub = "select"
    /\ reader[c] = "registering"
    /\ hub' = "register"
    /\ cur' = c
    /\ reader' = [reader EXCEPT ![c] = "reading"]
    /\ writer' = [writer EXCEPT ![c] = "running"]
    /\ UNCHANGED <<roomVars, send, closed, conn, out, curMsg, todo, pushVars,
                   panicked, frames, calls, histVars>>

\* h.Clients[client.UserID] = client, whatever was there.  (Variant for the checks:
\* an entry that is there stays.)
ClientsIfAbsent(c) ==
    IF clients[Owner[c]] = None THEN [clients EXCEPT ![Owner[c]] = c] ELSE clients
ClientsWith(c) == [clients EXCEPT ![Owner[c]] = c]

RegisterApply ==
    /\ hub = "register"
    /\ NoReaders
    /\ clients' = ClientsWith(cur)
    /\ hub' = "select"
    /\ cur' = None
    /\ seen' = [seen EXCEPT ![cur] = posted]
    /\ UNCHANGED <<chatRooms, chatIDs, send, closed, pumpVars, curMsg, todo,
                   pushVars, panicked, frames, calls, overflowed, posted, doubled>>

\* The deferred send of ReadPump completes; it closes the socket and ends.
UnregisterRecv(c) ==
    /\ hub = "select"
    /\ reader[c] = "leaving"
    /\ hub' = "unregister"
    /\ cur' = c
    /\ reader' = [reader EXCEPT ![c] = "done"]
    /\ conn' = [conn EXCEPT ![c] = "closed"]
    /\ UNCHANGED <<roomVars, send, closed, out, writer, curMsg, todo, pushVars,
                   panicked, frames, calls, histVars>>

\* delete(h.Clients, u).
ClientsWithout(u) == [clients EXCEPT ![u] = None]

\* The rooms once the user of c has left those c joined.  (Variant for the
\* checks: the rooms are not cleaned.)
RoomsKept(c) == chatRooms
RoomsWithout(c) ==
    [k \in Chat |-> IF k \in chatIDs[c] THEN chatRooms[k] \ {Owner[c]}
                                       ELSE chatRooms[k]]

\* The entry of the user is deleted whichever connection it holds; closing a
\* channel that is closed already panics.
UnregisterApply ==
    /\ hub = "unregister"
    /\ NoReaders
    /\ clients' = ClientsWithout(Owner[cur])
    /\ chatRooms' = RoomsWithout(cur)
    /\ panicked' = closed[cur]
    /\ closed' = [closed EXCEPT ![cur] = TRUE]
    /\ hub' = "select"
    /\ cur' = None
    /\ UNCHANGED <<chatIDs, send, pumpVars, curMsg, todo, pushVars, frames,
                   calls, histVars>>

\* ReadPump's send on Broadcast completes and it reads on.
BroadcastRecv(c) ==
    /\ hub = "select"
    /\ reader[c] = "publish"
    /\ curMsg' = out[c]
    /\ out' = [out EXCEPT ![c] = None]
    /\ reader' = [reader EXCEPT ![c] = "reading"]
    /\ IF out[c].type = "join_chat"
       THEN /\ hub' = "join"
            /\ UNCHANGED <<todo, posted>>
       ELSE /\ hub' = "message"
            /\ todo' = chatRooms[out[c].chat]
            /\ posted' = [posted EXCEPT ![out[c].chat] = @ + 1]
    /\ UNCHANGED <<roomVars, send, closed, conn, writer, cur, pushVars,
                   panicked, frames, calls, overflowed, seen, doubled>>

\* Client.ChatIDs once c, if there is one, has joined k.  (Variant for the
\* checks: only the room records it.)
ChatIDsKept(c, k) == chatIDs
ChatIDsWith(c, k) ==
    IF c = None THEN chatIDs ELSE [chatIDs EXCEPT ![c] = @ \cup {k}]

\* The user joins the room (the hub does not ask whether he is a participant
\* of the chat); so does the connection registered for him, if there is one.
JoinChat ==
    /\ hub = "join"
    /\ LET k == curMsg.chat
           c == clients[curMsg.sender]
       IN /\ chatRooms' = [chatRooms EXCEPT ![k] = @ \cup {curMsg.sender}]
          /\ chatIDs' = ChatIDsWith(c, k)
          /\ seen' = IF c = None \/ curMsg.sender \in chatRooms[k] THEN seen
                     ELSE [seen EXCEPT ![c][k] = posted[k]]
    /\ hub' = "select"
    /\ curMsg' = None
    /\ UNCHANGED <<clients, send, closed, pumpVars, cur, todo, pushVars,
                   panicked, frames, calls, overflowed, posted, doubled>>

\* The loop over the room: the next member in the order of the map, or the end.
NextMember ==
    /\ hub = "message"
    /\ push[HubLoop] = "idle"
    /\ \/ \E u \in todo :
            /\ todo' = todo \ {u}
            /\ push' = [push EXCEPT ![HubLoop] = "lookup"]
            /\ pushUser' = [pushUser EXCEPT ![HubLoop] = u]
            /\ UNCHANGED <<hub, curMsg>>
       \/ /\ todo = {}
          /\ hub' = "select"
          /\ curMsg' = None
          /\ UNCHANGED <<todo, push, pushUser>>
    /\ UNCHANGED <<roomVars, send, closed, pumpVars, cur, pushClient, panicked,
                   frames, calls, histVars>>

-----------------------------------------------------------------------------
(* The code that Hub.Run and BroadcastToUser have in common, run under the *)
(* read lock only: look the connection up, offer the item, and on a full   *)
(* buffer close the channel and delete the map entry.                      *)

ItemOf(p) == IF p = HubLoop THEN Message(curMsg.chat, posted[curMsg.chat])
                            ELSE Notice

\* BroadcastToUser is called by a request and takes the read lock.
Call(p) ==
    /\ push[p] = "idle"
    /\ calls < MaxCalls
    /\ calls' = calls + 1
    /\ push' = [push EXCEPT ![p] = "lookup"]
    /\ \E u \in User : pushUser' = [pushUser EXCEPT ![p] = u]
    /\ UNCHANGED <<roomVars, send, closed, pumpVars, hubVars, pushClient,
                   panicked, frames, histVars>>

\* p is done with its user: a request returns, the hub goes on with its loop.
Finish(p) ==
    /\ push' = [push EXCEPT ![p] = "idle"]
    /\ pushUser' = [pushUser EXCEPT ![p] = None]
    /\ pushClient' = [pushClient EXCEPT ![p] = None]

\* A panic in a request is recovered by gin and releases the lock; one in the
\* goroutine of the hub ends the process.
Panic(p) ==
    /\ Finish(p)
    /\ panicked' = (p = HubLoop)

LookUp(p) ==
    /\ push[p] = "lookup"
    /\ LET c == clients[pushUser[p]] IN
          \/ c = None /\ Finish(p)
          \/ /\ c # None
             /\ push' = [push EXCEPT ![p] = "send"]
             /\ pushClient' = [pushClient EXCEPT ![p] = c]
             /\ UNCHANGED pushUser
    /\ UNCHANGED <<roomVars, send, closed, pumpVars, hubVars, panicked, frames,
                   calls, histVars>>

\* The default case of the select.  (Variants for the checks: drop the item
\* and keep the client; wait for room, as a select without default does.)
DropOnFull(p) == Finish(p)
WaitOnFull(p) == FALSE
OnFull(p) ==
    /\ push' = [push EXCEPT ![p] = "close"]
    /\ UNCHANGED <<pushUser, pushClient>>

TrySend(p) ==
    /\ push[p] = "send"
    /\ LET c == pushClient[p] IN
          \/ closed[c] /\ Panic(p) /\ UNCHANGED send
          \/ /\ ~closed[c]
             /\ HasRoom(c)
             /\ send' = [send EXCEPT ![c] = Append(@, ItemOf(p))]
             /\ Finish(p)
             /\ UNCHANGED panicked
          \/ /\ ~closed[c]
             /\ ~HasRoom(c)
             /\ OnFull(p)
             /\ UNCHANGED <<send, panicked>>
    /\ UNCHANGED <<roomVars, closed, pumpVars, hubVars, frames, calls, histVars>>

CloseSend(p) ==
    /\ push[p] = "close"
    /\ LET c == pushClient[p] IN
          \/ closed[c] /\ Panic(p) /\ UNCHANGED <<closed, overflowed>>
          \/ /\ ~closed[c]
             /\ closed' = [closed EXCEPT ![c] = TRUE]
             /\ overflowed' = overflowed \cup {c}
             /\ push' = [push EXCEPT ![p] = "delete"]
             /\ UNCHANGED <<pushUser, pushClient, panicked>>
    /\ UNCHANGED <<roomVars, send, pumpVars, hubVars, frames, calls, posted, seen,
                   doubled>>

DropClient(p) ==
    /\ push[p] = "delete"
    /\ clients' = ClientsWithout(pushUser[p])
    /\ Finish(p)
    /\ UNCHANGED <<chatRooms, chatIDs, send, closed, pumpVars, hubVars, panicked,
                   frames, calls, histVars>>

\* Under the read lock nothing keeps the delete of one goroutine apart from
\* another's access to the map: the runtime may stop the process for it.
MapRace ==
    /\ \E p, q \in Pusher :
          /\ p # q
          /\ push[p] = "delete"
          /\ \/ push[q] \in {"lookup", "delete"}
             \/ q = HubLoop /\ hub = "join"
    /\ panicked' = TRUE
    /\ UNCHANGED <<roomVars, send, closed, pumpVars, hubVars, pushVars, frames,
                   calls, histVars>>

-----------------------------------------------------------------------------
Push(p) == LookUp(p) \/ TrySend(p) \/ CloseSend(p) \/ DropClient(p)

\* The steps of each goroutine; nothing runs once the process is gone.
Environment ==
    /\ ~panicked
    /\ \/ \E c \in Client : Connect(c) \/ PeerLost(c)
       \/ \E c \in Client : ReadPublish(c) \/ ReadReject(c)
       \/ \E p \in Caller : Call(p)
ReadPump(c) == ~panicked /\ (ReplyError(c) \/ ReadError(c))
TakeNext(c) == ~panicked /\ (WriteTake(c) \/ WriteStop(c))
WriteEnds(c) == ~panicked /\ WriteDone(c)
Receive(c) == ~panicked /\ (RegisterRecv(c) \/ UnregisterRecv(c) \/ BroadcastRecv(c))
HubBody == /\ ~panicked
           /\ \/ RegisterApply \/ UnregisterApply \/ JoinChat \/ NextMember
              \/ Push(HubLoop)
Request(p) == ~panicked /\ Push(p)
Race == ~panicked /\ MapRace

Next ==
    \/ Environment
    \/ \E c \in Client : ReadPump(c) \/ TakeNext(c) \/ WriteEnds(c) \/ Receive(c)
    \/ HubBody
    \/ \E p \in Caller : Request(p)
    \/ Race

Spec == Init /\ [][Next]_vars

(***************************************************************************)
(* The Go scheduler runs every goroutine that can run.  The hub's select   *)
(* picks at random among the ready channels and each channel serves its    *)
(* senders in order, and a waiting Mutex.Lock() holds new RLock() calls    *)
(* back: both are strong fairness.  No fairness is assumed of the network: *)
(* the code sets no write deadline, a write to an open peer may never end. *)
(***************************************************************************)
Fairness ==
    /\ \A c \in Client : /\ WF_vars(ReadPump(c))
                         /\ WF_vars(TakeNext(c))
                         /\ SF_vars(Receive(c))
    /\ SF_vars(HubBody)
    /\ \A p \in Caller : WF_vars(Request(p))

FairSpec == Spec /\ Fairness

-----------------------------------------------------------------------------
(* Safety.                                                                 *)

\* A panic of the process (a double close, a send on a closed channel, two
\* goroutines in the map) needs an earlier full buffer: without one, the order
\* of Register, Unregister, Broadcast and notifications never breaks the hub.
CrashOnlyAfterOverflow == panicked => overflowed # {}

\* What a goroutine holds is there: the part of the inductive invariant that
\* says which fields are set at each program counter.
ProgramCounters ==
    /\ hub \in {"register", "unregister"} => cur \in Client
    /\ hub = "unregister" => reader[cur] = "done"
    /\ hub \in {"join", "message"} => curMsg \in Broadcasts
    /\ hub # "message" => push[HubLoop] = "idle"
    /\ \A c \in Client : reader[c] = "publish" => out[c] \in Broadcasts
    /\ \A p \in Pusher : push[p] # "idle" => pushUser[p] \in User
    /\ \A p \in Pusher :
          push[p] \in {"send", "close", "delete"} => pushClient[p] \in Client
    /\ \A u \in User : clients[u] \in Client => Owner[clients[u]] = u

\* Until a buffer overflows, a closed channel belongs to a connection that is
\* unregistered for good: nobody holds it, the hub does not deliver to it and
\* is not about to register or close it again.
ClosedForGood ==
    /\ \A c \in Client : closed[c] =>
          /\ reader[c] = "done"
          /\ clients[Owner[c]] # c
          /\ ~(hub \in {"register", "unregister"} /\ cur = c)
    /\ \A p \in Pusher : push[p] \in {"send", "close"} => ~closed[pushClient[p]]
    /\ \A p \in Pusher : push[p] # "delete"
    /\ ~panicked

\* The inductive invariant behind CrashOnlyAfterOverflow.
HubInv == TypeOK /\ ProgramCounters /\ (overflowed = {} => ClosedForGood)

\* A full buffer is meant to cost the slow connection only ("Client channel
\* full, closing connection"): the process survives.
OverflowClosesOnlyTheConnection == ~panicked

\* The connection registered for a user and the rooms agree, if he never had two
\* connections at once: he is in a room exactly when his connection has joined it,
\* so that Unregister, which walks ChatIDs, removes him from every room.
RoomsMatchChatIDs ==
    \A u \in User \ doubled, k \in Chat :
        clients[u] # None => (u \in chatRooms[k] <=> k \in chatIDs[clients[u]])

\* Nobody stays in a room after his last connection was unregistered, unless he
\* had two at once.
NoGhostMembers ==
    panicked \/ \A k \in Chat : \A u \in chatRooms[k] \ doubled :
                    \E c \in Client : Owner[c] = u /\ Live(c)

\* The hub delivers to c.
Registered(c) == clients[Owner[c]] = c /\ c \notin overflowed

\* Where the messages of chat k stand in the buffer of c.
Waiting(c, k) ==
    {i \in 1 .. Len(send[c]) : send[c][i].kind = "message" /\ send[c][i].chat = k}

\* Messages of chat k whose fan-out has passed, or will not come to, user u.
Delivered(u, k) ==
    IF \/ hub = "message" /\ curMsg.chat = k /\ u \in todo
       \/ push[HubLoop] # "idle" /\ pushUser[HubLoop] = u /\ curMsg.chat = k
    THEN posted[k] - 1
    ELSE posted[k]

ChatsOf(u) == {k \in Chat : u \in chatRooms[k]}

\* The chats whose messages come to c: those its user is in while c is registered.
Follows(c) == IF Registered(c) THEN ChatsOf(Owner[c]) ELSE {}

\* A registered connection follows every chat it has joined.  From the moment it
\* follows one it misses no message, sees none twice and sees them in order: its
\* buffer holds what comes after the last one that WritePump took, up to the last
\* one fanned out.  The only way to lose one is to be closed or replaced.
NoGapInJoinedChat ==
    \A c \in Client :
        /\ Registered(c) => chatIDs[c] \subseteq Follows(c)
        /\ \A k \in Follows(c) :
            /\ seen[c][k] <= Delivered(Owner[c], k)
            /\ {send[c][i].n : i \in Waiting(c, k)} = seen[c][k] + 1 .. Delivered(Owner[c], k)
            /\ \A i, j \in Waiting(c, k) : i < j => send[c][i].n < send[c][j].n

\* c has not been put into the map yet.
Fresh(c) == reader[c] \in {"none", "registering"} \/ (hub = "register" /\ cur = c)

\* How Delivery sees a connection, and what it has taken.
Stage(c) == IF Fresh(c) THEN "new" ELSE IF Registered(c) THEN "in" ELSE "out"
Taken(c, k) == IF k \in Follows(c) THEN seen[c][k] ELSE 0

\* Rooms, map, buffers and pumps together deliver what Delivery promises: the
\* registered connection of a user takes the messages of each of his chats one by
\* one, from the one after his join_chat or its own registration; it is out when
\* the hub unregisters any connection of the user, registers another, or closes it.
Stream == INSTANCE Delivery WITH
    member <- [u \in User |-> ChatsOf(u)],
    stage <- [c \in Client |-> Stage(c)],
    taken <- [c \in Client |-> [k \in Chat |-> Taken(c, k)]]
ImplementsDelivery == Stream!Spec

\* The newest connection of a user is the one the hub delivers to, from the
\* end of its registration until it leaves or its buffer overflows.
Newest(c) == \A d \in Client : (Owner[d] = Owner[c] /\ d # c) => reader[d] = "done"
InSession(c) ==
    /\ reader[c] \in {"reading", "publish", "reply"}
    /\ Newest(c)
    /\ c \notin overflowed
    /\ ~(hub \in {"register", "unregister"} /\ Owner[cur] = Owner[c])

\* After a reconnection ("Automatic reconnection with session recovery") the
\* one connection that the user still has is the one registered.
ReconnectedSessionIsRegistered ==
    \A c \in Client : InSession(c) => panicked \/ clients[Owner[c]] = c

-----------------------------------------------------------------------------
(* Liveness.                                                               *)

\* Whoever blocks on a channel of the hub is served: the hub never blocks for
\* ever on a lock or on a slow connection.
SendersAreServed ==
    \A c \in Client : \A at \in {"registering", "publish", "leaving"} :
        reader[c] = at ~> (reader[c] # at \/ panicked)

\* Both pumps of c have returned and the hub has closed its Send.
Released(c) == reader[c] = "done" /\ writer[c] = "done" /\ closed[c]

\* The reader waits to reply in a full buffer that nobody will drain.
Stuck(c) == reader[c] = "reply" /\ writer[c] = "done" /\ ~ HasRoom(c)

\* A connection whose peer is gone or whose socket is closed is released, reader,
\* writer and buffer, or else its reader is stuck for ever in a reply.  It says
\* nothing of a peer that is still there and reads nothing: its write has no
\* deadline, may never end, and then the connection is not released.
LostConnectionIsReleased ==
    \A c \in Client :
        conn[c] \in {"lost", "closed"} ~> (Released(c) \/ Stuck(c) \/ panicked)

\* A connection whose socket is closed is unregistered: no reader is stuck.
ClosedConnectionIsUnregistered ==
    \A c \in Client : conn[c] = "closed" ~> (reader[c] = "done" \/ panicked)

=============================================================================
