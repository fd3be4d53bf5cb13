--------------------------- MODULE Hub_delivery_proof ---------------------------
(***************************************************************************)
(* Proofs about Hub for any number of everything, before and after an      *)
(* overflow: what the hub delivers to any connections, also to several     *)
(* connections of one user (NoGapInJoinedChat, ImplementsDelivery), and    *)
(* the rooms of the users who had one connection at a time                 *)
(* (RoomsMatchChatIDs, NoGhostMembers).                                    *)
(***************************************************************************)
EXTENDS Hub_proof

\* c has been put into the map and is not unregistered.
Serves(c) == Live(c) /\ ~ Fresh(c)

\* What is known of the connection that a step of the hub is about.
Handshakes ==
    /\ hub = "register" => reader[cur] \notin {"none", "registering", "done"}
    /\ \A c \in Client : Fresh(c) => chatIDs[c] = {} /\ ~ closed[c] /\ c \notin overflowed
    /\ \A c \in Client : reader[c] = "publish" => out[c].sender = Owner[c]
    /\ hub = "join" => \E c \in Client : /\ Owner[c] = curMsg.sender
                                        /\ reader[c] \notin {"none", "registering", "done"}

\* The map holds connections in service; one in service is closed by an overflow only.
Entries ==
    /\ \A u \in User : clients[u] # None => Serves(clients[u])
    /\ \A c \in Client : (Serves(c) /\ closed[c]) => c \in overflowed

\* A connection that has been looked up stays in service until the goroutine is
\* done with it, and its user gets no other one meanwhile; its entry is deleted
\* after its channel is closed.
LookedUp ==
    /\ \A p \in Pusher : push[p] \in {"send", "close", "delete"} =>
           /\ Serves(pushClient[p])
           /\ Owner[pushClient[p]] = pushUser[p]
           /\ clients[pushUser[p]] \in {pushClient[p], None}
    /\ \A p \in Pusher : push[p] = "delete" => closed[pushClient[p]]

\* The invariant of the connections, for any order in which users connect.
ServiceInv ==
    /\ TypeOK
    /\ ProgramCounters
    /\ Handshakes
    /\ Entries
    /\ LookedUp

\* A fan-out visits members only, each once.
FanOut ==
    hub = "message" =>
        /\ todo \subseteq chatRooms[curMsg.chat]
        /\ push[HubLoop] # "idle" => pushUser[HubLoop] \in chatRooms[curMsg.chat] \ todo

\* Only messages of the chats it follows wait in the buffer of a connection that
\* is registered or will be.
OnlyFollowed ==
    \A c \in Client : \A k \in Chat \ Follows(c) :
        (Fresh(c) \/ Registered(c)) => Waiting(c, k) = {}

\* The invariant of the delivery.
DeliveryInv ==
    /\ FanOut
    /\ OnlyFollowed
    /\ NoGapInJoinedChat

\* A user who never had two connections at once has one at a time.
OneAtATime ==
    \A c, d \in Client :
        (Owner[c] = Owner[d] /\ Owner[c] \notin doubled /\ Live(c) /\ Live(d)) => c = d

\* His connection is the one registered, until it is closed.
OpenIsRegistered ==
    \A c \in Client :
        (Owner[c] \notin doubled /\ Serves(c) /\ ~ closed[c]) => clients[Owner[c]] = c

\* If he is in a room, he has a connection in service.
MembersServed ==
    \A k \in Chat : \A u \in chatRooms[k] \ doubled :
        \E c \in Client : Owner[c] = u /\ Serves(c)

\* The invariant of the rooms.
RoomsInv ==
    /\ OneAtATime
    /\ OpenIsRegistered
    /\ RoomsMatchChatIDs
    /\ panicked \/ MembersServed

-----------------------------------------------------------------------------
(* Which actions change what.                                              *)

\* The process is running when anything happens, and one action happens.
LEMMA Actions ==
    ASSUME Next
    PROVE  /\ ~ panicked
           /\ \/ \E c \in Client : \/ Connect(c) \/ PeerLost(c) \/ ReadPublish(c)
                                   \/ ReadReject(c) \/ ReplyError(c) \/ ReadError(c)
                                   \/ WriteTake(c) \/ WriteStop(c) \/ WriteDone(c)
                                   \/ RegisterRecv(c) \/ UnregisterRecv(c) \/ BroadcastRecv(c)
              \/ RegisterApply \/ UnregisterApply \/ JoinChat \/ NextMember
              \/ \E p \in Caller : Call(p)
              \/ \E p \in Pusher : LookUp(p) \/ TrySend(p) \/ CloseSend(p) \/ DropClient(p)
              \/ MapRace
  BY DEF Next, Environment, ReadPump, TakeNext, WriteEnds, Receive, HubBody, Request, Race,
         Push, Pusher

\* The map, the rooms and the channels.
LEMMA RoomChanges ==
    ASSUME Next
    PROVE  /\ \/ UNCHANGED clients
              \/ RegisterApply \/ UnregisterApply \/ \E p \in Pusher : DropClient(p)
           /\ UNCHANGED chatRooms \/ UnregisterApply \/ JoinChat
           /\ UNCHANGED chatIDs \/ JoinChat
           /\ \/ UNCHANGED <<closed, overflowed>>
              \/ UnregisterApply \/ \E p \in Pusher : CloseSend(p)
<1>1. ASSUME NEW c \in Client,
             \/ Connect(c) \/ PeerLost(c) \/ ReadPublish(c) \/ ReadReject(c) \/ ReplyError(c)
             \/ ReadError(c)
      PROVE  UNCHANGED <<clients, chatRooms, chatIDs, closed, overflowed>>
  BY <1>1 DEF Connect, PeerLost, ReadPublish, ReadReject, ReplyError, ReadError, roomVars,
              histVars
<1>2. ASSUME NEW c \in Client,
             \/ WriteTake(c) \/ WriteStop(c) \/ WriteDone(c) \/ RegisterRecv(c)
             \/ UnregisterRecv(c) \/ BroadcastRecv(c)
      PROVE  UNCHANGED <<clients, chatRooms, chatIDs, closed, overflowed>>
  BY <1>2 DEF WriteTake, WriteStop, WriteDone, RegisterRecv, UnregisterRecv, BroadcastRecv,
              roomVars, histVars
<1>3. ASSUME NextMember \/ (\E p \in Caller : Call(p)) \/ MapRace
             \/ \E p \in Pusher : LookUp(p) \/ TrySend(p)
      PROVE  UNCHANGED <<clients, chatRooms, chatIDs, closed, overflowed>>
  BY <1>3 DEF NextMember, Call, MapRace, LookUp, TrySend, roomVars, histVars
<1>4. ASSUME NEW p \in Pusher, CloseSend(p)
      PROVE  UNCHANGED <<clients, chatRooms, chatIDs>>
  BY <1>4 DEF CloseSend, roomVars
<1>5. ASSUME NEW p \in Pusher, DropClient(p)
      PROVE  UNCHANGED <<chatRooms, chatIDs, closed, overflowed>>
  BY <1>5 DEF DropClient, histVars
<1>6. ASSUME RegisterApply
      PROVE  UNCHANGED <<chatRooms, chatIDs, closed, overflowed>>
  BY <1>6 DEF RegisterApply, histVars
<1>7. ASSUME UnregisterApply
      PROVE  UNCHANGED chatIDs
  BY <1>7 DEF UnregisterApply
<1>8. ASSUME JoinChat
      PROVE  UNCHANGED <<clients, closed, overflowed>>
  BY <1>8 DEF JoinChat
<1> QED
  BY <1>1, <1>2, <1>3, <1>4, <1>5, <1>6, <1>7, <1>8, Actions

\* Where the connections stand for the hub.
SameService ==
    \A c \in Client : (Live(c)' <=> Live(c)) /\ (Fresh(c)' <=> Fresh(c))

Busy == {"reading", "publish", "reply", "leaving"}

\* Most steps leave every connection in the service it is in.
LEMMA SameServiceRule ==
    ASSUME \A c \in Client : reader'[c] = reader[c] \/ {reader[c], reader'[c]} \subseteq Busy,
           \/ UNCHANGED <<hub, cur>>
           \/ {hub, hub'} \cap {"register", "unregister"} = {}
    PROVE  SameService
  BY DEF SameService, Live, Fresh, Busy

\* The others are Connect and the two bodies of the hub.
LEMMA ServiceStep ==
    ASSUME TypeOK, ProgramCounters, Handshakes, Next
    PROVE  \/ SameService
           \/ \E c \in Client :
                 /\ Connect(c)
                 /\ \A d \in Client : /\ Live(d)' <=> (Live(d) \/ d = c)
                                      /\ Fresh(d)' <=> Fresh(d)
           \/ /\ RegisterApply
              /\ \A d \in Client : /\ Live(d)' <=> Live(d)
                                   /\ Fresh(d)' <=> (Fresh(d) /\ d # cur)
           \/ /\ UnregisterApply
              /\ \A d \in Client : /\ Live(d)' <=> (Live(d) /\ d # cur)
                                   /\ Fresh(d)' <=> Fresh(d)
<1>1. ASSUME NEW c \in Client, Connect(c)
      PROVE  \A d \in Client : /\ Live(d)' <=> (Live(d) \/ d = c)
                               /\ Fresh(d)' <=> Fresh(d)
  BY <1>1 DEF Connect, hubVars, Live, Fresh, TypeOK
<1>2. ASSUME NEW c \in Client, ReadPublish(c) \/ ReadReject(c) \/ ReplyError(c) \/ ReadError(c)
      PROVE  SameService
  <2>1. /\ \A d \in Client : reader'[d] = reader[d] \/ {reader[d], reader'[d]} \subseteq Busy
        /\ UNCHANGED <<hub, cur>>
    BY <1>2 DEF ReadPublish, ReadReject, ReplyError, ReadError, hubVars, TypeOK, Busy
  <2> QED
    BY <2>1, SameServiceRule
<1>3. ASSUME NEW c \in Client, BroadcastRecv(c)
      PROVE  SameService
  <2>1. /\ \A d \in Client : reader'[d] = reader[d] \/ {reader[d], reader'[d]} \subseteq Busy
        /\ hub = "select" /\ hub' \in {"join", "message"}
    BY <1>3 DEF BroadcastRecv, TypeOK, Busy
  <2> QED
    BY <2>1, SameServiceRule
<1>4. ASSUME NEW c \in Client, RegisterRecv(c) \/ UnregisterRecv(c)
      PROVE  SameService
  BY <1>4 DEF RegisterRecv, UnregisterRecv, SameService, Live, Fresh, TypeOK
<1>5. ASSUME JoinChat \/ NextMember
      PROVE  SameService
  <2>1. /\ UNCHANGED reader
        /\ {hub, hub'} \cap {"register", "unregister"} = {}
    BY <1>5 DEF JoinChat, NextMember, pumpVars
  <2> QED
    BY <2>1, SameServiceRule
<1>6. ASSUME UNCHANGED <<reader, hub, cur>>
      PROVE  SameService
  BY <1>6, SameServiceRule
<1>7. ASSUME NEW c \in Client, PeerLost(c) \/ WriteTake(c) \/ WriteStop(c) \/ WriteDone(c)
      PROVE  UNCHANGED <<reader, hub, cur>>
  BY <1>7 DEF PeerLost, WriteTake, WriteStop, WriteDone, hubVars
<1>8. ASSUME \/ \E p \in Caller : Call(p)
             \/ \E p \in Pusher : LookUp(p) \/ TrySend(p) \/ CloseSend(p) \/ DropClient(p)
             \/ MapRace
      PROVE  UNCHANGED <<reader, hub, cur>>
  BY <1>8 DEF Call, LookUp, TrySend, CloseSend, DropClient, MapRace, pumpVars, hubVars
<1>9. ASSUME RegisterApply
      PROVE  \A d \in Client : /\ Live(d)' <=> Live(d)
                               /\ Fresh(d)' <=> (Fresh(d) /\ d # cur)
  BY <1>9 DEF RegisterApply, pumpVars, Handshakes, Live, Fresh
<1>10. ASSUME UnregisterApply
       PROVE  \A d \in Client : /\ Live(d)' <=> (Live(d) /\ d # cur)
                                /\ Fresh(d)' <=> Fresh(d)
  BY <1>10 DEF UnregisterApply, pumpVars, ProgramCounters, Live, Fresh
<1> QED
  BY <1>1, <1>2, <1>3, <1>4, <1>5, <1>6, <1>7, <1>8, <1>9, <1>10, Actions

-----------------------------------------------------------------------------
(* The connections.                                                        *)

\* The registration that the hub is about to finish.
LEMMA RegisteringStep ==
    ASSUME ServiceInv, Next
    PROVE  hub' = "register" => reader'[cur'] \notin {"none", "registering", "done"}
<1> SUFFICES ASSUME hub' = "register"
             PROVE  reader'[cur'] \notin {"none", "registering", "done"}
  OBVIOUS
<1> USE DEF ServiceInv, TypeOK, ProgramCounters, Handshakes
<1>1. ASSUME NEW c \in Client,
             \/ Connect(c) \/ PeerLost(c) \/ ReadPublish(c) \/ ReadReject(c) \/ ReplyError(c)
             \/ ReadError(c)
      PROVE  reader'[cur'] \notin {"none", "registering", "done"}
  BY <1>1 DEF Connect, PeerLost, ReadPublish, ReadReject, ReplyError, ReadError, hubVars
<1>2. ASSUME NEW c \in Client, WriteTake(c) \/ WriteStop(c) \/ WriteDone(c)
      PROVE  UNCHANGED <<reader, hub, cur>>
  BY <1>2 DEF WriteTake, WriteStop, WriteDone, hubVars
<1>3. ASSUME NEW c \in Client, RegisterRecv(c) \/ UnregisterRecv(c) \/ BroadcastRecv(c)
      PROVE  reader'[cur'] \notin {"none", "registering", "done"}
  BY <1>3 DEF RegisterRecv, UnregisterRecv, BroadcastRecv
<1>4. ASSUME RegisterApply \/ UnregisterApply \/ JoinChat \/ NextMember
      PROVE  FALSE
  BY <1>4 DEF RegisterApply, UnregisterApply, JoinChat, NextMember
<1>5. ASSUME \/ \E p \in Caller : Call(p)
             \/ \E p \in Pusher : LookUp(p) \/ TrySend(p) \/ CloseSend(p) \/ DropClient(p)
             \/ MapRace
      PROVE  UNCHANGED <<reader, hub, cur>>
  BY <1>5 DEF Call, LookUp, TrySend, CloseSend, DropClient, MapRace, pumpVars, hubVars
<1> QED
  BY <1>1, <1>2, <1>3, <1>4, <1>5, Actions

\* Whose frame the hub handles.
LEMMA SendersStep ==
    ASSUME ServiceInv, Next
    PROVE  /\ \A c \in Client : reader'[c] = "publish" => out'[c].sender = Owner[c]
           /\ hub' = "join" => \E c \in Client :
                  /\ Owner[c] = curMsg'.sender
                  /\ reader'[c] \notin {"none", "registering", "done"}
<1> DEFINE Sender(c) == Owner[c] = curMsg.sender /\ reader[c] \notin {"none", "registering", "done"}
           Goal == /\ \A c \in Client : reader'[c] = "publish" => out'[c].sender = Owner[c]
                   /\ hub' = "join" => \E c \in Client : Sender(c)'
<1> USE DEF ServiceInv, TypeOK, Handshakes
<1>1. ASSUME NEW c \in Client, Connect(c) \/ PeerLost(c) \/ ReadReject(c) \/ ReplyError(c)
                               \/ ReadError(c)
      PROVE  Goal
  <2>1. UNCHANGED <<out, hub, curMsg>>
    BY <1>1 DEF Connect, PeerLost, ReadReject, ReplyError, ReadError, hubVars
  <2>2. \A d \in Client :
            /\ reader'[d] = "publish" => reader[d] = "publish"
            /\ reader[d] \notin {"none", "registering", "done"} =>
                   reader'[d] \notin {"none", "registering", "done"}
    BY <1>1 DEF Connect, PeerLost, ReadReject, ReplyError, ReadError
  <2> QED
    BY <2>1, <2>2
<1>2. ASSUME NEW c \in Client, ReadPublish(c)
      PROVE  Goal
  <2>1. PICK type \in {"join_chat", "message"}, k \in Chat :
           out' = [out EXCEPT ![c] = [type |-> type, chat |-> k, sender |-> Owner[c]]]
    BY <1>2 DEF ReadPublish
  <2>2. out'[c].sender = Owner[c] /\ \A d \in Client \ {c} : out'[d] = out[d]
    BY <2>1
  <2> QED
    BY <1>2, <2>2 DEF ReadPublish, hubVars
<1>3. ASSUME NEW c \in Client, BroadcastRecv(c)
      PROVE  Goal
  <2>1. \A d \in Client : reader'[d] = "publish" => d # c /\ reader[d] = "publish"
    BY <1>3 DEF BroadcastRecv
  <2>2. \A d \in Client \ {c} : out'[d] = out[d]
    BY <1>3 DEF BroadcastRecv
  <2>3. Owner[c] = curMsg'.sender /\ reader'[c] = "reading"
    BY <1>3 DEF BroadcastRecv
  <2> QED
    BY <2>1, <2>2, <2>3
<1>4. ASSUME NEW c \in Client, RegisterRecv(c) \/ UnregisterRecv(c)
      PROVE  Goal
  BY <1>4 DEF RegisterRecv, UnregisterRecv
<1>5. ASSUME NEW c \in Client, WriteTake(c) \/ WriteStop(c) \/ WriteDone(c)
      PROVE  UNCHANGED <<reader, out, hub, curMsg>>
  BY <1>5 DEF WriteTake, WriteStop, WriteDone, hubVars
<1>6. ASSUME RegisterApply \/ UnregisterApply \/ JoinChat \/ NextMember
      PROVE  UNCHANGED <<reader, out>> /\ hub' # "join"
  BY <1>6 DEF RegisterApply, UnregisterApply, JoinChat, NextMember, pumpVars
<1>7. ASSUME \/ \E p \in Caller : Call(p)
             \/ \E p \in Pusher : LookUp(p) \/ TrySend(p) \/ CloseSend(p) \/ DropClient(p)
             \/ MapRace
      PROVE  UNCHANGED <<reader, out, hub, curMsg>>
  BY <1>7 DEF Call, LookUp, TrySend, CloseSend, DropClient, MapRace, pumpVars, hubVars
<1> QED
  BY <1>1, <1>2, <1>3, <1>4, <1>5, <1>6, <1>7, Actions

\* A connection that is not registered yet has joined nothing and is not closed.
LEMMA HandshakesStep ==
    ASSUME ServiceInv, Next
    PROVE  Handshakes'
<1>1. \A c \in Client : Fresh(c)' => Fresh(c)
  BY ServiceStep DEF SameService, ServiceInv
<1>2. \A c \in Client : Fresh(c)' => chatIDs'[c] = {}
  <2>1. CASE UNCHANGED chatIDs
    BY <1>1, <2>1 DEF ServiceInv, Handshakes
  <2>2. CASE JoinChat
    <3>1. curMsg.sender \in User /\ clients[curMsg.sender] \in Client \cup {None}
      BY <2>2 DEF JoinChat, ServiceInv, ProgramCounters, TypeOK, Broadcasts
    <3>2. clients[curMsg.sender] # None => ~ Fresh(clients[curMsg.sender])
      BY <3>1 DEF ServiceInv, Entries, Serves
    <3>3. \A c \in Client : c = clients[curMsg.sender] \/ chatIDs'[c] = chatIDs[c]
      BY <2>2 DEF JoinChat, ChatIDsWith, ServiceInv, TypeOK
    <3>4. None \notin Client
      BY ConstantsAssumption
    <3> QED
      BY <1>1, <3>2, <3>3, <3>4 DEF ServiceInv, Handshakes
  <2> QED
    BY <2>1, <2>2, RoomChanges
<1>3. \A c \in Client : Fresh(c)' => ~ closed'[c] /\ c \notin overflowed'
  <2>1. CASE UNCHANGED <<closed, overflowed>>
    BY <1>1, <2>1 DEF ServiceInv, Handshakes
  <2>2. CASE UnregisterApply
    BY <1>1, <2>2 DEF UnregisterApply, histVars, Fresh, ServiceInv, Handshakes, ProgramCounters,
                      TypeOK
  <2>3. ASSUME NEW p \in Pusher, CloseSend(p)
        PROVE  \A c \in Client : Fresh(c)' => ~ closed'[c] /\ c \notin overflowed'
    <3>1. ~ Fresh(pushClient[p])
      BY <2>3 DEF CloseSend, ServiceInv, LookedUp, Serves
    <3>2. \A c \in Client \ {pushClient[p]} :
              closed'[c] = closed[c] /\ (c \in overflowed' <=> c \in overflowed)
      BY <2>3 DEF CloseSend, ServiceInv, TypeOK
    <3> QED
      BY <1>1, <3>1, <3>2 DEF ServiceInv, Handshakes
  <2> QED
    BY <2>1, <2>2, <2>3, RoomChanges
<1> QED
  BY <1>2, <1>3, RegisteringStep, SendersStep DEF Handshakes

\* A connection goes into service when it is put into the map and out of service
\* when it is unregistered; nothing else changes that.
LEMMA ServesStep ==
    ASSUME ServiceInv, Next
    PROVE  /\ RegisterApply => /\ Owner[cur] \in User /\ cur \in Client /\ Live(cur) /\ Fresh(cur)
                               /\ \A c \in Client : Serves(c)' <=> (Serves(c) \/ c = cur)
           /\ UnregisterApply => /\ Owner[cur] \in User /\ cur \in Client /\ Serves(cur)
                                 /\ \A c \in Client : Serves(c)' <=> (Serves(c) /\ c # cur)
           /\ (~ RegisterApply /\ ~ UnregisterApply) =>
                 \A c \in Client : Serves(c)' <=> Serves(c)
<1>1. ASSUME RegisterApply
      PROVE  /\ Owner[cur] \in User /\ cur \in Client /\ Live(cur) /\ Fresh(cur)
             /\ \A c \in Client : Serves(c)' <=> (Serves(c) \/ c = cur)
  <2>1. cur \in Client /\ hub = "register"
    BY <1>1 DEF RegisterApply, ServiceInv, ProgramCounters
  <2>2. Live(cur) /\ Fresh(cur) /\ Owner[cur] \in User
    BY <2>1, ConstantsAssumption DEF ServiceInv, Handshakes, Live, Fresh
  <2>3. \A c \in Client : Serves(c)' <=> (Serves(c) \/ c = cur)
    BY <1>1, <2>1, <2>2 DEF RegisterApply, pumpVars, ServiceInv, Handshakes, Serves, Live, Fresh
  <2> QED
    BY <2>1, <2>2, <2>3
<1>2. ASSUME UnregisterApply
      PROVE  /\ Owner[cur] \in User /\ cur \in Client /\ Serves(cur)
             /\ \A c \in Client : Serves(c)' <=> (Serves(c) /\ c # cur)
  <2>1. cur \in Client /\ hub = "unregister" /\ reader[cur] = "done"
    BY <1>2 DEF UnregisterApply, ServiceInv, ProgramCounters
  <2>2. Serves(cur) /\ Owner[cur] \in User
    BY <2>1, ConstantsAssumption DEF Serves, Live, Fresh
  <2>3. \A c \in Client : Serves(c)' <=> (Serves(c) /\ c # cur)
    BY <1>2, <2>1, <2>2 DEF UnregisterApply, pumpVars, Serves, Live, Fresh
  <2> QED
    BY <2>1, <2>2, <2>3
<1>3. ASSUME NEW d \in Client, Connect(d),
             \A c \in Client : (Live(c)' <=> (Live(c) \/ c = d)) /\ (Fresh(c)' <=> Fresh(c))
      PROVE  \A c \in Client : Serves(c)' <=> Serves(c)
  <2>1. Fresh(d)
    BY <1>3 DEF Connect, Fresh
  <2> QED
    BY <1>3, <2>1 DEF Serves
<1>4. ASSUME SameService
      PROVE  \A c \in Client : Serves(c)' <=> Serves(c)
  BY <1>4 DEF SameService, Serves
<1> QED
  BY <1>1, <1>2, <1>3, <1>4, ServiceStep DEF ServiceInv

-----------------------------------------------------------------------------
(* The map.                                                                *)

\* The map changes together with the service that it records.
LEMMA EntriesStep ==
    ASSUME ServiceInv, Next
    PROVE  Entries'
<1> USE DEF ServiceInv
<1>0. None \notin Client /\ \A c \in Client : Owner[c] \in User
  BY ConstantsAssumption
<1>1. CASE RegisterApply
  <2>1. /\ clients' = [clients EXCEPT ![Owner[cur]] = cur]
        /\ UNCHANGED <<closed, overflowed>>
    BY <1>1 DEF RegisterApply, ClientsWith
  <2>2. ~ closed[cur]
    BY <1>1, ServesStep DEF Handshakes
  <2> QED
    BY <1>0, <1>1, <2>1, <2>2, ServesStep DEF Entries, TypeOK
<1>2. CASE UnregisterApply
  <2>1. /\ clients' = [clients EXCEPT ![Owner[cur]] = None]
        /\ closed' = [closed EXCEPT ![cur] = TRUE]
        /\ UNCHANGED overflowed
    BY <1>2 DEF UnregisterApply, ClientsWithout, histVars
  <2>2. \A u \in User \ {Owner[cur]} : clients[u] # cur
    BY <1>2, ServesStep DEF ProgramCounters
  <2> QED
    BY <1>0, <1>2, <2>1, <2>2, ServesStep DEF Entries, TypeOK
<1>3. ASSUME NEW p \in Pusher, DropClient(p), ~ RegisterApply, ~ UnregisterApply
      PROVE  Entries'
  <2>1. /\ \A u \in User : clients'[u] \in {clients[u], None}
        /\ UNCHANGED <<closed, overflowed>>
    BY <1>3 DEF DropClient, ClientsWithout, histVars, TypeOK
  <2> QED
    BY <1>0, <1>3, <2>1, ServesStep DEF Entries, TypeOK
<1>4. ASSUME NEW p \in Pusher, CloseSend(p), ~ RegisterApply, ~ UnregisterApply, UNCHANGED clients
      PROVE  Entries'
  <2>1. pushClient[p] \in Client
    BY <1>4 DEF CloseSend, ProgramCounters
  <2>2. \A c \in Client : /\ closed'[c] => closed[c] \/ c \in overflowed'
                          /\ c \in overflowed => c \in overflowed'
    BY <1>4, <2>1 DEF CloseSend, TypeOK
  <2>3. \A c \in Client : Serves(c)' <=> Serves(c)
    BY <1>4, ServesStep
  <2>4. \A u \in User : clients'[u] # None => Serves(clients[u])'
    BY <1>4, <2>3 DEF Entries, TypeOK
  <2> QED
    BY <1>4, <2>2, <2>3, <2>4 DEF Entries
<1>5. ASSUME UNCHANGED <<clients, closed, overflowed>>, ~ RegisterApply, ~ UnregisterApply
      PROVE  Entries'
  BY <1>0, <1>5, ServesStep DEF Entries, TypeOK
<1> QED
  BY <1>1, <1>2, <1>3, <1>4, <1>5, RoomChanges

\* What the lookup-send-close-delete code does to the fields of its goroutine.
LEMMA PushChanges ==
    ASSUME ServiceInv, Next, NEW p \in Pusher
    PROVE  \/ push'[p] \in {"idle", "lookup"}
           \/ push'[p] = push[p] /\ pushUser'[p] = pushUser[p] /\ pushClient'[p] = pushClient[p]
           \/ LookUp(p) \/ TrySend(p) \/ CloseSend(p)
<1> USE DEF ServiceInv, TypeOK, Pusher
<1>1. ASSUME NEW q \in Pusher, q # p, LookUp(q) \/ TrySend(q) \/ CloseSend(q) \/ DropClient(q)
      PROVE  push'[p] = push[p] /\ pushUser'[p] = pushUser[p] /\ pushClient'[p] = pushClient[p]
  BY <1>1 DEF LookUp, TrySend, CloseSend, DropClient, OnFull, Panic, Finish
<1>2. ASSUME DropClient(p)
      PROVE  push'[p] = "idle"
  BY <1>2 DEF DropClient, Finish
<1>3. ASSUME NEW q \in Caller, Call(q)
      PROVE  \/ push'[p] = "lookup"
             \/ push'[p] = push[p] /\ pushUser'[p] = pushUser[p] /\ pushClient'[p] = pushClient[p]
  BY <1>3 DEF Call
<1>4. ASSUME NextMember
      PROVE  \/ push'[p] = "lookup"
             \/ push'[p] = push[p] /\ pushUser'[p] = pushUser[p] /\ pushClient'[p] = pushClient[p]
  BY <1>4 DEF NextMember
<1>5. ASSUME NEW c \in Client,
             \/ Connect(c) \/ PeerLost(c) \/ ReadPublish(c) \/ ReadReject(c) \/ ReplyError(c)
             \/ ReadError(c) \/ WriteTake(c) \/ WriteStop(c) \/ WriteDone(c)
             \/ RegisterRecv(c) \/ UnregisterRecv(c) \/ BroadcastRecv(c)
      PROVE  UNCHANGED pushVars
  BY <1>5 DEF Connect, PeerLost, ReadPublish, ReadReject, ReplyError, ReadError, WriteTake,
              WriteStop, WriteDone, RegisterRecv, UnregisterRecv, BroadcastRecv
<1>6. ASSUME RegisterApply \/ UnregisterApply \/ JoinChat \/ MapRace
      PROVE  UNCHANGED pushVars
  BY <1>6 DEF RegisterApply, UnregisterApply, JoinChat, MapRace
<1> QED
  BY <1>1, <1>2, <1>3, <1>4, <1>5, <1>6, Actions DEF pushVars

\* Register and Unregister wait for the read lock: the connection that somebody
\* holds is not removed, and no other one takes its place.
LEMMA LookedUpStep ==
    ASSUME ServiceInv, Next
    PROVE  LookedUp'
<1> SUFFICES ASSUME NEW p \in Pusher, push'[p] \in {"send", "close", "delete"}
             PROVE  /\ Serves(pushClient[p])'
                    /\ Owner[pushClient'[p]] = pushUser'[p]
                    /\ clients'[pushUser'[p]] \in {pushClient'[p], None}
                    /\ push'[p] = "delete" => closed'[pushClient'[p]]
  BY DEF LookedUp
<1>0. None \notin Client
  BY ConstantsAssumption
<1>1. \A c \in Client : closed[c] => closed'[c]
  BY RoomChanges DEF ServiceInv, TypeOK, UnregisterApply, CloseSend
<1>2. CASE push'[p] = push[p] /\ pushUser'[p] = pushUser[p] /\ pushClient'[p] = pushClient[p]
  <2>1. pushClient[p] \in Client
    BY <1>2 DEF ServiceInv, ProgramCounters
  <2>2. ~ UnregisterApply /\ ~ RegisterApply
    <3>1. CASE p = HubLoop
      BY <1>2, <3>1 DEF UnregisterApply, RegisterApply, ServiceInv, ProgramCounters
    <3>2. CASE p \in Caller
      BY <1>2, <3>2 DEF UnregisterApply, RegisterApply, NoReaders
    <3> QED
      BY <3>1, <3>2 DEF Pusher
  <2>3. /\ Serves(pushClient[p]) /\ Owner[pushClient[p]] = pushUser[p]
        /\ clients[pushUser[p]] \in {pushClient[p], None}
    BY <1>2 DEF ServiceInv, LookedUp
  <2>4. \A c \in Client : Serves(c) => Serves(c)'
    BY <2>2, ServesStep
  <2>5. Serves(pushClient[p])'
    BY <1>2, <2>1, <2>3, <2>4 DEF Serves, Live, Fresh
  <2>6. \A u \in User : clients'[u] \in {clients[u], None}
    BY <2>2, RoomChanges DEF DropClient, ClientsWithout, ServiceInv, TypeOK
  <2>7. pushUser[p] \in User
    BY <1>2 DEF ServiceInv, ProgramCounters
  <2> QED
    BY <1>1, <1>2, <2>1, <2>3, <2>5, <2>6, <2>7 DEF ServiceInv, LookedUp
<1>3. CASE LookUp(p)
  <2> DEFINE c == clients[pushUser[p]]
  <2>1. pushUser[p] \in User
    BY <1>3 DEF LookUp, ServiceInv, ProgramCounters
  <2>2. c # None /\ push'[p] = "send" /\ pushClient'[p] = c /\ pushUser'[p] = pushUser[p]
    BY <1>3 DEF LookUp, Finish, ServiceInv, TypeOK
  <2>3. c \in Client /\ Owner[c] = pushUser[p] /\ Serves(c)
    BY <2>1, <2>2 DEF ServiceInv, TypeOK, ProgramCounters, Entries
  <2>4. UNCHANGED <<reader, hub, cur, clients>>
    BY <1>3 DEF LookUp, pumpVars, hubVars, roomVars
  <2>5. Serves(pushClient[p])'
    BY <2>2, <2>3, <2>4 DEF Serves, Live, Fresh
  <2> QED
    BY <2>2, <2>3, <2>4, <2>5
<1>4. CASE TrySend(p) \/ CloseSend(p)
  <2>1. /\ push[p] \in {"send", "close"}
        /\ pushClient'[p] = pushClient[p] /\ pushUser'[p] = pushUser[p]
        /\ push'[p] = "delete" => closed'[pushClient[p]]
    <3>1. CASE TrySend(p)
      BY <3>1 DEF TrySend, OnFull, Panic, Finish, ServiceInv, TypeOK
    <3>2. CASE CloseSend(p)
      BY <3>2 DEF CloseSend, Panic, Finish, ServiceInv, TypeOK, ProgramCounters
    <3> QED
      BY <1>4, <3>1, <3>2
  <2>2. UNCHANGED <<reader, hub, cur, clients>>
    BY <1>4 DEF TrySend, CloseSend, pumpVars, hubVars, roomVars
  <2>3. /\ Serves(pushClient[p]) /\ Owner[pushClient[p]] = pushUser[p]
        /\ clients[pushUser[p]] \in {pushClient[p], None}
    BY <2>1 DEF ServiceInv, LookedUp
  <2>4. Serves(pushClient[p])'
    BY <2>1, <2>2, <2>3 DEF Serves, Live, Fresh
  <2> QED
    BY <2>1, <2>2, <2>3, <2>4
<1> QED
  BY <1>2, <1>3, <1>4, PushChanges

\* Every step keeps the invariant of the connections.
LEMMA ServiceInvStep ==
    ASSUME ServiceInv, Next
    PROVE  ServiceInv'
<1>1. TypeOK' /\ ProgramCounters'
  BY TypeStep, ProgramCountersStep DEF ServiceInv
<1> QED
  BY <1>1, HandshakesStep, EntriesStep, LookedUpStep DEF ServiceInv

\* Steps that change nothing keep it.
LEMMA ServiceInvStutters == ServiceInv /\ UNCHANGED vars => ServiceInv'
<1> SUFFICES ASSUME ServiceInv, UNCHANGED vars
             PROVE  ServiceInv'
  OBVIOUS
<1> USE DEF vars, roomVars, pumpVars, hubVars, pushVars, histVars, ServiceInv
<1>1. TypeOK' /\ ProgramCounters'
  BY DEF TypeOK, ProgramCounters
<1>2. \A c \in Client : /\ Live(c)' <=> Live(c)
                        /\ Fresh(c)' <=> Fresh(c)
                        /\ Serves(c)' <=> Serves(c)
  BY DEF Live, Fresh, Serves
<1>3. Handshakes'
  BY <1>2 DEF Handshakes
<1>4. Entries'
  BY <1>2 DEF Entries, TypeOK
<1>5. LookedUp'
  BY <1>2 DEF LookedUp, ProgramCounters
<1> QED
  BY <1>1, <1>3, <1>4, <1>5

\* Nobody is connected when the hub starts.
LEMMA ServiceInvInit == Init => ServiceInv
<1> SUFFICES ASSUME Init
             PROVE  ServiceInv
  OBVIOUS
<1>1. TypeOK /\ ProgramCounters
  BY HubInit DEF HubInv
<1>2. \A c \in Client : ~ Live(c) /\ ~ Serves(c)
  BY DEF Init, Live, Serves
<1>3. Handshakes /\ Entries /\ LookedUp
  BY <1>2 DEF Init, Handshakes, Entries, LookedUp
<1> QED
  BY <1>1, <1>3 DEF ServiceInv

\* The map holds connections in service, whoever connects when.
THEOREM ServiceInvariant == Spec => []ServiceInv
<1>1. ServiceInv /\ [Next]_vars => ServiceInv'
  BY ServiceInvStep, ServiceInvStutters
<1> QED
  BY <1>1, ServiceInvInit, PTL DEF Spec

-----------------------------------------------------------------------------
(* What waits in a buffer.                                                 *)

Places(q, k) == {i \in 1 .. Len(q) : q[i].kind = "message" /\ q[i].chat = k}

\* The messages of chat k in q are those after a up to b, in order.
Gapless(q, k, a, b) ==
    /\ a <= b
    /\ {q[i].n : i \in Places(q, k)} = a + 1 .. b
    /\ \A i, j \in Places(q, k) : i < j => q[i].n < q[j].n

\* The places of what was there stay when an item is added at the end.
LEMMA PlacesAppend ==
    ASSUME NEW q \in Seq(Items), NEW item \in Items, NEW k \in Chat
    PROVE  /\ \A i \in 1 .. Len(q) : Append(q, item)[i] = q[i]
           /\ Append(q, item)[Len(q) + 1] = item
           /\ Places(Append(q, item), k) =
                 IF item.kind = "message" /\ item.chat = k THEN Places(q, k) \cup {Len(q) + 1}
                 ELSE Places(q, k)
<1>1. /\ Len(q) \in Nat /\ Len(Append(q, item)) = Len(q) + 1
      /\ \A i \in 1 .. Len(q) : Append(q, item)[i] = q[i]
      /\ Append(q, item)[Len(q) + 1] = item
  OBVIOUS
<1>2. 1 .. Len(q) + 1 = 1 .. Len(q) \cup {Len(q) + 1}
  BY <1>1
<1> QED
  BY <1>1, <1>2 DEF Places

\* They move up by one when the first item is taken.
LEMMA PlacesTail ==
    ASSUME NEW q \in Seq(Items), q # <<>>, NEW k \in Chat
    PROVE  /\ Len(q) \in Nat
           /\ Head(q) = q[1]
           /\ \A i \in 1 .. Len(q) - 1 : Tail(q)[i] = q[i + 1]
           /\ \A i \in Places(Tail(q), k) : i \in Nat \ {0} /\ i + 1 \in Places(q, k)
           /\ \A i \in Places(q, k) : i = 1 \/ i - 1 \in Places(Tail(q), k)
<1>1. /\ Len(q) \in Nat /\ Len(Tail(q)) = Len(q) - 1
      /\ Head(q) = q[1]
      /\ \A i \in 1 .. Len(q) - 1 : Tail(q)[i] = q[i + 1]
  OBVIOUS
<1> QED
  BY <1>1 DEF Places

\* The next message of the chat keeps a buffer gapless.
LEMMA GaplessNext ==
    ASSUME NEW q \in Seq(Items), NEW k \in Chat, NEW a \in Nat, NEW b \in Nat,
           Gapless(q, k, a, b), Message(k, b + 1) \in Items
    PROVE  Gapless(Append(q, Message(k, b + 1)), k, a, b + 1)
<1> DEFINE item == Message(k, b + 1)
           r == Append(q, item)
<1>1. item.kind = "message" /\ item.chat = k /\ item.n = b + 1 /\ item \in Items
  BY DEF Message
<1>2. /\ \A i \in 1 .. Len(q) : r[i] = q[i]
      /\ r[Len(q) + 1] = item
      /\ Places(r, k) = Places(q, k) \cup {Len(q) + 1}
  BY <1>1, PlacesAppend
<1>3. Len(q) \in Nat /\ Places(q, k) \subseteq 1 .. Len(q)
  BY DEF Places
<1> HIDE DEF item, r
<1>4. {r[i].n : i \in Places(r, k)} = {q[i].n : i \in Places(q, k)} \cup {b + 1}
  BY <1>1, <1>2, <1>3
<1>5. {r[i].n : i \in Places(r, k)} = a + 1 .. b + 1 /\ a <= b + 1
  <2>1. a <= b /\ {q[i].n : i \in Places(q, k)} = a + 1 .. b
    BY DEF Gapless
  <2>2. (a + 1 .. b) \cup {b + 1} = a + 1 .. b + 1
    BY <2>1
  <2>3. {q[i].n : i \in Places(q, k)} \cup {b + 1} = a + 1 .. b + 1
    BY <2>1, <2>2, Zenon
  <2>4. a <= b + 1
    BY <2>1
  <2> QED
    BY <1>4, <2>3, <2>4, Zenon
<1>6. \A i \in Places(q, k) : q[i].n \in a + 1 .. b
  BY DEF Gapless
<1>7. \A i, j \in Places(r, k) : i < j => r[i].n < r[j].n
  <2> SUFFICES ASSUME NEW i \in Places(r, k), NEW j \in Places(r, k), i < j
               PROVE  r[i].n < r[j].n
    OBVIOUS
  <2>1. i \in Places(q, k) /\ r[i] = q[i]
    BY <1>2, <1>3
  <2>2. CASE j \in Places(q, k)
    BY <1>2, <1>3, <2>1, <2>2 DEF Gapless
  <2>3. CASE j = Len(q) + 1
    <3>1. q[i].n \in a + 1 .. b
      BY <1>6, <2>1
    <3>2. q[i].n < b + 1
      BY <3>1
    <3> QED
      BY <1>1, <1>2, <2>1, <2>3, <3>2
  <2> QED
    BY <1>2, <2>2, <2>3
<1> QED
  BY <1>5, <1>7 DEF Gapless, item, r

\* Anything else leaves it as it is.
LEMMA GaplessOther ==
    ASSUME NEW q \in Seq(Items), NEW k \in Chat, NEW a, NEW b, Gapless(q, k, a, b),
           NEW item \in Items, ~ (item.kind = "message" /\ item.chat = k)
    PROVE  Gapless(Append(q, item), k, a, b)
<1> DEFINE r == Append(q, item)
<1>1. /\ \A i \in 1 .. Len(q) : r[i] = q[i]
      /\ Places(r, k) = Places(q, k)
  BY PlacesAppend
<1>2. \A i \in Places(q, k) : r[i] = q[i]
  BY <1>1 DEF Places
<1> HIDE DEF r
<1>3. {r[i].n : i \in Places(r, k)} = {q[i].n : i \in Places(q, k)}
  BY <1>1, <1>2
<1> QED
  BY <1>1, <1>2, <1>3 DEF Gapless, r

\* Taking the first item: if it is of the chat, it is the one after a.
LEMMA GaplessTake ==
    ASSUME NEW q \in Seq(Items), q # <<>>, NEW k \in Chat, NEW a \in Nat, NEW b \in Nat,
           Gapless(q, k, a, b)
    PROVE  IF Head(q).kind = "message" /\ Head(q).chat = k
           THEN Head(q).n = a + 1 /\ Gapless(Tail(q), k, a + 1, b)
           ELSE Gapless(Tail(q), k, a, b)
<1> DEFINE r == Tail(q)
<1>1. /\ Len(q) \in Nat /\ Len(q) >= 1
      /\ Head(q) = q[1]
      /\ \A i \in Places(q, k) : i \in Nat \ {0}
      /\ \A i \in Places(r, k) : /\ i \in Nat \ {0} /\ i + 1 \in Places(q, k)
                                /\ r[i] = q[i + 1]
      /\ \A i \in Places(q, k) : i = 1 \/ (i - 1 \in Places(r, k) /\ r[i - 1] = q[i])
      /\ 1 \in Places(q, k) <=> (Head(q).kind = "message" /\ Head(q).chat = k)
  <2>1. Len(q) >= 1 /\ Len(q) \in Nat
    OBVIOUS
  <2>2. \A i \in Places(q, k) : i \in 1 .. Len(q)
    BY DEF Places
  <2> QED
    BY <2>1, <2>2, PlacesTail DEF Places
<1> HIDE DEF r
<1>2. \A i \in Places(q, k) : q[i].n \in a + 1 .. b
  BY DEF Gapless
<1>3. \A i, j \in Places(r, k) : i < j => r[i].n < r[j].n
  <2> SUFFICES ASSUME NEW i \in Places(r, k), NEW j \in Places(r, k), i < j
               PROVE  r[i].n < r[j].n
    OBVIOUS
  <2>1. i + 1 < j + 1
    BY <1>1
  <2> QED
    BY <1>1, <2>1 DEF Gapless
<1>4. {r[i].n : i \in Places(r, k)} = {q[i].n : i \in Places(q, k) \ {1}}
  <2>1. ASSUME NEW i \in Places(r, k)
        PROVE  i + 1 \in Places(q, k) \ {1} /\ r[i].n = q[i + 1].n
    BY <1>1
  <2>2. ASSUME NEW i \in Places(q, k) \ {1}
        PROVE  i - 1 \in Places(r, k) /\ r[i - 1].n = q[i].n
    BY <1>1
  <2> QED
    BY <2>1, <2>2
<1>5. CASE 1 \in Places(q, k)
  <2>1. a + 1 <= b
    BY <1>2, <1>5
  <2>2. PICK i \in Places(q, k) : q[i].n = a + 1
    <3>1. a + 1 \in a + 1 .. b
      BY <2>1
    <3> QED
      BY <3>1 DEF Gapless
  <2>3. i = 1
    <3> SUFFICES ASSUME i # 1 PROVE FALSE
      OBVIOUS
    <3>1. 1 < i
      BY <1>1
    <3>2. q[1].n < a + 1
      BY <1>5, <2>2, <3>1 DEF Gapless
    <3> QED
      BY <1>2, <1>5, <3>2
  <2>4. q[1].n = a + 1
    BY <2>2, <2>3
  <2>5. \A j \in Places(q, k) \ {1} : q[j].n > a + 1
    BY <1>1, <1>2, <1>5, <2>4 DEF Gapless
  <2>6. {q[j].n : j \in Places(q, k) \ {1}} = (a + 1) + 1 .. b
    <3>1. ASSUME NEW j \in Places(q, k) \ {1} PROVE q[j].n \in (a + 1) + 1 .. b
      BY <1>2, <2>5
    <3>2. ASSUME NEW n \in (a + 1) + 1 .. b
          PROVE  \E j \in Places(q, k) \ {1} : q[j].n = n
      <4>1. n \in a + 1 .. b /\ n # a + 1
        OBVIOUS
      <4>2. PICK j \in Places(q, k) : q[j].n = n
        BY <4>1 DEF Gapless
      <4> QED
        BY <2>4, <4>1, <4>2
    <3> QED
      BY <3>1, <3>2
  <2>7. Gapless(r, k, a + 1, b)
    BY <1>3, <1>4, <2>1, <2>6 DEF Gapless
  <2> QED
    BY <1>1, <1>5, <2>4, <2>7 DEF r
<1>6. CASE 1 \notin Places(q, k)
  <2>1. Places(q, k) \ {1} = Places(q, k)
    BY <1>6
  <2>2. Gapless(r, k, a, b)
    BY <1>3, <1>4, <2>1 DEF Gapless
  <2> QED
    BY <1>1, <1>6, <2>2 DEF r
<1> QED
  BY <1>5, <1>6

-----------------------------------------------------------------------------
(* The fan-out.                                                            *)

\* The steps of the hub that end its visit to a member.
Visit == LookUp(HubLoop) \/ TrySend(HubLoop) \/ CloseSend(HubLoop) \/ DropClient(HubLoop)

\* How far the loop over the room is.
LEMMA LoopChanges ==
    ASSUME ServiceInv, Next
    PROVE  \/ NextMember
           \/ \E c \in Client : BroadcastRecv(c)
           \/ hub # "message" /\ hub' # "message" /\ UNCHANGED posted
           \/ /\ hub = "message" /\ UNCHANGED <<hub, curMsg, todo, posted, chatRooms>>
              /\ \/ push'[HubLoop] = push[HubLoop] /\ pushUser'[HubLoop] = pushUser[HubLoop]
                 \/ /\ Visit
                    /\ push[HubLoop] # "idle"
                    /\ \/ push'[HubLoop] = "idle"
                       \/ push'[HubLoop] # "idle" /\ pushUser'[HubLoop] = pushUser[HubLoop]
<1> USE DEF ServiceInv, TypeOK, Pusher
<1>0. HubLoop \in Pusher /\ HubLoop \notin Caller
  BY ConstantsAssumption
<1>1. ASSUME NEW c \in Client,
             \/ Connect(c) \/ PeerLost(c) \/ ReadPublish(c) \/ ReadReject(c) \/ ReplyError(c)
             \/ ReadError(c)
      PROVE  UNCHANGED <<hub, curMsg, todo, posted, chatRooms, push, pushUser>>
  BY <1>1 DEF Connect, PeerLost, ReadPublish, ReadReject, ReplyError, ReadError, hubVars,
              pushVars, histVars, roomVars
<1>2. ASSUME NEW c \in Client, WriteTake(c) \/ WriteStop(c) \/ WriteDone(c)
      PROVE  UNCHANGED <<hub, curMsg, todo, posted, chatRooms, push, pushUser>>
  BY <1>2 DEF WriteTake, WriteStop, WriteDone, hubVars, pushVars, histVars, roomVars
<1>3. ASSUME \/ \E c \in Client : RegisterRecv(c) \/ UnregisterRecv(c)
             \/ RegisterApply \/ UnregisterApply \/ JoinChat
      PROVE  hub # "message" /\ hub' # "message" /\ UNCHANGED posted
  BY <1>3 DEF RegisterRecv, UnregisterRecv, RegisterApply, UnregisterApply, JoinChat, histVars
<1>4. ASSUME MapRace
      PROVE  UNCHANGED <<hub, curMsg, todo, posted, chatRooms, push, pushUser>>
  BY <1>4 DEF MapRace, hubVars, pushVars, histVars, roomVars
<1>5. ASSUME NEW p \in Caller,
             Call(p) \/ LookUp(p) \/ TrySend(p) \/ CloseSend(p) \/ DropClient(p)
      PROVE  /\ UNCHANGED <<hub, curMsg, todo, posted, chatRooms>>
             /\ push'[HubLoop] = push[HubLoop] /\ pushUser'[HubLoop] = pushUser[HubLoop]
  BY <1>0, <1>5 DEF Call, LookUp, TrySend, CloseSend, DropClient, OnFull, Panic, Finish,
                    hubVars, histVars, roomVars
<1>6. ASSUME Visit
      PROVE  /\ hub = "message"
             /\ UNCHANGED <<hub, curMsg, todo, posted, chatRooms>>
             /\ push[HubLoop] # "idle"
             /\ \/ push'[HubLoop] = "idle"
                \/ push'[HubLoop] # "idle" /\ pushUser'[HubLoop] = pushUser[HubLoop]
  <2>1. UNCHANGED <<hub, curMsg, todo, posted, chatRooms>> /\ push[HubLoop] # "idle"
    BY <1>6 DEF Visit, LookUp, TrySend, CloseSend, DropClient, hubVars, histVars, roomVars
  <2>2. hub = "message"
    BY <2>1 DEF ProgramCounters
  <2>3. push'[HubLoop] = "idle" \/ pushUser'[HubLoop] = pushUser[HubLoop]
    BY <1>0, <1>6 DEF Visit, LookUp, TrySend, CloseSend, DropClient, OnFull, Panic, Finish
  <2> QED
    BY <2>1, <2>2, <2>3
<1>7. hub # "message" => push[HubLoop] = "idle"
  BY DEF ProgramCounters
<1> QED
  BY <1>1, <1>2, <1>3, <1>4, <1>5, <1>6, Actions DEF Visit

\* The room does not change while the loop visits it.
LEMMA FanOutStep ==
    ASSUME ServiceInv, FanOut, Next
    PROVE  FanOut'
<1> USE DEF ServiceInv, TypeOK, Pusher
<1>1. CASE NextMember
  BY <1>1 DEF NextMember, FanOut, roomVars
<1>2. ASSUME NEW c \in Client, BroadcastRecv(c)
      PROVE  FanOut'
  BY <1>2 DEF BroadcastRecv, FanOut, ProgramCounters, roomVars, pushVars
<1>3. ASSUME hub' # "message"
      PROVE  FanOut'
  BY <1>3 DEF FanOut
<1>4. ASSUME hub = "message", UNCHANGED <<hub, curMsg, todo, chatRooms>>,
             \/ push'[HubLoop] = push[HubLoop] /\ pushUser'[HubLoop] = pushUser[HubLoop]
             \/ /\ push[HubLoop] # "idle"
                /\ \/ push'[HubLoop] = "idle"
                   \/ push'[HubLoop] # "idle" /\ pushUser'[HubLoop] = pushUser[HubLoop]
      PROVE  FanOut'
  BY <1>4 DEF FanOut
<1> QED
  BY <1>1, <1>2, <1>3, <1>4, LoopChanges

\* What has been delivered to a member grows only when the loop leaves him.
LEMMA DeliveredChanges ==
    ASSUME ServiceInv, FanOut, Next, NEW u \in User, NEW k \in Chat
    PROVE  \/ Delivered(u, k)' = Delivered(u, k)
           \/ /\ Visit /\ push'[HubLoop] = "idle"
              /\ pushUser[HubLoop] = u /\ curMsg.chat = k
           \/ UNCHANGED <<chatRooms, clients, chatIDs>> /\ u \notin chatRooms[k]
<1> USE DEF ServiceInv, TypeOK, Pusher
<1>1. CASE NextMember
  <2>1. ASSUME NEW v \in todo, hub = "message", push[HubLoop] = "idle", todo' = todo \ {v},
               push'[HubLoop] = "lookup", pushUser'[HubLoop] = v,
               UNCHANGED <<hub, curMsg, posted>>
        PROVE  Delivered(u, k)' = Delivered(u, k)
    BY <2>1 DEF Delivered
  <2>2. ASSUME todo = {}, push[HubLoop] = "idle", hub' = "select", UNCHANGED <<posted, push>>
        PROVE  Delivered(u, k)' = Delivered(u, k)
    BY <2>2 DEF Delivered
  <2> QED
    BY <1>1, <2>1, <2>2 DEF NextMember, histVars
<1>2. ASSUME NEW c \in Client, BroadcastRecv(c)
      PROVE  \/ Delivered(u, k)' = Delivered(u, k)
             \/ UNCHANGED <<chatRooms, clients, chatIDs>> /\ u \notin chatRooms[k]
  <2>1. /\ hub = "select" /\ push[HubLoop] = "idle" /\ push'[HubLoop] = "idle"
        /\ UNCHANGED <<chatRooms, clients, chatIDs>>
        /\ curMsg' = out[c] /\ out[c].chat \in Chat
    BY <1>2 DEF BroadcastRecv, ProgramCounters, pushVars, roomVars, Broadcasts
  <2>2. CASE out[c].type = "join_chat"
    BY <1>2, <2>1, <2>2 DEF BroadcastRecv, Delivered
  <2>3. CASE out[c].type # "join_chat" /\ u \in chatRooms[k]
    <3>1. /\ hub' = "message" /\ todo' = chatRooms[out[c].chat]
          /\ posted' = [posted EXCEPT ![out[c].chat] = @ + 1]
      BY <1>2, <2>3 DEF BroadcastRecv
    <3>2. CASE out[c].chat = k
      <4>1. posted'[k] = posted[k] + 1 /\ u \in todo'
        BY <2>3, <3>1, <3>2
      <4> QED
        BY <2>1, <3>1, <3>2, <4>1 DEF Delivered
    <3>3. CASE out[c].chat # k
      <4>1. posted'[k] = posted[k]
        BY <3>1, <3>3
      <4> QED
        BY <2>1, <3>1, <3>3, <4>1 DEF Delivered
    <3> QED
      BY <3>2, <3>3
  <2> QED
    BY <2>1, <2>2, <2>3
<1>3. ASSUME hub # "message", hub' # "message", UNCHANGED posted
      PROVE  Delivered(u, k)' = Delivered(u, k)
  BY <1>3, ProgramCountersStep DEF Delivered, ProgramCounters
<1>4. ASSUME hub = "message", UNCHANGED <<hub, curMsg, todo, posted>>,
             \/ push'[HubLoop] = push[HubLoop] /\ pushUser'[HubLoop] = pushUser[HubLoop]
             \/ /\ push[HubLoop] # "idle"
                /\ push'[HubLoop] # "idle" /\ pushUser'[HubLoop] = pushUser[HubLoop]
             \/ pushUser[HubLoop] # u /\ push'[HubLoop] = "idle"
             \/ curMsg.chat # k
      PROVE  Delivered(u, k)' = Delivered(u, k)
  BY <1>4 DEF Delivered
<1> QED
  BY <1>1, <1>2, <1>3, <1>4, LoopChanges

-----------------------------------------------------------------------------
(* What the connections follow.                                            *)

\* A connection that is registered was so before, unless it has just been put into
\* the map.
LEMMA RegisteredBefore ==
    ASSUME ServiceInv, Next, NEW c \in Client, Registered(c)'
    PROVE  Registered(c) \/ (RegisterApply /\ c = cur)
<1> USE DEF ServiceInv, TypeOK, Registered
<1>0. None \notin Client /\ Owner[c] \in User
  BY ConstantsAssumption
<1>1. c \notin overflowed
  BY RoomChanges DEF UnregisterApply, CloseSend, histVars
<1>2. CASE RegisterApply
  <2>1. cur \in Client /\ clients' = [clients EXCEPT ![Owner[cur]] = cur]
    BY <1>2, ServesStep DEF RegisterApply, ClientsWith
  <2> QED
    BY <1>0, <1>1, <1>2, <2>1
<1>3. CASE UnregisterApply
  BY <1>0, <1>1, <1>3 DEF UnregisterApply, ClientsWithout
<1>4. ASSUME NEW p \in Pusher, DropClient(p)
      PROVE  clients[Owner[c]] = c
  BY <1>0, <1>4 DEF DropClient, ClientsWithout
<1> QED
  BY <1>1, <1>2, <1>3, <1>4, RoomChanges

\* What a registered connection follows changes only when its user joins a chat.
LEMMA FollowsChanges ==
    ASSUME ServiceInv, Next, NEW c \in Client, Registered(c), Registered(c)'
    PROVE  /\ ~ (RegisterApply /\ c = cur)
           /\ \/ Follows(c)' = Follows(c)
              \/ /\ JoinChat
                 /\ curMsg.sender = Owner[c] /\ clients[curMsg.sender] = c
                 /\ curMsg.chat \in Chat \ Follows(c)
                 /\ Follows(c)' = Follows(c) \cup {curMsg.chat}
<1> USE DEF ServiceInv, TypeOK
<1>0. None \notin Client /\ Owner[c] \in User
  BY ConstantsAssumption
<1>1. ~ (RegisterApply /\ c = cur)
  BY <1>0, ServesStep DEF Registered, Entries, Serves
<1>2. CASE UNCHANGED chatRooms
  BY <1>1, <1>2 DEF Follows, ChatsOf
<1>3. CASE UnregisterApply
  <2>1. cur \in Client /\ Owner[cur] \in User
    BY <1>3, ServesStep
  <2>2. Owner[c] # Owner[cur]
    BY <1>0, <1>3, <2>1 DEF UnregisterApply, ClientsWithout, Registered
  <2>3. \A k \in Chat : Owner[c] \in chatRooms'[k] <=> Owner[c] \in chatRooms[k]
    BY <1>3, <2>2 DEF UnregisterApply, RoomsWithout
  <2> QED
    BY <1>1, <2>3 DEF Follows, ChatsOf
<1>4. CASE JoinChat
  <2>1. curMsg.sender \in User /\ curMsg.chat \in Chat
    BY <1>4 DEF JoinChat, ProgramCounters, Broadcasts
  <2>2. \A k \in Chat : Owner[c] \in chatRooms'[k] <=>
            (Owner[c] \in chatRooms[k] \/ (k = curMsg.chat /\ Owner[c] = curMsg.sender))
    BY <1>4, <2>1 DEF JoinChat
  <2>3. CASE Owner[c] = curMsg.sender /\ curMsg.chat \notin Follows(c)
    BY <1>1, <1>4, <2>1, <2>2, <2>3 DEF Follows, ChatsOf, Registered
  <2>4. CASE Owner[c] = curMsg.sender /\ curMsg.chat \in Follows(c)
    BY <1>1, <2>2, <2>4 DEF Follows, ChatsOf
  <2>5. CASE Owner[c] # curMsg.sender
    BY <1>1, <2>2, <2>5 DEF Follows, ChatsOf
  <2> QED
    BY <2>3, <2>4, <2>5
<1> QED
  BY <1>2, <1>3, <1>4, RoomChanges

\* A registered connection follows what it has joined, whatever other connections
\* of its user do.
LEMMA JoinedIsFollowedStep ==
    ASSUME ServiceInv, NoGapInJoinedChat, Next, NEW c \in Client, Registered(c)'
    PROVE  chatIDs'[c] \subseteq Follows(c)'
<1> USE DEF ServiceInv, TypeOK
<1>1. CASE RegisterApply /\ c = cur
  BY <1>1, ServesStep DEF RegisterApply, Handshakes
<1>2. CASE Registered(c)
  <2>1. chatIDs[c] \subseteq Follows(c) /\ Follows(c) \subseteq Follows(c)'
    <3>1. chatIDs[c] \subseteq Follows(c)
      BY <1>2, Zenon DEF NoGapInJoinedChat
    <3>2. Follows(c) \subseteq Follows(c)'
      BY <1>2, FollowsChanges
    <3> QED
      BY <3>1, <3>2
  <2>2. CASE JoinChat
    <3>1. /\ curMsg.sender \in User /\ curMsg.chat \in Chat
          /\ clients[curMsg.sender] \in Client \cup {None}
      BY <2>2 DEF JoinChat, ProgramCounters, Broadcasts
    <3>2. clients[curMsg.sender] = c => Owner[c] = curMsg.sender
      BY <3>1 DEF ProgramCounters
    <3>3. Owner[c] = curMsg.sender => curMsg.chat \in Follows(c)'
      BY <2>2, <3>1 DEF JoinChat, Follows, ChatsOf
    <3>4. chatIDs'[c] \subseteq
              IF clients[curMsg.sender] = c THEN chatIDs[c] \cup {curMsg.chat} ELSE chatIDs[c]
      BY <2>2, <3>1 DEF JoinChat, ChatIDsWith
    <3> QED
      BY <2>1, <3>2, <3>3, <3>4
  <2> QED
    BY <2>1, <2>2, RoomChanges
<1> QED
  BY <1>1, <1>2, RegisteredBefore

-----------------------------------------------------------------------------
(* What the connections are sent.                                          *)

\* The connection that the hub is sending to is of a user who is in the chat.
LEMMA TargetIsMember ==
    ASSUME ServiceInv, FanOut, push[HubLoop] = "send"
    PROVE  /\ curMsg \in Broadcasts /\ curMsg.chat \in Chat
           /\ pushClient[HubLoop] \in Client /\ Serves(pushClient[HubLoop])
           /\ Owner[pushClient[HubLoop]] = pushUser[HubLoop]
           /\ pushUser[HubLoop] \in User \ todo
           /\ pushUser[HubLoop] \in chatRooms[curMsg.chat]
<1> USE DEF ServiceInv
<1>1. HubLoop \in Pusher
  BY DEF Pusher
<1>2. hub = "message" /\ curMsg \in Broadcasts /\ curMsg.chat \in Chat
  BY DEF ProgramCounters, Broadcasts
<1>3. /\ pushClient[HubLoop] \in Client /\ pushUser[HubLoop] \in User
      /\ Serves(pushClient[HubLoop]) /\ Owner[pushClient[HubLoop]] = pushUser[HubLoop]
  BY <1>1 DEF ProgramCounters, LookedUp
<1>4. pushUser[HubLoop] \in chatRooms[curMsg.chat] \ todo
  BY <1>2 DEF FanOut
<1> QED
  BY <1>2, <1>3, <1>4

\* A step puts one item into one buffer, takes the first one out, or neither.
LEMMA SendChanges ==
    ASSUME ServiceInv, FanOut, Next
    PROVE  \/ UNCHANGED send
           \/ \E c \in Client : WriteTake(c)
           \/ \E c \in Client : \E item \in {Notice, ErrorReply} :
                 send' = [send EXCEPT ![c] = Append(@, item)] /\ ~ Visit
           \/ /\ TrySend(HubLoop) /\ ~ closed[pushClient[HubLoop]]
              /\ push'[HubLoop] = "idle"
              /\ send' = [send EXCEPT ![pushClient[HubLoop]] =
                            Append(@, Message(curMsg.chat, posted[curMsg.chat]))]
<1> USE DEF ServiceInv, TypeOK, Pusher
<1>1. ASSUME NEW c \in Client, ReplyError(c)
      PROVE  \/ UNCHANGED send
             \/ send' = [send EXCEPT ![c] = Append(@, ErrorReply)] /\ UNCHANGED push
  BY <1>1 DEF ReplyError, pushVars
<1>2. ASSUME NEW p \in Caller, TrySend(p)
      PROVE  \/ UNCHANGED send
             \/ \E c \in Client :
                   send' = [send EXCEPT ![c] = Append(@, Notice)] /\ push'[HubLoop] = push[HubLoop]
  <2>1. pushClient[p] \in Client /\ p # HubLoop
    BY <1>2, ConstantsAssumption DEF TrySend, ProgramCounters
  <2>2. push'[HubLoop] = push[HubLoop]
    BY <1>2, <2>1 DEF TrySend, OnFull, Panic, Finish
  <2> QED
    BY <1>2, <2>1, <2>2 DEF TrySend, ItemOf
<1>3. ASSUME TrySend(HubLoop)
      PROVE  \/ UNCHANGED send
             \/ /\ ~ closed[pushClient[HubLoop]]
                /\ push'[HubLoop] = "idle"
                /\ send' = [send EXCEPT ![pushClient[HubLoop]] =
                              Append(@, Message(curMsg.chat, posted[curMsg.chat]))]
  BY <1>3 DEF TrySend, ItemOf, Finish
<1>4. ASSUME NEW c \in Client,
             \/ Connect(c) \/ PeerLost(c) \/ ReadPublish(c) \/ ReadReject(c) \/ ReadError(c)
             \/ WriteStop(c) \/ WriteDone(c)
             \/ RegisterRecv(c) \/ UnregisterRecv(c) \/ BroadcastRecv(c)
      PROVE  UNCHANGED send
  BY <1>4 DEF Connect, PeerLost, ReadPublish, ReadReject, ReadError, WriteStop, WriteDone,
              RegisterRecv, UnregisterRecv, BroadcastRecv
<1>5. ASSUME \/ RegisterApply \/ UnregisterApply \/ JoinChat \/ NextMember \/ MapRace
             \/ \E p \in Caller : Call(p)
             \/ \E p \in Pusher : LookUp(p) \/ CloseSend(p) \/ DropClient(p)
      PROVE  UNCHANGED send
  BY <1>5 DEF RegisterApply, UnregisterApply, JoinChat, NextMember, MapRace, Call, LookUp,
              CloseSend, DropClient
<1>6. Visit => push'[HubLoop] # push[HubLoop]
  BY DEF Visit, LookUp, TrySend, CloseSend, DropClient, OnFull, Panic, Finish
<1> QED
  BY <1>1, <1>2, <1>3, <1>4, <1>5, <1>6, Actions

\* What a connection has seen changes when its writer takes a message and when it
\* joins or is registered.
LEMMA SeenChanges ==
    ASSUME Next
    PROVE  UNCHANGED seen \/ JoinChat \/ RegisterApply \/ \E c \in Client : WriteTake(c)
<1>1. ASSUME NEW c \in Client,
             \/ Connect(c) \/ PeerLost(c) \/ ReadPublish(c) \/ ReadReject(c) \/ ReplyError(c)
             \/ ReadError(c) \/ WriteStop(c) \/ WriteDone(c)
             \/ RegisterRecv(c) \/ UnregisterRecv(c) \/ BroadcastRecv(c)
      PROVE  UNCHANGED seen
  BY <1>1 DEF Connect, PeerLost, ReadPublish, ReadReject, ReplyError, ReadError, WriteStop,
              WriteDone, RegisterRecv, UnregisterRecv, BroadcastRecv, histVars
<1>2. ASSUME \/ UnregisterApply \/ NextMember \/ MapRace
             \/ \E p \in Caller : Call(p)
             \/ \E p \in Pusher : LookUp(p) \/ TrySend(p) \/ CloseSend(p) \/ DropClient(p)
      PROVE  UNCHANGED seen
  BY <1>2 DEF UnregisterApply, NextMember, MapRace, Call, LookUp, TrySend,
              CloseSend, DropClient, histVars
<1> QED
  BY <1>1, <1>2, Actions

\* The hub sends a message only to connections that follow its chat.
LEMMA OnlyFollowedStep ==
    ASSUME ServiceInv, FanOut, OnlyFollowed, Next
    PROVE  OnlyFollowed'
<1> SUFFICES ASSUME NEW c \in Client, NEW k \in Chat, k \notin Follows(c)', (Fresh(c) \/ Registered(c))'
             PROVE  Places(send'[c], k) = {}
  BY DEF OnlyFollowed, Waiting, Places
<1>0. send \in [Client -> Seq(Items)] /\ None \notin Client /\ Owner[c] \in User
  BY ConstantsAssumption DEF ServiceInv, TypeOK
<1>1. Fresh(c) => ~ Registered(c) /\ Follows(c) = {}
  BY <1>0 DEF Follows, Registered, ServiceInv, Entries, Serves
<1>2. Fresh(c) \/ (Registered(c) /\ k \notin Follows(c))
  <2>1. Fresh(c)' => Fresh(c)
    BY ServiceStep DEF SameService, ServiceInv
  <2>2. CASE Registered(c)' /\ Registered(c)
    BY <2>2, FollowsChanges
  <2>3. CASE RegisterApply /\ c = cur
    BY <2>3, ServesStep
  <2> QED
    BY <2>1, <2>2, <2>3, RegisteredBefore
<1>3. Places(send[c], k) = {}
  BY <1>1, <1>2 DEF OnlyFollowed, Waiting, Places
<1>4. ASSUME NEW d \in Client, NEW item \in Items, d = c => item.kind # "message" \/ item.chat # k,
             send' = [send EXCEPT ![d] = Append(@, item)]
      PROVE  Places(send'[c], k) = {}
  <2>1. CASE d = c
    <3>1. send'[c] = Append(send[c], item)
      BY <1>0, <1>4, <2>1
    <3> QED
      BY <1>0, <1>3, <1>4, <2>1, <3>1, PlacesAppend
  <2>2. CASE d # c
    BY <1>0, <1>3, <1>4, <2>2
  <2> QED
    BY <2>1, <2>2
<1>5. Notice \in Items /\ ErrorReply \in Items /\ Notice.kind # "message" /\ ErrorReply.kind # "message"
  BY DEF Items, Notice, ErrorReply
<1>6. ASSUME NEW d \in Client, WriteTake(d)
      PROVE  Places(send'[c], k) = {}
  <2>1. CASE d = c
    <3>1. send'[c] = Tail(send[c]) /\ send[c] # <<>>
      BY <1>0, <1>6, <2>1 DEF WriteTake
    <3> QED
      BY <1>0, <1>3, <3>1, PlacesTail
  <2>2. CASE d # c
    BY <1>0, <1>3, <1>6, <2>2 DEF WriteTake
  <2> QED
    BY <2>1, <2>2
<1>7. ASSUME TrySend(HubLoop),
             send' = [send EXCEPT ![pushClient[HubLoop]] =
                        Append(@, Message(curMsg.chat, posted[curMsg.chat]))]
      PROVE  Places(send'[c], k) = {}
  <2> DEFINE item == Message(curMsg.chat, posted[curMsg.chat])
             d == pushClient[HubLoop]
  <2>1. /\ d \in Client /\ curMsg.chat \in Chat /\ ~ Fresh(d)
        /\ Owner[d] \in chatRooms[curMsg.chat]
    BY <1>7, TargetIsMember DEF TrySend, Serves
  <2>2. item \in Items /\ item.chat = curMsg.chat
    BY <2>1 DEF Items, Message, ServiceInv, TypeOK
  <2>3. d = c => curMsg.chat # k
    BY <1>2, <2>1 DEF Follows, ChatsOf
  <2> HIDE DEF item
  <2>4. send' = [send EXCEPT ![d] = Append(@, item)]
    BY <1>7 DEF item
  <2> QED
    BY <1>4, <2>1, <2>2, <2>3, <2>4
<1> QED
  BY <1>3, <1>4, <1>5, <1>6, <1>7, SendChanges

\* The property for one connection and one chat.
NoGap(c, k) == Gapless(send[c], k, seen[c][k], Delivered(Owner[c], k))

\* NoGapInJoinedChat in these terms.
LEMMA NoGaps ==
    NoGapInJoinedChat <=>
        \A c \in Client : /\ Registered(c) => chatIDs[c] \subseteq Follows(c)
                          /\ \A k \in Follows(c) : NoGap(c, k)
  BY DEF NoGapInJoinedChat, NoGap, Gapless, Waiting, Places

\* A connection enters a chat at its end.
LEMMA EntersAtEnd ==
    ASSUME TypeOK, NEW c \in Client, NEW k \in Chat, Places(send[c], k) = {},
           UNCHANGED <<send, posted>>, seen'[c][k] = posted[k],
           hub' = "select", push'[HubLoop] = "idle"
    PROVE  NoGap(c, k)'
<1>1. Delivered(Owner[c], k)' = posted[k] /\ posted[k] \in Nat
  BY DEF Delivered, TypeOK
<1>2. posted[k] + 1 .. posted[k] = {} /\ posted[k] <= posted[k]
  BY <1>1
<1>3. Places(send'[c], k) = {}
  OBVIOUS
<1> QED
  BY <1>1, <1>2, <1>3 DEF NoGap, Gapless

\* The visit to its user ends: the message is in the buffer of the connection.
LEMMA VisitDelivers ==
    ASSUME ServiceInv, FanOut, Next, NEW c \in Client,
           clients[Owner[c]] = c, clients'[Owner[c]] = c, c \notin overflowed,
           Visit, push'[HubLoop] = "idle", pushUser[HubLoop] = Owner[c]
    PROVE  /\ TrySend(HubLoop) /\ ~ closed[pushClient[HubLoop]]
           /\ pushClient[HubLoop] = c
           /\ send' = [send EXCEPT ![c] = Append(@, Message(curMsg.chat, posted[curMsg.chat]))]
<1> USE DEF ServiceInv, TypeOK
<1>0. None \notin Client /\ Owner[c] \in User /\ HubLoop \in Pusher
  BY ConstantsAssumption DEF Pusher
<1>1. ~ closed[c]
  BY <1>0 DEF Entries
<1>2. push[HubLoop] \in {"send", "close"} => pushClient[HubLoop] = c
  BY <1>0 DEF LookedUp
<1>3. ~ LookUp(HubLoop)
  BY <1>0 DEF LookUp
<1>4. ~ CloseSend(HubLoop)
  BY <1>0, <1>1, <1>2 DEF CloseSend
<1>5. ~ DropClient(HubLoop)
  BY <1>0 DEF DropClient, ClientsWithout
<1>6. TrySend(HubLoop)
  BY <1>3, <1>4, <1>5 DEF Visit
<1> QED
  BY <1>0, <1>1, <1>2, <1>6 DEF TrySend, OnFull, ItemOf

\* What waits in a buffer does so without a gap after every step.
LEMMA NoGapStep ==
    ASSUME ServiceInv, DeliveryInv, Next,
           NEW c \in Client, Registered(c)', NEW k \in Follows(c)'
    PROVE  NoGap(c, k)'
<1> USE DEF ServiceInv, TypeOK
<1> DEFINE u == Owner[c]
<1>0. None \notin Client /\ u \in User /\ k \in Chat /\ FanOut /\ OnlyFollowed
  <2>1. Follows(c)' \subseteq Chat
    BY DEF Follows, ChatsOf
  <2> QED
    BY <2>1, ConstantsAssumption DEF DeliveryInv
<1>1. CASE RegisterApply /\ c = cur
  <2>1. Places(send[c], k) = {}
    <3>0. Fresh(c) /\ ~ Registered(c)
      BY <1>0, <1>1, ServesStep DEF Registered, Entries, Serves
    <3>1. Fresh(c) /\ Follows(c) = {}
      BY <3>0 DEF Follows
    <3> QED
      BY <1>0, <3>1 DEF OnlyFollowed, Waiting, Places
  <2>2. /\ UNCHANGED <<send, posted>> /\ seen'[c][k] = posted[k]
        /\ hub' = "select" /\ push'[HubLoop] = "idle"
    BY <1>0, <1>1 DEF RegisterApply, pushVars, ProgramCounters
  <2> QED
    BY <1>0, <2>1, <2>2, EntersAtEnd
<1>2. CASE Registered(c) /\ k \notin Follows(c)
  <2>1. /\ JoinChat /\ k = curMsg.chat /\ c = clients[curMsg.sender]
        /\ curMsg.sender \notin chatRooms[k]
    BY <1>0, <1>2, FollowsChanges DEF Follows, ChatsOf
  <2>2. Places(send[c], k) = {}
    BY <1>0, <1>2 DEF OnlyFollowed, Waiting, Places
  <2>3. seen' = [seen EXCEPT ![c][k] = posted[k]]
    BY <1>0, <2>1 DEF JoinChat
  <2>4. /\ UNCHANGED <<send, posted>> /\ seen'[c][k] = posted[k]
        /\ hub' = "select" /\ push'[HubLoop] = "idle"
    BY <1>0, <2>1, <2>3 DEF JoinChat, pushVars, ProgramCounters
  <2> QED
    BY <1>0, <2>2, <2>4, EntersAtEnd
<1>3. CASE Registered(c) /\ k \in Follows(c)
  <2> DEFINE a == seen[c][k]
             b == Delivered(u, k)
  <2>0. u \in chatRooms[k] /\ clients[u] = c /\ clients'[u] = c /\ c \notin overflowed
    BY <1>3 DEF Follows, ChatsOf, Registered
  <2>1. Gapless(send[c], k, a, b)
    BY <1>3, NoGaps DEF DeliveryInv, NoGap
  <2>2. a \in Nat /\ b \in Int /\ posted[k] \in Nat /\ send[c] \in Seq(Items)
    BY <1>0 DEF Delivered
  <2>3. b \in Nat
    BY <2>1, <2>2 DEF Gapless
  <2>4. ASSUME Visit, push'[HubLoop] = "idle", pushUser[HubLoop] = u, curMsg.chat = k
        PROVE  NoGap(c, k)'
    <3>1. /\ TrySend(HubLoop) /\ ~ closed[pushClient[HubLoop]]
          /\ send' = [send EXCEPT ![c] = Append(@, Message(k, posted[k]))]
      BY <1>0, <2>0, <2>4, VisitDelivers
    <3>2. UNCHANGED <<seen, posted, todo, hub, curMsg>>
      BY <3>1 DEF TrySend, histVars, hubVars
    <3>3. u \notin todo
      BY <1>0, <2>4, <3>1, TargetIsMember DEF TrySend
    <3>4. b = posted[k] - 1 /\ Delivered(u, k)' = posted[k]
      BY <2>4, <3>1, <3>2, <3>3 DEF Delivered, TrySend
    <3>5. posted[k] = b + 1 /\ Message(k, posted[k]) \in Items
      BY <1>0, <2>2, <3>4 DEF Items, Message
    <3>6. Gapless(Append(send[c], Message(k, b + 1)), k, a, b + 1)
      BY <1>0, <2>1, <2>2, <2>3, <3>5, GaplessNext
    <3>7. send'[c] = Append(send[c], Message(k, b + 1))
      BY <3>1, <3>5
    <3> HIDE DEF u
    <3> QED
      BY <3>2, <3>4, <3>5, <3>6, <3>7 DEF NoGap, u
  <2>5. ASSUME Delivered(u, k)' = b,
               ~ (Visit /\ push'[HubLoop] = "idle" /\ pushUser[HubLoop] = u /\ curMsg.chat = k)
        PROVE  NoGap(c, k)'
    <3>0. ASSUME Gapless(send'[c], k, seen'[c][k], b)
          PROVE  NoGap(c, k)'
      BY <2>5, <3>0 DEF NoGap
    <3> HIDE DEF a, b
    <3>1. ASSUME NEW d \in Client, WriteTake(d)
          PROVE  NoGap(c, k)'
      <4>1. CASE d = c
        <5> DEFINE item == Head(send[c])
        <5>1. /\ send[c] # <<>> /\ send'[c] = Tail(send[c])
              /\ seen' = IF item.kind = "message" THEN [seen EXCEPT ![c][item.chat] = item.n]
                         ELSE seen
          BY <3>1, <4>1 DEF WriteTake
        <5>2. IF item.kind = "message" /\ item.chat = k
              THEN item.n = a + 1 /\ Gapless(Tail(send[c]), k, a + 1, b)
              ELSE Gapless(Tail(send[c]), k, a, b)
          BY <1>0, <2>1, <2>2, <2>3, <5>1, GaplessTake
        <5>3. CASE item.kind = "message" /\ item.chat = k
          <6>1. item.n = a + 1 /\ Gapless(send'[c], k, a + 1, b)
            BY <5>1, <5>2, <5>3
          <6>2. seen'[c][k] = item.n
            BY <1>0, <5>1, <5>3
          <6> QED
            BY <3>0, <6>1, <6>2
        <5>4. CASE ~ (item.kind = "message" /\ item.chat = k)
          <6>1. Gapless(send'[c], k, a, b)
            BY <5>1, <5>2, <5>4
          <6>2. seen'[c][k] = a
            BY <1>0, <5>1, <5>4 DEF a
          <6> QED
            BY <3>0, <6>1, <6>2
        <5> QED
          BY <5>3, <5>4
      <4>2. CASE d # c
        <5>1. send'[c] = send[c] /\ seen'[c][k] = a
          BY <3>1, <4>2 DEF WriteTake, a
        <5> QED
          BY <2>1, <3>0, <5>1
      <4> QED
        BY <4>1, <4>2
    <3>2. ASSUME NEW d \in Client, NEW item \in Items,
                 d = c => item.kind # "message" \/ item.chat # k,
                 send' = [send EXCEPT ![d] = Append(@, item)],
                 seen'[c][k] = a
          PROVE  NoGap(c, k)'
      <4>1. CASE d = c
        <5>1. send'[c] = Append(send[c], item)
          BY <3>2, <4>1
        <5>2. Gapless(send'[c], k, a, b)
          BY <1>0, <2>1, <2>2, <3>2, <4>1, <5>1, GaplessOther
        <5> QED
          BY <3>0, <3>2, <5>2
      <4>2. CASE d # c
        <5>1. send'[c] = send[c]
          BY <3>2, <4>2
        <5> QED
          BY <2>1, <3>0, <3>2, <5>1
      <4> QED
        BY <4>1, <4>2
    <3>3. (\A d \in Client : ~ WriteTake(d)) => seen'[c][k] = a
      <4>1. CASE UNCHANGED seen
        BY <4>1 DEF a
      <4>2. CASE JoinChat
        <5> DEFINE d == clients[curMsg.sender]
        <5>1. /\ curMsg.sender \in User /\ d \in Client \cup {None}
              /\ seen' = IF d = None \/ curMsg.sender \in chatRooms[curMsg.chat] THEN seen
                         ELSE [seen EXCEPT ![d][curMsg.chat] = posted[curMsg.chat]]
          BY <4>2 DEF JoinChat, ProgramCounters, Broadcasts
        <5>2. d = c => curMsg.sender = u
          BY <5>1 DEF ProgramCounters
        <5>3. ~ (d = c /\ curMsg.chat = k) \/ seen' = seen
          BY <2>0, <5>1, <5>2
        <5> HIDE DEF d
        <5> QED
          BY <1>0, <5>1, <5>3 DEF a
      <4>3. CASE RegisterApply
        BY <1>0, <1>3, <4>3, FollowsChanges DEF RegisterApply, a
      <4> QED
        BY <4>1, <4>2, <4>3, SeenChanges
    <3>4. ASSUME NEW d \in Client, NEW item \in {Notice, ErrorReply},
                 send' = [send EXCEPT ![d] = Append(@, item)], seen'[c][k] = a
          PROVE  NoGap(c, k)'
      <4>1. item \in Items /\ item.kind # "message"
        BY DEF Items, Notice, ErrorReply
      <4> QED
        BY <3>2, <3>4, <4>1
    <3>5. ASSUME TrySend(HubLoop), ~ closed[pushClient[HubLoop]], push'[HubLoop] = "idle",
                 send' = [send EXCEPT ![pushClient[HubLoop]] =
                            Append(@, Message(curMsg.chat, posted[curMsg.chat]))],
                 seen'[c][k] = a
          PROVE  NoGap(c, k)'
      <4> DEFINE item == Message(curMsg.chat, posted[curMsg.chat])
      <4>1. /\ pushClient[HubLoop] \in Client /\ curMsg.chat \in Chat
            /\ Owner[pushClient[HubLoop]] = pushUser[HubLoop]
        BY <1>0, <3>5, TargetIsMember DEF TrySend
      <4>2. item \in Items /\ item.chat = curMsg.chat
        BY <4>1 DEF Items, Message
      <4>3. pushClient[HubLoop] = c => curMsg.chat # k
        BY <2>5, <3>5, <4>1 DEF Visit
      <4> HIDE DEF item
      <4>4. send' = [send EXCEPT ![pushClient[HubLoop]] = Append(@, item)]
        BY <3>5 DEF item
      <4> QED
        BY <3>2, <3>5, <4>1, <4>2, <4>3, <4>4
    <3>6. ASSUME UNCHANGED send, seen'[c][k] = a
          PROVE  NoGap(c, k)'
      BY <2>1, <3>0, <3>6
    <3> QED
      BY <1>0, <3>1, <3>3, <3>4, <3>5, <3>6, SendChanges
  <2> QED
    BY <1>0, <2>0, <2>4, <2>5, DeliveredChanges
<1> QED
  BY <1>1, <1>2, <1>3, RegisteredBefore

\* Every step keeps the invariant of the delivery.
LEMMA DeliveryStep ==
    ASSUME ServiceInv, DeliveryInv, Next
    PROVE  DeliveryInv'
<1>1. FanOut' /\ OnlyFollowed'
  BY FanOutStep, OnlyFollowedStep DEF DeliveryInv
<1>2. NoGapInJoinedChat'
  <2>1. \A c \in Client : Registered(c)' => chatIDs'[c] \subseteq Follows(c)'
    BY JoinedIsFollowedStep DEF DeliveryInv
  <2>2. \A c \in Client : \A k \in Follows(c)' : NoGap(c, k)'
    BY NoGapStep DEF Follows, ChatsOf
  <2> QED
    BY <2>1, <2>2 DEF NoGapInJoinedChat, NoGap, Gapless, Waiting, Places
<1> QED
  BY <1>1, <1>2 DEF DeliveryInv

\* So do steps that change nothing.
LEMMA DeliveryStutters == DeliveryInv /\ UNCHANGED vars => DeliveryInv'
<1> SUFFICES ASSUME DeliveryInv, UNCHANGED vars
             PROVE  DeliveryInv'
  OBVIOUS
<1> USE DEF vars, roomVars, pumpVars, hubVars, pushVars, histVars, DeliveryInv
<1>1. \A c \in Client : /\ Fresh(c)' <=> Fresh(c)
                        /\ Registered(c)' <=> Registered(c)
                        /\ Follows(c)' = Follows(c)
  BY DEF Fresh, Registered, Follows, ChatsOf
<1>2. FanOut' /\ OnlyFollowed'
  BY <1>1 DEF FanOut, OnlyFollowed, Waiting
<1>3. NoGapInJoinedChat'
  BY <1>1 DEF NoGapInJoinedChat, Waiting, Delivered
<1> QED
  BY <1>2, <1>3

\* Nothing waits when the hub starts.
LEMMA DeliveryInit == Init => DeliveryInv
<1> SUFFICES ASSUME Init
             PROVE  DeliveryInv
  OBVIOUS
<1>1. \A c \in Client : ~ Registered(c) /\ Follows(c) = {}
  BY ConstantsAssumption DEF Init, Registered, Follows, ChatsOf
<1>2. FanOut /\ NoGapInJoinedChat
  BY <1>1 DEF Init, FanOut, NoGapInJoinedChat
<1>3. OnlyFollowed
  <2>1. \A c \in Client : send[c] = <<>> /\ 1 .. Len(<<>>) = {}
    BY DEF Init
  <2> QED
    BY <2>1 DEF OnlyFollowed, Waiting
<1> QED
  BY <1>2, <1>3 DEF DeliveryInv

\* The invariant of the delivery, whoever connects when.
THEOREM DeliveryInvariant == Spec => [](ServiceInv /\ DeliveryInv)
<1>1. ServiceInv /\ DeliveryInv /\ [Next]_vars => ServiceInv' /\ DeliveryInv'
  BY ServiceInvStep, ServiceInvStutters, DeliveryStep, DeliveryStutters
<1> QED
  BY <1>1, ServiceInvInit, DeliveryInit, PTL DEF Spec

\* The registered connection of a user gets every message of the chats it has joined
\* and of those its user was in when it registered, once and in order, whatever else
\* is in its buffer and whatever his older connections do, unless the buffer overflows.
THEOREM NoGapInDelivery == Spec => []NoGapInJoinedChat
<1>1. DeliveryInv => NoGapInJoinedChat
  BY DEF DeliveryInv
<1> QED
  BY <1>1, DeliveryInvariant, PTL

-----------------------------------------------------------------------------
(* The hub implements Delivery.                                            *)

\* Steps that change no registration and no room change neither the stage of a
\* connection nor the chats of a user.
LEMMA SameStages ==
    ASSUME \A c \in Client : (Fresh(c)' <=> Fresh(c)) /\ (Registered(c)' <=> Registered(c)),
           UNCHANGED chatRooms
    PROVE  /\ \A u \in User : ChatsOf(u)' = ChatsOf(u)
           /\ \A c \in Client : Stage(c)' = Stage(c) /\ Follows(c)' = Follows(c)
  BY DEF ChatsOf, Stage, Follows

\* The end of a registration is Register.
LEMMA RegisterStep ==
    ASSUME ServiceInv, Next, RegisterApply
    PROVE  Stream!Next
<1> USE DEF ServiceInv, TypeOK
<1> DEFINE member == [u \in User |-> ChatsOf(u)]
           stage == [d \in Client |-> Stage(d)]
           taken == [d \in Client |-> [k \in Chat |-> Taken(d, k)]]
<1>0. None \notin Client /\ \A d \in Client : Owner[d] \in User
  BY ConstantsAssumption
<1>1. PICK c \in Client : /\ c = cur /\ Fresh(c) /\ ~ Fresh(c)'
                          /\ \A d \in Client \ {c} : Fresh(d)' <=> Fresh(d)
  <2>1. PICK c \in Client : c = cur /\ Fresh(c) /\ Serves(c)'
    BY ServesStep
  <2>2. \A d \in Client \ {cur} : Fresh(d)' <=> Fresh(d)
    BY ServiceStep DEF SameService, UnregisterApply, RegisterApply, Connect
  <2> QED
    BY <2>1, <2>2 DEF Serves
<1>2. /\ clients' = [clients EXCEPT ![Owner[c]] = c]
      /\ seen' = [seen EXCEPT ![c] = posted]
      /\ UNCHANGED <<chatRooms, overflowed, posted>>
  BY <1>1 DEF RegisterApply, ClientsWith
<1>3. /\ Registered(c)'
      /\ \A d \in Client \ {c} : Registered(d)' <=> (Registered(d) /\ Owner[d] # Owner[c])
  <2>1. c \notin overflowed
    BY <1>1 DEF Handshakes
  <2>2. \A u \in User : clients'[u] = IF u = Owner[c] THEN c ELSE clients[u]
    BY <1>2
  <2> QED
    BY <1>0, <1>2, <2>1, <2>2 DEF Registered
<1>4. \A d \in Client : Registered(d) => ~ Fresh(d)
  BY <1>0 DEF Registered, Entries, Serves
<1>5. member' = member
  BY <1>2 DEF ChatsOf
<1>6. \A d \in Client :
          Stage(d)' = IF d = c THEN "in"
                      ELSE IF Owner[d] = Owner[c] /\ Stage(d) = "in" THEN "out" ELSE Stage(d)
  BY <1>1, <1>3, <1>4 DEF Stage
<1>7. \A d \in Client, k \in Chat :
          Taken(d, k)' = IF Owner[d] # Owner[c] THEN Taken(d, k)
                         ELSE IF d = c /\ k \in ChatsOf(Owner[c]) THEN posted[k] ELSE 0
  <2> SUFFICES ASSUME NEW d \in Client, NEW k \in Chat
               PROVE  Taken(d, k)' = IF Owner[d] # Owner[c] THEN Taken(d, k)
                                     ELSE IF d = c /\ k \in ChatsOf(Owner[c]) THEN posted[k] ELSE 0
    OBVIOUS
  <2>1. \A u \in User : ChatsOf(u)' = ChatsOf(u)
    BY <1>2 DEF ChatsOf
  <2>2. CASE d = c
    <3>1. Follows(c)' = ChatsOf(Owner[c]) /\ seen'[c][k] = posted[k]
      BY <1>0, <1>1, <1>2, <1>3, <2>1 DEF Follows
    <3> QED
      BY <2>2, <3>1 DEF Taken
  <2>3. CASE d # c /\ Owner[d] = Owner[c]
    BY <1>3, <2>3 DEF Taken, Follows
  <2>4. CASE Owner[d] # Owner[c]
    <3>1. Follows(d)' = Follows(d) /\ seen'[d] = seen[d]
      BY <1>0, <1>1, <1>2, <1>3, <2>1, <2>4 DEF Follows
    <3> QED
      BY <2>4, <3>1 DEF Taken
  <2> QED
    BY <2>2, <2>3, <2>4
<1>8. stage' = [d \in Client |->
                   IF d = c THEN "in"
                   ELSE IF Owner[d] = Owner[c] /\ stage[d] = "in" THEN "out" ELSE stage[d]]
  BY <1>6
<1>9. taken' = [d \in Client |-> [k \in Chat |->
                   IF Owner[d] # Owner[c] THEN taken[d][k]
                   ELSE IF d = c /\ k \in member[Owner[c]] THEN posted[k] ELSE 0]]
  BY <1>0, <1>1, <1>7
<1>10. stage[c] = "new"
  BY <1>1 DEF Stage
<1>11. Stream!Register(c)
  BY <1>2, <1>5, <1>8, <1>9, <1>10 DEF Stream!Register
<1> QED
  BY <1>1, <1>11 DEF Stream!Next

\* A user who loses his connection, and the chats in gone, makes the step Part.
LEMMA PartStep ==
    ASSUME ServiceInv, NEW u \in User, NEW gone \in SUBSET Chat, UNCHANGED <<posted, seen>>,
           \A c \in Client : Fresh(c)' <=> Fresh(c),
           \A c \in Client : Registered(c)' <=> (Registered(c) /\ Owner[c] # u),
           \A v \in User, k \in Chat : v \in chatRooms'[k] <=>
               (v \in chatRooms[k] /\ ~ (v = u /\ k \in gone))
    PROVE  Stream!Next
<1> DEFINE member == [v \in User |-> ChatsOf(v)]
           stage == [c \in Client |-> Stage(c)]
           taken == [c \in Client |-> [k \in Chat |-> Taken(c, k)]]
<1>0. None \notin Client /\ \A c \in Client : Owner[c] \in User
  BY ConstantsAssumption
<1>1. \A v \in User : ChatsOf(v)' = IF v = u THEN ChatsOf(v) \ gone ELSE ChatsOf(v)
  BY DEF ChatsOf
<1>2. member' = [member EXCEPT ![u] = @ \ gone]
  BY <1>1
<1>3. \A c \in Client : Registered(c) => ~ Fresh(c)
  BY <1>0 DEF Registered, ServiceInv, Entries, Serves
<1>4. \A c \in Client :
          Stage(c)' = IF Owner[c] = u /\ Stage(c) = "in" THEN "out" ELSE Stage(c)
  BY <1>3 DEF Stage
<1>5. \A c \in Client, k \in Chat : Taken(c, k)' = IF Owner[c] = u THEN 0 ELSE Taken(c, k)
  <2>1. \A c \in Client : Follows(c)' = IF Owner[c] = u THEN {} ELSE Follows(c)
    BY <1>0, <1>1 DEF Follows
  <2> QED
    BY <2>1 DEF Taken
<1>6. stage' = [c \in Client |->
                   IF Owner[c] = u /\ stage[c] = "in" THEN "out" ELSE stage[c]]
  BY <1>4
<1>7. taken' = [c \in Client |-> IF Owner[c] = u THEN [k \in Chat |-> 0] ELSE taken[c]]
  BY <1>5
<1>8. Stream!Part(u, gone)
  BY <1>2, <1>6, <1>7 DEF Stream!Part
<1> QED
  BY <1>8 DEF Stream!Next

\* So does the end of an Unregister, whichever connection of the user it is about.
LEMMA UnregisterStep ==
    ASSUME ServiceInv, Next, UnregisterApply
    PROVE  Stream!Next
<1> USE DEF ServiceInv, TypeOK
<1>0. None \notin Client /\ \A d \in Client : Owner[d] \in User
  BY ConstantsAssumption
<1>1. cur \in Client /\ Owner[cur] \in User /\ chatIDs[cur] \in SUBSET Chat
  BY ServesStep
<1>2. /\ clients' = [clients EXCEPT ![Owner[cur]] = None]
      /\ UNCHANGED <<overflowed, posted, seen>>
  BY DEF UnregisterApply, ClientsWithout, histVars
<1>3. \A d \in Client : Fresh(d)' <=> Fresh(d)
  BY ServiceStep DEF SameService, UnregisterApply, RegisterApply
<1>4. \A d \in Client : Registered(d)' <=> (Registered(d) /\ Owner[d] # Owner[cur])
  BY <1>0, <1>1, <1>2 DEF Registered
<1>5. \A v \in User, k \in Chat : v \in chatRooms'[k] <=>
          (v \in chatRooms[k] /\ ~ (v = Owner[cur] /\ k \in chatIDs[cur]))
  BY DEF UnregisterApply, RoomsWithout
<1> QED
  BY <1>1, <1>2, <1>3, <1>4, <1>5, PartStep

\* A connection that is closed for overflow is lost to its user; the deletion of its
\* entry afterwards changes nothing.
LEMMA OverflowStep ==
    ASSUME ServiceInv, Next, NEW p \in Pusher, CloseSend(p) \/ DropClient(p)
    PROVE  \/ Stream!Next
           \/ \A c \in Client : (Fresh(c)' <=> Fresh(c)) /\ (Registered(c)' <=> Registered(c))
<1> USE DEF ServiceInv, TypeOK
<1>0. None \notin Client /\ \A d \in Client : Owner[d] \in User
  BY ConstantsAssumption
<1>1. PICK c \in Client :
         /\ c = pushClient[p] /\ Serves(c) /\ Owner[c] = pushUser[p]
         /\ clients[pushUser[p]] \in {c, None}
         /\ DropClient(p) => c \in overflowed
  BY DEF CloseSend, DropClient, ProgramCounters, LookedUp, Entries
<1>2. \A d \in Client : Fresh(d)' <=> Fresh(d)
  BY DEF CloseSend, DropClient, pumpVars, hubVars, Fresh
<1>3. \A d \in Client : (Registered(d) /\ Owner[d] = Owner[c]) => d = c
  BY <1>0, <1>1 DEF Registered
<1>4. CASE DropClient(p)
  <2>1. clients' = [clients EXCEPT ![Owner[c]] = None] /\ UNCHANGED overflowed
    BY <1>1, <1>4 DEF DropClient, ClientsWithout, histVars
  <2>2. \A d \in Client : Registered(d)' <=> Registered(d)
    BY <1>0, <1>1, <1>3, <1>4, <2>1 DEF Registered
  <2> QED
    BY <1>2, <2>2
<1>5. CASE CloseSend(p) /\ UNCHANGED overflowed
  BY <1>2, <1>5 DEF CloseSend, roomVars, Registered
<1>6. CASE CloseSend(p) /\ overflowed' = overflowed \cup {c}
  <2>1. UNCHANGED <<clients, chatRooms, posted, seen>>
    BY <1>6 DEF CloseSend, roomVars
  <2>2. CASE Registered(c)
    <3>1. \A d \in Client : Registered(d)' <=> (Registered(d) /\ Owner[d] # Owner[c])
      BY <1>3, <1>6, <2>1, <2>2 DEF Registered
    <3>2. \A v \in User, k \in Chat : v \in chatRooms'[k] <=>
              (v \in chatRooms[k] /\ ~ (v = Owner[c] /\ k \in {}))
      BY <2>1
    <3>3. Owner[c] \in User /\ {} \in SUBSET Chat
      BY <1>0
    <3> QED
      BY <1>2, <2>1, <3>1, <3>2, <3>3, PartStep
  <2>3. CASE ~ Registered(c)
    BY <1>2, <1>6, <2>1, <2>3 DEF Registered
  <2> QED
    BY <2>2, <2>3
<1> QED
  BY <1>1, <1>4, <1>5, <1>6 DEF CloseSend

\* A message taken by a connection that follows its chat is the next one.
LEMMA TakeStep ==
    ASSUME ServiceInv, DeliveryInv, Next, NEW c \in Client, WriteTake(c)
    PROVE  \/ \A d \in Client, j \in Chat : j \in Follows(d) => seen'[d][j] = seen[d][j]
           \/ \E k \in Follows(c) :
                 /\ seen[c][k] < posted[k] /\ seen'[c][k] = seen[c][k] + 1
                 /\ \A d \in Client, j \in Chat : (d # c \/ j # k) => seen'[d][j] = seen[d][j]
<1> USE DEF ServiceInv, TypeOK
<1> DEFINE item == Head(send[c])
<1>1. /\ send[c] # <<>> /\ send[c] \in Seq(Items)
      /\ seen' = IF item.kind = "message" THEN [seen EXCEPT ![c][item.chat] = item.n] ELSE seen
  BY DEF WriteTake
<1>2. CASE item.kind = "message" /\ item.chat \in Follows(c)
  <2> DEFINE k == item.chat
             a == seen[c][k]
             b == Delivered(Owner[c], k)
  <2>1. k \in Chat /\ NoGap(c, k)
    BY <1>2, NoGaps DEF DeliveryInv, Follows, ChatsOf
  <2>2. /\ a \in Nat /\ b \in Nat /\ posted[k] \in Nat /\ b <= posted[k]
        /\ Gapless(send[c], k, a, b)
    <3>1. a \in Nat /\ posted[k] \in Nat /\ b \in {posted[k], posted[k] - 1}
      BY <2>1 DEF Delivered
    <3>2. Gapless(send[c], k, a, b)
      BY <2>1 DEF NoGap
    <3> QED
      BY <3>1, <3>2 DEF Gapless
  <2>3. item.n = a + 1 /\ Gapless(Tail(send[c]), k, a + 1, b)
    BY <1>1, <1>2, <2>1, <2>2, GaplessTake
  <2>4. a < posted[k]
    BY <2>2, <2>3 DEF Gapless
  <2>5. seen'[c][k] = a + 1
    BY <1>1, <1>2, <2>1, <2>3
  <2>6. \A d \in Client, j \in Chat : (d # c \/ j # k) => seen'[d][j] = seen[d][j]
    BY <1>1, <1>2, <2>1
  <2> QED
    BY <1>2, <2>4, <2>5, <2>6
<1>3. CASE ~ (item.kind = "message" /\ item.chat \in Follows(c))
  BY <1>1, <1>3
<1> QED
  BY <1>2, <1>3

\* join_chat is Join, unless the user is in the chat already.
LEMMA JoinStep ==
    ASSUME ServiceInv, Next, JoinChat
    PROVE  [Stream!Next]_(Stream!vars)
<1> USE DEF ServiceInv, TypeOK
<1> DEFINE member == [v \in User |-> ChatsOf(v)]
           stage == [d \in Client |-> Stage(d)]
           taken == [d \in Client |-> [j \in Chat |-> Taken(d, j)]]
<1>0. None \notin Client /\ \A d \in Client : Owner[d] \in User
  BY ConstantsAssumption
<1>1. PICK u \in User, k \in Chat : u = curMsg.sender /\ k = curMsg.chat
  BY DEF JoinChat, ProgramCounters, Broadcasts
<1>2. /\ UNCHANGED <<clients, overflowed, posted>>
      /\ chatRooms' = [chatRooms EXCEPT ![k] = @ \cup {u}]
      /\ seen' = IF clients[u] = None \/ u \in chatRooms[k] THEN seen
                 ELSE [seen EXCEPT ![clients[u]][k] = posted[k]]
  BY <1>1 DEF JoinChat
<1>3. \A d \in Client : (Registered(d)' <=> Registered(d)) /\ (Fresh(d)' <=> Fresh(d))
  BY <1>2, ServiceStep DEF SameService, Connect, JoinChat, RegisterApply, UnregisterApply, Registered
<1>4. CASE u \in chatRooms[k]
  <2>1. UNCHANGED <<chatRooms, seen>>
    BY <1>1, <1>2, <1>4
  <2>2. UNCHANGED <<member, stage>>
    BY <1>3, <2>1, SameStages
  <2>3. \A d \in Client, j \in Chat : Taken(d, j)' = Taken(d, j)
    BY <1>3, <2>1, SameStages DEF Taken
  <2>4. UNCHANGED taken
    BY <2>3
  <2> QED
    BY <1>2, <2>2, <2>4 DEF Stream!vars
<1>5. CASE u \notin chatRooms[k]
  <2>1. \A v \in User : ChatsOf(v)' = IF v = u THEN ChatsOf(v) \cup {k} ELSE ChatsOf(v)
    BY <1>1, <1>2 DEF ChatsOf
  <2>2. member' = [member EXCEPT ![u] = @ \cup {k}]
    BY <2>1
  <2>3. k \notin member[u]
    BY <1>1, <1>5 DEF ChatsOf
  <2>4. stage' = stage
    BY <1>3 DEF Stage
  <2>5. \A d \in Client : Registered(d) <=> Stage(d) = "in"
    BY <1>0 DEF Stage, Registered, Entries, Serves
  <2>6. \A d \in Client, j \in Chat :
            Taken(d, j)' = IF Owner[d] = u /\ Registered(d) /\ j = k THEN posted[k] ELSE Taken(d, j)
    <3> SUFFICES ASSUME NEW d \in Client, NEW j \in Chat
                 PROVE  Taken(d, j)' = IF Owner[d] = u /\ Registered(d) /\ j = k THEN posted[k]
                                       ELSE Taken(d, j)
      OBVIOUS
    <3>1. CASE ~ Registered(d)
      BY <1>3, <3>1 DEF Taken, Follows
    <3>2. CASE Registered(d) /\ Owner[d] = u
      <4>1. Follows(d)' = Follows(d) \cup {k} /\ k \notin Follows(d)
        BY <1>0, <1>3, <1>5, <2>1, <2>3, <3>2 DEF Follows
      <4>2. seen' = [seen EXCEPT ![d][k] = posted[k]]
        BY <1>0, <1>2, <1>5, <3>2 DEF Registered
      <4>3. seen'[d][j] = IF j = k THEN posted[k] ELSE seen[d][j]
        BY <1>1, <4>2
      <4> QED
        BY <3>2, <4>1, <4>3 DEF Taken
    <3>3. CASE Registered(d) /\ Owner[d] # u
      <4>1. Follows(d)' = Follows(d)
        BY <1>0, <1>3, <2>1, <3>3 DEF Follows
      <4>2. clients[u] = None \/ clients[u] \in Client \ {d}
        BY <3>3 DEF ProgramCounters
      <4>3. seen'[d][j] = seen[d][j]
        BY <1>1, <1>2, <1>5, <4>2
      <4> QED
        BY <3>3, <4>1, <4>3 DEF Taken
    <3> QED
      BY <3>1, <3>2, <3>3
  <2>7. taken' = [d \in Client |-> IF Owner[d] = u /\ stage[d] = "in"
                                   THEN [taken[d] EXCEPT ![k] = posted[k]] ELSE taken[d]]
    <3>1. taken' = [d \in Client |-> [j \in Chat |->
                       IF Owner[d] = u /\ Registered(d) /\ j = k THEN posted[k] ELSE Taken(d, j)]]
      BY <2>6
    <3>2. \A d \in Client : (IF Owner[d] = u /\ stage[d] = "in"
                             THEN [taken[d] EXCEPT ![k] = posted[k]] ELSE taken[d])
             = [j \in Chat |-> IF Owner[d] = u /\ Registered(d) /\ j = k THEN posted[k]
                               ELSE Taken(d, j)]
      <4> HIDE DEF Taken
      <4> QED
        BY <1>1, <2>5
    <3> QED
      BY <3>1, <3>2
  <2>8. Stream!Join(u, k)
    BY <1>2, <2>2, <2>3, <2>4, <2>7 DEF Stream!Join
  <2> QED
    BY <1>1, <2>8 DEF Stream!Next
<1> QED
  BY <1>4, <1>5

\* Only the receipt of a message adds to what is posted, one to one chat.
LEMMA PostedChanges ==
    ASSUME ServiceInv, Next
    PROVE  \/ UNCHANGED posted
           \/ UNCHANGED seen /\ \E k \in Chat : posted' = [posted EXCEPT ![k] = @ + 1]
<1>1. ASSUME NEW c \in Client, BroadcastRecv(c)
      PROVE  \/ UNCHANGED posted
             \/ UNCHANGED seen /\ \E k \in Chat : posted' = [posted EXCEPT ![k] = @ + 1]
  <2>1. out[c].chat \in Chat
    BY <1>1 DEF BroadcastRecv, ServiceInv, ProgramCounters, Broadcasts
  <2> QED
    BY <1>1, <2>1 DEF BroadcastRecv
<1>2. CASE NextMember
  BY <1>2 DEF NextMember, histVars
<1> QED
  BY <1>1, <1>2, LoopChanges

\* Every step of the hub is a step of Delivery or none.
LEMMA StreamStep ==
    ASSUME ServiceInv, DeliveryInv, Next
    PROVE  [Stream!Next]_(Stream!vars)
<1> DEFINE member == [u \in User |-> ChatsOf(u)]
           stage == [c \in Client |-> Stage(c)]
           taken == [c \in Client |-> [k \in Chat |-> Taken(c, k)]]
<1>1. CASE JoinChat
  BY <1>1, JoinStep
<1>2. CASE RegisterApply
  BY <1>2, RegisterStep
<1>3. CASE UnregisterApply
  BY <1>3, UnregisterStep
<1>4. ASSUME ~ JoinChat, ~ RegisterApply, ~ UnregisterApply
      PROVE  /\ \A c \in Client : Fresh(c)' <=> Fresh(c)
             /\ UNCHANGED chatRooms
             /\ UNCHANGED seen \/ \E c \in Client : WriteTake(c)
             /\ \/ \A c \in Client : Registered(c)' <=> Registered(c)
                \/ \E p \in Pusher : CloseSend(p) \/ DropClient(p)
  <2>1. /\ \A c \in Client : Fresh(c)' <=> Fresh(c)
        /\ UNCHANGED chatRooms
        /\ UNCHANGED seen \/ \E c \in Client : WriteTake(c)
    BY <1>4, ServiceStep, RoomChanges, SeenChanges DEF SameService, ServiceInv
  <2>2. CASE UNCHANGED <<clients, overflowed>>
    BY <2>1, <2>2 DEF Registered
  <2>3. CASE \E p \in Pusher : CloseSend(p) \/ DropClient(p)
    BY <2>1, <2>3
  <2> QED
    BY <1>4, <2>1, <2>2, <2>3, RoomChanges
<1>5. ASSUME \A c \in Client : (Fresh(c)' <=> Fresh(c)) /\ (Registered(c)' <=> Registered(c)),
             UNCHANGED chatRooms,
             UNCHANGED seen \/ \E c \in Client : WriteTake(c)
      PROVE  [Stream!Next]_(Stream!vars)
  <2>0. \A c \in Client : Follows(c)' = Follows(c) /\ Follows(c) \subseteq Chat
    BY <1>5, SameStages DEF Follows, ChatsOf
  <2>1. member' = member /\ stage' = stage
    BY <1>5, SameStages
  <2>2. ASSUME UNCHANGED seen
        PROVE  taken' = taken
    BY <2>0, <2>2 DEF Taken
  <2>3. CASE UNCHANGED <<seen, posted>>
    BY <2>1, <2>2, <2>3 DEF Stream!vars
  <2>4. ASSUME UNCHANGED seen, NEW k \in Chat, posted' = [posted EXCEPT ![k] = @ + 1]
        PROVE  Stream!Next
    <3>1. Stream!Post(k)
      BY <2>1, <2>2, <2>4 DEF Stream!Post
    <3> QED
      BY <3>1 DEF Stream!Next
  <2>5. ASSUME UNCHANGED posted,
               \A d \in Client, j \in Chat : j \in Follows(d) => seen'[d][j] = seen[d][j]
        PROVE  UNCHANGED Stream!vars
    <3>1. taken' = taken
      BY <2>0, <2>5 DEF Taken
    <3> QED
      BY <2>1, <2>5, <3>1 DEF Stream!vars
  <2>6. ASSUME UNCHANGED posted, NEW c \in Client, NEW k \in Follows(c),
               seen[c][k] < posted[k], seen'[c][k] = seen[c][k] + 1,
               \A d \in Client, j \in Chat : (d # c \/ j # k) => seen'[d][j] = seen[d][j]
        PROVE  Stream!Next
    <3>1. k \in Chat /\ taken[c][k] = seen[c][k]
      BY <2>0 DEF Taken
    <3>2. /\ Taken(c, k)' = Taken(c, k) + 1
          /\ \A d \in Client, j \in Chat : (d # c \/ j # k) => Taken(d, j)' = Taken(d, j)
      BY <2>0, <2>6, <3>1 DEF Taken
    <3>3. taken' = [taken EXCEPT ![c][k] = @ + 1]
      BY <3>1, <3>2
    <3>4. stage[c] = "in" /\ k \in member[Owner[c]]
      <4>1. Registered(c) /\ k \in ChatsOf(Owner[c]) /\ Owner[c] \in User
        BY ConstantsAssumption DEF Follows
      <4>2. ~ Fresh(c)
        BY <4>1, ConstantsAssumption DEF Registered, ServiceInv, Entries, Serves
      <4> QED
        BY <4>1, <4>2 DEF Stage
    <3>5. Stream!Take(c, k)
      BY <2>1, <2>6, <3>1, <3>3, <3>4 DEF Stream!Take, Stream!Follows
    <3> QED
      BY <3>1, <3>5 DEF Stream!Next
  <2>7. ASSUME NEW c \in Client, WriteTake(c)
        PROVE  UNCHANGED posted
    BY <2>7 DEF WriteTake
  <2> QED
    BY <1>5, <2>3, <2>4, <2>5, <2>6, <2>7, PostedChanges, TakeStep
<1>6. ASSUME NEW p \in Pusher, CloseSend(p) \/ DropClient(p)
      PROVE  UNCHANGED <<chatRooms, seen>>
  BY <1>6 DEF CloseSend, DropClient, roomVars, histVars
<1>7. ASSUME NEW p \in Pusher, CloseSend(p) \/ DropClient(p)
      PROVE  [Stream!Next]_(Stream!vars)
  BY <1>5, <1>6, <1>7, OverflowStep
<1> QED
  BY <1>1, <1>2, <1>3, <1>4, <1>5, <1>7

\* The hub delivers what Delivery promises, whoever connects when: also where the
\* connections of a user overlap and after buffers have overflowed.
THEOREM HubImplementsDelivery == Spec => ImplementsDelivery
<1>1. Init => Stream!Init
  <2> SUFFICES ASSUME Init
               PROVE  Stream!Init
    OBVIOUS
  <2>1. \A c \in Client : Follows(c) = {} /\ Fresh(c)
    BY ConstantsAssumption DEF Init, Follows, Registered, Fresh
  <2>2. \A c \in Client, k \in Chat : Taken(c, k) = 0 /\ Stage(c) = "new"
    BY <2>1 DEF Taken, Stage
  <2>3. \A c \in Client : Stage(c) = "new"
    BY <2>1 DEF Stage
  <2>4. \A u \in User : ChatsOf(u) = {}
    BY DEF Init, ChatsOf
  <2> QED
    BY <2>2, <2>3, <2>4 DEF Init, Stream!Init
<1>2. ServiceInv /\ DeliveryInv /\ [Next]_vars => [Stream!Next]_(Stream!vars)
  <2>1. CASE UNCHANGED vars
    <3>1. /\ \A c \in Client : (Fresh(c)' <=> Fresh(c)) /\ (Registered(c)' <=> Registered(c))
          /\ UNCHANGED <<chatRooms, seen, posted>>
      BY <2>1 DEF vars, roomVars, pumpVars, hubVars, histVars, Fresh, Registered
    <3>2. \A c \in Client, k \in Chat : Taken(c, k)' = Taken(c, k)
      BY <3>1, SameStages DEF Taken
    <3> QED
      BY <3>1, <3>2, SameStages DEF Stream!vars
  <2> QED
    BY <2>1, StreamStep
<1> QED
  BY <1>1, <1>2, DeliveryInvariant, PTL DEF Spec, ImplementsDelivery, Stream!Spec

-----------------------------------------------------------------------------
(* The rooms of users with one connection at a time.                       *)

\* Only a connection of a user who has another one already makes him double.
LEMMA DoubledChanges ==
    ASSUME Next
    PROVE  \/ UNCHANGED doubled
           \/ \E c \in Client :
                 /\ Connect(c)
                 /\ doubled' = IF \E d \in Client : Owner[d] = Owner[c] /\ Live(d)
                               THEN doubled \cup {Owner[c]} ELSE doubled
<1>1. ASSUME NEW c \in Client,
             \/ PeerLost(c) \/ ReadPublish(c) \/ ReadReject(c) \/ ReplyError(c) \/ ReadError(c)
             \/ WriteTake(c) \/ WriteStop(c) \/ WriteDone(c)
             \/ RegisterRecv(c) \/ UnregisterRecv(c) \/ BroadcastRecv(c)
      PROVE  UNCHANGED doubled
  BY <1>1 DEF PeerLost, ReadPublish, ReadReject, ReplyError, ReadError, WriteTake, WriteStop,
              WriteDone, RegisterRecv, UnregisterRecv, BroadcastRecv, histVars
<1>2. ASSUME RegisterApply \/ UnregisterApply \/ JoinChat \/ NextMember
      PROVE  UNCHANGED doubled
  BY <1>2 DEF RegisterApply, UnregisterApply, JoinChat, NextMember, histVars
<1>3. ASSUME \/ \E p \in Caller : Call(p)
             \/ \E p \in Pusher : LookUp(p) \/ TrySend(p) \/ CloseSend(p) \/ DropClient(p)
             \/ MapRace
      PROVE  UNCHANGED doubled
  BY <1>3 DEF Call, LookUp, TrySend, CloseSend, DropClient, MapRace, histVars
<1>4. ASSUME NEW c \in Client, Connect(c)
      PROVE  doubled' = IF \E d \in Client : Owner[d] = Owner[c] /\ Live(d)
                        THEN doubled \cup {Owner[c]} ELSE doubled
  BY <1>4 DEF Connect
<1> QED
  BY <1>1, <1>2, <1>3, <1>4, Actions

\* Whoever is double stays so.
LEMMA DoubledGrows ==
    ASSUME Next
    PROVE  doubled \subseteq doubled'
  BY DoubledChanges

\* A user who is not double after Connect had no connection before it.
LEMMA OneAtATimeStep ==
    ASSUME ServiceInv, RoomsInv, Next
    PROVE  OneAtATime'
<1> SUFFICES ASSUME NEW c \in Client, NEW d \in Client,
                    Owner[c] = Owner[d], Owner[c] \notin doubled', Live(c)', Live(d)', c # d
             PROVE  FALSE
  BY DEF OneAtATime
<1>0. Owner[c] \notin doubled
  BY DoubledGrows
<1>1. ASSUME NEW e \in Client, Connect(e),
             \A x \in Client : Live(x)' <=> (Live(x) \/ x = e)
      PROVE  FALSE
  <2>1. \A x \in Client : (Owner[x] = Owner[c] /\ Live(x)) => Owner[e] # Owner[c]
    BY <1>1 DEF Connect
  <2>2. Live(c) \/ Live(d)
    BY <1>1
  <2>3. c # e /\ d # e
    BY <2>1, <2>2
  <2> QED
    BY <1>0, <1>1, <2>3 DEF RoomsInv, OneAtATime
<1>2. ASSUME \A x \in Client : Live(x)' => Live(x)
      PROVE  FALSE
  BY <1>0, <1>2 DEF RoomsInv, OneAtATime
<1> QED
  BY <1>1, <1>2, ServiceStep DEF ServiceInv, SameService

\* Nothing but the close of its channel takes the entry of such a connection away.
LEMMA OpenIsRegisteredStep ==
    ASSUME ServiceInv, RoomsInv, Next
    PROVE  OpenIsRegistered'
<1> SUFFICES ASSUME NEW c \in Client, Owner[c] \notin doubled', Serves(c)', ~ closed'[c]
             PROVE  clients'[Owner[c]] = c
  BY DEF OpenIsRegistered
<1> USE DEF ServiceInv, RoomsInv
<1>0. Owner[c] \in User /\ Owner[c] \notin doubled
  BY ConstantsAssumption, DoubledGrows
<1>1. CASE RegisterApply
  <2>1. /\ clients' = [clients EXCEPT ![Owner[cur]] = cur]
        /\ UNCHANGED closed
    BY <1>1 DEF RegisterApply, ClientsWith
  <2>2. CASE c = cur
    BY <1>0, <2>1, <2>2 DEF TypeOK
  <2>3. CASE c # cur
    <3>1. Serves(c) /\ Owner[c] # Owner[cur]
      BY <1>0, <1>1, <2>3, ServesStep DEF OneAtATime, Serves
    <3> QED
      BY <1>0, <2>1, <3>1 DEF OpenIsRegistered, TypeOK
  <2> QED
    BY <2>2, <2>3
<1>2. CASE UnregisterApply
  <2>1. /\ clients' = [clients EXCEPT ![Owner[cur]] = None]
        /\ closed' = [closed EXCEPT ![cur] = TRUE]
    BY <1>2 DEF UnregisterApply, ClientsWithout
  <2>2. Serves(c) /\ c # cur /\ Serves(cur) /\ cur \in Client
    BY <1>2, ServesStep
  <2>3. Owner[c] # Owner[cur]
    BY <1>0, <2>2 DEF OneAtATime, Serves
  <2> QED
    BY <1>0, <2>1, <2>2, <2>3 DEF OpenIsRegistered, TypeOK
<1>3. ASSUME ~ RegisterApply, ~ UnregisterApply
      PROVE  clients[Owner[c]] = c
  <2>1. ~ closed[c]
    BY RoomChanges DEF TypeOK, UnregisterApply, CloseSend
  <2> QED
    BY <1>0, <1>3, <2>1, ServesStep DEF OpenIsRegistered
<1>4. ASSUME NEW p \in Pusher, DropClient(p), ~ RegisterApply, ~ UnregisterApply
      PROVE  clients'[Owner[c]] = c
  <2> DEFINE d == pushClient[p]
  <2>1. d \in Client /\ Serves(d) /\ Owner[d] = pushUser[p] /\ closed[d]
    BY <1>4 DEF DropClient, LookedUp, ProgramCounters
  <2>2. clients' = [clients EXCEPT ![Owner[d]] = None] /\ UNCHANGED closed
    BY <1>4, <2>1 DEF DropClient, ClientsWithout
  <2>3. c # d /\ Serves(c)
    BY <1>4, <2>1, <2>2, ServesStep
  <2>4. Owner[c] # Owner[d]
    BY <1>0, <2>1, <2>3 DEF OneAtATime, Serves
  <2> QED
    BY <1>0, <1>3, <1>4, <2>2, <2>4 DEF TypeOK
<1> QED
  BY <1>1, <1>2, <1>3, <1>4, RoomChanges

\* A room and the ChatIDs of its members change in the same step.
LEMMA RoomsMatchStep ==
    ASSUME ServiceInv, RoomsInv, Next
    PROVE  RoomsMatchChatIDs'
<1> USE DEF ServiceInv, RoomsInv
<1>0. /\ None \notin Client /\ \A c \in Client : Owner[c] \in User
      /\ User \ doubled' \subseteq User \ doubled
  BY ConstantsAssumption, DoubledGrows
<1>1. CASE UNCHANGED <<clients, chatRooms, chatIDs>>
  BY <1>0, <1>1 DEF RoomsMatchChatIDs
<1>2. CASE RegisterApply
  <2>1. /\ clients' = [clients EXCEPT ![Owner[cur]] = cur]
        /\ UNCHANGED <<chatRooms, chatIDs>>
    BY <1>2 DEF RegisterApply, ClientsWith
  <2>2. chatIDs[cur] = {}
    BY <1>2, ServesStep DEF Handshakes
  <2>3. Owner[cur] \notin doubled => \A k \in Chat : Owner[cur] \notin chatRooms[k]
    <3>1. Owner[cur] \notin doubled =>
              \A c \in Client : ~ (Owner[c] = Owner[cur] /\ Serves(c))
      BY <1>2, ServesStep DEF OneAtATime, Serves
    <3> QED
      BY <3>1, Actions DEF MembersServed
  <2> QED
    BY <1>0, <2>1, <2>2, <2>3 DEF RoomsMatchChatIDs, TypeOK
<1>3. CASE UnregisterApply
  <2>1. /\ clients' = [clients EXCEPT ![Owner[cur]] = None]
        /\ \A k \in Chat : chatRooms'[k] = IF k \in chatIDs[cur] THEN chatRooms[k] \ {Owner[cur]}
                                            ELSE chatRooms[k]
        /\ UNCHANGED chatIDs
    BY <1>3 DEF UnregisterApply, ClientsWithout, RoomsWithout
  <2>2. \A u \in User : \/ u = Owner[cur] /\ clients'[u] = None
                        \/ u # Owner[cur] /\ clients'[u] = clients[u]
    BY <2>1 DEF TypeOK
  <2>3. \A u \in User, k \in Chat :
            u # Owner[cur] => (u \in chatRooms'[k] <=> u \in chatRooms[k])
    BY <2>1
  <2> QED
    BY <1>0, <2>1, <2>2, <2>3 DEF RoomsMatchChatIDs
<1>4. ASSUME NEW p \in Pusher, DropClient(p)
      PROVE  RoomsMatchChatIDs'
  BY <1>0, <1>4 DEF DropClient, ClientsWithout, RoomsMatchChatIDs, TypeOK
<1>5. CASE JoinChat
  <2> DEFINE k == curMsg.chat
             u == curMsg.sender
             c == clients[u]
  <2>1. k \in Chat /\ u \in User /\ c \in Client \cup {None}
    BY <1>5 DEF JoinChat, ProgramCounters, Broadcasts, TypeOK
  <2>2. /\ UNCHANGED clients
        /\ chatRooms' = [chatRooms EXCEPT ![k] = @ \cup {u}]
        /\ chatIDs' = ChatIDsWith(c, k)
    BY <1>5 DEF JoinChat
  <2>3. \A v \in User \ {u} : clients[v] # None => clients[v] # c
    BY <1>0, <2>1 DEF ProgramCounters, TypeOK
  <2>4. c # None => chatIDs' = [chatIDs EXCEPT ![c] = @ \cup {k}]
    BY <2>2 DEF ChatIDsWith
  <2>5. c = None => chatIDs' = chatIDs
    BY <2>2 DEF ChatIDsWith
  <2> HIDE DEF k, u, c
  <2>6. \A v \in User \ {u}, j \in Chat : v \in chatRooms'[j] <=> v \in chatRooms[j]
    BY <2>1, <2>2 DEF TypeOK
  <2>7. \A v \in User \ {u} : clients[v] # None => chatIDs'[clients[v]] = chatIDs[clients[v]]
    BY <2>1, <2>3, <2>4, <2>5 DEF TypeOK
  <2>8. c # None => \A j \in Chat : /\ u \in chatRooms'[j] <=> (u \in chatRooms[j] \/ j = k)
                                    /\ j \in chatIDs'[c] <=> (j \in chatIDs[c] \/ j = k)
    BY <2>1, <2>2, <2>4 DEF TypeOK
  <2>9. c = clients[u]
    BY DEF c
  <2> QED
    BY <1>0, <2>1, <2>2, <2>6, <2>7, <2>8, <2>9 DEF RoomsMatchChatIDs
<1> QED
  BY <1>1, <1>2, <1>3, <1>4, <1>5, RoomChanges

\* Unregister removes the user from every room, for his connection has joined them
\* all; when it cannot, it panics.
LEMMA MembersServedStep ==
    ASSUME ServiceInv, RoomsInv, Next
    PROVE  (panicked \/ MembersServed)'
<1> USE DEF ServiceInv, RoomsInv
<1>0. doubled \subseteq doubled'
  BY DoubledGrows
<1>1. MembersServed
  BY Actions
<1>2. CASE UnregisterApply
  <2> SUFFICES ASSUME ~ closed[cur], NEW k \in Chat, NEW u \in chatRooms'[k] \ doubled'
               PROVE  \E c \in Client : Owner[c] = u /\ Serves(c)'
    BY <1>2 DEF UnregisterApply, MembersServed
  <2>1. /\ chatRooms'[k] = IF k \in chatIDs[cur] THEN chatRooms[k] \ {Owner[cur]}
                           ELSE chatRooms[k]
    BY <1>2 DEF UnregisterApply, RoomsWithout
  <2>2. cur \in Client /\ Owner[cur] \in User /\ Serves(cur)
    BY <1>2, ServesStep
  <2>3. Owner[cur] \notin doubled => clients[Owner[cur]] = cur
    BY <2>2 DEF OpenIsRegistered
  <2>4. u \in chatRooms[k] \ doubled /\ u # Owner[cur]
    BY <1>0, <2>1, <2>2, <2>3, ConstantsAssumption DEF RoomsMatchChatIDs
  <2>5. PICK c \in Client : Owner[c] = u /\ Serves(c)
    BY <1>1, <2>4 DEF MembersServed
  <2> QED
    BY <1>2, <2>4, <2>5, ServesStep
<1>3. CASE JoinChat
  <2>1. chatRooms' = [chatRooms EXCEPT ![curMsg.chat] = @ \cup {curMsg.sender}]
    BY <1>3 DEF JoinChat
  <2>2. PICK c \in Client : /\ Owner[c] = curMsg.sender
                            /\ reader[c] \notin {"none", "registering", "done"}
    BY <1>3 DEF JoinChat, Handshakes
  <2>3. Serves(c)
    BY <1>3, <2>2 DEF JoinChat, Serves, Live, Fresh
  <2>4. \A d \in Client : Serves(d) => Serves(d)'
    BY <1>3, ServesStep DEF JoinChat, UnregisterApply
  <2>5. \A k \in Chat : chatRooms'[k] \subseteq chatRooms[k] \cup {curMsg.sender}
    BY <2>1 DEF TypeOK
  <2>6. MembersServed'
    BY <1>0, <1>1, <2>2, <2>3, <2>4, <2>5 DEF MembersServed
  <2> QED
    BY <2>6
<1>4. ASSUME UNCHANGED chatRooms, ~ UnregisterApply
      PROVE  MembersServed'
  BY <1>0, <1>1, <1>4, ServesStep DEF MembersServed
<1> QED
  BY <1>2, <1>3, <1>4, RoomChanges

\* Steps that change nothing keep the invariant.
LEMMA RoomsInvStutters == RoomsInv /\ UNCHANGED vars => RoomsInv'
<1> SUFFICES ASSUME RoomsInv, UNCHANGED vars
             PROVE  RoomsInv'
  OBVIOUS
<1> USE DEF vars, roomVars, pumpVars, hubVars, histVars, RoomsInv
<1>1. \A c \in Client : (Live(c)' <=> Live(c)) /\ (Serves(c)' <=> Serves(c))
  BY DEF Live, Fresh, Serves
<1>2. OneAtATime' /\ OpenIsRegistered'
  BY <1>1 DEF OneAtATime, OpenIsRegistered
<1>3. RoomsMatchChatIDs' /\ (panicked \/ MembersServed)'
  BY <1>1 DEF RoomsMatchChatIDs, MembersServed
<1> QED
  BY <1>2, <1>3

\* Nobody is connected when the hub starts.
LEMMA RoomsInvInit == Init => RoomsInv
<1> SUFFICES ASSUME Init
             PROVE  RoomsInv
  OBVIOUS
<1>1. \A c \in Client : ~ Live(c) /\ ~ Serves(c)
  BY DEF Init, Live, Serves
<1>2. OneAtATime /\ OpenIsRegistered
  BY <1>1 DEF OneAtATime, OpenIsRegistered
<1>3. RoomsMatchChatIDs /\ MembersServed
  BY DEF Init, RoomsMatchChatIDs, MembersServed
<1> QED
  BY <1>2, <1>3 DEF RoomsInv

\* The invariant of the rooms.
THEOREM RoomsInvariant == Spec => []RoomsInv
<1>1. ServiceInv /\ RoomsInv /\ [Next]_vars => RoomsInv'
  BY OneAtATimeStep, OpenIsRegisteredStep, RoomsMatchStep, MembersServedStep, RoomsInvStutters
  DEF RoomsInv
<1> QED
  BY <1>1, RoomsInvInit, ServiceInvariant, PTL DEF Spec

\* The rooms and what the connections have joined agree, also after an overflow,
\* for every user who reconnected only when his connection was unregistered.
THEOREM RoomsMatch == Spec => []RoomsMatchChatIDs
<1>1. RoomsInv => RoomsMatchChatIDs
  BY DEF RoomsInv
<1> QED
  BY <1>1, RoomsInvariant, PTL

\* No such user is left in a room when his last connection is unregistered.
THEOREM NoGhosts == Spec => []NoGhostMembers
<1>1. RoomsInv => NoGhostMembers
  BY DEF RoomsInv, MembersServed, NoGhostMembers, Serves
<1> QED
  BY <1>1, RoomsInvariant, PTL

\* The connection of such a user is the one that the hub delivers to: what the run
\* with overlapping connections refutes holds for whoever has one at a time.
THEOREM SerialSessionsAreRegistered ==
    Spec => [](\A c \in Client : (InSession(c) /\ Owner[c] \notin doubled) =>
                                     panicked \/ clients[Owner[c]] = c)
<1>1. ServiceInv /\ RoomsInv =>
          \A c \in Client : (InSession(c) /\ Owner[c] \notin doubled) =>
                                panicked \/ clients[Owner[c]] = c
  <2> SUFFICES ASSUME ServiceInv, RoomsInv,
                      NEW c \in Client, InSession(c), Owner[c] \notin doubled
               PROVE  clients[Owner[c]] = c
    OBVIOUS
  <2>1. Serves(c)
    BY DEF InSession, Serves, Live, Fresh
  <2>2. ~ closed[c]
    BY <2>1 DEF InSession, ServiceInv, Entries
  <2> QED
    BY <2>1, <2>2 DEF RoomsInv, OpenIsRegistered
<1> QED
  BY <1>1, RoomsInvariant, ServiceInvariant, PTL

=============================================================================
