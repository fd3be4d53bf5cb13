------------------------------ MODULE Hub_proof ------------------------------
(***************************************************************************)
(* Proofs about Hub, for any users, connections, chats and request         *)
(* goroutines and any capacity of the buffers: the type invariant and      *)
(* CrashOnlyAfterOverflow.                                                 *)
(***************************************************************************)
EXTENDS Hub, SequenceTheorems, TLAPS

\* The part of TypeOK about the lookup-send-close-delete code.
PushTypes ==
    /\ push \in [Pusher -> {"idle", "lookup", "send", "close", "delete"}]
    /\ pushUser \in [Pusher -> User \cup {None}]
    /\ pushClient \in [Pusher -> Client \cup {None}]

\* A send on a channel that has room keeps the channel within its capacity.
LEMMA AppendWithinCapacity ==
    ASSUME TypeOK, NEW c \in Client, HasRoom(c), NEW item \in Items,
           send' = [send EXCEPT ![c] = Append(@, item)]
    PROVE  /\ send' \in [Client -> Seq(Items)]
           /\ \A d \in Client : Len(send'[d]) <= BufCap
<1>1. send \in [Client -> Seq(Items)]
  BY DEF TypeOK
<1>2. /\ Append(send[c], item) \in Seq(Items)
      /\ Len(Append(send[c], item)) = Len(send[c]) + 1
  BY <1>1
<1>3. Len(send[c]) + 1 <= BufCap
  BY <1>1, ConstantsAssumption DEF HasRoom
<1> QED
  BY <1>1, <1>2, <1>3 DEF TypeOK

\* Every step keeps the types.
LEMMA TypeStep ==
    ASSUME TypeOK, ProgramCounters, Next
    PROVE  TypeOK'
<1>1. ASSUME NEW c \in Client, Connect(c)
      PROVE  TypeOK'
  <2>1. doubled' \in SUBSET User
    BY <1>1, ConstantsAssumption DEF Connect, TypeOK
  <2> QED
    BY <1>1, <2>1 DEF Connect, TypeOK, roomVars, hubVars, pushVars
<1>2. ASSUME NEW c \in Client, PeerLost(c)
      PROVE  TypeOK'
  BY <1>2, ConstantsAssumption
  DEF PeerLost, TypeOK, ProgramCounters, Pusher, roomVars, hubVars,
      pushVars, histVars
<1>3. ASSUME NEW c \in Client, ReadPublish(c)
      PROVE  TypeOK'
  <2>1. out' \in [Client -> Broadcasts \cup {None}]
    <3>1. PICK type \in {"join_chat", "message"}, k \in Chat :
             out' = [out EXCEPT ![c] =
                       [type |-> type, chat |-> k, sender |-> Owner[c]]]
      BY <1>3 DEF ReadPublish
    <3>2. [type |-> type, chat |-> k, sender |-> Owner[c]] \in Broadcasts
      BY ConstantsAssumption DEF Broadcasts
    <3> QED
      BY <3>1, <3>2 DEF TypeOK
  <2>2. frames' \in 0 .. MaxFrames
    BY <1>3, ConstantsAssumption DEF TypeOK, ReadPublish
  <2> QED
    BY <1>3, <2>1, <2>2
    DEF TypeOK, ReadPublish, roomVars, hubVars, pushVars, histVars
<1>4. ASSUME NEW c \in Client, ReadReject(c)
      PROVE  TypeOK'
  BY <1>4, ConstantsAssumption
  DEF ReadReject, TypeOK, ProgramCounters, Pusher, roomVars, hubVars,
      pushVars, histVars
<1>5. ASSUME NEW p \in Caller, Call(p)
      PROVE  TypeOK'
  BY <1>5, ConstantsAssumption
  DEF Call, TypeOK, ProgramCounters, Pusher, roomVars, pumpVars, hubVars,
      histVars
<1>6. ASSUME NEW c \in Client, ReplyError(c)
      PROVE  TypeOK'
  <2>1. ErrorReply \in Items
    BY DEF Items
  <2>2. /\ send' \in [Client -> Seq(Items)]
        /\ \A d \in Client : Len(send'[d]) <= BufCap
    <3>1. CASE UNCHANGED send
      BY <3>1 DEF TypeOK
    <3>2. CASE /\ HasRoom(c)
               /\ send' = [send EXCEPT ![c] = Append(@, ErrorReply)]
      BY <3>2, <2>1, AppendWithinCapacity
    <3> QED
      BY <1>6, <3>1, <3>2 DEF ReplyError
  <2> QED
    BY <1>6, <2>2
    DEF TypeOK, ReplyError, roomVars, hubVars, pushVars, histVars
<1>7. ASSUME NEW c \in Client, ReadError(c)
      PROVE  TypeOK'
  BY <1>7, ConstantsAssumption
  DEF ReadError, TypeOK, ProgramCounters, Pusher, roomVars, hubVars,
      pushVars, histVars
<1>8. ASSUME NEW c \in Client, WriteTake(c)
      PROVE  TypeOK'
  <2>1. send[c] \in Seq(Items) /\ send[c] # <<>>
    BY <1>8 DEF TypeOK, WriteTake
  <2>2. Head(send[c]) \in Items /\ Tail(send[c]) \in Seq(Items)
    BY <2>1
  <2>3. Len(Tail(send[c])) <= BufCap
    <3>1. Len(send[c]) \in Nat /\ Len(Tail(send[c])) = Len(send[c]) - 1
      BY <2>1
    <3>2. Len(send[c]) <= BufCap
      BY DEF TypeOK
    <3> QED
      BY <3>1, <3>2, ConstantsAssumption
  <2>4. seen' \in [Client -> [Chat -> Nat]]
    <3>1. Head(send[c]).kind = "message" => Head(send[c]).n \in Nat
      BY <2>2 DEF Items, Notice, ErrorReply
    <3> QED
      BY <1>8, <3>1 DEF TypeOK, WriteTake
  <2> QED
    BY <1>8, <2>2, <2>3, <2>4
    DEF TypeOK, WriteTake, roomVars, hubVars, pushVars
<1>9. ASSUME NEW c \in Client, WriteStop(c)
      PROVE  TypeOK'
  BY <1>9, ConstantsAssumption
  DEF WriteStop, TypeOK, ProgramCounters, Pusher, roomVars, hubVars,
      pushVars, histVars
<1>10. ASSUME NEW c \in Client, WriteDone(c)
      PROVE  TypeOK'
  BY <1>10, ConstantsAssumption
  DEF WriteDone, TypeOK, ProgramCounters, Pusher, roomVars, hubVars,
      pushVars, histVars
<1>11. ASSUME NEW c \in Client, RegisterRecv(c)
      PROVE  TypeOK'
  BY <1>11, ConstantsAssumption
  DEF RegisterRecv, TypeOK, ProgramCounters, Pusher, roomVars, pushVars,
      histVars
<1>12. ASSUME NEW c \in Client, UnregisterRecv(c)
      PROVE  TypeOK'
  BY <1>12, ConstantsAssumption
  DEF UnregisterRecv, TypeOK, ProgramCounters, Pusher, roomVars, pushVars,
      histVars
<1>13. ASSUME NEW c \in Client, BroadcastRecv(c)
      PROVE  TypeOK'
  <2>1. out[c] \in Broadcasts /\ out[c].chat \in Chat
    BY <1>13 DEF ProgramCounters, BroadcastRecv, Broadcasts
  <2>2. /\ curMsg' \in Broadcasts \cup {None}
        /\ out' \in [Client -> Broadcasts \cup {None}]
        /\ reader' \in [Client -> {"none", "registering", "reading", "publish",
                                  "reply", "leaving", "done"}]
    BY <1>13, <2>1 DEF TypeOK, BroadcastRecv
  <2>3. /\ hub' \in {"join", "message"}
        /\ todo' \in SUBSET User
        /\ posted' \in [Chat -> Nat]
    <3>1. CASE out[c].type = "join_chat"
      BY <1>13, <3>1 DEF TypeOK, BroadcastRecv
    <3>2. CASE out[c].type # "join_chat"
      <4>1. /\ hub' = "message"
            /\ todo' = chatRooms[out[c].chat]
            /\ posted' = [posted EXCEPT ![out[c].chat] = @ + 1]
        BY <1>13, <3>2 DEF BroadcastRecv
      <4> QED
        BY <4>1, <2>1 DEF TypeOK
    <3> QED
      BY <3>1, <3>2
  <2> QED
    BY <1>13, <2>2, <2>3
    DEF TypeOK, BroadcastRecv, roomVars, pushVars
<1>14. ASSUME RegisterApply
      PROVE  TypeOK'
  BY <1>14, ConstantsAssumption
  DEF RegisterApply, ClientsWith, NoReaders, TypeOK, ProgramCounters, Pusher, pumpVars,
      pushVars, histVars
<1>15. ASSUME UnregisterApply
      PROVE  TypeOK'
  BY <1>15, ConstantsAssumption
  DEF UnregisterApply, ClientsWithout, RoomsWithout, NoReaders, TypeOK,
      ProgramCounters, Pusher, pumpVars, pushVars, histVars
<1>16. ASSUME JoinChat
      PROVE  TypeOK'
  <2>1. curMsg.chat \in Chat /\ curMsg.sender \in User
    BY <1>16 DEF ProgramCounters, JoinChat, Broadcasts
  <2>2. clients[curMsg.sender] \in Client \cup {None}
    BY <2>1 DEF TypeOK
  <2>3. chatRooms' \in [Chat -> SUBSET User]
    BY <1>16, <2>1 DEF TypeOK, JoinChat
  <2>4. chatIDs' \in [Client -> SUBSET Chat]
    BY <1>16, <2>1, <2>2 DEF TypeOK, JoinChat, ChatIDsWith
  <2>5. seen' \in [Client -> [Chat -> Nat]]
    BY <1>16, <2>1, <2>2 DEF TypeOK, JoinChat
  <2> QED
    BY <1>16, <2>3, <2>4, <2>5
    DEF TypeOK, JoinChat, pumpVars, pushVars
<1>17. ASSUME NextMember
      PROVE  TypeOK'
  <2>1. /\ todo' \in SUBSET User
        /\ push' \in [Pusher -> {"idle", "lookup", "send", "close", "delete"}]
        /\ pushUser' \in [Pusher -> User \cup {None}]
    BY <1>17 DEF TypeOK, NextMember, Pusher
  <2>2. /\ hub' \in {"select", "register", "unregister", "join", "message"}
        /\ curMsg' \in Broadcasts \cup {None}
    BY <1>17 DEF TypeOK, NextMember
  <2> QED
    BY <1>17, <2>1, <2>2
    DEF TypeOK, NextMember, roomVars, pumpVars, histVars
<1>18. ASSUME NEW p \in Pusher, LookUp(p)
      PROVE  TypeOK'
  <2>1. clients[pushUser[p]] \in Client \cup {None}
    BY <1>18 DEF TypeOK, ProgramCounters, LookUp
  <2>2. PushTypes'
    BY <1>18, <2>1 DEF TypeOK, PushTypes, LookUp, Finish
  <2> QED
    BY <1>18, <2>2
    DEF TypeOK, PushTypes, LookUp, roomVars, pumpVars, hubVars, histVars
<1>19. ASSUME NEW p \in Pusher, TrySend(p)
      PROVE  TypeOK'
  <2> DEFINE c == pushClient[p]
  <2>1. c \in Client
    BY <1>19 DEF ProgramCounters, TrySend
  <2>2. PushTypes' /\ panicked' \in BOOLEAN
    BY <1>19 DEF TypeOK, PushTypes, TrySend, OnFull, Panic, Finish
  <2>3. HasRoom(c) /\ send' = [send EXCEPT ![c] = Append(@, ItemOf(p))]
        => /\ send' \in [Client -> Seq(Items)]
           /\ \A d \in Client : Len(send'[d]) <= BufCap
    <3>1. p = HubLoop => curMsg \in Broadcasts
      BY <1>19 DEF TypeOK, ProgramCounters, TrySend
    <3>2. ItemOf(p) \in Items
      BY <3>1 DEF TypeOK, ItemOf, Message, Items, Broadcasts
    <3> QED
      BY <2>1, <3>2, AppendWithinCapacity
  <2>4. /\ send' \in [Client -> Seq(Items)]
        /\ \A d \in Client : Len(send'[d]) <= BufCap
    BY <1>19, <2>3 DEF TypeOK, TrySend
  <2> QED
    BY <1>19, <2>2, <2>4
    DEF TypeOK, PushTypes, TrySend, roomVars, pumpVars, hubVars, histVars
<1>20. ASSUME NEW p \in Pusher, CloseSend(p)
      PROVE  TypeOK'
  <2>1. pushClient[p] \in Client
    BY <1>20 DEF ProgramCounters, CloseSend
  <2>2. PushTypes' /\ panicked' \in BOOLEAN
    BY <1>20 DEF TypeOK, PushTypes, CloseSend, Panic, Finish
  <2>3. closed' \in [Client -> BOOLEAN] /\ overflowed' \in SUBSET Client
    BY <1>20, <2>1 DEF TypeOK, CloseSend
  <2> QED
    BY <1>20, <2>2, <2>3
    DEF TypeOK, PushTypes, CloseSend, roomVars, pumpVars, hubVars
<1>21. ASSUME NEW p \in Pusher, DropClient(p)
      PROVE  TypeOK'
  BY <1>21, ConstantsAssumption
  DEF DropClient, Finish, ClientsWithout, TypeOK, ProgramCounters, Pusher,
      pumpVars, hubVars, histVars
<1>22. ASSUME MapRace
      PROVE  TypeOK'
  BY <1>22, ConstantsAssumption
  DEF MapRace, TypeOK, ProgramCounters, Pusher, roomVars, pumpVars, hubVars,
      pushVars, histVars
<1> QED
  BY <1>1, <1>2, <1>3, <1>4, <1>5, <1>6, <1>7, <1>8, <1>9, <1>10, <1>11,
     <1>12, <1>13, <1>14, <1>15, <1>16, <1>17, <1>18, <1>19, <1>20, <1>21,
     <1>22 DEF Next, Environment, ReadPump, TakeNext, WriteEnds, Receive,
     HubBody, Request, Race, Push, Pusher

\* Every step keeps the fields of each program counter set.
LEMMA ProgramCountersStep ==
    ASSUME TypeOK, ProgramCounters, Next
    PROVE  ProgramCounters'
<1>1. ASSUME NEW c \in Client, Connect(c)
      PROVE  ProgramCounters'
  BY <1>1, ConstantsAssumption
  DEF Connect, TypeOK, ProgramCounters, Pusher, roomVars, hubVars, pushVars,
      histVars
<1>2. ASSUME NEW c \in Client, PeerLost(c)
      PROVE  ProgramCounters'
  BY <1>2, ConstantsAssumption
  DEF PeerLost, TypeOK, ProgramCounters, Pusher, roomVars, hubVars,
      pushVars, histVars
<1>3. ASSUME NEW c \in Client, ReadPublish(c)
      PROVE  ProgramCounters'
  <2>1. out'[c] \in Broadcasts
    <3>1. PICK type \in {"join_chat", "message"}, k \in Chat :
             out' = [out EXCEPT ![c] =
                       [type |-> type, chat |-> k, sender |-> Owner[c]]]
      BY <1>3 DEF ReadPublish
    <3>2. [type |-> type, chat |-> k, sender |-> Owner[c]] \in Broadcasts
      BY ConstantsAssumption DEF Broadcasts
    <3> QED
      BY <3>1, <3>2 DEF TypeOK
  <2>2. \A d \in Client : d # c => out'[d] = out[d] /\ reader'[d] = reader[d]
    BY <1>3 DEF TypeOK, ReadPublish
  <2>3. hub = "unregister" => reader'[cur] = "done"
    BY <1>3 DEF TypeOK, ProgramCounters, ReadPublish
  <2> QED
    BY <1>3, <2>1, <2>2, <2>3
    DEF ProgramCounters, ReadPublish, roomVars, hubVars, pushVars
<1>4. ASSUME NEW c \in Client, ReadReject(c)
      PROVE  ProgramCounters'
  BY <1>4, ConstantsAssumption
  DEF ReadReject, TypeOK, ProgramCounters, Pusher, roomVars, hubVars,
      pushVars, histVars
<1>5. ASSUME NEW p \in Caller, Call(p)
      PROVE  ProgramCounters'
  BY <1>5, ConstantsAssumption
  DEF Call, TypeOK, ProgramCounters, Pusher, roomVars, pumpVars, hubVars,
      histVars
<1>6. ASSUME NEW c \in Client, ReplyError(c)
      PROVE  ProgramCounters'
  BY <1>6, ConstantsAssumption
  DEF ReplyError, HasRoom, ErrorReply, TypeOK, ProgramCounters, Pusher,
      roomVars, hubVars, pushVars, histVars
<1>7. ASSUME NEW c \in Client, ReadError(c)
      PROVE  ProgramCounters'
  BY <1>7, ConstantsAssumption
  DEF ReadError, TypeOK, ProgramCounters, Pusher, roomVars, hubVars,
      pushVars, histVars
<1>8. ASSUME NEW c \in Client, WriteTake(c)
      PROVE  ProgramCounters'
  BY <1>8, ConstantsAssumption
  DEF WriteTake, TypeOK, ProgramCounters, Pusher, roomVars, hubVars,
      pushVars
<1>9. ASSUME NEW c \in Client, WriteStop(c)
      PROVE  ProgramCounters'
  BY <1>9, ConstantsAssumption
  DEF WriteStop, TypeOK, ProgramCounters, Pusher, roomVars, hubVars,
      pushVars, histVars
<1>10. ASSUME NEW c \in Client, WriteDone(c)
      PROVE  ProgramCounters'
  BY <1>10, ConstantsAssumption
  DEF WriteDone, TypeOK, ProgramCounters, Pusher, roomVars, hubVars,
      pushVars, histVars
<1>11. ASSUME NEW c \in Client, RegisterRecv(c)
      PROVE  ProgramCounters'
  BY <1>11, ConstantsAssumption
  DEF RegisterRecv, TypeOK, ProgramCounters, Pusher, roomVars, pushVars,
      histVars
<1>12. ASSUME NEW c \in Client, UnregisterRecv(c)
      PROVE  ProgramCounters'
  BY <1>12, ConstantsAssumption
  DEF UnregisterRecv, TypeOK, ProgramCounters, Pusher, roomVars, pushVars,
      histVars
<1>13. ASSUME NEW c \in Client, BroadcastRecv(c)
      PROVE  ProgramCounters'
  BY <1>13, ConstantsAssumption
  DEF BroadcastRecv, TypeOK, ProgramCounters, Pusher, roomVars, pushVars
<1>14. ASSUME RegisterApply
      PROVE  ProgramCounters'
  BY <1>14, ConstantsAssumption
  DEF RegisterApply, ClientsWith, NoReaders, TypeOK, ProgramCounters, Pusher, pumpVars,
      pushVars, histVars
<1>15. ASSUME UnregisterApply
      PROVE  ProgramCounters'
  BY <1>15, ConstantsAssumption
  DEF UnregisterApply, ClientsWithout, RoomsWithout, NoReaders, TypeOK,
      ProgramCounters, Pusher, pumpVars, pushVars, histVars
<1>16. ASSUME JoinChat
      PROVE  ProgramCounters'
  BY <1>16, ConstantsAssumption
  DEF JoinChat, ChatIDsWith, TypeOK, ProgramCounters, Pusher, pumpVars,
      pushVars
<1>17. ASSUME NextMember
      PROVE  ProgramCounters'
  BY <1>17, ConstantsAssumption
  DEF NextMember, TypeOK, ProgramCounters, Pusher, roomVars, pumpVars,
      histVars
<1>18. ASSUME NEW p \in Pusher, LookUp(p)
      PROVE  ProgramCounters'
  <2>1. \A q \in Pusher : q # p => /\ push'[q] = push[q]
                                  /\ pushUser'[q] = pushUser[q]
                                  /\ pushClient'[q] = pushClient[q]
    BY <1>18 DEF TypeOK, LookUp, Finish
  <2>2. /\ push'[p] # "idle" => pushUser'[p] \in User
        /\ push'[p] \in {"send", "close", "delete"} => pushClient'[p] \in Client
    BY <1>18 DEF TypeOK, ProgramCounters, LookUp, Finish
  <2>3. hub # "message" => push'[HubLoop] = "idle"
    BY <1>18, <2>1 DEF ProgramCounters, LookUp, Pusher
  <2> QED
    BY <1>18, <2>1, <2>2, <2>3
    DEF ProgramCounters, LookUp, roomVars, pumpVars, hubVars
<1>19. ASSUME NEW p \in Pusher, TrySend(p)
      PROVE  ProgramCounters'
  <2>1. \A q \in Pusher : q # p => /\ push'[q] = push[q]
                                  /\ pushUser'[q] = pushUser[q]
                                  /\ pushClient'[q] = pushClient[q]
    BY <1>19 DEF TypeOK, TrySend, OnFull, Panic, Finish
  <2>2. /\ push'[p] # "idle" => pushUser'[p] \in User
        /\ push'[p] \in {"send", "close", "delete"} => pushClient'[p] \in Client
    BY <1>19 DEF TypeOK, ProgramCounters, TrySend, OnFull, Panic, Finish
  <2>3. hub # "message" => push'[HubLoop] = "idle"
    BY <1>19, <2>1 DEF ProgramCounters, TrySend, Pusher
  <2> QED
    BY <1>19, <2>1, <2>2, <2>3
    DEF ProgramCounters, TrySend, roomVars, pumpVars, hubVars
<1>20. ASSUME NEW p \in Pusher, CloseSend(p)
      PROVE  ProgramCounters'
  <2>1. \A q \in Pusher : q # p => /\ push'[q] = push[q]
                                  /\ pushUser'[q] = pushUser[q]
                                  /\ pushClient'[q] = pushClient[q]
    BY <1>20 DEF TypeOK, CloseSend, Panic, Finish
  <2>2. /\ push'[p] # "idle" => pushUser'[p] \in User
        /\ push'[p] \in {"send", "close", "delete"} => pushClient'[p] \in Client
    BY <1>20 DEF TypeOK, ProgramCounters, CloseSend, Panic, Finish
  <2>3. hub # "message" => push'[HubLoop] = "idle"
    BY <1>20, <2>1 DEF ProgramCounters, CloseSend, Pusher
  <2> QED
    BY <1>20, <2>1, <2>2, <2>3
    DEF ProgramCounters, CloseSend, roomVars, pumpVars, hubVars
<1>21. ASSUME NEW p \in Pusher, DropClient(p)
      PROVE  ProgramCounters'
  BY <1>21, ConstantsAssumption
  DEF DropClient, Finish, ClientsWithout, TypeOK, ProgramCounters, Pusher,
      pumpVars, hubVars, histVars
<1>22. ASSUME MapRace
      PROVE  ProgramCounters'
  BY <1>22, ConstantsAssumption
  DEF MapRace, TypeOK, ProgramCounters, Pusher, roomVars, pumpVars, hubVars,
      pushVars, histVars
<1> QED
  BY <1>1, <1>2, <1>3, <1>4, <1>5, <1>6, <1>7, <1>8, <1>9, <1>10, <1>11,
     <1>12, <1>13, <1>14, <1>15, <1>16, <1>17, <1>18, <1>19, <1>20, <1>21,
     <1>22 DEF Next, Environment, ReadPump, TakeNext, WriteEnds, Receive,
     HubBody, Request, Race, Push, Pusher

\* A step that closes no channel for overflow keeps every closed channel out of
\* reach of the hub and of the requests.
LEMMA ClosedStep ==
    ASSUME TypeOK, ProgramCounters, overflowed = {} => ClosedForGood, Next
    PROVE  overflowed' = {} => ClosedForGood'
<1>1. ASSUME NEW c \in Client, Connect(c)
      PROVE  overflowed' = {} => ClosedForGood'
  BY <1>1, ConstantsAssumption
  DEF Connect, TypeOK, ProgramCounters, ClosedForGood, Pusher, roomVars,
      hubVars, pushVars, histVars
<1>2. ASSUME NEW c \in Client, PeerLost(c)
      PROVE  overflowed' = {} => ClosedForGood'
  BY <1>2, ConstantsAssumption
  DEF PeerLost, TypeOK, ProgramCounters, ClosedForGood, Pusher, roomVars,
      hubVars, pushVars, histVars
<1>3. ASSUME NEW c \in Client, ReadPublish(c)
      PROVE  overflowed' = {} => ClosedForGood'
  BY <1>3, ConstantsAssumption
  DEF ReadPublish, TypeOK, ProgramCounters, ClosedForGood, Pusher, roomVars,
      hubVars, pushVars, histVars
<1>4. ASSUME NEW c \in Client, ReadReject(c)
      PROVE  overflowed' = {} => ClosedForGood'
  BY <1>4, ConstantsAssumption
  DEF ReadReject, TypeOK, ProgramCounters, ClosedForGood, Pusher, roomVars,
      hubVars, pushVars, histVars
<1>5. ASSUME NEW p \in Caller, Call(p)
      PROVE  overflowed' = {} => ClosedForGood'
  BY <1>5, ConstantsAssumption
  DEF Call, TypeOK, ProgramCounters, ClosedForGood, Pusher, roomVars,
      pumpVars, hubVars, histVars
<1>6. ASSUME NEW c \in Client, ReplyError(c)
      PROVE  overflowed' = {} => ClosedForGood'
  BY <1>6, ConstantsAssumption
  DEF ReplyError, HasRoom, ErrorReply, TypeOK, ProgramCounters,
      ClosedForGood, Pusher, roomVars, hubVars, pushVars, histVars
<1>7. ASSUME NEW c \in Client, ReadError(c)
      PROVE  overflowed' = {} => ClosedForGood'
  BY <1>7, ConstantsAssumption
  DEF ReadError, TypeOK, ProgramCounters, ClosedForGood, Pusher, roomVars,
      hubVars, pushVars, histVars
<1>8. ASSUME NEW c \in Client, WriteTake(c)
      PROVE  overflowed' = {} => ClosedForGood'
  BY <1>8, ConstantsAssumption
  DEF WriteTake, TypeOK, ProgramCounters, ClosedForGood, Pusher, roomVars,
      hubVars, pushVars
<1>9. ASSUME NEW c \in Client, WriteStop(c)
      PROVE  overflowed' = {} => ClosedForGood'
  BY <1>9, ConstantsAssumption
  DEF WriteStop, TypeOK, ProgramCounters, ClosedForGood, Pusher, roomVars,
      hubVars, pushVars, histVars
<1>10. ASSUME NEW c \in Client, WriteDone(c)
      PROVE  overflowed' = {} => ClosedForGood'
  BY <1>10, ConstantsAssumption
  DEF WriteDone, TypeOK, ProgramCounters, ClosedForGood, Pusher, roomVars,
      hubVars, pushVars, histVars
<1>11. ASSUME NEW c \in Client, RegisterRecv(c)
      PROVE  overflowed' = {} => ClosedForGood'
  BY <1>11, ConstantsAssumption
  DEF RegisterRecv, TypeOK, ProgramCounters, ClosedForGood, Pusher,
      roomVars, pushVars, histVars
<1>12. ASSUME NEW c \in Client, UnregisterRecv(c)
      PROVE  overflowed' = {} => ClosedForGood'
  BY <1>12, ConstantsAssumption
  DEF UnregisterRecv, TypeOK, ProgramCounters, ClosedForGood, Pusher,
      roomVars, pushVars, histVars
<1>13. ASSUME NEW c \in Client, BroadcastRecv(c)
      PROVE  overflowed' = {} => ClosedForGood'
  BY <1>13, ConstantsAssumption
  DEF BroadcastRecv, TypeOK, ProgramCounters, ClosedForGood, Pusher,
      roomVars, pushVars
<1>14. ASSUME RegisterApply
      PROVE  overflowed' = {} => ClosedForGood'
  BY <1>14, ConstantsAssumption
  DEF RegisterApply, ClientsWith, NoReaders, TypeOK, ProgramCounters, ClosedForGood,
      Pusher, pumpVars, pushVars, histVars
<1>15. ASSUME UnregisterApply
      PROVE  overflowed' = {} => ClosedForGood'
  <2>1. cur \in Client /\ reader[cur] = "done" /\ Owner[cur] \in User
    BY <1>15, ConstantsAssumption DEF UnregisterApply, ProgramCounters
  <2>2. \A p \in Pusher : push[p] = "idle"
    BY <1>15 DEF UnregisterApply, NoReaders, ProgramCounters, Pusher
  <2>3. SUFFICES ASSUME overflowed = {} PROVE ClosedForGood'
    BY <1>15 DEF UnregisterApply, histVars
  <2>4. ~panicked'
    BY <1>15, <2>1, <2>3 DEF UnregisterApply, ClosedForGood
  <2>5. \A c \in Client : closed'[c] =>
           reader[c] = "done" /\ clients'[Owner[c]] # c
    BY <1>15, <2>1, <2>3, ConstantsAssumption
    DEF UnregisterApply, ClosedForGood, ClientsWithout, TypeOK
  <2> QED
    BY <1>15, <2>2, <2>4, <2>5
    DEF ClosedForGood, UnregisterApply, pumpVars, pushVars
<1>16. ASSUME JoinChat
      PROVE  overflowed' = {} => ClosedForGood'
  BY <1>16, ConstantsAssumption
  DEF JoinChat, ChatIDsWith, TypeOK, ProgramCounters, ClosedForGood, Pusher,
      pumpVars, pushVars
<1>17. ASSUME NextMember
      PROVE  overflowed' = {} => ClosedForGood'
  BY <1>17, ConstantsAssumption
  DEF NextMember, TypeOK, ProgramCounters, ClosedForGood, Pusher, roomVars,
      pumpVars, histVars
<1>18. ASSUME NEW p \in Pusher, LookUp(p)
      PROVE  overflowed' = {} => ClosedForGood'
  <2>1. SUFFICES ASSUME overflowed = {} PROVE ClosedForGood'
    BY <1>18 DEF LookUp, histVars
  <2>2. pushUser[p] \in User
    BY <1>18 DEF LookUp, ProgramCounters
  <2>3. \A q \in Pusher : q # p => /\ push'[q] = push[q]
                                  /\ pushClient'[q] = pushClient[q]
    BY <1>18 DEF TypeOK, LookUp, Finish
  <2>4. push'[p] = "idle" \/ (push'[p] = "send" /\ ~closed[pushClient'[p]])
    <3>1. clients[pushUser[p]] \in Client => ~closed[clients[pushUser[p]]]
      BY <2>1, <2>2 DEF ClosedForGood, ProgramCounters
    <3>2. clients[pushUser[p]] \in Client \cup {None}
      BY <2>2 DEF TypeOK
    <3>3. CASE clients[pushUser[p]] = None
      <4>1. push' = [push EXCEPT ![p] = "idle"]
        BY <1>18, <3>3 DEF LookUp, Finish
      <4> QED
        BY <4>1 DEF TypeOK
    <3>4. CASE clients[pushUser[p]] # None
      <4>1. /\ push' = [push EXCEPT ![p] = "send"]
            /\ pushClient' = [pushClient EXCEPT ![p] = clients[pushUser[p]]]
        BY <1>18, <3>4 DEF LookUp
      <4> QED
        BY <4>1, <3>1, <3>2, <3>4 DEF TypeOK
    <3> QED
      BY <3>3, <3>4
  <2> QED
    BY <1>18, <2>1, <2>3, <2>4
    DEF ClosedForGood, LookUp, roomVars, pumpVars, hubVars
<1>19. ASSUME NEW p \in Pusher, TrySend(p)
      PROVE  overflowed' = {} => ClosedForGood'
  BY <1>19, ConstantsAssumption
  DEF TrySend, HasRoom, OnFull, Panic, Finish, ItemOf, Message, Notice,
      TypeOK, ProgramCounters, ClosedForGood, Pusher, roomVars, pumpVars,
      hubVars, histVars
<1>20. ASSUME NEW p \in Pusher, CloseSend(p)
      PROVE  overflowed' = {} => ClosedForGood'
  BY <1>20, ConstantsAssumption
  DEF CloseSend, Panic, Finish, TypeOK, ProgramCounters, ClosedForGood,
      Pusher, roomVars, pumpVars, hubVars
<1>21. ASSUME NEW p \in Pusher, DropClient(p)
      PROVE  overflowed' = {} => ClosedForGood'
  BY <1>21, ConstantsAssumption
  DEF DropClient, Finish, ClientsWithout, TypeOK, ProgramCounters,
      ClosedForGood, Pusher, pumpVars, hubVars, histVars
<1>22. ASSUME MapRace
      PROVE  overflowed' = {} => ClosedForGood'
  BY <1>22, ConstantsAssumption
  DEF MapRace, TypeOK, ProgramCounters, ClosedForGood, Pusher, roomVars,
      pumpVars, hubVars, pushVars, histVars
<1> QED
  BY <1>1, <1>2, <1>3, <1>4, <1>5, <1>6, <1>7, <1>8, <1>9, <1>10, <1>11,
     <1>12, <1>13, <1>14, <1>15, <1>16, <1>17, <1>18, <1>19, <1>20, <1>21,
     <1>22 DEF Next, Environment, ReadPump, TakeNext, WriteEnds, Receive,
     HubBody, Request, Race, Push, Pusher

-----------------------------------------------------------------------------
\* Nothing has happened when the hub starts.
LEMMA HubInit == Init => HubInv
<1> SUFFICES ASSUME Init PROVE HubInv
  OBVIOUS
<1>1. /\ send \in [Client -> Seq(Items)]
      /\ \A c \in Client : Len(send[c]) <= BufCap
  <2>1. <<>> \in Seq(Items) /\ Len(<<>>) = 0
    OBVIOUS
  <2> QED
    BY <2>1, ConstantsAssumption DEF Init
<1>2. TypeOK
  <2>1. /\ 0 \in 0 .. MaxFrames /\ 0 \in 0 .. MaxCalls
        /\ [k \in Chat |-> 0] \in [Chat -> Nat]
    BY ConstantsAssumption
  <2>2. seen \in [Client -> [Chat -> Nat]]
    BY <2>1 DEF Init
  <2> QED
    BY <1>1, <2>1, <2>2 DEF Init, TypeOK
<1>3. ProgramCounters
  BY ConstantsAssumption DEF Init, ProgramCounters, Pusher
<1>4. ClosedForGood
  BY ConstantsAssumption DEF Init, ClosedForGood
<1> QED
  BY <1>2, <1>3, <1>4 DEF HubInv

\* HubInv holds in every reachable state.
THEOREM HubInvariant == Spec => []HubInv
<1>1. HubInv /\ [Next]_vars => HubInv'
  <2> SUFFICES ASSUME HubInv, [Next]_vars PROVE HubInv'
    OBVIOUS
  <2>1. CASE Next
    BY <2>1, TypeStep, ProgramCountersStep, ClosedStep DEF HubInv
  <2>2. CASE UNCHANGED vars
    BY <2>2
    DEF HubInv, TypeOK, ProgramCounters, ClosedForGood, vars, roomVars, pumpVars,
        hubVars, pushVars, histVars
  <2> QED
    BY <2>1, <2>2
<1> QED
  BY <1>1, HubInit, PTL DEF Spec

\* The type invariant; with it, no channel ever exceeds its capacity.
THEOREM TypeCorrect == Spec => []TypeOK
<1>1. HubInv => TypeOK
  BY DEF HubInv
<1> QED
  BY <1>1, HubInvariant, PTL

\* As long as no buffer has overflowed, no order of registrations, removals,
\* broadcasts and notifications makes the process panic.
THEOREM NoCrashBeforeOverflow == Spec => []CrashOnlyAfterOverflow
<1>1. HubInv => CrashOnlyAfterOverflow
  BY DEF HubInv, ClosedForGood, CrashOnlyAfterOverflow
<1> QED
  BY <1>1, HubInvariant, PTL

=============================================================================
