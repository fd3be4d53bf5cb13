---------------------------- MODULE Browser_proof ----------------------------
(***************************************************************************)
(* Proofs about Browser, for any number of users, chats, sockets and       *)
(* logins, and any limit on the attempts.                                  *)
(***************************************************************************)
EXTENDS Browser, FiniteSetTheorems, TLAPS

LiveSockets == {s \in Socket : Live(s)}

\* The end of a session leaves no socket for the next one to send on, unless it
\* ended without disconnect.
NoSocketWithoutUser == (token = None /\ ~ left) => ws = None

BrowserInv ==
    /\ TypeOK
    /\ NoSocketWithoutUser
    /\ SocketIsOfTheUser
    /\ IsFiniteSet(LiveSockets)
    /\ OneConnectionPerLogin

-----------------------------------------------------------------------------
(* What the actions do to the set of live sockets.                         *)

\* A socket that stays live and one that was not: the count goes up by one.
LEMMA OneMore ==
    ASSUME NEW S, NEW x, IsFiniteSet(S), x \notin S
    PROVE  /\ IsFiniteSet(S \cup {x})
           /\ Cardinality(S \cup {x}) = Cardinality(S) + 1
  BY FS_AddElement

\* One that was live is not any more: it goes down by one.
LEMMA OneLess ==
    ASSUME NEW S, NEW x, IsFiniteSet(S), x \in S
    PROVE  /\ IsFiniteSet(S \ {x})
           /\ Cardinality(S \ {x}) = Cardinality(S) - 1
  BY FS_RemoveElement

\* Connect adds one live socket or none, to the logged-in user's account.
LEMMA ConnectEffect ==
    ASSUME BrowserInv, Connect, UNCHANGED token
    PROVE  /\ ws' \in Socket \cup {None}
           /\ sock' \in [Socket -> {"none", "connecting", "open", "closing", "closed"}]
           /\ owner' \in [Socket -> User \cup {None}]
           /\ joined' \in [Socket -> SUBSET Chat]
           /\ left' \in BOOLEAN
           /\ NoSocketWithoutUser'
           /\ SocketIsOfTheUser'
           /\ IsFiniteSet(LiveSockets')
           /\ Cardinality(LiveSockets') \in {Cardinality(LiveSockets),
                                             Cardinality(LiveSockets) + 1}
<1>1. CASE token = None
  <2>1. UNCHANGED <<socketVars, left>>
    BY <1>1 DEF Connect
  <2>2. LiveSockets' = LiveSockets
    BY <2>1 DEF socketVars, LiveSockets, Live
  <2> QED
    BY <2>1, <2>2 DEF socketVars, BrowserInv, TypeOK, NoSocketWithoutUser, SocketIsOfTheUser
<1>2. CASE token # None
  <2>1. PICK s \in Socket :
            /\ sock[s] = "none"
            /\ ws' = s
            /\ sock' = [x \in Socket |-> IF x = s THEN "connecting"
                                         ELSE IF sock[x] = "closed" THEN "none"
                                         ELSE sock[x]]
            /\ owner' = [owner EXCEPT ![s] = token]
            /\ joined' = [joined EXCEPT ![s] = {}]
            /\ left' = FALSE
    BY <1>2 DEF Connect
  <2>2. LiveSockets' = LiveSockets \cup {s} /\ s \notin LiveSockets
    BY <2>1 DEF LiveSockets, Live, BrowserInv, TypeOK
  <2>3. /\ ws' \in Socket \cup {None}
        /\ sock' \in [Socket -> {"none", "connecting", "open", "closing", "closed"}]
        /\ owner' \in [Socket -> User \cup {None}]
        /\ joined' \in [Socket -> SUBSET Chat]
        /\ left' \in BOOLEAN
    BY <2>1 DEF BrowserInv, TypeOK
  <2>4. NoSocketWithoutUser' /\ SocketIsOfTheUser'
    BY <1>2, <2>1 DEF BrowserInv, TypeOK, NoSocketWithoutUser, SocketIsOfTheUser
  <2> QED
    BY <2>2, <2>3, <2>4, OneMore DEF BrowserInv
<1> QED
  BY <1>1, <1>2

-----------------------------------------------------------------------------
(* The invariant.                                                          *)

\* The part of the invariant that counts, without the bound variable of its set.
LEMMA CountOfLive ==
    BrowserInv => /\ Cardinality(LiveSockets) \in Nat
                  /\ Cardinality(LiveSockets) + reconnects + connectTimers + loginLoads
                         <= logins
  BY FS_CardinalityType DEF BrowserInv, OneConnectionPerLogin, LiveSockets

\* A step that leaves the sockets alone keeps the count, if what is pending grows
\* by no more than the logins.
LEMMA SocketsAlone ==
    ASSUME BrowserInv, TypeOK', UNCHANGED sock,
           reconnects' + connectTimers' + loginLoads' - logins'
               <= reconnects + connectTimers + loginLoads - logins
    PROVE  IsFiniteSet(LiveSockets') /\ OneConnectionPerLogin'
<1>1. LiveSockets' = LiveSockets
  BY DEF LiveSockets, Live
<1>2. /\ {reconnects, connectTimers, loginLoads, logins} \subseteq Int
      /\ {reconnects', connectTimers', loginLoads', logins'} \subseteq Int
  BY BrowserAssumption DEF TypeOK, BrowserInv
<1>3. \A n \in Nat : n + reconnects + connectTimers + loginLoads <= logins =>
                     n + reconnects' + connectTimers' + loginLoads' <= logins'
  BY <1>2
<1>4. Cardinality(LiveSockets') + reconnects' + connectTimers' + loginLoads' <= logins'
  BY <1>1, <1>3, CountOfLive
<1> QED
  BY <1>1, <1>4 DEF BrowserInv, OneConnectionPerLogin, LiveSockets

\* A step after which there is no new live socket, and the pending ones likewise.
LEMMA NoNewSocket ==
    ASSUME BrowserInv, TypeOK', LiveSockets' \subseteq LiveSockets,
           reconnects' + connectTimers' + loginLoads' - logins'
               <= reconnects + connectTimers + loginLoads - logins
    PROVE  IsFiniteSet(LiveSockets') /\ OneConnectionPerLogin'
<1>1. IsFiniteSet(LiveSockets')
  BY FS_Subset DEF BrowserInv
<1>2. Cardinality(LiveSockets') \in Nat /\ Cardinality(LiveSockets') <= Cardinality(LiveSockets)
  BY <1>1, FS_Subset, FS_CardinalityType DEF BrowserInv
<1>3. /\ {reconnects, connectTimers, loginLoads, logins} \subseteq Int
      /\ {reconnects', connectTimers', loginLoads', logins'} \subseteq Int
  BY BrowserAssumption DEF TypeOK, BrowserInv
<1>4. \A n, k \in Nat : (n + reconnects + connectTimers + loginLoads <= logins /\ k <= n) =>
                     k + reconnects' + connectTimers' + loginLoads' <= logins'
  BY <1>3
<1>5. Cardinality(LiveSockets') + reconnects' + connectTimers' + loginLoads' <= logins'
  BY <1>2, <1>4, CountOfLive
<1> QED
  BY <1>1, <1>5 DEF OneConnectionPerLogin, LiveSockets

\* Every callback and timer keeps the invariant, whichever session set it.
LEMMA BrowserStep ==
    ASSUME BrowserInv, Next
    PROVE  BrowserInv'
<1> USE BrowserAssumption
<1>1. ASSUME NEW u \in User, Login(u) PROVE BrowserInv'
  <2>3. left' \in BOOLEAN
    BY <1>1, Zenon DEF Login, BrowserInv, TypeOK
  <2>4. TypeOK'
    <3>1. UNCHANGED <<socketVars, attempts, timerVars, loads, userChats>>
      BY <1>1 DEF Login
    <3>2. /\ asked[u] > 0 /\ logins < MaxLogins
          /\ asked' = [asked EXCEPT ![u] = @ - 1]
          /\ token' = u
          /\ logins' = logins + 1
          /\ loginLoads' = loginLoads + 1
      BY <1>1 DEF Login
    <3> QED
      BY <2>3, <3>1, <3>2 DEF socketVars, timerVars, BrowserInv, TypeOK
  <2>5. NoSocketWithoutUser'
    BY <1>1 DEF Login, NoSocketWithoutUser
  <2>6. SocketIsOfTheUser'
    <3> SUFFICES ASSUME ws' # None, ~ left' PROVE owner'[ws'] = token'
      BY DEF SocketIsOfTheUser
    <3>1. ~ left /\ token = None /\ ws # None
      BY <1>1, Zenon DEF Login, socketVars
    <3> QED
      BY <3>1, Zenon DEF BrowserInv, NoSocketWithoutUser
  <2>1. TypeOK' /\ NoSocketWithoutUser' /\ SocketIsOfTheUser'
    BY <2>4, <2>5, <2>6
  <2>2. /\ UNCHANGED sock
        /\ reconnects' + connectTimers' + loginLoads' - logins'
               <= reconnects + connectTimers + loginLoads - logins
    BY <1>1 DEF Login, socketVars, timerVars, BrowserInv, TypeOK
  <2> QED
    BY <2>1, <2>2, SocketsAlone DEF BrowserInv
<1>9. ASSUME NEW u \in User, AskLogin(u) \/ LoginFails(u) PROVE BrowserInv'
  <2>1. TypeOK' /\ NoSocketWithoutUser' /\ SocketIsOfTheUser'
    BY <1>9 DEF AskLogin, LoginFails, socketVars, timerVars, loadVars, BrowserInv, TypeOK,
                NoSocketWithoutUser, SocketIsOfTheUser
  <2>2. /\ UNCHANGED sock
        /\ reconnects' + connectTimers' + loginLoads' - logins'
               <= reconnects + connectTimers + loginLoads - logins
    BY <1>9 DEF AskLogin, LoginFails, socketVars, timerVars, loadVars, BrowserInv, TypeOK
  <2> QED
    BY <2>1, <2>2, SocketsAlone DEF BrowserInv
<1>2. ASSUME Logout PROVE BrowserInv'
  <2>1. /\ TypeOK' /\ NoSocketWithoutUser' /\ SocketIsOfTheUser'
    BY <1>2 DEF Logout, Disconnect, loadVars, timerVars, BrowserInv, TypeOK,
                NoSocketWithoutUser, SocketIsOfTheUser
  <2>2. LiveSockets' \subseteq LiveSockets
    BY <1>2 DEF Logout, Disconnect, LiveSockets, Live, BrowserInv, TypeOK
  <2>3. reconnects' + connectTimers' + loginLoads' - logins'
            <= reconnects + connectTimers + loginLoads - logins
    BY <1>2 DEF Logout, loadVars, timerVars, BrowserInv, TypeOK
  <2> QED
    BY <2>1, <2>2, <2>3, NoNewSocket DEF BrowserInv
<1>3. ASSUME ClearAllData PROVE BrowserInv'
  <2>1. /\ TypeOK' /\ NoSocketWithoutUser' /\ SocketIsOfTheUser'
    BY <1>3 DEF ClearAllData, socketVars, loadVars, timerVars, BrowserInv, TypeOK,
                NoSocketWithoutUser, SocketIsOfTheUser
  <2>2. /\ UNCHANGED sock
        /\ reconnects' + connectTimers' + loginLoads' - logins'
               <= reconnects + connectTimers + loginLoads - logins
    BY <1>3 DEF ClearAllData, socketVars, loadVars, timerVars, BrowserInv, TypeOK
  <2> QED
    BY <2>1, <2>2, SocketsAlone DEF BrowserInv
<1>4. ASSUME LoadUserChats \/ ChatsLoaded \/ LoginLoaded PROVE BrowserInv'
  <2>1. /\ UNCHANGED <<asked, token, ws, sock, owner, joined, attempts, reconnects, logins,
                        left>>
        /\ userChats' \subseteq Chat /\ joinTimer' \in BOOLEAN
        /\ loads' \in 0 .. MaxLoads /\ loginLoads' \in Nat /\ connectTimers' \in Nat
    <3>1. CASE LoadUserChats
      BY <3>1 DEF LoadUserChats, socketVars, timerVars, BrowserInv, TypeOK
    <3>2. ASSUME ListArrives PROVE userChats' \subseteq Chat
      BY <3>2 DEF ListArrives
    <3>3. ASSUME ListArrives PROVE joinTimer' \in BOOLEAN
      BY <3>3, ZenonT(30) DEF ListArrives, BrowserInv, TypeOK
    <3>4. CASE ChatsLoaded
      BY <3>2, <3>3, <3>4 DEF ChatsLoaded, socketVars, BrowserInv, TypeOK
    <3>5. CASE LoginLoaded
      BY <3>2, <3>3, <3>5 DEF LoginLoaded, socketVars, BrowserInv, TypeOK
    <3> QED
      BY <1>4, <3>1, <3>4, <3>5
  <2>2. TypeOK' /\ NoSocketWithoutUser' /\ SocketIsOfTheUser'
    BY <2>1 DEF BrowserInv, TypeOK, NoSocketWithoutUser, SocketIsOfTheUser
  <2>3. /\ UNCHANGED sock
        /\ reconnects' + connectTimers' + loginLoads' - logins'
               <= reconnects + connectTimers + loginLoads - logins
    BY <1>4 DEF LoadUserChats, ChatsLoaded, LoginLoaded, socketVars, timerVars, BrowserInv,
                TypeOK
  <2> QED
    BY <2>2, <2>3, SocketsAlone DEF BrowserInv
<1>5. ASSUME ConnectTimer \/ ReconnectTimer PROVE BrowserInv'
  <2>1. Connect /\ UNCHANGED token
    BY <1>5 DEF ConnectTimer, ReconnectTimer
  <2>2. TypeOK' /\ NoSocketWithoutUser' /\ SocketIsOfTheUser' /\ IsFiniteSet(LiveSockets')
    BY <1>5, <2>1, ConnectEffect DEF ConnectTimer, ReconnectTimer, loadVars, BrowserInv, TypeOK
  <2>3. \A n \in Nat : n + reconnects + connectTimers + loginLoads <= logins =>
            \A k \in {n, n + 1} : k + reconnects' + connectTimers' + loginLoads' <= logins'
    BY <1>5 DEF ConnectTimer, ReconnectTimer, loadVars, BrowserInv, TypeOK
  <2>4. Cardinality(LiveSockets') + reconnects' + connectTimers' + loginLoads' <= logins'
    BY <2>1, <2>3, ConnectEffect, CountOfLive
  <2> QED
    BY <2>2, <2>4 DEF BrowserInv, OneConnectionPerLogin, LiveSockets
<1>6. ASSUME JoinAllChats \/ \E k \in Chat : SelectChat(k) PROVE BrowserInv'
  <2>1. /\ TypeOK' /\ NoSocketWithoutUser' /\ SocketIsOfTheUser'
    BY <1>6 DEF JoinAllChats, SelectChat, Connected, loadVars, timerVars, BrowserInv, TypeOK,
                NoSocketWithoutUser, SocketIsOfTheUser
  <2>2. /\ UNCHANGED sock
        /\ reconnects' + connectTimers' + loginLoads' - logins'
               <= reconnects + connectTimers + loginLoads - logins
    BY <1>6 DEF JoinAllChats, SelectChat, loadVars, timerVars, BrowserInv, TypeOK
  <2> QED
    BY <2>1, <2>2, SocketsAlone DEF BrowserInv
<1>7. ASSUME NEW s \in Socket, Opens(s) \/ Breaks(s) PROVE BrowserInv'
  <2>1. TypeOK' /\ NoSocketWithoutUser' /\ SocketIsOfTheUser'
    <3>1. CASE Opens(s)
      BY <3>1 DEF Opens, JoinSoon, loadVars, BrowserInv, TypeOK, NoSocketWithoutUser,
                  SocketIsOfTheUser
    <3>2. CASE Breaks(s)
      BY <3>2 DEF Breaks, loadVars, timerVars, BrowserInv, TypeOK, NoSocketWithoutUser,
                  SocketIsOfTheUser
    <3> QED
      BY <1>7, <3>1, <3>2
  <2>2. LiveSockets' \subseteq LiveSockets
    BY <1>7 DEF Opens, Breaks, LiveSockets, Live, BrowserInv, TypeOK
  <2>3. reconnects' + connectTimers' + loginLoads' - logins'
            <= reconnects + connectTimers + loginLoads - logins
    BY <1>7 DEF Opens, Breaks, loadVars, timerVars, BrowserInv, TypeOK
  <2> QED
    BY <2>1, <2>2, <2>3, NoNewSocket DEF BrowserInv
<1>8. ASSUME NEW s \in Socket, OnClose(s) PROVE BrowserInv'
  <2>1. /\ TypeOK' /\ NoSocketWithoutUser' /\ SocketIsOfTheUser'
    BY <1>8 DEF OnClose, ScheduleReconnect, loadVars, BrowserInv, TypeOK,
                NoSocketWithoutUser, SocketIsOfTheUser
  <2>2. LiveSockets' = LiveSockets \ {s} /\ s \in LiveSockets
    BY <1>8 DEF OnClose, LiveSockets, Live, BrowserInv, TypeOK
  <2>3. /\ IsFiniteSet(LiveSockets')
        /\ Cardinality(LiveSockets') = Cardinality(LiveSockets) - 1
    BY <2>2, OneLess DEF BrowserInv
  \* At most one timer of scheduleReconnect takes the place of the socket.
  <2>4. \A n \in Nat : n + reconnects + connectTimers + loginLoads <= logins =>
            (n - 1) + reconnects' + connectTimers' + loginLoads' <= logins'
    BY <1>8 DEF OnClose, ScheduleReconnect, loadVars, BrowserInv, TypeOK
  <2>5. Cardinality(LiveSockets') + reconnects' + connectTimers' + loginLoads' <= logins'
    BY <2>3, <2>4, CountOfLive
  <2> QED
    BY <2>1, <2>3, <2>5 DEF BrowserInv, OneConnectionPerLogin, LiveSockets
<1> QED
  BY <1>1, <1>2, <1>3, <1>4, <1>5, <1>6, <1>7, <1>8, <1>9 DEF Next

\* The invariant of a page: how many sockets are live or coming, whose the socket
\* it sends on is, and what the end of a session leaves behind, while any number of
\* logins, by any users, are under way at once.
THEOREM BrowserInvariant == Spec => []BrowserInv
<1>1. Init => BrowserInv
  <2> SUFFICES ASSUME Init PROVE BrowserInv
    OBVIOUS
  <2>1. TypeOK
    <3>1. /\ joinTimer \in BOOLEAN /\ left \in BOOLEAN
      BY Zenon DEF Init
    <3> QED
      BY <3>1, BrowserAssumption DEF Init, TypeOK
  <2>2. NoSocketWithoutUser /\ SocketIsOfTheUser
    BY DEF Init, NoSocketWithoutUser, SocketIsOfTheUser
  <2>3. LiveSockets = {}
    BY DEF Init, LiveSockets, Live
  <2>4. 0 + reconnects + connectTimers + loginLoads <= logins
    BY DEF Init
  <2> QED
    BY <2>1, <2>2, <2>3, <2>4, FS_EmptySet DEF BrowserInv, OneConnectionPerLogin, LiveSockets
<1>2. BrowserInv /\ UNCHANGED vars => BrowserInv'
  BY DEF vars, socketVars, timerVars, loadVars, BrowserInv, TypeOK, NoSocketWithoutUser,
         SocketIsOfTheUser, OneConnectionPerLogin, LiveSockets, Live
<1>3. BrowserInv /\ [Next]_vars => BrowserInv'
  BY <1>2, BrowserStep
<1> QED
  BY <1>1, <1>3, PTL DEF Spec

\* Every variable keeps its type; the attempts stay within maxReconnectAttempts.
THEOREM BrowserTypes == Spec => []TypeOK
<1>1. BrowserInv => TypeOK
  BY DEF BrowserInv
<1> QED
  BY <1>1, BrowserInvariant, PTL

\* After a disconnect, or a connection made with the token in place, the page sends
\* on a socket of the user who is logged in, whatever timers, close events and
\* lists are left from somebody else's session.  Between a login that replaces a
\* token and the next connection it may not, and the theorem does not say so.
THEOREM NoForeignSocket == Spec => []SocketIsOfTheUser
<1>1. BrowserInv => SocketIsOfTheUser
  BY DEF BrowserInv
<1> QED
  BY <1>1, BrowserInvariant, PTL

\* Timers, close events and awaited lists never make more than one connection
\* of a login.
THEOREM ConnectionsDoNotMultiply == Spec => []OneConnectionPerLogin
<1>1. BrowserInv => OneConnectionPerLogin
  BY DEF BrowserInv
<1> QED
  BY <1>1, BrowserInvariant, PTL
=============================================================================
