------------------------------- MODULE Browser -------------------------------
(***************************************************************************)
(* The page of the messenger, as far as its session and its connections    *)
(* go: login and logout, the list of chats, and WebSocketService with its  *)
(* timers.  JavaScript runs one callback at a time; between two callbacks  *)
(* anything may have happened, and timers of different kinds may fire in   *)
(* any order here.  What the server does to a connection is left open.     *)
(***************************************************************************)
EXTENDS Naturals, FiniteSets

CONSTANTS
    User,        \* users who log in with this page
    Chat,        \* chats that lists may contain
    Socket,      \* WebSocket objects; one that is closed can be used again
    None,        \* null
    MaxAttempts, \* maxReconnectAttempts, 5 in the code
    MaxLoads,    \* bound: requests for the list of chats under way
    MaxAsked,    \* bound: logins of one user that have not been answered
    MaxLogins    \* bound: logins answered

ASSUME BrowserAssumption ==
    /\ None \notin User \cup Socket
    /\ MaxAttempts \in Nat \ {0}
    /\ MaxLoads \in Nat
    /\ MaxAsked \in Nat
    /\ MaxLogins \in Nat

VARIABLES
    asked,         \* requests of login under way, by the user they are for
    token,         \* state.token: the user it belongs to, or None
    ws,            \* WebSocketService.ws
    sock,          \* the sockets; "closing": onclose has still to run
    owner,         \* the user with whose token a socket was opened
    joined,        \* chats for which join_chat was sent on a socket
    attempts,      \* reconnectAttempts
    reconnects,    \* timers of scheduleReconnect that have not fired
    connectTimers, \* timers of login that will call connect
    joinTimer,     \* a timer will call joinAllChats
    loads,         \* requests of loadUserChats under way
    loginLoads,    \* those that login waits for
    userChats,     \* state.userChats
    logins,        \* number of logins answered so far
    left           \* history: ws was there when its session ended, and it stayed

socketVars == <<ws, sock, owner, joined>>
timerVars == <<reconnects, connectTimers, joinTimer>>
loadVars == <<loads, loginLoads>>
vars == <<asked, token, socketVars, attempts, timerVars, loadVars, userChats, logins, left>>

TypeOK ==
    /\ asked \in [User -> 0 .. MaxAsked]
    /\ token \in User \cup {None}
    /\ ws \in Socket \cup {None}
    /\ sock \in [Socket -> {"none", "connecting", "open", "closing", "closed"}]
    /\ owner \in [Socket -> User \cup {None}]
    /\ joined \in [Socket -> SUBSET Chat]
    /\ attempts \in 0 .. MaxAttempts
    /\ reconnects \in Nat /\ connectTimers \in Nat
    /\ joinTimer \in BOOLEAN
    /\ loads \in 0 .. MaxLoads /\ loginLoads \in Nat
    /\ userChats \subseteq Chat
    /\ logins \in 0 .. MaxLogins
    /\ left \in BOOLEAN

Init ==
    /\ asked = [u \in User |-> 0]
    /\ token = None
    /\ ws = None
    /\ sock = [s \in Socket |-> "none"]
    /\ owner = [s \in Socket |-> None]
    /\ joined = [s \in Socket |-> {}]
    /\ attempts = 0
    /\ reconnects = 0 /\ connectTimers = 0
    /\ joinTimer = FALSE
    /\ loads = 0 /\ loginLoads = 0
    /\ userChats = {}
    /\ logins = 0
    /\ left = FALSE

Live(s) == sock[s] \in {"connecting", "open", "closing"}
Connected == ws # None /\ sock[ws] = "open"

-----------------------------------------------------------------------------
(* The session.                                                            *)

\* The form is sent.  It is there as long as nobody is logged in, also while
\* earlier requests are under way.
AskLogin(u) ==
    /\ token = None
    /\ asked[u] < MaxAsked /\ logins < MaxLogins
    /\ asked' = [asked EXCEPT ![u] = @ + 1]
    /\ UNCHANGED <<token, socketVars, attempts, timerVars, loadVars, userChats, logins, left>>

LoginFails(u) ==
    /\ asked[u] > 0
    /\ asked' = [asked EXCEPT ![u] = @ - 1]
    /\ UNCHANGED <<token, socketVars, attempts, timerVars, loadVars, userChats, logins, left>>

\* The answer of /auth/login; login goes on to wait for the list of chats.  The
\* token may replace that of another answer, and nothing is disconnected.
Login(u) ==
    /\ asked[u] > 0
    /\ logins < MaxLogins
    /\ asked' = [asked EXCEPT ![u] = @ - 1]
    /\ token' = u
    /\ left' = (left \/ (token # None /\ ws # None))
    /\ logins' = logins + 1
    /\ loginLoads' = loginLoads + 1
    /\ UNCHANGED <<socketVars, attempts, timerVars, loads, userChats>>

\* disconnect: onclose of the socket will run all the same.  (Variant for the
\* checks: the socket is not forgotten.)
CloseOnly ==
    /\ sock' = IF ws # None /\ Live(ws) THEN [sock EXCEPT ![ws] = "closing"] ELSE sock
    /\ UNCHANGED <<ws, owner, joined>>
Disconnect ==
    /\ sock' = IF ws = None THEN sock
               ELSE [sock EXCEPT ![ws] = IF Live(ws) THEN "closing" ELSE "none"]
    /\ ws' = None
    /\ UNCHANGED <<owner, joined>>

Logout ==
    /\ token # None
    /\ Disconnect
    /\ token' = None
    /\ left' = FALSE
    /\ userChats' = {}
    /\ UNCHANGED <<asked, attempts, timerVars, loadVars, logins>>

\* The settings also end a session, without disconnect.
ClearAllData ==
    /\ token # None
    /\ token' = None
    /\ userChats' = {}
    /\ left' = (ws # None)
    /\ UNCHANGED <<asked, socketVars, attempts, timerVars, loadVars, logins>>

-----------------------------------------------------------------------------
(* The list of chats.                                                      *)

\* The user creates a chat or fails to delete one, or a notification has
\* arrived on any socket; without a token the list is emptied.  (A deletion that
\* succeeds leaves the list alone: it compares the id with a text.)
LoadUserChats ==
    /\ token # None \/ \E s \in Socket : sock[s] = "open"
    /\ IF token # None
       THEN loads < MaxLoads /\ loads' = loads + 1 /\ UNCHANGED userChats
       ELSE userChats' = {} /\ UNCHANGED loads
    /\ UNCHANGED <<asked, token, socketVars, attempts, timerVars, loginLoads, logins, left>>

\* A list arrives, whoever is logged in by now, or the request fails.
ListArrives ==
    \/ userChats' \in SUBSET Chat /\ joinTimer' = TRUE
    \/ userChats' = {} /\ UNCHANGED joinTimer

ChatsLoaded ==
    /\ loads > 0
    /\ loads' = loads - 1
    /\ ListArrives
    /\ UNCHANGED <<asked, token, socketVars, attempts, reconnects, connectTimers, loginLoads,
                   logins, left>>

\* login then sets the timer that connects.
LoginLoaded ==
    /\ loginLoads > 0
    /\ loginLoads' = loginLoads - 1
    /\ ListArrives
    /\ connectTimers' = connectTimers + 1
    /\ UNCHANGED <<asked, token, socketVars, attempts, reconnects, loads, logins, left>>

-----------------------------------------------------------------------------
(* WebSocketService.                                                       *)

\* connect gives up without a token; otherwise the new socket takes the place
\* of the old one, whatever that is doing.
Connect ==
    IF token = None THEN UNCHANGED <<socketVars, left>>
    ELSE \E s \in Socket :
            /\ sock[s] = "none"
            /\ ws' = s
            /\ sock' = [x \in Socket |-> IF x = s THEN "connecting"
                                         ELSE IF sock[x] = "closed" THEN "none"
                                         ELSE sock[x]]
            /\ owner' = [owner EXCEPT ![s] = token]
            /\ joined' = [joined EXCEPT ![s] = {}]
            /\ left' = FALSE

ConnectTimer ==
    /\ connectTimers > 0
    /\ connectTimers' = connectTimers - 1
    /\ Connect
    /\ UNCHANGED <<asked, token, attempts, reconnects, joinTimer, loadVars, userChats, logins>>

ReconnectTimer ==
    /\ reconnects > 0
    /\ reconnects' = reconnects - 1
    /\ Connect
    /\ UNCHANGED <<asked, token, attempts, connectTimers, joinTimer, loadVars, userChats, logins>>

\* onopen.  (Variant for the checks: nothing is joined.)
JoinNothing == UNCHANGED joinTimer
JoinSoon == joinTimer' = TRUE

Opens(s) ==
    /\ sock[s] = "connecting"
    /\ sock' = [sock EXCEPT ![s] = "open"]
    /\ attempts' = 0
    /\ JoinSoon
    /\ UNCHANGED <<asked, token, ws, owner, joined, reconnects, connectTimers, loadVars,
                   userChats, logins, left>>

\* The server refuses, ends or loses the connection.
Breaks(s) ==
    /\ sock[s] \in {"connecting", "open"}
    /\ sock' = [sock EXCEPT ![s] = "closing"]
    /\ UNCHANGED <<asked, token, ws, owner, joined, attempts, timerVars, loadVars, userChats,
                   logins, left>>

\* scheduleReconnect.  (Variants for the checks: one attempt too many; a second
\* timer, from onerror; no timer.)
ScheduleOneMore ==
    IF attempts <= MaxAttempts
    THEN attempts' = attempts + 1 /\ reconnects' = reconnects + 1
    ELSE UNCHANGED <<attempts, reconnects>>
ScheduleTwice ==
    IF attempts < MaxAttempts
    THEN attempts' = attempts + 1 /\ reconnects' = reconnects + 2
    ELSE UNCHANGED <<attempts, reconnects>>
ScheduleNothing == UNCHANGED <<attempts, reconnects>>
ScheduleReconnect ==
    IF attempts < MaxAttempts
    THEN attempts' = attempts + 1 /\ reconnects' = reconnects + 1
    ELSE UNCHANGED <<attempts, reconnects>>

\* onclose, of whichever socket.
OnClose(s) ==
    /\ sock[s] = "closing"
    /\ sock' = [sock EXCEPT ![s] = IF ws = s THEN "closed" ELSE "none"]
    /\ ScheduleReconnect
    /\ UNCHANGED <<asked, token, ws, owner, joined, connectTimers, joinTimer, loadVars,
                   userChats, logins, left>>

\* joinAllChats tries again in a second until the socket is open.  There may be
\* several timers: one may remain.
JoinAllChats ==
    /\ joinTimer
    /\ Connected
    /\ joined' = [joined EXCEPT ![ws] = @ \cup userChats]
    /\ joinTimer' \in BOOLEAN
    /\ UNCHANGED <<asked, token, ws, sock, owner, attempts, reconnects, connectTimers, loadVars,
                   userChats, logins, left>>

\* joinChat for the chat that the user opens.
SelectChat(k) ==
    /\ token # None
    /\ k \in userChats
    /\ Connected
    /\ joined' = [joined EXCEPT ![ws] = @ \cup {k}]
    /\ UNCHANGED <<asked, token, ws, sock, owner, attempts, timerVars, loadVars, userChats,
                   logins, left>>

Next ==
    \/ \E u \in User : AskLogin(u) \/ LoginFails(u) \/ Login(u)
    \/ Logout \/ ClearAllData
    \/ LoadUserChats \/ ChatsLoaded \/ LoginLoaded
    \/ ConnectTimer \/ ReconnectTimer \/ JoinAllChats
    \/ \E k \in Chat : SelectChat(k)
    \/ \E s \in Socket : Opens(s) \/ Breaks(s) \/ OnClose(s)

\* Timers fire, requests end, a connection opens or fails, events are delivered.
Fairness ==
    /\ WF_vars(ConnectTimer)
    /\ WF_vars(ReconnectTimer)
    /\ WF_vars(JoinAllChats)
    /\ WF_vars(ChatsLoaded)
    /\ WF_vars(LoginLoaded)
    /\ \A s \in Socket : /\ WF_vars(OnClose(s))
                         /\ WF_vars(sock[s] = "connecting" /\ (Opens(s) \/ Breaks(s)))

Spec == Init /\ [][Next]_vars /\ Fairness

-----------------------------------------------------------------------------
\* The socket the page sends on was opened with the token of the user who is
\* logged in: a timer or a close event left from an earlier session does not
\* bring back its socket.  Two things leave the socket of another user in place,
\* until the page logs out or connects again: clearAllData, and the answer of a
\* second login that was sent before the first was answered.
SocketIsOfTheUser ==
    (token # None /\ ws # None /\ ~ left) => owner[ws] = token

\* Of each login comes one connection at most, replaced only when it is lost:
\* the timers, the close events and the lists that are awaited never multiply.
\* After a logout within the delay of a reconnection there may be two, though.
OneConnectionPerLogin ==
    Cardinality({s \in Socket : Live(s)}) + reconnects + connectTimers + loginLoads
        <= logins

\* A page that stays logged in gets a connection, and gets it back, until
\* MaxAttempts attempts in a row have failed.  It need not be the socket that it
\* sends on, nor one of this session: a connection that is left from an earlier
\* login counts here, for it resets the attempts and starts them like any other.
GetsConnected ==
    token # None ~> \/ token = None
                    \/ \E s \in Socket : sock[s] = "open"
                    \/ attempts = MaxAttempts

\* On a connection that lasts, every chat that stays in the list is joined,
\* whether the list or the connection was there first, and again after a loss.
ListedChatsAreJoined ==
    \A s \in Socket, k \in Chat :
        LET Listed == ws = s /\ sock[s] = "open" /\ k \in userChats
        IN Listed ~> (k \in joined[s] \/ ~ Listed)
=============================================================================
