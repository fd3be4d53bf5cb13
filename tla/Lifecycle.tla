------------------------------ MODULE Lifecycle ------------------------------
(***************************************************************************)
(* The life of the process: main and NewContainer until the server         *)
(* listens, and Stop and Server.Shutdown after a signal, beside the        *)
(* goroutine of ListenAndServe and the requests that are being served.     *)
(*                                                                         *)
(* The main goroutine goes through the stages below in their order.  Any   *)
(* step that depends on something outside the process may fail.            *)
(***************************************************************************)
EXTENDS Naturals, FiniteSets

CONSTANTS
    Request,    \* requests that may arrive
    None,       \* the process has not ended
    MaxSignals  \* bound: signals sent to the process

ASSUME LifecycleAssumption ==
    /\ MaxSignals \in Nat
    /\ None \notin {"clean", "forced", "failed", "panic", "killed"}

VARIABLES
    main,         \* the stage of the main goroutine
    outcome,      \* how the process ended, or None
    repository,   \* Container.Repository, with its pool of connections
    redis,        \* Container.Redis
    hub,          \* Hub.Run has been started
    wsHub,        \* ChatService.wsHub is set
    notify,       \* signal.Notify has been called
    quit,         \* number of signals in the channel quit
    signals,      \* number of signals sent
    listener,     \* of Server
    shuttingDown, \* Container.isShuttingDown
    request,      \* how far each request has come
    missing       \* what requests did not find: pairs of request and thing

resources == <<repository, redis, hub, wsHub>>
signalVars == <<notify, quit, signals>>
requestVars == <<request, missing>>
vars == <<main, outcome, resources, signalVars, listener, shuttingDown, requestVars>>

Startup == {"config", "clients", "repository", "services", "hub", "setHub",
            "engine", "notify", "serve"}
Stopping == {"stop", "close", "shutdown", "poll", "waiting"}

\* Requests that Server.Shutdown waits for; it forgets a hijacked connection.
InHandler == {"accepted", "allowed", "stored"}

TypeOK ==
    /\ main \in Startup \cup {"wait"} \cup Stopping
    /\ outcome \in {None, "clean", "forced", "failed", "panic", "killed"}
    /\ repository \in {"none", "nil", "open", "closed"}
    /\ redis \in {"none", "open", "closed"}
    /\ hub \in BOOLEAN /\ wsHub \in BOOLEAN
    /\ notify \in BOOLEAN
    /\ quit \in 0 .. 1
    /\ signals \in 0 .. MaxSignals
    /\ listener \in {"none", "starting", "open", "closed"}
    /\ shuttingDown \in BOOLEAN
    /\ request \in [Request -> {"none", "socket", "answered"} \cup InHandler]
    /\ missing \subseteq Request \X {"database", "hub"}

Init ==
    /\ main = "config"
    /\ outcome = None
    /\ repository = "none"
    /\ redis = "none"
    /\ hub = FALSE /\ wsHub = FALSE
    /\ notify = FALSE
    /\ quit = 0
    /\ signals = 0
    /\ listener = "none"
    /\ shuttingDown = FALSE
    /\ request = [r \in Request |-> "none"]
    /\ missing = {}

Goes(from, to) ==
    /\ outcome = None
    /\ main = from
    /\ main' = to
    /\ UNCHANGED outcome

\* The process ends in this stage: log.Fatal, a panic, or the end of main.
Ends(from, how) ==
    /\ outcome = None
    /\ main = from
    /\ outcome' = how
    /\ UNCHANGED <<main, resources, signalVars, listener, shuttingDown, requestVars>>

-----------------------------------------------------------------------------
(* NewContainer.                                                           *)

LoadConfig ==
    \/ Ends("config", "failed")
    \/ /\ Goes("config", "clients")
       /\ UNCHANGED <<resources, signalVars, listener, shuttingDown, requestVars>>

\* The client of Redis connects when it is used.  Tracing that fails, or that
\* the configuration disables, is an error.
InitClients ==
    \/ Ends("clients", "failed")
    \/ /\ Goes("clients", "repository")
       /\ redis' = "open"
       /\ UNCHANGED <<repository, hub, wsHub, signalVars, listener, shuttingDown,
                      requestVars>>

\* A failure of Open or Ping is returned; after a failure to create a table the
\* adapter returns the error of Open, which is nil, with a nil adapter.
OpenRepository ==
    \/ Ends("repository", "failed")
    \/ /\ Goes("repository", "services")
       /\ repository' \in {"nil", "open"}
       /\ UNCHANGED <<redis, hub, wsHub, signalVars, listener, shuttingDown, requestVars>>

\* The services are given c.Repository.Chat and the others.
InitServices ==
    \/ repository = "nil" /\ Ends("services", "panic")
    \/ /\ repository # "nil"
       /\ Goes("services", "hub")
       /\ UNCHANGED <<resources, signalVars, listener, shuttingDown, requestVars>>

StartHub ==
    /\ Goes("hub", "setHub")
    /\ hub' = TRUE
    /\ UNCHANGED <<repository, redis, wsHub, signalVars, listener, shuttingDown,
                   requestVars>>

\* (Variant for the checks: the call is forgotten.)
ForgetSetWSHub ==
    /\ Goes("setHub", "engine")
    /\ UNCHANGED <<resources, signalVars, listener, shuttingDown, requestVars>>
SetWSHub ==
    /\ Goes("setHub", "engine")
    /\ wsHub' = TRUE
    /\ UNCHANGED <<repository, redis, hub, signalVars, listener, shuttingDown, requestVars>>

\* The handlers, the routes, the health routes; LoadHTMLGlob panics if there
\* are no templates.
InitEngine ==
    \/ Ends("engine", "panic")
    \/ /\ Goes("engine", "notify")
       /\ UNCHANGED <<resources, signalVars, listener, shuttingDown, requestVars>>

-----------------------------------------------------------------------------
(* main, the signals and the server.                                       *)

Notify ==
    /\ Goes("notify", "serve")
    /\ notify' = TRUE
    /\ UNCHANGED <<resources, quit, signals, listener, shuttingDown, requestVars>>

StartServer ==
    /\ Goes("serve", "wait")
    /\ listener' = "starting"
    /\ UNCHANGED <<resources, signalVars, shuttingDown, requestVars>>

\* The goroutine of ListenAndServe: after Shutdown it returns at once.
Listen ==
    /\ outcome = None
    /\ listener = "starting"
    /\ \/ listener' = "open" /\ UNCHANGED outcome
       \/ listener' = "closed" /\ outcome' = "failed"
    /\ UNCHANGED <<main, resources, signalVars, shuttingDown, requestVars>>

\* The channel holds one signal; others are dropped while it is there.  (Variant
\* for the checks: they all wait in it.)
AllQueued == quit + 1
Queued == 1

\* A signal ends the process until Notify has been called.
Signal ==
    /\ outcome = None
    /\ signals < MaxSignals
    /\ signals' = signals + 1
    /\ IF notify THEN quit' = Queued /\ UNCHANGED outcome
                 ELSE outcome' = "killed" /\ UNCHANGED quit
    /\ UNCHANGED <<main, resources, notify, listener, shuttingDown, requestVars>>

TakeSignal ==
    /\ quit > 0
    /\ Goes("wait", "stop")
    /\ quit' = quit - 1
    /\ UNCHANGED <<resources, notify, signals, listener, shuttingDown, requestVars>>

-----------------------------------------------------------------------------
(* Stop, which is Container.Close, and Server.Shutdown.                    *)

\* Only /ready reads the flag.
SetShuttingDown ==
    /\ Goes("stop", "close")
    /\ shuttingDown' = TRUE
    /\ UNCHANGED <<resources, signalVars, listener, requestVars>>

\* Close returns with the result of Redis.Close.  (Variant for the checks: it
\* goes on to close the repository.)
CloseAll ==
    /\ Goes("close", "shutdown")
    /\ redis' = "closed"
    /\ repository' = "closed"
    /\ UNCHANGED <<hub, wsHub, signalVars, listener, shuttingDown, requestVars>>
CloseResources ==
    /\ Goes("close", "shutdown")
    /\ redis' = "closed"
    /\ UNCHANGED <<repository, hub, wsHub, signalVars, listener, shuttingDown, requestVars>>

Shutdown ==
    /\ Goes("shutdown", "poll")
    /\ listener' = "closed"
    /\ UNCHANGED <<resources, signalVars, shuttingDown, requestVars>>

Idle == \A r \in Request : request[r] \notin InHandler

\* Shutdown looks whether the connections are idle, again and again.
Poll ==
    \/ Idle /\ (Ends("poll", "clean") \/ Ends("waiting", "clean"))
    \/ /\ ~ Idle
       /\ Goes("poll", "waiting")
       /\ UNCHANGED <<resources, signalVars, listener, shuttingDown, requestVars>>

\* The five seconds are over before it has seen that.  (Variant for the
\* checks: there is no timeout.)
NoDeadline == FALSE
Deadline == Ends("waiting", "forced")

-----------------------------------------------------------------------------
(* The requests.  Nothing obliges a handler to return.                     *)

Becomes(r, from, to) ==
    /\ outcome = None
    /\ request[r] = from
    /\ request' = [request EXCEPT ![r] = to]
    /\ UNCHANGED <<main, outcome, resources, signalVars, listener, shuttingDown>>

\* The request looks for something, and there is a record if it is not there.
Finds(r, thing, found) ==
    missing' = IF found THEN missing ELSE missing \cup {<<r, thing>>}

Accept(r) ==
    /\ listener = "open"
    /\ Becomes(r, "none", "accepted")
    /\ UNCHANGED missing

\* The routes without a token, which use the database alone.
Public(r) ==
    /\ Becomes(r, "accepted", "answered")
    /\ Finds(r, "database", repository = "open")

\* ValidateToken: any error of Redis refuses a good token, like a bad one, and
\* Redis may be out of reach at any time; a closed client only gives errors.
Authenticate(r) ==
    /\ \/ redis = "open" /\ Becomes(r, "accepted", "allowed")
       \/ Becomes(r, "accepted", "answered")
    /\ UNCHANGED missing

\* The statements of a handler.
Store(r) ==
    /\ Becomes(r, "allowed", "stored")
    /\ Finds(r, "database", repository = "open")

\* CreateChat and DeleteChat tell the members, if there is a hub, and answer.
TellMembers(r) ==
    /\ Becomes(r, "stored", "answered")
    /\ Finds(r, "hub", hub /\ wsHub)

\* HandleWebSocket takes the connection from the server; it registers with the
\* hub, and stays until it is lost.
Upgrade(r) ==
    /\ Becomes(r, "allowed", "socket")
    /\ Finds(r, "hub", hub)

SocketEnds(r) ==
    /\ Becomes(r, "socket", "answered")
    /\ UNCHANGED missing

Main ==
    \/ LoadConfig \/ InitClients \/ OpenRepository \/ InitServices \/ StartHub
    \/ SetWSHub \/ InitEngine \/ Notify \/ StartServer \/ TakeSignal
    \/ SetShuttingDown \/ CloseResources \/ Shutdown \/ Poll

Serve(r) ==
    \/ Accept(r) \/ Public(r) \/ Authenticate(r) \/ Store(r) \/ TellMembers(r)
    \/ Upgrade(r) \/ SocketEnds(r)

Next == Main \/ Deadline \/ Listen \/ Signal \/ \E r \in Request : Serve(r)

\* The main goroutine is scheduled, and time passes.
Fairness == WF_vars(Main) /\ WF_vars(Deadline)

Spec == Init /\ [][Next]_vars /\ Fairness

-----------------------------------------------------------------------------
\* No request, however early it arrives or however late it ends, is served
\* without the hub: CreateChat and DeleteChat skip their notices if wsHub is
\* nil, and a connection would wait for ever to be registered if Run did not
\* run.
RequestsFindTheHub == \A r \in Request : <<r, "hub">> \notin missing

\* No request finds the database closed, for Close never comes to that; Stop is
\* called while requests are served and others are still accepted.
RequestsFindTheDatabase == \A r \in Request : <<r, "database">> \notin missing

\* A signal that quit has received ends the process, whatever the handlers do
\* and even if the server never listened.
SignalEndsProcess == quit > 0 ~> (outcome # None)
=============================================================================
