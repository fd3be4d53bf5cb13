--------------------------- MODULE Lifecycle_proof ---------------------------
(***************************************************************************)
(* Proofs about Lifecycle, for any number of requests and signals.         *)
(***************************************************************************)
EXTENDS Lifecycle, TLAPS

\* The stages before the one in which the services are made.
Early == {"config", "clients", "repository"}

\* What main has done by each stage: there are an open repository, the hub and
\* the reference to it before anything is served; Redis is closed after the
\* flag is set, and the listener before the connections are awaited.
Stages ==
    /\ main \notin Early => repository \in {"nil", "open"}
    /\ main \notin Early \cup {"services"} => repository = "open"
    /\ main \notin Early \cup {"services", "hub"} => hub
    /\ main \notin Early \cup {"services", "hub", "setHub"} => wsHub
    /\ main \notin {"config", "clients"} => redis # "none"
    /\ redis = "closed" => main \in {"shutdown", "poll", "waiting"}
    /\ main \in {"close", "shutdown", "poll", "waiting"} => shuttingDown
    /\ listener # "none" => main \notin Startup
    /\ main \in {"poll", "waiting"} => listener = "closed"
    /\ \A r \in Request : request[r] # "none" => main \notin Startup

\* The two safety properties of Lifecycle together.
Served ==
    \A r \in Request : <<r, "hub">> \notin missing /\ <<r, "database">> \notin missing

LifecycleInv == TypeOK /\ Stages /\ Served

\* Every action preserves the invariant.
LEMMA LifecycleStep ==
    ASSUME LifecycleInv, Next
    PROVE  LifecycleInv'
<1>1. ASSUME LoadConfig PROVE LifecycleInv'
  BY <1>1, LifecycleAssumption
  DEF LoadConfig, Goes, Ends, LifecycleInv, TypeOK, Stages, Served, resources, signalVars,
      requestVars, Startup, Stopping, InHandler, Early
<1>2. ASSUME InitClients PROVE LifecycleInv'
  BY <1>2, LifecycleAssumption
  DEF InitClients, Goes, Ends, LifecycleInv, TypeOK, Stages, Served, resources, signalVars,
      requestVars, Startup, Stopping, InHandler, Early
<1>3. ASSUME OpenRepository PROVE LifecycleInv'
  BY <1>3, LifecycleAssumption
  DEF OpenRepository, Goes, Ends, LifecycleInv, TypeOK, Stages, Served, resources, signalVars,
      requestVars, Startup, Stopping, InHandler, Early
<1>4. ASSUME InitServices PROVE LifecycleInv'
  BY <1>4, LifecycleAssumption
  DEF InitServices, Goes, Ends, LifecycleInv, TypeOK, Stages, Served, resources, signalVars,
      requestVars, Startup, Stopping, InHandler, Early
<1>5. ASSUME StartHub PROVE LifecycleInv'
  BY <1>5, LifecycleAssumption
  DEF StartHub, Goes, LifecycleInv, TypeOK, Stages, Served, resources, signalVars,
      requestVars, Startup, Stopping, InHandler, Early
<1>6. ASSUME SetWSHub PROVE LifecycleInv'
  BY <1>6, LifecycleAssumption
  DEF SetWSHub, Goes, LifecycleInv, TypeOK, Stages, Served, resources, signalVars,
      requestVars, Startup, Stopping, InHandler, Early
<1>7. ASSUME InitEngine PROVE LifecycleInv'
  BY <1>7, LifecycleAssumption
  DEF InitEngine, Goes, Ends, LifecycleInv, TypeOK, Stages, Served, resources, signalVars,
      requestVars, Startup, Stopping, InHandler, Early
<1>8. ASSUME Notify PROVE LifecycleInv'
  BY <1>8, LifecycleAssumption
  DEF Notify, Goes, LifecycleInv, TypeOK, Stages, Served, resources, signalVars,
      requestVars, Startup, Stopping, InHandler, Early
<1>9. ASSUME StartServer PROVE LifecycleInv'
  BY <1>9, LifecycleAssumption
  DEF StartServer, Goes, LifecycleInv, TypeOK, Stages, Served, resources, signalVars,
      requestVars, Startup, Stopping, InHandler, Early
<1>10. ASSUME TakeSignal PROVE LifecycleInv'
  <2>1. quit' \in 0 .. 1
    BY <1>10 DEF TakeSignal, LifecycleInv, TypeOK
  <2> QED
    BY <1>10, <2>1, LifecycleAssumption
    DEF TakeSignal, Goes, LifecycleInv, TypeOK, Stages, Served, resources, requestVars,
        Startup, Stopping, InHandler, Early
<1>11. ASSUME SetShuttingDown PROVE LifecycleInv'
  BY <1>11, LifecycleAssumption
  DEF SetShuttingDown, Goes, LifecycleInv, TypeOK, Stages, Served, resources, signalVars,
      requestVars, Startup, Stopping, InHandler, Early
<1>12. ASSUME CloseResources PROVE LifecycleInv'
  BY <1>12, LifecycleAssumption
  DEF CloseResources, Goes, LifecycleInv, TypeOK, Stages, Served, resources, signalVars,
      requestVars, Startup, Stopping, InHandler, Early
<1>13. ASSUME Shutdown PROVE LifecycleInv'
  BY <1>13, LifecycleAssumption
  DEF Shutdown, Goes, LifecycleInv, TypeOK, Stages, Served, resources, signalVars,
      requestVars, Startup, Stopping, InHandler, Early
<1>14. ASSUME Poll PROVE LifecycleInv'
  BY <1>14, LifecycleAssumption
  DEF Poll, Goes, Ends, Idle, LifecycleInv, TypeOK, Stages, Served, resources, signalVars,
      requestVars, Startup, Stopping, InHandler, Early
<1>15. ASSUME Deadline PROVE LifecycleInv'
  BY <1>15, LifecycleAssumption
  DEF Deadline, Ends, LifecycleInv, TypeOK, Stages, Served, resources, signalVars,
      requestVars, Startup, Stopping, InHandler, Early
<1>16. ASSUME Listen PROVE LifecycleInv'
  BY <1>16, LifecycleAssumption
  DEF Listen, LifecycleInv, TypeOK, Stages, Served, resources, signalVars,
      requestVars, Startup, Stopping, InHandler, Early
<1>17. ASSUME Signal PROVE LifecycleInv'
  <2>1. TypeOK'
    <3>1. quit' \in 0 .. 1
      BY <1>17 DEF Signal, Queued, LifecycleInv, TypeOK
    <3>2. signals' \in 0 .. MaxSignals
      BY <1>17, LifecycleAssumption DEF Signal, Queued, LifecycleInv, TypeOK
    <3>3. outcome' \in {outcome, "killed"}
      BY <1>17 DEF Signal
    <3> QED
      BY <1>17, <3>1, <3>2, <3>3
      DEF Signal, Queued, LifecycleInv, TypeOK, resources, requestVars
  <2>2. Stages'
    BY <1>17, LifecycleAssumption
    DEF Signal, Queued, LifecycleInv, TypeOK, Stages, resources, signalVars, requestVars, Startup,
        Stopping, InHandler, Early
  <2>3. Served'
    BY <1>17, LifecycleAssumption
    DEF Signal, Queued, LifecycleInv, TypeOK, Stages, Served, resources, signalVars, requestVars,
        Startup, Stopping, InHandler, Early
  <2> QED
    BY <2>1, <2>2, <2>3 DEF LifecycleInv
<1>18. ASSUME NEW r \in Request, Accept(r) PROVE LifecycleInv'
  BY <1>18, LifecycleAssumption
  DEF Accept, Becomes, LifecycleInv, TypeOK, Stages, Served, resources, signalVars,
      requestVars, Startup, Stopping, InHandler, Early
<1>19. ASSUME NEW r \in Request, Public(r) PROVE LifecycleInv'
  BY <1>19, LifecycleAssumption
  DEF Public, Becomes, Finds, LifecycleInv, TypeOK, Stages, Served, resources, signalVars,
      requestVars, Startup, Stopping, InHandler, Early
<1>20. ASSUME NEW r \in Request, Authenticate(r) PROVE LifecycleInv'
  <2>1. TypeOK'
    BY <1>20, LifecycleAssumption
    DEF Authenticate, Becomes, Finds, LifecycleInv, TypeOK, Stages, resources, signalVars, requestVars, Startup,
        Stopping, InHandler
  <2>2. Stages'
    BY <1>20, LifecycleAssumption
    DEF Authenticate, Becomes, Finds, LifecycleInv, TypeOK, Stages, resources, signalVars, requestVars, Startup,
        Stopping, InHandler, Early
  <2>3. Served'
    BY <1>20, LifecycleAssumption
    DEF Authenticate, Becomes, Finds, LifecycleInv, TypeOK, Stages, Served, resources, signalVars, requestVars,
        Startup, Stopping, InHandler, Early
  <2> QED
    BY <2>1, <2>2, <2>3 DEF LifecycleInv
<1>21. ASSUME NEW r \in Request, Store(r) PROVE LifecycleInv'
  BY <1>21, LifecycleAssumption
  DEF Store, Becomes, Finds, LifecycleInv, TypeOK, Stages, Served, resources, signalVars,
      requestVars, Startup, Stopping, InHandler, Early
<1>22. ASSUME NEW r \in Request, TellMembers(r) PROVE LifecycleInv'
  BY <1>22, LifecycleAssumption
  DEF TellMembers, Becomes, Finds, LifecycleInv, TypeOK, Stages, Served, resources, signalVars,
      requestVars, Startup, Stopping, InHandler, Early
<1>23. ASSUME NEW r \in Request, Upgrade(r) PROVE LifecycleInv'
  BY <1>23, LifecycleAssumption
  DEF Upgrade, Becomes, Finds, LifecycleInv, TypeOK, Stages, Served, resources, signalVars,
      requestVars, Startup, Stopping, InHandler, Early
<1>24. ASSUME NEW r \in Request, SocketEnds(r) PROVE LifecycleInv'
  BY <1>24, LifecycleAssumption
  DEF SocketEnds, Becomes, LifecycleInv, TypeOK, Stages, Served, resources, signalVars,
      requestVars, Startup, Stopping, InHandler, Early
<1> QED
  BY <1>1, <1>2, <1>3, <1>4, <1>5, <1>6, <1>7, <1>8, <1>9, <1>10,
     <1>11, <1>12, <1>13, <1>14, <1>15, <1>16, <1>17, <1>18, <1>19,
     <1>20, <1>21, <1>22, <1>23, <1>24
  DEF Next, Main, Serve

\* LifecycleInv holds in every reachable state: each stage finds what the stages
\* before it have set up.
THEOREM LifecycleInvariant == Spec => []LifecycleInv
<1>1. Init => LifecycleInv
  <2> SUFFICES ASSUME Init PROVE LifecycleInv
    OBVIOUS
  <2>1. TypeOK
    <3>1. {hub, wsHub, notify, shuttingDown} \subseteq BOOLEAN
      BY DEF Init
    <3>2. /\ 0 \in 0 .. MaxSignals
          /\ request \in [Request -> {"none", "socket", "answered"} \cup InHandler]
          /\ missing \subseteq Request \X {"database", "hub"}
      BY LifecycleAssumption DEF Init
    <3> QED
      BY <3>1, <3>2 DEF Init, TypeOK, Startup
  <2>2. Stages
    BY DEF Init, Stages, Startup, Early
  <2>3. Served
    BY LifecycleAssumption DEF Init, Served, InHandler
  <2> QED
    BY <2>1, <2>2, <2>3 DEF LifecycleInv
<1>2. LifecycleInv /\ [Next]_vars => LifecycleInv'
  <2> SUFFICES ASSUME LifecycleInv, [Next]_vars PROVE LifecycleInv'
    OBVIOUS
  <2>1. CASE Next
    BY <2>1, LifecycleStep
  <2>2. CASE UNCHANGED vars
    <3>1. TypeOK' /\ Stages'
      BY <2>2 DEF LifecycleInv, TypeOK, Stages, vars, resources, signalVars, requestVars
    <3>2. Served'
      BY <2>2 DEF LifecycleInv, Served, vars, resources, signalVars, requestVars
    <3> QED
      BY <3>1, <3>2 DEF LifecycleInv
  <2> QED
    BY <2>1, <2>2
<1> QED
  BY <1>1, <1>2, PTL DEF Spec

\* Every variable keeps its type: main and every request stay in the stages that
\* the code has.
THEOREM LifecycleTypes == Spec => []TypeOK
<1>1. LifecycleInv => TypeOK
  BY DEF LifecycleInv
<1> QED
  BY <1>1, LifecycleInvariant, PTL

\* However early a request arrives and however late it ends, the hub is there.
THEOREM HubIsThere == Spec => []RequestsFindTheHub
<1>1. LifecycleInv => RequestsFindTheHub
  BY DEF LifecycleInv, Served, RequestsFindTheHub
<1> QED
  BY <1>1, LifecycleInvariant, PTL

\* No request finds the database closed.
THEOREM DatabaseIsThere == Spec => []RequestsFindTheDatabase
<1>1. LifecycleInv => RequestsFindTheDatabase
  BY DEF LifecycleInv, Served, RequestsFindTheDatabase
<1> QED
  BY <1>1, LifecycleInvariant, PTL
=============================================================================
