---------------------------- MODULE GoClientProofs ----------------------------
(***************************************************************************)
(* Theorems about the two Go clients: the safety invariants of             *)
(* ClientLifecycle, for any number of engines and any set of monitors, and *)
(* KeyKept and UpWorks of MiniClient, for any number of processes and      *)
(* keys.  The two are separate programs and their specifications share no  *)
(* variable.                                                               *)
(***************************************************************************)
EXTENDS ClientLifecycle, MiniClient, TLAPS

-----------------------------------------------------------------------------
(* The connect loop: where it is, and what exists then.                    *)


\* The operation has not made its engine yet, or is over.
NoEngineAt  == {"op", "dial", "key", "login", "signal", "config", "exit"}
\* The engine is in c.engine: until OperationWakes takes it out.
EngineAt    == {"start", "setup", "dns", "routes", "create", "firewall", "up",
                "waitStream", "started", "running"}
\* The interface is there: from wgInterfaceCreate until StopLocks closes it.
InterfaceAt == {"firewall", "up", "waitStream", "started", "running", "stop"}

Current        == loop \notin NoEngineAt => gen # 0
Held           == loop \in EngineAt => cEngine = gen
InterfaceOwned == \A g \in wg : g = gen /\ loop \in InterfaceAt
\* Engines are cancelled before the operation that made them is over.
OldCancelled   == \A g \in Gens :
                    g < gen \/ (g = gen /\ loop \in NoEngineAt) => g \in cancelled
\* Only engines that were made have monitors.
MonitorsMade   == \A g \in Gens, m \in Monitors : mon[g][m] # "none" => g <= gen

IInv ==
  /\ TypeOK
  /\ Current
  /\ Held
  /\ InterfaceOwned
  /\ OldCancelled
  /\ MonitorsMade
  /\ ExitSettles

-----------------------------------------------------------------------------
(* The connect loop.                                                       *)

\* Steps before there is an engine, and the end of an operation that failed
\* there.
LEMMA EarlyStep ==
  ASSUME IInv,
         \/ Operation \/ OperationCancelled
         \/ NewMgmClient \/ GetServerPublicKey \/ login \/ connectToSignal
         \/ DialFails \/ KeyFails \/ LoginFails \/ SignalFails \/ createEngineConfigFails
         \/ LoginDenied \/ NewEngine
  PROVE  IInv'
<1> USE MaxEnginesAssumption
    DEF IInv, TypeOK, Current, Held, InterfaceOwned, OldCancelled, MonitorsMade,
        ExitSettles, NoEngineAt, EngineAt, InterfaceAt, Gens, Statuses, Errors, LoopAt,
        Set, Wrap, Go, engine, rules
<1>1. CASE Operation
  BY <1>1 DEF Operation
<1>2. CASE OperationCancelled
  BY <1>2 DEF OperationCancelled, Exited
<1>3. CASE NewMgmClient \/ GetServerPublicKey \/ login \/ connectToSignal
  <2>1. loop \in NoEngineAt /\ loop' \in NoEngineAt \ {"exit"} /\ OnlyLoop
    BY <1>3 DEF NewMgmClient, GetServerPublicKey, login, connectToSignal
  <2> QED BY <2>1 DEF OnlyLoop
<1>4. CASE DialFails \/ KeyFails \/ LoginFails \/ SignalFails \/ createEngineConfigFails
  BY <1>4 DEF DialFails, KeyFails, LoginFails, SignalFails, createEngineConfigFails,
              OperationFails
<1>5. CASE LoginDenied
  <2>1. routing' \in BOOLEAN /\ refused' \in BOOLEAN
    BY <1>5, Zenon DEF LoginDenied, CleanupRouting
  <2>2. /\ loop = "login" /\ loop' = "exit" /\ state' = Set("NeedsLogin")
        /\ stopped' \subseteq Gens
        /\ UNCHANGED <<gen, cEngine, userDone, crashed, cancelled, mux, wg, routeMgr, recv,
                       worker, mon>>
    BY <1>5 DEF LoginDenied
  <2> QED BY <2>1, <2>2
<1>6. CASE NewEngine
  BY <1>6 DEF NewEngine
<1> QED BY <1>1, <1>2, <1>3, <1>4, <1>5, <1>6

\* Engine.Start.
LEMMA StartStep ==
  ASSUME IInv,
         \/ StartLocks \/ newWgIface \/ newDnsServer \/ InitRoutes \/ wgInterfaceCreate
         \/ createFirewall \/ StartSetsUp \/ StartReturns \/ SetConnected
         \/ \E at \in {"setup", "dns", "create", "firewall", "up"} : StartFails(at)
  PROVE  IInv'
<1> USE MaxEnginesAssumption
    DEF IInv, TypeOK, Current, Held, InterfaceOwned, OldCancelled, MonitorsMade,
        ExitSettles, NoEngineAt, EngineAt, InterfaceAt, Gens, Statuses, Errors, LoopAt,
        Set, Wrap, Go, engine, rules
<1>1. CASE StartLocks
  BY <1>1 DEF StartLocks, Take, Holders
<1>2. CASE newWgIface \/ newDnsServer \/ createFirewall
  BY <1>2 DEF newWgIface, newDnsServer, createFirewall, OnlyLoop
<1>3. CASE InitRoutes
  <2>1. routing' \in BOOLEAN /\ refused' \in BOOLEAN
    BY <1>3, Zenon DEF InitRoutes
  <2>2. /\ loop = "routes" /\ loop' = "create" /\ routeMgr' = routeMgr \cup {gen} /\ gen \in Gens
        /\ UNCHANGED <<gen, cEngine, userDone, state, crashed, cancelled, stopped, mux, wg, recv,
                       worker, mon>>
    BY <1>3 DEF InitRoutes
  <2> QED BY <2>1, <2>2
<1>4. CASE wgInterfaceCreate
  BY <1>4 DEF wgInterfaceCreate
<1>5. CASE StartSetsUp
  BY <1>5 DEF StartSetsUp, Receivers, RecvAt
<1>6. CASE StartReturns
  BY <1>6 DEF StartReturns, Drop, Holders, Receivers, RecvAt, MonAt
<1>7. CASE SetConnected
  BY <1>7 DEF SetConnected
<1>8. ASSUME NEW at \in {"setup", "dns", "create", "firewall", "up"}, StartFails(at)
      PROVE  IInv'
  <2>1. /\ loop = at /\ loop' = "op" /\ gen # 0
        /\ state' = Wrap("other")
        /\ cancelled' = cancelled \cup {gen}
        /\ wg' = wg \ {gen}
        /\ mux' \in [Gens -> Holders]
        /\ UNCHANGED <<gen, cEngine, userDone, rules, crashed, stopped, routeMgr,
                       recv, worker, mon>>
    BY <1>8 DEF StartFails, closeInterface, Drop, Holders
  <2>2. loop \in EngineAt /\ cEngine = gen
    BY <2>1
  <2>a. state' \in [status : Statuses, err : Errors]
    BY <2>1
  <2>b. cancelled' \subseteq Gens /\ wg' \subseteq Gens /\ loop' \in LoopAt
    BY <2>1
  <2>c. UNCHANGED <<routing, refused>>
    BY <2>1
  <2>3. TypeOK'
    BY <2>1, <2>a, <2>b, <2>c, Zenon
  <2> QED BY <2>1, <2>2, <2>3
<1> QED BY <1>1, <1>2, <1>3, <1>4, <1>5, <1>6, <1>7, <1>8

\* The operation wakes, stops the engine, and returns.
LEMMA StopStep ==
  ASSUME IInv,
         OperationWakes \/ StopLocks \/ StopReturns \/ OperationReturns
  PROVE  IInv'
<1> USE MaxEnginesAssumption
    DEF IInv, TypeOK, Current, Held, InterfaceOwned, OldCancelled, MonitorsMade,
        ExitSettles, NoEngineAt, EngineAt, InterfaceAt, Gens, Statuses, Errors, LoopAt,
        Set, Wrap, Go, engine, rules
<1>1. CASE OperationWakes
  BY <1>1 DEF OperationWakes
<1>2. CASE StopLocks
  <2>1. mux' \in [Gens -> Holders]
    BY <1>2 DEF StopLocks, Take, Holders
  <2>2. /\ loop = "stop" /\ loop' = "stopWait"
        /\ gen \in Gens /\ stopped' = stopped \cup {gen}
        /\ wg' = wg \ {gen}
        /\ CleanupRouting
        /\ UNCHANGED <<gen, cEngine, userDone, state, crashed, cancelled, recv, worker,
                       mon, routeMgr>>
    BY <1>2 DEF StopLocks, closeInterface
  <2>3. TypeOK'
    BY <2>1, <2>2 DEF CleanupRouting
  <2> QED BY <2>2, <2>3
<1>3. CASE StopReturns
  BY <1>3 DEF StopReturns, Drop, Holders
<1>4. CASE OperationReturns
  BY <1>4 DEF OperationReturns, Exited, WorkerAt
<1> QED BY <1>1, <1>2, <1>3, <1>4

\* All steps of the connect loop.
LEMMA LoopStep == IInv /\ (LoopSteps \/ StreamSeen) => IInv'
  BY EarlyStep, StartStep, StopStep
  DEF LoopSteps, newWgIfaceFails, newDnsServerFails, wgInterfaceCreateFails,
      initFirewallFails, UpFails, WaitCancelled, StreamSeen, StopDrained, StopTimesOut

-----------------------------------------------------------------------------
(* The goroutines of an engine.                                            *)

\* The receivers, the updates they handle and the server's side of their
\* streams: they touch the mutex and the state, never the interface.
LEMMA ReceiverStep ==
  ASSUME IInv, NEW g \in Gens, NEW r \in Receivers,
         \/ ServerSteps(g, r) \/ ReceiverSteps(g, r)
         \/ HandlerSteps(g) \/ UpdateArrives(g)
  PROVE  IInv'
<1> USE MaxEnginesAssumption
    DEF IInv, TypeOK, Current, Held, InterfaceOwned, OldCancelled, MonitorsMade,
        ExitSettles, NoEngineAt, Gens, Receivers, Statuses, Errors, RecvAt, At, OnlyRecv, rules
<1>1. CASE StreamOpens(g, r)
  BY <1>1 DEF StreamOpens, WorkerAt
<1>2. CASE StreamBreaks(g, r) \/ ServerCancels(g, r) \/ GivesUp(g, r) \/ ReceiverCancelled(g, r)
  <2>1. (\E to \in RecvAt : recv' = [recv EXCEPT ![g][r] = to]) /\ OnlyRecv
    BY <1>2 DEF StreamBreaks, ServerCancels, GivesUp, ReceiverCancelled
  <2>2. recv' \in [Gens -> [Receivers -> RecvAt]]
    BY <2>1
  <2> QED BY <2>1, <2>2
<1>3. CASE UpdateArrives(g)
  BY <1>3 DEF UpdateArrives
<1>4. CASE HandlerSteps(g)
  <2>1. mux' \in [Gens -> Holders]
    BY <1>4 DEF HandlerSteps, UpdateLocks, UpdateHandled, Take, Drop, Holders
  <2>2. \E to \in RecvAt : recv' = [recv EXCEPT ![g]["mgmt"] = to]
    BY <1>4 DEF HandlerSteps, UpdateLocks, UpdateHandled
  <2>3. recv' \in [Gens -> [Receivers -> RecvAt]]
    BY <2>2
  <2>4. UNCHANGED <<loop, gen, cEngine, userDone, state, rules, crashed,
                    cancelled, stopped, wg, routeMgr, worker, mon>>
    BY <1>4 DEF HandlerSteps, UpdateLocks, UpdateHandled
  <2> QED BY <2>1, <2>3, <2>4
<1>5. CASE ReceiverWraps(g, r)
  BY <1>5 DEF ReceiverWraps, Wrap
<1>6. CASE ReceiverCancels(g, r)
  BY <1>6 DEF ReceiverCancels
<1> QED BY <1>1, <1>2, <1>3, <1>4, <1>5, <1>6 DEF ServerSteps, ReceiverSteps

\* The worker that handles signal messages changes only where it is.
LEMMA WorkerStep ==
  ASSUME IInv, NEW g \in Gens, MessageArrives(g) \/ MessageHandled(g)
  PROVE  IInv'
<1>1. worker' \in [Gens -> WorkerAt]
  BY DEF IInv, TypeOK, WorkerAt, MessageArrives, MessageHandled
<1>2. UNCHANGED <<loop, gen, cEngine, userDone, state, rules, crashed,
                  cancelled, stopped, mux, wg, routeMgr, recv, mon>>
  BY DEF MessageArrives, MessageHandled
<1> QED BY <1>1, <1>2 DEF IInv, TypeOK, Current, Held, InterfaceOwned, OldCancelled,
                          MonitorsMade, ExitSettles, rules

\* triggerClientRestart of an engine that outlived the client finds e.ctx done.
LEMMA MonitorStep ==
  ASSUME IInv, NEW g \in Gens, NEW m \in Monitors,
         ChangeSeen(g, m) \/ MonitorSteps(g, m)
  PROVE  IInv'
<1> USE MaxEnginesAssumption, MonitorsAssumption
    DEF IInv, TypeOK, Current, Held, InterfaceOwned, OldCancelled, MonitorsMade,
        ExitSettles, NoEngineAt, Gens, Statuses, Errors, MonAt, MonAtTo, OnlyMon, rules
<1>1. CASE ChangeSeen(g, m) \/ MonitorCancelled(g, m) \/ RestartIgnored(g, m)
  <2>1. /\ mon[g][m] # "none"
        /\ \E to \in MonAt : mon' = [mon EXCEPT ![g][m] = to]
        /\ OnlyMon
    BY <1>1 DEF ChangeSeen, MonitorCancelled, RestartIgnored
  <2>2. mon' \in [Gens -> [Monitors -> MonAt]]
    BY <2>1
  <2>3. MonitorsMade'
    BY <2>1
  <2> QED BY <2>1, <2>2, <2>3
<1>2. CASE MonitorStarts(g, m)
  BY <1>2 DEF MonitorStarts
<1>3. CASE RestartWraps(g, m)
  <2>1. loop # "exit"
    BY <1>3 DEF RestartWraps, EDone, Done
  <2> QED BY <1>3, <2>1 DEF RestartWraps, Take, Holders
<1>4. CASE RestartCancels(g, m)
  BY <1>4 DEF RestartCancels, Drop, Holders
<1> QED BY <1>1, <1>2, <1>3, <1>4 DEF MonitorSteps

-----------------------------------------------------------------------------
(* The inductive invariant, and what it implies.                           *)

\* A client that has just been created satisfies the invariant.
LEMMA InitIInv == Init => IInv
<1> SUFFICES ASSUME Init PROVE IInv
  OBVIOUS
<1>1. TypeOK
  <2>1. state \in [status : Statuses, err : Errors]
    BY DEF Init, Set, Statuses, Errors
  <2>2. /\ mux \in [Gens -> Holders]
        /\ worker \in [Gens -> WorkerAt]
        /\ recv \in [Gens -> [Receivers -> RecvAt]]
        /\ mon \in [Gens -> [Monitors -> MonAt]]
    BY DEF Init, Holders, WorkerAt, RecvAt, MonAt
  <2>3. loop \in LoopAt /\ gen \in 0..MaxEngines /\ cEngine \in 0..MaxEngines
    BY MaxEnginesAssumption DEF Init, LoopAt
  <2> QED BY <2>1, <2>2, <2>3 DEF Init, TypeOK
<1>2. Current /\ Held /\ InterfaceOwned /\ OldCancelled /\ MonitorsMade
  BY MaxEnginesAssumption
  DEF Init, Current, Held, InterfaceOwned, OldCancelled, MonitorsMade, NoEngineAt, EngineAt, Gens
<1> QED BY <1>1, <1>2 DEF Init, IInv, ExitSettles

\* Every step of the loop, of a user or of a goroutine keeps the invariant.
LEMMA NextIInv == IInv /\ [Next]_vars => IInv'
<1> SUFFICES ASSUME IInv, [Next]_vars PROVE IInv'
  OBVIOUS
<1>1. CASE UNCHANGED vars
  BY <1>1 DEF vars, engine, IInv, TypeOK, Current, Held, InterfaceOwned, OldCancelled,
              MonitorsMade, ExitSettles, rules
<1>2. CASE UserCancels
  BY <1>2 DEF UserCancels, engine, IInv, TypeOK, Current, Held, InterfaceOwned, OldCancelled,
              MonitorsMade, ExitSettles, rules
<1>3. CASE LoopSteps \/ StreamSeen
  BY <1>3, LoopStep
<1>4. ASSUME NEW g \in Gens,
             \/ HandlerSteps(g) \/ UpdateArrives(g) \/ MessageArrives(g) \/ MessageHandled(g)
             \/ \E r \in Receivers : ServerSteps(g, r) \/ ReceiverSteps(g, r)
             \/ \E m \in Monitors : ChangeSeen(g, m) \/ MonitorSteps(g, m)
      PROVE  IInv'
  <2>1. "mgmt" \in Receivers
    BY DEF Receivers
  <2> QED BY <1>4, <2>1, ReceiverStep, WorkerStep, MonitorStep
<1> QED BY <1>1, <1>2, <1>3, <1>4 DEF Next

\* The invariant holds in every reachable state.
LEMMA Invariance == Spec => []IInv
  BY InitIInv, NextIInv, PTL DEF Spec

\* The loop and the goroutines keep the types: in particular only engines that
\* were made are cancelled, stopped or locked.
THEOREM TypeCorrect == Spec => []TypeOK
<1>1. IInv => TypeOK
  BY DEF IInv
<1> QED BY <1>1, Invariance, PTL

\* However many engines a run makes, no two of them have an interface: Start
\* closes what it made when it fails, and Stop before the operation returns.
THEOREM OneInterfaceAlways == Spec => []OneInterface
<1>1. IInv => OneInterface
  BY DEF IInv, InterfaceOwned, OneInterface
<1> QED BY <1>1, Invariance, PTL

-----------------------------------------------------------------------------
(* The routing rules: who owns them.                                       *)

\* Only engines that were made are in c.engine, have called Init or were stopped.
Made    == cEngine <= gen /\ \A g \in routeMgr \cup stopped : g <= gen
\* The current engine is not stopped before the loop stops it.
Unstopped == loop \in EngineAt \cup {"stop"} => gen \notin stopped
\* From Init on the current engine has a route manager.
Managed == \A g \in Gens : Serving(g) => g \in routeMgr
\* No receiver runs before Start gets to it.
Quiet   == \A g \in Gens :
             g > gen \/ (g = gen /\ loop \in {"start", "setup", "dns", "routes", "create",
                                              "firewall", "up"})
               => recv[g]["signal"] = "none"

RInv == IInv /\ Made /\ Unstopped /\ Managed /\ Quiet /\ RoutingOwned

\* What a step that touches neither the rules nor an engine's Init or Stop may
\* do: an engine that served still does, or has failed to start.
LEMMA RulesKept ==
  ASSUME RInv, UNCHANGED <<routing, refused, routeMgr, stopped>>,
         \A g \in Gens : Serving(g) => Serving(g)' \/ StartFailed(g)',
         \A g \in Gens : StartFailed(g) => StartFailed(g)'
  PROVE  RoutingOwned'
<1>1. ASSUME NEW g \in Gens, OwnsRules(g)
      PROVE  OwnsRules(g)'
  BY <1>1 DEF OwnsRules
<1> QED BY <1>1 DEF RInv, RoutingOwned

\* Steps of the loop that touch neither the rules nor the receivers, and leave
\* the current engine where it was or take one that is not serving further.
LEMMA LoopKeepsRules ==
  ASSUME RInv, IInv', UNCHANGED <<gen, rules, stopped, routeMgr, recv>>,
         cEngine' \in {cEngine, 0}, cancelled \subseteq cancelled',
         \/ loop \in NoEngineAt /\ loop' \in NoEngineAt
         \/ loop = "start" /\ loop' = "setup"
         \/ loop = "setup" /\ loop' = "dns"
         \/ loop = "dns" /\ loop' = "routes"
         \/ loop = "create" /\ loop' = "firewall"
         \/ loop = "firewall" /\ loop' = "up"
         \/ loop = "started" /\ loop' = "running"
         \/ loop = "running" /\ loop' = "stop"
         \/ loop = "stopWait" /\ loop' = "close"
         \/ loop = "close" /\ loop' \in {"op", "exit"}
         \/ /\ loop \in {"setup", "dns", "create", "firewall", "up"} /\ loop' = "op"
            /\ gen \in cancelled'
  PROVE  RInv'
<1>1. Made'
  BY DEF RInv, IInv, TypeOK, Made
<1>2. Unstopped' /\ Managed' /\ Quiet'
  BY DEF RInv, IInv, TypeOK, Unstopped, Managed, Quiet, Serving, EngineAt, NoEngineAt
<1>3. \A g \in Gens : StartFailed(g) => StartFailed(g)'
  BY DEF StartFailed
<1>4. \A g \in Gens : Serving(g) => Serving(g)' \/ StartFailed(g)'
  BY DEF RInv, Quiet, Serving, StartFailed, NoEngineAt
<1>5. RoutingOwned'
  BY <1>3, <1>4, RulesKept DEF rules
<1> QED BY <1>1, <1>2, <1>5 DEF RInv

\* The loop, step by step.
LEMMA LoopRInv ==
  ASSUME RInv, IInv', LoopSteps \/ StreamSeen
  PROVE  RInv'
<1>1. CASE \/ Operation \/ OperationCancelled \/ NewMgmClient \/ DialFails
           \/ GetServerPublicKey \/ KeyFails \/ login \/ LoginFails
           \/ connectToSignal \/ SignalFails \/ createEngineConfigFails
  BY <1>1, LoopKeepsRules
  DEF Operation, OperationCancelled, NewMgmClient, DialFails, GetServerPublicKey, KeyFails, login,
      LoginFails, connectToSignal, SignalFails, createEngineConfigFails, OperationFails, OnlyLoop,
      Go, NoEngineAt, engine
<1>2. CASE LoginDenied
  <2>1. /\ loop = "login" /\ loop' = "exit"
        /\ stopped' = IF cEngine = 0 THEN stopped ELSE stopped \cup {cEngine}
        /\ IF cEngine \in routeMgr THEN CleanupRouting ELSE UNCHANGED rules
        /\ UNCHANGED <<gen, cEngine, cancelled, routeMgr, recv>>
    BY <1>2 DEF LoginDenied, Go
  <2>2. Made' /\ Unstopped' /\ Managed' /\ Quiet'
    BY <2>1 DEF RInv, Made, Unstopped, Managed, Quiet, EngineAt, Serving
  <2>3. CASE cEngine \in routeMgr
    BY <2>1, <2>2, <2>3 DEF CleanupRouting, RoutingOwned, RInv
  <2>4. CASE cEngine \notin routeMgr
    <3>1. UNCHANGED <<routing, refused>> /\ routeMgr' \ stopped' = routeMgr \ stopped
      BY <2>1, <2>4 DEF rules
    <3>2. \A g \in Gens : OwnsRules(g) => OwnsRules(g)'
      BY <2>1, <3>1 DEF OwnsRules
    <3>3. \A g \in Gens : ~Serving(g) /\ (StartFailed(g) => StartFailed(g)')
      BY <2>1 DEF Serving, StartFailed
    <3> QED BY <2>2, <3>1, <3>2, <3>3 DEF RInv, RoutingOwned
  <2> QED BY <2>3, <2>4
<1>3. CASE NewEngine
  <2>1. /\ loop = "config" /\ loop' = "start" /\ gen' = gen + 1 /\ cEngine' = gen + 1
        /\ UNCHANGED <<routing, refused, cancelled, stopped, routeMgr, recv>>
    BY <1>3 DEF NewEngine, Go, engine, rules
  <2>2. gen \in Nat /\ cEngine \in Nat /\ routeMgr \subseteq Nat /\ stopped \subseteq Nat
    BY MaxEnginesAssumption DEF RInv, IInv, TypeOK, Gens
  <2>3. Made' /\ Unstopped'
    BY <2>1, <2>2 DEF RInv, Made, Unstopped
  <2>4. Managed'
    BY <2>1 DEF Managed, Serving
  <2>5. Quiet'
    BY <2>1, <2>2, MaxEnginesAssumption DEF RInv, Quiet, Gens
  <2>6. \A g \in Gens : ~Serving(g) /\ (StartFailed(g) => StartFailed(g)')
    BY <2>1 DEF Serving, StartFailed
  <2>7. RoutingOwned'
    BY <2>1, <2>6, RulesKept
  <2> QED BY <2>3, <2>4, <2>5, <2>7 DEF RInv
<1>4. CASE StartLocks \/ newWgIface \/ newDnsServer \/ wgInterfaceCreate \/ createFirewall
           \/ SetConnected \/ OperationWakes \/ StopReturns \/ OperationReturns
  BY <1>4, LoopKeepsRules
  DEF StartLocks, newWgIface, newDnsServer, wgInterfaceCreate, createFirewall, SetConnected,
      OperationWakes, StopReturns, OperationReturns, OnlyLoop, Go, engine
<1>5. CASE \E at \in {"setup", "dns", "create", "firewall", "up"} : StartFails(at)
  BY <1>5, LoopKeepsRules DEF StartFails, Go
<1>6. CASE InitRoutes
  <2>1. /\ loop = "routes" /\ loop' = "create" /\ routeMgr' = routeMgr \cup {gen}
        /\ UNCHANGED <<gen, cEngine, cancelled, stopped, recv>>
    BY <1>6 DEF InitRoutes, Go
  <2>2. gen \in Gens /\ gen \notin stopped
    BY <2>1, MaxEnginesAssumption
    DEF RInv, IInv, TypeOK, Current, NoEngineAt, Gens, Unstopped, EngineAt
  <2>3. Made' /\ Unstopped' /\ Managed' /\ Quiet'
    BY <2>1, <2>2 DEF RInv, Made, Unstopped, Managed, Quiet, EngineAt, Serving, Gens
  <2>4. (OwnsRules(gen) /\ Serving(gen))'
    BY <2>1, <2>2, MaxEnginesAssumption DEF RInv, Made, OwnsRules, Serving, Gens
  <2>5. RoutingOwned'
    BY <2>1, <2>2, <2>4 DEF RoutingOwned
  <2> QED BY <2>3, <2>5 DEF RInv
<1>7. CASE StartSetsUp \/ StartReturns
  <2>1. /\ \/ loop = "up" /\ loop' = "waitStream"
           \/ loop = "waitStream" /\ loop' = "started"
        /\ UNCHANGED <<gen, cEngine, routing, refused, cancelled, stopped, routeMgr>>
    BY <1>7 DEF StartSetsUp, StartReturns, Go, rules
  <2>2. \A g \in Gens : g # gen => recv'[g]["signal"] = recv[g]["signal"]
    BY <1>7 DEF StartSetsUp, StartReturns, RInv, IInv, TypeOK, Receivers
  <2>3. \A g \in Gens : /\ Serving(g) => Serving(g)'
                        /\ g # gen => (StartFailed(g) => StartFailed(g)')
    BY <2>1, <2>2 DEF Serving, StartFailed
  <2>5. Made' /\ Unstopped' /\ Managed'
    BY <2>1 DEF RInv, Made, Unstopped, Managed, EngineAt, Serving
  <2>6. Quiet'
    BY <2>1, <2>2 DEF RInv, Quiet, IInv, TypeOK, Gens
  <2>7. RoutingOwned'
    <3>1. \A g \in Gens : OwnsRules(g) => OwnsRules(g)'
      BY <2>1 DEF OwnsRules
    <3>2. ASSUME routing /\ ~refused
          PROVE  \E g \in Gens : OwnsRules(g)' /\ (Serving(g)' \/ StartFailed(g)')
      <4>1. PICK g \in Gens : OwnsRules(g) /\ (Serving(g) \/ StartFailed(g))
        BY <3>2 DEF RInv, RoutingOwned
      <4>2. g = gen => Serving(g)'
        BY <2>1 DEF Serving
      <4>3. OwnsRules(g)' /\ (Serving(g)' \/ StartFailed(g)')
        BY <2>3, <3>1, <4>1, <4>2
      <4> QED BY <4>3
    <3> QED BY <2>1, <3>2 DEF RoutingOwned
  <2> QED BY <2>5, <2>6, <2>7 DEF RInv
<1>8. CASE StopLocks
  <2>1. /\ loop = "stop" /\ loop' = "stopWait" /\ stopped' = stopped \cup {gen}
        /\ CleanupRouting
        /\ UNCHANGED <<gen, cEngine, cancelled, routeMgr, recv>>
    BY <1>8 DEF StopLocks, Go
  <2>2. Made' /\ Unstopped' /\ Managed' /\ Quiet'
    BY <2>1 DEF RInv, IInv, TypeOK, Made, Unstopped, Managed, Quiet, EngineAt, Serving
  <2> QED BY <2>1, <2>2 DEF RInv, CleanupRouting, RoutingOwned
<1> QED BY <1>1, <1>2, <1>3, <1>4, <1>5, <1>6, <1>7, <1>8
        DEF LoopSteps, newWgIfaceFails, newDnsServerFails, wgInterfaceCreateFails,
            initFirewallFails, UpFails, WaitCancelled, StreamSeen, StopDrained, StopTimesOut

\* A goroutine starts no receiver, and touches neither the loop nor the rules.
LEMMA GoroutineRInv ==
  ASSUME RInv, IInv', UNCHANGED <<loop, gen, cEngine, rules, stopped, routeMgr>>,
         cancelled \subseteq cancelled',
         \A g \in Gens : recv[g]["signal"] = "none" => recv'[g]["signal"] = "none"
  PROVE  RInv'
<1>1. Made' /\ Unstopped' /\ Managed' /\ Quiet'
  BY DEF RInv, Made, Unstopped, Managed, Quiet, Serving
<1>2. \A g \in Gens : (Serving(g) => Serving(g)') /\ (StartFailed(g) => StartFailed(g)')
  BY DEF Serving, StartFailed
<1>3. RoutingOwned'
  BY <1>2, RulesKept DEF rules
<1> QED BY <1>1, <1>3 DEF RInv

\* The receivers keep the ownership of the rules.
LEMMA ReceiverRInv ==
  ASSUME RInv, IInv', NEW g \in Gens, NEW r \in Receivers,
         \/ ServerSteps(g, r) \/ ReceiverSteps(g, r)
         \/ HandlerSteps(g) \/ UpdateArrives(g)
  PROVE  RInv'
<1>1. /\ UNCHANGED <<loop, gen, cEngine, rules, stopped, routeMgr>>
      /\ cancelled \subseteq cancelled'
  BY DEF ServerSteps, ReceiverSteps, HandlerSteps, UpdateArrives, StreamOpens, StreamBreaks,
         ServerCancels, GivesUp, ReceiverCancelled, ReceiverWraps, ReceiverCancels, UpdateLocks,
         UpdateHandled, OnlyRecv
<1>2. \E q \in Receivers, to \in RecvAt :
        recv[g][q] # "none" /\ recv' = [recv EXCEPT ![g][q] = to]
  BY DEF ServerSteps, ReceiverSteps, HandlerSteps, UpdateArrives, StreamOpens, StreamBreaks,
         ServerCancels, GivesUp, ReceiverCancelled, ReceiverWraps, ReceiverCancels, UpdateLocks,
         UpdateHandled, At, RecvAt, Receivers
<1>3. \A h \in Gens : recv[h]["signal"] = "none" => recv'[h]["signal"] = "none"
  BY <1>2 DEF RInv, IInv, TypeOK, Receivers
<1> QED BY <1>1, <1>3, GoroutineRInv

\* The ownership of the rules is an invariant of every step.
LEMMA NextRInv == RInv /\ IInv' /\ [Next]_vars => RInv'
<1> SUFFICES ASSUME RInv, IInv', [Next]_vars PROVE RInv'
  OBVIOUS
<1>1. CASE UNCHANGED vars \/ UserCancels
  BY <1>1, GoroutineRInv DEF vars, UserCancels, engine
<1>2. CASE LoopSteps \/ StreamSeen
  BY <1>2, LoopRInv
<1>3. ASSUME NEW g \in Gens, \/ HandlerSteps(g) \/ UpdateArrives(g)
                           \/ \E r \in Receivers : ServerSteps(g, r) \/ ReceiverSteps(g, r)
      PROVE  RInv'
  <2>1. "mgmt" \in Receivers
    BY DEF Receivers
  <2> QED BY <1>3, <2>1, ReceiverRInv
<1>4. ASSUME NEW g \in Gens, MessageArrives(g) \/ MessageHandled(g)
      PROVE  RInv'
  BY <1>4, GoroutineRInv DEF MessageArrives, MessageHandled
<1>5. ASSUME NEW g \in Gens, NEW m \in Monitors, ChangeSeen(g, m) \/ MonitorSteps(g, m)
      PROVE  RInv'
  <2>1. /\ UNCHANGED <<loop, gen, cEngine, rules, stopped, routeMgr, recv>>
        /\ cancelled \subseteq cancelled'
    BY <1>5 DEF ChangeSeen, MonitorSteps, MonitorStarts, MonitorCancelled, RestartIgnored,
                RestartWraps, RestartCancels, OnlyMon
  <2> QED BY <2>1, GoroutineRInv
<1> QED BY <1>1, <1>2, <1>3, <1>4, <1>5 DEF Next

\* The rules of SetupRouting are there only while the engine that owns them
\* starts, runs or is about to be stopped, after a Start of its owner that failed
\* past Init, or because the kernel refused to remove them.
THEOREM RoutingOwnedAlways == Spec => []RoutingOwned
<1>1. Init => Made /\ Unstopped /\ Managed /\ Quiet /\ RoutingOwned
  BY MaxEnginesAssumption
  DEF Init, Made, Unstopped, Managed, Quiet, RoutingOwned, Serving, EngineAt, Gens, Receivers
<1>2. Init => RInv
  BY <1>1, InitIInv DEF RInv
<1>3. RInv => RoutingOwned
  BY DEF RInv
<1> QED BY <1>2, <1>3, NextRInv, Invariance, PTL DEF Spec

\* A client that has exited is idle or needs a login, whichever goroutines of
\* whichever engine are still running.
THEOREM ExitSettlesAlways == Spec => []ExitSettles
<1>1. IInv => ExitSettles
  BY DEF IInv
<1> QED BY <1>1, Invariance, PTL

-----------------------------------------------------------------------------
(* The minimal client: what a command knows of the file and the interface. *)


\* A process that loaded the file, which nobody has saved since, has its key.
KeyKnown ==
  \A p \in Procs : pc[p] \notin {"idle", "load"} /\ ~stale[p] /\ ~lost /\ kept # NoKey
                     => cfg[p].key = kept

\* The file is missing only until it is saved for the first time.
NeverSaved == file.state = "missing" => kept = NoKey

\* Whoever has real peers has the key they were sent for: Login registered it,
\* and it is not generated again.
AppliedAt == {"apply", "linkAdd", "wgSet", "setPeers", "linkUp", "open", "write"}
PeersOfKey ==
  /\ NoKey \notin registered
  /\ \A p \in Procs : pc[p] \in {"login", "sync"} => cfg[p].key # NoKey
  /\ \A p \in Procs : pc[p] = "sync" => cfg[p].key \in registered
  /\ \A p \in Procs : pc[p] \in AppliedAt /\ cfg[p].peers = "real" => cfg[p].key \in registered

\* An up that is left alone has set up the interface when it saves the file.
LinkReady ==
  \A p \in Procs : prog[p] = "up" /\ clean[p] =>
    /\ pc[p] \in {"setPeers", "linkUp", "open", "write"} => link.exists /\ link.key = cfg[p].key
    /\ pc[p] \in {"open", "write"} => link.up

SaidAtEnd == \A p \in Procs : said[p] => pc[p] = "idle"

MiniInv ==
  /\ MiniTypeOK
  /\ KeyKnown
  /\ NeverSaved
  /\ KeyKept
  /\ PeersOfKey
  /\ LinkReady
  /\ SaidAtEnd
  /\ UpWorks

-----------------------------------------------------------------------------
(* Steps of the same shape.                                                *)

\* Setting one field of a configuration leaves the other as it is.
LEMMA CfgFields ==
  ASSUME NEW c \in Configs, NEW k \in Keys, NEW v \in Peers
  PROVE  /\ [c EXCEPT !.key = k] \in Configs
         /\ [c EXCEPT !.key = k].key = k /\ [c EXCEPT !.key = k].peers = c.peers
         /\ [c EXCEPT !.peers = v] \in Configs
         /\ [c EXCEPT !.peers = v].key = c.key /\ [c EXCEPT !.peers = v].peers = v
  BY DEF Configs

\* The default configuration has no key.
LEMMA DefaultType == Default \in Configs /\ NoKey \in Keys /\ Default.key = NoKey
<1>1. NoKey \in Keys
  BY MaxKeysAssumption DEF NoKey, Keys
<1> QED BY <1>1 DEF Default, Configs, Peers

\* A command works on its copy, and perhaps gets a key registered.
LEMMA CopyStep ==
  ASSUME MiniInv, NEW p \in Procs, NEW to \in PCs \ {"idle", "load"}, NEW c \in Configs,
         pc[p] \notin {"idle", "load"},
         pc' = [pc EXCEPT ![p] = to],
         cfg' = [cfg EXCEPT ![p] = c],
         c.key = cfg[p].key \/ cfg[p].key = NoKey,
         made' \in Keys,
         registered \subseteq registered', registered' \subseteq Keys, NoKey \notin registered',
         to \in {"login", "sync"} => c.key # NoKey,
         to = "sync" => c.key \in registered',
         to \in AppliedAt /\ c.peers = "real" => c.key \in registered',
         prog[p] = "up" /\ clean[p] =>
           /\ to \in {"setPeers", "linkUp", "open", "write"} => link.exists /\ link.key = c.key
           /\ to \in {"open", "write"} => link.up,
         UNCHANGED <<prog, file, link, stale, lost, kept, said, clean>>
  PROVE  MiniInv'
<1> USE DEF MiniInv
<1>1. /\ pc'[p] = to /\ cfg'[p] = c
      /\ \A q \in Procs \ {p} : pc'[q] = pc[q] /\ cfg'[q] = cfg[q]
  BY DEF MiniTypeOK
<1>2. MiniTypeOK'
  BY DEF MiniTypeOK
<1>3. KeyKnown'
  BY <1>1 DEF KeyKnown
<1>4. NeverSaved' /\ KeyKept'
  BY DEF NeverSaved, KeyKept
<1>5. PeersOfKey'
  BY <1>1 DEF PeersOfKey
<1>6. LinkReady'
  BY <1>1 DEF LinkReady
<1>7. SaidAtEnd'
  BY <1>1 DEF SaidAtEnd
<1>8. UpWorks'
  BY DEF UpWorks
<1> QED BY <1>2, <1>3, <1>4, <1>5, <1>6, <1>7, <1>8

\* A command works on the interface.
LEMMA LinkStep ==
  ASSUME MiniInv, NEW p \in Procs, NEW to \in AppliedAt, pc[p] \in AppliedAt,
         pc' = [pc EXCEPT ![p] = to],
         link' \in Links, link'.exists,
         Disturbs(p),
         prog[p] = "up" /\ clean[p] =>
           /\ to \in {"setPeers", "linkUp", "open", "write"} => link'.key = cfg[p].key
           /\ to \in {"open", "write"} => link'.up,
         UNCHANGED <<prog, cfg, file, made, registered, stale, lost, kept, said>>
  PROVE  MiniInv'
<1> USE DEF MiniInv
<1>1. /\ pc'[p] = to /\ pc[p] \notin {"idle", "load"} /\ to \notin {"idle", "load", "login", "sync"}
      /\ \A q \in Procs \ {p} : pc'[q] = pc[q]
  BY DEF MiniTypeOK, AppliedAt
<1>2. clean' \in [Procs -> BOOLEAN] /\ clean'[p] = clean[p] /\ \A q \in Procs \ {p} : ~clean'[q]
  BY DEF Disturbs, MiniTypeOK
<1>3. MiniTypeOK'
  <2>1. pc' \in [Procs -> PCs]
    BY DEF MiniTypeOK, PCs, AppliedAt
  <2> QED BY <1>2, <2>1 DEF MiniTypeOK
<1>4. KeyKnown'
  BY <1>1 DEF KeyKnown
<1>5. NeverSaved' /\ KeyKept'
  BY DEF NeverSaved, KeyKept
<1>6. PeersOfKey'
  BY <1>1 DEF PeersOfKey
<1>7. LinkReady'
  BY <1>1, <1>2 DEF LinkReady
<1>8. SaidAtEnd'
  BY <1>1 DEF SaidAtEnd
<1>9. UpWorks'
  BY <1>1, <1>2 DEF UpWorks, SaidAtEnd
<1> QED BY <1>3, <1>4, <1>5, <1>6, <1>7, <1>8, <1>9

\* A command ends without saving the file.
LEMMA EndStep ==
  ASSUME MiniInv, NEW p \in Procs, pc[p] # "idle", Ends(p, pc[p]),
         stale' \in [Procs -> BOOLEAN], \A q \in Procs \ {p} : stale'[q] = stale[q],
         registered \subseteq registered', registered' \subseteq Keys, NoKey \notin registered',
         UNCHANGED <<file, link, made, lost, kept, said, clean>>
  PROVE  MiniInv'
<1> USE DEF MiniInv
<1>1. /\ pc'[p] = "idle"
      /\ \A q \in Procs \ {p} : pc'[q] = pc[q] /\ cfg'[q] = cfg[q] /\ prog'[q] = prog[q]
  BY DEF MiniTypeOK, Ends, Goto
<1>2. MiniTypeOK'
  BY DefaultType DEF MiniTypeOK, Ends, Goto, PCs
<1>3. KeyKnown'
  BY <1>1 DEF KeyKnown
<1>4. NeverSaved' /\ KeyKept'
  BY DEF NeverSaved, KeyKept
<1>5. PeersOfKey'
  BY <1>1 DEF PeersOfKey, AppliedAt
<1>6. LinkReady'
  BY <1>1 DEF LinkReady
<1>7. SaidAtEnd'
  BY <1>1 DEF SaidAtEnd
<1>8. UpWorks'
  BY DEF UpWorks
<1> QED BY <1>2, <1>3, <1>4, <1>5, <1>6, <1>7, <1>8

-----------------------------------------------------------------------------
(* The file.                                                               *)

\* A command begins; it has loaded nothing yet.
LEMMA BeginStep ==
  ASSUME MiniInv, NEW p \in Procs, NEW g \in Progs, Begin(p, g)
  PROVE  MiniInv'
<1> USE DEF MiniInv, Begin, Goto
<1>1. /\ pc[p] = "idle" /\ pc'[p] = "load" /\ ~said'[p]
      /\ \A q \in Procs \ {p} : pc'[q] = pc[q] /\ prog'[q] = prog[q] /\ said'[q] = said[q]
  BY DEF MiniTypeOK
<1>2. MiniTypeOK'
  BY DEF MiniTypeOK, PCs
<1>3. KeyKnown' /\ NeverSaved' /\ KeyKept'
  BY <1>1 DEF KeyKnown, NeverSaved, KeyKept
<1>4. PeersOfKey'
  BY <1>1 DEF PeersOfKey, AppliedAt
<1>5. LinkReady' /\ SaidAtEnd'
  BY <1>1 DEF LinkReady, SaidAtEnd
<1>6. UpWorks'
  BY <1>1 DEF UpWorks
<1> QED BY <1>2, <1>3, <1>4, <1>5, <1>6

\* What is loaded has the key that was saved, unless the file was torn
\* or could not be read.
LEMMA LoadStep ==
  ASSUME MiniInv, NEW p \in Procs, Load(p)
  PROVE  MiniInv'
<1> USE DEF MiniInv
<1>0. PICK read \in BOOLEAN :
        /\ \/ prog[p] \in {"up", "upUser"} /\ runUp(p, Loaded(read))
           \/ prog[p] = "down" /\ runDown(p, Loaded(read))
        /\ stale' = [stale EXCEPT ![p] = file.state = "torn" \/ (file.state = "whole" /\ ~read)]
        /\ clean' = [clean EXCEPT ![p] = TRUE]
        /\ UNCHANGED <<prog, file, link, made, registered, lost, kept, said>>
  BY DEF Load
<1> DEFINE c0 == Loaded(read)
<1>1. /\ pc[p] = "load" /\ pc'[p] \in {"serverKey", "open"}
      /\ pc'[p] = "open" => prog[p] = "down"
      /\ clean'[p] /\ (stale'[p] <=> file.state = "torn" \/ (file.state = "whole" /\ ~read))
      /\ UNCHANGED <<prog, file, link, made, registered, lost, kept, said>>
      /\ \A q \in Procs \ {p} : /\ pc'[q] = pc[q] /\ cfg'[q] = cfg[q]
                                /\ stale'[q] = stale[q] /\ clean'[q] = clean[q]
  BY <1>0 DEF MiniTypeOK, runUp, runDown, SetCfg, Goto
<1>2. c0 \in Configs
  BY DefaultType DEF Loaded, MiniTypeOK, Files
<1>3. \E c \in Configs : /\ cfg' = [cfg EXCEPT ![p] = c] /\ c.key = c0.key
                         /\ prog[p] = "down" => c.peers = "none"
  <2>1. CASE prog[p] \in {"up", "upUser"}
    <3>1. cfg' = [cfg EXCEPT ![p] = c0]
      BY <1>0, <2>1 DEF runUp, SetCfg
    <3> QED BY <1>2, <2>1, <3>1
  <2>2. CASE prog[p] = "down"
    <3>1. cfg' = [cfg EXCEPT ![p] = [c0 EXCEPT !.peers = "none"]]
      BY <1>0, <2>2 DEF runDown, SetCfg
    <3>2. "none" \in Peers /\ NoKey \in Keys
      BY DefaultType DEF Peers
    <3>3. /\ [c0 EXCEPT !.peers = "none"] \in Configs
          /\ [c0 EXCEPT !.peers = "none"].key = c0.key
          /\ [c0 EXCEPT !.peers = "none"].peers = "none"
      BY <1>2, <3>2, CfgFields
    <3> QED BY <3>1, <3>3
  <2> QED BY <1>0, <2>1, <2>2
<1>4. /\ cfg'[p].key = c0.key /\ cfg' \in [Procs -> Configs]
      /\ prog[p] = "down" => cfg'[p].peers = "none"
  BY <1>3 DEF MiniTypeOK
<1>5. MiniTypeOK'
  <2>1. /\ pc' \in [Procs -> PCs] /\ stale' \in [Procs -> BOOLEAN]
        /\ clean' \in [Procs -> BOOLEAN]
    BY <1>0 DEF MiniTypeOK, runUp, runDown, Goto, PCs
  <2> QED BY <1>1, <1>4, <2>1 DEF MiniTypeOK
<1>6. KeyKnown'
  <2>1. file.state \in {"missing", "torn", "whole"}
    BY DEF MiniTypeOK, Files
  <2>2. ~stale'[p] /\ ~lost /\ kept # NoKey => c0.key = kept
    BY <1>1, <2>1 DEF NeverSaved, KeyKept, Loaded
  <2> QED BY <1>1, <1>4, <2>2 DEF KeyKnown
<1>7. NeverSaved' /\ KeyKept'
  BY <1>1 DEF NeverSaved, KeyKept
<1>8. PeersOfKey'
  BY <1>1, <1>4 DEF PeersOfKey, AppliedAt
<1>9. LinkReady'
  BY <1>1 DEF LinkReady
<1>10. SaidAtEnd'
  BY <1>1 DEF SaidAtEnd
<1>11. UpWorks'
  BY <1>1 DEF UpWorks, SaidAtEnd
<1> QED BY <1>5, <1>6, <1>7, <1>8, <1>9, <1>10, <1>11

\* All others that have loaded the file are stale.
LEMMA OpenStep ==
  ASSUME MiniInv, NEW p \in Procs, Open(p)
  PROVE  MiniInv'
<1> USE DEF MiniInv, Open
<1>1. /\ pc[p] = "open" /\ pc'[p] = "write"
      /\ \A q \in Procs \ {p} : pc'[q] = pc[q]
      /\ UNCHANGED <<prog, cfg, link, made, registered, kept, said>>
  BY DEF MiniTypeOK, Goto
<1>2. /\ \A q \in Procs \ {p} : ~clean'[q] /\ (pc[q] \notin {"idle", "load"} => stale'[q])
      /\ clean'[p] = clean[p]
      /\ ~stale'[p] => ~stale[p]
      /\ ~lost' => ~lost
  BY <1>1 DEF Overtakes, Disturbs, MiniTypeOK
<1>3. MiniTypeOK'
  <2>1. /\ stale' \in [Procs -> BOOLEAN] /\ clean' \in [Procs -> BOOLEAN] /\ lost' \in BOOLEAN
    BY DEF Overtakes, Disturbs, MiniTypeOK
  <2>2. pc' \in [Procs -> PCs] /\ file' \in Files
    BY DefaultType DEF MiniTypeOK, Goto, PCs, Files, Torn
  <2> QED BY <1>1, <2>1, <2>2 DEF MiniTypeOK
<1>4. KeyKnown'
  BY <1>1, <1>2 DEF KeyKnown
<1>5. file'.state = "torn"
  BY DEF Torn
<1>6. NeverSaved' /\ KeyKept'
  BY <1>5 DEF NeverSaved, KeyKept
<1>7. PeersOfKey'
  BY <1>1 DEF PeersOfKey, AppliedAt
<1>8. LinkReady' /\ SaidAtEnd'
  BY <1>1, <1>2 DEF LinkReady, SaidAtEnd
<1>9. UpWorks'
  BY <1>1, <1>2 DEF UpWorks, SaidAtEnd
<1> QED BY <1>3, <1>4, <1>6, <1>7, <1>8, <1>9

\* saveConfig writes the contents: the file is whole again, and whoever loaded
\* it before is stale.
LEMMA WriteStep ==
  ASSUME MiniInv, NEW p \in Procs, Write(p)
  PROVE  MiniInv'
<1> USE DEF MiniInv, Write
<1>1. /\ pc[p] = "write" /\ pc'[p] = "idle"
      /\ \A q \in Procs \ {p} : /\ pc'[q] = pc[q] /\ cfg'[q] = cfg[q] /\ prog'[q] = prog[q]
                                /\ said'[q] = said[q]
      /\ said'[p] => prog[p] = "up"
      /\ UNCHANGED <<link, made, registered>>
  BY DEF MiniTypeOK, Ends, Goto
<1>2. /\ \A q \in Procs \ {p} : ~clean'[q] /\ (pc[q] \notin {"idle", "load"} => stale'[q])
      /\ clean'[p] = clean[p]
      /\ ~lost' => ~lost /\ ~stale[p]
  BY <1>1 DEF Overtakes, Disturbs, MiniTypeOK
<1>3. /\ file' \in Files /\ file'.state = "whole" /\ file'.cfg = cfg[p]
      /\ cfg[p] \in Configs /\ cfg[p].key \in Keys
  BY DEF Whole, Files, MiniTypeOK, Configs
<1>4. MiniTypeOK'
  <2>1. /\ stale' \in [Procs -> BOOLEAN] /\ clean' \in [Procs -> BOOLEAN] /\ lost' \in BOOLEAN
    BY DEF Overtakes, Disturbs, MiniTypeOK
  <2>2. /\ pc' \in [Procs -> PCs] /\ prog' \in [Procs -> Progs \cup {"none"}]
        /\ cfg' \in [Procs -> Configs] /\ said' \in [Procs -> BOOLEAN]
    BY DefaultType DEF MiniTypeOK, Ends, Goto, PCs
  <2>3. kept' \in Keys
    BY <1>3 DEF MiniTypeOK
  <2> QED BY <1>1, <1>3, <2>1, <2>2, <2>3 DEF MiniTypeOK
<1>5. KeyKnown'
  BY <1>1, <1>2 DEF KeyKnown
<1>6. NeverSaved'
  BY <1>3 DEF NeverSaved
<1>7. KeyKept'
  BY <1>1, <1>2, <1>3 DEF KeyKept, KeyKnown
<1>8. PeersOfKey'
  BY <1>1 DEF PeersOfKey, AppliedAt
<1>9. LinkReady' /\ SaidAtEnd'
  BY <1>1, <1>2 DEF LinkReady, SaidAtEnd
<1>10. UpWorks'
  BY <1>1, <1>2, <1>3 DEF UpWorks, SaidAtEnd, LinkReady, PeersOfKey, AppliedAt
<1> QED BY <1>4, <1>5, <1>6, <1>7, <1>8, <1>9, <1>10

-----------------------------------------------------------------------------
(* Registering.                                                            *)

\* ensureKey leaves a key alone, and makes one where there is none.
LEMMA EnsureKeyResult ==
  ASSUME MiniTypeOK, NEW p \in Procs, ensureKey(p)
  PROVE  \E c \in Configs : /\ cfg' = [cfg EXCEPT ![p] = c]
                            /\ c.key # NoKey /\ c.peers = cfg[p].peers
                            /\ c.key = cfg[p].key \/ cfg[p].key = NoKey
                            /\ made' \in Keys
<1>1. CASE cfg[p].key # NoKey /\ UNCHANGED <<cfg, made>>
  <2>1. cfg' = [cfg EXCEPT ![p] = cfg[p]] /\ cfg[p] \in Configs /\ made' \in Keys
    BY <1>1 DEF MiniTypeOK
  <2> QED BY <1>1, <2>1
<1>2. CASE /\ cfg[p].key = NoKey /\ made < MaxKeys /\ made' = made + 1
           /\ SetCfg(p, [cfg[p] EXCEPT !.key = made + 1])
  <2>1. made + 1 \in Keys /\ made + 1 # NoKey
    BY <1>2, MaxKeysAssumption DEF MiniTypeOK, Keys, NoKey
  <2>2. cfg[p] \in Configs /\ cfg' = [cfg EXCEPT ![p] = [cfg[p] EXCEPT !.key = made + 1]]
    BY <1>2 DEF MiniTypeOK, SetCfg
  <2>3. /\ [cfg[p] EXCEPT !.key = made + 1] \in Configs
        /\ [cfg[p] EXCEPT !.key = made + 1].key = made + 1
        /\ [cfg[p] EXCEPT !.key = made + 1].peers = cfg[p].peers
    BY <2>1, <2>2, CfgFields DEF Peers
  <2> QED BY <1>2, <2>1, <2>2, <2>3
<1> QED BY <1>1, <1>2 DEF ensureKey

\* Registration, and the demo peers it falls back to.
LEMMA RegisterStep ==
  ASSUME MiniInv, NEW p \in Procs, Register(p)
  PROVE  MiniInv'
<1> USE DEF history, Goto
<1>0. /\ cfg[p] \in Configs /\ cfg[p].key \in Keys /\ registered \subseteq Keys
      /\ NoKey \notin registered /\ made \in Keys
  BY DEF MiniInv, MiniTypeOK, Configs, PeersOfKey
<1>1. CASE FallBack(p)
  <2> DEFINE c == [cfg[p] EXCEPT !.peers = "demo"]
  <2>1. c \in Configs /\ c.key = cfg[p].key /\ c.peers = "demo"
    BY <1>0, CfgFields DEF Peers
  <2>2. cfg' = [cfg EXCEPT ![p] = c]
    BY <1>1 DEF FallBack, SetCfg
  <2> HIDE DEF c
  <2> QED BY <1>0, <1>1, <2>1, <2>2, CopyStep DEF FallBack, PCs, AppliedAt
<1>2. CASE GetServerKey(p)
  <2>1. PICK c \in Configs : /\ cfg' = [cfg EXCEPT ![p] = c] /\ c.key # NoKey
                             /\ c.key = cfg[p].key \/ cfg[p].key = NoKey
                             /\ made' \in Keys
    BY <1>2, EnsureKeyResult DEF GetServerKey, MiniInv
  <2> QED BY <1>0, <1>2, <2>1, CopyStep DEF GetServerKey, PCs, AppliedAt
<1>3. CASE Login(p)
  <2>1. pc[p] = "login" /\ cfg[p].key # NoKey /\ registered' = registered \cup {cfg[p].key}
    BY <1>3 DEF Login, Ends, MiniInv, PeersOfKey
  <2>2. /\ registered \subseteq registered' /\ registered' \subseteq Keys
        /\ NoKey \notin registered' /\ cfg[p].key \in registered'
    BY <1>0, <2>1
  <2>3. CASE Goto(p, "login", "sync") /\ UNCHANGED <<prog, cfg, history>>
    <3>1. cfg' = [cfg EXCEPT ![p] = cfg[p]]
      BY <2>3 DEF MiniInv, MiniTypeOK
    <3> QED BY <1>0, <1>3, <2>1, <2>2, <2>3, <3>1, CopyStep DEF Login, PCs, AppliedAt
  <2>4. CASE /\ Ends(p, "login") /\ stale' = [stale EXCEPT ![p] = FALSE]
             /\ UNCHANGED <<lost, kept, said, clean>>
    <3>1. stale' \in [Procs -> BOOLEAN] /\ \A q \in Procs \ {p} : stale'[q] = stale[q]
      BY <2>4 DEF MiniInv, MiniTypeOK
    <3> QED BY <1>3, <2>1, <2>2, <2>4, <3>1, EndStep DEF Login
  <2> QED BY <1>3, <2>3, <2>4 DEF Login
<1>4. CASE syncOnce(p)
  <2>1. PICK v \in {"none", "real"} : cfg' = [cfg EXCEPT ![p] = [cfg[p] EXCEPT !.peers = v]]
    BY <1>4 DEF syncOnce, SetCfg
  <2> DEFINE c == [cfg[p] EXCEPT !.peers = v]
  <2>2. c \in Configs /\ c.key = cfg[p].key /\ cfg' = [cfg EXCEPT ![p] = c]
    BY <1>0, <2>1, CfgFields DEF Peers
  <2>3. cfg[p].key \in registered
    BY <1>4 DEF syncOnce, MiniInv, PeersOfKey
  <2> HIDE DEF c
  <2> QED BY <1>0, <1>4, <2>2, <2>3, CopyStep DEF syncOnce, PCs, AppliedAt
<1> QED BY <1>1, <1>2, <1>3, <1>4 DEF Register

-----------------------------------------------------------------------------
(* Applying the configuration.                                             *)

\* The key is made, if there was none, before the interface is configured.
LEMMA ApplyStep ==
  ASSUME MiniInv, NEW p \in Procs, Apply(p)
  PROVE  MiniInv'
<1>1. PICK c \in Configs : /\ cfg' = [cfg EXCEPT ![p] = c] /\ c.peers = cfg[p].peers
                           /\ c.key = cfg[p].key \/ cfg[p].key = NoKey
                           /\ made' \in Keys
  BY EnsureKeyResult DEF Apply, MiniInv
<1>2. PICK to \in {"linkAdd", "open"} : /\ pc' = [pc EXCEPT ![p] = to]
                                        /\ to = "open" => prog[p] # "up"
  BY DEF Apply, Goto
<1>3. /\ pc[p] = "apply" /\ UNCHANGED <<prog, file, link, registered, history>>
      /\ registered \subseteq Keys /\ NoKey \notin registered
      /\ c.peers = "real" => cfg[p].key \in registered
  BY <1>1 DEF Apply, Goto, MiniInv, MiniTypeOK, PeersOfKey, AppliedAt
<1> QED BY <1>1, <1>2, <1>3, CopyStep DEF history, PCs, AppliedAt

\* Setting one field of the link leaves the others as they are.
LEMMA LinkFields ==
  ASSUME NEW l \in Links, NEW k \in Keys
  PROVE  /\ [l EXCEPT !.key = k] \in Links /\ [l EXCEPT !.key = k].key = k
         /\ [l EXCEPT !.key = k].exists = l.exists
         /\ [l EXCEPT !.up = TRUE] \in Links /\ [l EXCEPT !.up = TRUE].key = l.key
         /\ [l EXCEPT !.up = TRUE].exists = l.exists /\ [l EXCEPT !.up = TRUE].up
         /\ [l EXCEPT !.peers = @ \cup {"real"}] \in Links
         /\ [l EXCEPT !.peers = @ \cup {"real"}].key = l.key
         /\ [l EXCEPT !.peers = @ \cup {"real"}].exists = l.exists
         /\ [l EXCEPT !.peers = @ \cup {"real"}].up = l.up
  BY DEF Links, Peers

\* The ip and wg commands of up.
LEMMA WgStep ==
  ASSUME MiniInv, NEW p \in Procs,
         LinkAdd(p) \/ WgSet(p) \/ SetPeers(p) \/ LinkUp(p)
  PROVE  MiniInv'
<1> USE DEF history, Goto, Link
<1>0. /\ cfg[p] \in Configs /\ cfg[p].key \in Keys /\ link \in Links /\ made \in Keys
      /\ registered \subseteq Keys /\ NoKey \notin registered
      /\ cfg = [cfg EXCEPT ![p] = cfg[p]]
  BY DEF MiniInv, MiniTypeOK, Configs, PeersOfKey
<1>1. CASE LinkAdd(p)
  <2>1. CASE ~link.exists /\ Link(p, [NoLink EXCEPT !.exists = TRUE])
    <3>1. [NoLink EXCEPT !.exists = TRUE] \in Links /\ [NoLink EXCEPT !.exists = TRUE].exists
      BY DefaultType DEF NoLink, Links
    <3> QED BY <1>1, <2>1, <3>1, LinkStep DEF LinkAdd, AppliedAt
  <2>2. CASE UNCHANGED <<link, history>>
    <3>1. cfg[p].peers = "real" => cfg[p].key \in registered
      BY <1>1 DEF LinkAdd, MiniInv, PeersOfKey, AppliedAt
    <3> QED BY <1>0, <1>1, <2>2, <3>1, CopyStep DEF LinkAdd, PCs, AppliedAt
  <2> QED BY <1>1, <2>1, <2>2 DEF LinkAdd
<1>2. CASE WgSet(p)
  <2>1. link' \in Links /\ link'.exists /\ link'.key = cfg[p].key
    BY <1>0, <1>2, LinkFields DEF WgSet
  <2> QED BY <1>2, <2>1, LinkStep DEF WgSet, AppliedAt
<1>3. CASE SetPeers(p)
  <2>0. prog[p] = "up" /\ clean[p] => link.exists /\ link.key = cfg[p].key
    BY <1>3 DEF SetPeers, MiniInv, LinkReady
  <2>1. CASE cfg[p].peers = "real"
    <3>1. link' \in Links /\ link'.exists /\ link'.key = link.key
      BY <1>0, <1>3, <2>1, LinkFields DEF SetPeers
    <3> QED BY <1>3, <2>0, <2>1, <3>1, LinkStep DEF SetPeers, AppliedAt
  <2>2. CASE cfg[p].peers # "real"
    BY <1>0, <1>3, <2>0, <2>2, CopyStep DEF SetPeers, PCs, AppliedAt
  <2> QED BY <2>1, <2>2
<1>4. CASE LinkUp(p)
  <2>0. prog[p] = "up" /\ clean[p] => link.key = cfg[p].key
    BY <1>4 DEF LinkUp, MiniInv, LinkReady
  <2>1. link' \in Links /\ link'.exists /\ link'.key = link.key /\ link'.up
    BY <1>0, <1>4, LinkFields DEF LinkUp
  <2> QED BY <1>4, <2>0, <2>1, LinkStep DEF LinkUp, AppliedAt
<1> QED BY <1>1, <1>2, <1>3, <1>4

\* Somebody else deletes the interface: no process is undisturbed any more.
LEMMA LinkGoesStep ==
  ASSUME MiniInv, LinkGoes
  PROVE  MiniInv'
<1> USE DEF MiniInv, LinkGoes
<1>1. MiniTypeOK'
  BY DefaultType DEF MiniTypeOK, NoLink, Links
<1>2. \A p \in Procs : ~clean'[p]
  OBVIOUS
<1> QED BY <1>1, <1>2 DEF KeyKnown, NeverSaved, KeyKept, PeersOfKey, LinkReady, SaidAtEnd, UpWorks

-----------------------------------------------------------------------------
(* The inductive invariant, and what it implies.                           *)

\* A host where the client never ran satisfies the invariant.
LEMMA InitMiniInv == MiniInit => MiniInv
<1> SUFFICES ASSUME MiniInit PROVE MiniInv
  OBVIOUS
<1>1. MiniTypeOK
  <2>1. file \in Files
    BY DefaultType DEF MiniInit, Missing, Files
  <2>2. link \in Links
    BY DefaultType DEF MiniInit, NoLink, Links
  <2>3. made \in Keys
    BY MaxKeysAssumption DEF MiniInit, Keys, NoKey
  <2> QED BY <2>1, <2>2, <2>3, DefaultType DEF MiniInit, MiniTypeOK, PCs
<1>2. file.state = "missing"
  BY DEF MiniInit, Missing
<1>3. PeersOfKey /\ LinkReady
  BY DEF MiniInit, PeersOfKey, LinkReady, AppliedAt
<1> QED BY <1>1, <1>2, <1>3 DEF MiniInit, MiniInv, KeyKnown, NeverSaved, KeyKept, SaidAtEnd, UpWorks

\* Every step of every command keeps the invariant.
LEMMA NextMiniInv == MiniInv /\ [MiniNext]_miniVars => MiniInv'
<1> SUFFICES ASSUME MiniInv, [MiniNext]_miniVars PROVE MiniInv'
  OBVIOUS
<1>1. CASE UNCHANGED miniVars
  BY <1>1 DEF miniVars, history, MiniInv, MiniTypeOK, KeyKnown, NeverSaved, KeyKept, PeersOfKey,
              LinkReady,
              SaidAtEnd, UpWorks
<1>2. CASE LinkGoes
  BY <1>2, LinkGoesStep
<1>3. ASSUME NEW p \in Procs,
             \/ \E g \in Progs : Begin(p, g)
             \/ Load(p) \/ Start(p) \/ Open(p) \/ Write(p)
      PROVE  MiniInv'
  BY <1>3, BeginStep, LoadStep, RegisterStep, ApplyStep, WgStep, OpenStep, WriteStep DEF Start
<1>4. ASSUME NEW p \in Procs, Status(p) \/ Fails(p) PROVE MiniInv'
  <2>1. /\ pc[p] # "idle" /\ Ends(p, pc[p])
        /\ UNCHANGED <<file, link, made, registered, lost, kept, said, clean>>
        /\ stale' \in [Procs -> BOOLEAN] /\ \A q \in Procs \ {p} : stale'[q] = stale[q]
    BY <1>4 DEF Status, Fails, Ends, Goto, history, MiniInv, MiniTypeOK
  <2>2. registered \subseteq Keys /\ NoKey \notin registered
    BY DEF MiniInv, MiniTypeOK, PeersOfKey
  <2> QED BY <2>1, <2>2, EndStep
<1> QED BY <1>1, <1>2, <1>3, <1>4 DEF MiniNext

\* The invariant holds in every reachable state.
LEMMA MiniInvariance == MiniSpec => []MiniInv
  BY InitMiniInv, NextMiniInv, PTL DEF MiniSpec

\* The processes, the file and the interface keep their types.
THEOREM MiniTypeCorrect == MiniSpec => []MiniTypeOK
<1>1. MiniInv => MiniTypeOK
  BY DEF MiniInv
<1> QED BY <1>1, MiniInvariance, PTL

\* The first key saved is kept by any number of commands that fail or are killed
\* anywhere, as long as none saves what it made of a file that was torn, could
\* not be read or is outdated.
THEOREM KeyKeptAlways == MiniSpec => []KeyKept
<1>1. MiniInv => KeyKept
  BY DEF MiniInv
<1> QED BY <1>1, MiniInvariance, PTL

\* An up that was left alone and returned has set the interface up with the key
\* in the file, registered if the peers are real.
THEOREM UpWorksAlways == MiniSpec => []UpWorks
<1>1. MiniInv => UpWorks
  BY DEF MiniInv
<1> QED BY <1>1, MiniInvariance, PTL
===============================================================================
