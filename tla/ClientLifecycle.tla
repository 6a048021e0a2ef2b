--------------------------- MODULE ClientLifecycle ---------------------------
(***************************************************************************)
(* The connect loop of the client (ConnectClient.run) and the goroutines   *)
(* of the engines it makes: the Management and Signal receivers, the       *)
(* signal message worker, and the monitors that ask for a restart.  They   *)
(* share Engine.syncMsgMux, the contexts, the client state (status and     *)
(* error) and Engine.wgInterface.                                          *)
(*                                                                         *)
(* An engine is its generation.  engineCtx, the context it is made with,   *)
(* is cancelled by the user's context or by clientCancel; e.ctx is a child *)
(* of it that Engine.Stop cancels alone.  A receiver is "connect" while it *)
(* connects or backs off and "stream" while it reads a stream; "wrap" and  *)
(* "cancel" are its last two statements after an unrecoverable error.      *)
(* Updates themselves are the subject of EngineSync, and how               *)
(* WaitStreamConnected waits that of SignalClient: here it may return once *)
(* the stream is there and must return once engineCtx is cancelled.  The   *)
(* three months after which the loop stops retrying are left out.          *)
(***************************************************************************)
EXTENDS Integers

CONSTANTS
  MaxEngines,   \* bound: engines made in one run
  Monitors      \* the monitors an engine starts
ASSUME MaxEnginesAssumption == MaxEngines \in Nat \ {0}
ASSUME MonitorsAssumption   == Monitors \subseteq {"network", "wgIface"}

Gens      == 1..MaxEngines
Receivers == {"mgmt", "signal"}

VARIABLES
  loop,       \* where ConnectClient.run is
  gen,        \* the engine of the current operation (0: none made yet)
  cEngine,    \* c.engine, 0 when nil
  userDone,   \* c.ctx is cancelled
  state,      \* the client state: status and wrapped error
  cancelled,  \* engines whose clientCancel was called
  stopped,    \* engines whose e.cancel was called
  mux,        \* holder of each engine's syncMsgMux, "free" if none
  wg,         \* engines whose interface is created and not closed
  routeMgr,   \* engines whose routeManager is not nil
  routing,    \* rules of SetupRouting are installed
  refused,    \* the last CleanupRouting was refused, and rules were left
  recv,       \* state of each engine's receivers
  worker,     \* state of each engine's signal message worker
  mon,        \* state of each engine's monitors
  crashed     \* a goroutine panicked, and the process with it

rules  == <<routing, refused>>
engine == <<cancelled, stopped, mux, wg, routeMgr, recv, worker, mon>>
vars   == <<loop, gen, cEngine, userDone, state, rules, crashed, engine>>

Statuses == {"Idle", "Connecting", "Connected", "NeedsLogin"}
Errors   == {"none", "reset", "other"}
Holders  == {"free", "loop", "mgmt"} \cup Monitors
LoopAt   == {"op", "dial", "key", "login", "signal", "config", "start", "setup",
             "dns", "routes", "create", "firewall", "up", "waitStream",
             "started", "running", "stop", "stopWait", "close", "exit"}
RecvAt   == {"none", "connect", "stream", "want", "apply", "wrap", "cancel", "done"}
WorkerAt == {"none", "idle", "want", "done"}
MonAt    == {"none", "spawned", "watch", "want", "cancel", "done"}

TypeOK ==
  /\ loop \in LoopAt
  /\ gen \in 0..MaxEngines
  /\ cEngine \in 0..MaxEngines
  /\ userDone \in BOOLEAN
  /\ state \in [status : Statuses, err : Errors]
  /\ cancelled \subseteq Gens
  /\ stopped \subseteq Gens
  /\ mux \in [Gens -> Holders]
  /\ wg \subseteq Gens
  /\ routeMgr \subseteq Gens
  /\ routing \in BOOLEAN
  /\ refused \in BOOLEAN
  /\ recv \in [Gens -> [Receivers -> RecvAt]]
  /\ worker \in [Gens -> WorkerAt]
  /\ mon \in [Gens -> [Monitors -> MonAt]]
  /\ crashed \in BOOLEAN

\* engineCtx.Err() # nil and e.ctx.Err() # nil.
Done(g)  == userDone \/ g \in cancelled
EDone(g) == Done(g) \/ g \in stopped

\* contextState.Set clears the error that Wrap stores.
Set(status) == [status |-> status, err |-> "none"]
Wrap(err)   == [state EXCEPT !.err = err]

\* A panic of one goroutine ends them all.
Alive == ~crashed

Go(from, to) == Alive /\ loop = from /\ loop' = to
Take(g, who) == mux[g] = "free" /\ mux' = [mux EXCEPT ![g] = who]
Drop(g, who) == mux[g] = who /\ mux' = [mux EXCEPT ![g] = "free"]

-----------------------------------------------------------------------------
(* ConnectClient.run.                                                      *)

\* The operation starts, first or after a backoff.
Operation ==
  /\ ~userDone
  /\ Go("op", "dial")
  /\ state' = Set("Connecting")
  /\ UNCHANGED <<gen, cEngine, userDone, rules, crashed, engine>>

\* run's deferred function sets the state to idle unless a login is needed.
Exited(s) == IF s.err = "none" /\ s.status = "NeedsLogin" THEN s ELSE Set("Idle")

OperationCancelled ==
  /\ userDone
  /\ Go("op", "exit")
  /\ state' = Exited(state)
  /\ UNCHANGED <<gen, cEngine, userDone, rules, crashed, engine>>

\* A step before NewEngine fails: the operation returns the wrapped error, after
\* closing the clients it has made.
OperationFails(at) ==
  /\ Go(at, "op")
  /\ state' = Wrap("other")
  /\ UNCHANGED <<gen, cEngine, userDone, rules, crashed, engine>>

OnlyLoop == UNCHANGED <<gen, cEngine, userDone, state, rules, crashed, engine>>

\* The connection to the Management Service is made, with retries until the
\* context ends or the backoff gives up.
NewMgmClient == Go("dial", "key") /\ OnlyLoop
DialFails    == OperationFails("dial")

\* The server's key is fetched: a key that cannot be had within five seconds, or
\* parsed, is a failed precondition, never a denied login.
GetServerPublicKey == Go("key", "login") /\ OnlyLoop
KeyFails           == OperationFails("key")

\* The call of Login does not end with the context but with its own timeout.
login      == Go("login", "signal") /\ OnlyLoop
LoginFails == OperationFails("login")

\* CleanupRouting removes the rules; a request that is refused leaves some, and
\* routeManager.Stop only logs that.
CleanupRouting ==
  \/ routing' = FALSE /\ refused' = FALSE
  \/ routing /\ routing' = TRUE /\ refused' = TRUE

\* Permission denied: c.Stop stops the engine that a failed Start left in
\* c.engine, if any, and with it the route manager that Start made, if it got
\* that far; the loop ends.
LoginDenied ==
  /\ Go("login", "exit")
  /\ state' = Set("NeedsLogin")
  /\ IF cEngine \in routeMgr THEN CleanupRouting ELSE UNCHANGED rules
  /\ stopped' = IF cEngine = 0 THEN stopped ELSE stopped \cup {cEngine}
  /\ UNCHANGED <<gen, cEngine, userDone, crashed, cancelled, mux, wg, routeMgr, recv, worker, mon>>

\* The Signal client is made from what the server answered; like the Management
\* client it retries until the context ends or the backoff gives up.
connectToSignal == Go("signal", "config") /\ OnlyLoop
SignalFails     == OperationFails("signal")

\* The preshared key does not parse, no port is free, or the relay token is
\* refused.
createEngineConfigFails == OperationFails("config")

\* The configuration is made: the engine is made and stored.
NewEngine ==
  /\ gen < MaxEngines
  /\ Go("config", "start")
  /\ gen' = gen + 1
  /\ cEngine' = gen + 1
  /\ UNCHANGED <<userDone, state, rules, crashed, engine>>

\* Engine.Start holds the mutex until it returns.
StartLocks ==
  /\ Go("start", "setup")
  /\ Take(gen, "loop")
  /\ UNCHANGED <<gen, cEngine, userDone, state, rules, crashed, cancelled,
                 stopped, wg, routeMgr, recv, worker, mon>>

\* Engine.close closes the interface, if there is one, and forgets it.
closeInterface(g) == wg' = wg \ {g}

\* A step of Start fails: the interface is closed if it was made, the rules stay,
\* and c.engine keeps the engine.  (If Rosenpass fails, wgInterface stays set,
\* but nothing was created.)
StartFails(at) ==
  /\ Go(at, "op")
  /\ Drop(gen, "loop")
  /\ state' = Wrap("other")
  /\ cancelled' = cancelled \cup {gen}
  /\ closeInterface(gen)
  /\ UNCHANGED <<gen, cEngine, userDone, rules, crashed, stopped, routeMgr,
                 recv, worker, mon>>

\* The MTU is checked, and the interface's instance made; nothing is created.
newWgIface      == Go("setup", "dns") /\ OnlyLoop
newWgIfaceFails == StartFails("setup")

\* Rosenpass, the initial settings and the DNS server.
newDnsServer      == Go("dns", "routes") /\ OnlyLoop
newDnsServerFails == StartFails("dns")

\* routeManager.Init removes the rules that it finds and installs them anew, or
\* fails and removes them, which Start only logs; that removal may be refused too.
InitRoutes ==
  /\ Go("routes", "create")
  /\ routeMgr' = routeMgr \cup {gen}
  /\ routing' \in BOOLEAN
  /\ refused' \in {FALSE, routing'}
  /\ UNCHANGED <<gen, cEngine, userDone, state, crashed, cancelled, stopped,
                 mux, wg, recv, worker, mon>>

wgInterfaceCreate ==
  /\ Go("create", "firewall")
  /\ wg' = wg \cup {gen}
  /\ UNCHANGED <<gen, cEngine, userDone, state, rules, crashed, cancelled,
                 stopped, mux, routeMgr, recv, worker, mon>>
wgInterfaceCreateFails == StartFails("create")

\* No firewall is no error; one that the route manager refuses is.
createFirewall    == Go("firewall", "up") /\ OnlyLoop
initFirewallFails == StartFails("firewall")

\* The interface is pulled up and the DNS server initialized; then
\* receiveSignalEvents starts the receiver.
StartSetsUp ==
  /\ Go("up", "waitStream")
  /\ recv' = [recv EXCEPT ![gen]["signal"] = "connect"]
  /\ UNCHANGED <<gen, cEngine, userDone, state, rules, crashed, cancelled,
                 stopped, mux, wg, routeMgr, worker, mon>>
UpFails == StartFails("up")

\* WaitStreamConnected returned: the other goroutines are started.
StartReturns ==
  /\ Go("waitStream", "started")
  /\ Drop(gen, "loop")
  /\ recv' = [recv EXCEPT ![gen]["mgmt"] = "connect"]
  /\ mon' = [mon EXCEPT ![gen] = [m \in Monitors |->
                                    IF m = "wgIface" THEN "spawned" ELSE "watch"]]
  /\ UNCHANGED <<gen, cEngine, userDone, state, rules, crashed, cancelled,
                 stopped, wg, routeMgr, worker>>

StreamSeen    == StartReturns /\ worker[gen] # "none"
WaitCancelled == StartReturns /\ Done(gen)

\* Start has returned to the operation, which sets the status.
SetConnected ==
  /\ Go("started", "running")
  /\ state' = Set("Connected")
  /\ UNCHANGED <<gen, cEngine, userDone, rules, crashed, engine>>

\* Mutant of OperationWakes: the status is set again, which clears the error.
OperationWakesSets ==
  /\ Done(gen)
  /\ Go("running", "stop")
  /\ cEngine' = 0
  /\ state' = Set("Connecting")
  /\ UNCHANGED <<gen, userDone, rules, crashed, engine>>

\* engineCtx is done: the engine is taken out of c.engine and stopped.
OperationWakes ==
  /\ Done(gen)
  /\ Go("running", "stop")
  /\ cEngine' = 0
  /\ UNCHANGED <<gen, userDone, state, rules, crashed, engine>>

\* Mutants of StopLocks: close is not called; the route manager is not stopped.
StopLocksAny(closed, cleanup) ==
  /\ Go("stop", "stopWait")
  /\ Take(gen, "loop")
  /\ stopped' = stopped \cup {gen}
  /\ wg' = wg \ closed
  /\ cleanup
  /\ UNCHANGED <<gen, cEngine, userDone, state, crashed, cancelled, recv, worker, mon, routeMgr>>
StopLocksNoClose == StopLocksAny({}, CleanupRouting)
StopLocksRoutes  == StopLocksAny({gen}, UNCHANGED rules)

\* Engine.Stop up to its wait for the goroutines; it keeps the mutex.
StopLocks ==
  /\ Go("stop", "stopWait")
  /\ Take(gen, "loop")
  /\ stopped' = stopped \cup {gen}
  /\ closeInterface(gen)
  /\ CleanupRouting
  /\ UNCHANGED <<gen, cEngine, userDone, state, crashed, cancelled, recv, worker, mon, routeMgr>>

\* The goroutines of shutdownWg have ended.
Drained(g) ==
  /\ \A r \in Receivers : recv[g][r] \in {"none", "done"}
  /\ \A m \in Monitors : mon[g][m] \in {"none", "done"}

StopReturns ==
  /\ Go("stopWait", "close")
  /\ Drop(gen, "loop")
  /\ UNCHANGED <<gen, cEngine, userDone, state, rules, crashed, cancelled,
                 stopped, wg, routeMgr, recv, worker, mon>>

StopDrained  == StopReturns /\ Drained(gen)
\* Mutant of StopTimesOut: the wait has no timeout.
StopNeverTimesOut == StopReturns /\ Drained(gen)

\* shutdownCtx expired, or the state manager did not stop and Stop gave up.
StopTimesOut == StopReturns /\ ~Drained(gen)

\* The deferred calls: signalClient.Close waits for the worker, and cancel.
\* A reset makes the operation return its error, which starts it again.
OperationReturns ==
  /\ loop = "close"
  /\ worker[gen] # "want"
  /\ \/ state.err = "reset" /\ Go("close", "op") /\ UNCHANGED state
     \/ state.err # "reset" /\ Go("close", "exit") /\ state' = Exited(state)
  /\ worker' = [worker EXCEPT ![gen] = "done"]
  /\ cancelled' = cancelled \cup {gen}
  /\ UNCHANGED <<gen, cEngine, userDone, rules, crashed, stopped, mux, wg, routeMgr, recv, mon>>

-----------------------------------------------------------------------------
(* The receivers: GrpcClient.Sync and GrpcClient.Receive with their retry  *)
(* loops, under receiveManagementEvents and receiveSignalEvents.           *)

At(g, r, from, to) ==
  Alive /\ recv[g][r] = from /\ recv' = [recv EXCEPT ![g][r] = to]

OnlyRecv == UNCHANGED <<loop, gen, cEngine, userDone, state, rules, crashed,
                        cancelled, stopped, mux, wg, routeMgr, worker, mon>>

\* A stream opens; the first Signal stream starts the message worker.
StreamOpens(g, r) ==
  /\ ~EDone(g)
  /\ At(g, r, "connect", "stream")
  /\ worker' = IF r = "signal" /\ worker[g] = "none"
               THEN [worker EXCEPT ![g] = "idle"] ELSE worker
  /\ UNCHANGED <<loop, gen, cEngine, userDone, state, rules, crashed,
                 cancelled, stopped, mux, wg, routeMgr, mon>>

StreamBreaks(g, r) == At(g, r, "stream", "connect") /\ OnlyRecv

\* The server cancels the call: taken for a shutdown, the receiver ends and
\* nobody is told.
ServerCancels(g, r) == At(g, r, "stream", "done") /\ OnlyRecv

\* The retry loop gives up: the server denied access, or was away too long.
GivesUp(g, r) == At(g, r, "connect", "wrap") /\ OnlyRecv

\* e.ctx is done: a receiver that reads returns nil, and one that connects or
\* backs off returns the context's error.
ReceiverCancelled(g, r) ==
  /\ EDone(g)
  /\ At(g, r, "stream", "done") \/ At(g, r, "connect", "wrap")
  /\ OnlyRecv

\* An update arrives and handleSync waits for the mutex, takes it, returns.
UpdateArrives(g) == ~EDone(g) /\ At(g, "mgmt", "stream", "want") /\ OnlyRecv

UpdateLocks(g) ==
  /\ At(g, "mgmt", "want", "apply")
  /\ Take(g, "mgmt")
  /\ UNCHANGED <<loop, gen, cEngine, userDone, state, rules, crashed,
                 cancelled, stopped, wg, routeMgr, worker, mon>>

UpdateHandled(g) ==
  /\ At(g, "mgmt", "apply", "stream")
  /\ Drop(g, "mgmt")
  /\ UNCHANGED <<loop, gen, cEngine, userDone, state, rules, crashed,
                 cancelled, stopped, wg, routeMgr, worker, mon>>

\* After an unrecoverable error: Wrap(ErrResetConnection), then clientCancel.
ReceiverWraps(g, r) ==
  /\ At(g, r, "wrap", "cancel")
  /\ state' = Wrap("reset")
  /\ UNCHANGED <<loop, gen, cEngine, userDone, rules, crashed, cancelled,
                 stopped, mux, wg, routeMgr, worker, mon>>

ReceiverCancels(g, r) ==
  /\ At(g, r, "cancel", "done")
  /\ cancelled' = cancelled \cup {g}
  /\ UNCHANGED <<loop, gen, cEngine, userDone, state, rules, crashed,
                 stopped, mux, wg, routeMgr, worker, mon>>

\* A peer's message reaches the worker, whose handler takes the mutex.
MessageArrives(g) ==
  /\ Alive
  /\ ~EDone(g)
  /\ recv[g]["signal"] = "stream"
  /\ worker[g] = "idle"
  /\ worker' = [worker EXCEPT ![g] = "want"]
  /\ UNCHANGED <<loop, gen, cEngine, userDone, state, rules, crashed,
                 cancelled, stopped, mux, wg, routeMgr, recv, mon>>

MessageHandled(g) ==
  /\ Alive
  /\ worker[g] = "want"
  /\ mux[g] = "free"
  /\ worker' = [worker EXCEPT ![g] = "idle"]
  /\ UNCHANGED <<loop, gen, cEngine, userDone, state, rules, crashed,
                 cancelled, stopped, mux, wg, routeMgr, recv, mon>>

-----------------------------------------------------------------------------
(* The monitors, and triggerClientRestart.                                 *)

MonAtTo(g, m, from, to) ==
  Alive /\ mon[g][m] = from /\ mon' = [mon EXCEPT ![g][m] = to]

OnlyMon == UNCHANGED <<loop, gen, cEngine, userDone, state, rules, crashed,
                       cancelled, stopped, mux, wg, routeMgr, recv, worker>>

\* The goroutine of the interface monitor first calls e.wgInterface.Name().
MonitorStarts(g, m) ==
  /\ MonAtTo(g, m, "spawned", "watch")
  /\ crashed' = (g \notin wg)
  /\ UNCHANGED <<loop, gen, cEngine, userDone, state, rules, cancelled,
                 stopped, mux, wg, routeMgr, recv, worker>>

\* A change is seen, and triggerClientRestart waits for the mutex.
ChangeSeen(g, m) == ~EDone(g) /\ MonAtTo(g, m, "watch", "want") /\ OnlyMon

MonitorCancelled(g, m) == EDone(g) /\ MonAtTo(g, m, "watch", "done") /\ OnlyMon

RestartIgnored(g, m) ==
  /\ EDone(g)
  /\ mux[g] = "free"
  /\ MonAtTo(g, m, "want", "done")
  /\ OnlyMon

\* Mutant of RestartWraps: e.ctx is not looked at.
RestartWrapsLate(g, m) ==
  /\ Take(g, m)
  /\ MonAtTo(g, m, "want", "cancel")
  /\ state' = [status |-> "Connecting", err |-> "reset"]
  /\ UNCHANGED <<loop, gen, cEngine, userDone, rules, crashed, cancelled,
                 stopped, wg, routeMgr, recv, worker>>

RestartWraps(g, m) ==
  /\ ~EDone(g)
  /\ Take(g, m)
  /\ MonAtTo(g, m, "want", "cancel")
  /\ state' = [status |-> "Connecting", err |-> "reset"]
  /\ UNCHANGED <<loop, gen, cEngine, userDone, rules, crashed, cancelled,
                 stopped, wg, routeMgr, recv, worker>>

RestartCancels(g, m) ==
  /\ Drop(g, m)
  /\ MonAtTo(g, m, "cancel", "done")
  /\ cancelled' = cancelled \cup {g}
  /\ UNCHANGED <<loop, gen, cEngine, userDone, state, rules, crashed,
                 stopped, wg, routeMgr, recv, worker>>

-----------------------------------------------------------------------------
\* The user ends the client.
UserCancels ==
  /\ Alive
  /\ ~userDone
  /\ userDone' = TRUE
  /\ UNCHANGED <<loop, gen, cEngine, state, rules, crashed, engine>>

Init ==
  /\ loop = "op"
  /\ gen = 0
  /\ cEngine = 0
  /\ userDone = FALSE
  /\ state = Set("Idle")
  /\ cancelled = {}
  /\ stopped = {}
  /\ mux = [g \in Gens |-> "free"]
  /\ wg = {}
  /\ routeMgr = {}
  /\ routing = FALSE
  /\ refused = FALSE
  /\ recv = [g \in Gens |-> [r \in Receivers |-> "none"]]
  /\ worker = [g \in Gens |-> "none"]
  /\ mon = [g \in Gens |-> [m \in Monitors |-> "none"]]
  /\ crashed = FALSE

\* The steps the connect loop takes without waiting for anything but a mutex,
\* a cancelled context, ended goroutines or a timeout.
LoopSteps ==
  \/ Operation \/ OperationCancelled
  \/ NewMgmClient \/ DialFails \/ GetServerPublicKey \/ KeyFails
  \/ login \/ LoginFails \/ LoginDenied
  \/ connectToSignal \/ SignalFails \/ createEngineConfigFails \/ NewEngine
  \/ StartLocks \/ newWgIface \/ newWgIfaceFails
  \/ newDnsServer \/ newDnsServerFails \/ InitRoutes
  \/ wgInterfaceCreate \/ wgInterfaceCreateFails
  \/ createFirewall \/ initFirewallFails \/ StartSetsUp \/ UpFails
  \/ WaitCancelled
  \/ SetConnected \/ OperationWakes
  \/ StopLocks \/ StopDrained \/ StopTimesOut
  \/ OperationReturns

ReceiverSteps(g, r) ==
  \/ ReceiverCancelled(g, r)
  \/ ReceiverWraps(g, r)
  \/ ReceiverCancels(g, r)

HandlerSteps(g) == UpdateLocks(g) \/ UpdateHandled(g)

MonitorSteps(g, m) ==
  \/ MonitorStarts(g, m)
  \/ MonitorCancelled(g, m)
  \/ RestartIgnored(g, m)
  \/ RestartWraps(g, m)
  \/ RestartCancels(g, m)

ServerSteps(g, r) ==
  \/ StreamOpens(g, r)
  \/ StreamBreaks(g, r)
  \/ ServerCancels(g, r)
  \/ GivesUp(g, r)

Next ==
  \/ LoopSteps
  \/ StreamSeen
  \/ UserCancels
  \/ \E g \in Gens :
       \/ HandlerSteps(g)
       \/ UpdateArrives(g)
       \/ MessageArrives(g)
       \/ MessageHandled(g)
       \/ \E r \in Receivers : ServerSteps(g, r) \/ ReceiverSteps(g, r)
       \/ \E m \in Monitors : ChangeSeen(g, m) \/ MonitorSteps(g, m)

Spec == Init /\ [][Next]_vars

\* Goroutines are scheduled fairly, a Go mutex starves nobody, and every step
\* counted here ends by itself; what servers, peers and users do is not fair.
Fairness ==
  /\ WF_vars(LoopSteps)
  /\ \A g \in Gens :
       /\ WF_vars(HandlerSteps(g))
       /\ WF_vars(MessageHandled(g))
       /\ \A r \in Receivers : WF_vars(ReceiverSteps(g, r))
       /\ \A m \in Monitors : WF_vars(MonitorSteps(g, m))

FairSpec == Spec /\ Fairness

-----------------------------------------------------------------------------
(* Properties.                                                             *)

\* At most one engine has an interface: whatever makes the loop start another
\* engine (a reset, a failed Start, a Stop that timed out), the interface of
\* the one before it is closed.
OneInterface == \A g, h \in wg : g = h

\* The rules belong to the newest engine that called Init, until it is stopped.
OwnsRules(g) == g \in routeMgr \ stopped /\ \A h \in routeMgr : h <= g

\* The engine has called Init, and Start goes on, the engine runs, or Stop is
\* next.
Serving(g) == g = gen /\ loop \in {"create", "firewall", "up", "waitStream",
                                   "started", "running", "stop"}

\* Start failed: the engine is cancelled and has started no receiver.
StartFailed(g) == g \in cancelled /\ recv[g]["signal"] = "none"

\* No rule that SetupRouting installed outlives the engine that owns it: it is
\* there while that engine starts, runs or is about to be stopped; else the
\* kernel refused to remove it, or the owner's Start failed after Init, and
\* neither a later Init nor c.Stop has been called since.  In particular a
\* denied login removes what the engine in c.engine has left.
RoutingOwned ==
  routing /\ ~refused => \E g \in Gens : OwnsRules(g) /\ (Serving(g) \/ StartFailed(g))

\* A client that has exited is idle or needs a login: no goroutine that
\* outlives Stop (triggerClientRestart after a timed out Stop) says otherwise.
ExitSettles == loop = "exit" => state.status \in {"Idle", "NeedsLogin"}

\* Stop holds syncMsgMux while it waits for goroutines that may be waiting for
\* syncMsgMux: cancelling the client still ends the loop, by the timeout.
CancelLeadsToExit == userDone ~> (loop = "exit" \/ crashed)

\* An engine that is cancelled for a reset while the operation waits on
\* engineCtx makes the loop run the operation again: nothing that happens until
\* then (Stop, its timeout, goroutines that end late) loses the reset.
ResetRetries ==
  (loop = "running" /\ gen \in cancelled /\ state.err = "reset")
     ~> (loop = "op" \/ userDone \/ crashed)

\* Engine.shutdownWg "tracks all long-running goroutines to ensure clean
\* shutdown": no goroutine of the engine uses the interface that Stop has
\* closed, which would end the process.
NoUseAfterClose == ~crashed
=============================================================================
