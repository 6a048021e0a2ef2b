---------------------------- MODULE RouteManager ----------------------------
(***************************************************************************)
(* The route manager of the engine (internal/routemanager/manager.go) over *)
(* the linux routing it drives (systemops_linux.go), with advanced routing *)
(* and client routes enabled.                                              *)
(*                                                                         *)
(* What the kernel holds (rules, the netbird table, the sysctl values)     *)
(* outlives the process; the manager's maps do not.  The engine calls the  *)
(* manager with syncMsgMux held, so its calls do not overlap: phase is     *)
(* where the current call is.  Each request to the kernel is a step of its *)
(* own and may be refused, and the process may die between any two.  A     *)
(* refusal for want of support (isOpErr, as for IPv6 on a host without it) *)
(* is no error: the code goes on as if the request had been met.           *)
(*                                                                         *)
(* A network is an HAUniqueID.  Several networks may have the same prefix, *)
(* and the routes of a prefix are counted (routeRefCounter, external).     *)
(* What the route selector decides about exit nodes, the watchers' choice  *)
(* of a peer, the server router and the legacy routing are external too.   *)
(***************************************************************************)
EXTENDS Integers

CONSTANTS
  Networks,    \* the networks management may announce
  Prefixes,    \* their prefixes
  PrefixOf,    \* the prefix of each network
  Default,     \* vars.Defaultv4, the prefix of an exit node
  NotAllowed,  \* prefixes validateRoute rejects
  Blackhole,   \* the unreachable IPv6 default route
  NoItem,      \* no item is half way
  RuleCount,   \* the number of rules getSetupRules returns: 4, two for each family
  MaxFaults    \* bound: requests the kernel refuses

ASSUME NetworksAssumption == PrefixOf \in [Networks -> Prefixes]
ASSUME BlackholeAssumption == Blackhole \notin Prefixes
ASSUME NoItemAssumption == NoItem \notin Networks \cup Prefixes
ASSUME RuleCountAssumption == RuleCount \in 1..4
ASSUME MaxFaultsAssumption == MaxFaults \in Nat

Rules  == 1..RuleCount             \* getSetupRules, in order
Routes == Prefixes \cup {Blackhole}
ASSUME RulesAssumption == Rules \cap Routes = {}

VARIABLES
  rules,            \* kernel: the rules that are set
  table,            \* kernel: the routes of NetbirdVPNTableID
  sysctl,           \* kernel: the sysctl values, "user" or "vpn"
  originalSysctl,   \* the values to restore, a variable of the process
  phase,            \* where the manager is
  after,            \* where it goes once CleanupRouting is over
  todo,             \* what the current loop has still to visit
  half,             \* the item between the two requests for an exit node
  refs,             \* routeRefCounter: references to each prefix
  unsupported,      \* history: routes last reported as added that the kernel did not take
  activeRoutes,     \* networks with a handler in activeRoutes
  clientNetworks,   \* networks whose watcher runs
  clientRoutes,     \* the client networks of the last update
  announced,        \* the client networks of the update at work
  wanted,           \* of these, the ones selected
  faults,           \* requests that failed
  residue,          \* history: routes and rules that a failed request left
  userLost          \* history: the user's sysctl values are lost

kernel  == <<rules, table, sysctl>>
control == <<phase, after, todo, half>>
manager == <<refs, unsupported, activeRoutes, clientNetworks, clientRoutes>>
update  == <<announced, wanted>>
history == <<faults, residue, userLost>>
vars    == <<kernel, originalSysctl, control, manager, update, history>>

Cleaning == {"list4", "flush4", "list6", "flush6", "unrule"}
Serving  == {"idle", "remove", "add"}
Phases   == Cleaning \cup Serving \cup {"off", "rule", "started", "failed", "flushRefs", "stopped"}

TypeOK ==
  /\ rules \subseteq Rules
  /\ table \subseteq Routes
  /\ sysctl \in {"user", "vpn"}
  /\ originalSysctl \in {"nil", "user", "vpn"}
  /\ phase \in Phases
  /\ after \in {"rule", "started", "stopped"}
  /\ todo \subseteq Networks \cup Routes \cup Rules
  /\ half \in Networks \cup Prefixes \cup {NoItem}
  /\ refs \in [Prefixes -> Nat]
  /\ unsupported \subseteq Routes
  /\ activeRoutes \subseteq Networks
  /\ clientNetworks \subseteq Networks
  /\ clientRoutes \subseteq Networks
  /\ announced \subseteq Networks
  /\ wanted \subseteq Networks
  /\ faults \in 0..MaxFaults
  /\ residue \subseteq Routes \cup Rules
  /\ userLost \in BOOLEAN

NoRefs == [p \in Prefixes |-> 0]

Init ==
  /\ rules = {} /\ table = {} /\ sysctl = "user"
  /\ originalSysctl = "nil"
  /\ phase = "off" /\ after = "stopped" /\ todo = {} /\ half = NoItem
  /\ refs = NoRefs /\ unsupported = {} /\ activeRoutes = {} /\ clientNetworks = {}
  /\ clientRoutes = {}
  /\ announced = {} /\ wanted = {}
  /\ faults = 0 /\ residue = {} /\ userLost = FALSE

-----------------------------------------------------------------------------
(* Requests to the kernel *)

Works == faults' = faults
Fails == faults < MaxFaults /\ faults' = faults + 1

\* RouteDel was refused for each of the routes rs.
RouteStays(rs) ==
  /\ residue' = residue \cup (table \cap rs)
  /\ UNCHANGED table

\* RouteDel without an error: the route is gone, as it may have been before,
\* or the request was refused as not supported.
RouteDel(r) ==
  \/ Works /\ table' = table \ {r} /\ residue' = residue \ {r}
  \/ Fails /\ RouteStays({r})

-----------------------------------------------------------------------------
(* CleanupRouting: both families of routes, the rules, the sysctl values.   *)
(* An error is collected and the next step is taken.                        *)

Cleanup(then) == phase' = "list4" /\ after' = then /\ todo' = {}

Family == IF phase \in {"list4", "flush4"} THEN Prefixes ELSE {Blackhole}

\* flushRoutes: the routes of the table are listed.
ListRoutes ==
  /\ phase \in {"list4", "list6"}
  /\ phase' = IF phase = "list4" THEN "flush4" ELSE "flush6"
  /\ \/ Works /\ todo' = table \cap Family /\ UNCHANGED <<table, residue>>
     \/ Fails /\ todo' = {} /\ RouteStays(Family)
  /\ UNCHANGED <<rules, sysctl, originalSysctl, after, half, manager, update, userLost>>

\* flushRoutes: one of the listed routes is deleted, or stays: an error is only
\* collected.
FlushRoute(r) ==
  /\ phase \in {"flush4", "flush6"}
  /\ r \in todo
  /\ todo' = todo \ {r}
  /\ RouteDel(r)
  /\ UNCHANGED <<rules, sysctl, originalSysctl, phase, after, half, manager, update, userLost>>

FlushEnds ==
  /\ phase \in {"flush4", "flush6"}
  /\ todo = {}
  /\ IF phase = "flush4" THEN phase' = "list6" /\ todo' = {}
                         ELSE phase' = "unrule" /\ todo' = Rules
  /\ UNCHANGED <<kernel, originalSysctl, after, half, manager, update, history>>

First(rs) == CHOOSE r \in rs : \A s \in rs : r <= s

\* removeRule, in the order of getSetupRules.
RemoveRule ==
  /\ phase = "unrule"
  /\ todo # {}
  /\ LET r == First(todo) IN
     /\ todo' = todo \ {r}
     /\ \/ Works /\ rules' = rules \ {r} /\ residue' = residue \ {r}
        \/ Fails /\ residue' = residue \cup (rules \cap {r}) /\ UNCHANGED rules
  /\ UNCHANGED <<table, sysctl, originalSysctl, phase, after, half, manager, update, userLost>>

\* A mutant: the sysctl values are forgotten before they are restored.
SysctlForgotten ==
  /\ phase = "unrule"
  /\ todo = {}
  /\ originalSysctl' = "nil"
  /\ phase' = after
  /\ todo' = IF after = "rule" THEN Rules ELSE {}
  /\ clientRoutes' = IF after = "stopped" THEN {} ELSE clientRoutes
  /\ UNCHANGED <<kernel, residue, faults, after, half, refs, unsupported,
                 activeRoutes, clientNetworks, update, userLost>>

\* sysctl.Cleanup, and CleanupRouting is over.  originalSysctl is reset even
\* if the values could not be restored.  Init goes on with SetupRouting, the
\* end of a failed SetupRouting is the end of Init, and Stop forgets
\* clientRoutes.
CleanupEnds ==
  /\ phase = "unrule"
  /\ todo = {}
  /\ \/ /\ Works
        /\ sysctl' = IF originalSysctl = "nil" THEN sysctl ELSE originalSysctl
        /\ UNCHANGED userLost
     \/ /\ Fails /\ originalSysctl # "nil"
        /\ userLost' = TRUE
        /\ UNCHANGED sysctl
  /\ originalSysctl' = "nil"
  /\ phase' = after
  /\ todo' = IF after = "rule" THEN Rules ELSE {}
  /\ clientRoutes' = IF after = "stopped" THEN {} ELSE clientRoutes
  /\ UNCHANGED <<rules, table, after, half, refs, unsupported, activeRoutes, clientNetworks,
                 update, residue>>

-----------------------------------------------------------------------------
(* NewManager, Init with SetupRouting, and the rest of Engine.Start *)

\* A mutant: Init relies on the Stop before it.
StartsUncleaned ==
  /\ phase \in {"off", "failed", "stopped"}
  /\ phase' = "rule" /\ todo' = Rules
  /\ refs' = NoRefs /\ unsupported' = {} /\ activeRoutes' = {} /\ clientNetworks' = {}
  /\ clientRoutes' = {}
  /\ UNCHANGED <<kernel, originalSysctl, after, half, update, history>>

\* NewManager, and Init calls CleanupRouting.
Start ==
  /\ phase \in {"off", "failed", "stopped"}
  /\ Cleanup("rule")
  /\ refs' = NoRefs /\ unsupported' = {} /\ activeRoutes' = {} /\ clientNetworks' = {}
  /\ clientRoutes' = {}
  /\ UNCHANGED <<kernel, originalSysctl, half, update, history>>

\* addRule: a rule that is already there, or not supported, is no error.  Any
\* other error ends SetupRouting, which cleans up; the engine logs it and goes on.
AddRule ==
  /\ phase = "rule"
  /\ todo # {}
  /\ LET r == First(todo) IN
     \/ /\ \/ Works /\ rules' = rules \cup {r}
           \/ Fails /\ UNCHANGED rules
        /\ todo' = todo \ {r} /\ UNCHANGED <<phase, after>>
     \/ Fails /\ UNCHANGED rules /\ Cleanup("started")
  /\ UNCHANGED <<table, sysctl, originalSysctl, half, manager, update, residue, userLost>>

\* sysctl.Setup sets the values and returns the ones it replaced.
SetupSysctl ==
  /\ phase = "rule"
  /\ todo = {}
  /\ phase' = "started"
  /\ \/ Works /\ sysctl' = "vpn" /\ originalSysctl' = sysctl
     \/ Fails /\ originalSysctl' = "nil" /\ UNCHANGED sysctl
  /\ UNCHANGED <<rules, table, after, todo, half, manager, update, residue, userLost>>

\* The kernel drops the routes through an interface that is deleted.
InterfaceGone ==
  /\ table' = table \ Prefixes
  /\ residue' = residue \ Prefixes

\* The interface is created anew, SetFirewall and the rest of Engine.Start.
StartEnds ==
  /\ phase = "started"
  /\ phase' = "idle"
  /\ InterfaceGone
  /\ UNCHANGED <<rules, sysctl, originalSysctl, after, todo, half, manager, update, faults,
                 userLost>>

\* Engine.Start fails after Init: the interface is closed or could not be
\* replaced, and the manager is not stopped.  A new engine may follow without a call of Stop.
StartFails ==
  /\ phase = "started"
  /\ phase' = "failed"
  /\ InterfaceGone \/ UNCHANGED <<table, residue>>
  /\ UNCHANGED <<rules, sysctl, originalSysctl, after, todo, half, manager, update, faults,
                 userLost>>

-----------------------------------------------------------------------------
(* UpdateRoutes and TriggerSelection *)

ExitNodes == {n \in Networks : PrefixOf[n] = Default}

\* FilterSelectedExitNodes keeps every network but the exit nodes that are
\* not selected.
Filtered(ns) == {ns \ deselected : deselected \in SUBSET (ns \cap ExitNodes)}

\* updateSystemRoutes: what is active and no longer wanted goes first.
updateSystemRoutes(ns, chosen) ==
  /\ announced' = ns
  /\ wanted' = chosen
  /\ phase' = "remove"
  /\ todo' = activeRoutes \ chosen

\* UpdateRoutes with the networks ClassifyRoutes made client networks, the
\* ones this peer does not serve itself.
UpdateRoutes(ns) ==
  /\ phase = "idle"
  /\ \E chosen \in Filtered(ns) : updateSystemRoutes(ns, chosen)
  /\ UNCHANGED <<kernel, originalSysctl, after, half, manager, history>>

\* TriggerSelection, by a caller outside of the repository, with some of the
\* networks that GetClientRoutes returned.
TriggerSelection(ns) ==
  /\ phase = "idle"
  /\ ns \subseteq clientRoutes
  /\ \E chosen \in Filtered(ns) : updateSystemRoutes(clientRoutes, chosen)
  /\ UNCHANGED <<kernel, originalSysctl, after, half, manager, history>>

\* RemoveVPNRoute of prefix p for the item i: for an exit node the
\* unreachable IPv6 route goes first, and the route only if that worked.
Unblock(i) ==
  /\ half = NoItem
  /\ RouteDel(Blackhole)
  /\ unsupported' = unsupported \ {Blackhole}
  /\ half' = i

\* The unreachable route stays, and with it the route.
UnblockFails ==
  half = NoItem /\ Fails /\ RouteStays({Blackhole, Default}) /\ UNCHANGED <<half, unsupported>>

\* A mutant: the unreachable route is optional.
UnroutableAnyway(i, p) == half \in {i, NoItem}

\* The two requests for an exit node are made in this order.
Unroutable(i, p) == IF p = Default THEN half = i ELSE half = NoItem

Unroute(i, p) ==
  Unroutable(i, p) /\ RouteDel(p) /\ half' = NoItem /\ unsupported' = unsupported \ {p}

UnrouteFails(i, p) ==
  Unroutable(i, p) /\ Fails /\ RouteStays({p}) /\ half' = NoItem /\ UNCHANGED unsupported

\* RemoveRoute of a handler drops a reference; the last one removes the
\* route, and stays if that fails.  The handler is dropped in every case.
RemoveRoute(n) ==
  LET p == PrefixOf[n]
      Dropped == todo' = todo \ {n} /\ activeRoutes' = activeRoutes \ {n}
      Refs(k) == refs' = [refs EXCEPT ![p] = k]
  IN
  /\ phase = "remove"
  /\ n \in todo /\ half \in {n, NoItem}
  /\ \/ /\ refs[p] > 1
        /\ Dropped /\ Refs(refs[p] - 1)
        /\ UNCHANGED <<table, unsupported, half, faults, residue>>
     \/ /\ refs[p] = 1 /\ p = Default
        /\ \/ Unblock(n) /\ UNCHANGED <<todo, activeRoutes, refs>>
           \/ UnblockFails /\ Dropped /\ UNCHANGED refs
     \/ /\ refs[p] = 1
        /\ \/ Unroute(n, p) /\ Dropped /\ Refs(0)
           \/ UnrouteFails(n, p) /\ Dropped /\ UNCHANGED refs
  /\ UNCHANGED <<rules, sysctl, originalSysctl, phase, after, clientNetworks, clientRoutes,
                 update, userLost>>

\* A mutant: only networks that are new in this update are added.
AddsNewOnly ==
  /\ phase = "remove"
  /\ todo = {}
  /\ phase' = "add"
  /\ todo' = wanted \ clientRoutes
  /\ UNCHANGED <<kernel, originalSysctl, after, half, manager, update, history>>

\* What is wanted and not active is added next.
RemovalEnds ==
  /\ phase = "remove"
  /\ todo = {}
  /\ phase' = "add"
  /\ todo' = wanted \ activeRoutes
  /\ UNCHANGED <<kernel, originalSysctl, after, half, manager, update, history>>

\* RouteAdd without an error: the kernel takes a route that is not in the table
\* yet, or the request is refused as not supported.
RouteAdd(r) ==
  \/ r \notin table /\ Works /\ table' = table \cup {r} /\ unsupported' = unsupported \ {r}
  \/ Fails /\ UNCHANGED table /\ unsupported' = unsupported \cup ({r} \ table)

\* It refuses one that is, and may refuse any.
RouteAddFails(r) == ((r \in table /\ Works) \/ Fails) /\ UNCHANGED <<table, unsupported>>

\* AddRoute of a handler adds a reference; the first one calls AddVPNRoute,
\* which for an exit node adds the unreachable IPv6 route first.  A handler
\* whose AddRoute failed is not kept, but the unreachable route is.
AddRoute(n) ==
  LET p == PrefixOf[n]
      Done  == todo' = todo \ {n} /\ half' = NoItem
      Added == activeRoutes' = activeRoutes \cup {n} /\ refs' = [refs EXCEPT ![p] = @ + 1]
      NotAdded == UNCHANGED <<activeRoutes, refs>>
  IN
  /\ phase = "add"
  /\ n \in todo /\ half \in {n, NoItem}
  /\ \/ /\ refs[p] > 0
        /\ Done /\ Added
        /\ UNCHANGED <<table, unsupported, faults, residue>>
     \/ /\ refs[p] = 0 /\ p \in NotAllowed
        /\ Done /\ NotAdded
        /\ UNCHANGED <<table, unsupported, faults, residue>>
     \/ /\ refs[p] = 0 /\ p \notin NotAllowed /\ p = Default /\ half = NoItem
        /\ \/ RouteAdd(Blackhole) /\ half' = n /\ NotAdded /\ UNCHANGED todo
           \/ RouteAddFails(Blackhole) /\ Done /\ NotAdded
        /\ UNCHANGED residue
     \/ /\ refs[p] = 0 /\ p \notin NotAllowed /\ Unroutable(n, p)
        /\ \/ RouteAdd(p) /\ Done /\ Added /\ UNCHANGED residue
           \/ /\ RouteAddFails(p) /\ Done /\ NotAdded
              /\ residue' = residue \cup {r \in table \cap {Blackhole} : half = n}
  /\ UNCHANGED <<rules, sysctl, originalSysctl, phase, after, clientNetworks, clientRoutes,
                 update, userLost>>

\* A mutant: a watcher is started for every network that is wanted.
WatchesAll ==
  /\ phase = "add"
  /\ todo = {}
  /\ phase' = "idle"
  /\ clientNetworks' = wanted
  /\ clientRoutes' = announced
  /\ announced' = {} /\ wanted' = {}
  /\ UNCHANGED <<kernel, originalSysctl, after, todo, half, refs, unsupported, activeRoutes,
                 history>>

\* updateClientNetworks: watchers of other networks stop, and a network that
\* has none gets one if it has a handler.
UpdateEnds ==
  /\ phase = "add"
  /\ todo = {}
  /\ phase' = "idle"
  /\ clientNetworks' = (clientNetworks \cup activeRoutes) \cap wanted
  /\ clientRoutes' = announced
  /\ announced' = {} /\ wanted' = {}
  /\ UNCHANGED <<kernel, originalSysctl, after, todo, half, refs, unsupported, activeRoutes,
                 history>>

-----------------------------------------------------------------------------
(* Stop, and the end of the process *)

\* Stop ends the watchers and flushes the reference counter.
Stop ==
  /\ phase \in {"idle", "failed"}
  /\ phase' = "flushRefs"
  /\ todo' = {p \in Prefixes : refs[p] > 0}
  /\ clientNetworks' = {}
  /\ UNCHANGED <<kernel, originalSysctl, after, half, refs, unsupported, activeRoutes,
                 clientRoutes, update, history>>

\* Flush removes the route of each prefix that has references.
FlushRef(p) ==
  /\ phase = "flushRefs"
  /\ p \in todo /\ half \in {p, NoItem}
  /\ \/ /\ p = Default
        /\ \/ Unblock(p) /\ UNCHANGED todo
           \/ UnblockFails /\ todo' = todo \ {p}
     \/ Unroute(p, p) /\ todo' = todo \ {p}
     \/ UnrouteFails(p, p) /\ todo' = todo \ {p}
  /\ UNCHANGED <<rules, sysctl, originalSysctl, phase, after, refs, activeRoutes,
                 clientNetworks, clientRoutes, update, userLost>>

\* Every reference is forgotten, and CleanupRouting is called.
FlushRefsEnds ==
  /\ phase = "flushRefs"
  /\ todo = {}
  /\ refs' = NoRefs /\ unsupported' = {}
  /\ Cleanup("stopped")
  /\ UNCHANGED <<kernel, originalSysctl, half, activeRoutes, clientNetworks, clientRoutes,
                 update, history>>

\* The process is killed, or ends without a call of Stop.
Crash ==
  /\ phase # "off"
  /\ originalSysctl' = "nil"
  /\ userLost' = (userLost \/ sysctl = "vpn")
  /\ phase' = "off" /\ after' = "stopped" /\ todo' = {} /\ half' = NoItem
  /\ refs' = NoRefs /\ unsupported' = {} /\ activeRoutes' = {} /\ clientNetworks' = {}
  /\ clientRoutes' = {}
  /\ announced' = {} /\ wanted' = {}
  /\ UNCHANGED <<kernel, faults, residue>>

-----------------------------------------------------------------------------
Cleans ==
  \/ ListRoutes \/ FlushEnds \/ RemoveRule \/ CleanupEnds
  \/ \E r \in Routes : FlushRoute(r)

Updates ==
  \/ \E n \in Networks : RemoveRoute(n) \/ AddRoute(n)
  \/ RemovalEnds \/ UpdateEnds

Starts == AddRule \/ SetupSysctl \/ StartEnds \/ StartFails

Stops == FlushRefsEnds \/ \E p \in Prefixes : FlushRef(p)

Next ==
  \/ Start \/ Starts \/ Cleans \/ Updates \/ Stops \/ Stop \/ Crash
  \/ \E ns \in SUBSET Networks : UpdateRoutes(ns) \/ TriggerSelection(ns)

Spec == Init /\ [][Next]_vars

\* A call that has begun goes on.
FairSpec == Spec /\ WF_vars(Cleans) /\ WF_vars(Updates) /\ WF_vars(Starts) /\ WF_vars(Stops)

-----------------------------------------------------------------------------
(* Properties *)

\* Between updates, the watchers are those of the active handlers, every
\* active network is one management announced, and its prefix is routed, or
\* the kernel did not support its route when it was added: addRoute passes
\* over that error.  updateSystemRoutes and updateClientNetworks agree whatever
\* else failed.
RoutesConsistent ==
  phase = "idle" =>
    /\ clientNetworks = activeRoutes
    /\ activeRoutes \subseteq clientRoutes
    /\ \A n \in activeRoutes : PrefixOf[n] \in table \cup unsupported

\* The networks the manager added route r for.
Owners(r) == {n \in activeRoutes : r = PrefixOf[n] \/ (r = Blackhole /\ PrefixOf[n] = Default)}

\* Between updates, every route of the table belongs to an active network or
\* was left by a request that failed: none survives the process that added
\* it, and none stays for a network that was withdrawn, also if it shared its
\* prefix with another one.
NoStaleRoutes ==
  phase = "idle" => \A r \in table : r \in residue \/ Owners(r) # {}

\* While IPv4 traffic leaves through an exit node, IPv6 traffic cannot leave
\* beside it: the unreachable route is in the table, or the host had no IPv6
\* routes when the exit node was added (isOpErr; nothing adds the route if it
\* gets them later), or the exit node's route is one that could not be deleted.
V6Blocked ==
  (phase = "idle" /\ Default \in table \ residue) => Blackhole \in table \cup unsupported

\* After Stop nothing is left in the kernel but what could not be deleted,
\* and the sysctl values are the user's unless they could not be restored or
\* a process died with them changed.
CleanStop ==
  phase = "stopped" =>
    /\ table \cup rules \subseteq residue
    /\ sysctl = "user" \/ userLost

\* The table has a route for network n although its prefix has no reference.
Leftover(n) ==
  /\ refs[PrefixOf[n]] = 0
  /\ \/ PrefixOf[n] \in table
     \/ PrefixOf[n] = Default /\ Blackhole \in table

\* A network that every update wants is active from some update on, although
\* adding it may have failed before.  The exception is a route that is in the
\* table without a reference, left there by an AddVPNRoute that failed half way,
\* a flush that failed or a deletion that was not supported: RouteAdd refuses
\* it from then on.
Retried ==
  \A n \in Networks :
    (/\ <>[](phase \in Serving)
     /\ <>[](phase = "add" => n \in wanted)
     /\ []<>(phase = "remove"))
    => \/ <>[](n \in activeRoutes)
       \/ PrefixOf[n] \in NotAllowed
       \/ <>[]Leftover(n)
=============================================================================
