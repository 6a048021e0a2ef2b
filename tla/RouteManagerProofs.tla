-------------------------- MODULE RouteManagerProofs --------------------------
(***************************************************************************)
(* RoutesConsistent, NoStaleRoutes, V6Blocked and CleanStop of the route   *)
(* manager, for any networks, prefixes and number of refused requests.     *)
(* The argument turns on the reference counter: a count is never less than *)
(* the active networks of its prefix, and where it is more a request that  *)
(* failed has left the route.                                              *)
(***************************************************************************)
EXTENDS RouteManager, FiniteSetTheorems, TLAPS

\* The active networks with prefix p.
Users(ns, p) == {n \in ns : PrefixOf[n] = p}
Count(p)     == Cardinality(Users(activeRoutes, p))

\* What the loops visit, and the item that waits for its second request.
Loops ==
  /\ phase \in {"flush4", "flush6"} => todo \subseteq Routes
  /\ phase \in {"unrule", "rule"} => todo \subseteq Rules
  /\ phase \in {"remove", "add"} => todo \subseteq Networks
  /\ phase = "flushRefs" => todo \subseteq Prefixes
  /\ half # NoItem => half \in todo /\ phase \in {"remove", "add", "flushRefs"}

\* From Start to the end of Engine.Start the manager has no networks.
Fresh ==
  phase \in {"rule", "started", "failed"} \/ (phase \in Cleaning /\ after # "stopped") =>
    /\ refs = NoRefs /\ activeRoutes = {} /\ clientNetworks = {} /\ clientRoutes = {}

\* CleanupRouting leaves nothing behind that it was not refused.
Cleaned ==
  /\ phase = "flush4" => table \cap Prefixes \subseteq residue \cup todo
  /\ phase \in {"list6", "flush6"} => table \cap Prefixes \subseteq residue
  /\ phase = "flush6" => table \subseteq residue \cup todo
  /\ phase \in {"unrule", "rule", "started", "stopped"} => table \subseteq residue
  /\ phase = "unrule" => rules \subseteq residue \cup todo
  /\ phase = "stopped" => rules \subseteq residue

\* The values to restore are the user's.
Restores ==
  /\ phase \in {"rule", "stopped"} => originalSysctl = "nil"
  /\ userLost \/ (sysctl = "user" /\ originalSysctl # "vpn")
              \/ (sysctl = "vpn" /\ originalSysctl = "user")

\* The sets of an update, from the loop that removes to the one that adds.
Updating ==
  /\ phase \in {"remove", "add"} => /\ wanted \subseteq announced
                                    /\ clientNetworks \cap wanted \subseteq activeRoutes
  /\ phase = "remove" => /\ todo \subseteq activeRoutes \ wanted
                         /\ activeRoutes \ wanted \subseteq todo
  /\ phase = "add" => /\ todo \subseteq wanted \ activeRoutes
                      /\ activeRoutes \subseteq wanted
  /\ phase = "idle" => clientNetworks = activeRoutes /\ activeRoutes \subseteq clientRoutes

\* Between the two requests for an exit node.
HalfWay ==
  /\ phase = "remove" /\ half # NoItem =>
       /\ PrefixOf[half] = Default /\ refs[Default] = 1
       /\ Blackhole \in table => Blackhole \in residue
  /\ phase = "add" /\ half # NoItem =>
       /\ PrefixOf[half] = Default /\ Default \notin NotAllowed
       /\ Blackhole \in table \cup unsupported /\ refs[Default] = 0

\* The reference counter, the active networks and the table.
Counted ==
  phase \in Serving =>
    /\ IsFiniteSet(activeRoutes)
    /\ \A p \in Prefixes : /\ Count(p) <= refs[p]
                           /\ refs[p] > 0 => p \in table \cup unsupported
                           /\ refs[p] > Count(p) /\ p \in table => p \in residue
                           /\ refs[p] > Count(p) /\ p = Default /\ Blackhole \in table
                                => Blackhole \in residue

\* Every route has its networks, or was left.
Owned ==
  phase \in Serving =>
    \A r \in table : \/ r \in residue
                     \/ Owners(r) # {}
                     \/ r = Blackhole /\ phase = "add" /\ half # NoItem

Blocked ==
  phase \in Serving /\ Default \in table /\ Default \notin residue =>
    Blackhole \in table \cup unsupported \/ (phase = "remove" /\ half # NoItem)

IInv ==
  /\ TypeOK
  /\ Loops
  /\ Fresh
  /\ Cleaned
  /\ Restores
  /\ Updating
  /\ HalfWay
  /\ Counted
  /\ Owned
  /\ Blocked

-----------------------------------------------------------------------------
(* Cleaning up.                                                            *)

\* Outside of Serving nothing is said about the networks.
LEMMA NotServing ==
  ASSUME phase' \notin Serving
  PROVE  Updating' /\ HalfWay' /\ Counted' /\ Owned' /\ Blocked'
BY DEF Serving, Updating, HalfWay, Counted, Owned, Blocked

\* The next rule of the loop is one of those to visit.
LEMMA FirstRule ==
  ASSUME NEW rs, rs \subseteq Rules, rs # {}
  PROVE  First(rs) \in rs
<1>1. \E r \in rs : \A s \in rs : r <= s
  <2>1. \A s \in rs : s \in Int /\ 1 <= s /\ s <= 4
    BY RuleCountAssumption DEF Rules
  <2>2. CASE 1 \in rs
    BY <2>1, <2>2
  <2>3. CASE 1 \notin rs /\ 2 \in rs
    BY <2>1, <2>3
  <2>4. CASE 1 \notin rs /\ 2 \notin rs /\ 3 \in rs
    BY <2>1, <2>4
  <2>5. CASE 1 \notin rs /\ 2 \notin rs /\ 3 \notin rs
    BY <2>1, <2>5
  <2> QED BY <2>2, <2>3, <2>4, <2>5
<1> QED BY <1>1 DEF First

\* Requests that fail are counted.
LEMMA FaultType ==
  ASSUME TypeOK, Works \/ Fails
  PROVE  faults' \in 0..MaxFaults
BY MaxFaultsAssumption DEF TypeOK, Works, Fails

\* Start: a new manager, and CleanupRouting begins.
LEMMA StartStep ==
  ASSUME IInv, Start
  PROVE  IInv'
<1> USE DEF IInv
<1>1. /\ phase \in {"off", "failed", "stopped"}
      /\ phase' = "list4" /\ after' = "rule" /\ todo' = {}
      /\ refs' = NoRefs /\ unsupported' = {} /\ activeRoutes' = {} /\ clientNetworks' = {}
      /\ clientRoutes' = {}
      /\ UNCHANGED <<rules, table, sysctl, originalSysctl, half, announced, wanted, faults, residue,
                     userLost>>
  BY DEF Start, Cleanup, kernel, update, history
<1>2. NoRefs \in [Prefixes -> Nat]
  BY DEF NoRefs
<1>3. TypeOK'
  BY <1>1, <1>2 DEF TypeOK, Phases, Cleaning
<1>4. Loops'
  BY <1>1 DEF Loops
<1>5. Fresh' /\ Cleaned' /\ Restores'
  BY <1>1 DEF Fresh, Cleaned, Restores
<1>6. phase' \notin Serving
  BY <1>1 DEF Serving
<1> QED BY <1>3, <1>4, <1>5, <1>6, NotServing

\* The routes of a family are listed, or left.
LEMMA ListRoutesStep ==
  ASSUME IInv, ListRoutes
  PROVE  IInv'
<1> USE DEF IInv
<1>1. /\ (phase = "list4" /\ phase' = "flush4") \/ (phase = "list6" /\ phase' = "flush6")
      /\ UNCHANGED <<rules, table, sysctl, originalSysctl, after, half, refs, unsupported, activeRoutes,
                     clientNetworks, clientRoutes, announced, wanted, userLost>>
  BY DEF ListRoutes, RouteStays, manager, update
<1>2. \/ todo' = table \cap Family /\ residue' = residue
      \/ todo' = {} /\ residue' = residue \cup (table \cap Family)
  BY DEF ListRoutes, RouteStays
<1>3. Family = IF phase = "list4" THEN Prefixes ELSE {Blackhole}
  BY <1>1 DEF Family
<1>4. Works \/ Fails
  BY DEF ListRoutes
<1>5. TypeOK'
  <2>1. todo' \subseteq Routes /\ residue' \subseteq Routes \cup Rules
    BY <1>2, <1>3 DEF TypeOK, Routes
  <2> QED BY <1>1, <1>4, <2>1, FaultType DEF TypeOK, Phases, Cleaning
<1>6. Loops'
  BY <1>1, <1>2, <1>3 DEF Loops, TypeOK, Routes
<1>7. Fresh' /\ Restores'
  BY <1>1 DEF Fresh, Restores, Cleaning
<1>8. Cleaned'
  BY <1>1, <1>2, <1>3 DEF Cleaned, TypeOK, Routes
<1>9. phase' \notin Serving
  BY <1>1 DEF Serving
<1> QED BY <1>5, <1>6, <1>7, <1>8, <1>9, NotServing

\* One of the listed routes is deleted, or left.
LEMMA FlushRouteStep ==
  ASSUME IInv, NEW r \in Routes, FlushRoute(r)
  PROVE  IInv'
<1> USE DEF IInv
<1>1. /\ phase \in {"flush4", "flush6"} /\ r \in todo /\ todo' = todo \ {r}
      /\ UNCHANGED <<rules, sysctl, originalSysctl, phase, after, half, refs, unsupported, activeRoutes,
                     clientNetworks, clientRoutes, announced, wanted, userLost>>
  BY DEF FlushRoute, manager, update
<1>2. \/ table' = table \ {r} /\ residue' = residue \ {r}
      \/ table' = table /\ residue' = residue \cup (table \cap {r})
  BY DEF FlushRoute, RouteDel, RouteStays
<1>3. Works \/ Fails
  BY DEF FlushRoute, RouteDel
<1>4. TypeOK'
  <2>1. todo' \subseteq Networks \cup Routes \cup Rules /\ residue' \subseteq Routes \cup Rules
        /\ table' \subseteq Routes
    BY <1>1, <1>2 DEF TypeOK
  <2> QED BY <1>1, <1>3, <2>1, FaultType DEF TypeOK
<1>5. Loops'
  BY <1>1 DEF Loops
<1>6. Fresh' /\ Restores'
  BY <1>1 DEF Fresh, Restores
<1>7. Cleaned'
  BY <1>1, <1>2 DEF Cleaned
<1>8. phase' \notin Serving
  BY <1>1 DEF Serving
<1> QED BY <1>4, <1>5, <1>6, <1>7, <1>8, NotServing

\* A family is done.
LEMMA FlushEndsStep ==
  ASSUME IInv, FlushEnds
  PROVE  IInv'
<1> USE DEF IInv
<1>1. /\ todo = {}
      /\ \/ phase = "flush4" /\ phase' = "list6" /\ todo' = {}
         \/ phase = "flush6" /\ phase' = "unrule" /\ todo' = Rules
      /\ UNCHANGED <<rules, table, sysctl, originalSysctl, after, half, refs, unsupported, activeRoutes,
                     clientNetworks, clientRoutes, announced, wanted, faults, residue, userLost>>
  BY DEF FlushEnds, kernel, manager, update, history
<1>2. TypeOK'
  BY <1>1 DEF TypeOK, Phases, Cleaning
<1>3. Loops'
  BY <1>1 DEF Loops
<1>4. Fresh' /\ Restores'
  BY <1>1 DEF Fresh, Restores, Cleaning
<1>5. Cleaned'
  BY <1>1 DEF Cleaned, TypeOK
<1>6. phase' \notin Serving
  BY <1>1 DEF Serving
<1> QED BY <1>2, <1>3, <1>4, <1>5, <1>6, NotServing

\* A rule is removed, or left.
LEMMA RemoveRuleStep ==
  ASSUME IInv, RemoveRule
  PROVE  IInv'
<1> USE DEF IInv
<1>1. PICK r : r = First(todo)
  OBVIOUS
<1>2. /\ phase = "unrule" /\ todo # {} /\ todo' = todo \ {r}
      /\ UNCHANGED <<table, sysctl, originalSysctl, phase, after, half, refs, unsupported, activeRoutes,
                     clientNetworks, clientRoutes, announced, wanted, userLost>>
  BY <1>1 DEF RemoveRule, manager, update
<1>3. r \in Rules /\ r \notin Routes
  BY <1>1, <1>2, FirstRule, RulesAssumption DEF Loops
<1>4. \/ rules' = rules \ {r} /\ residue' = residue \ {r}
      \/ rules' = rules /\ residue' = residue \cup (rules \cap {r})
  BY <1>1 DEF RemoveRule
<1>5. Works \/ Fails
  BY DEF RemoveRule
<1>6. TypeOK'
  <2>1. todo' \subseteq Networks \cup Routes \cup Rules /\ residue' \subseteq Routes \cup Rules
        /\ rules' \subseteq Rules
    BY <1>2, <1>4 DEF TypeOK
  <2> QED BY <1>2, <1>5, <2>1, FaultType DEF TypeOK
<1>7. Loops'
  BY <1>2 DEF Loops
<1>8. Fresh' /\ Restores'
  BY <1>2 DEF Fresh, Restores
<1>9. Cleaned'
  <2>1. table' \subseteq residue'
    BY <1>2, <1>3, <1>4 DEF Cleaned, TypeOK
  <2>2. rules' \subseteq residue' \cup todo'
    BY <1>2, <1>4 DEF Cleaned
  <2> QED BY <1>2, <2>1, <2>2 DEF Cleaned
<1>10. phase' \notin Serving
  BY <1>2 DEF Serving
<1> QED BY <1>6, <1>7, <1>8, <1>9, <1>10, NotServing

\* The sysctl values are restored, or lost, and Init or Stop goes on.
LEMMA CleanupEndsStep ==
  ASSUME IInv, CleanupEnds
  PROVE  IInv'
<1> USE DEF IInv
<1>1. /\ phase = "unrule" /\ todo = {} /\ originalSysctl' = "nil" /\ phase' = after
      /\ todo' = IF after = "rule" THEN Rules ELSE {}
      /\ clientRoutes' = IF after = "stopped" THEN {} ELSE clientRoutes
      /\ UNCHANGED <<rules, table, after, half, refs, unsupported, activeRoutes, clientNetworks, announced,
                     wanted, residue>>
  BY DEF CleanupEnds, update
<1>2. \/ sysctl' = (IF originalSysctl = "nil" THEN sysctl ELSE originalSysctl) /\ userLost' = userLost
      \/ userLost' = TRUE /\ sysctl' = sysctl
  BY DEF CleanupEnds
<1>3. Works \/ Fails
  BY DEF CleanupEnds
<1>4. after \in {"rule", "started", "stopped"}
  BY DEF TypeOK
<1>5. TypeOK'
  <2>1. /\ todo' \subseteq Networks \cup Routes \cup Rules /\ clientRoutes' \subseteq Networks
        /\ phase' \in Phases
    BY <1>1, <1>4 DEF TypeOK, Phases
  <2>2. sysctl' \in {"user", "vpn"}
    BY <1>2 DEF TypeOK
  <2>3. userLost' \in BOOLEAN
    BY <1>2, Zenon DEF TypeOK
  <2> QED BY <1>1, <1>3, <2>1, <2>2, <2>3, FaultType DEF TypeOK
<1>6. Loops'
  BY <1>1, <1>4 DEF Loops
<1>7. Fresh'
  BY <1>1, <1>4 DEF Fresh, Cleaning
<1>8. Cleaned'
  BY <1>1, <1>4 DEF Cleaned
<1>9. Restores'
  <2>1. CASE userLost' = TRUE
    BY <1>1, <2>1 DEF Restores
  <2>2. CASE /\ sysctl' = (IF originalSysctl = "nil" THEN sysctl ELSE originalSysctl)
             /\ userLost' = userLost
    BY <1>1, <2>2 DEF Restores, TypeOK
  <2> QED BY <1>2, <2>1, <2>2
<1>10. phase' \notin Serving
  BY <1>1, <1>4 DEF Serving
<1> QED BY <1>5, <1>6, <1>7, <1>8, <1>9, <1>10, NotServing

-----------------------------------------------------------------------------
(* Starting, stopping and dying.                                           *)

\* A rule is added, or SetupRouting fails and cleans up.
LEMMA AddRuleStep ==
  ASSUME IInv, AddRule
  PROVE  IInv'
<1> USE DEF IInv
<1>1. PICK r : r = First(todo)
  OBVIOUS
<1>2. /\ phase = "rule" /\ todo # {}
      /\ UNCHANGED <<table, sysctl, originalSysctl, half, refs, unsupported, activeRoutes, clientNetworks,
                     clientRoutes, announced, wanted, residue, userLost>>
  BY DEF AddRule, manager, update
<1>3. r \in Rules
  BY <1>1, <1>2, FirstRule DEF Loops
<1>4. \/ /\ rules' = rules \cup {r} \/ rules' = rules
         /\ todo' = todo \ {r} /\ phase' = phase /\ after' = after
      \/ rules' = rules /\ phase' = "list4" /\ after' = "started" /\ todo' = {}
  BY <1>1 DEF AddRule, Cleanup
<1>5. Works \/ Fails
  BY DEF AddRule
<1>6. TypeOK'
  <2>1. /\ rules' \subseteq Rules /\ todo' \subseteq Networks \cup Routes \cup Rules
        /\ phase' \in Phases /\ after' \in {"rule", "started", "stopped"}
    BY <1>3, <1>4 DEF TypeOK, Phases, Cleaning
  <2> QED BY <1>2, <1>5, <2>1, FaultType DEF TypeOK
<1>7. Loops'
  BY <1>2, <1>4 DEF Loops
<1>8. Fresh' /\ Cleaned' /\ Restores'
  BY <1>2, <1>4 DEF Fresh, Cleaned, Restores
<1>9. phase' \notin Serving
  BY <1>2, <1>4 DEF Serving
<1> QED BY <1>6, <1>7, <1>8, <1>9, NotServing

\* The sysctl values are set, and the user's kept.
LEMMA SetupSysctlStep ==
  ASSUME IInv, SetupSysctl
  PROVE  IInv'
<1> USE DEF IInv
<1>1. /\ phase = "rule" /\ todo = {} /\ phase' = "started"
      /\ \/ sysctl' = "vpn" /\ originalSysctl' = sysctl
         \/ sysctl' = sysctl /\ originalSysctl' = "nil"
      /\ UNCHANGED <<rules, table, after, todo, half, refs, unsupported, activeRoutes, clientNetworks,
                     clientRoutes, announced, wanted, residue, userLost>>
  BY DEF SetupSysctl, manager, update
<1>2. Works \/ Fails
  BY DEF SetupSysctl
<1>3. TypeOK'
  BY <1>1, <1>2, FaultType DEF TypeOK, Phases
<1>4. Loops'
  BY <1>1 DEF Loops
<1>5. Fresh' /\ Cleaned'
  BY <1>1 DEF Fresh, Cleaned
<1>6. Restores'
  BY <1>1 DEF Restores, TypeOK
<1>7. phase' \notin Serving
  BY <1>1 DEF Serving
<1> QED BY <1>3, <1>4, <1>5, <1>6, <1>7, NotServing

\* Engine.Start ends: the manager serves an empty set of networks.
LEMMA StartEndsStep ==
  ASSUME IInv, StartEnds
  PROVE  IInv'
<1> USE DEF IInv
<1>1. /\ phase = "started" /\ phase' = "idle"
      /\ table' = table \ Prefixes /\ residue' = residue \ Prefixes
      /\ UNCHANGED <<rules, sysctl, originalSysctl, after, todo, half, refs, unsupported, activeRoutes,
                     clientNetworks, clientRoutes, announced, wanted, faults, userLost>>
  BY DEF StartEnds, InterfaceGone, manager, update
<1>2. table' \subseteq residue'
  BY <1>1 DEF Cleaned
<1>3. refs = NoRefs /\ activeRoutes = {} /\ clientNetworks = {} /\ clientRoutes = {}
  BY <1>1 DEF Fresh
<1>4. TypeOK'
  BY <1>1 DEF TypeOK, Phases, Serving
<1>5. Loops' /\ Fresh' /\ Cleaned' /\ Restores'
  BY <1>1 DEF Loops, Fresh, Cleaned, Restores, Cleaning
<1>6. Updating' /\ HalfWay'
  BY <1>1, <1>3 DEF Updating, HalfWay
<1>7. Counted'
  <2>1. IsFiniteSet(activeRoutes')
    BY <1>1, <1>3, FS_EmptySet
  <2>2. ASSUME NEW p \in Prefixes
        PROVE  Count(p)' = 0 /\ refs'[p] = 0
    <3>1. Users(activeRoutes', p) = {}
      BY <1>1, <1>3 DEF Users
    <3>2. Count(p)' = 0
      BY <3>1, FS_EmptySet DEF Count
    <3> QED BY <1>1, <1>3, <3>2 DEF NoRefs
  <2> QED BY <2>1, <2>2 DEF Counted
<1>8. Owned'
  BY <1>2 DEF Owned
<1>9. Blocked'
  BY <1>2 DEF Blocked
<1> QED BY <1>4, <1>5, <1>6, <1>7, <1>8, <1>9

\* Engine.Start fails after Init.
LEMMA StartFailsStep ==
  ASSUME IInv, StartFails
  PROVE  IInv'
<1> USE DEF IInv
<1>1. /\ phase = "started" /\ phase' = "failed"
      /\ \/ table' = table \ Prefixes /\ residue' = residue \ Prefixes
         \/ table' = table /\ residue' = residue
      /\ UNCHANGED <<rules, sysctl, originalSysctl, after, todo, half, refs, unsupported, activeRoutes,
                     clientNetworks, clientRoutes, announced, wanted, faults, userLost>>
  BY DEF StartFails, InterfaceGone, manager, update
<1>2. TypeOK'
  BY <1>1 DEF TypeOK, Phases
<1>3. Loops' /\ Fresh' /\ Cleaned' /\ Restores'
  BY <1>1 DEF Loops, Fresh, Cleaned, Restores
<1>4. phase' \notin Serving
  BY <1>1 DEF Serving
<1> QED BY <1>2, <1>3, <1>4, NotServing

\* Stop begins.
LEMMA StopStep ==
  ASSUME IInv, Stop
  PROVE  IInv'
<1> USE DEF IInv
<1>1. /\ phase \in {"idle", "failed"} /\ phase' = "flushRefs" /\ clientNetworks' = {}
      /\ todo' = {p \in Prefixes : refs[p] > 0}
      /\ UNCHANGED <<rules, table, sysctl, originalSysctl, after, half, refs, unsupported, activeRoutes,
                     clientRoutes, announced, wanted, faults, residue, userLost>>
  BY DEF Stop, kernel, update, history
<1>2. TypeOK'
  <2>1. todo' \subseteq Networks \cup Routes \cup Rules
    BY <1>1 DEF Routes
  <2> QED BY <1>1, <2>1 DEF TypeOK, Phases
<1>3. Loops'
  BY <1>1 DEF Loops
<1>4. Fresh' /\ Cleaned' /\ Restores'
  BY <1>1 DEF Fresh, Cleaned, Restores, Cleaning
<1>5. phase' \notin Serving
  BY <1>1 DEF Serving
<1> QED BY <1>2, <1>3, <1>4, <1>5, NotServing

\* Stop flushes a reference.
LEMMA FlushRefStep ==
  ASSUME IInv, NEW p \in Prefixes, FlushRef(p)
  PROVE  IInv'
<1> USE DEF IInv
<1>1. /\ phase = "flushRefs" /\ p \in todo
      /\ UNCHANGED <<rules, sysctl, originalSysctl, phase, after, refs, activeRoutes, clientNetworks,
                     clientRoutes, announced, wanted, userLost>>
  BY DEF FlushRef, update
<1>2. /\ table' \subseteq table /\ residue' \subseteq residue \cup table
      /\ unsupported' \subseteq unsupported
      /\ \/ half' = p /\ todo' = todo
         \/ half' = NoItem /\ todo' = todo \ {p}
      /\ Works \/ Fails
  <2>1. CASE p = Default /\ Unblock(p) /\ UNCHANGED todo
    BY <2>1 DEF Unblock, RouteDel, RouteStays
  <2>2. CASE p = Default /\ UnblockFails /\ todo' = todo \ {p}
    BY <2>2 DEF UnblockFails, RouteStays
  <2>3. CASE Unroute(p, p) /\ todo' = todo \ {p}
    BY <2>3 DEF Unroute, RouteDel, RouteStays
  <2>4. CASE UnrouteFails(p, p) /\ todo' = todo \ {p}
    BY <2>4 DEF UnrouteFails, RouteStays
  <2> QED BY <2>1, <2>2, <2>3, <2>4 DEF FlushRef
<1>3. TypeOK'
  <2>1. /\ table' \subseteq Routes /\ residue' \subseteq Routes \cup Rules
        /\ unsupported' \subseteq Routes
        /\ half' \in Networks \cup Prefixes \cup {NoItem}
        /\ todo' \subseteq Networks \cup Routes \cup Rules
    BY <1>2 DEF TypeOK
  <2> QED BY <1>1, <1>2, <2>1, FaultType DEF TypeOK
<1>4. Loops'
  BY <1>1, <1>2 DEF Loops
<1>5. Fresh' /\ Cleaned' /\ Restores'
  BY <1>1 DEF Fresh, Cleaned, Restores, Cleaning
<1>6. phase' \notin Serving
  BY <1>1 DEF Serving
<1> QED BY <1>3, <1>4, <1>5, <1>6, NotServing

\* Every reference is forgotten, and CleanupRouting begins.
LEMMA FlushRefsEndsStep ==
  ASSUME IInv, FlushRefsEnds
  PROVE  IInv'
<1> USE DEF IInv
<1>1. /\ phase = "flushRefs" /\ todo = {} /\ refs' = NoRefs /\ unsupported' = {}
      /\ phase' = "list4" /\ after' = "stopped" /\ todo' = {}
      /\ UNCHANGED <<rules, table, sysctl, originalSysctl, half, activeRoutes, clientNetworks,
                     clientRoutes, announced, wanted, faults, residue, userLost>>
  BY DEF FlushRefsEnds, Cleanup, kernel, update, history
<1>2. TypeOK'
  <2>1. NoRefs \in [Prefixes -> Nat]
    BY DEF NoRefs
  <2> QED BY <1>1, <2>1 DEF TypeOK, Phases, Cleaning
<1>3. Loops' /\ Fresh' /\ Cleaned' /\ Restores'
  BY <1>1 DEF Loops, Fresh, Cleaned, Restores
<1>4. phase' \notin Serving
  BY <1>1 DEF Serving
<1> QED BY <1>2, <1>3, <1>4, NotServing

\* A process that dies with the sysctl values changed has lost the user's.
LEMMA CrashLoses ==
  ASSUME userLost \in BOOLEAN, Crash
  PROVE  userLost' \in BOOLEAN /\ (userLost => userLost') /\ (sysctl = "vpn" => userLost')
<1>1. userLost' = (userLost \/ sysctl = "vpn")
  BY Zenon DEF Crash
<1>2. userLost' \in BOOLEAN
  <2>1. (userLost \/ sysctl = "vpn") \in BOOLEAN
    BY Zenon
  <2> QED BY <1>1, <2>1, Zenon
<1>3. (userLost \/ sysctl = "vpn") => userLost'
  BY <1>1, Zenon
<1> QED BY <1>2, <1>3

\* The process dies.
LEMMA CrashStep ==
  ASSUME IInv, Crash
  PROVE  IInv'
<1> USE DEF IInv
<1>1. /\ phase' = "off" /\ after' = "stopped" /\ todo' = {} /\ half' = NoItem
      /\ originalSysctl' = "nil" /\ refs' = NoRefs /\ unsupported' = {} /\ activeRoutes' = {} /\ clientNetworks' = {}
      /\ clientRoutes' = {} /\ announced' = {} /\ wanted' = {}
      /\ UNCHANGED <<rules, table, sysctl, faults, residue>>
  BY DEF Crash, kernel
<1>2. userLost' \in BOOLEAN /\ (userLost => userLost') /\ (sysctl = "vpn" => userLost')
  BY CrashLoses DEF TypeOK
<1>3. TypeOK'
  <2>1. NoRefs \in [Prefixes -> Nat]
    BY DEF NoRefs
  <2> QED BY <1>1, <1>2, <2>1 DEF TypeOK, Phases
<1>4. Loops' /\ Fresh' /\ Cleaned'
  BY <1>1 DEF Loops, Fresh, Cleaned, Cleaning
<1>5. Restores'
  BY <1>1, <1>2 DEF Restores, TypeOK
<1>6. phase' \notin Serving
  BY <1>1 DEF Serving
<1> QED BY <1>3, <1>4, <1>5, <1>6, NotServing

-----------------------------------------------------------------------------
(* Updates.                                                                *)

\* An update begins with what is to be removed.
LEMMA UpdateBegins ==
  ASSUME IInv, NEW ns \in SUBSET Networks, NEW chosen, chosen \subseteq ns,
         phase = "idle", updateSystemRoutes(ns, chosen),
         UNCHANGED <<kernel, originalSysctl, after, half, manager, history>>
  PROVE  IInv'
<1> USE DEF IInv
<1>1. /\ phase' = "remove" /\ announced' = ns /\ wanted' = chosen /\ todo' = activeRoutes \ chosen
      /\ UNCHANGED <<rules, table, sysctl, originalSysctl, after, half, refs, unsupported, activeRoutes,
                     clientNetworks, clientRoutes, faults, residue, userLost>>
  BY DEF updateSystemRoutes, kernel, manager, history
<1>2. half = NoItem
  BY DEF Loops
<1>3. TypeOK'
  BY <1>1 DEF TypeOK, Phases, Serving
<1>4. Loops'
  BY <1>1, <1>2 DEF Loops, TypeOK
<1>5. Fresh' /\ Cleaned' /\ Restores'
  BY <1>1 DEF Fresh, Cleaned, Restores, Cleaning
<1>6. Updating' /\ HalfWay'
  BY <1>1, <1>2 DEF Updating, HalfWay
<1>7. Counted'
  BY <1>1 DEF Counted, Count, Users, Serving
<1>8. Owned' /\ Blocked'
  BY <1>1, <1>2 DEF Owned, Blocked, Owners, Serving
<1> QED BY <1>3, <1>4, <1>5, <1>6, <1>7, <1>8

\* UpdateRoutes and TriggerSelection choose among the networks announced.
LEMMA UpdateRoutesStep ==
  ASSUME IInv, NEW ns \in SUBSET Networks, UpdateRoutes(ns) \/ TriggerSelection(ns)
  PROVE  IInv'
<1>1. CASE UpdateRoutes(ns)
  <2>1. PICK chosen \in Filtered(ns) : updateSystemRoutes(ns, chosen)
    BY <1>1 DEF UpdateRoutes
  <2>2. chosen \subseteq ns
    BY DEF Filtered
  <2> QED BY <1>1, <2>1, <2>2, UpdateBegins DEF UpdateRoutes
<1>2. CASE TriggerSelection(ns)
  <2>1. PICK chosen \in Filtered(ns) : updateSystemRoutes(clientRoutes, chosen)
    BY <1>2 DEF TriggerSelection
  <2>2. chosen \subseteq ns
    BY DEF Filtered
  <2>3. chosen \subseteq clientRoutes /\ clientRoutes \in SUBSET Networks
    BY <1>2, <2>2 DEF TriggerSelection, IInv, TypeOK
  <2> QED BY <1>2, <2>1, <2>3, UpdateBegins DEF TriggerSelection
<1> QED BY <1>1, <1>2

\* What is not active is added next.
LEMMA RemovalEndsStep ==
  ASSUME IInv, RemovalEnds
  PROVE  IInv'
<1> USE DEF IInv
<1>1. /\ phase = "remove" /\ todo = {} /\ phase' = "add" /\ todo' = wanted \ activeRoutes
      /\ UNCHANGED <<rules, table, sysctl, originalSysctl, after, half, refs, unsupported, activeRoutes,
                     clientNetworks, clientRoutes, announced, wanted, faults, residue, userLost>>
  BY DEF RemovalEnds, kernel, manager, update, history
<1>2. half = NoItem
  BY <1>1 DEF Loops
<1>3. TypeOK'
  BY <1>1 DEF TypeOK, Phases, Serving
<1>4. Loops'
  BY <1>1, <1>2 DEF Loops, TypeOK
<1>5. Fresh' /\ Cleaned' /\ Restores'
  BY <1>1 DEF Fresh, Cleaned, Restores, Cleaning
<1>6. Updating' /\ HalfWay'
  BY <1>1, <1>2 DEF Updating, HalfWay
<1>7. Counted'
  BY <1>1 DEF Counted, Count, Users, Serving
<1>8. Owned' /\ Blocked'
  BY <1>1, <1>2 DEF Owned, Blocked, Owners, Serving
<1> QED BY <1>3, <1>4, <1>5, <1>6, <1>7, <1>8

\* The watchers follow the handlers.
LEMMA UpdateEndsStep ==
  ASSUME IInv, UpdateEnds
  PROVE  IInv'
<1> USE DEF IInv
<1>1. /\ phase = "add" /\ todo = {} /\ phase' = "idle"
      /\ clientNetworks' = (clientNetworks \cup activeRoutes) \cap wanted
      /\ clientRoutes' = announced /\ announced' = {} /\ wanted' = {}
      /\ UNCHANGED <<rules, table, sysctl, originalSysctl, after, todo, half, refs, unsupported, activeRoutes,
                     faults, residue, userLost>>
  BY DEF UpdateEnds, kernel, history
<1>2. half = NoItem
  BY <1>1 DEF Loops
<1>3. TypeOK'
  BY <1>1 DEF TypeOK, Phases, Serving
<1>4. Loops' /\ HalfWay'
  BY <1>1, <1>2 DEF Loops, HalfWay
<1>5. Fresh' /\ Cleaned' /\ Restores'
  BY <1>1 DEF Fresh, Cleaned, Restores, Cleaning
<1>6. Updating'
  BY <1>1 DEF Updating
<1>7. Counted'
  BY <1>1 DEF Counted, Count, Users, Serving
<1>8. Owned' /\ Blocked'
  BY <1>1, <1>2 DEF Owned, Blocked, Owners, Serving
<1> QED BY <1>3, <1>4, <1>5, <1>6, <1>7, <1>8

-----------------------------------------------------------------------------
(* Counting the active networks of a prefix.                               *)

\* The count of a prefix is a number, and zero only if it has no network.
LEMMA UsersCounted ==
  ASSUME NEW ns, IsFiniteSet(ns), NEW p
  PROVE  /\ IsFiniteSet(Users(ns, p))
         /\ Cardinality(Users(ns, p)) \in Nat
         /\ Cardinality(Users(ns, p)) = 0 <=> Users(ns, p) = {}
<1>1. Users(ns, p) \subseteq ns
  BY DEF Users
<1>2. IsFiniteSet(Users(ns, p))
  BY <1>1, FS_Subset
<1> QED BY <1>2, FS_CardinalityType, FS_EmptySet

\* A network that is added counts for its prefix, and for no other.
LEMMA UserAdded ==
  ASSUME NEW ns, IsFiniteSet(ns), NEW n, n \notin ns, NEW p
  PROVE  /\ IsFiniteSet(ns \cup {n})
         /\ PrefixOf[n] = p =>
              Cardinality(Users(ns \cup {n}, p)) = Cardinality(Users(ns, p)) + 1
         /\ PrefixOf[n] # p => Users(ns \cup {n}, p) = Users(ns, p)
<1>1. IsFiniteSet(ns \cup {n})
  BY FS_AddElement
<1>2. ASSUME PrefixOf[n] = p
      PROVE  Cardinality(Users(ns \cup {n}, p)) = Cardinality(Users(ns, p)) + 1
  <2>1. Users(ns \cup {n}, p) = Users(ns, p) \cup {n} /\ n \notin Users(ns, p)
    BY <1>2 DEF Users
  <2> QED BY <2>1, UsersCounted, FS_AddElement
<1>3. PrefixOf[n] # p => Users(ns \cup {n}, p) = Users(ns, p)
  BY DEF Users
<1> QED BY <1>1, <1>2, <1>3

\* A network that is dropped no longer counts.
LEMMA UserDropped ==
  ASSUME NEW ns, IsFiniteSet(ns), NEW n \in ns, NEW p
  PROVE  /\ IsFiniteSet(ns \ {n})
         /\ PrefixOf[n] = p =>
              Cardinality(Users(ns \ {n}, p)) = Cardinality(Users(ns, p)) - 1
         /\ PrefixOf[n] # p => Users(ns \ {n}, p) = Users(ns, p)
<1>1. IsFiniteSet(ns \ {n})
  BY FS_RemoveElement
<1>2. ASSUME PrefixOf[n] = p
      PROVE  Cardinality(Users(ns \ {n}, p)) = Cardinality(Users(ns, p)) - 1
  <2>1. Users(ns \ {n}, p) = Users(ns, p) \ {n} /\ n \in Users(ns, p)
    BY <1>2 DEF Users
  <2> QED BY <2>1, UsersCounted, FS_RemoveElement
<1>3. PrefixOf[n] # p => Users(ns \ {n}, p) = Users(ns, p)
  BY DEF Users
<1> QED BY <1>1, <1>2, <1>3

-----------------------------------------------------------------------------
(* RemoveRoute.                                                            *)

\* A handler that is dropped was counted for its prefix.
LEMMA DropFacts ==
  ASSUME IInv, NEW n \in Networks, phase = "remove", n \in todo, activeRoutes' = activeRoutes \ {n}
  PROVE  /\ n \in activeRoutes /\ PrefixOf[n] \in Prefixes
         /\ IsFiniteSet(activeRoutes) /\ IsFiniteSet(activeRoutes')
         /\ \A q \in Prefixes :
              /\ Cardinality(Users(activeRoutes, q)) \in Nat
              /\ Cardinality(Users(activeRoutes', q)) \in Nat
              /\ Cardinality(Users(activeRoutes', q)) =
                   IF q = PrefixOf[n] THEN Cardinality(Users(activeRoutes, q)) - 1
                                      ELSE Cardinality(Users(activeRoutes, q))
         /\ Cardinality(Users(activeRoutes', PrefixOf[n])) # 0 =>
              \E m \in activeRoutes' : PrefixOf[m] = PrefixOf[n]
<1>1. n \in activeRoutes
  BY DEF IInv, Updating
<1>2. PrefixOf[n] \in Prefixes
  BY NetworksAssumption
<1>3. IsFiniteSet(activeRoutes)
  BY DEF IInv, Counted, Serving
<1>4. IsFiniteSet(activeRoutes')
  BY <1>1, <1>3, UserDropped
<1>5. ASSUME NEW q \in Prefixes
      PROVE  /\ Cardinality(Users(activeRoutes, q)) \in Nat
             /\ Cardinality(Users(activeRoutes', q)) \in Nat
             /\ Cardinality(Users(activeRoutes', q)) =
                   IF q = PrefixOf[n] THEN Cardinality(Users(activeRoutes, q)) - 1
                                      ELSE Cardinality(Users(activeRoutes, q))
  <2>1. Cardinality(Users(activeRoutes, q)) \in Nat /\ Cardinality(Users(activeRoutes', q)) \in Nat
    BY <1>3, <1>4, UsersCounted
  <2>2. CASE q = PrefixOf[n]
    BY <1>1, <1>3, <2>1, <2>2, UserDropped
  <2>3. CASE q # PrefixOf[n]
    BY <1>1, <1>3, <2>1, <2>3, UserDropped
  <2> QED BY <2>2, <2>3
<1>6. Cardinality(Users(activeRoutes', PrefixOf[n])) # 0 =>
              \E m \in activeRoutes' : PrefixOf[m] = PrefixOf[n]
  <2>1. Cardinality(Users(activeRoutes', PrefixOf[n])) # 0 => Users(activeRoutes', PrefixOf[n]) # {}
    BY <1>4, UsersCounted
  <2> QED BY <2>1 DEF Users
<1> QED BY <1>1, <1>2, <1>3, <1>4, <1>5, <1>6

\* What a step of the removal leaves alone.
LEMMA RemoveFrame ==
  ASSUME IInv, NEW n \in Networks, phase = "remove", n \in todo,
         \/ todo' = todo \ {n} /\ activeRoutes' = activeRoutes \ {n} /\ half' = NoItem
         \/ todo' = todo /\ activeRoutes' = activeRoutes /\ half' = n,
         table' \subseteq Routes, residue' \subseteq Routes \cup Rules,
         unsupported' \subseteq Routes, refs' \in [Prefixes -> Nat], faults' \in 0..MaxFaults,
         UNCHANGED <<rules, sysctl, originalSysctl, phase, after, clientNetworks, clientRoutes,
                     announced, wanted, userLost>>
  PROVE  TypeOK' /\ Loops' /\ Fresh' /\ Cleaned' /\ Restores' /\ Updating'
<1> USE DEF IInv
<1>1. todo' \subseteq todo /\ activeRoutes' \subseteq activeRoutes /\ half' \in {n, NoItem}
  OBVIOUS
<1>2. TypeOK'
  BY <1>1 DEF TypeOK
<1>3. Loops'
  <2>1. todo' \subseteq Networks
    BY <1>1 DEF Loops
  <2>2. half' # NoItem => half' \in todo'
    OBVIOUS
  <2> QED BY <2>1, <2>2 DEF Loops
<1>4. Fresh' /\ Cleaned' /\ Restores'
  BY DEF Fresh, Cleaned, Restores, Cleaning
<1>5. Updating'
  BY DEF Updating
<1> QED BY <1>2, <1>3, <1>4, <1>5

\* Another reference to the prefix is left.
LEMMA RemoveShared ==
  ASSUME IInv, NEW n \in Networks, phase = "remove", n \in todo,
         half \in {n, NoItem}, refs[PrefixOf[n]] > 1,
         todo' = todo \ {n}, activeRoutes' = activeRoutes \ {n},
         refs' = [refs EXCEPT ![PrefixOf[n]] = refs[PrefixOf[n]] - 1],
         UNCHANGED <<table, unsupported, half, faults, residue, rules, sysctl, originalSysctl, phase, after,
                     clientNetworks, clientRoutes, announced, wanted, userLost>>
  PROVE  IInv'
<1> DEFINE p == PrefixOf[n]
<1>1. /\ n \in activeRoutes /\ p \in Prefixes
      /\ IsFiniteSet(activeRoutes) /\ IsFiniteSet(activeRoutes')
      /\ \A q \in Prefixes :
              /\ Cardinality(Users(activeRoutes, q)) \in Nat
              /\ Cardinality(Users(activeRoutes', q)) \in Nat
              /\ Cardinality(Users(activeRoutes', q)) =
                   IF q = p THEN Cardinality(Users(activeRoutes, q)) - 1
                            ELSE Cardinality(Users(activeRoutes, q))
      /\ Cardinality(Users(activeRoutes', p)) # 0 => \E m \in activeRoutes' : PrefixOf[m] = p
  BY DropFacts
<1>2. n # NoItem /\ half = NoItem
  BY NoItemAssumption DEF IInv, HalfWay
<1>3. /\ refs \in [Prefixes -> Nat] /\ refs' \in [Prefixes -> Nat] /\ refs'[p] = refs[p] - 1
      /\ refs[p] > 1
      /\ \A q \in Prefixes : q # p => refs'[q] = refs[q]
  BY <1>1 DEF IInv, TypeOK
<1>4. TypeOK' /\ Loops' /\ Fresh' /\ Cleaned' /\ Restores' /\ Updating'
  BY <1>2, <1>3, RemoveFrame DEF IInv, TypeOK
<1>5. HalfWay'
  BY <1>2 DEF HalfWay
<1>9. /\ Cardinality(Users(activeRoutes, p)) \in Nat
      /\ Cardinality(Users(activeRoutes', p)) = Cardinality(Users(activeRoutes, p)) - 1
      /\ refs[p] \in Nat
  BY <1>1, <1>3
<1>6. Counted'
  <2>1. \A q \in Prefixes :
          /\ Cardinality(Users(activeRoutes, q)) <= refs[q]
          /\ refs[q] > 0 => q \in table \cup unsupported
          /\ refs[q] > Cardinality(Users(activeRoutes, q)) =>
               /\ q \in table => q \in residue
               /\ q = Default /\ Blackhole \in table => Blackhole \in residue
    BY DEF IInv, Counted, Count, Serving
  <2> HIDE DEF p
  <2>2. ASSUME NEW q \in Prefixes
        PROVE  /\ Cardinality(Users(activeRoutes', q)) <= refs'[q]
               /\ refs'[q] > 0 => q \in table \cup unsupported
               /\ refs'[q] > Cardinality(Users(activeRoutes', q)) =>
                    /\ q \in table => q \in residue
                    /\ q = Default /\ Blackhole \in table => Blackhole \in residue
    <3>1. refs[q] \in Nat /\ refs'[q] \in Nat
      BY <1>3
    <3>2. CASE q = p
      <4>1. refs'[p] > 0 /\ refs[p] > 0
        BY <1>3, <1>9
      <4>2. Cardinality(Users(activeRoutes', p)) <= refs'[p] <=>
              Cardinality(Users(activeRoutes, p)) <= refs[p]
        BY <1>3, <1>9
      <4>3. refs'[p] > Cardinality(Users(activeRoutes', p)) <=>
              refs[p] > Cardinality(Users(activeRoutes, p))
        BY <1>3, <1>9
      <4> QED BY <2>1, <3>2, <4>1, <4>2, <4>3
    <3>3. CASE q # p
      BY <1>1, <1>3, <2>1, <3>1, <3>3
    <3> QED BY <3>2, <3>3
  <2> QED BY <1>1, <2>2 DEF Counted, Count
<1>7. Owned'
  <2>1. \/ (p \in table => p \in residue) /\ (p = Default /\ Blackhole \in table => Blackhole \in residue)
        \/ \E m \in activeRoutes' : PrefixOf[m] = p
    <3>1. CASE Cardinality(Users(activeRoutes', p)) = 0
      <4>1. refs[p] > Cardinality(Users(activeRoutes, p))
        <5> HIDE DEF p
        <5> QED BY <1>3, <1>9, <3>1
      <4> QED BY <1>1, <4>1 DEF IInv, Counted, Count, Serving
    <3> QED BY <1>1, <3>1
  <2>2. \A r \in table : r \in residue \/ \E m \in activeRoutes : r = PrefixOf[m] \/ (r = Blackhole /\ PrefixOf[m] = Default)
    BY DEF IInv, Owned, Owners, Serving
  <2>3. ASSUME NEW r \in table, r \notin residue
        PROVE  \E m \in activeRoutes' : r = PrefixOf[m] \/ (r = Blackhole /\ PrefixOf[m] = Default)
    <3>1. PICK m \in activeRoutes : r = PrefixOf[m] \/ (r = Blackhole /\ PrefixOf[m] = Default)
      BY <2>2, <2>3
    <3>2. CASE m = n
      BY <2>1, <2>3, <3>1, <3>2
    <3>3. CASE m # n
      BY <3>1, <3>3
    <3> QED BY <3>2, <3>3
  <2> QED BY <2>3 DEF Owned, Owners
<1>8. Blocked'
  BY DEF IInv, Blocked
<1> QED BY <1>4, <1>5, <1>6, <1>7, <1>8 DEF IInv

\* The unreachable route of an exit node is deleted first, or was left.
LEMMA RemoveUnblocks ==
  ASSUME IInv, NEW n \in Networks, phase = "remove", n \in todo, half = NoItem,
         refs[PrefixOf[n]] = 1, PrefixOf[n] = Default,
         \/ table' = table \ {Blackhole} /\ residue' = residue \ {Blackhole}
         \/ table' = table /\ residue' = residue \cup (table \cap {Blackhole}),
         unsupported' = unsupported \ {Blackhole}, half' = n, faults' \in 0..MaxFaults,
         UNCHANGED <<todo, activeRoutes, refs, rules, sysctl, originalSysctl, phase, after,
                     clientNetworks, clientRoutes, announced, wanted, userLost>>
  PROVE  IInv'
<1>1. Default \in Prefixes /\ Default # Blackhole /\ n # NoItem
  BY NetworksAssumption, BlackholeAssumption, NoItemAssumption
<1>2. TypeOK' /\ Loops' /\ Fresh' /\ Cleaned' /\ Restores' /\ Updating'
  BY RemoveFrame DEF IInv, TypeOK
<1>3. HalfWay'
  BY DEF HalfWay
<1>4. Counted'
  <2>1. \A q \in Prefixes : q # Blackhole
    BY BlackholeAssumption
  <2> QED BY <2>1 DEF IInv, Counted, Count, Users, Serving
<1>5. Owned'
  BY DEF IInv, Owned, Owners, Serving
<1>6. Blocked'
  BY <1>1 DEF Blocked
<1> QED BY <1>2, <1>3, <1>4, <1>5, <1>6 DEF IInv

\* A request was refused: the route and its reference stay.
LEMMA RemoveRefused ==
  ASSUME IInv, NEW n \in Networks, phase = "remove", n \in todo, refs[PrefixOf[n]] = 1,
         half = NoItem \/ PrefixOf[n] = Default,
         todo' = todo \ {n}, activeRoutes' = activeRoutes \ {n}, half' = NoItem,
         residue \subseteq residue', residue' \subseteq residue \cup table,
         PrefixOf[n] \in table => PrefixOf[n] \in residue',
         PrefixOf[n] = Default /\ Blackhole \in table => Blackhole \in residue',
         faults' \in 0..MaxFaults,
         UNCHANGED <<table, unsupported, refs, rules, sysctl, originalSysctl, phase, after,
                     clientNetworks, clientRoutes, announced, wanted, userLost>>
  PROVE  IInv'
<1> DEFINE p == PrefixOf[n]
<1>1. /\ n \in activeRoutes /\ p \in Prefixes /\ IsFiniteSet(activeRoutes')
      /\ \A q \in Prefixes :
              /\ Cardinality(Users(activeRoutes, q)) \in Nat
              /\ Cardinality(Users(activeRoutes', q)) \in Nat
              /\ Cardinality(Users(activeRoutes', q)) =
                   IF q = p THEN Cardinality(Users(activeRoutes, q)) - 1
                            ELSE Cardinality(Users(activeRoutes, q))
  BY DropFacts
<1>2. refs \in [Prefixes -> Nat]
  BY DEF IInv, TypeOK
<1>3. TypeOK' /\ Loops' /\ Fresh' /\ Cleaned' /\ Restores' /\ Updating'
  BY RemoveFrame DEF IInv, TypeOK
<1>4. HalfWay'
  BY DEF HalfWay
<1>5. Counted'
  <2>1. \A q \in Prefixes :
          /\ Cardinality(Users(activeRoutes, q)) <= refs[q]
          /\ refs[q] > 0 => q \in table \cup unsupported
          /\ refs[q] > Cardinality(Users(activeRoutes, q)) =>
               /\ q \in table => q \in residue
               /\ q = Default /\ Blackhole \in table => Blackhole \in residue
    BY DEF IInv, Counted, Count, Serving
  <2>2. ASSUME NEW q \in Prefixes
        PROVE  /\ Cardinality(Users(activeRoutes', q)) <= refs[q]
               /\ refs[q] > Cardinality(Users(activeRoutes', q)) =>
                    /\ q \in table => q \in residue'
                    /\ q = Default /\ Blackhole \in table => Blackhole \in residue'
    <3>1. CASE q = p
      <4>1. /\ Cardinality(Users(activeRoutes, q)) \in Nat /\ refs[q] \in Nat
            /\ Cardinality(Users(activeRoutes', q)) = Cardinality(Users(activeRoutes, q)) - 1
            /\ Cardinality(Users(activeRoutes, q)) <= refs[q]
        BY <1>1, <1>2, <2>1, <3>1
      <4>2. Cardinality(Users(activeRoutes', q)) <= refs[q]
        BY <4>1
      <4> QED BY <3>1, <4>2
    <3>2. CASE q # p
      <4>1. Cardinality(Users(activeRoutes', q)) = Cardinality(Users(activeRoutes, q))
        BY <1>1, <3>2
      <4> QED BY <2>1, <4>1
    <3> QED BY <3>1, <3>2
  <2> QED BY <1>1, <2>1, <2>2 DEF Counted, Count
<1>6. Owned'
  <2>1. ASSUME NEW r \in table, r \notin residue'
        PROVE  \E m \in activeRoutes' : r = PrefixOf[m] \/ (r = Blackhole /\ PrefixOf[m] = Default)
    <3>1. PICK m \in activeRoutes : r = PrefixOf[m] \/ (r = Blackhole /\ PrefixOf[m] = Default)
      BY <2>1 DEF IInv, Owned, Owners, Serving
    <3>2. m # n
      BY <2>1, <3>1
    <3> QED BY <3>1, <3>2
  <2> QED BY <2>1 DEF Owned, Owners
<1>7. Blocked'
  BY DEF IInv, Blocked
<1> QED BY <1>3, <1>4, <1>5, <1>6, <1>7 DEF IInv

\* The last reference goes with the route, or with the request to delete it.
LEMMA RemoveUnroutes ==
  ASSUME IInv, NEW n \in Networks, phase = "remove", n \in todo, refs[PrefixOf[n]] = 1,
         IF PrefixOf[n] = Default THEN half = n ELSE half = NoItem,
         todo' = todo \ {n}, activeRoutes' = activeRoutes \ {n}, half' = NoItem,
         \/ table' = table \ {PrefixOf[n]} /\ residue' = residue \ {PrefixOf[n]}
         \/ table' = table /\ residue' = residue \cup (table \cap {PrefixOf[n]}),
         unsupported' = unsupported \ {PrefixOf[n]}, faults' \in 0..MaxFaults,
         refs' = [refs EXCEPT ![PrefixOf[n]] = 0],
         UNCHANGED <<rules, sysctl, originalSysctl, phase, after,
                     clientNetworks, clientRoutes, announced, wanted, userLost>>
  PROVE  IInv'
<1> DEFINE p == PrefixOf[n]
<1>1. /\ n \in activeRoutes /\ p \in Prefixes /\ IsFiniteSet(activeRoutes')
      /\ \A q \in Prefixes :
              /\ Cardinality(Users(activeRoutes, q)) \in Nat
              /\ Cardinality(Users(activeRoutes', q)) \in Nat
              /\ Cardinality(Users(activeRoutes', q)) =
                   IF q = p THEN Cardinality(Users(activeRoutes, q)) - 1
                            ELSE Cardinality(Users(activeRoutes, q))
  BY DropFacts
<1>2. /\ refs \in [Prefixes -> Nat] /\ refs' \in [Prefixes -> Nat] /\ refs'[p] = 0
      /\ \A q \in Prefixes : q # p => refs'[q] = refs[q]
  BY <1>1 DEF IInv, TypeOK
<1>3. TypeOK' /\ Loops' /\ Fresh' /\ Cleaned' /\ Restores' /\ Updating'
  BY <1>2, RemoveFrame DEF IInv, TypeOK
<1>4. HalfWay'
  BY DEF HalfWay
<1>5. p # Blackhole /\ n # NoItem /\ (p = Default /\ Blackhole \in table => Blackhole \in residue)
  BY <1>1, BlackholeAssumption, NoItemAssumption DEF IInv, HalfWay
<1>6. Counted'
  <2>1. \A q \in Prefixes :
          /\ Cardinality(Users(activeRoutes, q)) <= refs[q]
          /\ refs[q] > 0 => q \in table \cup unsupported
          /\ refs[q] > Cardinality(Users(activeRoutes, q)) =>
               /\ q \in table => q \in residue
               /\ q = Default /\ Blackhole \in table => Blackhole \in residue
    BY DEF IInv, Counted, Count, Serving
  <2>2. ASSUME NEW q \in Prefixes
        PROVE  /\ Cardinality(Users(activeRoutes', q)) <= refs'[q]
               /\ refs'[q] > 0 => q \in table' \cup unsupported'
               /\ refs'[q] > Cardinality(Users(activeRoutes', q)) =>
                    /\ q \in table' => q \in residue'
                    /\ q = Default /\ Blackhole \in table' => Blackhole \in residue'
    <3>1. CASE q = p
      <4>1. /\ Cardinality(Users(activeRoutes, q)) \in Nat
            /\ Cardinality(Users(activeRoutes', q)) \in Nat
            /\ Cardinality(Users(activeRoutes', q)) = Cardinality(Users(activeRoutes, q)) - 1
            /\ Cardinality(Users(activeRoutes, q)) <= refs[q] /\ refs[q] = 1
        BY <1>1, <2>1, <3>1
      <4>2. Cardinality(Users(activeRoutes', q)) = 0
        BY <4>1
      <4> QED BY <1>2, <3>1, <4>2
    <3>2. CASE q # p
      <4>1. Cardinality(Users(activeRoutes', q)) = Cardinality(Users(activeRoutes, q))
        BY <1>1, <3>2
      <4>2. refs'[q] = refs[q]
        BY <1>2, <3>2
      <4> QED BY <1>5, <2>1, <3>2, <4>1, <4>2
    <3> QED BY <3>1, <3>2
  <2> QED BY <1>1, <2>2 DEF Counted, Count
<1>7. Owned'
  <2>1. ASSUME NEW r \in table', r \notin residue'
        PROVE  \E m \in activeRoutes' : r = PrefixOf[m] \/ (r = Blackhole /\ PrefixOf[m] = Default)
    <3>1. r \in table /\ r # p /\ r \notin residue
      BY <1>5, <2>1
    <3>2. PICK m \in activeRoutes : r = PrefixOf[m] \/ (r = Blackhole /\ PrefixOf[m] = Default)
      BY <3>1 DEF IInv, Owned, Owners, Serving
    <3>3. m # n
      BY <1>5, <3>1, <3>2
    <3> QED BY <3>2, <3>3
  <2> QED BY <2>1 DEF Owned, Owners
<1>8. Blocked'
  <2>1. CASE p = Default
    BY <2>1 DEF Blocked
  <2>2. CASE p # Default
    BY <1>5, <2>2 DEF IInv, Blocked
  <2> QED BY <2>1, <2>2
<1> QED BY <1>3, <1>4, <1>6, <1>7, <1>8 DEF IInv

\* RemoveRoute of a handler, whatever the kernel answers.
LEMMA RemoveRouteStep ==
  ASSUME IInv, NEW n \in Networks, RemoveRoute(n)
  PROVE  IInv'
<1> DEFINE p == PrefixOf[n]
           Dropped == todo' = todo \ {n} /\ activeRoutes' = activeRoutes \ {n}
<1>1. /\ phase = "remove" /\ n \in todo /\ half \in {n, NoItem}
      /\ UNCHANGED <<rules, sysctl, originalSysctl, phase, after, clientNetworks, clientRoutes,
                     announced, wanted, userLost>>
  BY DEF RemoveRoute, update
<1>2. \/ /\ refs[p] > 1
         /\ Dropped /\ refs' = [refs EXCEPT ![p] = refs[p] - 1]
         /\ UNCHANGED <<table, unsupported, half, faults, residue>>
      \/ refs[p] = 1 /\ p = Default /\ Unblock(n) /\ UNCHANGED <<todo, activeRoutes, refs>>
      \/ refs[p] = 1 /\ p = Default /\ UnblockFails /\ Dropped /\ UNCHANGED refs
      \/ refs[p] = 1 /\ Unroute(n, p) /\ Dropped /\ refs' = [refs EXCEPT ![p] = 0]
      \/ refs[p] = 1 /\ UnrouteFails(n, p) /\ Dropped /\ UNCHANGED refs
  BY DEF RemoveRoute
<1>3. CASE /\ refs[p] > 1
           /\ Dropped /\ refs' = [refs EXCEPT ![p] = refs[p] - 1]
           /\ UNCHANGED <<table, unsupported, half, faults, residue>>
  BY <1>1, <1>3, RemoveShared
<1>4. CASE refs[p] = 1 /\ p = Default /\ Unblock(n) /\ UNCHANGED <<todo, activeRoutes, refs>>
  <2>1. half = NoItem /\ half' = n /\ unsupported' = unsupported \ {Blackhole}
        /\ RouteDel(Blackhole)
    BY <1>4 DEF Unblock
  <2>2. \/ table' = table \ {Blackhole} /\ residue' = residue \ {Blackhole}
        \/ table' = table /\ residue' = residue \cup (table \cap {Blackhole})
    BY <2>1 DEF RouteDel, RouteStays
  <2>3. faults' \in 0..MaxFaults
    BY <2>1, FaultType DEF IInv, RouteDel
  <2> QED BY <1>1, <1>4, <2>1, <2>2, <2>3, RemoveUnblocks
<1>6. CASE refs[p] = 1 /\ p = Default /\ UnblockFails /\ Dropped /\ UNCHANGED refs
  <2>1. /\ half = NoItem /\ half' = NoItem /\ table' = table /\ unsupported' = unsupported
        /\ residue' = residue \cup (table \cap {Blackhole, Default})
    BY <1>6 DEF UnblockFails, RouteStays
  <2>2. faults' \in 0..MaxFaults
    BY <1>6, FaultType DEF IInv, UnblockFails
  <2>3. (p \in table => p \in residue') /\ (Blackhole \in table => Blackhole \in residue')
    BY <1>6, <2>1
  <2>4. residue \subseteq residue' /\ residue' \subseteq residue \cup table
    BY <2>1
  <2> QED BY <1>1, <1>6, <2>1, <2>2, <2>3, <2>4, RemoveRefused
<1>7. CASE refs[p] = 1 /\ Unroute(n, p) /\ Dropped /\ refs' = [refs EXCEPT ![p] = 0]
  <2>1. /\ half' = NoItem /\ unsupported' = unsupported \ {p} /\ RouteDel(p)
        /\ IF p = Default THEN half = n ELSE half = NoItem
    BY <1>7 DEF Unroute, Unroutable
  <2>2. \/ table' = table \ {p} /\ residue' = residue \ {p}
        \/ table' = table /\ residue' = residue \cup (table \cap {p})
    BY <2>1 DEF RouteDel, RouteStays
  <2>3. faults' \in 0..MaxFaults
    BY <2>1, FaultType DEF IInv, RouteDel
  <2> QED BY <1>1, <1>7, <2>1, <2>2, <2>3, RemoveUnroutes
<1>8. CASE refs[p] = 1 /\ UnrouteFails(n, p) /\ Dropped /\ UNCHANGED refs
  <2>1. /\ half' = NoItem /\ table' = table /\ unsupported' = unsupported
        /\ residue' = residue \cup (table \cap {p})
        /\ IF p = Default THEN half = n ELSE half = NoItem
    BY <1>8 DEF UnrouteFails, Unroutable, RouteStays
  <2>2. faults' \in 0..MaxFaults
    BY <1>8, FaultType DEF IInv, UnrouteFails
  <2>3. /\ p \in table => p \in residue'
        /\ residue \subseteq residue' /\ residue' \subseteq residue \cup table
    BY <1>8, <2>1
  <2>4. p = Default /\ Blackhole \in table => Blackhole \in residue'
    BY <1>1, <2>1, NoItemAssumption DEF IInv, HalfWay
  <2> QED BY <1>1, <1>8, <2>1, <2>2, <2>3, <2>4, RemoveRefused
<1> QED BY <1>2, <1>3, <1>4, <1>6, <1>7, <1>8

-----------------------------------------------------------------------------
(* AddRoute.                                                               *)

\* What a step of the loop that adds leaves alone.
LEMMA AddFrame ==
  ASSUME IInv, NEW n \in Networks, phase = "add", n \in todo,
         \/ todo' = todo \ {n} /\ half' = NoItem /\ activeRoutes' \in {activeRoutes, activeRoutes \cup {n}}
         \/ todo' = todo /\ half' = n /\ activeRoutes' = activeRoutes,
         table' \subseteq Routes, residue' \subseteq Routes \cup Rules,
         unsupported' \subseteq Routes, refs' \in [Prefixes -> Nat], faults' \in 0..MaxFaults,
         UNCHANGED <<rules, sysctl, originalSysctl, phase, after, clientNetworks, clientRoutes,
                     announced, wanted, userLost>>
  PROVE  TypeOK' /\ Loops' /\ Fresh' /\ Cleaned' /\ Restores' /\ Updating'
<1> USE DEF IInv
<1>1. /\ todo' \subseteq todo /\ activeRoutes \subseteq activeRoutes'
      /\ activeRoutes' \subseteq activeRoutes \cup {n} /\ half' \in {n, NoItem}
  OBVIOUS
<1>2. TypeOK'
  BY <1>1 DEF TypeOK
<1>3. Loops'
  <2>1. todo' \subseteq Networks
    BY <1>1 DEF Loops
  <2>2. half' # NoItem => half' \in todo'
    OBVIOUS
  <2> QED BY <2>1, <2>2 DEF Loops
<1>4. Fresh' /\ Cleaned' /\ Restores'
  BY DEF Fresh, Cleaned, Restores, Cleaning
<1>5. Updating'
  <2>1. todo \subseteq wanted \ activeRoutes /\ activeRoutes \subseteq wanted
        /\ wanted \subseteq announced /\ clientNetworks \cap wanted \subseteq activeRoutes
    BY DEF Updating
  <2>2. todo' \subseteq wanted' \ activeRoutes'
    BY <2>1
  <2>3. activeRoutes' \subseteq wanted' /\ clientNetworks' \cap wanted' \subseteq activeRoutes'
    BY <1>1, <2>1
  <2> QED BY <2>1, <2>2, <2>3 DEF Updating
<1> QED BY <1>2, <1>3, <1>4, <1>5

\* A handler is not added: the loop goes on, and the unreachable route of an
\* exit node is left if it was set.
LEMMA AddRefused ==
  ASSUME IInv, NEW n \in Networks, phase = "add", n \in todo,
         todo' = todo \ {n}, half' = NoItem, faults' \in 0..MaxFaults,
         residue \subseteq residue', residue' \subseteq residue \cup {Blackhole},
         half # NoItem /\ Blackhole \in table => Blackhole \in residue',
         UNCHANGED <<table, unsupported, activeRoutes, refs, rules, sysctl, originalSysctl, phase, after,
                     clientNetworks, clientRoutes, announced, wanted, userLost>>
  PROVE  IInv'
<1>1. residue' \subseteq Routes \cup Rules
  BY DEF IInv, TypeOK, Routes
<1>2. TypeOK' /\ Loops' /\ Fresh' /\ Cleaned' /\ Restores' /\ Updating'
  BY <1>1, AddFrame DEF IInv, TypeOK
<1>3. HalfWay'
  BY DEF HalfWay
<1>4. Counted'
  BY DEF IInv, Counted, Count, Users, Serving
<1>5. Owned'
  BY DEF IInv, Owned, Owners, Serving
<1>6. Blocked'
  BY DEF IInv, Blocked
<1> QED BY <1>2, <1>3, <1>4, <1>5, <1>6 DEF IInv

\* The unreachable route of an exit node is set first, or not supported.
LEMMA AddBlocks ==
  ASSUME IInv, NEW n \in Networks, phase = "add", n \in todo, half = NoItem,
         refs[PrefixOf[n]] = 0, PrefixOf[n] = Default, Default \notin NotAllowed,
         \/ table' = table \cup {Blackhole} /\ unsupported' = unsupported \ {Blackhole}
         \/ table' = table /\ unsupported' = unsupported \cup ({Blackhole} \ table),
         half' = n, faults' \in 0..MaxFaults,
         UNCHANGED <<todo, activeRoutes, refs, residue, rules, sysctl, originalSysctl, phase,
                     after, clientNetworks, clientRoutes, announced, wanted, userLost>>
  PROVE  IInv'
<1>1. Default \in Prefixes /\ Default # Blackhole /\ n # NoItem
  BY NetworksAssumption, BlackholeAssumption, NoItemAssumption
<1>2. TypeOK' /\ Loops' /\ Fresh' /\ Cleaned' /\ Restores' /\ Updating'
  BY AddFrame DEF IInv, TypeOK, Routes
<1>3. HalfWay'
  BY DEF HalfWay
<1>4. Counted'
  <2>1. \A q \in Prefixes : q # Blackhole
    BY BlackholeAssumption
  <2>2. \A q \in Prefixes :
          /\ Cardinality(Users(activeRoutes, q)) <= refs[q]
          /\ refs[q] > 0 => q \in table \cup unsupported
          /\ refs[q] > Cardinality(Users(activeRoutes, q)) /\ q \in table => q \in residue
    BY DEF IInv, Counted, Count, Serving
  <2>3. IsFiniteSet(activeRoutes)
    BY DEF IInv, Counted, Serving
  <2>4. ~(refs[Default] > Cardinality(Users(activeRoutes, Default)))
    <3>1. Cardinality(Users(activeRoutes, Default)) \in Nat
      BY <2>3, UsersCounted
    <3> QED BY <3>1
  <2> QED BY <2>1, <2>2, <2>3, <2>4 DEF Counted, Count
<1>5. Owned'
  BY <1>1 DEF IInv, Owned, Owners, Serving
<1>6. Blocked'
  BY DEF Blocked
<1> QED BY <1>2, <1>3, <1>4, <1>5, <1>6 DEF IInv

\* A handler is added: it counts as one more reference to its prefix, and
\* the prefix is routed, beside an unreachable route for an exit node.
LEMMA AddCounts ==
  ASSUME IInv, NEW n \in Networks, phase = "add", n \in todo,
         todo' = todo \ {n}, half' = NoItem, activeRoutes' = activeRoutes \cup {n},
         refs' = [refs EXCEPT ![PrefixOf[n]] = @ + 1],
         \/ table' = table \cup {PrefixOf[n]} /\ unsupported' = unsupported \ {PrefixOf[n]}
         \/ /\ table' = table /\ unsupported' \subseteq unsupported \cup {PrefixOf[n]}
            /\ unsupported \subseteq unsupported' /\ PrefixOf[n] \in table \cup unsupported',
         refs[PrefixOf[n]] = 0 \/ table' = table, faults' \in 0..MaxFaults,
         PrefixOf[n] = Default => \/ Default \in table \/ Blackhole \in table \cup unsupported
                                  \/ table' = table,
         half # NoItem => PrefixOf[n] = Default,
         UNCHANGED <<residue, rules, sysctl, originalSysctl, phase, after,
                     clientNetworks, clientRoutes, announced, wanted, userLost>>
  PROVE  IInv'
<1> DEFINE p == PrefixOf[n]
<1>1. p \in Prefixes /\ p # Blackhole
  BY NetworksAssumption, BlackholeAssumption
<1>2. n \notin activeRoutes /\ IsFiniteSet(activeRoutes)
  BY DEF IInv, Updating, Counted, Serving
<1>3. /\ refs \in [Prefixes -> Nat] /\ refs' \in [Prefixes -> Nat] /\ refs'[p] = refs[p] + 1
      /\ \A q \in Prefixes : q # p => refs'[q] = refs[q]
  BY <1>1 DEF IInv, TypeOK
<1>4. TypeOK' /\ Loops' /\ Fresh' /\ Cleaned' /\ Restores' /\ Updating'
  BY <1>1, <1>3, AddFrame DEF IInv, TypeOK, Routes
<1>5. HalfWay'
  BY DEF HalfWay
<1>a. Cardinality(Users(activeRoutes \cup {n}, p)) = Cardinality(Users(activeRoutes, p)) + 1
  BY <1>2, UserAdded, Zenon
<1>6. Counted'
  <2>1. \A q \in Prefixes :
          /\ Cardinality(Users(activeRoutes, q)) <= refs[q]
          /\ refs[q] > 0 => q \in table \cup unsupported
          /\ refs[q] > Cardinality(Users(activeRoutes, q)) =>
               /\ q \in table => q \in residue
               /\ q = Default /\ Blackhole \in table => Blackhole \in residue
    BY DEF IInv, Counted, Count, Serving
  <2>2. IsFiniteSet(activeRoutes')
    BY <1>2, UserAdded
  <2>3. ASSUME NEW q \in Prefixes
        PROVE  /\ Cardinality(Users(activeRoutes', q)) <= refs'[q]
               /\ refs'[q] > 0 => q \in table' \cup unsupported'
               /\ refs'[q] > Cardinality(Users(activeRoutes', q)) =>
                    /\ q \in table' => q \in residue
                    /\ q = Default /\ Blackhole \in table' => Blackhole \in residue
    <3>1. Blackhole \in table' => Blackhole \in table
      BY <1>1
    <3>a. /\ p \in table' \cup unsupported'
          /\ q # p => /\ q \in table' <=> q \in table
                      /\ q \in unsupported => q \in unsupported'
          /\ refs[p] # 0 => table' = table
      OBVIOUS
    <3> HIDE DEF p
    <3>2. CASE q = p
      <4>1. /\ Cardinality(Users(activeRoutes, q)) \in Nat /\ refs[q] \in Nat
            /\ Cardinality(Users(activeRoutes', q)) = Cardinality(Users(activeRoutes, q)) + 1
            /\ refs'[q] = refs[q] + 1
        <5>1. Cardinality(Users(activeRoutes, q)) \in Nat
          BY <1>2, UsersCounted
        <5>2. Cardinality(Users(activeRoutes', q)) = Cardinality(Users(activeRoutes, q)) + 1
          BY <1>a, <3>2, Zenon
        <5>3. refs[p] \in Nat /\ refs'[p] = refs[p] + 1
          BY <1>1, <1>3
        <5> QED BY <3>2, <5>1, <5>2, <5>3
      <4>2. /\ Cardinality(Users(activeRoutes', q)) <= refs'[q] <=>
                 Cardinality(Users(activeRoutes, q)) <= refs[q]
            /\ refs'[q] > Cardinality(Users(activeRoutes', q)) <=>
                 refs[q] > Cardinality(Users(activeRoutes, q))
        BY <4>1
      <4>3. refs[q] > Cardinality(Users(activeRoutes, q)) => refs[q] # 0
        BY <4>1
      <4> QED BY <2>1, <3>1, <3>a, <3>2, <4>2, <4>3
    <3>3. CASE q # p
      <4>1. Users(activeRoutes', q) = Users(activeRoutes, q)
        BY <1>2, <3>3, UserAdded DEF p
      <4>2. refs'[q] = refs[q]
        BY <1>3, <3>3
      <4>3. refs'[q] > 0 => q \in table' \cup unsupported'
        BY <2>1, <3>a, <3>3, <4>2
      <4> QED BY <2>1, <3>1, <3>a, <3>3, <4>1, <4>2, <4>3
    <3> QED BY <3>2, <3>3
  <2> QED BY <2>2, <2>3 DEF Counted, Count
<1>7. Owned'
  <2>1. ASSUME NEW r \in table', r \notin residue'
        PROVE  \E m \in activeRoutes' : r = PrefixOf[m] \/ (r = Blackhole /\ PrefixOf[m] = Default)
    <3>1. CASE r = p \/ (r = Blackhole /\ half # NoItem)
      BY <3>1
    <3>2. CASE ~(r = p \/ (r = Blackhole /\ half # NoItem))
      <4>1. r \in table
        BY <2>1, <3>2
      <4>2. PICK m \in activeRoutes : r = PrefixOf[m] \/ (r = Blackhole /\ PrefixOf[m] = Default)
        BY <2>1, <3>2, <4>1 DEF IInv, Owned, Owners, Serving
      <4> QED BY <4>2
    <3> QED BY <3>1, <3>2
  <2> QED BY <2>1 DEF Owned, Owners
<1>8. Blocked'
  <2>1. CASE Default \in table
    BY <2>1 DEF IInv, Blocked, Serving
  <2>2. CASE Default \notin table
    BY <2>2 DEF Blocked
  <2> QED BY <2>1, <2>2
<1> QED BY <1>4, <1>5, <1>6, <1>7, <1>8 DEF IInv

\* AddRoute of a handler, whatever the kernel answers.
LEMMA AddRouteStep ==
  ASSUME IInv, NEW n \in Networks, AddRoute(n)
  PROVE  IInv'
<1> DEFINE p == PrefixOf[n]
           Done == todo' = todo \ {n} /\ half' = NoItem
           Added == activeRoutes' = activeRoutes \cup {n} /\ refs' = [refs EXCEPT ![p] = @ + 1]
           NotAdded == UNCHANGED <<activeRoutes, refs>>
<1>1. /\ phase = "add" /\ n \in todo /\ half \in {n, NoItem}
      /\ UNCHANGED <<rules, sysctl, originalSysctl, phase, after, clientNetworks, clientRoutes,
                     announced, wanted, userLost>>
  BY DEF AddRoute, update
<1>2. \/ refs[p] > 0 /\ Done /\ Added /\ UNCHANGED <<table, unsupported, faults, residue>>
      \/ p \in NotAllowed /\ Done /\ NotAdded /\ UNCHANGED <<table, unsupported, faults, residue>>
      \/ /\ refs[p] = 0 /\ p \notin NotAllowed /\ p = Default /\ half = NoItem
         /\ RouteAdd(Blackhole) /\ half' = n /\ NotAdded /\ UNCHANGED <<todo, residue>>
      \/ half = NoItem /\ RouteAddFails(Blackhole) /\ Done /\ NotAdded /\ UNCHANGED residue
      \/ refs[p] = 0 /\ Unroutable(n, p) /\ RouteAdd(p) /\ Done /\ Added /\ UNCHANGED residue
      \/ /\ RouteAddFails(p) /\ Done /\ NotAdded
         /\ residue' = residue \cup {r \in table \cap {Blackhole} : half = n}
  BY DEF AddRoute
<1>3. p \in Prefixes /\ n # NoItem /\ faults \in 0..MaxFaults
  BY NetworksAssumption, NoItemAssumption DEF IInv, TypeOK
<1>4. half # NoItem => /\ p = Default /\ Default \notin NotAllowed
                       /\ Blackhole \in table \cup unsupported /\ refs[p] = 0
  BY <1>1 DEF IInv, HalfWay
<1>5. CASE refs[p] > 0 /\ Done /\ Added /\ UNCHANGED <<table, unsupported, faults, residue>>
  <2>1. p \in table \cup unsupported
    BY <1>1, <1>3, <1>5 DEF IInv, Counted, Serving
  <2>2. half = NoItem
    BY <1>4, <1>5
  <2> QED BY <1>1, <1>3, <1>5, <2>1, <2>2, AddCounts
<1>6. CASE p \in NotAllowed /\ Done /\ NotAdded /\ UNCHANGED <<table, unsupported, faults, residue>>
  BY <1>1, <1>3, <1>4, <1>6, AddRefused
<1>7. CASE /\ refs[p] = 0 /\ p \notin NotAllowed /\ p = Default /\ half = NoItem
           /\ RouteAdd(Blackhole) /\ half' = n /\ NotAdded /\ UNCHANGED <<todo, residue>>
  <2>1. \/ table' = table \cup {Blackhole} /\ unsupported' = unsupported \ {Blackhole}
        \/ table' = table /\ unsupported' = unsupported \cup ({Blackhole} \ table)
    BY <1>7 DEF RouteAdd
  <2>2. faults' \in 0..MaxFaults
    BY <1>7, FaultType DEF IInv, RouteAdd
  <2> QED BY <1>1, <1>7, <2>1, <2>2, AddBlocks
<1>8. CASE half = NoItem /\ RouteAddFails(Blackhole) /\ Done /\ NotAdded /\ UNCHANGED residue
  <2>1. faults' \in 0..MaxFaults /\ table' = table /\ unsupported' = unsupported
    BY <1>8, FaultType DEF IInv, RouteAddFails
  <2> QED BY <1>1, <1>8, <2>1, AddRefused
<1>9. CASE refs[p] = 0 /\ Unroutable(n, p) /\ RouteAdd(p) /\ Done /\ Added /\ UNCHANGED residue
  <2>1. \/ table' = table \cup {p} /\ unsupported' = unsupported \ {p}
        \/ /\ table' = table /\ unsupported' \subseteq unsupported \cup {p}
           /\ unsupported \subseteq unsupported' /\ p \in table \cup unsupported'
    BY <1>9 DEF RouteAdd
  <2>3. faults' \in 0..MaxFaults
    BY <1>9, FaultType DEF IInv, RouteAdd
  <2>2. p = Default => Blackhole \in table \cup unsupported
    BY <1>3, <1>4, <1>9 DEF Unroutable
  <2> QED BY <1>1, <1>4, <1>9, <2>1, <2>2, <2>3, AddCounts
<1>10. CASE /\ RouteAddFails(p) /\ Done /\ NotAdded
            /\ residue' = residue \cup {r \in table \cap {Blackhole} : half = n}
  <2>1. faults' \in 0..MaxFaults /\ table' = table /\ unsupported' = unsupported
    BY <1>10, FaultType DEF IInv, RouteAddFails
  <2>2. /\ residue \subseteq residue' /\ residue' \subseteq residue \cup {Blackhole}
        /\ half # NoItem /\ Blackhole \in table => Blackhole \in residue'
    BY <1>1, <1>10
  <2> QED BY <1>1, <1>10, <2>1, <2>2, AddRefused
<1> QED BY <1>2, <1>5, <1>6, <1>7, <1>8, <1>9, <1>10

-----------------------------------------------------------------------------
(* The inductive invariant and what follows from it.                       *)

\* A new installation has no rules, no routes and the user's sysctl values.
LEMMA InitIInv ==
  ASSUME Init
  PROVE  IInv
<1> USE DEF Init
<1>1. TypeOK
  <2>1. NoRefs \in [Prefixes -> Nat] /\ 0 \in 0..MaxFaults
    BY MaxFaultsAssumption DEF NoRefs
  <2> QED BY <2>1 DEF TypeOK, Phases
<1>2. Loops /\ Fresh /\ Cleaned /\ Restores
  BY DEF Loops, Fresh, Cleaned, Restores, Cleaning
<1>3. Updating /\ HalfWay /\ Counted /\ Owned /\ Blocked
  BY DEF Serving, Updating, HalfWay, Counted, Owned, Blocked
<1> QED BY <1>1, <1>2, <1>3 DEF IInv

\* Every step of the manager keeps it.
LEMMA NextIInv ==
  ASSUME IInv, [Next]_vars
  PROVE  IInv'
<1>1. CASE Start
  BY <1>1, StartStep
<1>2. CASE Starts
  BY <1>2, AddRuleStep, SetupSysctlStep, StartEndsStep, StartFailsStep DEF Starts
<1>3. CASE Cleans
  BY <1>3, ListRoutesStep, FlushRouteStep, FlushEndsStep, RemoveRuleStep, CleanupEndsStep
     DEF Cleans
<1>4. CASE Updates
  BY <1>4, RemoveRouteStep, AddRouteStep, RemovalEndsStep, UpdateEndsStep DEF Updates
<1>5. CASE Stops
  BY <1>5, FlushRefStep, FlushRefsEndsStep DEF Stops
<1>6. CASE Stop
  BY <1>6, StopStep
<1>7. CASE Crash
  BY <1>7, CrashStep
<1>8. ASSUME NEW ns \in SUBSET Networks, UpdateRoutes(ns) \/ TriggerSelection(ns)
      PROVE  IInv'
  BY <1>8, UpdateRoutesStep
<1>9. CASE UNCHANGED vars
  <2>1. UNCHANGED <<rules, table, sysctl, originalSysctl, phase, after, todo, half, refs, unsupported,
                    activeRoutes, clientNetworks, clientRoutes, announced, wanted, faults, residue, userLost>>
    BY <1>9 DEF vars, kernel, control, manager, update, history
  <2>2. TypeOK' /\ Loops' /\ Fresh' /\ Cleaned' /\ Restores'
    BY <2>1 DEF IInv, TypeOK, Loops, Fresh, Cleaned, Restores
  <2>3. Updating' /\ HalfWay' /\ Counted' /\ Owned' /\ Blocked'
    BY <2>1 DEF IInv, Updating, HalfWay, Counted, Count, Users, Owned, Owners, Blocked
  <2> QED BY <2>2, <2>3 DEF IInv
<1> QED BY <1>1, <1>2, <1>3, <1>4, <1>5, <1>6, <1>7, <1>8, <1>9 DEF Next

\* The invariant holds in every state the manager reaches.
LEMMA Invariance == Spec => []IInv
<1>1. Init => IInv
  BY InitIInv
<1>2. IInv /\ [Next]_vars => IInv'
  BY NextIInv
<1> QED BY <1>1, <1>2, PTL DEF Spec

\* Every variable of the route manager keeps its type.
THEOREM TypeCorrect == Spec => []TypeOK
<1>1. IInv => TypeOK
  BY DEF IInv
<1> QED BY <1>1, Invariance, PTL

\* Between updates the watchers are those of the active handlers, which
\* management announced, and the prefix of each is routed unless the kernel did
\* not support its route: an active network is counted, so its prefix has a
\* reference, and a prefix with a reference is in the table or was passed over.
THEOREM RoutesConsistentAlways == Spec => []RoutesConsistent
<1>1. ASSUME IInv PROVE RoutesConsistent
  <2>1. ASSUME phase = "idle", NEW n \in activeRoutes PROVE PrefixOf[n] \in table \cup unsupported
    <3>1. PrefixOf[n] \in Prefixes
      BY <1>1, NetworksAssumption DEF IInv, TypeOK
    <3>2. IsFiniteSet(activeRoutes) /\ Count(PrefixOf[n]) <= refs[PrefixOf[n]]
          /\ (refs[PrefixOf[n]] > 0 => PrefixOf[n] \in table \cup unsupported)
      BY <1>1, <2>1, <3>1 DEF IInv, Counted, Serving
    <3>3. Count(PrefixOf[n]) \in Nat /\ Count(PrefixOf[n]) # 0
      <4>1. n \in Users(activeRoutes, PrefixOf[n])
        BY DEF Users
      <4> QED BY <3>2, <4>1, UsersCounted DEF Count
    <3>4. refs[PrefixOf[n]] \in Nat
      BY <1>1, <3>1 DEF IInv, TypeOK
    <3> QED BY <3>2, <3>3, <3>4
  <2> QED BY <1>1, <2>1 DEF IInv, Updating, RoutesConsistent
<1> QED BY <1>1, Invariance, PTL

\* Between updates every route of the table belongs to an active network or
\* was left by a request that failed.
THEOREM NoStaleRoutesAlways == Spec => []NoStaleRoutes
<1>1. IInv => NoStaleRoutes
  BY DEF IInv, Owned, Serving, NoStaleRoutes
<1> QED BY <1>1, Invariance, PTL

\* While IPv4 traffic leaves through an exit node, IPv6 traffic cannot leave
\* beside it, unless the host had no IPv6 routes when the exit node was added, or
\* the exit node's route could not be deleted.
THEOREM V6BlockedAlways == Spec => []V6Blocked
<1>1. IInv => V6Blocked
  BY DEF IInv, Blocked, Serving, V6Blocked
<1> QED BY <1>1, Invariance, PTL

\* After Stop nothing is left in the kernel but what could not be deleted,
\* and the sysctl values are the user's unless they are lost.
THEOREM CleanStopAlways == Spec => []CleanStop
<1>1. IInv => CleanStop
  BY DEF IInv, Cleaned, Restores, CleanStop
<1> QED BY <1>1, Invariance, PTL

=============================================================================
