---------------------------- MODULE WGIfaceProofs ----------------------------
(***************************************************************************)
(* RecorderFollows and ClosedMeansGone of the WireGuard interface, and     *)
(* that it implements Tunnel, for any number of goroutines,                *)
(* peers, prefixes, addresses and modules.  The argument turns on what a   *)
(* call that has read a peer may rely on while it holds the mutex: the     *)
(* peer is as it was read, unless the device is gone for good.             *)
(***************************************************************************)
EXTENDS WGIface, TLAPS

\* A table of peers: an allowed IP has at most one peer.
IsTable(p) ==
  /\ p = [k \in DOMAIN p |-> p[k]]
  /\ DOMAIN p \subseteq Keys
  /\ \A k \in DOMAIN p : p[k] \in Peer
  /\ \A j, k \in DOMAIN p : j # k => p[j].ips \cap p[k].ips = {}

Shapes ==
  /\ IsTable(peers)
  /\ call \in [Callers -> Calls \cup {Idle}]

\* The modules to be loaded end with the one the device needs, and before
\* there is a device nobody calls.
Probing ==
  /\ phase \in {"new", "wireguard", "tun"} => mods \in [Mods -> Statuses]
  /\ todo # <<>> => phase \in {"wireguard", "tun"} /\ todo[Len(todo)] = phase
  /\ phase # "ready" => ~cfgd /\ mu = NoCaller

\* Create works on an interface that was not configured, and that nobody has
\* closed; the calls that change it on one that was.
Calling ==
  \A c \in Callers :
    /\ In(c, "create") => ~cfgd /\ closed = "no"
    /\ call[c].op \in {"address", "endpoint", "removeIP"} => cfgd

\* What call r has read, or taken away, of the peers p.
Holds(r, p) ==
  /\ r.op = "endpoint" /\ r.pc = "remove" => r.key \in DOMAIN p /\ r.ips = p[r.key].ips
  /\ r.op = "endpoint" /\ r.pc = "add" =>
       r.key \notin DOMAIN p /\ \A k \in DOMAIN p : p[k].ips \cap r.ips = {}
  /\ r.op = "removeIP" => r.key \in DOMAIN p /\ \E ip \in Ips : r.ips = p[r.key].ips \ {ip}
Reading == Opened => \A c \in Callers : Holds(call[c], peers)

OneAddress == addr = {} \/ \E a \in Addrs : addr = {a}
Unrecorded == ~cfgd => recorded = {}

IInv ==
  /\ TypeOK
  /\ Shapes
  /\ Probing
  /\ Calling
  /\ Reading
  /\ OneAddress
  /\ Unrecorded
  /\ RecorderFollows
  /\ ClosedMeansGone

-----------------------------------------------------------------------------
(* Calls.                                                                  *)

AssignAt == {"add", "mtu", "addr", "up", "conf"}
CloseAt  == {"tun", "wait", "destroy"}

\* The fields of a call, by its operation.
LEMMA CallFields ==
  ASSUME NEW r \in Calls
  PROVE  /\ r # Idle
         /\ r.op \in {"create", "address", "endpoint", "removeIP", "close"}
         /\ r.op \in {"create", "address"} =>
              r.a \in Addrs /\ r.was \subseteq Addrs /\ r.pc \in AssignAt
         /\ r.op = "endpoint" => r.key \in Keys /\ r.ips \subseteq Ips /\ r.pc \in {"remove", "add"}
         /\ r.op = "removeIP" => r.key \in Keys /\ r.ips \subseteq Ips
         /\ r.op = "close" => r.pc \in CloseAt /\ r.err \in BOOLEAN
<1>1. CASE r \in [op : {"create", "address"}, a : Addrs, was : SUBSET Addrs, pc : AssignAt]
  BY <1>1 DEF Idle
<1>2. CASE r \in [op : {"endpoint"}, key : Keys, ips : SUBSET Ips, pc : {"remove", "add"}]
  BY <1>2 DEF Idle
<1>3. CASE r \in [op : {"removeIP"}, key : Keys, ips : SUBSET Ips]
  BY <1>3 DEF Idle
<1>4. CASE r \in [op : {"close"}, pc : CloseAt, err : BOOLEAN]
  BY <1>4 DEF Idle
<1> QED BY <1>1, <1>2, <1>3, <1>4 DEF Calls, AssignAt, CloseAt

\* A call goes on to its next request.
LEMMA AssignMoves ==
  ASSUME NEW r \in Calls, r.op \in {"create", "address"}, NEW l \in AssignAt
  PROVE  /\ [r EXCEPT !.pc = l] \in Calls
         /\ [r EXCEPT !.pc = l].op = r.op /\ [r EXCEPT !.pc = l].was = r.was
         /\ [r EXCEPT !.pc = l].pc = l
<1>1. r \in [op : {"create", "address"}, a : Addrs, was : SUBSET Addrs, pc : AssignAt]
  BY DEF Calls, AssignAt
<1> QED BY <1>1 DEF Calls, AssignAt

\* RemoveEndpointAddress goes on to add the peer again.
LEMMA EndpointMoves ==
  ASSUME NEW r \in Calls, r.op = "endpoint"
  PROVE  /\ [r EXCEPT !.pc = "add"] \in Calls
         /\ [r EXCEPT !.pc = "add"].op = "endpoint" /\ [r EXCEPT !.pc = "add"].pc = "add"
         /\ [r EXCEPT !.pc = "add"].key = r.key /\ [r EXCEPT !.pc = "add"].ips = r.ips
<1>1. r \in [op : {"endpoint"}, key : Keys, ips : SUBSET Ips, pc : {"remove", "add"}]
  BY DEF Calls
<1> QED BY <1>1 DEF Calls

\* Close goes on, with or without an error.
LEMMA CloseMoves ==
  ASSUME NEW r \in Calls, r.op = "close", NEW l \in CloseAt
  PROVE  /\ [r EXCEPT !.pc = l] \in Calls /\ [r EXCEPT !.pc = l].op = "close"
         /\ [r EXCEPT !.pc = l, !.err = TRUE] \in Calls
         /\ [r EXCEPT !.pc = l, !.err = TRUE].op = "close"
<1>1. r \in [op : {"close"}, pc : CloseAt, err : BOOLEAN]
  BY DEF Calls, CloseAt
<1> QED BY <1>1 DEF Calls, CloseAt

\* Only the goroutine that has the mutex is in a call.
LEMMA OneCall ==
  ASSUME IInv, NEW c \in Callers, mu \in {c, NoCaller}
  PROVE  /\ \A d \in Callers \ {c} : call[d] = Idle
         /\ mu = c => call[c] \in Calls
         /\ mu = NoCaller => call[c] = Idle
  BY CallerAssumption DEF IInv, TypeOK

-----------------------------------------------------------------------------
(* A step of a goroutine keeps the invariant if it keeps what it can       *)
(* disturb.                                                                *)

\* Goroutine c goes on to r; everything else may change within the types.
LEMMA StepInv ==
  ASSUME IInv, phase = "ready", UNCHANGED choice,
         NEW c \in Callers, mu \in {c, NoCaller}, NEW r \in Calls \cup {Idle},
         call' = [call EXCEPT ![c] = r], mu' = IF r = Idle THEN NoCaller ELSE c,
         link' \in BOOLEAN, dev' \in BOOLEAN, cfgd' \in BOOLEAN, blind' \in BOOLEAN,
         closed' \in {"no", "ok", "err"}, recorded' \subseteq Keys, lost' \subseteq Keys,
         addr' \subseteq Addrs, OneAddress', IsTable(peers'),
         r.op = "create" => ~cfgd' /\ closed' = "no",
         r.op \in {"address", "endpoint", "removeIP"} => cfgd',
         Opened' => Holds(r, peers'),
         Unrecorded', ClosedMeansGone',
         Userspace' /\ HasDevice' =>
           \A k \in recorded' : \/ k \in DOMAIN peers' \cup lost'
                                \/ r.op = "endpoint" /\ r.pc = "add" /\ r.key = k
  PROVE  IInv'
<1>1. call'[c] = r /\ \A d \in Callers \ {c} : call'[d] = Idle
  BY OneCall DEF IInv, Shapes
<1>2. Idle \notin Calls /\ Idle.op = "none"
  BY CallFields DEF Idle
<1>3. TypeOK'
  <2>1. \A d \in Callers : IF d = mu' THEN call'[d] \in Calls ELSE call'[d] = Idle
    BY <1>1, CallerAssumption
  <2>2. /\ DOMAIN peers' \subseteq Keys
        /\ \A k \in DOMAIN peers' :
             /\ peers'[k] \in Peer
             /\ \A j \in DOMAIN peers' \ {k} : peers'[j].ips \cap peers'[k].ips = {}
    BY DEF IsTable
  <2> QED BY <2>1, <2>2 DEF IInv, TypeOK, choice
<1>4. Shapes'
  BY DEF IInv, Shapes
<1>5. Probing'
  BY DEF IInv, Probing, choice
<1>6. Calling'
  BY <1>1, <1>2 DEF Calling, In
<1>7. Reading'
  BY <1>1, <1>2 DEF Reading, Holds
<1>8. RecorderFollows'
  BY <1>1 DEF RecorderFollows, InPc, In
<1> QED BY <1>3, <1>4, <1>5, <1>6, <1>7, <1>8 DEF IInv

-----------------------------------------------------------------------------
(* NewWGIFace.                                                             *)

Asking == {"new", "wireguard", "tun"}

\* Until there is a device nothing but the choice changes.
LEMMA ProbeInv ==
  ASSUME IInv, phase # "ready",
         UNCHANGED <<system, cfgd, mu, call, recorded, closed, history>>,
         phase' \in Asking \cup {"ready", "refused"},
         kind' \in {"none", "netstack", "kernel", "usp"},
         (kind' # "none") <=> (phase' = "ready"),
         mods' \in [Mods -> Statuses] \cup {NoMods}, todo' \in Seq(Mods),
         phase' \in Asking => mods' \in [Mods -> Statuses],
         todo' # <<>> => phase' \in {"wireguard", "tun"} /\ todo'[Len(todo')] = phase'
  PROVE  IInv'
<1>1. ~cfgd /\ mu = NoCaller /\ recorded = {}
  BY DEF IInv, Probing, Unrecorded
<1>2. TypeOK'
  BY DEF IInv, TypeOK, Asking, system, history
<1>3. Shapes' /\ OneAddress' /\ Unrecorded' /\ ClosedMeansGone' /\ Calling'
  BY DEF IInv, Shapes, OneAddress, Unrecorded, ClosedMeansGone, Calling, In, system, history
<1>4. Probing'
  BY <1>1 DEF Probing, Asking
<1>5. Reading' /\ RecorderFollows'
  BY <1>1 DEF Reading, Opened, RecorderFollows
<1> QED BY <1>2, <1>3, <1>4, <1>5 DEF IInv

\* A device is chosen.
LEMMA ChosenStep ==
  ASSUME IInv, phase # "ready", NEW d \in {"netstack", "kernel", "usp"}, Chosen(d)
  PROVE  IInv'
<1>1. todo' = <<>> /\ todo' \in Seq(Mods)
  BY DEF Chosen
<1> QED BY <1>1, ProbeInv DEF Chosen, Asking

\* A module is given up: the next one is tried, or none is left.
LEMMA NotLoadedStep ==
  ASSUME IInv, phase \in {"wireguard", "tun"}, NotLoaded
  PROVE  IInv'
<1>1. todo' = <<>> /\ todo' \in Seq(Mods)
  BY DEF NotLoaded
<1>2. kind' = "none" /\ phase' \in {"tun", "refused"}
  BY DEF NotLoaded, IInv, TypeOK
<1>3. /\ UNCHANGED <<mods, system, cfgd, mu, call, recorded, closed, history>>
      /\ mods \in [Mods -> Statuses]
  BY DEF NotLoaded, IInv, TypeOK, Probing
<1> QED BY <1>1, <1>2, <1>3, ProbeInv DEF Asking

\* The choice goes on with another table of modules, or with modules to load.
LEMMA AskStep ==
  ASSUME IInv, phase \in Asking, phase' \in Asking \cup {"refused"},
         mods' \in [Mods -> Statuses], todo' \in Seq(Mods),
         todo' # <<>> => phase' \in {"wireguard", "tun"} /\ todo'[Len(todo')] = phase',
         UNCHANGED <<kind, system, cfgd, mu, call, recorded, closed, history>>
  PROVE  IInv'
<1>1. kind' = "none"
  BY DEF IInv, TypeOK, Asking
<1> QED BY <1>1, ProbeInv DEF Asking

\* The module at the head of the list is there: the list ends with the module
\* of the device.
LEMMA LoadedStep ==
  ASSUME IInv, todo # <<>>, NEW table \in [Mods -> Statuses],
         loadModuleWithDependencies(table)
  PROVE  IInv'
<1>1. /\ phase \in {"wireguard", "tun"} /\ todo \in Seq(Mods)
      /\ todo[Len(todo)] = phase /\ Len(todo) >= 1
  BY DEF IInv, Probing, TypeOK
<1>2. CASE Len(todo) = 1
  <2>1. Chosen(DeviceOf(phase))
    BY <1>2 DEF loadModuleWithDependencies
  <2> QED BY <1>1, <2>1, ChosenStep DEF DeviceOf
<1>3. CASE Len(todo) # 1
  <2>1. /\ todo' = Tail(todo) /\ mods' = table
        /\ UNCHANGED <<phase, kind, system, cfgd, mu, call, recorded, closed, history>>
    BY <1>3 DEF loadModuleWithDependencies
  <2>2. Len(todo) \in Nat /\ Len(todo) > 1
    <3>1. Len(todo) \in Nat
      BY <1>1
    <3>2. \A n \in Nat : n >= 1 /\ n # 1 => n > 1
      OBVIOUS
    <3>3. Len(todo) >= 1 /\ Len(todo) # 1
      BY <1>1, <1>3
    <3> QED BY <3>1, <3>2, <3>3
  <2>3. Tail(todo) \in Seq(Mods) /\ Len(Tail(todo)) = Len(todo) - 1
    BY <1>1, <2>2
  <2>4. Tail(todo)[Len(todo) - 1] = todo[Len(todo)]
    BY <1>1, <2>2
  <2> QED BY <1>1, <2>1, <2>3, <2>4, AskStep DEF Asking
<1> QED BY <1>2, <1>3

\* NewWGIFace, and the other processes that load modules meanwhile.
LEMMA ProbeStep ==
  ASSUME IInv, Probe \/ OtherLoader
  PROVE  IInv'
<1>0. /\ phase \in Asking => mods \in [Mods -> Statuses]
      /\ todo \in Seq(Mods) /\ <<>> \in Seq(Mods)
      /\ todo # <<>> => phase \in {"wireguard", "tun"} /\ todo[Len(todo)] = phase
      /\ {"wireguard", "tun"} \subseteq Mods
  BY DEF IInv, Probing, TypeOK, Asking, Mods
<1>1. CASE NewWGIFace
  <2>1. CASE phase' = "refused" /\ UNCHANGED <<kind, mods, todo, system, cfgd, mu, call,
                                              recorded, closed, history>>
    BY <1>0, <1>1, <2>1, AskStep DEF NewWGIFace, Asking
  <2>2. CASE Chosen("netstack")
    BY <1>1, <2>2, ChosenStep DEF NewWGIFace
  <2> QED BY <1>1, <2>1, <2>2 DEF NewWGIFace
<1>2. CASE CanCreateFake
  BY <1>2, ChosenStep DEF CanCreateFake
<1>3. CASE WireGuardModuleIsLoaded
  <2>1. phase = "new" /\ todo = <<>>
    BY <1>0, <1>3 DEF WireGuardModuleIsLoaded
  <2> QED BY <1>0, <1>3, <2>1, AskStep DEF WireGuardModuleIsLoaded, Asking
<1>4. CASE ModuleTunIsLoaded
  BY <1>4, ChosenStep DEF ModuleTunIsLoaded
<1>5. CASE NoModulePath \/ LoadFails
  BY <1>0, <1>5, NotLoadedStep DEF NoModulePath, LoadFails
<1>6. CASE tryToLoadModule
  <2>1. CASE Chosen(DeviceOf(phase))
    BY <1>6, <2>1, ChosenStep DEF tryToLoadModule, DeviceOf
  <2>2. CASE /\ todo' = getModuleDependencies(phase) \o <<phase>>
             /\ UNCHANGED <<phase, kind, mods, system, cfgd, mu, call, recorded, closed,
                            history>>
    <3>1. Deps \in Seq(Mods)
      BY DepsAssumption DEF Mods, Range
    <3>2. getModuleDependencies(phase) \in Seq(Mods)
      BY <3>1 DEF getModuleDependencies
    <3>3. phase \in {"wireguard", "tun"}
      BY <1>6 DEF tryToLoadModule
    <3>4. todo' \in Seq(Mods) /\ todo'[Len(todo')] = phase
      BY <1>0, <2>2, <3>2, <3>3
    <3> QED BY <1>0, <2>2, <3>3, <3>4, AskStep DEF Asking
  <2> QED BY <1>6, <2>1, <2>2 DEF tryToLoadModule
<1>7. CASE loadModule
  <2>1. todo # <<>> /\ mods \in [Mods -> Statuses] /\ Head(todo) \in Mods
    BY <1>0, <1>7 DEF loadModule, Asking
  <2>2. CASE Listed(Head(todo)) /\ loadModuleWithDependencies(mods)
    BY <2>1, <2>2, LoadedStep
  <2>3. CASE loadModuleWithDependencies([mods EXCEPT ![Head(todo)] = "live"])
    <3>1. [mods EXCEPT ![Head(todo)] = "live"] \in [Mods -> Statuses]
      BY <2>1 DEF Statuses
    <3> QED BY <2>1, <2>3, <3>1, LoadedStep
  <2> QED BY <1>7, <2>2, <2>3 DEF loadModule
<1>8. CASE OtherLoader
  <2>1. phase \in Asking
    BY <1>8 DEF OtherLoader, Asking
  <2>2. mods' \in [Mods -> Statuses]
    BY <1>0, <1>8, <2>1 DEF OtherLoader, Statuses
  <2> QED BY <1>0, <1>8, <2>1, <2>2, AskStep DEF OtherLoader
<1> QED BY <1>1, <1>2, <1>3, <1>4, <1>5, <1>6, <1>7, <1>8 DEF Probe

-----------------------------------------------------------------------------
(* Tables of peers.                                                        *)

\* The settings of peer k after it was configured.
Given(k, ips, ep, keep, replace) ==
  IF k \in DOMAIN peers
    THEN [ips  |-> ips \cup (IF replace THEN {} ELSE peers[k].ips),
          ep   |-> peers[k].ep \/ ep,
          keep |-> peers[k].keep \/ keep]
    ELSE [ips |-> ips, ep |-> ep, keep |-> keep]

PutPeer(k, ips, new) ==
  [j \in DOMAIN peers \cup {k} |-> IF j = k THEN new ELSE [peers[j] EXCEPT !.ips = @ \ ips]]

\* What either configurer makes of a PeerConfig: only the kernel minds that it
\* may not add a peer.
LEMMA Configured ==
  ASSUME NEW k, NEW ips, NEW ep \in BOOLEAN, NEW keep \in BOOLEAN,
         NEW updateOnly \in BOOLEAN, NEW replace \in BOOLEAN
  PROVE  On(configure(PeerConfig(k, ips, ep, keep, updateOnly, replace)),
            IpcSet(PeerConfig(k, ips, ep, keep, updateOnly, replace)))
         = IF updateOnly /\ ~Userspace /\ k \notin DOMAIN peers THEN peers
           ELSE PutPeer(k, ips, Given(k, ips, ep, keep, replace))
<1> DEFINE pc == PeerConfig(k, ips, ep, keep, updateOnly, replace)
           tx == toWgUserspaceString(pc)
<1>1. /\ pc.key = k /\ pc.ips = ips /\ pc.ep = ep /\ pc.keep = keep
      /\ pc.updateOnly = updateOnly /\ pc.replace = replace
  BY DEF PeerConfig
<1>2. /\ tx.key = k /\ tx.ips = ips /\ tx.ep = ep /\ tx.keep = keep
      /\ tx.updateOnly = FALSE /\ tx.replace = replace
  BY DEF toWgUserspaceString, PeerConfig
<1> HIDE DEF pc, tx
<1>3. ConfigurePeer(pc)
      = IF updateOnly /\ k \notin DOMAIN peers THEN peers
        ELSE PutPeer(k, ips, Given(k, ips, ep, keep, replace))
  BY <1>1 DEF ConfigurePeer, PutPeer, Given
<1>4. ConfigurePeer(tx) = PutPeer(k, ips, Given(k, ips, ep, keep, replace))
  BY <1>2 DEF ConfigurePeer, PutPeer, Given
<1> QED BY <1>3, <1>4 DEF pc, tx, On, configure, IpcSet

\* A configured peer takes its allowed IPs from the others.
LEMMA PutTable ==
  ASSUME IsTable(peers), NEW k \in Keys, NEW ips \in SUBSET Ips,
         NEW ep \in BOOLEAN, NEW keep \in BOOLEAN, NEW replace \in BOOLEAN
  PROVE  /\ IsTable(PutPeer(k, ips, Given(k, ips, ep, keep, replace)))
         /\ DOMAIN PutPeer(k, ips, Given(k, ips, ep, keep, replace)) = DOMAIN peers \cup {k}
<1> DEFINE new == Given(k, ips, ep, keep, replace)
           q   == PutPeer(k, ips, new)
<1>1. new \in Peer /\ \A j \in DOMAIN peers \ {k} : new.ips \cap (peers[j].ips \ ips) = {}
  <2>1. CASE k \in DOMAIN peers
    BY <2>1 DEF Given, IsTable, Peer
  <2>2. CASE k \notin DOMAIN peers
    BY <2>2 DEF Given, IsTable, Peer
  <2> QED BY <2>1, <2>2
<1> HIDE DEF new
<1>2. DOMAIN q = DOMAIN peers \cup {k} /\ q[k] = new /\ q = [j \in DOMAIN q |-> q[j]]
  BY DEF PutPeer
<1>3. \A j \in DOMAIN peers \ {k} : q[j] \in Peer /\ q[j].ips = peers[j].ips \ ips
  BY DEF PutPeer, IsTable, Peer
<1> HIDE DEF q
<1>4. DOMAIN q \subseteq Keys /\ \A j \in DOMAIN q : q[j] \in Peer
  BY <1>1, <1>2, <1>3 DEF IsTable
<1>5. \A i, j \in DOMAIN q : i # j => q[i].ips \cap q[j].ips = {}
  BY <1>1, <1>2, <1>3 DEF IsTable
<1>6. IsTable(q)
  BY <1>2, <1>4, <1>5 DEF IsTable
<1> QED BY <1>2, <1>6 DEF q, new

\* A peer is removed.
LEMMA RemovedTable ==
  ASSUME IsTable(peers), NEW k
  PROVE  /\ IsTable(KernelRemovePeer(k))
         /\ DOMAIN KernelRemovePeer(k) = DOMAIN peers \ {k}
         /\ \A j \in DOMAIN peers \ {k} : KernelRemovePeer(k)[j] = peers[j]
<1> DEFINE q == KernelRemovePeer(k)
<1>1. /\ DOMAIN q = DOMAIN peers \ {k} /\ q = [j \in DOMAIN q |-> q[j]]
      /\ \A j \in DOMAIN peers \ {k} : q[j] = peers[j]
  BY DEF KernelRemovePeer
<1> HIDE DEF q
<1>2. IsTable(q)
  BY <1>1 DEF IsTable
<1> QED BY <1>1, <1>2 DEF q

\* The tables a link may come with.
LEMMA OldTables ==
  ASSUME NEW p \in OldPeers
  PROVE  IsTable(p)
<1>1. CASE p = <<>>
  <2>1. DOMAIN p = {} /\ p = [k \in DOMAIN p |-> p[k]]
    BY <1>1
  <2> QED BY <2>1 DEF IsTable
<1>2. CASE \E k \in Keys : p = [j \in {k} |-> [ips |-> Ips, ep |-> TRUE, keep |-> TRUE]]
  BY <1>2 DEF IsTable, Peer
<1> QED BY <1>1, <1>2 DEF OldPeers, NoPeers

-----------------------------------------------------------------------------
(* Steps of the goroutines.                                                *)

\* A goroutine that is in a call holds the mutex of a chosen device.
LEMMA Acting ==
  ASSUME IInv, NEW c \in Callers, call[c].op # "none"
  PROVE  /\ mu = c /\ phase = "ready" /\ call[c] \in Calls
         /\ [call EXCEPT ![c] = call[c]] = call
<1>1. call[c] # Idle
  BY DEF Idle
<1>2. mu = c /\ call[c] \in Calls
  BY <1>1 DEF IInv, TypeOK
<1>3. phase = "ready"
  BY <1>2, CallerAssumption DEF IInv, Probing
<1>4. [call EXCEPT ![c] = call[c]] = call
  BY DEF IInv, Shapes
<1> QED BY <1>2, <1>3, <1>4

\* A goroutine that may begin a call.
LEMMA Beginning ==
  ASSUME IInv, NEW c \in Callers, Free(c)
  PROVE  mu = NoCaller /\ call[c] = Idle /\ [call EXCEPT ![c] = Idle] = call
  BY DEF IInv, Shapes, Free

\* A recorded peer, as the goroutine that has the mutex may rely on it.
LEMMA RecordedPeers ==
  ASSUME IInv, NEW c \in Callers, mu \in {c, NoCaller}, Userspace, HasDevice,
         NEW k \in recorded
  PROVE  \/ k \in DOMAIN peers \cup lost
         \/ call[c].op = "endpoint" /\ call[c].pc = "add" /\ call[c].key = k
<1>1. \A d \in Callers \ {c} : call[d].op = "none"
  BY OneCall DEF Idle
<1> QED BY <1>1 DEF IInv, RecorderFollows, InPc, In

\* The device does not change: a call begins, goes on or returns.
LEMMA QuietStep ==
  ASSUME IInv, phase = "ready", NEW c \in Callers, mu \in {c, NoCaller},
         NEW r \in Calls \cup {Idle},
         call' = [call EXCEPT ![c] = r], mu' = IF r = Idle THEN NoCaller ELSE c,
         UNCHANGED <<choice, system, cfgd, recorded, closed, history>>,
         r.op = "create" => ~cfgd /\ closed = "no",
         r.op \in {"address", "endpoint", "removeIP"} => cfgd,
         Opened => Holds(r, peers),
         ~InPc(c, "endpoint", "add")
  PROVE  IInv'
<1>1. /\ link' \in BOOLEAN /\ dev' \in BOOLEAN /\ cfgd' \in BOOLEAN /\ blind' \in BOOLEAN
      /\ closed' \in {"no", "ok", "err"} /\ recorded' \subseteq Keys /\ lost' \subseteq Keys
      /\ addr' \subseteq Addrs /\ UNCHANGED choice
  BY DEF IInv, TypeOK, system, history
<1>2. OneAddress' /\ IsTable(peers') /\ Unrecorded' /\ ClosedMeansGone'
  BY DEF IInv, OneAddress, Shapes, Unrecorded, ClosedMeansGone, system, history
<1>3. Opened' => Holds(r, peers')
  BY DEF Opened, HasDevice, Userspace, choice, system
<1>4. Userspace' /\ HasDevice' => \A k \in recorded' : k \in DOMAIN peers' \cup lost'
  BY RecordedPeers DEF HasDevice, Userspace, choice, system, history, InPc, In
<1> QED BY <1>1, <1>2, <1>3, <1>4, StepInv

\* Create is at work: nothing is configured and nobody has closed.
LEMMA CreatingStep ==
  ASSUME IInv, phase = "ready", NEW c \in Callers, mu \in {c, NoCaller},
         NEW r \in Calls, r.op = "create", call' = [call EXCEPT ![c] = r], mu' = c,
         ~cfgd, closed = "no", UNCHANGED <<choice, cfgd, recorded, closed, history>>,
         link' \in BOOLEAN, dev' \in BOOLEAN, addr' \subseteq Addrs, OneAddress', IsTable(peers')
  PROVE  IInv'
<1>1. /\ cfgd' \in BOOLEAN /\ blind' \in BOOLEAN /\ closed' \in {"no", "ok", "err"}
      /\ recorded' = {} /\ lost' \subseteq Keys /\ UNCHANGED choice
  BY DEF IInv, TypeOK, history, Unrecorded
<1>2. Unrecorded' /\ ClosedMeansGone' /\ ~Opened'
  BY <1>1 DEF Unrecorded, ClosedMeansGone, Opened
<1>3. r # Idle
  BY DEF Idle
<1> QED BY <1>1, <1>2, <1>3, StepInv

\* The device is gone.
LEMMA DeletedDevice ==
  ASSUME Deleted
  PROVE  /\ link' = FALSE /\ dev' = FALSE /\ addr' = {} /\ IsTable(peers')
         /\ ~HasDevice' /\ OneAddress' /\ ClosedMeansGone'
<1>1. IsTable(peers')
  BY OldTables DEF Deleted, OldPeers
<1> QED BY <1>1 DEF Deleted, HasDevice, OneAddress, ClosedMeansGone

\* Create.
LEMMA CreateStep ==
  ASSUME IInv, NEW c \in Callers, Create(c) \/ LinkAdd(c) \/ setMTU(c)
  PROVE  IInv'
<1>1. link \in BOOLEAN /\ dev \in BOOLEAN /\ addr \subseteq Addrs /\ OneAddress /\ IsTable(peers)
  BY DEF IInv, TypeOK, Shapes
<1>2. ASSUME UNCHANGED <<addr, peers>>
      PROVE  addr' \subseteq Addrs /\ OneAddress' /\ IsTable(peers')
  BY <1>1, <1>2 DEF OneAddress
<1>3. CASE Create(c)
  <2>1. ~cfgd /\ closed = "no" /\ UNCHANGED <<choice, cfgd, recorded, closed, history>>
    BY <1>3 DEF Create
  <2>2. /\ link' \in BOOLEAN /\ dev' \in BOOLEAN /\ addr' \subseteq Addrs
        /\ OneAddress' /\ IsTable(peers')
    <3>1. CASE recreate
      BY <1>1, <1>2, <3>1, DeletedDevice DEF recreate, system
    <3>2. CASE link' = TRUE /\ dev' = TRUE /\ UNCHANGED <<addr, peers>>
      BY <1>2, <3>2
    <3>3. CASE dev' = TRUE /\ UNCHANGED <<link, addr, peers>>
      BY <1>1, <1>2, <3>3
    <3> QED BY <1>3, <3>1, <3>2, <3>3 DEF Create
  <2>3. \E a \in Addrs, l \in AssignAt :
          Lock(c, [op |-> "create", a |-> a, was |-> {}, pc |-> l])
    BY <1>3 DEF Create, AssignAt
  <2>4. PICK a \in Addrs, l \in AssignAt :
          Lock(c, [op |-> "create", a |-> a, was |-> {}, pc |-> l])
    BY <2>3
  <2> DEFINE r == [op |-> "create", a |-> a, was |-> {}, pc |-> l]
  <2>5. r \in Calls /\ r.op = "create"
    BY DEF Calls, AssignAt
  <2>6. phase = "ready" /\ mu = NoCaller /\ mu' = c /\ call' = [call EXCEPT ![c] = r]
    BY <2>4 DEF Lock, Free
  <2> HIDE DEF r
  <2> QED BY <2>1, <2>2, <2>5, <2>6, CreatingStep
<1>4. CASE LinkAdd(c) \/ setMTU(c)
  <2>1. In(c, "create") /\ UNCHANGED <<choice, cfgd, recorded, closed, history>>
    BY <1>4 DEF LinkAdd, setMTU, InPc
  <2>2. /\ mu = c /\ phase = "ready" /\ call[c] \in Calls /\ call[c].op = "create"
        /\ ~cfgd /\ closed = "no"
    BY <2>1, Acting DEF IInv, Calling, In
  <2>3. \E l \in AssignAt : Goto(c, [call[c] EXCEPT !.pc = l])
    BY <1>4 DEF LinkAdd, setMTU, AssignAt
  <2>4. PICK l \in AssignAt : Goto(c, [call[c] EXCEPT !.pc = l])
    BY <2>3
  <2> DEFINE r == [call[c] EXCEPT !.pc = l]
  <2>5. r \in Calls /\ r.op = "create"
    BY <2>2, AssignMoves
  <2>6. mu' = c /\ call' = [call EXCEPT ![c] = r]
    BY <2>2, <2>4 DEF Goto
  <2>7. link' \in BOOLEAN /\ dev' \in BOOLEAN /\ UNCHANGED <<addr, peers>>
    BY <1>1, <1>4 DEF LinkAdd, setMTU, system
  <2> HIDE DEF r
  <2> QED BY <1>2, <2>1, <2>2, <2>5, <2>6, <2>7, CreatingStep
<1> QED BY <1>3, <1>4

\* UpdateAddr begins, and so do the calls that read a peer, and Close.
LEMMA BeginStep ==
  ASSUME IInv, NEW c \in Callers,
         UpdateAddr(c) \/ RemoveEndpointAddress(c) \/ RemoveAllowedIP(c) \/ Close(c)
  PROVE  IInv'
<1>1. UNCHANGED <<choice, system, cfgd, recorded, closed, history>>
  BY DEF UpdateAddr, RemoveEndpointAddress, RemoveAllowedIP, Close
<1>2. IsTable(peers) /\ addr \subseteq Addrs
  BY DEF IInv, Shapes, TypeOK
<1>3. ASSUME NEW r \in Calls, Lock(c, r), r.op # "create",
             r.op \in {"address", "endpoint", "removeIP"} => cfgd, Holds(r, peers)
      PROVE  IInv'
  <2>1. /\ phase = "ready" /\ mu = NoCaller /\ call[c] = Idle
        /\ mu' = c /\ call' = [call EXCEPT ![c] = r]
    BY <1>3 DEF Lock, Free
  <2>2. ~InPc(c, "endpoint", "add") /\ r # Idle
    BY <1>3, <2>1, CallFields DEF InPc, In, Idle
  <2> QED BY <1>1, <1>3, <2>1, <2>2, QuietStep
<1>4. CASE UpdateAddr(c)
  <2>1. PICK a \in Addrs : Lock(c, [op |-> "address", a |-> a, was |-> addr, pc |-> "addr"])
    BY <1>4 DEF UpdateAddr
  <2> DEFINE r == [op |-> "address", a |-> a, was |-> addr, pc |-> "addr"]
  <2>2. r \in Calls /\ r.op = "address" /\ cfgd
    BY <1>2, <1>4 DEF Calls, UpdateAddr
  <2>3. Holds(r, peers)
    BY DEF Holds
  <2> HIDE DEF r
  <2> QED BY <1>3, <2>1, <2>2, <2>3 DEF r
<1>5. CASE RemoveEndpointAddress(c)
  <2>1. PICK k \in DOMAIN peers :
          Lock(c, [op |-> "endpoint", key |-> k, ips |-> On(getPeer(k), parseStatus[k]),
                   pc |-> "remove"])
    BY <1>5 DEF RemoveEndpointAddress
  <2> DEFINE r == [op |-> "endpoint", key |-> k, ips |-> On(getPeer(k), parseStatus[k]),
                   pc |-> "remove"]
  <2>2. On(getPeer(k), parseStatus[k]) = peers[k].ips /\ peers[k].ips \subseteq Ips /\ k \in Keys
    BY <1>2 DEF On, getPeer, parseStatus, IsTable, Peer
  <2>3. r = [op |-> "endpoint", key |-> k, ips |-> peers[k].ips, pc |-> "remove"]
    BY <2>2
  <2>4. r \in Calls /\ r.op = "endpoint" /\ r.pc = "remove" /\ r.key = k /\ r.ips = peers[k].ips
    BY <2>2, <2>3 DEF Calls
  <2>5. cfgd
    BY <1>5 DEF RemoveEndpointAddress
  <2>6. Holds(r, peers)
    BY <2>1, <2>4 DEF Holds
  <2> HIDE DEF r
  <2> QED BY <1>3, <2>1, <2>4, <2>5, <2>6 DEF r
<1>6. CASE RemoveAllowedIP(c)
  <2>1. PICK k \in DOMAIN peers, ip \in Ips :
          Lock(c, [op |-> "removeIP", key |-> k, ips |-> KernelRemaining(k, ip)])
    BY <1>6 DEF RemoveAllowedIP
  <2> DEFINE r == [op |-> "removeIP", key |-> k, ips |-> KernelRemaining(k, ip)]
  <2>2. /\ KernelRemaining(k, ip) = peers[k].ips \ {ip} /\ KernelRemaining(k, ip) \subseteq Ips
        /\ k \in Keys
    BY <1>2 DEF KernelRemaining, getPeer, IsTable, Peer
  <2>3. r \in Calls /\ r.op = "removeIP" /\ r.key = k /\ r.ips = peers[k].ips \ {ip}
    BY <2>2 DEF Calls
  <2>4. cfgd
    BY <1>6 DEF RemoveAllowedIP
  <2>5. Holds(r, peers)
    BY <2>1, <2>3 DEF Holds
  <2> HIDE DEF r
  <2> QED BY <1>3, <2>1, <2>3, <2>4, <2>5 DEF r
<1>7. CASE Close(c)
  <2>1. PICK err \in BOOLEAN : Lock(c, [op |-> "close", pc |-> "tun", err |-> err])
    BY <1>7 DEF Close
  <2> DEFINE r == [op |-> "close", pc |-> "tun", err |-> err]
  <2>2. r \in Calls /\ r.op = "close"
    BY DEF Calls
  <2>3. Holds(r, peers)
    BY DEF Holds
  <2> HIDE DEF r
  <2> QED BY <1>3, <2>1, <2>2, <2>3 DEF r
<1> QED BY <1>4, <1>5, <1>6, <1>7

\* A call returns, and nothing but it has changed.
LEMMA ReturnStep ==
  ASSUME IInv, NEW c \in Callers, call[c].op # "none", ~InPc(c, "endpoint", "add"), Unlock(c),
         UNCHANGED <<choice, system, cfgd, recorded, closed, history>>
  PROVE  IInv'
<1>1. mu = c /\ phase = "ready"
  BY Acting
<1>2. call' = [call EXCEPT ![c] = Idle] /\ mu' = NoCaller
  BY DEF Unlock
<1>3. Idle.op = "none" /\ Holds(Idle, peers)
  BY DEF Idle, Holds
<1> QED BY <1>1, <1>2, <1>3, QuietStep

\* The rest of Create and of UpdateAddr.
LEMMA AssignStep ==
  ASSUME IInv, NEW c \in Callers,
         AddrDel(c) \/ AddrAdd(c) \/ LinkSetUp(c) \/ ConfigureInterface(c) \/ AssignFails(c)
  PROVE  IInv'
<1>1. Assigning(c) /\ call[c].op \in {"create", "address"}
  BY DEF AddrDel, AddrAdd, LinkSetUp, ConfigureInterface, AssignFails, Assigning, InPc, In
<1>2. /\ mu = c /\ phase = "ready" /\ call[c] \in Calls /\ call[c] # Idle
      /\ [call EXCEPT ![c] = call[c]] = call
  BY <1>1, Acting DEF Idle
<1>3. /\ call[c].op = "create" => ~cfgd /\ closed = "no"
      /\ call[c].op = "address" => cfgd
  BY DEF IInv, Calling, In
<1>4. /\ link \in BOOLEAN /\ dev \in BOOLEAN /\ cfgd \in BOOLEAN /\ blind \in BOOLEAN
      /\ closed \in {"no", "ok", "err"} /\ recorded \subseteq Keys /\ lost \subseteq Keys
      /\ addr \subseteq Addrs /\ OneAddress /\ IsTable(peers) /\ ClosedMeansGone /\ Unrecorded
  BY DEF IInv, TypeOK, Shapes
<1>5. \A k \in recorded : Userspace /\ HasDevice => k \in DOMAIN peers \cup lost
  BY <1>1, <1>2, RecordedPeers
<1>6. ~InPc(c, "endpoint", "add")
  BY <1>1 DEF InPc, In
<1>7. ASSUME NEW r \in Calls, r.op = call[c].op, call' = [call EXCEPT ![c] = r], mu' = c,
             addr' \subseteq Addrs, OneAddress',
             UNCHANGED <<choice, link, dev, peers, cfgd, recorded, closed, history>>
      PROVE  IInv'
  <2>1. /\ link' \in BOOLEAN /\ dev' \in BOOLEAN /\ cfgd' \in BOOLEAN /\ blind' \in BOOLEAN
        /\ closed' \in {"no", "ok", "err"} /\ recorded' \subseteq Keys /\ lost' \subseteq Keys
        /\ IsTable(peers') /\ UNCHANGED choice
    BY <1>4, <1>7 DEF history
  <2>2. ClosedMeansGone' /\ Unrecorded'
    BY <1>4, <1>7 DEF ClosedMeansGone, Unrecorded, history
  <2>3. Holds(r, peers') /\ r # Idle
    BY <1>1, <1>7 DEF Holds, Idle
  <2>4. Userspace' /\ HasDevice' => \A k \in recorded' : k \in DOMAIN peers' \cup lost'
    BY <1>5, <1>7 DEF Userspace, HasDevice, choice, history
  <2> QED BY <1>1, <1>2, <1>3, <1>7, <2>1, <2>2, <2>3, <2>4, StepInv
<1>8. CASE AddrDel(c)
  <2>1. addr' \subseteq Addrs /\ OneAddress'
    BY <1>4, <1>8 DEF AddrDel, OneAddress
  <2> QED BY <1>2, <1>7, <1>8, <2>1 DEF AddrDel
<1>9. CASE AddrAdd(c)
  <2>1. [call[c] EXCEPT !.pc = "up"] \in Calls /\ [call[c] EXCEPT !.pc = "up"].op = call[c].op
    BY <1>1, <1>2, AssignMoves DEF AssignAt
  <2>2. addr' \subseteq Addrs /\ OneAddress'
    BY <1>1, <1>2, <1>9, CallFields DEF AddrAdd, OneAddress
  <2>3. mu' = c /\ call' = [call EXCEPT ![c] = [call[c] EXCEPT !.pc = "up"]]
    BY <1>2, <1>9 DEF AddrAdd, Goto
  <2> QED BY <1>7, <1>9, <2>1, <2>2, <2>3 DEF AddrAdd
<1>10. CASE LinkSetUp(c)
  <2>1. UNCHANGED <<choice, system, cfgd, recorded, closed, history>>
    BY <1>10 DEF LinkSetUp
  <2>2. CASE Goto(c, [call[c] EXCEPT !.pc = "conf"])
    <3>1. [call[c] EXCEPT !.pc = "conf"] \in Calls /\ [call[c] EXCEPT !.pc = "conf"].op = call[c].op
      BY <1>1, <1>2, AssignMoves DEF AssignAt
    <3>2. mu' = c /\ call' = [call EXCEPT ![c] = [call[c] EXCEPT !.pc = "conf"]]
      BY <1>2, <2>2 DEF Goto
    <3>3. addr' \subseteq Addrs /\ OneAddress' /\ UNCHANGED <<link, dev, peers>>
      BY <1>4, <2>1 DEF OneAddress, system
    <3> QED BY <1>7, <2>1, <3>1, <3>2, <3>3
  <2>3. CASE Unlock(c)
    BY <1>1, <1>6, <2>1, <2>3, ReturnStep
  <2> QED BY <1>10, <2>2, <2>3 DEF LinkSetUp
<1>11. CASE ConfigureInterface(c)
  <2>1. /\ peers' = NoPeers /\ cfgd' = TRUE /\ mu' = NoCaller /\ call' = [call EXCEPT ![c] = Idle]
        /\ UNCHANGED <<choice, link, dev, addr, recorded, closed, history>>
    BY <1>11 DEF ConfigureInterface, Unlock
  <2>2. ~cfgd /\ closed = "no" /\ recorded = {}
    BY <1>3, <1>4, <1>11 DEF ConfigureInterface, InPc, In, Unrecorded
  <2>3. IsTable(peers')
    BY <2>1, OldTables DEF OldPeers
  <2>4. /\ link' \in BOOLEAN /\ dev' \in BOOLEAN /\ cfgd' \in BOOLEAN /\ blind' \in BOOLEAN
        /\ closed' \in {"no", "ok", "err"} /\ recorded' = {} /\ lost' \subseteq Keys
        /\ addr' \subseteq Addrs /\ UNCHANGED choice
    BY <1>4, <2>1, <2>2 DEF history
  <2>5. OneAddress' /\ Unrecorded' /\ ClosedMeansGone'
    BY <1>4, <2>1, <2>2 DEF OneAddress, Unrecorded, ClosedMeansGone
  <2>6. Idle.op = "none" /\ Holds(Idle, peers')
    BY DEF Idle, Holds
  <2> QED BY <1>2, <2>1, <2>3, <2>4, <2>5, <2>6, StepInv
<1>12. CASE AssignFails(c)
  BY <1>1, <1>6, <1>12, ReturnStep DEF AssignFails
<1> QED BY <1>8, <1>9, <1>10, <1>11, <1>12

-----------------------------------------------------------------------------
(* Calls that change the peers.                                            *)

\* Such a call ends, or begins and ends, or has taken the peer away.
LEMMA PeersStep ==
  ASSUME IInv, phase = "ready", NEW c \in Callers, mu \in {c, NoCaller},
         NEW r \in Calls \cup {Idle}, r # Idle => r.op = "endpoint",
         call' = [call EXCEPT ![c] = r], mu' = IF r = Idle THEN NoCaller ELSE c,
         cfgd, UNCHANGED <<choice, link, dev, addr, cfgd, closed, blind>>,
         recorded' \subseteq Keys, lost' \subseteq Keys, IsTable(peers'),
         Opened => Holds(r, peers'),
         Userspace /\ HasDevice =>
           \A k \in recorded' : \/ k \in DOMAIN peers' \cup lost'
                                \/ r.op = "endpoint" /\ r.pc = "add" /\ r.key = k
  PROVE  IInv'
<1>1. /\ link' \in BOOLEAN /\ dev' \in BOOLEAN /\ cfgd' \in BOOLEAN /\ blind' \in BOOLEAN
      /\ closed' \in {"no", "ok", "err"} /\ addr' \subseteq Addrs
  BY DEF IInv, TypeOK
<1>2. OneAddress' /\ Unrecorded' /\ ClosedMeansGone'
  BY DEF IInv, OneAddress, Unrecorded, ClosedMeansGone
<1>3. r.op # "create" /\ cfgd'
  BY DEF Idle
<1>4. Opened' => Holds(r, peers')
  BY DEF Opened, HasDevice, Userspace, choice
<1>5. (Userspace' <=> Userspace) /\ (HasDevice' <=> HasDevice)
  BY DEF HasDevice, Userspace, choice
<1> QED BY <1>1, <1>2, <1>3, <1>4, <1>5, StepInv

\* UpdatePeer, AddAllowedIP and RemovePeer change the peers in one step.
LEMMA OneChangeStep ==
  ASSUME IInv, NEW c \in Callers, UpdatePeer(c) \/ AddAllowedIP(c) \/ RemovePeer(c)
  PROVE  IInv'
<1>1. phase = "ready" /\ Free(c) /\ cfgd
  BY DEF UpdatePeer, AddAllowedIP, RemovePeer, Ready
<1>2. mu = NoCaller /\ call[c] = Idle /\ [call EXCEPT ![c] = Idle] = call /\ Idle.op = "none"
  BY <1>1, Beginning DEF Idle
<1>3. IsTable(peers) /\ recorded \subseteq Keys /\ lost \subseteq Keys
  BY DEF IInv, Shapes, TypeOK
<1>4. \A k \in recorded : Userspace /\ HasDevice => k \in DOMAIN peers \cup lost
  BY <1>2, RecordedPeers
<1>5. \A p : Holds(Idle, p)
  BY <1>2 DEF Holds
<1>6. UNCHANGED <<choice, link, dev, addr, cfgd, mu, call, closed, blind>>
  BY DEF UpdatePeer, AddAllowedIP, RemovePeer, history
<1>7. ASSUME recorded' \subseteq Keys, lost' \subseteq Keys, IsTable(peers'),
             Userspace /\ HasDevice => recorded' \subseteq DOMAIN peers' \cup lost'
      PROVE  IInv'
  BY <1>1, <1>2, <1>5, <1>6, <1>7, PeersStep
<1>8. CASE UpdatePeer(c)
  <2>1. PICK k \in Keys, ips \in SUBSET Ips, ep \in BOOLEAN :
          /\ peers' = On(KernelUpdatePeer(k, ips, ep), USPUpdatePeer(k, ips, ep))
          /\ recorded' = IF Userspace /\ ep THEN recorded \cup {k} ELSE recorded
          /\ lost' = lost \ {k}
    BY <1>8 DEF UpdatePeer
  <2>2. peers' = PutPeer(k, ips, Given(k, ips, ep, TRUE, FALSE))
    BY <2>1, Configured DEF KernelUpdatePeer, USPUpdatePeer
  <2>3. IsTable(peers') /\ DOMAIN peers' = DOMAIN peers \cup {k}
    BY <1>3, <2>2, PutTable
  <2> QED BY <1>3, <1>4, <1>7, <2>1, <2>3
<1>9. CASE AddAllowedIP(c)
  <2>1. PICK k \in Keys, ip \in Ips :
          peers' = On(KernelAddAllowedIP(k, ip), USPAddAllowedIP(k, ip))
    BY <1>9 DEF AddAllowedIP
  <2>2. \/ peers' = peers
        \/ peers' = PutPeer(k, {ip}, Given(k, {ip}, FALSE, FALSE, FALSE))
    BY <2>1, Configured DEF KernelAddAllowedIP, USPAddAllowedIP
  <2>3. IsTable(peers') /\ DOMAIN peers \subseteq DOMAIN peers'
    <3>1. {ip} \in SUBSET Ips
      OBVIOUS
    <3> QED BY <1>3, <2>2, <3>1, PutTable
  <2>4. UNCHANGED <<recorded, lost>>
    BY <1>9 DEF AddAllowedIP, history
  <2> QED BY <1>3, <1>4, <1>7, <2>3, <2>4
<1>10. CASE RemovePeer(c)
  <2>1. PICK k \in Keys :
          /\ (HasDevice /\ peers' = KernelRemovePeer(k)) \/ UNCHANGED peers
          /\ recorded' = IF Userspace THEN USPForget(k) ELSE recorded
          /\ lost' = lost \ {k}
    BY <1>10 DEF RemovePeer
  <2>2. IsTable(peers') /\ DOMAIN peers \ {k} \subseteq DOMAIN peers'
    BY <1>3, <2>1, RemovedTable
  <2> QED BY <1>3, <1>4, <1>7, <2>1, <2>2 DEF USPForget
<1> QED BY <1>8, <1>9, <1>10

\* RemoveEndpointAddress and RemoveAllowedIP change a peer they have read.
LEMMA ReadChangeStep ==
  ASSUME IInv, NEW c \in Callers, RemoveForReAdd(c) \/ ReAdd(c) \/ ReplaceAllowedIPs(c)
  PROVE  IInv'
<1>1. call[c].op \in {"endpoint", "removeIP"}
  BY DEF RemoveForReAdd, ReAdd, ReplaceAllowedIPs, InPc, In
<1> DEFINE k == call[c].key
<1>2. /\ mu = c /\ phase = "ready" /\ call[c] \in Calls
      /\ k \in Keys /\ call[c].ips \subseteq Ips /\ Idle.op = "none" /\ cfgd
  BY <1>1, Acting, CallFields DEF IInv, Calling, Idle
<1>3. /\ IsTable(peers) /\ recorded \subseteq Keys /\ lost \subseteq Keys
      /\ HasDevice => Holds(call[c], peers)
  BY <1>2 DEF IInv, Shapes, TypeOK, Reading, Opened
<1>4. \A j \in recorded : Userspace /\ HasDevice =>
        \/ j \in DOMAIN peers \cup lost
        \/ call[c].op = "endpoint" /\ call[c].pc = "add" /\ call[c].key = j
  BY <1>2, RecordedPeers
<1>5. UNCHANGED <<choice, link, dev, addr, cfgd, recorded, closed, blind>>
  BY DEF RemoveForReAdd, ReAdd, ReplaceAllowedIPs, history
<1>6. ASSUME Unlock(c), lost' \subseteq Keys, IsTable(peers'),
             Userspace /\ HasDevice => recorded \subseteq DOMAIN peers' \cup lost'
      PROVE  IInv'
  <2>1. call' = [call EXCEPT ![c] = Idle] /\ mu' = NoCaller /\ Holds(Idle, peers')
    BY <1>2, <1>6 DEF Unlock, Holds
  <2> QED BY <1>2, <1>3, <1>5, <1>6, <2>1, PeersStep
<1>7. CASE RemoveForReAdd(c)
  <2>1. call[c].op = "endpoint" /\ call[c].pc = "remove" /\ UNCHANGED <<recorded, lost>>
    BY <1>7 DEF RemoveForReAdd, InPc, In, history
  <2>2. CASE /\ HasDevice /\ peers' = KernelRemovePeer(k)
             /\ Goto(c, [call[c] EXCEPT !.pc = "add"])
    <3> DEFINE r == [call[c] EXCEPT !.pc = "add"]
    <3>1. r \in Calls /\ r.op = "endpoint" /\ r.pc = "add" /\ r.key = k /\ r.ips = call[c].ips
      BY <1>2, <2>1, EndpointMoves
    <3>2. mu' = c /\ call' = [call EXCEPT ![c] = r] /\ r # Idle
      BY <1>2, <2>2, <3>1, CallFields DEF Goto
    <3>3. k \in DOMAIN peers /\ call[c].ips = peers[k].ips
      BY <1>3, <2>1, <2>2 DEF Holds
    <3>4. /\ IsTable(peers') /\ DOMAIN peers' = DOMAIN peers \ {k}
          /\ \A j \in DOMAIN peers' : peers'[j] = peers[j]
      BY <1>3, <2>2, RemovedTable
    <3>5. \A j \in DOMAIN peers' : peers'[j].ips \cap call[c].ips = {}
      BY <1>3, <3>3, <3>4 DEF IsTable
    <3> HIDE DEF r
    <3>6. Holds(r, peers')
      BY <3>1, <3>4, <3>5 DEF Holds
    <3>7. Userspace /\ HasDevice => \A j \in recorded' : j \in DOMAIN peers' \cup lost' \/ j = k
      BY <1>4, <2>1, <3>4
    <3> QED BY <1>2, <1>3, <1>5, <2>1, <3>1, <3>2, <3>4, <3>6, <3>7, PeersStep
  <2>3. CASE Unlock(c) /\ UNCHANGED peers
    BY <1>3, <1>4, <1>6, <2>1, <2>3
  <2> QED BY <1>7, <2>2, <2>3 DEF RemoveForReAdd
<1>8. CASE ReAdd(c)
  <2>1. Unlock(c) /\ call[c].op = "endpoint"
    BY <1>8 DEF ReAdd, InPc, In
  <2>2. CASE /\ peers' = On(KernelReAdd(k, call[c].ips), USPReAdd(k, call[c].ips))
             /\ UNCHANGED lost
    <3>1. peers' = PutPeer(k, call[c].ips, Given(k, call[c].ips, FALSE, FALSE, TRUE))
      BY <2>2, Configured DEF KernelReAdd, USPReAdd
    <3>2. IsTable(peers') /\ DOMAIN peers' = DOMAIN peers \cup {k}
      BY <1>2, <1>3, <3>1, PutTable
    <3> QED BY <1>3, <1>4, <1>6, <2>1, <2>2, <3>2
  <2>3. CASE lost' = lost \cup {k} /\ UNCHANGED peers
    BY <1>2, <1>3, <1>4, <1>6, <2>1, <2>3
  <2> QED BY <1>8, <2>2, <2>3 DEF ReAdd
<1>9. CASE ReplaceAllowedIPs(c)
  <2>1. Unlock(c) /\ call[c].op = "removeIP" /\ UNCHANGED lost
    BY <1>9 DEF ReplaceAllowedIPs, In, history
  <2>2. \/ UNCHANGED peers
        \/ peers' = On(KernelReplaceIPs(k, call[c].ips), USPReplaceIPs(k, call[c].ips))
    BY <1>9 DEF ReplaceAllowedIPs
  <2>3. \/ peers' = peers
        \/ peers' = PutPeer(k, call[c].ips, Given(k, call[c].ips, FALSE, FALSE, TRUE))
    BY <2>2, Configured DEF KernelReplaceIPs, USPReplaceIPs
  <2>4. IsTable(peers') /\ DOMAIN peers \subseteq DOMAIN peers'
    <3> DEFINE q == PutPeer(k, call[c].ips, Given(k, call[c].ips, FALSE, FALSE, TRUE))
    <3>1. IsTable(q) /\ DOMAIN q = DOMAIN peers \cup {k}
      BY <1>2, <1>3, PutTable
    <3> HIDE DEF q
    <3> QED BY <1>3, <2>3, <3>1 DEF q
  <2> QED BY <1>3, <1>4, <1>6, <2>1, <2>4
<1> QED BY <1>7, <1>8, <1>9

-----------------------------------------------------------------------------
(* Close, and what others do to the link.                                  *)

\* Close shuts the device, waits for the link to go, and destroys it.
LEMMA CloseStep ==
  ASSUME IInv, NEW c \in Callers, CloseTun(c) \/ waitUntilRemoved(c) \/ Destroy(c)
  PROVE  IInv'
<1>1. call[c].op = "close"
  BY DEF CloseTun, waitUntilRemoved, Destroy, InPc, In
<1>2. /\ mu = c /\ phase = "ready" /\ call[c] \in Calls /\ Idle.op = "none"
      /\ ~InPc(c, "endpoint", "add")
  BY <1>1, Acting DEF Idle, InPc, In
<1>3. /\ link \in BOOLEAN /\ dev \in BOOLEAN /\ cfgd \in BOOLEAN /\ blind \in BOOLEAN
      /\ closed \in {"no", "ok", "err"} /\ recorded \subseteq Keys /\ lost \subseteq Keys
      /\ addr \subseteq Addrs /\ OneAddress /\ IsTable(peers) /\ ClosedMeansGone /\ Unrecorded
  BY DEF IInv, TypeOK, Shapes
<1>4. \A k \in recorded : Userspace /\ HasDevice => k \in DOMAIN peers \cup lost
  BY <1>1, <1>2, RecordedPeers
<1>5. \A p : Holds(Idle, p) /\ \A r : r.op = "close" => Holds(r, p)
  BY <1>2 DEF Holds
<1>6. ASSUME NEW l \in CloseAt, UNCHANGED <<choice, system, cfgd, recorded, closed, history>>,
             \/ Goto(c, [call[c] EXCEPT !.pc = l])
             \/ Goto(c, [call[c] EXCEPT !.pc = l, !.err = TRUE])
      PROVE  IInv'
  <2>1. PICK r \in Calls : r.op = "close" /\ Goto(c, r)
    BY <1>1, <1>2, <1>6, CloseMoves
  <2>2. mu' = c /\ call' = [call EXCEPT ![c] = r] /\ r # Idle
    BY <1>2, <2>1, CallFields DEF Goto
  <2> QED BY <1>2, <1>5, <1>6, <2>1, <2>2, QuietStep
<1>7. CASE CloseTun(c)
  <2>1. UNCHANGED <<choice, cfgd, recorded, closed, history>>
    BY <1>7 DEF CloseTun
  <2>2. CASE /\ Goto(c, [call[c] EXCEPT !.pc = "wait"])
             /\ peers' = NoPeers /\ dev' = FALSE
             /\ link' = (link /\ kind = "usp")
             /\ addr' = IF link' THEN addr ELSE {}
    <3> DEFINE r == [call[c] EXCEPT !.pc = "wait"]
    <3>1. r \in Calls /\ r.op = "close"
      BY <1>1, <1>2, CloseMoves DEF CloseAt
    <3> HIDE DEF r
    <3>2. mu' = c /\ call' = [call EXCEPT ![c] = r] /\ r # Idle
      BY <1>2, <2>2, <3>1, CallFields DEF Goto, r
    <3>3. link' \in BOOLEAN /\ (link' => link) /\ dev' = FALSE /\ ~HasDevice'
      BY <1>3, <2>1, <2>2 DEF HasDevice, Userspace, choice
    <3>4. addr' \subseteq Addrs /\ OneAddress'
      BY <1>3, <2>2 DEF OneAddress
    <3>5. IsTable(peers')
      BY <2>2, OldTables DEF OldPeers
    <3>6. ClosedMeansGone' /\ Unrecorded' /\ ~Opened'
      BY <1>3, <2>1, <3>3 DEF ClosedMeansGone, Unrecorded, Opened, history
    <3>7. /\ cfgd' \in BOOLEAN /\ blind' \in BOOLEAN /\ closed' \in {"no", "ok", "err"}
          /\ recorded' \subseteq Keys /\ lost' \subseteq Keys /\ UNCHANGED choice
      BY <1>3, <2>1 DEF history
    <3> QED BY <1>2, <3>1, <3>2, <3>3, <3>4, <3>5, <3>6, <3>7, StepInv
  <2>3. CASE /\ UNCHANGED system
             /\ \/ Goto(c, [call[c] EXCEPT !.pc = "wait", !.err = TRUE])
                \/ Goto(c, [call[c] EXCEPT !.pc = "wait"])
    BY <1>6, <2>1, <2>3 DEF CloseAt
  <2> QED BY <1>7, <2>2, <2>3 DEF CloseTun
<1>8. ASSUME Unlock(c), UNCHANGED <<choice, cfgd, recorded, lost>>,
             closed' \in {"no", "ok", "err"}, blind' \in BOOLEAN, Deleted \/ UNCHANGED system,
             ClosedMeansGone'
      PROVE  IInv'
  <2>1. mu' = NoCaller /\ call' = [call EXCEPT ![c] = Idle]
    BY <1>8 DEF Unlock
  <2>2. /\ link' \in BOOLEAN /\ dev' \in BOOLEAN /\ addr' \subseteq Addrs
        /\ OneAddress' /\ IsTable(peers')
    <3>1. CASE Deleted
      BY <3>1, DeletedDevice
    <3>2. CASE UNCHANGED system
      BY <1>3, <3>2 DEF system, OneAddress
    <3> QED BY <1>8, <3>1, <3>2
  <2>3. /\ cfgd' \in BOOLEAN /\ recorded' \subseteq Keys /\ lost' \subseteq Keys
        /\ UNCHANGED choice /\ Unrecorded'
    BY <1>3, <1>8 DEF Unrecorded
  <2>4. Userspace' /\ HasDevice' => \A k \in recorded' : k \in DOMAIN peers' \cup lost'
    <3>1. CASE Deleted
      BY <3>1, DeletedDevice
    <3>2. CASE UNCHANGED system
      BY <1>4, <1>8, <3>2 DEF system, choice, Userspace, HasDevice
    <3> QED BY <1>8, <3>1, <3>2
  <2> QED BY <1>2, <1>5, <1>8, <2>1, <2>2, <2>3, <2>4, StepInv
<1>9. CASE waitUntilRemoved(c)
  <2>1. UNCHANGED <<choice, system, cfgd, recorded, lost>>
    BY <1>9 DEF waitUntilRemoved
  <2>2. CASE Returns(c, Result(call[c].err)) /\ blind' = (blind \/ link)
    <3>1. Unlock(c) /\ closed' \in {"ok", "err"}
      BY <2>2 DEF Returns, Result
    <3>2. ClosedMeansGone' /\ blind' \in BOOLEAN
      BY <1>3, <2>1, <2>2 DEF ClosedMeansGone, system
    <3> QED BY <1>8, <2>1, <3>1, <3>2
  <2>3. CASE TimedOut(c)
    BY <1>6, <2>1, <2>3 DEF TimedOut, CloseAt, history
  <2> QED BY <1>9, <2>2, <2>3 DEF waitUntilRemoved
<1>10. CASE Destroy(c)
  <2>1. UNCHANGED <<choice, cfgd, recorded, lost, blind>>
    BY <1>10 DEF Destroy, history
  <2>2. CASE Deleted /\ Returns(c, Result(call[c].err))
    BY <1>3, <1>8, <2>1, <2>2, DeletedDevice DEF Returns, Result
  <2>3. CASE Returns(c, "err") /\ UNCHANGED system
    BY <1>3, <1>8, <2>1, <2>3 DEF Returns, ClosedMeansGone
  <2> QED BY <1>10, <2>2, <2>3 DEF Destroy
<1> QED BY <1>7, <1>9, <1>10

\* The link is deleted by someone else, or at last by the kernel.
LEMMA VanishStep ==
  ASSUME IInv, LinkVanishes \/ TunRemoved
  PROVE  IInv'
<1>1. /\ phase = "ready" /\ Deleted
      /\ UNCHANGED <<choice, cfgd, mu, call, recorded, closed, history>>
  BY DEF LinkVanishes, TunRemoved, IInv, TypeOK
<1>2. /\ link' = FALSE /\ dev' = FALSE /\ addr' = {} /\ IsTable(peers')
      /\ ~HasDevice' /\ OneAddress' /\ ClosedMeansGone'
  BY <1>1, DeletedDevice
<1>3. TypeOK'
  <2>1. /\ DOMAIN peers' \subseteq Keys
        /\ \A k \in DOMAIN peers' :
             /\ peers'[k] \in Peer
             /\ \A j \in DOMAIN peers' \ {k} : peers'[j].ips \cap peers'[k].ips = {}
    BY <1>2 DEF IsTable
  <2> QED BY <1>1, <1>2, <2>1 DEF IInv, TypeOK, choice, history
<1>4. Shapes' /\ Probing' /\ Calling' /\ Unrecorded'
  BY <1>1, <1>2 DEF IInv, Shapes, Probing, Calling, In, Unrecorded, choice
<1>5. Reading' /\ RecorderFollows'
  BY <1>2 DEF Reading, Opened, RecorderFollows
<1> QED BY <1>2, <1>3, <1>4, <1>5 DEF IInv

\* Another process adds the link while Create is at work.
LEMMA OtherAddsStep ==
  ASSUME IInv, OtherAdds
  PROVE  IInv'
<1>1. PICK c \in Callers : InPc(c, "create", "add")
  BY DEF OtherAdds
<1>2. /\ mu = c /\ phase = "ready" /\ call[c] \in Calls /\ call[c].op = "create"
      /\ [call EXCEPT ![c] = call[c]] = call /\ ~cfgd /\ closed = "no"
  BY <1>1, Acting DEF IInv, Calling, InPc, In
<1>3. link' \in BOOLEAN /\ dev' \in BOOLEAN /\ addr' \subseteq Addrs /\ OneAddress'
  BY DEF OtherAdds, IInv, TypeOK, OneAddress
<1>4. IsTable(peers')
  BY OldTables DEF OtherAdds
<1> QED BY <1>2, <1>3, <1>4, CreatingStep DEF OtherAdds

-----------------------------------------------------------------------------
(* The invariant.                                                          *)

\* A link of an earlier run has a table of peers and one address.
LEMMA InitIInv == Init => IInv
<1> SUFFICES ASSUME Init PROVE IInv
  OBVIOUS
<1>1. IsTable(peers)
  BY OldTables DEF Init, OldPeers
<1>2. \A c \in Callers : call[c] = Idle /\ call[c].op = "none"
  BY DEF Init, Idle
<1>3. addr \subseteq Addrs /\ OneAddress
  BY DEF Init, OneAddress
<1>4. TypeOK
  <2>1. /\ DOMAIN peers \subseteq Keys
        /\ \A k \in DOMAIN peers :
             /\ peers[k] \in Peer
             /\ \A j \in DOMAIN peers \ {k} : peers[j].ips \cap peers[k].ips = {}
    BY <1>1 DEF IsTable
  <2>2. todo \in Seq(Mods)
    BY DEF Init
  <2> QED BY <1>2, <1>3, <2>1, <2>2, CallerAssumption DEF Init, TypeOK
<1>5. Shapes /\ Probing /\ Unrecorded /\ RecorderFollows /\ ClosedMeansGone
  BY <1>1 DEF Init, Shapes, Probing, Unrecorded, RecorderFollows, ClosedMeansGone
<1>6. Calling /\ Reading
  BY <1>2 DEF Init, Calling, In, Reading, Opened
<1> QED BY <1>3, <1>4, <1>5, <1>6 DEF IInv

\* Every step keeps the invariant.
LEMMA NextIInv == IInv /\ [Next]_vars => IInv'
<1> SUFFICES ASSUME IInv, [Next]_vars PROVE IInv'
  OBVIOUS
<1>1. CASE Probe \/ OtherLoader
  BY <1>1, ProbeStep
<1>2. ASSUME NEW c \in Callers, Step(c) PROVE IInv'
  BY <1>2, CreateStep, BeginStep, AssignStep, OneChangeStep, ReadChangeStep, CloseStep DEF Step
<1>3. CASE OtherAdds
  BY <1>3, OtherAddsStep
<1>4. CASE LinkVanishes \/ TunRemoved
  BY <1>4, VanishStep
<1>5. CASE UNCHANGED vars
  BY <1>5 DEF vars, choice, system, history, IInv, TypeOK, Shapes, Probing, Calling, In, Reading,
       Holds, Opened, HasDevice, Userspace, OneAddress, Unrecorded,
       RecorderFollows, InPc, ClosedMeansGone
<1> QED BY <1>1, <1>2, <1>3, <1>4, <1>5 DEF Next

\* The invariant holds in every state the interface reaches.
LEMMA Invariance == Spec => []IInv
  BY InitIInv, NextIInv, PTL DEF Spec

\* The interface, its device and its callers keep their types, the allowed IPs
\* of different peers stay disjoint, and whoever is in a call of several steps
\* holds the mutex (iface.go).
THEOREM TypeCorrect == Spec => []TypeOK
<1>1. IInv => TypeOK
  BY DEF IInv
<1> QED BY <1>1, Invariance, PTL

\* The activity recorder keeps no address of a peer the userspace device no
\* longer has, but for the one that could not be added again (usp.go).
THEOREM RecorderFollowsAlways == Spec => []RecorderFollows
<1>1. IInv => RecorderFollows
  BY DEF IInv
<1> QED BY <1>1, Invariance, PTL

\* A Close that returned no error has left no link, unless a failing lookup was
\* taken for a removed interface (iface.go: Close, waitUntilRemoved, Destroy).
THEOREM ClosedMeansGoneAlways == Spec => []ClosedMeansGone
<1>1. IInv => ClosedMeansGone
  BY DEF IInv
<1> QED BY <1>1, Invariance, PTL

-----------------------------------------------------------------------------
(* The interface implements Tunnel.                                        *)

APeers == IF Opened THEN View ELSE NoPeers
AAddr  == IF ~Opened THEN {} ELSE IF Moving = {} THEN addr
          ELSE UNION {call[c].was : c \in Moving}

\* The table and the address to which r is the only call in progress.
PeersUnder(r, p) ==
  IF r.op = "endpoint" /\ r.pc = "add"
    THEN [k \in DOMAIN p \cup {r.key} |->
            IF k \in DOMAIN p THEN p[k] ELSE [ips |-> r.ips, ep |-> FALSE, keep |-> FALSE]]
    ELSE p
AddrUnder(r, a) == IF r.op = "address" THEN r.was ELSE a

\* The goroutine that has the mutex decides what the others see.
LEMMA SeenUnder ==
  ASSUME NEW c \in Callers
  PROVE  IInv /\ mu \in {c, NoCaller} /\ Opened
           => APeers = PeersUnder(call[c], peers) /\ AAddr = AddrUnder(call[c], addr)
<1> SUFFICES ASSUME IInv, mu \in {c, NoCaller}, Opened
             PROVE  APeers = PeersUnder(call[c], peers) /\ AAddr = AddrUnder(call[c], addr)
  OBVIOUS
<1>1. \A d \in Callers \ {c} : call[d].op = "none"
  BY OneCall DEF Idle
<1>2. APeers = PeersUnder(call[c], peers)
  <2>1. CASE InPc(c, "endpoint", "add")
    <3>1. ReAdded = {c}
      BY <1>1, <2>1 DEF ReAdded, InPc, In
    <3>2. {call[d].key : d \in ReAdded} = {call[c].key}
      BY <3>1
    <3>3. UNION {call[d].ips : d \in {e \in ReAdded : call[e].key = call[c].key}} = call[c].ips
      BY <3>1
    <3>4. View = PeersUnder(call[c], peers)
      BY <2>1, <3>2, <3>3 DEF View, PeersUnder, InPc, In
    <3> QED BY <3>4 DEF APeers
  <2>2. CASE ~InPc(c, "endpoint", "add")
    <3>1. ReAdded = {}
      BY <1>1, <2>2 DEF ReAdded, InPc, In
    <3>2. View = [k \in DOMAIN peers |-> peers[k]]
      BY <3>1 DEF View
    <3> QED BY <2>2, <3>2 DEF APeers, PeersUnder, InPc, In, IInv, Shapes, IsTable
  <2> QED BY <2>1, <2>2
<1>3. AAddr = AddrUnder(call[c], addr)
  <2>1. CASE In(c, "address")
    <3>1. Moving = {c}
      BY <1>1, <2>1 DEF Moving, In
    <3>2. UNION {call[d].was : d \in Moving} = call[c].was
      BY <3>1
    <3> QED BY <2>1, <3>1, <3>2 DEF AAddr, AddrUnder, In
  <2>2. CASE ~In(c, "address")
    <3>1. Moving = {}
      BY <1>1, <2>2 DEF Moving, In
    <3> QED BY <2>2, <3>1 DEF AAddr, AddrUnder, In
  <2> QED BY <2>1, <2>2
<1> QED BY <1>2, <1>3

\* The same in the next state.
LEMMA SeenUnderNext ==
  ASSUME NEW c \in Callers
  PROVE  (IInv /\ mu \in {c, NoCaller} /\ Opened
           => APeers = PeersUnder(call[c], peers) /\ AAddr = AddrUnder(call[c], addr))'
<1>1. IInv /\ mu \in {c, NoCaller} /\ Opened
        => APeers = PeersUnder(call[c], peers) /\ AAddr = AddrUnder(call[c], addr)
  BY SeenUnder
<1> QED BY <1>1, PTL

\* A closed interface, or one that is being closed.
LEMMA ShutStep ==
  ASSUME ~Opened', UNCHANGED kind
  PROVE  [Table!ANext]_(Table!avars)
  BY DEF Table!ANext, Table!Shut, NoPeers

\* An open interface on which nothing is seen to change.
LEMMA SameStep ==
  ASSUME Opened, Opened', UNCHANGED kind, APeers' = APeers, AAddr' = AAddr
  PROVE  [Table!ANext]_(Table!avars)
  BY DEF Table!avars, APeers, AAddr

\* A call that changes the peers takes effect.
LEMMA ChangeStep ==
  ASSUME Opened, Opened', UNCHANGED kind, AAddr' = AAddr, Table!ChangePeers
  PROVE  [Table!ANext]_(Table!avars)
  BY DEF Table!ANext, AAddr

\* A call that changes the address takes effect.
LEMMA AddressStep ==
  ASSUME Opened, Opened', UNCHANGED kind, APeers' = APeers,
         AAddr' = {} \/ \E a \in Addrs : AAddr' = {a}
  PROVE  [Table!ANext]_(Table!avars)
  BY DEF Table!ANext, Table!Address, APeers, AAddr

\* To configure a peer with more allowed IPs is to put it into the table.
LEMMA PutMeets ==
  ASSUME IsTable(peers), NEW k \in Keys, NEW ips \in SUBSET Ips,
         NEW ep \in BOOLEAN, NEW keep \in BOOLEAN, APeers = peers,
         APeers' = PutPeer(k, ips, Given(k, ips, ep, keep, FALSE))
  PROVE  /\ keep => Table!Update(k, ips, ep)
         /\ ~keep /\ ~ep => Table!Put(k, [Table!Old(k) EXCEPT !.ips = @ \cup ips])
<1> DEFINE new == Given(k, ips, ep, keep, FALSE)
           old == IF k \in DOMAIN peers THEN peers[k]
                  ELSE [ips |-> {}, ep |-> FALSE, keep |-> FALSE]
<1>1. old \in Peer /\ Table!Old(k) = old
  BY DEF IsTable, Peer, Table!Old, APeers
<1>2. new = [ips |-> old.ips \cup ips, ep |-> old.ep \/ ep, keep |-> old.keep \/ keep]
  <2>1. CASE k \in DOMAIN peers
    <3>1. new = [ips |-> ips \cup old.ips, ep |-> old.ep \/ ep, keep |-> old.keep \/ keep]
      BY <2>1 DEF Given
    <3>2. ips \cup old.ips = old.ips \cup ips
      OBVIOUS
    <3> QED BY <3>1, <3>2
  <2>2. CASE k \notin DOMAIN peers
    <3>1. new = [ips |-> ips, ep |-> ep, keep |-> keep]
      BY <2>2 DEF Given
    <3>2. /\ old.ips \cup ips = ips /\ (old.ep \/ ep) = ep /\ (old.keep \/ keep) = keep
      BY <2>2
    <3> QED BY <3>1, <3>2
  <2> QED BY <2>1, <2>2
<1>3. \A j \in DOMAIN peers \ {k} :
        /\ [peers[j] EXCEPT !.ips = @ \ ips] = [peers[j] EXCEPT !.ips = @ \ (old.ips \cup ips)]
  <2>1. \A j \in DOMAIN peers \ {k} : peers[j].ips \ ips = peers[j].ips \ (old.ips \cup ips)
    BY DEF IsTable
  <2> QED BY <2>1
<1> HIDE DEF old, new
<1>4. APeers' = [j \in DOMAIN peers \cup {k} |->
                   IF j = k THEN new ELSE [peers[j] EXCEPT !.ips = @ \ (old.ips \cup ips)]]
  BY <1>3 DEF PutPeer, new
<1>5. ASSUME NEW p, p = new, p.ips = old.ips \cup ips
      PROVE  Table!Put(k, p)
  <2>1. APeers' = [j \in DOMAIN APeers \cup {k} |->
                     IF j = k THEN p ELSE [APeers[j] EXCEPT !.ips = @ \ p.ips]]
    BY <1>4, <1>5
  <2> QED BY <2>1 DEF Table!Put, APeers
<1>6. ASSUME keep PROVE Table!Update(k, ips, ep)
  <2>1. new = [ips |-> old.ips \cup ips, ep |-> old.ep \/ ep, keep |-> TRUE]
    BY <1>1, <1>2, <1>6
  <2> QED BY <1>1, <1>5, <2>1 DEF Table!Update
<1>7. ASSUME ~keep, ~ep PROVE Table!Put(k, [Table!Old(k) EXCEPT !.ips = @ \cup ips])
  <2>1. new = [ips |-> old.ips \cup ips, ep |-> old.ep, keep |-> old.keep]
    BY <1>1, <1>2, <1>7 DEF Peer
  <2>2. /\ new = [old EXCEPT !.ips = @ \cup ips]
        /\ [old EXCEPT !.ips = @ \cup ips].ips = old.ips \cup ips
    BY <1>1, <2>1 DEF Peer
  <2> QED BY <1>1, <1>5, <2>2
<1> QED BY <1>6, <1>7

\* One or two settings of a peer change.
LEMMA PeerSettings ==
  ASSUME NEW q \in Peer, NEW s
  PROVE  /\ [q EXCEPT !.ips = s] = [ips |-> s, ep |-> q.ep, keep |-> q.keep]
         /\ [q EXCEPT !.ep = FALSE, !.keep = FALSE]
            = [ips |-> q.ips, ep |-> FALSE, keep |-> FALSE]
<1>1. [q EXCEPT !.ips = s] = [ips |-> s, ep |-> q.ep, keep |-> q.keep]
  BY DEF Peer
<1> DEFINE x == [q EXCEPT !.ep = FALSE, !.keep = FALSE]
           y == [ips |-> q.ips, ep |-> FALSE, keep |-> FALSE]
<1>2. x \in Peer /\ x.ips = q.ips /\ x.ep = FALSE /\ x.keep = FALSE
  BY DEF Peer
<1>3. y \in Peer /\ y.ips = q.ips /\ y.ep = FALSE /\ y.keep = FALSE
  BY DEF Peer
<1> HIDE DEF x, y
<1>4. x = y
  BY <1>2, <1>3 DEF Peer
<1> QED BY <1>1, <1>4 DEF x, y

\* One peer of a table changes.
LEMMA PeerChanges ==
  ASSUME IsTable(peers), NEW k \in DOMAIN peers, NEW q
  PROVE  [j \in DOMAIN peers |-> IF j = k THEN q ELSE peers[j]] = [peers EXCEPT ![k] = q]
  BY DEF IsTable

\* To replace the allowed IPs of a peer by all but one is to remove that one.
LEMMA ReplaceMeets ==
  ASSUME IsTable(peers), NEW k \in DOMAIN peers, NEW ip, NEW ips, ips = peers[k].ips \ {ip},
         APeers = peers, APeers' = PutPeer(k, ips, Given(k, ips, FALSE, FALSE, TRUE))
  PROVE  Table!RemoveIP(k, ip)
<1>1. \A j \in DOMAIN peers \ {k} : [peers[j] EXCEPT !.ips = @ \ ips] = peers[j]
  <2>1. \A j \in DOMAIN peers \ {k} : peers[j].ips \ ips = peers[j].ips /\ peers[j] \in Peer
    BY DEF IsTable
  <2> QED BY <2>1 DEF Peer
<1>2. Given(k, ips, FALSE, FALSE, TRUE) = [peers[k] EXCEPT !.ips = @ \ {ip}]
  <2>1. peers[k] \in Peer /\ ips \cup {} = ips
    BY DEF IsTable
  <2>2. Given(k, ips, FALSE, FALSE, TRUE)
        = [ips |-> ips, ep |-> peers[k].ep, keep |-> peers[k].keep]
    BY <2>1 DEF Given, Peer
  <2>3. [peers[k] EXCEPT !.ips = peers[k].ips \ {ip}]
        = [ips |-> peers[k].ips \ {ip}, ep |-> peers[k].ep, keep |-> peers[k].keep]
    BY <2>1, PeerSettings
  <2> QED BY <2>2, <2>3
<1>3. APeers' = [peers EXCEPT ![k] = [peers[k] EXCEPT !.ips = @ \ {ip}]]
  <2> DEFINE q == Given(k, ips, FALSE, FALSE, TRUE)
  <2>1. APeers' = [j \in DOMAIN peers |-> IF j = k THEN q ELSE peers[j]]
    <3>1. DOMAIN peers \cup {k} = DOMAIN peers
      OBVIOUS
    <3> QED BY <1>1, <3>1 DEF PutPeer
  <2> HIDE DEF q
  <2>2. APeers' = [peers EXCEPT ![k] = q]
    BY <2>1, PeerChanges
  <2> QED BY <1>2, <2>2 DEF q
<1>4. APeers' = [APeers EXCEPT ![k].ips = @ \ {ip}]
  BY <1>3
<1> QED BY <1>4 DEF Table!RemoveIP, APeers

\* To remove a peer.
LEMMA RemoveMeets ==
  ASSUME NEW k, APeers' = [j \in DOMAIN APeers \ {k} |-> APeers[j]]
  PROVE  Table!Remove(k)
  BY DEF Table!Remove, Table!Restrict, APeers

\* To remove a peer that the call will add again is to forget its endpoint.
LEMMA TakeAwayMeets ==
  ASSUME IsTable(peers), NEW k \in DOMAIN peers, NEW r, r.op = "endpoint", r.pc = "add",
         r.key = k, r.ips = peers[k].ips, APeers = peers,
         APeers' = PeersUnder(r, KernelRemovePeer(k))
  PROVE  Table!RemoveEndpoint(k)
<1> DEFINE bare == [ips |-> peers[k].ips, ep |-> FALSE, keep |-> FALSE]
<1>1. bare = [peers[k] EXCEPT !.ep = FALSE, !.keep = FALSE]
  <2>1. peers[k] \in Peer
    BY DEF IsTable
  <2> QED BY <2>1, PeerSettings
<1>2. APeers' = [peers EXCEPT ![k] = bare]
  <2> DEFINE p == KernelRemovePeer(k)
  <2>1. /\ DOMAIN p = DOMAIN peers \ {k} /\ DOMAIN p \cup {k} = DOMAIN peers
        /\ \A j \in DOMAIN p : p[j] = peers[j]
    BY RemovedTable
  <2> HIDE DEF bare, p
  <2>2. APeers' = [j \in DOMAIN p \cup {k} |-> IF j \in DOMAIN p THEN p[j] ELSE bare]
    BY DEF PeersUnder, bare, p
  <2>3. APeers' = [j \in DOMAIN peers |-> IF j = k THEN bare ELSE peers[j]]
    BY <2>1, <2>2
  <2> QED BY <2>3, PeerChanges
<1> HIDE DEF bare
<1>3. APeers' = [APeers EXCEPT ![k].ep = FALSE, ![k].keep = FALSE]
  BY <1>1, <1>2
<1> QED BY <1>3 DEF Table!RemoveEndpoint, APeers

\* To add the peer again changes nothing for the others.
LEMMA PutBackSame ==
  ASSUME IsTable(peers), NEW r, r.op = "endpoint", r.pc = "add", Holds(r, peers)
  PROVE  PutPeer(r.key, r.ips, Given(r.key, r.ips, FALSE, FALSE, TRUE)) = PeersUnder(r, peers)
<1>1. r.key \notin DOMAIN peers /\ \A j \in DOMAIN peers : peers[j].ips \ r.ips = peers[j].ips
  BY DEF Holds
<1>2. \A j \in DOMAIN peers : [peers[j] EXCEPT !.ips = @ \ r.ips] = peers[j]
  BY <1>1 DEF IsTable, Peer
<1>3. Given(r.key, r.ips, FALSE, FALSE, TRUE) = [ips |-> r.ips, ep |-> FALSE, keep |-> FALSE]
  BY <1>1 DEF Given
<1> QED BY <1>1, <1>2, <1>3 DEF PutPeer, PeersUnder

\* A step of goroutine c that leaves the peers alone: the interface shuts, or
\* the others see the same address, or the one that is there now.
LEMMA AsideStep ==
  ASSUME IInv, IInv', NEW c \in Callers, mu \in {c, NoCaller}, mu' \in {c, NoCaller},
         UNCHANGED kind, Opened' => Opened /\ UNCHANGED peers,
         Opened' => call[c].op # "endpoint" \/ call[c].pc # "add",
         Opened' => call'[c].op # "endpoint" \/ call'[c].pc # "add",
         Opened' => \/ AddrUnder(call'[c], addr') = AddrUnder(call[c], addr)
                    \/ AddrUnder(call'[c], addr') = addr'
  PROVE  [Table!ANext]_(Table!avars)
<1>1. CASE ~Opened'
  BY <1>1, ShutStep
<1>2. CASE Opened'
  <2>1. APeers = peers /\ AAddr = AddrUnder(call[c], addr)
    BY <1>2, SeenUnder DEF PeersUnder
  <2>2. APeers' = peers' /\ AAddr' = AddrUnder(call'[c], addr')
    BY <1>2, SeenUnderNext DEF PeersUnder
  <2>3. CASE AddrUnder(call'[c], addr') = AddrUnder(call[c], addr)
    BY <1>2, <2>1, <2>2, <2>3, SameStep
  <2>4. CASE AddrUnder(call'[c], addr') = addr'
    BY <1>2, <2>1, <2>2, <2>4, AddressStep DEF IInv, OneAddress
  <2> QED BY <1>2, <2>3, <2>4
<1> QED BY <1>1, <1>2

\* A goroutine's own call after its step.
LEMMA NextCall ==
  ASSUME IInv, NEW c \in Callers, NEW r, call' = [call EXCEPT ![c] = r]
  PROVE  call'[c] = r
  BY DEF IInv, Shapes

\* NewWGIFace chooses before anything is open.
LEMMA ProbeSeen ==
  ASSUME IInv, Probe \/ OtherLoader
  PROVE  [Table!ANext]_(Table!avars)
<1>1. phase # "ready" /\ UNCHANGED cfgd
  <2>1. phase # "ready"
    BY DEF Probe, OtherLoader, NewWGIFace, CanCreateFake, WireGuardModuleIsLoaded,
           ModuleTunIsLoaded, NoModulePath, tryToLoadModule, LoadFails, loadModule, IInv, Probing
  <2>2. UNCHANGED cfgd
    BY DEF Probe, OtherLoader, NewWGIFace, CanCreateFake, WireGuardModuleIsLoaded,
           ModuleTunIsLoaded, NoModulePath, tryToLoadModule, LoadFails, loadModule,
           loadModuleWithDependencies, Chosen, NotLoaded
  <2> QED BY <2>1, <2>2
<1>2. ~Opened /\ ~Opened'
  BY <1>1 DEF IInv, Probing, Opened
<1>3. Opened' = Opened
  BY <1>2 DEF Opened
<1> QED BY <1>2, <1>3 DEF Table!ANext, Table!Choose, NoPeers

\* Create opens the interface with its last step, without peers.
LEMMA CreateSeen ==
  ASSUME IInv, IInv', NEW c \in Callers,
         Create(c) \/ LinkAdd(c) \/ setMTU(c) \/ ConfigureInterface(c)
  PROVE  [Table!ANext]_(Table!avars)
<1>1. ~cfgd /\ UNCHANGED choice
  BY DEF Create, LinkAdd, setMTU, ConfigureInterface, InPc, In, IInv, Calling
<1>2. CASE Create(c) \/ LinkAdd(c) \/ setMTU(c)
  <2>1. ~Opened'
    BY <1>1, <1>2 DEF Create, LinkAdd, setMTU, Opened
  <2> QED BY <1>1, <2>1, ShutStep DEF choice
<1>3. CASE ConfigureInterface(c)
  <2>1. call'[c] = Idle /\ Idle.op = "none" /\ mu' = NoCaller /\ peers' = NoPeers
    BY <1>3, NextCall DEF ConfigureInterface, Unlock, Idle
  <2>2. ~Opened /\ Opened'
    BY <1>1, <1>3 DEF ConfigureInterface, Opened, HasDevice, Userspace, choice
  <2>3. APeers' = NoPeers /\ AAddr' = addr'
    BY <2>1, <2>2, SeenUnderNext DEF PeersUnder, AddrUnder
  <2>4. AAddr' = {} \/ \E a \in Addrs : AAddr' = {a}
    BY <2>3 DEF IInv, OneAddress
  <2> QED BY <1>1, <2>2, <2>3, <2>4 DEF Table!ANext, Table!Open, Table!Address, APeers, AAddr,
                                       NoPeers, choice
<1> QED BY <1>2, <1>3

\* UpdateAddr has the address it found until it returns.
LEMMA AddressSeen ==
  ASSUME IInv, IInv', NEW c \in Callers,
         UpdateAddr(c) \/ AddrDel(c) \/ AddrAdd(c) \/ LinkSetUp(c) \/ AssignFails(c)
  PROVE  [Table!ANext]_(Table!avars)
<1>1. UNCHANGED <<choice, link, dev, peers, cfgd>> /\ UNCHANGED kind
  BY DEF UpdateAddr, AddrDel, AddrAdd, LinkSetUp, AssignFails, system, choice
<1>2. Opened' => Opened /\ UNCHANGED peers
  BY <1>1 DEF Opened, HasDevice, Userspace, choice
<1>3. CASE UpdateAddr(c)
  <2>1. PICK a \in Addrs : Lock(c, [op |-> "address", a |-> a, was |-> addr, pc |-> "addr"])
    BY <1>3 DEF UpdateAddr
  <2>2. /\ mu = NoCaller /\ call[c] = Idle /\ mu' = c
        /\ call'[c] = [op |-> "address", a |-> a, was |-> addr, pc |-> "addr"]
    BY <2>1, NextCall DEF Lock, Free
  <2>3. AddrUnder(call'[c], addr') = AddrUnder(call[c], addr)
    BY <2>2 DEF AddrUnder, Idle
  <2> QED BY <1>1, <1>2, <2>2, <2>3, AsideStep DEF Idle
<1>4. CASE ~UpdateAddr(c)
  <2>1. call[c].op \in {"create", "address"}
    BY <1>4 DEF AddrDel, AddrAdd, LinkSetUp, AssignFails, Assigning, In
  <2>2. mu = c /\ call[c] \in Calls
    BY <2>1, Acting
  <2>3. Opened' => call[c].op = "address"
    BY <1>2, <2>1 DEF Opened, IInv, Calling, In
  <2>4. CASE AddrDel(c)
    BY <1>1, <1>2, <2>1, <2>2, <2>4, AsideStep DEF AddrDel, AddrUnder
  <2>5. CASE AddrAdd(c)
    <3>1. mu' = c /\ call'[c] = [call[c] EXCEPT !.pc = "up"]
      BY <2>2, <2>5, NextCall DEF AddrAdd, Goto
    <3>2. call'[c].op = call[c].op /\ call'[c].was = call[c].was
      BY <2>1, <2>2, <3>1, AssignMoves DEF AssignAt
    <3> QED BY <1>1, <1>2, <2>1, <2>2, <2>3, <3>1, <3>2, AsideStep DEF AddrUnder
  <2>6. CASE LinkSetUp(c) \/ AssignFails(c)
    <3>1. Opened' => Unlock(c)
      BY <2>3, <2>6 DEF LinkSetUp, AssignFails, In
    <3>2. Opened' => mu' = NoCaller /\ call'[c] = Idle
      BY <3>1, NextCall DEF Unlock
    <3>3. CASE Opened'
      <4>1. AddrUnder(call'[c], addr') = addr' /\ call'[c].op # "endpoint"
        BY <3>2, <3>3 DEF AddrUnder, Idle
      <4> QED BY <1>1, <1>2, <2>1, <2>2, <3>2, <3>3, <4>1, AsideStep
    <3> QED BY <1>1, <3>3, ShutStep
  <2> QED BY <1>4, <2>4, <2>5, <2>6
<1> QED BY <1>3, <1>4

\* A call that only begins, or closes the interface.
LEMMA CloseSeen ==
  ASSUME IInv, IInv', NEW c \in Callers,
         \/ RemoveEndpointAddress(c) \/ RemoveAllowedIP(c)
         \/ Close(c) \/ CloseTun(c) \/ waitUntilRemoved(c) \/ Destroy(c)
  PROVE  [Table!ANext]_(Table!avars)
<1>1. UNCHANGED <<choice, cfgd>> /\ UNCHANGED kind
  BY DEF RemoveEndpointAddress, RemoveAllowedIP, Close, CloseTun, waitUntilRemoved, Destroy, choice
<1>2. Opened' => Opened /\ UNCHANGED <<peers, addr>>
  <2>1. CASE UNCHANGED system
    BY <1>1, <2>1 DEF Opened, HasDevice, Userspace, choice, system
  <2>2. CASE Deleted
    BY <2>2, DeletedDevice DEF Opened
  <2>3. CASE dev' = FALSE /\ link' = (link /\ kind = "usp")
    BY <1>1, <2>3 DEF Opened, HasDevice, Userspace
  <2> QED BY <2>1, <2>2, <2>3 DEF RemoveEndpointAddress, RemoveAllowedIP, Close, CloseTun,
                                  waitUntilRemoved, Destroy
<1> DEFINE Aside == /\ mu \in {c, NoCaller} /\ mu' \in {c, NoCaller}
                    /\ call[c].op \in {"none", "close"}
                    /\ call'[c].op = "endpoint" => call'[c].pc = "remove"
                    /\ call'[c].op # "address"
<1>3. Aside
  <2>1. CASE RemoveEndpointAddress(c) \/ RemoveAllowedIP(c) \/ Close(c)
    <3>1. ASSUME NEW r, Lock(c, r), r.op # "address", r.op = "endpoint" => r.pc = "remove"
          PROVE  Aside
      <4>1. mu = NoCaller /\ mu' = c /\ call[c] = Idle /\ call'[c] = r
        BY <3>1, NextCall DEF Lock, Free
      <4> QED BY <3>1, <4>1 DEF Idle
    <3>2. CASE RemoveEndpointAddress(c)
      <4>1. PICK k, ips : Lock(c, [op |-> "endpoint", key |-> k, ips |-> ips, pc |-> "remove"])
        BY <3>2 DEF RemoveEndpointAddress
      <4> DEFINE r == [op |-> "endpoint", key |-> k, ips |-> ips, pc |-> "remove"]
      <4>2. r.op = "endpoint" /\ r.pc = "remove"
        OBVIOUS
      <4> HIDE DEF r
      <4> QED BY <3>1, <4>1, <4>2 DEF r
    <3>3. CASE RemoveAllowedIP(c)
      <4>1. PICK k, ips : Lock(c, [op |-> "removeIP", key |-> k, ips |-> ips])
        BY <3>3 DEF RemoveAllowedIP
      <4> DEFINE r == [op |-> "removeIP", key |-> k, ips |-> ips]
      <4>2. r.op = "removeIP"
        OBVIOUS
      <4> HIDE DEF r
      <4> QED BY <3>1, <4>1, <4>2 DEF r
    <3>4. CASE Close(c)
      <4>1. PICK err : Lock(c, [op |-> "close", pc |-> "tun", err |-> err])
        BY <3>4 DEF Close
      <4> DEFINE r == [op |-> "close", pc |-> "tun", err |-> err]
      <4>2. r.op = "close"
        OBVIOUS
      <4> HIDE DEF r
      <4> QED BY <3>1, <4>1, <4>2 DEF r
    <3> QED BY <2>1, <3>2, <3>3, <3>4
  <2>2. CASE CloseTun(c) \/ waitUntilRemoved(c) \/ Destroy(c)
    <3>1. call[c].op = "close"
      BY <2>2 DEF CloseTun, waitUntilRemoved, Destroy, InPc, In
    <3>2. mu = c /\ call[c] \in Calls
      BY <3>1, Acting
    <3>3. CASE Unlock(c)
      BY <3>1, <3>2, <3>3, NextCall DEF Unlock, Idle
    <3>4. CASE \E l \in CloseAt : \/ Goto(c, [call[c] EXCEPT !.pc = l])
                                  \/ Goto(c, [call[c] EXCEPT !.pc = l, !.err = TRUE])
      <4>1. PICK r : Goto(c, r) /\ r.op = "close"
        BY <3>1, <3>2, <3>4, CloseMoves
      <4> QED BY <3>1, <3>2, <4>1, NextCall DEF Goto
    <3> QED BY <2>2, <3>3, <3>4 DEF CloseTun, waitUntilRemoved, TimedOut, Destroy, Returns, CloseAt
  <2> QED BY <2>1, <2>2
<1>4. Opened' => AddrUnder(call'[c], addr') = AddrUnder(call[c], addr)
  BY <1>2, <1>3 DEF AddrUnder
<1> QED BY <1>1, <1>2, <1>3, <1>4, AsideStep

\* UpdatePeer, AddAllowedIP and RemovePeer take effect at once, or fail.
LEMMA OneChangeSeen ==
  ASSUME IInv, IInv', NEW c \in Callers, UpdatePeer(c) \/ AddAllowedIP(c) \/ RemovePeer(c)
  PROVE  [Table!ANext]_(Table!avars)
<1>1. /\ mu = NoCaller /\ call[c] = Idle /\ cfgd
      /\ UNCHANGED <<choice, link, dev, addr, cfgd, mu, call>> /\ UNCHANGED kind
  BY DEF UpdatePeer, AddAllowedIP, RemovePeer, Ready, Free, choice
<1>2. Opened' = Opened /\ (Opened <=> HasDevice)
  BY <1>1 DEF Opened, HasDevice, Userspace
<1> SUFFICES ASSUME Opened PROVE [Table!ANext]_(Table!avars)
  BY <1>1, <1>2, ShutStep
<1>3. APeers = peers /\ AAddr = addr /\ APeers' = peers' /\ AAddr' = AAddr
  <2>1. call'[c] = Idle /\ Idle.op = "none" /\ mu' = NoCaller
    BY <1>1 DEF Idle
  <2>2. APeers = peers /\ AAddr = addr
    BY <1>1, <2>1, SeenUnder DEF PeersUnder, AddrUnder
  <2>3. APeers' = peers' /\ AAddr' = addr'
    BY <1>2, <2>1, SeenUnderNext DEF PeersUnder, AddrUnder
  <2> QED BY <1>1, <2>2, <2>3
<1>4. IsTable(peers)
  BY DEF IInv, Shapes
<1>5. CASE UpdatePeer(c)
  <2>1. PICK k \in Keys, ips \in SUBSET Ips, ep \in BOOLEAN :
          peers' = On(KernelUpdatePeer(k, ips, ep), USPUpdatePeer(k, ips, ep))
    BY <1>5 DEF UpdatePeer
  <2>2. peers' = PutPeer(k, ips, Given(k, ips, ep, TRUE, FALSE))
    BY <2>1, Configured DEF KernelUpdatePeer, USPUpdatePeer
  <2>3. Table!Update(k, ips, ep)
    BY <1>3, <1>4, <2>2, PutMeets
  <2>4. Table!ChangePeers
    BY <2>3 DEF Table!ChangePeers
  <2> QED BY <1>1, <1>2, <1>3, <2>4, ChangeStep
<1>6. CASE AddAllowedIP(c)
  <2>1. PICK k \in Keys, ip \in Ips :
          peers' = On(KernelAddAllowedIP(k, ip), USPAddAllowedIP(k, ip))
    BY <1>6 DEF AddAllowedIP
  <2>2. peers' = IF ~Userspace /\ k \notin DOMAIN peers THEN peers
                 ELSE PutPeer(k, {ip}, Given(k, {ip}, FALSE, FALSE, FALSE))
    BY <2>1, Configured DEF KernelAddAllowedIP, USPAddAllowedIP
  <2>3. CASE ~Userspace /\ k \notin DOMAIN peers
    BY <1>1, <1>2, <1>3, <2>2, <2>3, SameStep
  <2>4. CASE Userspace \/ k \in DOMAIN peers
    <3>1. {ip} \in SUBSET Ips
      OBVIOUS
    <3>2. peers' = PutPeer(k, {ip}, Given(k, {ip}, FALSE, FALSE, FALSE))
      BY <2>2, <2>4
    <3>3. Table!Put(k, [Table!Old(k) EXCEPT !.ips = @ \cup {ip}])
      BY <1>3, <1>4, <3>1, <3>2, PutMeets
    <3>4. kind = "kernel" => k \in DOMAIN APeers
      BY <1>3, <2>4 DEF Userspace
    <3>5. Table!AddIP(k, ip)
      BY <3>3, <3>4 DEF Table!AddIP, APeers
    <3>6. Table!ChangePeers
      BY <3>5 DEF Table!ChangePeers
    <3> QED BY <1>1, <1>2, <1>3, <3>6, ChangeStep
  <2> QED BY <2>3, <2>4
<1>7. CASE RemovePeer(c)
  <2>1. PICK k \in Keys : peers' = KernelRemovePeer(k) \/ UNCHANGED peers
    BY <1>7 DEF RemovePeer
  <2>2. CASE peers' = KernelRemovePeer(k)
    <3>1. Table!Remove(k)
      BY <1>3, <2>2, RemoveMeets DEF KernelRemovePeer
    <3>2. Table!ChangePeers
      BY <3>1 DEF Table!ChangePeers
    <3> QED BY <1>1, <1>2, <1>3, <3>2, ChangeStep
  <2>3. CASE UNCHANGED peers
    BY <1>1, <1>2, <1>3, <2>3, SameStep
  <2> QED BY <2>1, <2>2, <2>3
<1> QED BY <1>5, <1>6, <1>7

\* RemoveEndpointAddress takes effect when the peer is taken away, and
\* RemoveAllowedIP when the allowed IPs are replaced; a peer that cannot be
\* added again is removed.
LEMMA ReadChangeSeen ==
  ASSUME IInv, IInv', NEW c \in Callers, RemoveForReAdd(c) \/ ReAdd(c) \/ ReplaceAllowedIPs(c)
  PROVE  [Table!ANext]_(Table!avars)
<1> DEFINE k == call[c].key
<1>1. call[c].op \in {"endpoint", "removeIP"}
  BY DEF RemoveForReAdd, ReAdd, ReplaceAllowedIPs, InPc, In
<1>2. /\ mu = c /\ call[c] \in Calls /\ k \in Keys /\ cfgd
      /\ UNCHANGED <<choice, link, dev, addr, cfgd>> /\ UNCHANGED kind
  BY <1>1, Acting, CallFields DEF IInv, Calling, RemoveForReAdd, ReAdd, ReplaceAllowedIPs, choice
<1>3. Opened' = Opened
  BY <1>2 DEF Opened, HasDevice, Userspace
<1> SUFFICES ASSUME Opened PROVE [Table!ANext]_(Table!avars)
  BY <1>2, <1>3, ShutStep
<1>4. IsTable(peers) /\ Holds(call[c], peers)
  BY DEF IInv, Shapes, Reading
<1>5. APeers = PeersUnder(call[c], peers) /\ AAddr = addr
  BY <1>1, <1>2, SeenUnder DEF AddrUnder
<1>6. ASSUME mu' \in {c, NoCaller}, call'[c].op # "address"
      PROVE  APeers' = PeersUnder(call'[c], peers') /\ AAddr' = AAddr
  BY <1>2, <1>3, <1>5, <1>6, SeenUnderNext DEF AddrUnder
<1>7. Unlock(c) => APeers' = peers' /\ AAddr' = AAddr
  <2>1. Idle.op = "none"
    BY DEF Idle
  <2>2. Unlock(c) => mu' \in {c, NoCaller} /\ call'[c] = Idle
    BY NextCall DEF Unlock
  <2> QED BY <1>6, <2>1, <2>2 DEF PeersUnder
<1>8. Table!ChangePeers /\ AAddr' = AAddr => [Table!ANext]_(Table!avars)
  BY <1>2, <1>3, ChangeStep
<1>9. CASE RemoveForReAdd(c)
  <2>1. call[c].op = "endpoint" /\ call[c].pc = "remove"
    BY <1>9 DEF RemoveForReAdd, InPc, In
  <2>2. APeers = peers /\ k \in DOMAIN peers /\ call[c].ips = peers[k].ips
    BY <1>4, <1>5, <2>1 DEF PeersUnder, Holds
  <2>3. CASE peers' = KernelRemovePeer(k) /\ Goto(c, [call[c] EXCEPT !.pc = "add"])
    <3> DEFINE r == [call[c] EXCEPT !.pc = "add"]
    <3>1. r.op = "endpoint" /\ r.pc = "add" /\ r.key = k /\ r.ips = call[c].ips
      BY <1>2, <2>1, EndpointMoves
    <3> HIDE DEF r
    <3>2. APeers' = PeersUnder(r, peers') /\ AAddr' = AAddr
      <4>1. mu' \in {c, NoCaller} /\ call'[c] = r
        BY <1>2, <2>3, NextCall DEF Goto, r
      <4> QED BY <1>6, <3>1, <4>1
    <3>3. Table!RemoveEndpoint(k)
      BY <1>4, <2>2, <2>3, <3>1, <3>2, TakeAwayMeets
    <3>4. Table!ChangePeers
      BY <1>2, <3>3 DEF Table!ChangePeers
    <3> QED BY <1>8, <3>2, <3>4
  <2>4. CASE Unlock(c) /\ UNCHANGED peers
    BY <1>2, <1>3, <1>7, <2>2, <2>4, SameStep
  <2> QED BY <1>9, <2>3, <2>4 DEF RemoveForReAdd
<1>10. CASE ReAdd(c)
  <2>1. Unlock(c) /\ call[c].op = "endpoint" /\ call[c].pc = "add"
    BY <1>10 DEF ReAdd, InPc, In
  <2>2. CASE peers' = On(KernelReAdd(k, call[c].ips), USPReAdd(k, call[c].ips))
    <3>1. peers' = PutPeer(k, call[c].ips, Given(k, call[c].ips, FALSE, FALSE, TRUE))
      BY <2>2, Configured DEF KernelReAdd, USPReAdd
    <3>2. peers' = APeers
      BY <1>4, <1>5, <2>1, <3>1, PutBackSame
    <3> QED BY <1>2, <1>3, <1>7, <2>1, <3>2, SameStep
  <2>3. CASE UNCHANGED peers
    <3>1. k \notin DOMAIN peers
      BY <1>4, <2>1 DEF Holds
    <3>2. DOMAIN APeers \ {k} = DOMAIN peers /\ \A j \in DOMAIN peers : APeers[j] = peers[j]
      BY <1>5, <2>1, <3>1 DEF PeersUnder
    <3>3. peers = [j \in DOMAIN APeers \ {k} |-> APeers[j]]
      BY <1>4, <3>2 DEF IsTable
    <3>4. Table!Remove(k)
      BY <1>7, <2>1, <2>3, <3>3, RemoveMeets
    <3>5. Table!ChangePeers
      BY <1>2, <3>4 DEF Table!ChangePeers
    <3> QED BY <1>7, <1>8, <2>1, <3>5
  <2> QED BY <1>10, <2>2, <2>3 DEF ReAdd
<1>11. CASE ReplaceAllowedIPs(c)
  <2>1. Unlock(c) /\ call[c].op = "removeIP"
    BY <1>11 DEF ReplaceAllowedIPs, In
  <2>2. APeers = peers /\ k \in DOMAIN peers
    BY <1>4, <1>5, <2>1 DEF PeersUnder, Holds
  <2>3. CASE peers' = On(KernelReplaceIPs(k, call[c].ips), USPReplaceIPs(k, call[c].ips))
    <3>1. peers' = PutPeer(k, call[c].ips, Given(k, call[c].ips, FALSE, FALSE, TRUE))
      BY <2>2, <2>3, Configured DEF KernelReplaceIPs, USPReplaceIPs
    <3>2. PICK ip \in Ips : call[c].ips = peers[k].ips \ {ip}
      BY <1>4, <2>1 DEF Holds
    <3>3. Table!RemoveIP(k, ip)
      BY <1>4, <1>7, <2>1, <2>2, <3>1, <3>2, ReplaceMeets
    <3>4. Table!ChangePeers
      BY <1>2, <3>3 DEF Table!ChangePeers
    <3> QED BY <1>7, <1>8, <2>1, <3>4
  <2>4. CASE UNCHANGED peers
    BY <1>2, <1>3, <1>7, <2>1, <2>2, <2>4, SameStep
  <2> QED BY <1>11, <2>3, <2>4 DEF ReplaceAllowedIPs
<1> QED BY <1>9, <1>10, <1>11

\* Every step of the interface is a step of Tunnel, or is not seen.
LEMMA StepSeen == IInv /\ IInv' /\ [Next]_vars => [Table!ANext]_(Table!avars)
<1> SUFFICES ASSUME IInv, IInv', [Next]_vars PROVE [Table!ANext]_(Table!avars)
  OBVIOUS
<1>1. CASE Probe \/ OtherLoader
  BY <1>1, ProbeSeen
<1>2. ASSUME NEW c \in Callers, Step(c) PROVE [Table!ANext]_(Table!avars)
  BY <1>2, CreateSeen, AddressSeen, CloseSeen, OneChangeSeen, ReadChangeSeen DEF Step
<1>3. CASE OtherAdds
  <2>1. ~Opened' /\ UNCHANGED kind
    BY <1>3 DEF OtherAdds, InPc, In, IInv, Calling, Opened, choice
  <2> QED BY <2>1, ShutStep
<1>4. CASE LinkVanishes \/ TunRemoved
  <2>1. ~Opened' /\ UNCHANGED kind
    BY <1>4, DeletedDevice DEF LinkVanishes, TunRemoved, Opened, choice
  <2> QED BY <2>1, ShutStep
<1>5. CASE UNCHANGED vars
  BY <1>5 DEF Table!avars, vars, choice, system, Opened, HasDevice, Userspace, View, ReAdded,
              Moving, InPc, In
<1> QED BY <1>1, <1>2, <1>3, <1>4, <1>5 DEF Next

\* To its callers the interface is one table of peers and one address: the calls
\* of several steps take effect in one, a new interface has no peers of an old
\* link, and no call of another goroutine is lost (iface.go, kernel_unix.go,
\* usp.go).
THEOREM ImplementsTunnelAlways == Spec => ImplementsTunnel
<1>1. Init => Table!AInit
  BY DEF Init, Table!AInit, Opened, NoPeers
<1>2. IInv /\ IInv' /\ [Next]_vars => [Table!ANext]_(Table!avars)
  BY StepSeen
<1> QED BY <1>1, <1>2, Invariance, PTL DEF Spec, ImplementsTunnel, Table!ASpec
==============================================================================
