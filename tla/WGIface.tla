------------------------------ MODULE WGIface -------------------------------
(***************************************************************************)
(* The WireGuard interface: how NewWGIFace chooses between the kernel, a   *)
(* userspace and a netstack device (iface_new_linux.go, loading kernel     *)
(* modules if it must: device/kernel_module_linux.go), WGIface itself with *)
(* its mutex (iface.go), the link (device/wg_link_linux.go) and the two    *)
(* configurers (configurer/kernel_unix.go, usp.go).                        *)
(*                                                                         *)
(* Several goroutines of the engine call one WGIface.  A call that makes   *)
(* more than one change to the device is as many steps here; one that      *)
(* makes a single change is one step, taken while the mutex is free.  Any  *)
(* system call may fail; a call that fails before it changed anything      *)
(* leaves no trace and is not an action.                                   *)
(*                                                                         *)
(* A peer is the set of its allowed IPs, whether its endpoint is set, and  *)
(* keep: whether it still has the settings only UpdatePeer makes, its      *)
(* keepalive interval and its preshared key.  External: the kernel's links *)
(* and modules, what WireGuard does with a PeerConfig, and the Create and  *)
(* Close of the three device types, whose files are not in the repository. *)
(***************************************************************************)
EXTENDS Integers, Sequences, Functions

CONSTANTS
  Keys, Ips, Addrs,   \* public keys, prefixes, addresses of the interface
  Callers, NoCaller,  \* goroutines; nobody
  Deps,               \* the modules wireguard needs, as modules.dep lists them
  NoMods              \* the module table, no longer looked at

ASSUME CallerAssumption == NoCaller \notin Callers
ASSUME DepsAssumption   == Deps \in Seq(STRING)

VARIABLES
  phase, kind,        \* where NewWGIFace is, and the device type it chose
  mods, todo,         \* /proc/modules, and the modules still to be loaded
  link, dev,          \* the link exists; the userspace device is open
  addr, peers,        \* the link's addresses, the device's peers
  cfgd,               \* WGIface.configurer is set
  mu, call,           \* WGIface.mu, and the calls in progress
  recorded,           \* the peers with an address in the activity recorder
  closed,             \* what Close returned: "no" (not yet), "ok" or "err"
  \* History:
  blind,              \* a failing lookup was taken for a removed interface
  lost                \* peers that RemoveEndpointAddress failed to re-add

choice  == <<phase, kind, mods, todo>>
system  == <<link, dev, addr, peers>>
history == <<blind, lost>>
vars    == <<choice, system, cfgd, mu, call, recorded, closed, history>>

Mods      == Range(Deps) \cup {"wireguard", "tun"}
Statuses  == {"unloaded", "unloading", "loading", "live", "builtin"}
NoPeers   == <<>>
Peer      == [ips : SUBSET Ips, ep : BOOLEAN, keep : BOOLEAN]
OldPeers  == {NoPeers} \cup
             {[j \in {k} |-> [ips |-> Ips, ep |-> TRUE, keep |-> TRUE]] : k \in Keys}
Idle      == [op |-> "none"]
Calls     == [op : {"create", "address"}, a : Addrs, was : SUBSET Addrs,
              pc : {"add", "mtu", "addr", "up", "conf"}]
             \cup [op : {"endpoint"}, key : Keys, ips : SUBSET Ips, pc : {"remove", "add"}]
             \cup [op : {"removeIP"}, key : Keys, ips : SUBSET Ips]
             \cup [op : {"close"}, pc : {"tun", "wait", "destroy"}, err : BOOLEAN]

\* The state of the interface, its device and its callers: the allowed IPs of
\* different peers are disjoint, and whoever is in a call of several steps
\* holds the mutex.
TypeOK ==
  /\ phase \in {"new", "wireguard", "tun", "ready", "refused"}
  /\ kind \in {"none", "netstack", "kernel", "usp"}
  /\ (kind # "none") <=> (phase = "ready")
  /\ mods \in [Mods -> Statuses] \cup {NoMods}
  /\ todo \in Seq(Mods)
  /\ link \in BOOLEAN
  /\ dev \in BOOLEAN
  /\ addr \subseteq Addrs
  /\ DOMAIN peers \subseteq Keys
  /\ \A k \in DOMAIN peers :
       /\ peers[k] \in Peer
       /\ \A j \in DOMAIN peers \ {k} : peers[j].ips \cap peers[k].ips = {}
  /\ cfgd \in BOOLEAN
  /\ mu \in Callers \cup {NoCaller}
  /\ \A c \in Callers : IF c = mu THEN call[c] \in Calls ELSE call[c] = Idle
  /\ recorded \subseteq Keys
  /\ closed \in {"no", "ok", "err"}
  /\ blind \in BOOLEAN
  /\ lost \subseteq Keys

-----------------------------------------------------------------------------
(* NewWGIFace.                                                             *)

\* The modules that m needs: modules.dep names a module before the modules
\* it depends on.
Needs(m) ==
  IF m = "wireguard" THEN Range(Deps)
  ELSE UNION {Range(SubSeq(Deps, i + 1, Len(Deps))) : i \in {j \in DOMAIN Deps : Deps[j] = m}}

\* The device is of type d.
Chosen(d) ==
  /\ kind' = d
  /\ phase' = "ready"
  /\ mods' = NoMods
  /\ todo' = <<>>
  /\ UNCHANGED <<system, cfgd, mu, call, recorded, closed, history>>

DeviceOf(m) == IF m = "wireguard" THEN "kernel" ELSE "usp"

\* tryToLoadModule gives up: on to the tun module, or to an error.
NotLoaded ==
  /\ phase' = IF phase = "wireguard" THEN "tun" ELSE "refused"
  /\ todo' = <<>>
  /\ UNCHANGED <<kind, mods, system, cfgd, mu, call, recorded, closed, history>>

\* The address does not parse, or the netstack mode is on.
NewWGIFace ==
  /\ phase = "new"
  /\ \/ /\ phase' = "refused"
        /\ UNCHANGED <<kind, mods, todo, system, cfgd, mu, call, recorded, closed,
                       history>>
     \/ Chosen("netstack")

\* canCreateFakeWireGuardInterface: the kernel knows the link type, perhaps
\* because it has just loaded the module by itself.
CanCreateFake ==
  /\ phase = "new"
  /\ Chosen("kernel")

\* The environment forbids the kernel device, or the fake link is refused.
WireGuardModuleIsLoaded ==
  /\ phase = "new"
  /\ phase' \in {"wireguard", "tun"}
  /\ UNCHANGED <<kind, mods, todo, system, cfgd, mu, call, recorded, closed, history>>

\* ModuleTunIsLoaded finds the device file, whatever the module's state is: the
\* file may have been there before the module, or without it.
ModuleTunIsLoaded ==
  /\ phase = "tun"
  /\ todo = <<>>
  /\ Chosen("usp")

isBuiltinModule(m) == mods[m] = "builtin"

\* A module that is built in is not in /proc/modules.
moduleStatus(m) == IF isBuiltinModule(m) THEN "unloaded" ELSE mods[m]

Listed(m) == moduleStatus(m) \in {"loading", "live"}

isModuleEnabled(m) == isBuiltinModule(m) \/ Listed(m)

getModuleDependencies(m) == IF m = "wireguard" THEN Deps ELSE <<>>

\* getModulePath finds no file of the module.
NoModulePath ==
  /\ phase \in {"wireguard", "tun"}
  /\ todo = <<>>
  /\ ~isModuleEnabled(phase)
  /\ NotLoaded

\* The module is there, or the loading begins.
tryToLoadModule ==
  /\ phase \in {"wireguard", "tun"}
  /\ todo = <<>>
  /\ \/ /\ isModuleEnabled(phase)
        /\ Chosen(DeviceOf(phase))
     \/ /\ ~isModuleEnabled(phase)
        /\ todo' = getModuleDependencies(phase) \o <<phase>>
        /\ UNCHANGED <<phase, kind, mods, system, cfgd, mu, call, recorded, closed,
                       history>>

\* The next module is there, or is loaded now.
loadModuleWithDependencies(table) ==
  IF Len(todo) = 1 THEN Chosen(DeviceOf(phase))
  ELSE /\ todo' = Tail(todo)
       /\ mods' = table
       /\ UNCHANGED <<phase, kind, system, cfgd, mu, call, recorded, closed, history>>

\* The module's file cannot be opened, or the kernel refuses it.
LoadFails ==
  /\ todo # <<>>
  /\ ~Listed(Head(todo))
  /\ NotLoaded

\* finit_module fails on a module whose dependencies are not there.
loadModule ==
  /\ todo # <<>>
  /\ LET m == Head(todo)
     IN  \/ Listed(m) /\ loadModuleWithDependencies(mods)
         \/ /\ ~Listed(m)
            /\ \A n \in Needs(m) : mods[n] \in {"live", "builtin"}
            /\ loadModuleWithDependencies([mods EXCEPT ![m] = "live"])

\* Another process finishes to load or to unload a module, or fails to load it.
OtherLoader ==
  /\ phase \in {"new", "wireguard", "tun"}
  /\ \E m \in Mods, s \in {"unloaded", "live"} :
       /\ mods[m] = "loading" \/ (mods[m] = "unloading" /\ s = "unloaded")
       /\ mods' = [mods EXCEPT ![m] = s]
  /\ UNCHANGED <<phase, kind, todo, system, cfgd, mu, call, recorded, closed, history>>

-----------------------------------------------------------------------------
(* The mutex, the device and the configurers.                              *)

\* Mutant of Free: the mutex keeps nobody out.
FreeAlways(c) == call[c] = Idle

Free(c) == call[c] = Idle /\ mu = NoCaller

\* Mutant of Lock: the mutex is not taken.
LockNothing(c, r) ==
  /\ phase = "ready"
  /\ Free(c)
  /\ call' = [call EXCEPT ![c] = r]
  /\ UNCHANGED mu

Lock(c, r) ==
  /\ phase = "ready"
  /\ Free(c)
  /\ mu' = c
  /\ call' = [call EXCEPT ![c] = r]

Goto(c, r) ==
  /\ call' = [call EXCEPT ![c] = r]
  /\ UNCHANGED mu

\* The call returns, with or without an error.
Unlock(c) ==
  /\ mu' = NoCaller
  /\ call' = [call EXCEPT ![c] = Idle]

In(c, op)     == call[c].op = op
InPc(c, op, l) == In(c, op) /\ call[c].pc = l

Userspace == kind \in {"usp", "netstack"}
HasDevice == IF Userspace THEN dev ELSE link

\* What WireGuard does with a PeerConfig: an allowed IP has one peer, the one
\* it was given to last.
ConfigurePeer(c) ==
  LET old == IF c.key \in DOMAIN peers THEN peers[c.key]
             ELSE [ips |-> {}, ep |-> FALSE, keep |-> FALSE]
      new == [ips  |-> c.ips \cup (IF c.replace THEN {} ELSE old.ips),
              ep   |-> old.ep \/ c.ep,
              keep |-> old.keep \/ c.keep]
  IN  IF c.updateOnly /\ c.key \notin DOMAIN peers THEN peers
      ELSE [k \in DOMAIN peers \cup {c.key} |->
              IF k = c.key THEN new ELSE [peers[k] EXCEPT !.ips = @ \ c.ips]]

PeerConfig(k, ips, ep, keep, updateOnly, replace) ==
  [key |-> k, ips |-> ips, ep |-> ep, keep |-> keep,
   updateOnly |-> updateOnly, replace |-> replace]

\* KernelConfigurer.configure, and IpcSet with the text form of a PeerConfig,
\* which has no update_only line.
configure(c)           == ConfigurePeer(c)
toWgUserspaceString(c) == [c EXCEPT !.updateOnly = FALSE]
IpcSet(c)              == ConfigurePeer(toWgUserspaceString(c))

\* The device's peers after a call of the kernel or of the userspace configurer.
On(kernel, usp) == IF Userspace THEN usp ELSE kernel

\* A call that configures the device, with w.configurer set.
Ready(c) == phase = "ready" /\ Free(c) /\ cfgd /\ HasDevice

KernelUpdatePeer(k, ips, ep) == configure(PeerConfig(k, ips, ep, TRUE, FALSE, FALSE))
USPUpdatePeer(k, ips, ep)    == IpcSet(PeerConfig(k, ips, ep, TRUE, FALSE, FALSE))

\* In userspace the recorder learns the endpoint.
UpdatePeer(c) ==
  /\ Ready(c)
  /\ \E k \in Keys, ips \in SUBSET Ips, ep \in BOOLEAN :
       /\ peers' = On(KernelUpdatePeer(k, ips, ep), USPUpdatePeer(k, ips, ep))
       /\ recorded' = IF Userspace /\ ep THEN recorded \cup {k} ELSE recorded
       /\ lost' = lost \ {k}
  /\ UNCHANGED <<choice, link, dev, addr, cfgd, mu, call, closed, blind>>

KernelAddAllowedIP(k, ip) == configure(PeerConfig(k, {ip}, FALSE, FALSE, TRUE, FALSE))
USPAddAllowedIP(k, ip)    == IpcSet(PeerConfig(k, {ip}, FALSE, FALSE, TRUE, FALSE))

AddAllowedIP(c) ==
  /\ Ready(c)
  /\ \E k \in Keys, ip \in Ips : peers' = On(KernelAddAllowedIP(k, ip), USPAddAllowedIP(k, ip))
  /\ UNCHANGED <<choice, link, dev, addr, cfgd, mu, call, recorded, closed, history>>

KernelRemovePeer(k) == [j \in DOMAIN peers \ {k} |-> peers[j]]

\* Mutant of USPForget: the recorder keeps the peer.
USPForgetNothing(k) == recorded

\* The userspace configurer forgets a removed peer's address, even if the
\* device refuses to remove the peer or is closed.
USPForget(k) == recorded \ {k}

RemovePeer(c) ==
  /\ phase = "ready"
  /\ Free(c)
  /\ cfgd
  /\ \E k \in Keys :
       /\ (HasDevice /\ peers' = KernelRemovePeer(k)) \/ UNCHANGED peers
       /\ recorded' = IF Userspace THEN USPForget(k) ELSE recorded
       /\ lost' = lost \ {k}
  /\ UNCHANGED <<choice, link, dev, addr, cfgd, mu, call, closed, blind>>

\* The allowed IPs of a peer, as the two configurers read them.
getPeer(k)  == peers[k].ips
parseStatus == [k \in DOMAIN peers |-> peers[k].ips]

\* RemoveEndpointAddress reads the peer's allowed IPs ...
RemoveEndpointAddress(c) ==
  /\ HasDevice
  /\ cfgd
  /\ \E k \in DOMAIN peers :
       Lock(c, [op |-> "endpoint", key |-> k, ips |-> On(getPeer(k), parseStatus[k]),
                pc |-> "remove"])
  /\ UNCHANGED <<choice, system, cfgd, recorded, closed, history>>

\* ... removes the peer, or returns ...
RemoveForReAdd(c) ==
  /\ InPc(c, "endpoint", "remove")
  /\ \/ /\ HasDevice
        /\ peers' = KernelRemovePeer(call[c].key)
        /\ Goto(c, [call[c] EXCEPT !.pc = "add"])
     \/ /\ Unlock(c)
        /\ UNCHANGED peers
  /\ UNCHANGED <<choice, link, dev, addr, cfgd, recorded, closed, history>>

KernelReAdd(k, ips) == configure(PeerConfig(k, ips, FALSE, FALSE, FALSE, TRUE))
USPReAdd(k, ips)    == IpcSet(PeerConfig(k, ips, FALSE, FALSE, FALSE, TRUE))

\* ... and adds it again with these allowed IPs, which may fail.
ReAdd(c) ==
  /\ InPc(c, "endpoint", "add")
  /\ Unlock(c)
  /\ \/ /\ HasDevice
        /\ peers' = On(KernelReAdd(call[c].key, call[c].ips), USPReAdd(call[c].key, call[c].ips))
        /\ UNCHANGED lost
     \/ /\ lost' = lost \cup {call[c].key}
        /\ UNCHANGED peers
  /\ UNCHANGED <<choice, link, dev, addr, cfgd, recorded, closed, blind>>

\* The other allowed IPs of the peer: for the userspace configurer it is an
\* error if the IP to be removed is not among them.
KernelRemaining(k, ip) == getPeer(k) \ {ip}
USPFinds(k, ip)        == ip \in peers[k].ips

\* RemoveAllowedIP reads the peer's allowed IPs ...
RemoveAllowedIP(c) ==
  /\ HasDevice
  /\ cfgd
  /\ \E k \in DOMAIN peers, ip \in Ips :
       /\ Userspace => USPFinds(k, ip)
       /\ Lock(c, [op |-> "removeIP", key |-> k, ips |-> KernelRemaining(k, ip)])
  /\ UNCHANGED <<choice, system, cfgd, recorded, closed, history>>

KernelReplaceIPs(k, ips) == configure(PeerConfig(k, ips, FALSE, FALSE, TRUE, TRUE))
USPReplaceIPs(k, ips)    == IpcSet(PeerConfig(k, ips, FALSE, FALSE, TRUE, TRUE))

\* ... and replaces them by the others.
ReplaceAllowedIPs(c) ==
  /\ In(c, "removeIP")
  /\ Unlock(c)
  /\ \/ /\ HasDevice
        /\ peers' = On(KernelReplaceIPs(call[c].key, call[c].ips),
                       USPReplaceIPs(call[c].key, call[c].ips))
     \/ UNCHANGED peers
  /\ UNCHANGED <<choice, link, dev, addr, cfgd, recorded, closed, history>>

-----------------------------------------------------------------------------
(* Create and UpdateAddr.                                                  *)

Deleted ==
  /\ link' = FALSE
  /\ dev' = FALSE
  /\ addr' = {}
  /\ peers' = NoPeers

\* recreate, first part: a link that has the name is deleted.
recreate == IF link THEN Deleted ELSE UNCHANGED system

\* The kernel device begins with recreate, a userspace device makes its own
\* link, a netstack device none.
Create(c) ==
  /\ ~cfgd
  /\ closed = "no"
  /\ \E a \in Addrs :
       LET r(pc) == [op |-> "create", a |-> a, was |-> {}, pc |-> pc]
       IN  \/ /\ kind = "kernel"
              /\ Lock(c, r("add"))
              /\ recreate
           \/ /\ kind = "usp"
              /\ ~link
              /\ Lock(c, r("addr"))
              /\ link' = TRUE
              /\ dev' = TRUE
              /\ UNCHANGED <<addr, peers>>
           \/ /\ kind = "netstack"
              /\ Lock(c, r("conf"))
              /\ dev' = TRUE
              /\ UNCHANGED <<link, addr, peers>>
  /\ UNCHANGED <<choice, cfgd, recorded, closed, history>>

\* recreate, second part: a link that another process added meanwhile is reused.
LinkAdd(c) ==
  /\ InPc(c, "create", "add")
  /\ link' = TRUE
  /\ Goto(c, [call[c] EXCEPT !.pc = "mtu"])
  /\ UNCHANGED <<choice, dev, addr, peers, cfgd, recorded, closed, history>>

setMTU(c) ==
  /\ InPc(c, "create", "mtu")
  /\ link
  /\ Goto(c, [call[c] EXCEPT !.pc = "addr"])
  /\ UNCHANGED <<choice, system, cfgd, recorded, closed, history>>

UpdateAddr(c) ==
  /\ kind # "netstack"
  /\ cfgd
  /\ link
  /\ \E a \in Addrs : Lock(c, [op |-> "address", a |-> a, was |-> addr, pc |-> "addr"])
  /\ UNCHANGED <<choice, system, cfgd, recorded, closed, history>>

Assigning(c) == In(c, "create") \/ In(c, "address")

\* assignAddr deletes the link's addresses one by one ...
AddrDel(c) ==
  /\ Assigning(c)
  /\ call[c].pc = "addr"
  /\ \E a \in addr : addr' = addr \ {a}
  /\ UNCHANGED <<choice, link, dev, peers, cfgd, mu, call, recorded, closed, history>>

\* ... then adds the new one ...
AddrAdd(c) ==
  /\ Assigning(c)
  /\ call[c].pc = "addr"
  /\ link
  /\ addr = {}
  /\ addr' = {call[c].a}
  /\ Goto(c, [call[c] EXCEPT !.pc = "up"])
  /\ UNCHANGED <<choice, link, dev, peers, cfgd, recorded, closed, history>>

\* ... and brings the link up.
LinkSetUp(c) ==
  /\ Assigning(c)
  /\ call[c].pc = "up"
  /\ link
  /\ IF In(c, "create") THEN Goto(c, [call[c] EXCEPT !.pc = "conf"]) ELSE Unlock(c)
  /\ UNCHANGED <<choice, system, cfgd, recorded, closed, history>>

\* The configurer replaces all peers, then Create keeps it.
ConfigureInterface(c) ==
  /\ InPc(c, "create", "conf")
  /\ HasDevice
  /\ peers' = NoPeers
  /\ cfgd' = TRUE
  /\ Unlock(c)
  /\ UNCHANGED <<choice, link, dev, addr, recorded, closed, history>>

\* Any of these steps may fail: Create or UpdateAddr returns, the link stays.
AssignFails(c) ==
  /\ Assigning(c)
  /\ Unlock(c)
  /\ UNCHANGED <<choice, system, cfgd, recorded, closed, history>>

\* Another process adds a link with this name while Create is at work.
OtherAdds ==
  /\ kind = "kernel"
  /\ ~link
  /\ \E c \in Callers : InPc(c, "create", "add")
  /\ link' = TRUE
  /\ peers' \in OldPeers
  /\ addr' \in {{}} \cup {{a} : a \in Addrs}
  /\ UNCHANGED <<choice, dev, cfgd, mu, call, recorded, closed, history>>

\* Someone deletes the link; a userspace device closes when its link is gone.
LinkVanishes ==
  /\ phase = "ready"
  /\ link
  /\ Deleted
  /\ UNCHANGED <<choice, cfgd, mu, call, recorded, closed, history>>

-----------------------------------------------------------------------------
(* Close.                                                                  *)

Returns(c, r) ==
  /\ closed' = r
  /\ Unlock(c)

Result(err) == IF err THEN "err" ELSE "ok"

\* The proxy is freed, or is not.
Close(c) ==
  /\ closed = "no"
  /\ \E err \in BOOLEAN : Lock(c, [op |-> "close", pc |-> "tun", err |-> err])
  /\ UNCHANGED <<choice, system, cfgd, recorded, closed, history>>

\* The device is closed: a kernel link goes at once, a userspace one later.  A
\* device that was not created may be closed without an effect.
CloseTun(c) ==
  /\ InPc(c, "close", "tun")
  /\ \/ /\ Goto(c, [call[c] EXCEPT !.pc = "wait"])
        /\ peers' = NoPeers
        /\ dev' = FALSE
        /\ link' = (link /\ kind = "usp")
        /\ addr' = IF link' THEN addr ELSE {}
     \/ /\ Goto(c, [call[c] EXCEPT !.pc = "wait", !.err = TRUE])
        /\ UNCHANGED system
     \/ /\ ~cfgd
        /\ Goto(c, [call[c] EXCEPT !.pc = "wait"])
        /\ UNCHANGED system
  /\ UNCHANGED <<choice, cfgd, recorded, closed, history>>

\* The kernel removes the link of a userspace device that was closed.
TunRemoved ==
  /\ kind = "usp"
  /\ link
  /\ ~dev
  /\ Deleted
  /\ UNCHANGED <<choice, cfgd, mu, call, recorded, closed, history>>

\* Mutant of TimedOut: Close returns without Destroy.
TimedOutReturns(c) ==
  /\ link
  /\ Returns(c, Result(call[c].err))
  /\ UNCHANGED blind

\* The link was still there when the five seconds were over.
TimedOut(c) ==
  /\ link
  /\ Goto(c, [call[c] EXCEPT !.pc = "destroy"])
  /\ UNCHANGED <<blind, closed>>

\* The interface is gone, or the lookup fails: both are a *net.OpError.
waitUntilRemoved(c) ==
  /\ InPc(c, "close", "wait")
  /\ \/ /\ Returns(c, Result(call[c].err))
        /\ blind' = (blind \/ link)
     \/ TimedOut(c)
  /\ UNCHANGED <<choice, system, cfgd, recorded, lost>>

\* The link is deleted, or it cannot be, or is not found any more.
Destroy(c) ==
  /\ InPc(c, "close", "destroy")
  /\ \/ /\ link
        /\ Deleted
        /\ Returns(c, Result(call[c].err))
     \/ /\ Returns(c, "err")
        /\ UNCHANGED system
  /\ UNCHANGED <<choice, cfgd, recorded, history>>

-----------------------------------------------------------------------------
\* A link of an earlier run may have the name, with its peers and its address.
Init ==
  /\ phase = "new"
  /\ kind = "none"
  /\ mods \in [Mods -> Statuses]
  /\ \A m \in Range(Deps) : mods[m] # "builtin"
  /\ todo = <<>>
  /\ \/ link = FALSE /\ addr = {} /\ peers = NoPeers
     \/ link = TRUE /\ addr \in {{a} : a \in Addrs} /\ peers \in OldPeers
  /\ dev = FALSE
  /\ cfgd = FALSE
  /\ mu = NoCaller
  /\ call = [c \in Callers |-> Idle]
  /\ recorded = {}
  /\ closed = "no"
  /\ blind = FALSE
  /\ lost = {}

Probe ==
  \/ NewWGIFace
  \/ CanCreateFake
  \/ WireGuardModuleIsLoaded
  \/ ModuleTunIsLoaded
  \/ NoModulePath
  \/ tryToLoadModule
  \/ LoadFails
  \/ loadModule

Step(c) ==
  \/ Create(c) \/ LinkAdd(c) \/ setMTU(c) \/ UpdateAddr(c)
  \/ AddrDel(c) \/ AddrAdd(c) \/ LinkSetUp(c) \/ ConfigureInterface(c) \/ AssignFails(c)
  \/ UpdatePeer(c) \/ AddAllowedIP(c) \/ RemovePeer(c)
  \/ RemoveEndpointAddress(c) \/ RemoveForReAdd(c) \/ ReAdd(c)
  \/ RemoveAllowedIP(c) \/ ReplaceAllowedIPs(c)
  \/ Close(c) \/ CloseTun(c) \/ waitUntilRemoved(c) \/ Destroy(c)

Next ==
  \/ Probe
  \/ OtherLoader
  \/ \E c \in Callers : Step(c)
  \/ OtherAdds
  \/ LinkVanishes
  \/ TunRemoved

Spec == Init /\ [][Next]_vars

-----------------------------------------------------------------------------
(* Properties.                                                             *)

\* The userspace configurer keeps no address of a peer that the device no longer
\* has (usp.go: UpdatePeer, RemovePeer), except for one that was lost when
\* RemoveEndpointAddress could not add it again.
RecorderFollows ==
  Userspace /\ HasDevice =>
    \A k \in recorded : k \in DOMAIN peers \cup lost
                        \/ \E c \in Callers : InPc(c, "endpoint", "add") /\ call[c].key = k

\* When Close returns without an error the link is gone (iface.go: Close,
\* waitUntilRemoved, Destroy), whatever failed and however late the kernel
\* removed it, unless a failing lookup was taken for a removed interface.
ClosedMeansGone == closed = "ok" /\ ~blind => ~link

\* The peers as another caller of WGIface may rely on them: the one that
\* RemoveEndpointAddress is adding again is there.
ReAdded == {c \in Callers : InPc(c, "endpoint", "add")}
View ==
  LET back == {call[c].key : c \in ReAdded}
      ips(k) == UNION {call[c].ips : c \in {d \in ReAdded : call[d].key = k}}
  IN  [k \in DOMAIN peers \cup back |->
         IF k \in DOMAIN peers THEN peers[k] ELSE [ips |-> ips(k), ep |-> FALSE, keep |-> FALSE]]

Opened == cfgd /\ HasDevice
Moving == {c \in Callers : In(c, "address")}

Table == INSTANCE Tunnel WITH
  strict <- kind = "kernel",
  open   <- Opened,
  addr   <- IF ~Opened THEN {} ELSE IF Moving = {} THEN addr
            ELSE UNION {call[c].was : c \in Moving},
  peers  <- IF Opened THEN View ELSE NoPeers

\* To its callers the interface is one table of peers and one address: the calls
\* that read, remove, re-add and replace in several steps take effect in one, a
\* new interface has no peers of an old link, and no call of another goroutine
\* is lost (iface.go: mu; kernel_unix.go, usp.go).
ImplementsTunnel == Table!ASpec
=============================================================================
