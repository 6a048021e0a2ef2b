------------------------------- MODULE CClient -------------------------------
(***************************************************************************)
(* The C client (c/src): the commands up, down, status and add-peer, a     *)
(* program that uses nb_engine_start_with_mgmt and nb_engine_stop, and the *)
(* two key tools, all run by processes that know of each other only        *)
(* through the one network interface their configuration names.  A process *)
(* works by shell commands, one after the other; between any two of them   *)
(* other processes work on the same interface, and the process may be      *)
(* killed.  One action here is one shell command with the C code up to the *)
(* next.                                                                   *)
(*                                                                         *)
(* The interface keeps who added it, whether it is up and has its address, *)
(* whose key it has, its peers and whether it has routes.  A command fails *)
(* when the interface is not in the state it needs, and otherwise at most  *)
(* MaxFaults times, as do allocations and writes of temporary files.       *)
(* External: the kernel (ip, wg, iptables), which drops addresses, peers   *)
(* and routes with their interface.                                        *)
(***************************************************************************)
EXTENDS Integers

CONSTANTS
  Procs,       \* processes, used again for one command after another
  NoLink,      \* the interface does not exist
  Nobody,      \* no process
  MaxFaults    \* bound: commands, writes and allocations that just fail

ASSUME ProcsAssumption == Nobody \notin Procs
ASSUME MaxFaultsAssumption == MaxFaults \in Nat

VARIABLES
  config,      \* what config_load finds: see Configs
  pc, prog,    \* what each process does next, and the program it runs
  created, up, \* wg_iface_t.created and .up of its interface
  link,        \* the interface in the kernel, or NoLink
  keyFiles,    \* the processes whose last temporary file with a private key exists
  faults,
  \* History:
  adrift,      \* those whose file nobody can remove: see KeyFileGone
  left,        \* the interface was left behind: see LinkAccounted
  intact       \* intact[p]: no other process has changed p's interface

iface   == <<created, up>>
history == <<left, intact>>
files   == <<keyFiles, adrift>>
vars    == <<config, pc, prog, iface, link, files, faults, history>>

Configs  == {"missing", "torn", "noKey", "good"}
Engines  == {"up", "mgmt"}
Commands == {"down", "status", "addPeer"}
Tools    == {"pubkey", "genkey"}
Links    == [by : Procs \cup {Nobody}, up : BOOLEAN, addr : BOOLEAN,
             key : Procs \cup {Nobody}, peers : SUBSET {"mgmt", "manual"},
             routes : BOOLEAN]
ASSUME NoLinkAssumption == NoLink \notin Links

PCs == {"idle", "load", "register", "linkAdd", "linkShow", "addrAdd", "keyFile",
        "wgSet", "unlink", "unlinkError", "error", "linkUp", "destroy", "routeMgr",
        "addPeer", "addRoute", "started", "running", "stopRoutes", "stopDown",
        "stopDel", "downShow", "downDel", "statusShow", "peerSet", "privFile",
        "pubFile", "wgPubkey", "unlinkPriv", "genFile", "wgGenkey", "readKey"}

TypeOK ==
  /\ config \in Configs
  /\ pc \in [Procs -> PCs]
  /\ prog \in [Procs -> Engines \cup Commands \cup Tools \cup {"none"}]
  /\ created \in [Procs -> BOOLEAN]
  /\ up \in [Procs -> BOOLEAN]
  /\ \A p \in Procs : up[p] => created[p]
  /\ link \in Links \cup {NoLink}
  /\ keyFiles \subseteq Procs
  /\ adrift \subseteq Procs
  /\ faults \in 0..MaxFaults
  /\ left \in BOOLEAN
  /\ intact \in [Procs -> BOOLEAN]

-----------------------------------------------------------------------------
(* Parts of the steps.                                                     *)

\* exec_cmd: a command that could succeed may fail all the same.
Fault       == faults < MaxFaults /\ faults' = faults + 1
Refused(ok) == IF ok THEN Fault ELSE UNCHANGED faults

Goto(p, from, to) == pc[p] = from /\ pc' = [pc EXCEPT ![p] = to]

\* The process changes the interface to l: the others can no longer rely on
\* theirs, if it is a process that may do so.
Changes(p, l) ==
  /\ link' = l
  /\ intact' = [q \in Procs |->
       intact[q] /\ (q = p \/ ~(created[p] \/ prog[p] \in Commands))]

\* The command returns and the process ends.
Exit(p, from) ==
  /\ Goto(p, from, "idle")
  /\ prog' = [prog EXCEPT ![p] = "none"]
  /\ created' = [created EXCEPT ![p] = FALSE]
  /\ up' = [up EXCEPT ![p] = FALSE]
  /\ UNCHANGED config

\* The process that added the interface is gone.
Orphaned(p) == IF link # NoLink /\ link.by = p THEN [link EXCEPT !.by = Nobody] ELSE link

\* ip link del: the process does not look at the result.
Delete(p) ==
  \/ /\ link # NoLink
     /\ Changes(p, NoLink)
     /\ left' = FALSE
     /\ UNCHANGED faults
  \/ /\ Refused(link # NoLink)
     /\ link' = Orphaned(p)
     /\ left' = (link # NoLink /\ (left \/ created[p]))
     /\ UNCHANGED intact

\* wg_iface_update_peer: one wg set, for an interface found by its name.
UpdatePeer(p, peer) ==
  \/ /\ link # NoLink
     /\ Changes(p, [link EXCEPT !.peers = @ \cup {peer}])
     /\ UNCHANGED faults
  \/ /\ Refused(link # NoLink)
     /\ UNCHANGED <<link, intact>>

\* wg_iface_remove_peer, when it succeeds.
DropPeer(p, peer) ==
  /\ link # NoLink
  /\ Changes(p, [link EXCEPT !.peers = @ \ {peer}])

\* A temporary file with a private key, whose path the process has.
Create(p) == keyFiles' = keyFiles \cup {p} /\ adrift' = adrift \ {p}

\* write_temp_file, when it reports success: it does so too when nb_strdup fails
\* and there is no path.
write_temp_file(p) ==
  \/ Create(p) /\ UNCHANGED faults
  \/ Fault /\ keyFiles' = keyFiles \cup {p} /\ adrift' = adrift \cup {p}

\* unlink of the path, which does nothing without one.
Remove(p) == keyFiles' = keyFiles \ ({p} \ adrift) /\ UNCHANGED adrift

-----------------------------------------------------------------------------
(* Every program.                                                          *)

Begin(p, g) ==
  /\ Goto(p, "idle", IF g = "pubkey" THEN "privFile"
                     ELSE IF g = "genkey" THEN "genFile" ELSE "load")
  /\ prog' = [prog EXCEPT ![p] = g]
  /\ UNCHANGED <<config, iface, link, files, faults, history>>

\* config_load and the checks after it: a missing file gives a configuration
\* without a key, except to the commands that look for the file first.
Loads(p) == config \in IF prog[p] \in Engines THEN {"good"} ELSE {"noKey", "good"}

Load(p) ==
  /\ Loads(p)
  /\ Goto(p, "load", CASE prog[p] = "up"      -> "linkAdd"
                       [] prog[p] = "mgmt"    -> "register"
                       [] prog[p] = "down"    -> "downShow"
                       [] prog[p] = "status"  -> "statusShow"
                       [] prog[p] = "addPeer" -> "peerSet")
  /\ UNCHANGED <<config, prog, iface, link, files, faults, history>>

LoadFails(p) ==
  /\ Exit(p, "load")
  /\ Refused(Loads(p))
  /\ UNCHANGED <<link, files, history>>

\* A signal before the handlers are installed, SIGKILL, a crash.  A key file
\* stays behind.
Kill(p) ==
  /\ pc[p] # "idle"
  /\ Exit(p, pc[p])
  /\ link' = Orphaned(p)
  /\ left' = (left \/ (link # NoLink /\ created[p]))
  /\ adrift' = adrift \cup (keyFiles \cap {p})
  /\ UNCHANGED <<keyFiles, faults, intact>>

-----------------------------------------------------------------------------
(* wg_iface_create.                                                        *)

Holds(p) == created' = [created EXCEPT ![p] = TRUE] /\ UNCHANGED up

LinkAdd(p) ==
  /\ link = NoLink
  /\ Goto(p, "linkAdd", "addrAdd")
  /\ Holds(p)
  /\ link' = [by |-> p, up |-> FALSE, addr |-> FALSE, key |-> Nobody, peers |-> {},
              routes |-> FALSE]
  /\ intact' = [q \in Procs |-> q = p]
  /\ UNCHANGED <<config, prog, files, faults, left>>

LinkAddFails(p) ==
  /\ Refused(link = NoLink)
  /\ Goto(p, "linkAdd", "linkShow")
  /\ UNCHANGED <<config, prog, iface, link, files, history>>

\* An interface that exists is used as it is, whoever made it.
LinkShow(p) ==
  /\ link # NoLink
  /\ Goto(p, "linkShow", "addrAdd")
  /\ Holds(p)
  /\ intact' = [q \in Procs |-> q = p]
  /\ UNCHANGED <<config, prog, link, files, faults, left>>

LinkShowFails(p) ==
  /\ Refused(link # NoLink)
  /\ Goto(p, "linkShow", "error")
  /\ UNCHANGED <<config, prog, iface, link, files, history>>

\* A failure is taken for an address that was there already.
AddrAdd(p) ==
  /\ Goto(p, "addrAdd", "keyFile")
  /\ \/ /\ link # NoLink /\ ~link.addr
        /\ Changes(p, [link EXCEPT !.addr = TRUE])
        /\ UNCHANGED faults
     \/ /\ Refused(link # NoLink /\ ~link.addr)
        /\ UNCHANGED <<link, intact>>
  /\ UNCHANGED <<config, prog, iface, files, left>>

KeyFile(p) ==
  /\ Goto(p, "keyFile", "wgSet")
  /\ write_temp_file(p)
  /\ UNCHANGED <<config, prog, iface, link, left, intact>>

\* The file is removed again when the write is short.
KeyFileFails(p) ==
  /\ Goto(p, "keyFile", "error")
  /\ Fault
  /\ UNCHANGED <<config, prog, iface, link, files, history>>

\* Without a path the command names no file, and the shell refuses it.
WgSet(p) ==
  /\ link # NoLink /\ p \notin adrift
  /\ Goto(p, "wgSet", "unlink")
  /\ Changes(p, [link EXCEPT !.key = p])
  /\ UNCHANGED <<config, prog, iface, files, faults, left>>

WgSetFails(p) ==
  /\ Refused(link # NoLink /\ p \notin adrift)
  /\ Goto(p, "wgSet", "unlinkError")
  /\ UNCHANGED <<config, prog, iface, link, files, history>>

\* Mutant of Unlink: the file is removed only when the command succeeded.
UnlinkAfterSuccess(p) ==
  /\ \/ Goto(p, "unlink", "linkUp") /\ Remove(p)
     \/ Goto(p, "unlinkError", "error") /\ UNCHANGED files
  /\ UNCHANGED <<config, prog, iface, link, faults, history>>

\* The file goes before the result of wg set is looked at.
Unlink(p) ==
  /\ \/ Goto(p, "unlink", "linkUp")
     \/ Goto(p, "unlinkError", "error")
  /\ Remove(p)
  /\ UNCHANGED <<config, prog, iface, link, faults, history>>

\* Mutant of Error: the interface is deleted whether it was created or not.
ErrorDeletes(p) ==
  /\ Exit(p, "error")
  /\ Delete(p)
  /\ UNCHANGED files

\* The error label: delete the interface, if this call created or took it.
Error(p) ==
  /\ Exit(p, "error")
  /\ IF created[p] THEN Delete(p) ELSE UNCHANGED <<link, faults, history>>
  /\ UNCHANGED files

-----------------------------------------------------------------------------
(* nb_engine_start and nb_engine_start_with_mgmt, after wg_iface_create.   *)

Register(p) ==
  /\ Goto(p, "register", "linkAdd")
  /\ UNCHANGED <<config, prog, iface, link, files, faults, history>>

RegisterFails(p) ==
  /\ Exit(p, "register")
  /\ Fault
  /\ UNCHANGED <<link, files, history>>

\* wg_iface_up
LinkUp(p) ==
  /\ link # NoLink
  /\ Goto(p, "linkUp", "routeMgr")
  /\ up' = [up EXCEPT ![p] = TRUE]
  /\ Changes(p, [link EXCEPT !.up = TRUE])
  /\ UNCHANGED <<config, prog, created, files, faults, left>>

\* Mutant of LinkUpFails: the interface is not destroyed.
LinkUpFailsKeeps(p) ==
  /\ Refused(link # NoLink)
  /\ Exit(p, "linkUp")
  /\ UNCHANGED <<link, files, history>>

LinkUpFails(p) ==
  /\ Refused(link # NoLink)
  /\ Goto(p, "linkUp", "destroy")
  /\ UNCHANGED <<config, prog, iface, link, files, history>>

\* wg_iface_destroy of an interface that never came up.
Destroy(p) ==
  /\ Exit(p, "destroy")
  /\ Delete(p)
  /\ UNCHANGED files

RouteManagerNew(p) ==
  /\ Goto(p, "routeMgr", IF prog[p] = "up" THEN "started" ELSE "addPeer")
  /\ UNCHANGED <<config, prog, iface, link, files, faults, history>>

\* nb_engine_stop returns at once, because running is not yet set: the
\* interface stays, up and configured.
RouteManagerFails(p) ==
  /\ Exit(p, "routeMgr")
  /\ Fault
  /\ link' = Orphaned(p)
  /\ left' = (left \/ link # NoLink)
  /\ UNCHANGED <<files, intact>>

\* Peers and routes of the registration; failures are only logged.
AddPeer(p) ==
  /\ Goto(p, "addPeer", "addRoute")
  /\ UpdatePeer(p, "mgmt")
  /\ UNCHANGED <<config, prog, iface, files, left>>

AddRoute(p) ==
  /\ Goto(p, "addRoute", "running")
  /\ \/ /\ link # NoLink /\ link.up
        /\ Changes(p, [link EXCEPT !.routes = TRUE])
        /\ UNCHANGED faults
     \/ /\ Refused(link # NoLink /\ link.up)
        /\ UNCHANGED <<link, intact>>
  /\ UNCHANGED <<config, prog, iface, files, left>>

\* cmd_up installs its handlers only now.
Installed(p) ==
  /\ Goto(p, "started", "running")
  /\ UNCHANGED <<config, prog, iface, link, files, faults, history>>

\* nb_engine_remove_peer
RemovePeer(p) ==
  /\ prog[p] = "mgmt"
  /\ pc[p] = "running"
  /\ DropPeer(p, "mgmt")
  /\ UNCHANGED <<config, pc, prog, iface, files, faults, left>>

-----------------------------------------------------------------------------
(* nb_engine_stop, from the signal handler or called.                      *)

Stop(p) ==
  /\ Goto(p, "running", "stopRoutes")
  /\ UNCHANGED <<config, prog, iface, link, files, faults, history>>

StopRoutes(p) ==
  /\ Goto(p, "stopRoutes", "stopDown")
  /\ \/ /\ link # NoLink
        /\ Changes(p, [link EXCEPT !.routes = FALSE])
        /\ UNCHANGED faults
     \/ /\ Refused(link # NoLink)
        /\ UNCHANGED <<link, intact>>
  /\ UNCHANGED <<config, prog, iface, files, left>>

\* wg_iface_down, whose result wg_iface_destroy does not look at.  The kernel
\* drops the routes of an interface that goes down.
StopDown(p) ==
  /\ Goto(p, "stopDown", "stopDel")
  /\ \/ /\ link # NoLink
        /\ up' = [up EXCEPT ![p] = FALSE]
        /\ Changes(p, [link EXCEPT !.up = FALSE, !.routes = FALSE])
        /\ UNCHANGED faults
     \/ /\ Refused(link # NoLink)
        /\ UNCHANGED <<link, intact, up>>
  /\ UNCHANGED <<config, prog, created, files, left>>

StopDel(p) ==
  /\ Exit(p, "stopDel")
  /\ Delete(p)
  /\ UNCHANGED files

-----------------------------------------------------------------------------
(* The other commands.  down takes the interface away from a running up.   *)

DownShow(p) ==
  /\ link # NoLink
  /\ Goto(p, "downShow", "downDel")
  /\ UNCHANGED <<config, prog, iface, link, files, faults, history>>

DownShowFails(p) ==
  /\ Refused(link # NoLink)
  /\ Exit(p, "downShow")
  /\ UNCHANGED <<link, files, history>>

DownDel(p) ==
  /\ Exit(p, "downDel")
  /\ Delete(p)
  /\ UNCHANGED files

\* cmd_status only looks.
Status(p) ==
  /\ Exit(p, "statusShow")
  /\ UNCHANGED <<link, files, faults, history>>

PeerSet(p) ==
  /\ Exit(p, "peerSet")
  /\ UpdatePeer(p, "manual")
  /\ UNCHANGED <<files, left>>

\* wg_get_public_key: a file for the private key, one for the public key, wg
\* pubkey from one to the other; the private one goes before the result of
\* the command is looked at.
PrivFile(p) ==
  /\ \/ /\ Goto(p, "privFile", "pubFile") /\ UNCHANGED <<config, prog, iface>>
        /\ write_temp_file(p)
     \/ Exit(p, "privFile") /\ Fault /\ UNCHANGED files
  /\ UNCHANGED <<link, history>>

PubFile(p) ==
  /\ \/ Goto(p, "pubFile", "wgPubkey") /\ UNCHANGED <<config, prog, iface, files, faults>>
     \/ Exit(p, "pubFile") /\ Fault /\ Remove(p)
  /\ UNCHANGED <<link, history>>

WgPubkey(p) ==
  /\ Goto(p, "wgPubkey", "unlinkPriv")
  /\ UNCHANGED <<config, prog, iface, link, files, faults, history>>

UnlinkPriv(p) ==
  /\ Exit(p, "unlinkPriv")
  /\ Remove(p)
  /\ UNCHANGED <<link, faults, history>>

\* wg_generate_private_key: the key is in the file from wg genkey on, until it
\* has been read or could not be read.
GenFile(p) ==
  /\ \/ Goto(p, "genFile", "wgGenkey") /\ UNCHANGED <<config, prog, iface, faults>>
     \/ Exit(p, "genFile") /\ Fault
  /\ UNCHANGED <<link, files, history>>

WgGenkey(p) ==
  /\ \/ Goto(p, "wgGenkey", "readKey") /\ Create(p)
        /\ UNCHANGED <<config, prog, iface, faults>>
     \/ Exit(p, "wgGenkey") /\ Fault /\ UNCHANGED files
  /\ UNCHANGED <<link, history>>

ReadKey(p) ==
  /\ Exit(p, "readKey")
  /\ Remove(p)
  /\ UNCHANGED <<link, faults, history>>

-----------------------------------------------------------------------------
Init ==
  /\ config \in Configs
  /\ pc = [p \in Procs |-> "idle"]
  /\ prog = [p \in Procs |-> "none"]
  /\ created = [p \in Procs |-> FALSE]
  /\ up = [p \in Procs |-> FALSE]
  /\ link = NoLink
  /\ keyFiles = {}
  /\ adrift = {}
  /\ faults = 0
  /\ left = FALSE
  /\ intact = [p \in Procs |-> FALSE]

wg_iface_create(p) ==
  \/ LinkAdd(p) \/ LinkAddFails(p) \/ LinkShow(p) \/ LinkShowFails(p)
  \/ AddrAdd(p) \/ KeyFile(p) \/ KeyFileFails(p)
  \/ WgSet(p) \/ WgSetFails(p) \/ Unlink(p) \/ Error(p)

nb_engine_start(p) ==
  \/ Register(p) \/ RegisterFails(p)
  \/ LinkUp(p) \/ LinkUpFails(p) \/ Destroy(p)
  \/ RouteManagerNew(p) \/ RouteManagerFails(p)
  \/ AddPeer(p) \/ AddRoute(p) \/ Installed(p)

nb_engine_stop(p) == Stop(p) \/ StopRoutes(p) \/ StopDown(p) \/ StopDel(p)

keyTools(p) ==
  \/ PrivFile(p) \/ PubFile(p) \/ WgPubkey(p) \/ UnlinkPriv(p)
  \/ GenFile(p) \/ WgGenkey(p) \/ ReadKey(p)

Next ==
  \E p \in Procs :
    \/ \E g \in Engines \cup Commands \cup Tools : Begin(p, g)
    \/ Load(p) \/ LoadFails(p) \/ Kill(p)
    \/ wg_iface_create(p)
    \/ nb_engine_start(p)
    \/ RemovePeer(p)
    \/ nb_engine_stop(p)
    \/ DownShow(p) \/ DownShowFails(p) \/ DownDel(p)
    \/ Status(p)
    \/ PeerSet(p)
    \/ keyTools(p)

Spec == Init /\ [][Next]_vars

-----------------------------------------------------------------------------
(* Properties.                                                             *)

\* The interface exists only while some process answers for it and will
\* delete it, except after a kill, a failed deletion, or a start that failed
\* at its very end, where nb_engine_stop does nothing.
LinkAccounted == link # NoLink => left \/ \E p \in Procs : created[p]

\* A temporary file with a private key exists only while the call that needs
\* it runs, on every error path of wg_iface_create and the key tools, with two
\* exceptions: its process was killed, or nb_strdup had no memory for its path,
\* which write_temp_file takes for success, so that unlink has nothing to remove.
KeyFileGone ==
  \A p \in keyFiles \ adrift : pc[p] \in {"wgSet", "unlink", "unlinkError", "pubFile",
                                           "wgPubkey", "unlinkPriv", "readKey"}

\* When up or the management program has reported success, and no process
\* that may do so has changed the interface since, the interface is up with
\* that process's key and has its address (unless a command failed: the
\* address is not checked); a process that made the interface itself finds
\* no peer on it that an earlier user left.
Working ==
  \A p \in Procs : pc[p] = "running" /\ intact[p] =>
    /\ link # NoLink
    /\ link.up
    /\ link.key = p
    /\ link.addr \/ faults > 0
    /\ link.by = p => link.peers \subseteq IF prog[p] = "mgmt" THEN {"mgmt"} ELSE {}
=============================================================================
