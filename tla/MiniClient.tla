------------------------------ MODULE MiniClient ------------------------------
(***************************************************************************)
(* The minimal Go client (go/miniclient): up, down and status, each a      *)
(* process that loads the configuration file, works on its copy, and saves *)
(* it.  up registers with the Management Service, or makes up a peer if it *)
(* cannot be reached, and applies the configuration with ip and wg if it   *)
(* runs as root; down only changes the file.  Processes know of each other *)
(* only through the file and the one interface it names.  One action is    *)
(* one call or shell command with the code up to the next; a process may   *)
(* be killed between any two.                                              *)
(*                                                                         *)
(* External: the kernel and the Management Service.  The address and the   *)
(* routes of the interface, whose commands' results are not looked at, the *)
(* URLs and the setup key are left out.                                    *)
(***************************************************************************)
EXTENDS Integers

CONSTANTS
  Procs,      \* processes, used again for one command after another
  MaxKeys     \* bound: private keys generated

ASSUME MaxKeysAssumption == MaxKeys \in Nat \ {0}

VARIABLES
  pc, prog,   \* what each process does next, and the command it runs
  cfg,        \* its copy of the configuration
  file,       \* what ReadFile and Unmarshal find: see Files
  link,       \* the interface in the kernel
  made,       \* keys generated so far; the next is made + 1
  registered, \* keys the Management Service has registered
  \* History:
  stale,      \* stale[p]: the file was saved since p loaded it, or was not whole
              \* or could not be read then
  lost,       \* see KeyKept
  kept,       \* the first key that was saved
  said,       \* said[p]: p's last command was an up as root that returned nil
  clean       \* clean[p]: since p loaded the file nobody else changed a thing

history  == <<stale, lost, kept, said, clean>>
miniVars == <<pc, prog, cfg, file, link, made, registered, history>>

NoKey   == 0
Keys    == NoKey..MaxKeys
Peers   == {"none", "demo", "real"}
Configs == [key : Keys, peers : Peers]
Default == [key |-> NoKey, peers |-> "none"]
Missing == [state |-> "missing", cfg |-> Default]
Torn    == [state |-> "torn", cfg |-> Default]
Whole(c) == [state |-> "whole", cfg |-> c]
Files   == [state : {"missing", "torn", "whole"}, cfg : Configs]
Links   == [exists : BOOLEAN, up : BOOLEAN, key : Keys, peers : SUBSET Peers]
NoLink  == [exists |-> FALSE, up |-> FALSE, key |-> NoKey, peers |-> {}]
Progs   == {"up", "upUser", "down", "status"}   \* upUser: up, not as root
PCs     == {"idle", "load", "serverKey", "login", "sync", "apply", "linkAdd", "wgSet",
            "setPeers", "linkUp", "open", "write"}

MiniTypeOK ==
  /\ pc \in [Procs -> PCs]
  /\ prog \in [Procs -> Progs \cup {"none"}]
  /\ cfg \in [Procs -> Configs]
  /\ file \in Files
  /\ link \in Links
  /\ ~link.exists => link = NoLink
  /\ made \in Keys
  /\ registered \subseteq Keys
  /\ stale \in [Procs -> BOOLEAN]
  /\ lost \in BOOLEAN
  /\ kept \in Keys
  /\ said \in [Procs -> BOOLEAN]
  /\ clean \in [Procs -> BOOLEAN]

-----------------------------------------------------------------------------
Goto(p, from, to) == pc[p] = from /\ pc' = [pc EXCEPT ![p] = to]

\* The process ends, and its copy of the configuration is gone.
Ends(p, from) ==
  /\ Goto(p, from, "idle")
  /\ prog' = [prog EXCEPT ![p] = "none"]
  /\ cfg' = [cfg EXCEPT ![p] = Default]

\* The command returns an error, or is killed.
Fails(p) ==
  /\ pc[p] # "idle"
  /\ Ends(p, pc[p])
  /\ stale' = [stale EXCEPT ![p] = FALSE]
  /\ UNCHANGED <<file, link, made, registered, lost, kept, said, clean>>

SetCfg(p, c) == cfg' = [cfg EXCEPT ![p] = c]

Disturbs(p) == clean' = [q \in Procs |-> clean[q] /\ q = p]

\* The command changes the interface to l.
Link(p, l) == link' = l /\ Disturbs(p) /\ UNCHANGED <<stale, lost, kept, said>>

Begin(p, g) ==
  /\ Goto(p, "idle", "load")
  /\ prog' = [prog EXCEPT ![p] = g]
  /\ said' = [said EXCEPT ![p] = FALSE]
  /\ UNCHANGED <<cfg, file, link, made, registered, stale, lost, kept, clean>>

\* loadOrDefault: whatever keeps the file from being read and parsed, the
\* configuration is then the default one: the file is missing or torn, or it is
\* whole and ReadFile fails.
Loaded(read) == IF read /\ file.state = "whole" THEN file.cfg ELSE Default

\* up goes on to register with what was loaded.
runUp(p, c) == Goto(p, "load", "serverKey") /\ SetCfg(p, c)

\* down forgets the peers and saves; it leaves the interface alone.
runDown(p, c) == Goto(p, "load", "open") /\ SetCfg(p, [c EXCEPT !.peers = "none"])

Load(p) ==
  \E read \in BOOLEAN :
    /\ \/ prog[p] \in {"up", "upUser"} /\ runUp(p, Loaded(read))
       \/ prog[p] = "down" /\ runDown(p, Loaded(read))
    /\ stale' = [stale EXCEPT ![p] = file.state = "torn" \/ (file.state = "whole" /\ ~read)]
    /\ clean' = [clean EXCEPT ![p] = TRUE]
    /\ UNCHANGED <<prog, file, link, made, registered, lost, kept, said>>

\* runStatus loads the file and shows it.
Status(p) ==
  /\ prog[p] = "status"
  /\ Ends(p, "load")
  /\ UNCHANGED <<file, link, made, registered, history>>

-----------------------------------------------------------------------------
(* ManagementClient.Register.                                              *)

\* fallbackStub: the server cannot be dialled or asked for its key.
FallBack(p) ==
  /\ Goto(p, "serverKey", "apply")
  /\ SetCfg(p, [cfg[p] EXCEPT !.peers = "demo"])
  /\ UNCHANGED <<prog, file, link, made, registered, history>>

\* Mutant of ensureKey: a key is generated every time.
ensureKeyAnew(p) ==
  /\ made < MaxKeys
  /\ made' = made + 1
  /\ SetCfg(p, [cfg[p] EXCEPT !.key = made + 1])

\* A key in the configuration is used; without one, one is generated.
ensureKey(p) ==
  \/ cfg[p].key # NoKey /\ UNCHANGED <<cfg, made>>
  \/ /\ cfg[p].key = NoKey
     /\ made < MaxKeys
     /\ made' = made + 1
     /\ SetCfg(p, [cfg[p] EXCEPT !.key = made + 1])

GetServerKey(p) ==
  /\ Goto(p, "serverKey", "login")
  /\ ensureKey(p)
  /\ UNCHANGED <<prog, file, link, registered, history>>

\* The server registers the key, also if its answer is lost or not understood.
Login(p) ==
  /\ \/ Goto(p, "login", "sync") /\ UNCHANGED <<prog, cfg, history>>
     \/ /\ Ends(p, "login")
        /\ stale' = [stale EXCEPT ![p] = FALSE]
        /\ UNCHANGED <<lost, kept, said, clean>>
  /\ registered' = registered \cup {cfg[p].key}
  /\ UNCHANGED <<file, link, made>>

\* One update is awaited; without it up goes on with no peers.
syncOnce(p) ==
  /\ Goto(p, "sync", "apply")
  /\ \E peers \in {"none", "real"} : SetCfg(p, [cfg[p] EXCEPT !.peers = peers])
  /\ UNCHANGED <<prog, file, link, made, registered, history>>

-----------------------------------------------------------------------------
(* WGApplier.Apply.                                                        *)

Apply(p) ==
  /\ Goto(p, "apply", IF prog[p] = "up" THEN "linkAdd" ELSE "open")
  /\ ensureKey(p)
  /\ UNCHANGED <<prog, file, link, registered, history>>

\* A failure is taken for an interface that exists already.
LinkAdd(p) ==
  /\ Goto(p, "linkAdd", "wgSet")
  /\ \/ ~link.exists /\ Link(p, [NoLink EXCEPT !.exists = TRUE])
     \/ UNCHANGED <<link, history>>
  /\ UNCHANGED <<prog, cfg, file, made, registered>>

\* Mutant of WgSet: the key is not set on an interface that has one.
WgSetOnce(p) ==
  /\ link.exists
  /\ Goto(p, "wgSet", "setPeers")
  /\ Link(p, IF link.key = NoKey THEN [link EXCEPT !.key = cfg[p].key] ELSE link)
  /\ UNCHANGED <<prog, cfg, file, made, registered>>

\* The key goes through a temporary file, which may not be written.
WgSet(p) ==
  /\ link.exists
  /\ Goto(p, "wgSet", "setPeers")
  /\ Link(p, [link EXCEPT !.key = cfg[p].key])
  /\ UNCHANGED <<prog, cfg, file, made, registered>>

\* The demo peer's key is none, and wg refuses it.
SetPeers(p) ==
  /\ cfg[p].peers = "real" => link.exists
  /\ cfg[p].peers # "demo"
  /\ Goto(p, "setPeers", "linkUp")
  /\ IF cfg[p].peers = "real"
       THEN Link(p, [link EXCEPT !.peers = @ \cup {"real"}])
       ELSE UNCHANGED <<link, history>>
  /\ UNCHANGED <<prog, cfg, file, made, registered>>

LinkUp(p) ==
  /\ link.exists
  /\ Goto(p, "linkUp", "open")
  /\ Link(p, [link EXCEPT !.up = TRUE])
  /\ UNCHANGED <<prog, cfg, file, made, registered>>

-----------------------------------------------------------------------------
(* saveConfig: os.WriteFile empties the file and then writes it.           *)

\* What the others have loaded is no longer what the file has.
Overtakes(p) ==
  stale' = [q \in Procs |-> IF q = p THEN stale[p] /\ pc'[p] # "idle"
                            ELSE stale[q] \/ pc[q] \notin {"idle", "load"}]

Open(p) ==
  /\ Goto(p, "open", "write")
  /\ file' = Torn
  /\ Overtakes(p)
  /\ lost' = (lost \/ stale[p])
  /\ Disturbs(p)
  /\ UNCHANGED <<prog, cfg, link, made, registered, kept, said>>

\* Two processes may write at once; the file then is that of the last one.
Write(p) ==
  /\ Ends(p, "write")
  /\ file' = Whole(cfg[p])
  /\ kept' = IF kept = NoKey THEN cfg[p].key ELSE kept
  /\ said' = [said EXCEPT ![p] = prog[p] = "up"]
  /\ Disturbs(p)
  /\ Overtakes(p)
  /\ lost' = (lost \/ stale[p])
  /\ UNCHANGED <<link, made, registered>>

-----------------------------------------------------------------------------
\* Someone deletes the interface: ip link del, a reboot.
LinkGoes ==
  /\ link.exists
  /\ link' = NoLink
  /\ clean' = [p \in Procs |-> FALSE]
  /\ UNCHANGED <<pc, prog, cfg, file, made, registered, stale, lost, kept, said>>

MiniInit ==
  /\ pc = [p \in Procs |-> "idle"]
  /\ prog = [p \in Procs |-> "none"]
  /\ cfg = [p \in Procs |-> Default]
  /\ file = Missing
  /\ link = NoLink
  /\ made = 0
  /\ registered = {}
  /\ stale = [p \in Procs |-> FALSE]
  /\ lost = FALSE
  /\ kept = NoKey
  /\ said = [p \in Procs |-> FALSE]
  /\ clean = [p \in Procs |-> FALSE]

Register(p) == FallBack(p) \/ GetServerKey(p) \/ Login(p) \/ syncOnce(p)

\* Engine.Start, a step at a time.
Start(p) ==
  \/ Register(p)
  \/ Apply(p) \/ LinkAdd(p) \/ WgSet(p) \/ SetPeers(p) \/ LinkUp(p)

MiniNext ==
  \/ \E p \in Procs :
       \/ \E g \in Progs : Begin(p, g)
       \/ Load(p) \/ Status(p) \/ Start(p) \/ Open(p) \/ Write(p)
       \/ Fails(p)
  \/ LinkGoes

MiniSpec == MiniInit /\ [][MiniNext]_miniVars

-----------------------------------------------------------------------------
(* Properties.                                                             *)

\* The first private key that was saved stays the client's key, whatever
\* command runs, fails or is killed, with three exceptions: a command saved the
\* default configuration that it had made of a file that was not whole (another
\* was saving it, or had been killed while it did), or of a whole file that
\* could not be read, or saved over what another had saved since it loaded the
\* file.
KeyKept == file.state = "whole" /\ ~lost => file.cfg.key = kept

\* When up has returned, as root, and nobody else has worked on the file or the
\* interface since it loaded the file, the interface is up with the key that
\* the file has, and that key is registered if the peers are real.
UpWorks ==
  \A p \in Procs : said[p] /\ clean[p] =>
    /\ link.up
    /\ file.state = "whole"
    /\ link.key = file.cfg.key
    /\ file.cfg.peers = "real" => link.key \in registered
=============================================================================
