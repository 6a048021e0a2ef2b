---------------------------- MODULE CClientProofs ----------------------------
(***************************************************************************)
(* TypeOK, LinkAccounted, KeyFileGone and Working of the C client, for any *)
(* number of processes and failures.  What makes Working hard is that a    *)
(* process never asks whether the interface is still the one it set up.    *)
(***************************************************************************)
EXTENDS CClient, TLAPS

\* Where wg_iface_t.created is set; at "error" it may be.
Held == {"addrAdd", "keyFile", "wgSet", "unlink", "unlinkError", "linkUp", "destroy",
         "routeMgr", "addPeer", "addRoute", "started", "running", "stopRoutes",
         "stopDown", "stopDel"}
\* The way of a start from its first use of the interface to its success, and
\* from where on it has the address (or a command failed), the key, and is up.
Starting  == {"addrAdd", "keyFile", "wgSet", "unlink", "linkUp", "routeMgr", "addPeer",
              "addRoute", "started", "running"}
Addressed == Starting \ {"addrAdd"}
Keyed     == Addressed \ {"keyFile", "wgSet"}
IsUp      == Keyed \ {"unlink", "linkUp"}

CreatedWhere ==
  \A p \in Procs : /\ pc[p] \in Held => created[p]
                   /\ created[p] => pc[p] \in Held \cup {"error"}

\* Where a program of each kind may be.
EngineAt  == Held \cup {"register", "linkAdd", "linkShow", "error"}
CommandAt == {"downShow", "downDel", "statusShow", "peerSet"}
ProgAllows(g, at) ==
  /\ at = "load" => g \in Engines \cup Commands
  /\ at \in EngineAt => g \in Engines
  /\ at \in {"addPeer", "addRoute"} => g = "mgmt"
  /\ at \in CommandAt => g \in Commands
ProgWhere == \A p \in Procs : ProgAllows(prog[p], pc[p])

\* The process that added the interface still holds it.
OwnerLives == link # NoLink => \A p \in Procs : link.by = p => created[p]

\* What a start has done so far to the interface l, if nobody interfered.
Done(p, at, g, l, f) ==
  /\ l # NoLink
  /\ at \in Addressed => l.addr \/ f > 0
  /\ at \in Keyed => l.key = p
  /\ at \in IsUp => l.up
  /\ l.by = p => l.peers \subseteq IF g = "mgmt" THEN {"mgmt"} ELSE {}
Progress ==
  \A p \in Procs : pc[p] \in Starting /\ intact[p] => Done(p, pc[p], prog[p], link, faults)

\* The key files whose path their process has.
Known == keyFiles \ adrift
\* The files stay those of processes.
FilesType == keyFiles \subseteq Procs /\ adrift \subseteq Procs

\* Where they may exist.
KeyAt == {"wgSet", "unlink", "unlinkError", "pubFile", "wgPubkey", "unlinkPriv", "readKey"}
KnownAt == \A p \in Known : pc[p] \in KeyAt

IInv ==
  /\ TypeOK
  /\ CreatedWhere
  /\ ProgWhere
  /\ OwnerLives
  /\ Progress
  /\ LinkAccounted
  /\ KnownAt

\* For the process q, who is not the one that changes l to m, nothing is lost.
KeptFor(q, l, m) ==
  l # NoLink => /\ m # NoLink
                /\ l.addr => m.addr
                /\ l.up => m.up
                /\ m.key = l.key
                /\ m.peers = l.peers
                /\ m.by = q => l.by = q

\* A fault is counted, or there is none.
MayFault == faults' = faults \/ (faults < MaxFaults /\ faults' = faults + 1)

-----------------------------------------------------------------------------
(* Steps of the same shape.                                                *)

\* What the steps do to the files.
LEMMA FilesKept ==
  ASSUME IInv, UNCHANGED files
  PROVE  FilesType' /\ Known' = Known
BY DEF IInv, TypeOK, files, FilesType, Known

\* A new file with a path is p's.
LEMMA FileCreated ==
  ASSUME IInv, NEW p \in Procs, Create(p)
  PROVE  FilesType' /\ Known' = Known \cup {p}
BY DEF IInv, TypeOK, Create, FilesType, Known

\* write_temp_file makes a file, whose path p has if nb_strdup did not fail.
LEMMA FileWritten ==
  ASSUME IInv, NEW p \in Procs, write_temp_file(p)
  PROVE  FilesType' /\ Known' \subseteq Known \cup {p} /\ MayFault
BY DEF IInv, TypeOK, write_temp_file, Create, Fault, MayFault, FilesType, Known

\* A file whose path p has is removed.
LEMMA FileRemoved ==
  ASSUME IInv, NEW p \in Procs, Remove(p)
  PROVE  FilesType' /\ Known' = Known \ {p}
BY DEF IInv, TypeOK, Remove, FilesType, Known

\* What a step of p has to establish, for p and for the others.
LEMMA StepInv ==
  ASSUME IInv, TypeOK', NEW p \in Procs,
         \A q \in Procs \ {p} : pc'[q] = pc[q] /\ prog'[q] = prog[q] /\ created'[q] = created[q],
         pc'[p] \in Held => created'[p],
         created'[p] => pc'[p] \in Held \cup {"error"},
         ProgAllows(prog'[p], pc'[p]),
         link' # NoLink /\ link'.by = p => created'[p],
         \A q \in Procs \ {p} : link' # NoLink /\ link'.by = q => link # NoLink /\ link.by = q,
         pc'[p] \in Starting /\ intact'[p] => Done(p, pc'[p], prog'[p], link', faults'),
         \A q \in Procs \ {p} : intact'[q] => intact[q] /\ KeptFor(q, link, link'),
         faults > 0 => faults' > 0,
         link' # NoLink => left' \/ created'[p] \/ \E q \in Procs \ {p} : created[q],
         Known' \subseteq Known \cup {p},
         p \in Known' => pc'[p] \in KeyAt
  PROVE  IInv'
<1> USE DEF IInv
<1>1. CreatedWhere'
  BY DEF CreatedWhere
<1>2. ProgWhere'
  BY DEF ProgWhere, ProgAllows
<1>3. OwnerLives'
  BY DEF OwnerLives
<1>4. Progress'
  <2> SUFFICES ASSUME NEW q \in Procs, pc'[q] \in Starting, intact'[q]
               PROVE  Done(q, pc'[q], prog'[q], link', faults')
    BY DEF Progress, Done
  <2>1. CASE q = p
    BY <2>1
  <2>2. CASE q # p
    <3>1. /\ pc'[q] = pc[q] /\ prog'[q] = prog[q] /\ KeptFor(q, link, link')
          /\ Done(q, pc[q], prog[q], link, faults)
      BY <2>2 DEF Progress
    <3> QED BY <3>1 DEF Done, KeptFor
  <2> QED BY <2>1, <2>2
<1>5. LinkAccounted'
  BY DEF LinkAccounted
<1>6. KnownAt'
  <2> SUFFICES ASSUME NEW q \in Known'
               PROVE  pc'[q] \in KeyAt
    BY DEF KnownAt, KeyAt
  <2>1. q \in Procs
    BY DEF TypeOK, Known
  <2>2. CASE q = p
    BY <2>2
  <2>3. CASE q # p
    <3>1. q \in Known /\ pc'[q] = pc[q]
      BY <2>1, <2>3
    <3> QED BY <3>1 DEF KnownAt, KeyAt
  <2> QED BY <2>2, <2>3
<1> QED BY <1>1, <1>2, <1>3, <1>4, <1>5, <1>6

\* The number of faults stays in its bound.
LEMMA FaultType ==
  ASSUME IInv, MayFault
  PROVE  faults' \in 0..MaxFaults /\ (faults > 0 => faults' > 0) /\ faults' \in Nat
BY MaxFaultsAssumption DEF IInv, TypeOK, MayFault

\* The process goes on, and the interface is what it was.
LEMMA MoveStep ==
  ASSUME IInv, NEW p \in Procs, NEW to \in PCs,
         pc' = [pc EXCEPT ![p] = to], pc[p] # "error",
         UNCHANGED <<config, prog, iface, link, history>>,
         MayFault,
         FilesType', Known' \subseteq Known \cup {p}, p \in Known' => to \in KeyAt,
         to \in Held => pc[p] \in Held,
         pc[p] \in Held => to \in Held \cup {"error"},
         ProgAllows(prog[p], to),
         to \in Starting => pc[p] \in Starting,
         to \in Addressed /\ pc[p] \notin Addressed /\ link # NoLink => link.addr \/ faults' > 0,
         to \in Keyed => pc[p] \in Keyed,
         to \in IsUp => pc[p] \in IsUp
  PROVE  IInv'
<1> USE DEF IInv, iface, history
<1>1. /\ pc'[p] = to /\ \A q \in Procs \ {p} : pc'[q] = pc[q]
      /\ pc' \in [Procs -> PCs]
  BY DEF TypeOK
<1>2. TypeOK'
  BY <1>1, FaultType DEF TypeOK, FilesType
<1>3. created[p] => pc[p] \in Held
  BY DEF CreatedWhere
<1>4. link # NoLink => left \/ created[p] \/ \E q \in Procs \ {p} : created[q]
  BY DEF LinkAccounted
<1>5. ASSUME to \in Starting, intact[p]
      PROVE  Done(p, to, prog[p], link, faults')
  <2>1. Done(p, pc[p], prog[p], link, faults)
    BY <1>5 DEF Progress
  <2> QED BY <2>1, FaultType DEF Done
<1>6. \A q \in Procs \ {p} : KeptFor(q, link, link')
  BY DEF KeptFor
<1>7. pc'[p] \in Held => created'[p]
  BY <1>1 DEF CreatedWhere
<1>8. link' # NoLink /\ link'.by = p => created'[p]
  BY DEF OwnerLives
<1> QED BY <1>1, <1>2, <1>3, <1>4, <1>5, <1>6, <1>7, <1>8, FaultType, StepInv

\* The process that holds the interface changes it to l: nobody else relies on
\* it any longer.
LEMMA ChangeStep ==
  ASSUME IInv, NEW p \in Procs, NEW to \in PCs, NEW l \in Links,
         pc' = [pc EXCEPT ![p] = to], link # NoLink, created[p],
         Changes(p, l), l.by = link.by,
         UNCHANGED <<config, prog, created, left, faults, files>>,
         up' \in [Procs -> BOOLEAN], \A q \in Procs : up'[q] => created[q],
         p \in Known => to \in KeyAt,
         to \in Held,
         ProgAllows(prog[p], to),
         to \in Starting =>
           /\ pc[p] \in Starting
           /\ link.addr => l.addr
           /\ l.peers \subseteq link.peers \cup (IF prog[p] = "mgmt" THEN {"mgmt"} ELSE {}),
         to \in Addressed => pc[p] \in Addressed \/ l.addr,
         to \in Keyed => (pc[p] \in Keyed /\ l.key = link.key) \/ l.key = p,
         to \in IsUp => (pc[p] \in IsUp /\ (link.up => l.up)) \/ l.up
  PROVE  IInv'
<1> USE DEF IInv
<1>1. /\ pc'[p] = to /\ \A q \in Procs \ {p} : pc'[q] = pc[q]
      /\ pc' \in [Procs -> PCs]
  BY DEF TypeOK
<1>2. /\ link' = l /\ l # NoLink
      /\ intact' \in [Procs -> BOOLEAN] /\ (intact'[p] => intact[p])
      /\ \A q \in Procs \ {p} : ~intact'[q]
  BY NoLinkAssumption DEF Changes, TypeOK
<1>3. TypeOK' /\ Known' = Known
  BY <1>1, <1>2, FilesKept DEF TypeOK, FilesType
<1>4. ASSUME to \in Starting, intact'[p]
      PROVE  Done(p, to, prog[p], l, faults)
  <2>1. Done(p, pc[p], prog[p], link, faults)
    BY <1>2, <1>4 DEF Progress
  <2> QED BY <1>2, <1>4, <2>1 DEF Done, Addressed, Keyed, IsUp
<1>5. \A q \in Procs : l.by = q => created[q]
  BY DEF OwnerLives
<1> QED BY <1>1, <1>2, <1>3, <1>4, <1>5, StepInv

\* The process of an Exit is at rest.
LEMMA ExitFacts ==
  ASSUME IInv, NEW p \in Procs, Exit(p, pc[p])
  PROVE  /\ pc'[p] = "idle" /\ ~created'[p] /\ prog'[p] = "none"
         /\ \A q \in Procs \ {p} : pc'[q] = pc[q] /\ prog'[q] = prog[q] /\ created'[q] = created[q]
         /\ ProgAllows(prog'[p], pc'[p]) /\ pc'[p] \notin Held \cup Starting
         /\ pc' \in [Procs -> PCs] /\ created' \in [Procs -> BOOLEAN] /\ up' \in [Procs -> BOOLEAN]
         /\ prog' \in [Procs -> Engines \cup Commands \cup Tools \cup {"none"}]
         /\ \A q \in Procs : up'[q] => created'[q]
         /\ config' \in Configs
<1>1. /\ pc'[p] = "idle" /\ ~created'[p] /\ prog'[p] = "none" /\ ~up'[p]
      /\ \A q \in Procs \ {p} : /\ pc'[q] = pc[q] /\ prog'[q] = prog[q]
                                /\ created'[q] = created[q] /\ up'[q] = up[q]
  BY DEF IInv, TypeOK, Exit, Goto
<1>2. /\ pc' \in [Procs -> PCs] /\ created' \in [Procs -> BOOLEAN] /\ up' \in [Procs -> BOOLEAN]
      /\ prog' \in [Procs -> Engines \cup Commands \cup Tools \cup {"none"}]
      /\ config' \in Configs
  BY DEF IInv, TypeOK, Exit, Goto, PCs
<1>3. \A q \in Procs : up'[q] => created'[q]
  BY <1>1 DEF IInv, TypeOK
<1>4. ProgAllows(prog'[p], pc'[p]) /\ pc'[p] \notin Held \cup Starting
  BY <1>1 DEF ProgAllows, EngineAt, CommandAt, Held, Starting
<1> QED BY <1>1, <1>2, <1>3, <1>4

\* A process ends that does not hold the interface.
LEMMA QuitStep ==
  ASSUME IInv, NEW p \in Procs, Exit(p, pc[p]), ~created[p],
         UNCHANGED <<link, history>>, MayFault,
         FilesType', Known' \subseteq Known, p \notin Known'
  PROVE  IInv'
<1> USE DEF IInv, history
<1>1. TypeOK'
  BY ExitFacts, FaultType DEF TypeOK, FilesType
<1>2. link # NoLink => left \/ \E q \in Procs \ {p} : created[q]
  BY DEF LinkAccounted
<1>3. \A q \in Procs \ {p} : KeptFor(q, link, link')
  BY DEF KeptFor
<1>4. link' # NoLink => link'.by # p
  BY DEF OwnerLives
<1> QED BY <1>1, <1>2, <1>3, <1>4, ExitFacts, FaultType, StepInv

\* The interface stays behind.
LEMMA OrphanFacts ==
  ASSUME IInv, NEW p \in Procs
  PROVE  /\ Orphaned(p) \in Links \cup {NoLink}
         /\ Orphaned(p) # NoLink => link # NoLink /\ Orphaned(p).by # p
         /\ \A q \in Procs \ {p} : KeptFor(q, link, Orphaned(p))
         /\ \A q \in Procs \ {p} : Orphaned(p) # NoLink /\ Orphaned(p).by = q => link.by = q
<1>1. CASE link # NoLink /\ link.by = p
  <2>1. link \in Links /\ Orphaned(p) = [link EXCEPT !.by = Nobody]
    BY <1>1 DEF IInv, TypeOK, Orphaned
  <2>2. /\ Orphaned(p) \in Links /\ Orphaned(p).by = Nobody
        /\ Orphaned(p).addr = link.addr /\ Orphaned(p).up = link.up
        /\ Orphaned(p).key = link.key /\ Orphaned(p).peers = link.peers
    BY <2>1 DEF Links
  <2> QED BY <1>1, <2>2, ProcsAssumption, NoLinkAssumption DEF KeptFor
<1>2. CASE ~(link # NoLink /\ link.by = p)
  <2>1. Orphaned(p) = link
    BY <1>2 DEF Orphaned
  <2> QED BY <1>2, <2>1 DEF IInv, TypeOK, KeptFor
<1> QED BY <1>1, <1>2

\* A process ends and leaves the interface behind, which left remembers if it
\* was the one that held it.
LEMMA OrphanStep ==
  ASSUME IInv, NEW p \in Procs, Exit(p, pc[p]),
         link' = Orphaned(p), left' \in BOOLEAN,
         link # NoLink /\ (left \/ created[p]) => left',
         UNCHANGED intact, MayFault,
         FilesType', Known' \subseteq Known, p \notin Known'
  PROVE  IInv'
<1> USE DEF IInv
<1>1. TypeOK'
  BY ExitFacts, FaultType, OrphanFacts DEF TypeOK, FilesType
<1>2. link' # NoLink => left' \/ \E q \in Procs \ {p} : created[q]
  BY OrphanFacts DEF LinkAccounted
<1>3. /\ \A q \in Procs \ {p} : KeptFor(q, link, link')
      /\ link' # NoLink => link # NoLink /\ link'.by # p
      /\ \A q \in Procs \ {p} : link' # NoLink /\ link'.by = q => link # NoLink /\ link.by = q
  BY OrphanFacts
<1> QED BY <1>1, <1>2, <1>3, ExitFacts, FaultType, StepInv

\* A process ends after ip link del, which may have failed.
LEMMA DeleteStep ==
  ASSUME IInv, NEW p \in Procs, Exit(p, pc[p]), Delete(p),
         created[p] \/ prog[p] \in Commands,
         UNCHANGED files, p \notin Known
  PROVE  IInv'
<1>1. CASE link' = NoLink /\ Changes(p, NoLink) /\ left' = FALSE /\ UNCHANGED faults
  <2>1. /\ intact' \in [Procs -> BOOLEAN]
        /\ \A q \in Procs \ {p} : ~intact'[q]
    BY <1>1 DEF Changes, IInv, TypeOK
  <2>2. left' \in BOOLEAN
    BY <1>1, Zenon
  <2>3. TypeOK' /\ Known' = Known
    BY <1>1, <2>1, <2>2, ExitFacts, FilesKept DEF TypeOK, IInv, FilesType
  <2> QED BY <1>1, <2>1, <2>3, ExitFacts, StepInv
<1>2. CASE /\ Refused(link # NoLink) /\ link' = Orphaned(p) /\ UNCHANGED intact
           /\ left' = (link # NoLink /\ (left \/ created[p]))
  <2>1. left' \in BOOLEAN /\ (link # NoLink /\ (left \/ created[p]) => left')
    BY <1>2
  <2>2. MayFault
    BY <1>2 DEF Refused, Fault, MayFault
  <2> QED BY <1>2, <2>1, <2>2, OrphanStep, FilesKept
<1> QED BY <1>1, <1>2 DEF Delete, Changes

-----------------------------------------------------------------------------
(* The steps.                                                              *)

\* A program begins, without the interface.
LEMMA BeginStep ==
  ASSUME IInv, NEW p \in Procs, NEW g \in Engines \cup Commands \cup Tools, Begin(p, g)
  PROVE  IInv'
<1> USE DEF IInv, iface, history
<1>1. /\ pc[p] = "idle" /\ prog' = [prog EXCEPT ![p] = g]
      /\ UNCHANGED <<config, iface, link, files, faults, history>>
  BY DEF Begin, Goto
<1>2. \E to \in {"privFile", "genFile", "load"} :
         pc' = [pc EXCEPT ![p] = to] /\ (to = "load" => g \notin Tools)
  BY DEF Begin, Goto, Tools
<1>3. /\ pc'[p] \in {"privFile", "genFile", "load"} /\ pc' \in [Procs -> PCs]
      /\ pc'[p] = "load" => g \notin Tools
      /\ \A q \in Procs \ {p} : pc'[q] = pc[q]
  BY <1>2 DEF TypeOK, PCs
<1>4. /\ prog' \in [Procs -> Engines \cup Commands \cup Tools \cup {"none"}] /\ prog'[p] = g
      /\ \A q \in Procs \ {p} : prog'[q] = prog[q]
  BY <1>1 DEF TypeOK
<1>5. TypeOK' /\ Known' = Known
  BY <1>1, <1>3, <1>4, FilesKept DEF TypeOK, FilesType
<1>6. ~created[p] /\ p \notin Known
  BY <1>1 DEF CreatedWhere, Held, KnownAt, KeyAt
<1>7. pc'[p] \notin Held \cup Starting /\ ProgAllows(prog'[p], pc'[p])
  BY <1>3, <1>4 DEF ProgAllows, EngineAt, CommandAt, Held, Starting
<1>8. link # NoLink => left \/ \E q \in Procs \ {p} : created[q]
  BY <1>6 DEF LinkAccounted
<1>9. \A q \in Procs \ {p} : KeptFor(q, link, link')
  BY <1>1 DEF KeptFor
<1>10. link' # NoLink /\ link'.by = p => created'[p]
  BY <1>1 DEF OwnerLives
<1> QED BY <1>1, <1>3, <1>4, <1>5, <1>6, <1>7, <1>8, <1>9, <1>10, StepInv

\* config_load succeeds: the program goes its way.
LEMMA LoadStep ==
  ASSUME IInv, NEW p \in Procs, Load(p)
  PROVE  IInv'
<1>1. /\ pc[p] = "load"
      /\ UNCHANGED <<config, prog, iface, link, files, faults, history>>
  BY DEF Load, Goto
<1>2. prog[p] \in Engines \cup Commands
  BY <1>1 DEF IInv, ProgWhere, ProgAllows
<1>3. \E to \in {"linkAdd", "register", "downShow", "statusShow", "peerSet"} :
         /\ pc' = [pc EXCEPT ![p] = to]
         /\ to \in {"linkAdd", "register"} => prog[p] \in Engines
         /\ to \notin {"linkAdd", "register"} => prog[p] \in Commands
  <2>1. CASE prog[p] = "up"
    BY <2>1 DEF Load, Goto, Engines
  <2>2. CASE prog[p] = "mgmt"
    BY <2>2 DEF Load, Goto, Engines
  <2>3. CASE prog[p] = "down"
    BY <2>3 DEF Load, Goto, Commands
  <2>4. CASE prog[p] = "status"
    BY <2>4 DEF Load, Goto, Commands
  <2>5. CASE prog[p] = "addPeer"
    BY <2>5 DEF Load, Goto, Commands
  <2> QED BY <1>2, <2>1, <2>2, <2>3, <2>4, <2>5 DEF Engines, Commands
<1>4. PICK to \in {"linkAdd", "register", "downShow", "statusShow", "peerSet"} :
         /\ pc' = [pc EXCEPT ![p] = to]
         /\ to \in {"linkAdd", "register"} => prog[p] \in Engines
         /\ to \notin {"linkAdd", "register"} => prog[p] \in Commands
  BY <1>3
<1>5. to \in PCs /\ to \notin Held \cup Starting \cup {"load"} /\ pc[p] \notin Held
  BY <1>1 DEF PCs, Held, Starting
<1>6. ProgAllows(prog[p], to)
  BY <1>4 DEF ProgAllows, EngineAt, CommandAt, Held
<1>7. p \notin Known
  BY <1>1 DEF IInv, KnownAt, KeyAt
<1> QED BY <1>1, <1>4, <1>5, <1>6, <1>7, MoveStep, FilesKept DEF MayFault, Addressed, Keyed, IsUp

\* The processes that end without holding the interface: the checks of every
\* program, and the key tools.
EndsFree(p) ==
  \/ LoadFails(p) \/ RegisterFails(p) \/ DownShowFails(p) \/ Status(p)
  \/ UnlinkPriv(p) \/ ReadKey(p)
  \/ Error(p) /\ ~created[p]

\* A command that ends without having made the interface: nothing it
\* answered for is left, and the key tools have removed their file.
LEMMA EndsFreeStep ==
  ASSUME IInv, NEW p \in Procs, EndsFree(p)
  PROVE  IInv'
<1>1. /\ Exit(p, pc[p])
      /\ pc[p] \in {"load", "register", "downShow", "statusShow", "unlinkPriv", "readKey", "error"}
      /\ pc[p] = "error" => ~created[p]
      /\ UNCHANGED <<link, history>> /\ MayFault
      /\ \/ UNCHANGED files /\ pc[p] \notin {"unlinkPriv", "readKey"}
         \/ Remove(p)
  <2>1. CASE LoadFails(p) \/ RegisterFails(p) \/ DownShowFails(p)
    BY <2>1 DEF LoadFails, RegisterFails, DownShowFails, Exit, Goto, Refused, Fault, MayFault
  <2>2. CASE Status(p) \/ UnlinkPriv(p) \/ ReadKey(p)
    BY <2>2 DEF Status, UnlinkPriv, ReadKey, Exit, Goto, MayFault
  <2>3. CASE Error(p) /\ ~created[p]
    BY <2>3 DEF Error, Exit, Goto, MayFault
  <2> QED BY <2>1, <2>2, <2>3 DEF EndsFree
<1>2. ~created[p]
  BY <1>1 DEF IInv, CreatedWhere, Held
<1>3. FilesType' /\ Known' \subseteq Known /\ p \notin Known'
  BY <1>1, FilesKept, FileRemoved DEF IInv, KnownAt, KeyAt
<1> QED BY <1>1, <1>2, <1>3, QuitStep

\* The process deletes the interface it holds, or that it was told to delete.
LEMMA DeletesStep ==
  ASSUME IInv, NEW p \in Procs,
         Destroy(p) \/ StopDel(p) \/ DownDel(p) \/ (Error(p) /\ created[p])
  PROVE  IInv'
<1>1. /\ Exit(p, pc[p]) /\ Delete(p) /\ UNCHANGED files
      /\ pc[p] \in {"destroy", "stopDel", "downDel", "error"}
      /\ pc[p] = "error" => created[p]
  <2>1. CASE Destroy(p)
    BY <2>1 DEF Destroy, Exit, Goto
  <2>2. CASE StopDel(p)
    BY <2>2 DEF StopDel, Exit, Goto
  <2>3. CASE DownDel(p)
    BY <2>3 DEF DownDel, Exit, Goto
  <2>4. CASE Error(p) /\ created[p]
    BY <2>4 DEF Error, Exit, Goto
  <2> QED BY <2>1, <2>2, <2>3, <2>4
<1>2. created[p] \/ prog[p] \in Commands
  BY <1>1 DEF IInv, CreatedWhere, ProgWhere, ProgAllows, CommandAt, Held
<1>3. p \notin Known
  BY <1>1 DEF IInv, KnownAt, KeyAt
<1> QED BY <1>1, <1>2, <1>3, DeleteStep

\* The process is killed, or ends after nb_engine_stop did nothing.
LEMMA LeavesStep ==
  ASSUME IInv, NEW p \in Procs, Kill(p) \/ RouteManagerFails(p)
  PROVE  IInv'
<1>1. CASE Kill(p)
  <2>1. /\ Exit(p, pc[p]) /\ link' = Orphaned(p) /\ UNCHANGED <<faults, intact>>
    BY <1>1 DEF Kill
  <2>2. left' \in BOOLEAN /\ (link # NoLink /\ (left \/ created[p]) => left')
    BY <1>1 DEF Kill, IInv, TypeOK
  <2>3. FilesType' /\ Known' = Known \ {p}
    BY <1>1 DEF Kill, IInv, TypeOK, FilesType, Known
  <2> QED BY <2>1, <2>2, <2>3, OrphanStep DEF MayFault
<1>2. CASE RouteManagerFails(p)
  <2>1. /\ Exit(p, pc[p]) /\ pc[p] = "routeMgr" /\ link' = Orphaned(p) /\ MayFault
        /\ UNCHANGED <<files, intact>>
    BY <1>2 DEF RouteManagerFails, Exit, Goto, Fault, MayFault
  <2>2. left' \in BOOLEAN /\ (link # NoLink /\ (left \/ created[p]) => left')
    BY <1>2 DEF RouteManagerFails, IInv, TypeOK
  <2>3. p \notin Known
    BY <2>1 DEF IInv, KnownAt, KeyAt
  <2> QED BY <2>1, <2>2, <2>3, OrphanStep, FilesKept
<1> QED BY <1>1, <1>2

\* add-peer changes whatever interface it finds.
LEMMA PeerSetStep ==
  ASSUME IInv, NEW p \in Procs, PeerSet(p)
  PROVE  IInv'
<1>1. Exit(p, pc[p]) /\ pc[p] = "peerSet" /\ UNCHANGED <<files, left>>
  BY DEF PeerSet, Exit, Goto
<1>2. ~created[p] /\ p \notin Known /\ prog[p] \in Commands
  BY <1>1 DEF IInv, CreatedWhere, Held, KnownAt, KeyAt, ProgWhere, ProgAllows, CommandAt
<1>3. CASE link # NoLink /\ Changes(p, [link EXCEPT !.peers = @ \cup {"manual"}]) /\ UNCHANGED faults
  <2>1. /\ link' = [link EXCEPT !.peers = @ \cup {"manual"}] /\ link \in Links
        /\ intact' \in [Procs -> BOOLEAN]
        /\ \A q \in Procs \ {p} : ~intact'[q]
    BY <1>2, <1>3 DEF Changes, IInv, TypeOK
  <2>2. link' \in Links /\ link'.by = link.by
    BY <2>1 DEF Links
  <2>3. TypeOK' /\ Known' = Known
    BY <1>1, <1>3, <2>1, <2>2, ExitFacts, FilesKept DEF IInv, TypeOK, FilesType
  <2>4. link.by # p /\ (left \/ \E q \in Procs \ {p} : created[q])
    BY <1>2, <1>3 DEF IInv, OwnerLives, LinkAccounted
  <2> QED BY <1>1, <1>2, <1>3, <2>1, <2>2, <2>3, <2>4, ExitFacts, StepInv
<1>4. CASE Refused(link # NoLink) /\ UNCHANGED <<link, intact>>
  <2>1. MayFault
    BY <1>4 DEF Refused, Fault, MayFault
  <2> QED BY <1>1, <1>2, <1>4, <2>1, QuitStep, FilesKept DEF history
<1> QED BY <1>3, <1>4 DEF PeerSet, UpdatePeer

\* The steps that only move the process, and the commands that fail without
\* being noticed.
Way(from, to) ==
  \/ from = "linkAdd" /\ to = "linkShow"
  \/ from = "linkShow" /\ to = "error"
  \/ from = "addrAdd" /\ to = "keyFile"
  \/ from = "keyFile" /\ to \in {"wgSet", "error"}
  \/ from = "wgSet" /\ to = "unlinkError"
  \/ from = "unlink" /\ to = "linkUp"
  \/ from = "unlinkError" /\ to = "error"
  \/ from = "register" /\ to = "linkAdd"
  \/ from = "linkUp" /\ to = "destroy"
  \/ from = "routeMgr" /\ to \in {"started", "addPeer"}
  \/ from = "addPeer" /\ to = "addRoute"
  \/ from = "addRoute" /\ to = "running"
  \/ from = "started" /\ to = "running"
  \/ from = "running" /\ to = "stopRoutes"
  \/ from = "stopRoutes" /\ to = "stopDown"
  \/ from = "stopDown" /\ to = "stopDel"
  \/ from = "downShow" /\ to = "downDel"
  \/ from = "privFile" /\ to = "pubFile"
  \/ from = "pubFile" /\ to = "wgPubkey"
  \/ from = "wgPubkey" /\ to = "unlinkPriv"
  \/ from = "genFile" /\ to = "wgGenkey"
  \/ from = "wgGenkey" /\ to = "readKey"

\* The way of a program keeps to its places.
LEMMA WayFacts ==
  ASSUME NEW from, NEW to, Way(from, to)
  PROVE  /\ to \in PCs /\ from # "error"
         /\ to \in Held => from \in Held
         /\ from \in Held => to \in Held \cup {"error"}
         /\ to \in Starting => from \in Starting
         /\ to \in Addressed => from \in Addressed \/ from = "addrAdd"
         /\ to \in Keyed => from \in Keyed
         /\ to \in IsUp => from \in IsUp
         /\ \A g : ProgAllows(g, from) /\ (to = "addPeer" => g = "mgmt") => ProgAllows(g, to)
<1>1. to \in PCs /\ from # "error"
  BY DEF Way, PCs
<1>2. (to \in Held => from \in Held) /\ (from \in Held => to \in Held \cup {"error"})
  BY DEF Way, Held
<1>3. to \in Starting => from \in Starting
  BY DEF Way, Starting
<1>4. to \in Addressed => from \in Addressed \/ from = "addrAdd"
  BY DEF Way, Starting, Addressed
<1>5. to \in Keyed => from \in Keyed
  BY DEF Way, Starting, Addressed, Keyed
<1>6. to \in IsUp => from \in IsUp
  BY DEF Way, Starting, Addressed, Keyed, IsUp
<1>7. \A g : ProgAllows(g, from) /\ (to = "addPeer" => g = "mgmt") => ProgAllows(g, to)
  BY DEF Way, ProgAllows, EngineAt, CommandAt, Held
<1> QED BY <1>1, <1>2, <1>3, <1>4, <1>5, <1>6, <1>7

\* A move along the way.
LEMMA WayStep ==
  ASSUME IInv, NEW p \in Procs, NEW to, Way(pc[p], to), pc' = [pc EXCEPT ![p] = to],
         to = "addPeer" => prog[p] = "mgmt",
         UNCHANGED <<config, prog, iface, link, history>>,
         MayFault,
         pc[p] = "addrAdd" /\ link # NoLink => link.addr \/ faults' > 0,
         FilesType', Known' \subseteq Known \cup {p}, p \in Known' => to \in KeyAt
  PROVE  IInv'
<1>1. /\ to \in PCs /\ pc[p] # "error"
      /\ to \in Held => pc[p] \in Held
      /\ pc[p] \in Held => to \in Held \cup {"error"}
      /\ to \in Starting => pc[p] \in Starting
      /\ to \in Addressed => pc[p] \in Addressed \/ pc[p] = "addrAdd"
      /\ to \in Keyed => pc[p] \in Keyed
      /\ to \in IsUp => pc[p] \in IsUp
  BY WayFacts
<1>2. ProgAllows(prog[p], to)
  BY WayFacts DEF IInv, ProgWhere
<1> QED BY <1>1, <1>2, MoveStep

KeyTool(p) == PrivFile(p) \/ PubFile(p) \/ WgPubkey(p) \/ GenFile(p) \/ WgGenkey(p)

\* The key tools before their last step.
LEMMA KeyToolStep ==
  ASSUME IInv, NEW p \in Procs, KeyTool(p)
  PROVE  IInv'
<1>1. ASSUME pc[p] \in {"privFile", "pubFile", "genFile", "wgGenkey"},
             Exit(p, pc[p]), MayFault, UNCHANGED <<link, history>>,
             (UNCHANGED files /\ pc[p] # "pubFile") \/ Remove(p)
      PROVE  IInv'
  <2>1. ~created[p]
    BY <1>1 DEF IInv, CreatedWhere, Held
  <2>2. FilesType' /\ Known' \subseteq Known /\ p \notin Known'
    BY <1>1, FilesKept, FileRemoved DEF IInv, KnownAt, KeyAt
  <2> QED BY <1>1, <2>1, <2>2, QuitStep
<1>2. ASSUME NEW to \in {"pubFile", "wgPubkey", "unlinkPriv", "wgGenkey", "readKey"},
             Goto(p, pc[p], to), Way(pc[p], to),
             UNCHANGED <<config, prog, iface, link, history>>, MayFault, FilesType',
             Known' = Known \/ (Known' \subseteq Known \cup {p} /\ to # "wgGenkey")
      PROVE  IInv'
  <2>1. to = "wgGenkey" => pc[p] = "genFile"
    BY <1>2 DEF Way
  <2>2. p \in Known' => to \in KeyAt
    BY <1>2, <2>1 DEF IInv, KnownAt, KeyAt
  <2>3. pc[p] # "addrAdd" /\ to # "addPeer"
    BY <1>2 DEF Way
  <2>4. pc' = [pc EXCEPT ![p] = to]
    BY <1>2 DEF Goto
  <2> QED BY <1>2, <2>2, <2>3, <2>4, WayStep
<1>3. CASE PrivFile(p)
  <2>1. UNCHANGED <<link, history>>
    BY <1>3 DEF PrivFile
  <2>2. CASE Exit(p, "privFile") /\ Fault /\ UNCHANGED files
    <3>1. pc[p] = "privFile" /\ Exit(p, pc[p]) /\ MayFault
      BY <2>2 DEF Exit, Goto, Fault, MayFault
    <3> QED BY <1>1, <2>1, <2>2, <3>1
  <2>3. CASE /\ Goto(p, "privFile", "pubFile") /\ UNCHANGED <<config, prog, iface>>
            /\ write_temp_file(p)
    <3>1. pc[p] = "privFile" /\ Goto(p, pc[p], "pubFile") /\ Way(pc[p], "pubFile")
      BY <2>3 DEF Goto, Way
    <3> QED BY <1>2, <2>1, <2>3, <3>1, FileWritten
  <2> QED BY <1>3, <2>2, <2>3 DEF PrivFile
<1>4. CASE PubFile(p)
  <2>1. UNCHANGED <<link, history>>
    BY <1>4 DEF PubFile
  <2>2. CASE Exit(p, "pubFile") /\ Fault /\ Remove(p)
    <3>1. pc[p] = "pubFile" /\ Exit(p, pc[p]) /\ MayFault
      BY <2>2 DEF Exit, Goto, Fault, MayFault
    <3> QED BY <1>1, <2>1, <2>2, <3>1
  <2>3. CASE Goto(p, "pubFile", "wgPubkey") /\ UNCHANGED <<config, prog, iface, files, faults>>
    <3>1. pc[p] = "pubFile" /\ Goto(p, pc[p], "wgPubkey") /\ Way(pc[p], "wgPubkey")
      BY <2>3 DEF Goto, Way
    <3> QED BY <1>2, <2>1, <2>3, <3>1, FilesKept DEF MayFault
  <2> QED BY <1>4, <2>2, <2>3 DEF PubFile
<1>5. CASE WgPubkey(p)
  <2>1. /\ pc[p] = "wgPubkey" /\ Goto(p, pc[p], "unlinkPriv")
        /\ UNCHANGED <<config, prog, iface, link, faults, history>> /\ UNCHANGED files
    BY <1>5 DEF WgPubkey, Goto
  <2> QED BY <1>2, <2>1, FilesKept DEF Way, MayFault
<1>6. CASE GenFile(p)
  <2>1. UNCHANGED <<link, history>> /\ UNCHANGED files
    BY <1>6 DEF GenFile
  <2>2. CASE Exit(p, "genFile") /\ Fault
    <3>1. pc[p] = "genFile" /\ Exit(p, pc[p]) /\ MayFault
      BY <2>2 DEF Exit, Goto, Fault, MayFault
    <3> QED BY <1>1, <2>1, <2>2, <3>1
  <2>3. CASE Goto(p, "genFile", "wgGenkey") /\ UNCHANGED <<config, prog, iface, faults>>
    <3>1. pc[p] = "genFile" /\ Goto(p, pc[p], "wgGenkey") /\ Way(pc[p], "wgGenkey")
      BY <2>3 DEF Goto, Way
    <3> QED BY <1>2, <2>1, <2>3, <3>1, FilesKept DEF MayFault
  <2> QED BY <1>6, <2>2, <2>3 DEF GenFile
<1>7. CASE WgGenkey(p)
  <2>1. UNCHANGED <<link, history>>
    BY <1>7 DEF WgGenkey
  <2>2. CASE Exit(p, "wgGenkey") /\ Fault /\ UNCHANGED files
    <3>1. pc[p] = "wgGenkey" /\ Exit(p, pc[p]) /\ MayFault
      BY <2>2 DEF Exit, Goto, Fault, MayFault
    <3> QED BY <1>1, <2>1, <2>2, <3>1
  <2>3. CASE Goto(p, "wgGenkey", "readKey") /\ Create(p) /\ UNCHANGED <<config, prog, iface, faults>>
    <3>1. pc[p] = "wgGenkey" /\ Goto(p, pc[p], "readKey") /\ Way(pc[p], "readKey")
      BY <2>3 DEF Goto, Way
    <3> QED BY <1>2, <2>1, <2>3, <3>1, FileCreated DEF MayFault
  <2> QED BY <1>7, <2>2, <2>3 DEF WgGenkey
<1> QED BY <1>3, <1>4, <1>5, <1>6, <1>7 DEF KeyTool

Moves(p) ==
  \/ LinkAddFails(p) \/ LinkShowFails(p) \/ KeyFile(p) \/ KeyFileFails(p) \/ WgSetFails(p)
  \/ Unlink(p) \/ Register(p) \/ LinkUpFails(p) \/ RouteManagerNew(p) \/ Installed(p)
  \/ Stop(p) \/ DownShow(p)

\* The steps that leave the interface alone.
LEMMA MovesStep ==
  ASSUME IInv, NEW p \in Procs, Moves(p)
  PROVE  IInv'
<1>1. \E to : /\ Goto(p, pc[p], to) /\ Way(pc[p], to) /\ pc[p] # "addrAdd"
              /\ to = "addPeer" => pc[p] = "routeMgr" /\ prog[p] # "up"
              /\ UNCHANGED <<config, prog, iface, link, history>> /\ MayFault
              /\ \/ UNCHANGED files /\ pc[p] \notin {"unlink", "unlinkError"}
                 \/ write_temp_file(p) /\ to = "wgSet"
                 \/ Remove(p)
              /\ pc[p] = "wgSet" => to = "unlinkError"
  <2>1. CASE LinkAddFails(p) \/ LinkShowFails(p)
    BY <2>1 DEF LinkAddFails, LinkShowFails, Goto, Way, Refused, Fault, MayFault, history
  <2>2. CASE KeyFile(p)
    BY <2>2, FileWritten DEF KeyFile, Goto, Way, history
  <2>3. CASE KeyFileFails(p)
    BY <2>3 DEF KeyFileFails, Goto, Way, Fault, MayFault
  <2>4. CASE WgSetFails(p)
    BY <2>4 DEF WgSetFails, Goto, Way, Refused, Fault, MayFault
  <2>5. CASE Unlink(p)
    BY <2>5 DEF Unlink, Goto, Way, MayFault
  <2>6. CASE Register(p) \/ Installed(p) \/ Stop(p) \/ DownShow(p)
    BY <2>6 DEF Register, Installed, Stop, DownShow, Goto, Way, MayFault
  <2>7. CASE LinkUpFails(p)
    BY <2>7 DEF LinkUpFails, Goto, Way, Refused, Fault, MayFault
  <2>8. CASE RouteManagerNew(p)
    BY <2>8 DEF RouteManagerNew, Goto, Way, MayFault
  <2> QED BY <2>1, <2>2, <2>3, <2>4, <2>5, <2>6, <2>7, <2>8 DEF Moves
<1>2. PICK to : /\ Goto(p, pc[p], to) /\ Way(pc[p], to) /\ pc[p] # "addrAdd"
                /\ to = "addPeer" => pc[p] = "routeMgr" /\ prog[p] # "up"
                /\ UNCHANGED <<config, prog, iface, link, history>> /\ MayFault
                /\ \/ UNCHANGED files /\ pc[p] \notin {"unlink", "unlinkError"}
                   \/ write_temp_file(p) /\ to = "wgSet"
                   \/ Remove(p)
                /\ pc[p] = "wgSet" => to = "unlinkError"
  BY <1>1
<1>3. to = "addPeer" => prog[p] = "mgmt"
  BY <1>2 DEF IInv, ProgWhere, ProgAllows, EngineAt, Held, Engines
<1>4. p \in Known /\ pc[p] \notin {"unlink", "unlinkError"} => to \in KeyAt
  <2> SUFFICES ASSUME p \in Known, pc[p] \notin {"unlink", "unlinkError"}
               PROVE  to \in KeyAt
    OBVIOUS
  <2>1. pc[p] \in {"wgSet", "pubFile", "wgPubkey", "unlinkPriv", "readKey"}
    BY DEF IInv, KnownAt, KeyAt
  <2>2. Way(pc[p], to)
    BY <1>2
  <2>3. to \in {"unlinkError", "wgPubkey", "unlinkPriv"}
    BY <2>1, <2>2 DEF Way
  <2> QED BY <2>3 DEF KeyAt
<1>5. pc' = [pc EXCEPT ![p] = to]
  BY <1>2 DEF Goto
<1>6. /\ FilesType' /\ Known' \subseteq Known \cup {p}
      /\ p \in Known' => to \in KeyAt
  BY <1>2, <1>4, FilesKept, FileWritten, FileRemoved DEF KeyAt
<1> QED BY <1>2, <1>3, <1>5, <1>6, WayStep

\* Fields of an interface that is changed.
LEMMA LinkFields ==
  ASSUME NEW l \in Links
  PROVE  /\ \A p \in Procs : LET m == [l EXCEPT !.key = p]
                             IN  /\ m \in Links /\ m.by = l.by /\ m.addr = l.addr /\ m.up = l.up
                                 /\ m.key = p /\ m.peers = l.peers
         /\ LET m == [l EXCEPT !.addr = TRUE]
            IN  /\ m \in Links /\ m.by = l.by /\ m.addr /\ m.up = l.up /\ m.key = l.key
                /\ m.peers = l.peers
         /\ LET m == [l EXCEPT !.up = TRUE]
            IN  /\ m \in Links /\ m.by = l.by /\ m.addr = l.addr /\ m.up /\ m.key = l.key
                /\ m.peers = l.peers
         /\ \A b \in BOOLEAN : LET m == [l EXCEPT !.routes = b]
            IN  /\ m \in Links /\ m.by = l.by /\ m.addr = l.addr /\ m.up = l.up /\ m.key = l.key
                /\ m.peers = l.peers
         /\ \A s \in SUBSET {"mgmt", "manual"} : LET m == [l EXCEPT !.peers = s]
            IN  /\ m \in Links /\ m.by = l.by /\ m.addr = l.addr /\ m.up = l.up /\ m.key = l.key
                /\ m.peers = s
         /\ LET m == [l EXCEPT !.up = FALSE, !.routes = FALSE]
            IN  m \in Links /\ m.by = l.by
BY DEF Links

\* The two ways to get hold of the interface: from now on it is p's business.
LEMMA TakeStep ==
  ASSUME IInv, NEW p \in Procs, LinkAdd(p) \/ LinkShow(p)
  PROVE  IInv'
<1> USE DEF IInv
<1>1. /\ pc[p] \in {"linkAdd", "linkShow"} /\ pc' = [pc EXCEPT ![p] = "addrAdd"]
      /\ created' = [created EXCEPT ![p] = TRUE]
      /\ UNCHANGED <<up, config, prog, files, faults, left>>
  BY DEF LinkAdd, LinkShow, Goto, Holds
<1>2. intact' \in [Procs -> BOOLEAN] /\ \A q \in Procs \ {p} : ~intact'[q]
  BY DEF LinkAdd, LinkShow
<1>3. ~created[p] /\ p \notin Known /\ prog[p] \in Engines
  BY <1>1 DEF CreatedWhere, Held, KnownAt, KeyAt, ProgWhere, ProgAllows, EngineAt
<1>4. /\ link' \in Links /\ link' # NoLink
      /\ link'.by = p => link'.peers = {}
      /\ \A q \in Procs \ {p} : link'.by = q => link # NoLink /\ link.by = q
  <2>1. CASE LinkAdd(p)
    <3>1. link' = [by |-> p, up |-> FALSE, addr |-> FALSE, key |-> Nobody, peers |-> {},
                   routes |-> FALSE]
      BY <2>1 DEF LinkAdd
    <3>2. link' \in Links /\ link'.by = p /\ link'.peers = {}
      BY <3>1 DEF Links
    <3> QED BY <3>2, NoLinkAssumption
  <2>2. CASE LinkShow(p)
    <3>1. link' = link /\ link # NoLink
      BY <2>2 DEF LinkShow
    <3> QED BY <1>3, <3>1 DEF TypeOK, OwnerLives
  <2> QED BY <2>1, <2>2
<1>5. /\ pc'[p] = "addrAdd" /\ created'[p] /\ pc' \in [Procs -> PCs]
      /\ created' \in [Procs -> BOOLEAN]
      /\ \A q \in Procs \ {p} : pc'[q] = pc[q] /\ created'[q] = created[q]
  BY <1>1 DEF TypeOK, PCs
<1>6. TypeOK' /\ Known' = Known
  BY <1>1, <1>2, <1>4, <1>5, FilesKept DEF TypeOK, FilesType
<1>7. ProgAllows(prog[p], "addrAdd") /\ "addrAdd" \in Held
  BY <1>3 DEF ProgAllows, EngineAt, CommandAt, Held
<1>8. Done(p, "addrAdd", prog[p], link', faults)
  BY <1>4 DEF Done, IsUp, Keyed, Addressed, Starting
<1> QED BY <1>1, <1>2, <1>3, <1>4, <1>5, <1>6, <1>7, <1>8, StepInv

\* The commands of a start that change the interface.
LEMMA AddrAddStep ==
  ASSUME IInv, NEW p \in Procs, AddrAdd(p)
  PROVE  IInv'
<1>1. /\ pc[p] = "addrAdd" /\ pc' = [pc EXCEPT ![p] = "keyFile"]
      /\ UNCHANGED <<config, prog, iface, files, left>>
  BY DEF AddrAdd, Goto
<1>2. created[p] /\ p \notin Known /\ ProgAllows(prog[p], "addrAdd")
  BY <1>1 DEF IInv, CreatedWhere, Held, KnownAt, KeyAt, ProgWhere
<1>3. CASE /\ link # NoLink /\ ~link.addr /\ UNCHANGED faults
           /\ Changes(p, [link EXCEPT !.addr = TRUE])
  <2> DEFINE l == [link EXCEPT !.addr = TRUE]
  <2>1. /\ l \in Links /\ l.by = link.by /\ l.addr /\ l.up = link.up /\ l.key = link.key
        /\ l.peers = link.peers
    BY <1>3, LinkFields DEF IInv, TypeOK
  <2>2. /\ "keyFile" \in PCs /\ "keyFile" \in Held /\ "addrAdd" \in Starting
        /\ "keyFile" \notin Keyed /\ "keyFile" \notin IsUp
    BY DEF PCs, Held, Starting, Addressed, Keyed, IsUp
  <2>3. ProgAllows(prog[p], "keyFile")
    BY <1>2 DEF ProgAllows, EngineAt, CommandAt, Held
  <2>4. up' \in [Procs -> BOOLEAN] /\ \A q \in Procs : up'[q] => created[q]
    BY <1>1 DEF IInv, TypeOK, iface
  <2>5. Changes(p, l)
    BY <1>3
  <2> HIDE DEF l
  <2> QED BY <1>1, <1>2, <1>3, <2>1, <2>2, <2>3, <2>4, <2>5, ChangeStep DEF iface
<1>4. CASE Refused(link # NoLink /\ ~link.addr) /\ UNCHANGED <<link, intact>>
  <2>1. MayFault /\ (link # NoLink => link.addr \/ faults' > 0)
    BY <1>4 DEF Refused, Fault, MayFault, IInv, TypeOK
  <2>2. Way(pc[p], "keyFile")
    BY <1>1 DEF Way
  <2> QED BY <1>1, <1>2, <1>4, <2>1, <2>2, WayStep, FilesKept DEF history
<1> QED BY <1>3, <1>4 DEF AddrAdd

\* wg set gives the link the key of the process that runs it; every other
\* process loses its claim to an untouched interface.
LEMMA WgSetStep ==
  ASSUME IInv, NEW p \in Procs, WgSet(p)
  PROVE  IInv'
<1>1. /\ pc[p] = "wgSet" /\ pc' = [pc EXCEPT ![p] = "unlink"] /\ link # NoLink
      /\ Changes(p, [link EXCEPT !.key = p])
      /\ UNCHANGED <<config, prog, iface, files, faults, left>>
  BY DEF WgSet, Goto
<1>2. created[p] /\ ProgAllows(prog[p], "wgSet")
  BY <1>1 DEF IInv, CreatedWhere, Held, ProgWhere
<1> DEFINE l == [link EXCEPT !.key = p]
<1>3. /\ l \in Links /\ l.by = link.by /\ l.addr = link.addr /\ l.up = link.up /\ l.key = p
      /\ l.peers = link.peers
  <2>1. link \in Links
    BY <1>1 DEF IInv, TypeOK
  <2> QED BY <2>1, LinkFields
<1>4. /\ "unlink" \in PCs /\ "unlink" \in Held /\ "wgSet" \in Starting /\ "wgSet" \in Addressed
      /\ "unlink" \notin IsUp /\ "unlink" \in KeyAt
  BY DEF PCs, Held, Starting, Addressed, Keyed, IsUp, KeyAt
<1>5. ProgAllows(prog[p], "unlink")
  BY <1>2 DEF ProgAllows, EngineAt, CommandAt, Held
<1>6. up' \in [Procs -> BOOLEAN] /\ \A q \in Procs : up'[q] => created[q]
  BY <1>1 DEF IInv, TypeOK, iface
<1>7. Changes(p, l)
  BY <1>1
<1> HIDE DEF l
<1> QED BY <1>1, <1>2, <1>3, <1>4, <1>5, <1>6, <1>7, ChangeStep DEF iface

\* ip link set up comes last: the link has the key and the address by then.
LEMMA LinkUpStep ==
  ASSUME IInv, NEW p \in Procs, LinkUp(p)
  PROVE  IInv'
<1>1. /\ pc[p] = "linkUp" /\ pc' = [pc EXCEPT ![p] = "routeMgr"] /\ link # NoLink
      /\ Changes(p, [link EXCEPT !.up = TRUE]) /\ up' = [up EXCEPT ![p] = TRUE]
      /\ UNCHANGED <<config, prog, created, files, faults, left>>
  BY DEF LinkUp, Goto
<1>2. created[p] /\ p \notin Known /\ ProgAllows(prog[p], "linkUp")
  BY <1>1 DEF IInv, CreatedWhere, Held, ProgWhere, KnownAt, KeyAt
<1> DEFINE l == [link EXCEPT !.up = TRUE]
<1>3. /\ l \in Links /\ l.by = link.by /\ l.addr = link.addr /\ l.up /\ l.key = link.key
      /\ l.peers = link.peers
  BY <1>1, LinkFields DEF IInv, TypeOK
<1>4. /\ "routeMgr" \in PCs /\ "routeMgr" \in Held /\ "linkUp" \in Starting
      /\ "linkUp" \in Addressed /\ "linkUp" \in Keyed
  BY DEF PCs, Held, Starting, Addressed, Keyed
<1>5. ProgAllows(prog[p], "routeMgr")
  BY <1>2 DEF ProgAllows, EngineAt, CommandAt, Held
<1>6. up' \in [Procs -> BOOLEAN] /\ \A q \in Procs : up'[q] => created[q]
  BY <1>1, <1>2 DEF IInv, TypeOK
<1>7. Changes(p, l)
  BY <1>1
<1> HIDE DEF l
<1> QED BY <1>1, <1>2, <1>3, <1>4, <1>5, <1>6, <1>7, ChangeStep

\* The peers of the registration.
LEMMA AddPeerStep ==
  ASSUME IInv, NEW p \in Procs, AddPeer(p)
  PROVE  IInv'
<1>1. /\ pc[p] = "addPeer" /\ pc' = [pc EXCEPT ![p] = "addRoute"]
      /\ UNCHANGED <<config, prog, iface, files, left>>
  BY DEF AddPeer, Goto
<1>2. created[p] /\ p \notin Known /\ ProgAllows(prog[p], "addPeer") /\ prog[p] = "mgmt"
  BY <1>1 DEF IInv, CreatedWhere, Held, ProgWhere, ProgAllows, KnownAt, KeyAt
<1>3. CASE link # NoLink /\ UNCHANGED faults /\ Changes(p, [link EXCEPT !.peers = @ \cup {"mgmt"}])
  <2> DEFINE l == [link EXCEPT !.peers = @ \cup {"mgmt"}]
  <2>1. link \in Links /\ link.peers \cup {"mgmt"} \in SUBSET {"mgmt", "manual"}
    BY <1>3 DEF IInv, TypeOK, Links
  <2>2. /\ l \in Links /\ l.by = link.by /\ l.addr = link.addr /\ l.up = link.up
        /\ l.key = link.key /\ l.peers = link.peers \cup {"mgmt"}
    BY <2>1, LinkFields
  <2>3. /\ "addRoute" \in PCs /\ "addRoute" \in Held /\ "addPeer" \in Starting
        /\ "addPeer" \in Addressed /\ "addPeer" \in Keyed /\ "addPeer" \in IsUp
    BY DEF PCs, Held, Starting, Addressed, Keyed, IsUp
  <2>4. ProgAllows(prog[p], "addRoute")
    BY <1>2 DEF ProgAllows, EngineAt, CommandAt, Held
  <2>5. up' \in [Procs -> BOOLEAN] /\ \A q \in Procs : up'[q] => created[q]
    BY <1>1 DEF IInv, TypeOK, iface
  <2>6. Changes(p, l)
    BY <1>3
  <2> HIDE DEF l
  <2> QED BY <1>1, <1>2, <1>3, <2>2, <2>3, <2>4, <2>5, <2>6, ChangeStep DEF iface
<1>4. CASE Refused(link # NoLink) /\ UNCHANGED <<link, intact>>
  <2>1. MayFault /\ Way(pc[p], "addRoute")
    BY <1>1, <1>4 DEF Refused, Fault, MayFault, Way
  <2> QED BY <1>1, <1>2, <1>4, <2>1, WayStep, FilesKept DEF history
<1> QED BY <1>3, <1>4 DEF AddPeer, UpdatePeer

\* The routes of the registration, and their removal.
LEMMA RoutesStep ==
  ASSUME IInv, NEW p \in Procs, AddRoute(p) \/ StopRoutes(p)
  PROVE  IInv'
<1>1. \E to \in {"running", "stopDown"} :
        /\ pc[p] = (IF to = "running" THEN "addRoute" ELSE "stopRoutes")
        /\ pc' = [pc EXCEPT ![p] = to]
  BY DEF AddRoute, StopRoutes, Goto
<1>2. PICK to \in {"running", "stopDown"} :
        /\ pc[p] = (IF to = "running" THEN "addRoute" ELSE "stopRoutes")
        /\ pc' = [pc EXCEPT ![p] = to]
  BY <1>1
<1>3. UNCHANGED <<config, prog, iface, files, left>>
  BY DEF AddRoute, StopRoutes
<1>4. created[p] /\ p \notin Known /\ ProgAllows(prog[p], pc[p])
  BY <1>2 DEF IInv, CreatedWhere, Held, ProgWhere, KnownAt, KeyAt
<1>5. Way(pc[p], to)
  BY <1>2 DEF Way
<1>6. ASSUME NEW b \in BOOLEAN, link # NoLink, UNCHANGED faults,
             Changes(p, [link EXCEPT !.routes = b])
      PROVE  IInv'
  <2> DEFINE l == [link EXCEPT !.routes = b]
  <2>1. link \in Links
    BY <1>6 DEF IInv, TypeOK
  <2>2. /\ l \in Links /\ l.by = link.by /\ l.addr = link.addr /\ l.up = link.up
        /\ l.key = link.key /\ l.peers = link.peers
    BY <2>1, LinkFields
  <2>3. /\ to \in PCs /\ to \in Held
        /\ to \in Starting => pc[p] \in IsUp
        /\ IsUp \subseteq Keyed /\ Keyed \subseteq Addressed /\ Addressed \subseteq Starting
    BY <1>2 DEF PCs, Held, Starting, Addressed, Keyed, IsUp
  <2>4. ProgAllows(prog[p], to)
    BY <1>4, <1>5, WayFacts
  <2>5. up' \in [Procs -> BOOLEAN] /\ \A q \in Procs : up'[q] => created[q]
    BY <1>3 DEF IInv, TypeOK, iface
  <2>6. Changes(p, l)
    BY <1>6
  <2>7. /\ to \in Starting => /\ pc[p] \in Starting /\ (link.addr => l.addr)
                              /\ l.peers \subseteq link.peers
        /\ to \in Addressed => pc[p] \in Addressed
        /\ to \in Keyed => pc[p] \in Keyed /\ l.key = link.key
        /\ to \in IsUp => pc[p] \in IsUp /\ (link.up => l.up)
    BY <2>2, <2>3
  <2> HIDE DEF l
  <2> QED BY <1>2, <1>3, <1>4, <1>6, <2>2, <2>3, <2>4, <2>5, <2>6, <2>7, ChangeStep DEF iface
<1>7. ASSUME NEW ok \in BOOLEAN, Refused(ok), UNCHANGED <<link, intact>>
      PROVE  IInv'
  <2>1. MayFault /\ pc[p] # "addrAdd" /\ to # "addPeer"
    BY <1>2, <1>7 DEF Refused, Fault, MayFault
  <2> QED BY <1>2, <1>3, <1>4, <1>5, <1>7, <2>1, WayStep, FilesKept DEF history
<1>8. CASE AddRoute(p)
  BY <1>6, <1>7, <1>8, Zenon DEF AddRoute
<1>9. CASE StopRoutes(p)
  BY <1>6, <1>7, <1>9, Zenon DEF StopRoutes
<1> QED BY <1>8, <1>9

\* ip link set down.
LEMMA StopDownStep ==
  ASSUME IInv, NEW p \in Procs, StopDown(p)
  PROVE  IInv'
<1>1. /\ pc[p] = "stopDown" /\ pc' = [pc EXCEPT ![p] = "stopDel"]
      /\ UNCHANGED <<config, prog, created, files, left>>
  BY DEF StopDown, Goto
<1>2. created[p] /\ p \notin Known /\ ProgAllows(prog[p], "stopDown")
  BY <1>1 DEF IInv, CreatedWhere, Held, ProgWhere, KnownAt, KeyAt
<1>3. CASE /\ link # NoLink /\ up' = [up EXCEPT ![p] = FALSE] /\ UNCHANGED faults
           /\ Changes(p, [link EXCEPT !.up = FALSE, !.routes = FALSE])
  <2> DEFINE l == [link EXCEPT !.up = FALSE, !.routes = FALSE]
  <2>1. link \in Links
    BY <1>3 DEF IInv, TypeOK
  <2>2. l \in Links /\ l.by = link.by
    BY <2>1, LinkFields
  <2>3. /\ "stopDel" \in PCs /\ "stopDel" \in Held /\ "stopDel" \notin Starting
        /\ "stopDel" \notin Addressed /\ "stopDel" \notin Keyed /\ "stopDel" \notin IsUp
    BY DEF PCs, Held, Starting, Addressed, Keyed, IsUp
  <2>4. ProgAllows(prog[p], "stopDel")
    BY <1>2 DEF ProgAllows, EngineAt, CommandAt, Held
  <2>5. up' \in [Procs -> BOOLEAN] /\ \A q \in Procs : up'[q] => created[q]
    BY <1>3 DEF IInv, TypeOK
  <2>6. Changes(p, l)
    BY <1>3
  <2> HIDE DEF l
  <2> QED BY <1>1, <1>2, <1>3, <2>2, <2>3, <2>4, <2>5, <2>6, ChangeStep
<1>4. CASE Refused(link # NoLink) /\ UNCHANGED <<link, intact, up>>
  <2>1. MayFault /\ Way(pc[p], "stopDel")
    BY <1>1, <1>4 DEF Refused, Fault, MayFault, Way
  <2> QED BY <1>1, <1>2, <1>4, <2>1, WayStep, FilesKept DEF history, iface
<1> QED BY <1>3, <1>4 DEF StopDown

\* nb_engine_remove_peer.
LEMMA RemovePeerStep ==
  ASSUME IInv, NEW p \in Procs, RemovePeer(p)
  PROVE  IInv'
<1>1. /\ pc[p] = "running" /\ link # NoLink
      /\ Changes(p, [link EXCEPT !.peers = @ \ {"mgmt"}])
      /\ UNCHANGED <<config, pc, prog, iface, files, faults, left>>
  BY DEF RemovePeer, DropPeer
<1>2. created[p] /\ p \notin Known /\ ProgAllows(prog[p], "running")
  BY <1>1 DEF IInv, CreatedWhere, Held, ProgWhere, KnownAt, KeyAt
<1>3. pc' = [pc EXCEPT ![p] = "running"]
  BY <1>1 DEF IInv, TypeOK
<1> DEFINE l == [link EXCEPT !.peers = @ \ {"mgmt"}]
<1>4. link \in Links /\ link.peers \ {"mgmt"} \in SUBSET {"mgmt", "manual"}
  BY <1>1 DEF IInv, TypeOK, Links
<1>5. /\ l \in Links /\ l.by = link.by /\ l.addr = link.addr /\ l.up = link.up
      /\ l.key = link.key /\ l.peers = link.peers \ {"mgmt"}
  BY <1>4, LinkFields
<1>6. /\ "running" \in PCs /\ "running" \in Held /\ "running" \in Starting
      /\ "running" \in Addressed /\ "running" \in Keyed /\ "running" \in IsUp
  BY DEF PCs, Held, Starting, Addressed, Keyed, IsUp
<1>7. up' \in [Procs -> BOOLEAN] /\ \A q \in Procs : up'[q] => created[q]
  BY <1>1 DEF IInv, TypeOK, iface
<1>8. Changes(p, l)
  BY <1>1
<1> HIDE DEF l
<1> QED BY <1>1, <1>2, <1>3, <1>5, <1>6, <1>7, <1>8, ChangeStep DEF iface

-----------------------------------------------------------------------------
(* The theorems.                                                           *)

\* At first no process runs and there is no interface.
LEMMA InitIInv == Init => IInv
<1> SUFFICES ASSUME Init PROVE IInv
  OBVIOUS
<1> USE DEF Init
<1>1. left \in BOOLEAN
  BY Zenon
<1>2. TypeOK
  BY <1>1, MaxFaultsAssumption DEF TypeOK, PCs
<1>3. CreatedWhere /\ Progress
  BY DEF CreatedWhere, Progress, Held, Starting
<1>4. ProgWhere
  BY DEF ProgWhere, ProgAllows, EngineAt, CommandAt, Held
<1>5. OwnerLives /\ LinkAccounted /\ KnownAt
  BY DEF OwnerLives, LinkAccounted, KnownAt, Known
<1> QED BY <1>2, <1>3, <1>4, <1>5 DEF IInv

\* Every step of every process keeps the inductive invariant.
LEMMA NextIInv == IInv /\ [Next]_vars => IInv'
<1> SUFFICES ASSUME IInv, [Next]_vars PROVE IInv'
  OBVIOUS
<1>1. CASE UNCHANGED vars
  BY <1>1 DEF vars, iface, files, history, IInv, TypeOK, CreatedWhere, ProgWhere, ProgAllows, OwnerLives,
              Progress, Done, LinkAccounted, KnownAt, Known
<1>2. ASSUME NEW p \in Procs,
             \/ \E g \in Engines \cup Commands \cup Tools : Begin(p, g)
             \/ Load(p) \/ LoadFails(p) \/ Kill(p) \/ RemovePeer(p)
             \/ DownShow(p) \/ DownShowFails(p) \/ DownDel(p) \/ Status(p) \/ PeerSet(p)
      PROVE  IInv'
  BY <1>2, BeginStep, LoadStep, EndsFreeStep, LeavesStep, RemovePeerStep, MovesStep, DeletesStep,
     PeerSetStep DEF EndsFree, Moves
<1>3. ASSUME NEW p \in Procs, wg_iface_create(p) PROVE IInv'
  BY <1>3, TakeStep, MovesStep, AddrAddStep, WgSetStep, EndsFreeStep, DeletesStep
     DEF wg_iface_create, Moves, EndsFree
<1>4. ASSUME NEW p \in Procs, nb_engine_start(p) PROVE IInv'
  BY <1>4, MovesStep, EndsFreeStep, LinkUpStep, DeletesStep, LeavesStep, AddPeerStep, RoutesStep
     DEF nb_engine_start, Moves, EndsFree
<1>5. ASSUME NEW p \in Procs, nb_engine_stop(p) PROVE IInv'
  BY <1>5, MovesStep, RoutesStep, StopDownStep, DeletesStep DEF nb_engine_stop, Moves
<1>6. ASSUME NEW p \in Procs, keyTools(p) PROVE IInv'
  BY <1>6, KeyToolStep, EndsFreeStep DEF keyTools, KeyTool, EndsFree
<1> QED BY <1>1, <1>2, <1>3, <1>4, <1>5, <1>6 DEF Next

\* The inductive invariant holds in every state.
LEMMA Invariance == Spec => []IInv
BY InitIInv, NextIInv, PTL DEF Spec

\* Every variable keeps its type, and an interface a process has brought up is
\* one it has created or taken.
THEOREM TypeCorrect == Spec => []TypeOK
<1>1. IInv => TypeOK
  BY DEF IInv
<1> QED BY <1>1, Invariance, PTL

\* No exit of any program forgets the interface it holds, other than by a kill,
\* a failed deletion or the start that fails in route_manager_new.
THEOREM LinkAccountedAlways == Spec => []LinkAccounted
<1>1. IInv => LinkAccounted
  BY DEF IInv
<1> QED BY <1>1, Invariance, PTL

\* No path through wg_iface_create and the key tools leaves a private key in a
\* temporary file, other than a kill and the nb_strdup that fails unnoticed at
\* the end of write_temp_file.
THEOREM KeyFileGoneAlways == Spec => []KeyFileGone
<1>1. IInv => KeyFileGone
  BY DEF IInv, KeyFileGone, KnownAt, KeyAt, Known
<1> QED BY <1>1, Invariance, PTL

\* A start that reports success, and whose interface nobody else has touched,
\* has the interface up with its key and address and with no foreign peer.
THEOREM WorkingAlways == Spec => []Working
<1>1. IInv => Working
  <2> SUFFICES ASSUME IInv, NEW p \in Procs, pc[p] = "running", intact[p]
               PROVE  /\ link # NoLink /\ link.up /\ link.key = p
                      /\ link.addr \/ faults > 0
                      /\ link.by = p => link.peers \subseteq IF prog[p] = "mgmt" THEN {"mgmt"} ELSE {}
    BY DEF Working
  <2>1. /\ "running" \in Starting /\ "running" \in Addressed /\ "running" \in Keyed
        /\ "running" \in IsUp
    BY DEF Starting, Addressed, Keyed, IsUp
  <2>2. Done(p, "running", prog[p], link, faults)
    BY <2>1 DEF IInv, Progress
  <2> QED BY <2>1, <2>2 DEF Done
<1> QED BY <1>1, Invariance, PTL
=============================================================================
