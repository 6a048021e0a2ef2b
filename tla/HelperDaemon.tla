---------------------------- MODULE HelperDaemon ----------------------------
(***************************************************************************)
(* The helper daemon (helper/main.go, management.go, crypto.go), the three *)
(* files it shares with the C client, and the C client's side of them      *)
(* (peers_file.c, config.c).  The helper reads config.json once, logs in   *)
(* with its setup key, and writes the peers and routes of every network    *)
(* map it receives to peers.json and routes.json, through a temporary file *)
(* and a rename; when anything of that fails it falls back to writing demo *)
(* data, and without a setup key it writes nothing.                        *)
(*                                                                         *)
(* A list is the number of the map it came from; shape says which of a     *)
(* map's two lists have elements.  Keys, encryption and protobuf are only  *)
(* the ways in which they fail.  The process may be killed between any two *)
(* steps (main returns on a signal while run's goroutine is anywhere) and  *)
(* be started again.  External: the Management Service, which sends its    *)
(* current map on a new stream and every later one, in order; the file     *)
(* system; whoever puts config.json in place.                              *)
(***************************************************************************)
EXTENDS Integers, Sequences

CONSTANTS
  Torn,        \* what a file holds between its truncation and its last write
  Demo,        \* the demo document of updateStub
  NoDoc,       \* no file
  Closed,      \* the reader has no file open
  Linked,      \* the reader's open file is still the one at the path
  MaxMaps,     \* bound: network maps published
  MaxFaults,   \* bound: failed writes, messages without a usable map, and
               \* saves of config.json
  MaxStarts    \* bound: starts of the helper

Files == {"peers", "routes"}
Maps  == 1..MaxMaps
Docs  == Maps \cup {Demo}

ASSUME BoundsAssumption == MaxMaps \in Nat \ {0} /\ MaxFaults \in Nat /\ MaxStarts \in Nat

\* A network map is not the demo document, and no document looks like a file
\* that is missing, torn or open.
ASSUME DocsAssumption ==
  /\ Demo \notin Maps
  /\ NoDoc \notin Docs
  /\ Torn \notin Docs \cup {NoDoc}
  /\ {Closed, Linked} \cap (Docs \cup {NoDoc}) = {}
  /\ Closed # Linked

\* Messages that carry no map the helper can use.
NoMap   == 0      \* a SyncResponse without a NetworkMap
Garbage == -1     \* it cannot be decrypted or parsed

VARIABLES
  config,      \* content of config.json
  saver,       \* config_save has opened the file and not yet written it
  pc,          \* where the helper is
  key,         \* Config.SetupKey, as loaded
  todo,        \* documents still to be written: <<file, document>>
  w,           \* how far the first of them is: os.WriteFile, then os.Rename
  file, tmp,   \* contents of peers.json and routes.json, and their .tmp files
  top, shape,  \* the maps published, and their lists that are not empty
  queue,       \* messages sent on the stream and not yet received
  fp,          \* the file peers_file_load has open
  faults, starts,
  \* History:
  fellBack,    \* some real mode, with a key, has failed
  dirty,       \* a write failed or a message was unusable, on this stream
  first, base, \* top and file when the stream was opened
  newest       \* newest[f]: the newest map that file f has held

cfg     == <<config, saver>>
server  == <<top, shape>>
history == <<fellBack, dirty, first, base, newest>>
vars    == <<config, saver, pc, key, todo, w, file, tmp, top, shape, queue, fp,
             faults, starts, history>>

NoKey   == ""
Configs == {"missing", "torn", "plain", "short", "full"}

TypeOK ==
  /\ config \in Configs
  /\ saver \in BOOLEAN
  /\ pc \in {"off", "load", "run", "dial", "serverKey", "login", "sync", "recv",
             "ended", "stub"}
  /\ key \in {NoKey, "short", "full"}
  /\ \A i \in DOMAIN todo : todo[i] \in Files \X Docs
  /\ Len(todo) <= 2
  /\ w \in {"start", "opened", "written"}
  /\ file \in [Files -> Docs \cup {NoDoc}]
  /\ tmp \in [Files -> Docs \cup {NoDoc, Torn}]
  /\ top \in Maps
  /\ shape \in [Maps -> SUBSET Files]
  /\ \A i \in DOMAIN queue : queue[i] \in Maps \cup {NoMap, Garbage}
  /\ fp \in Docs \cup {Closed, Linked}
  /\ faults \in 0..MaxFaults
  /\ starts \in 0..MaxStarts
  /\ fellBack \in BOOLEAN
  /\ dirty \in BOOLEAN
  /\ first \in Maps
  /\ base \in [Files -> Docs \cup {NoDoc}]
  /\ newest \in [Files -> 0..MaxMaps]

-----------------------------------------------------------------------------
(* Starting.                                                               *)

\* What the steps before the first update share.
Moves(from, to) ==
  /\ pc = from
  /\ pc' = to
  /\ UNCHANGED <<cfg, key, todo, w, file, tmp, server, queue, fp, faults,
                 starts, history>>

Start ==
  /\ pc = "off"
  /\ starts < MaxStarts
  /\ starts' = starts + 1
  /\ pc' = "load"
  /\ UNCHANGED <<cfg, key, todo, w, file, tmp, server, queue, fp, faults, history>>

\* log.Fatalf: the file is missing or is not JSON.
LoadConfigFails == config \in {"missing", "torn"} /\ Moves("load", "off")

LoadConfig ==
  /\ pc = "load"
  /\ config \in {"plain", "short", "full"}
  /\ key' = IF config = "plain" THEN NoKey ELSE config
  /\ pc' = "run"
  /\ UNCHANGED <<cfg, todo, w, file, tmp, server, queue, fp, faults, starts, history>>

\* run: no setup key, no real mode.
NoSetupKey == key = NoKey /\ Moves("run", "stub")
SetupKey   == key # NoKey /\ Moves("run", "dial")

\* The history of a stream ends with it.
ForgetStream ==
  /\ queue' = <<>>
  /\ dirty' = FALSE
  /\ first' = 1
  /\ base' = [f \in Files |-> NoDoc]

\* run falls back to the stub mode when runRealMode returns an error.
FallBack(from) ==
  /\ pc = from
  /\ pc' = "stub"
  /\ fellBack' = TRUE
  /\ ForgetStream
  /\ UNCHANGED <<cfg, key, todo, w, file, tmp, server, fp, faults, starts, newest>>

\* NewManagementClient: the private key is no key; Connect: grpc.Dial fails.
ConnectFails == FallBack("dial")
Connect      == Moves("dial", "serverKey")

GetServerKeyFails == FallBack("serverKey")
GetServerKey      == Moves("serverKey", "login")

\* Login logs setupKey[:8] before anything else, and panics on a shorter key;
\* after that the call, or the encryption on either side of it, may fail.
LoginPanics == key = "short" /\ Moves("login", "off")
LoginFails  == key = "full" /\ FallBack("login")
Login       == key = "full" /\ Moves("login", "sync")

-----------------------------------------------------------------------------
(* The Sync stream.                                                        *)

SyncFails == FallBack("sync")

SyncOpens ==
  /\ pc = "sync"
  /\ pc' = "recv"
  /\ queue' = <<top>>
  /\ first' = top
  /\ base' = file
  /\ dirty' = FALSE
  /\ UNCHANGED <<cfg, key, todo, w, file, tmp, server, fp, faults, starts,
                 fellBack, newest>>

\* The Management Service publishes a map whose lists s are not empty.
Publish(s) ==
  /\ top < MaxMaps
  /\ top' = top + 1
  /\ shape' = [shape EXCEPT ![top + 1] = s]
  /\ queue' = IF pc = "recv" THEN Append(queue, top + 1) ELSE queue
  /\ UNCHANGED <<cfg, pc, key, todo, w, file, tmp, fp, faults, starts, history>>

\* A message the helper cannot use: no network map in it, or a broken body.
SendUnusable(m) ==
  /\ pc = "recv"
  /\ faults < MaxFaults
  /\ faults' = faults + 1
  /\ queue' = Append(queue, m)
  /\ UNCHANGED <<cfg, pc, key, todo, w, file, tmp, server, fp, starts, history>>

Receiving == pc = "recv" /\ todo = <<>>

\* Mutant of processed: a map without peers is not looked at any further.
processedPeersFirst(n) ==
  IF "peers" \notin shape[n] THEN <<>>
  ELSE <<<<"peers", n>>>> \o (IF "routes" \in shape[n] THEN <<<<"routes", n>>>> ELSE <<>>)

\* processPeers, then processRoutes: an empty list is not written.
processed(n) ==
  (IF "peers" \in shape[n] THEN <<<<"peers", n>>>> ELSE <<>>)
    \o (IF "routes" \in shape[n] THEN <<<<"routes", n>>>> ELSE <<>>)

\* onSyncUpdate; a message that cannot be decrypted is skipped, and so is one
\* without a map.
onSyncUpdate ==
  /\ Receiving
  /\ queue # <<>>
  /\ queue' = Tail(queue)
  /\ todo' = IF Head(queue) \in Maps THEN processed(Head(queue)) ELSE <<>>
  /\ dirty' = (dirty \/ Head(queue) = Garbage)
  /\ UNCHANGED <<cfg, pc, key, w, file, tmp, server, fp, faults, starts,
                 fellBack, first, base, newest>>

\* Recv returns io.EOF: Sync and runRealMode return nil, run returns, and main
\* keeps waiting for a signal.
StreamEnds == queue = <<>> /\ todo = <<>> /\ Moves("recv", "ended")

\* Recv returns another error; what had been sent is lost.
StreamBreaks == Receiving /\ FallBack("recv")

-----------------------------------------------------------------------------
(* The stub mode: a tick every ten seconds.                                *)

\* Mutant of updateStub: the setup key is not looked at.
updateStubAlways ==
  /\ pc = "stub"
  /\ todo = <<>>
  /\ todo' = <<<<"peers", Demo>>, <<"routes", Demo>>>>
  /\ UNCHANGED <<cfg, pc, key, w, file, tmp, server, queue, fp, faults,
                 starts, history>>

updateStub ==
  /\ pc = "stub"
  /\ todo = <<>>
  /\ key # NoKey
  /\ todo' = <<<<"peers", Demo>>, <<"routes", Demo>>>>
  /\ UNCHANGED <<cfg, pc, key, w, file, tmp, server, queue, fp, faults,
                 starts, history>>

-----------------------------------------------------------------------------
(* writeJSONAtomic: os.WriteFile truncates the temporary file and writes   *)
(* it, os.Rename puts it in place.  An error is logged by the caller, which*)
(* goes on to the next file.                                               *)

Writing(s) == todo # <<>> /\ w = s
f0 == Head(todo)[1]
d0 == Head(todo)[2]

\* Mutant of Truncate: the file itself is truncated, not a temporary one.
TruncateInPlace ==
  /\ Writing("start")
  /\ w' = "opened"
  /\ tmp' = [tmp EXCEPT ![f0] = Torn]
  /\ file' = [file EXCEPT ![f0] = Torn]
  /\ UNCHANGED <<cfg, pc, key, todo, server, queue, fp, faults, starts, history>>

Truncate ==
  /\ Writing("start")
  /\ w' = "opened"
  /\ tmp' = [tmp EXCEPT ![f0] = Torn]
  /\ UNCHANGED <<cfg, pc, key, todo, file, server, queue, fp, faults, starts,
                 history>>

WriteFile ==
  /\ Writing("opened")
  /\ w' = "written"
  /\ tmp' = [tmp EXCEPT ![f0] = d0]
  /\ UNCHANGED <<cfg, pc, key, todo, file, server, queue, fp, faults, starts,
                 history>>

\* Mutant of Rename: it does not wait for the write.
RenameEarly ==
  /\ Writing("opened")
  /\ file' = [file EXCEPT ![f0] = tmp[f0]]
  /\ tmp' = [tmp EXCEPT ![f0] = NoDoc]
  /\ todo' = Tail(todo)
  /\ w' = "start"
  /\ UNCHANGED <<cfg, pc, key, server, queue, fp, faults, starts, history>>

\* A reader that has the old file open keeps it.
Rename ==
  /\ Writing("written")
  /\ file' = [file EXCEPT ![f0] = tmp[f0]]
  /\ tmp' = [tmp EXCEPT ![f0] = NoDoc]
  /\ todo' = Tail(todo)
  /\ w' = "start"
  /\ fp' = IF f0 = "peers" /\ fp = Linked THEN file["peers"] ELSE fp
  /\ newest' = [newest EXCEPT ![f0] = IF d0 = Demo THEN @ ELSE d0]
  /\ UNCHANGED <<cfg, pc, key, server, queue, faults, starts, fellBack,
                 dirty, first, base>>

\* Mutant of WriteFails: the error ends the loop.
WriteFailsEnds ==
  /\ todo # <<>>
  /\ faults < MaxFaults
  /\ faults' = faults + 1
  /\ todo' = <<>>
  /\ w' = "start"
  /\ dirty' = TRUE
  /\ pc' = "ended"
  /\ UNCHANGED <<cfg, key, file, tmp, server, queue, fp, starts, fellBack,
                 first, base, newest>>

\* Any of the three fails: the temporary file stays as it is.
WriteFails ==
  /\ todo # <<>>
  /\ faults < MaxFaults
  /\ faults' = faults + 1
  /\ todo' = Tail(todo)
  /\ w' = "start"
  /\ dirty' = TRUE
  /\ UNCHANGED <<cfg, pc, key, file, tmp, server, queue, fp, starts, fellBack,
                 first, base, newest>>

\* SIGINT, SIGTERM (stop, then main returns) or any other end of the process.
Kill ==
  /\ pc # "off"
  /\ pc' = "off"
  /\ todo' = <<>>
  /\ w' = "start"
  /\ key' = NoKey
  /\ ForgetStream
  /\ UNCHANGED <<cfg, file, tmp, server, fp, faults, starts, fellBack, newest>>

-----------------------------------------------------------------------------
(* The C client's side of the files.                                       *)

\* peers_file_load opens the file, and then reads and parses it.
LoadOpens ==
  /\ fp = Closed
  /\ file["peers"] # NoDoc
  /\ fp' = Linked
  /\ UNCHANGED <<cfg, pc, key, todo, w, file, tmp, server, queue, faults,
                 starts, history>>

\* The document of the open file.
Held == IF fp = Linked THEN file["peers"] ELSE fp

LoadReads ==
  /\ fp # Closed
  /\ fp' = Closed
  /\ UNCHANGED <<cfg, pc, key, todo, w, file, tmp, server, queue, faults, starts,
                 history>>

\* config_save after config_load: fopen(path, "w") empties the file that is
\* then written, and the setup key, which nb_config_t has no field for, is
\* not in it.  config_load gives no configuration to save for a torn file,
\* and a default one for a missing file.
SaveOpens ==
  /\ ~saver
  /\ config # "torn"
  /\ faults < MaxFaults
  /\ faults' = faults + 1
  /\ saver' = TRUE
  /\ config' = "torn"
  /\ UNCHANGED <<pc, key, todo, w, file, tmp, server, queue, fp, starts, history>>

SaveWrites ==
  /\ saver
  /\ saver' = FALSE
  /\ config' = "plain"
  /\ UNCHANGED <<pc, key, todo, w, file, tmp, server, queue, fp, faults,
                 starts, history>>

SaveKilled ==
  /\ saver
  /\ saver' = FALSE
  /\ UNCHANGED <<config, pc, key, todo, w, file, tmp, server, queue, fp,
                 faults, starts, history>>

-----------------------------------------------------------------------------
Init ==
  /\ config \in {"missing", "plain", "short", "full"}
  /\ saver = FALSE
  /\ pc = "off"
  /\ key = NoKey
  /\ todo = <<>>
  /\ w = "start"
  /\ file = [f \in Files |-> NoDoc]
  /\ tmp = [f \in Files |-> NoDoc]
  /\ top = 1
  /\ shape \in {[n \in Maps |-> IF n = 1 THEN s ELSE {}] : s \in SUBSET Files}
  /\ queue = <<>>
  /\ fp = Closed
  /\ faults = 0
  /\ starts = 0
  /\ fellBack = FALSE
  /\ dirty = FALSE
  /\ first = 1
  /\ base = file
  /\ newest = [f \in Files |-> 0]

\* The steps of run's goroutine that nothing but the process's end stops: the
\* calls to the service have timeouts, the files are local.
Works ==
  \/ LoadConfig \/ LoadConfigFails \/ NoSetupKey \/ SetupKey
  \/ Connect \/ ConnectFails \/ GetServerKey \/ GetServerKeyFails
  \/ Login \/ LoginFails \/ LoginPanics \/ SyncOpens \/ SyncFails
  \/ onSyncUpdate \/ updateStub
  \/ Truncate \/ WriteFile \/ Rename \/ WriteFails

Next ==
  \/ Works
  \/ Start
  \/ Kill
  \/ StreamEnds
  \/ StreamBreaks
  \/ \E s \in SUBSET Files : Publish(s)
  \/ \E m \in {NoMap, Garbage} : SendUnusable(m)
  \/ LoadOpens
  \/ LoadReads
  \/ SaveOpens
  \/ SaveWrites
  \/ SaveKilled

Spec     == Init /\ [][Next]_vars
FairSpec == Spec /\ WF_vars(Works)

-----------------------------------------------------------------------------
(* Properties.                                                             *)

\* The files as their readers see them, whatever writes fail and wherever the
\* helper is killed; a load gets what the file held when it was opened.
Promise == INSTANCE Documents WITH
  doc  <- file,
  last <- newest,
  got  <- [f \in Files |-> IF f = "peers" /\ fp # Closed THEN Held ELSE NoDoc]

\* writeJSONAtomic: "Atomic write: write to temp file, then rename".
ImplementsDocuments == Promise!ASpec

\* Demo data reaches a file only after a helper that had a setup key failed
\* to get real data: without a key updateStub writes nothing, and a stream
\* that the service ends is no failure.
DemoMeansFailure == (\E f \in Files : file[f] = Demo) => fellBack

\* The exception to FilesFollowMap: the file still holds the last list of the
\* stream that was not empty, or what it held before the stream.
Overtaken(f) ==
  LET lists == {n \in first..top : f \in shape[n]}
  IN  file[f] = IF lists = {} THEN base[f]
                ELSE CHOOSE n \in lists : \A m \in lists : m <= n

\* When the helper has handled all that was sent on its stream, and no write
\* failed and no message was unusable, each file holds the list of the newest
\* map, as PHASE_4B_MGMT_CLIENT.md shows processPeers.  The code departs from
\* that where the newest list is empty: processPeers and processRoutes return
\* before the write, and what was removed (also demo data) stays in the file.
FilesFollowMap ==
  Receiving /\ queue = <<>> /\ ~dirty =>
    \A f \in Files : file[f] = top \/ (f \notin shape[top] /\ Overtaken(f))

\* A map reaches the files while the stream lasts, unless a write of its lists
\* failed (that is not tried again) or a message was unusable.
MapArrives ==
  pc = "recv" ~> (pc # "recv" \/ dirty \/ \A f \in shape[top] : file[f] = top)

\* run: "Falling back to stub mode...": a helper that had a key and stays up
\* gets the demo data into both files, because every tick writes them again.
FallBackWrites ==
  (pc = "stub" /\ key # NoKey) ~> (pc = "off" \/ \A f \in Files : file[f] = Demo)
=============================================================================
