# TLA+ models of the NetBird client

The repository holds a NetBird client in Go (`src/go`), a prototype of it in C
(`src/c`) and a helper daemon (`src/helper`) that talks to the Management
Service on behalf of the C client and leaves what it learns in two JSON files.
This directory models the parts of it whose correctness depends on the order in
which things happen: updates that arrive late, twice or half-way, goroutines
that are cancelled while they wait for each other, streams that break.

## The system

| Part | State | Operations | Talks to |
|---|---|---|---|
| Engine, updates (`internal/engine.go`) | `networkSerial`, `peerStore`, `checks`, `wgInterface`, stored sync response; one mutex, `syncMsgMux` | `handleSync` (checks, config, network map: remove, modify, add peers), `SetSyncResponsePersistence`, `Stop` | called by the Management receiver; calls DNS, route manager, firewall, peer connections |
| Connect loop (`internal/connect.go`) | `c.engine`, client state (status and wrapped error), contexts | `run`: login, new engine, `Start`, wait, `Stop`, retry on reset | makes and stops engines; told to restart through the state and `clientCancel` |
| Engine goroutines (`internal/engine.go`) | two receivers, the signal message worker, two monitors, `shutdownWg` | `receiveManagementEvents`, `receiveSignalEvents`, `triggerClientRestart` | share `syncMsgMux`, `wgInterface`, the client state |
| Management client (`management/client/grpc.go`) | a connection | `Sync` with retries, login, `SyncMeta` | Management Service |
| Signal client (`signal/client`) | stream status, `connectedCh`, the decryption worker and its pool | `Receive` with retries, `WaitStreamConnected`, `Close`, `Send` | Signal Service, the engine's message handler |
| Route manager (`internal/routemanager`) | client and server routes, selection, reference counters | `Init`, `UpdateRoutes`, `TriggerSelection`, `Stop` | linux routing |
| Linux routing (`systemops_linux.go`) | kernel rules and routes | `SetupRouting`, `CleanupRouting`, add and remove routes | kernel |
| WireGuard interface (`iface`) | device type, configurer, peers, addresses; one mutex | choose a device (loading kernel modules), create, change peers and address, close | kernel or wireguard-go; called by the engine, the route manager and the peer connections |
| Helper (`helper/main.go`) | `peers.json`, `routes.json` | login, stream of updates, atomic writes, stub mode | Management Service, C client |
| Command line (`cmd`) | nothing of its own; the active profile in a file, and what the daemon stores and runs | `up` in the foreground or through the daemon, `down`, `status` | the daemon, by single calls; other commands, through the daemon and the file |
| Minimal client (`miniclient`) | `config.json` with the key and the peers | `up`, `down`, `status` | Management Service, `ip` and `wg` commands |
| C client (`c/src`) | interface, routes, peers, configuration | `up`, `down`, `status`, `add-peer`, engine start and stop | helper's files, `ip` and `wg` commands |

What is hard in it, and what would make each part correct:

* **Updates.** A network map may be delivered late or again; applying it may
  fail at any peer, after DNS, routes and firewall have already been updated,
  and the error is only logged. Correct means: the peers are always a part of
  one map, never of an older one than the last applied, a later delivery
  repairs what earlier ones left, and only an error keeps an engine from the
  newest map.
* **Shutdown and restart.** `Stop` holds the mutex while it waits, with a
  timeout, for goroutines that may want the mutex. Goroutines that outlive it
  still write to the state that the next engine uses. Correct means: a
  cancelled client ends, a reset makes a new engine, never two interfaces,
  no rules left by a stopped engine, no use of what was closed.
* **Signal messages.** One slot between the stream and a handler that may be
  blocked. Correct means: nothing lost or reordered while the client runs, and
  nothing that keeps a cancelled client waiting.
* **Routing.** Rules, routes and sysctl values are set one request at a time,
  any of which may fail, and outlive a process that dies. Correct means: what
  the manager believes is routed is routed, nothing stays for a network that was
  withdrawn or a process that is gone, a failed addition is repeated, and `Stop`
  leaves the kernel as it was.
* **The interface.** Several goroutines call it, a call makes several requests
  to the device, and a link of the same name may be there already. Correct
  means: to its callers it is one table of peers that each call changes at once,
  and a closed interface is gone.
* **The helper and the C client**: two processes share files and may die at any
  step; the processes of the C client share an interface and know nothing of
  each other. Correct means: a file is read whole and never goes back to an
  older map, and an interface or a key file is left behind only where the code
  cannot help it.

* **The commands.** `up` is a dozen calls with other commands between any two
  of them. Correct means: an `up` that says "Connected" has delivered what it
  was asked for, and the daemon runs the profile that the file names.
* **The minimal client** loads its file, works for seconds, and saves it in two
  steps. Correct means: the key is not lost, and a finished `up` has left an
  interface with the key of the file.

`PROJECT.json` lists the components, the hazards with the line where each one
bites, and the definitions with the lines they model.

## Modules

* `PeerView` is the abstract specification: published maps, the connections
  that exist, and five actions (a map is announced, adopted in full, attempted
  in part, the engine goes down, is renewed). It says what the engine promises
  and nothing of how peers are compared, removed and added again.
* `EngineSync` is `handleSync` and everything under it that concerns peers,
  checks and the stored response. All its operations hold `syncMsgMux` from
  first to last line, so each way through them is one action: `ConfigFails` and
  `ChecksFail` are the early returns, `SyncNoMap` an update without a map,
  `SyncMapNoInterface`, `SyncMapOutdated`, `SyncMapPanics`, `SyncMapApplied`
  and `SyncMapFails` the ways through `updateNetworkMap`. The peer bookkeeping
  (`removePeers`, `Modified`, `addPeers`, ...) is written as functions of the
  store. A list of allowed IPs is a token and `Parse` says what it denotes.
  `due` says that the open stream has yet to bring the newest map, `missed`
  that its handling failed there: `receiveEvents` logs the error, and only
  another stream (`StreamReconnect`) or a newer map makes it due again.
  `Publish` is the Management Service, which is external. A peer with an empty
  list of allowed IPs, which makes `addNewPeer` panic, is not among the inputs,
  and a map that is flagged as empty names no peers.
* `MCEngineSync` gives it small sets.
* `ClientLifecycle` is `ConnectClient.run` with the goroutines of every engine
  it makes. `loop` is where `run` is; `recv`, `worker` and `mon` where the
  goroutines are; `mux` is each engine's mutex. `Wrap` and the cancellation
  that follows it are two steps, as in the code, so that the loop can come in
  between. Everything `run` does before `NewEngine`, and everything `Start`
  does under the mutex, is a step of its own that may fail; what a failing step
  leaves (rules, `c.engine`) is still there when the next operation meets the
  goroutines of the engine before. `CleanupRouting` may be refused by the
  kernel, which `routeManager.Stop` only logs; `refused` records it. It leaves
  out what updates do (`EngineSync`) and how `WaitStreamConnected` waits
  (`SignalClient`).
* `SignalClient` is `Receive`, the decryption worker with its pool of one
  message, `WaitStreamConnected` and `Close`. `Close` comes after `Engine.Stop`,
  which waits for `Receive` but may give up: `drained` records whether it had
  returned.
* `RouteManager` is the route manager over the linux routing. `phase` is where
  the current call is, `todo` what its loop has still to visit; every request to
  the kernel is a step that may be refused, and `Crash` may come between any
  two. An exit node needs two requests (the unreachable IPv6 route and its own);
  `half` marks the state between them. `RouteAdd` refuses a route that exists,
  as `netlink.RouteAdd` does, an error `addRoute` does not excuse. An error that
  says the host does not support the route (`isOpErr`, IPv6 on a host without
  it) is excused: `addRoute` returns as if the route were there, and
  `unsupported` records that it is not. Deletions excuse the same. `residue` and
  `userLost` record what failed requests and crashes left. The reference
  counter is external: the first reference adds, the last one removes, and an
  error changes no count. Deleting an interface takes its routes with it, but
  not the unreachable one. `MCRouteManager` gives it small sets.
* `Documents` is what the helper promises to a reader: a file holds one whole
  document or none, is replaced in one step, never by an older map, and a load
  returns a document the file held. `HelperDaemon` is the helper with every
  write in three steps (truncate, write, rename), a kill between any two, the
  stub mode, and the C client's side: loading `peers.json`, whose open file may
  be renamed away, and saving `config.json`, which is not atomic.
* `CClient` is the C client as its shell commands: `pc[p]` is the command that
  process `p` runs next, `link` the one interface all of them name. `left`
  records the ways in which the interface is left behind, `intact[p]` that no
  other process has changed it under `p`, `adrift` the key files whose path was
  lost: `write_temp_file` reports success also when `nb_strdup` fails.
* `Tunnel` is what the WireGuard interface promises: a table of peers and an
  address that each call changes in one step. `WGIface` is the code: the choice
  of the device with the kernel modules (a device node, or a module that is
  still loading, counts as loaded), the link that may exist already, the two
  configurers, and `Close`, which waits for the link to vanish. A call that
  makes several requests is several steps under `mu`. `strict` in `Tunnel` is
  the difference between the configurers: userspace ignores `UpdateOnly`.
  `MCWGIface` gives it two dependent modules.
* `CommandLine` is `up`, `down` and `status`: `pc[c]` is the call that command
  `c` makes next. The daemon, the profile manager and the login are external: a
  call takes effect or not, and an error may hide one that did. Of the flags,
  the MTU (checked in one request and not in the other), the DNS labels (a list
  that can be cleared, sent in ASCII by `SetConfig` and as typed by `Login`) and
  the admin URL (which only `SetConfig` carries) are kept; the rest are copied
  like these. `up` goes on without `SetConfig` only if it is answered
  `Unavailable`; the `Unimplemented` of a daemon without the method ends it.
  `clean[c]`, `stale[c]` and `doubt` record that another command interfered,
  `skipped[c]` that the admin URL may not have arrived.
  `MCCommandLine` gives it seven ways to call `up`.
* `MiniClient` is the minimal client, call by call and command by command, with
  its file as `missing`, `torn` (emptied and not yet written) or `whole`, and
  a kill between any two steps. Reading a whole file may fail too, which gives
  the default configuration.
* `EngineSyncProofs`, `SignalClientProofs`, `RouteManagerProofs`,
  `HelperDaemonProofs`, `CClientProofs`, `WGIfaceProofs` and `CommandLineProofs`
  hold the theorems about the modules they are named after, `GoClientProofs`
  those about `ClientLifecycle` and `MiniClient`, whose specification is called
  `MiniSpec` for that reason.

Definitions called mutants in their comments are plausible faults of the
definition after them. They are used to check that a property notices the
fault, and by nothing else.

## Runs

`tlc -config X.cfg M`, from this directory.

| Run | Configuration | Shows |
|---|---|---|
| engine_sync | `MCEngineSync`, `EngineSync.cfg` | `OneMap`, `StoppedHasNoPeers`, `DisabledStoresNothing`, `SerialNeverRegresses`, that the engine implements `PeerView`, `OnlyErrorsMiss`, and `Recovers`: partial failures are repaired by the next delivery that does not fail |
| client_lifecycle | `ClientLifecycle.cfg` | `OneInterface`, `RoutingOwned`, `ExitSettles` with two engines |
| client_lifecycle_live | `ClientLifecycleLive.cfg` | `CancelLeadsToExit`, `ResetRetries` |
| client_close | `ClientLifecycleClose.cfg` | violated: the monitor goroutine uses the interface that `Stop` closed |
| signal_client | `SignalClient.cfg` | `NoMessageLost`, `HandledInOrder`, `NoWorkerLeft`, `CancelEndsReceive`, `CloseEnds` |
| route_manager | `MCRouteManager`, `RouteManager.cfg` | `RoutesConsistent`, `NoStaleRoutes`, `V6Blocked`, `CleanStop`, and `Retried`: a route that could not be added is added by a later update, unless it is an exit node whose unreachable route is stuck |
| helper_daemon | `HelperDaemon.cfg` | that the files implement `Documents`; `DemoMeansFailure`, `FilesFollowMap`, `MapArrives`, `FallBackWrites` |
| c_client | `CClient.cfg` | `LinkAccounted`, `KeyFileGone`, `Working` |
| wg_iface | `MCWGIface`, `WGIface.cfg` | that the interface implements `Tunnel`; `RecorderFollows`, `ClosedMeansGone` |
| command_line | `MCCommandLine`, `CommandLine.cfg` | `UpDelivers`, `RunsActiveProfile` |
| mini_client | `MCMiniClient`, `MiniClient.cfg` | `KeyKept`, `UpWorks` |
| signal_wait | `SignalClientWait.cfg` | violated: `WaitStreamConnected` misses a stream that opens after its check |

The two violations are disagreements between the code and its own comments;
`PROJECT.json` quotes them under "findings". Where a module has a proved type
invariant that its other properties cannot do without (`EngineSync`,
`ClientLifecycle`, `SignalClient`, `RouteManager`, `CClient`, `CommandLine`,
`MiniClient`), the run leaves it to the proof.

The models show other things a reader of the code should know; the properties
except them by name:

* An update whose handling fails is gone as long as the stream stays open: the
  error is logged, and the service does not send the map again. `OnlyErrorsMiss`
  and `Recovers` name this as the one way in which an engine keeps missing it.
* `updateChecksIfNew` remembers the new checks before it has sent the meta:
  after a failed `SyncMeta` the same checks count as seen, and nothing sends it
  again.
* A reset between the return of `Start` and `Set(StatusConnected)` is lost: the
  cancelled engine is stopped, the error that asked for a retry is cleared, and
  the client ends (`connect.go:286`). `ResetRetries` starts after that point.
* When `AddVPNRoute` adds the unreachable route and then fails, that route
  stays, blocks IPv6 without an exit node, and makes every later attempt fail,
  until the manager is stopped. `Retried` has to except it.
* On a host without IPv6 routes the unreachable route of an exit node counts as
  added; nothing adds it if the host gets them later. `V6Blocked` names it, and
  `RoutesConsistent` the same of a network's own route.
* A refused `CleanupRouting` leaves rules behind a stopped engine, until the
  next `Init` cleans up; so does a `Start` that fails after `Init`.
  `RoutingOwned` names both.
* `processPeers` and `processRoutes` return before the write when their list is
  empty, where `PHASE_4B_MGMT_CLIENT.md` (lines 215-234) and
  `PHASE_4B_SUCCESS.md` (line 302) show an unconditional write: what was
  removed, and demo data, stays in the file. `FilesFollowMap` asks for the
  newest list and names this.
* When `nb_strdup` fails in `write_temp_file` the private key stays in `/tmp`.
* `--admin-url` is lost when `SetConfig` is answered `Unavailable`, and always
  in the foreground; the labels that stay stored are those of `Login`,
  unconverted.
* `up -F --extra-dns-labels ""` keeps the labels, although the help of the flag
  (`up.go:79`) says that it clears them; through the daemon it does.
* After an `up --profile b` that failed half-way, a plain `up` finds the daemon
  connected and says so, on the profile it ran before.
* `SetConfig` stores an MTU that the request after it rejects.
* The minimal client takes any error in reading its file for a missing one, and
  saves the default over it: the key is gone. `KeyKept` names this, beside the
  torn file and the save over a newer one.

### Bounds

* `EngineSync`: two peers, so that one can fail while another is valid; three
  spellings of the allowed IPs, one of which does not parse, so that a peer can
  be modified and fail; two check lists; serials 0 to 2, so that a map can be
  applied, changed, half applied and delivered late.
* `ClientLifecycle`: two engines, enough for the goroutines of a stopped engine
  to meet the next one; in that run each engine has the interface monitor only,
  whose steps include those of the network monitor. The liveness run has one
  engine and both monitors. The system really stops when the loop has exited, so
  deadlock is not checked.
* `SignalClient`: four messages, one more than fit between the stream and the
  end of a handler (one about to be added, one in the pool, one being handled).
  Streams are not bounded. The system stops once it is closed.
* `RouteManager`: two networks on one prefix, for the reference count, an exit
  node and a prefix that is not allowed; two rules, so that one can be left
  without the other; two refused requests, so that a cleanup can fail after the
  failure it cleans up. Updates, restarts and crashes are not bounded.
* `HelperDaemon`: two maps, so that one list can become empty or newer while the
  other does not; two starts, so that a helper finds the files of a killed one;
  one fault. The system stops when the last helper has ended.
* `CClient`: two processes, each running one command after another without
  bound, and one command that fails for no reason of its own.
* `CommandLine`: two commands, run again and again, so that each can overtake
  the other; two profiles, a label with its ASCII form beside the one that is
  no domain, one admin URL, and arguments with each way of being rejected. An
  MTU out of range is given in the foreground only; that the daemon may be left
  with one by `SetConfig` is in the model, and left to the proof, which is for
  every set of arguments. The commands are interchangeable, which is the
  symmetry used.
* `MiniClient`: two processes and two keys: the second key is what the loss of
  the first one looks like. The processes are interchangeable, and
  `MCMiniClient` adds that symmetry.
* `WGIface`: two peers, two prefixes, two addresses, two goroutines; any system
  call may fail any number of times. The system stops when the interface is
  closed.

### Fairness

* `EngineSync!FairSpec`: weak fairness of receiving the newest map that an open
  stream has still to bring. The Management Service sends the current map on
  each new stream, and a change on the open one. Nothing makes its handling
  succeed, nothing brings a map again on a stream that stays open, and nothing
  makes the stream break.
* `ClientLifecycle!Fairness`: goroutines are scheduled, a Go mutex is handed to
  its waiters, timeouts expire, handlers return. Streams that open, messages,
  changes seen by a monitor and users are not fair.
* `SignalClient!Fairness`: goroutines are scheduled, and a `select` with two
  ready cases does not take the same one forever. The message handler is sure to
  return only once `Close` was called: before that, the mutex it wants may be
  held by a `Stop` that waits for `Receive`.
* `RouteManager!FairSpec`: a call that has begun goes on. Updates, starts and
  stops are not fair; `Retried` speaks of runs with updates again and again, and
  refused requests are bounded by `MaxFaults`.
* `HelperDaemon!FairSpec`: a helper that runs takes its next step: its calls
  have timeouts, its ticker ticks, and the service delivers what it has sent on
  an open stream. Kills, failures, new maps and the C client are not fair.

## Proofs

`tlapm M.tla`, from this directory. Each theorem holds for every value of the
constants that the named `ASSUME`s of its module admit. The proofs have one
shape: an inductive invariant `IInv`, a lemma per action or per group of actions
of one shape that it is preserved, `InitIInv`, `NextIInv` and `Invariance`
(the first module names them `SyncInv...`), and the properties as consequences.
Every `IInv` was checked by TLC on the module's own configuration first.

**`EngineSync`**: `TypeCorrect`, `OneMapAlways`, `StoppedHasNoPeersAlways`,
`DisabledStoresNothingAlways`, `OnlyErrorsMissAlways`, the action property
`SerialNeverRegressesAlways`, and `EngineImplementsPeerView`. The three
invariants are inductive together with the types: the store never holds an
unparsed configuration, since a failing update keeps only peers that were added
before the failure. `OneMap` needs the bound on `routeSerial` to survive
`Publish`, which changes only maps above every serial in use. The heart is that
a full application gives exactly the prescribed connections (`AppliedIsMap`)
and a partial one a part of them (`FailedIsPart`), whatever the store was
before. In the refinement, steps map to steps or stutters with one case per
action (`ViewStep`).

**`ClientLifecycle`** (in `GoClientProofs`): `TypeCorrect`,
`OneInterfaceAlways`, `RoutingOwnedAlways`, `ExitSettlesAlways`, for any number
of engines and any monitors. The invariant ties the loop's position to what
exists: from `NewEngine` on there is a current engine (`Current`), which is the
one in `c.engine` until the operation takes it out (`Held`), and an interface
belongs to the current engine between its creation and `Stop`
(`InterfaceOwned`). `RoutingOwned` adds that only the newest engine with a
route manager can own the rules (`Made`, `Managed`), that it is not stopped
before the loop does so (`Unstopped`), and that an engine whose `Start` failed
never gets a receiver (`Quiet`). `ExitSettles` needs to know that goroutines
that outlive the client find their context done: `OldCancelled` (engines are
cancelled before their operation is over) and `MonitorsMade` (only engines that
were made have monitors).

**`SignalClient`**: `TypeCorrect`, `NoMessageLostAlways`,
`HandledInOrderAlways`, `NoWorkerLeftAlways`, for any number of messages and
callers. The case that needs thought is a `Close` beside a `Receive` that is
past `connect`: `decryptionWorker` is nil by then and a second worker is
started. `Starts` shows that there is no third one, `LastRuns` that the first
has ended by then, and `Ordered` that everything handled is older than what is
being handled, in the pool and being added, except in the pool of a worker that
has ended, which nobody reads.

**`RouteManager`**: `TypeCorrect`, `RoutesConsistentAlways`,
`NoStaleRoutesAlways`, `V6BlockedAlways`, `CleanStopAlways`, for any networks
and prefixes and any number of refused requests. The argument turns on the
reference counter (`Counted`): a count is never less than the number of active
networks of its prefix, a counted prefix is in the table or was not supported,
and where the count is more, a failed request has left the route. `HalfWay`
describes the state between the two requests for an exit node, `Owned` and
`Blocked` who answers for each route and for the unreachable one, `Cleaned`
what each loop of `CleanupRouting` has left to do, `Restores` whose sysctl
values are kept, `Updating`, `Fresh` and `Loops` the sets of an update, of a
start and of the loops. Counting uses the library's theorems on finite sets
(`UserAdded`, `UserDropped`).

**`HelperDaemon`**: `TypeCorrect`, `DemoMeansFailureAlways`,
`FilesFollowMapAlways`, and `ImplementsDocumentsAlways`: the refinement of
`Documents`, for any number of maps, faults and starts. The argument is one of
order. The queue holds the newest maps, without a gap (`InOrder`), what is
being written is older than the queue and no older than what the files have
held (`NoneOlder`), so a rename never puts an older map in a file, which is the
step of `Documents` that could fail. `Follows` says what each file is about to
hold in terms of the lists received so far; with nothing left to receive and to
write it is `FilesFollowMap`. `Busy` and `Seqs` say who writes what,
`DemoWhere` where demo data comes from, `Readable` that an open file exists.

**`CClient`**: `TypeCorrect`, `LinkAccountedAlways`, `KeyFileGoneAlways`,
`WorkingAlways`, for any number of processes and failures. A process never asks
whether the interface is still the one it set up, so `Working` needs `Progress`:
what a start has done to the interface so far, at each of its commands, if
nobody interfered. `OwnerLives` (the process that added the link still holds it)
gives the absence of old peers; `KnownAt` where a key file whose path is known
may exist; `CreatedWhere` and `ProgWhere` say which
commands a process that holds the interface, and one of each program, may be at.

**`WGIface`**: `TypeCorrect`, `RecorderFollowsAlways`, `ClosedMeansGoneAlways`,
and `ImplementsTunnelAlways`: the refinement of `Tunnel`, for any number of
goroutines, peers, prefixes, addresses and modules. `Reading` says what a call
that has read a peer may rely on while it holds `mu`, as long as the device is
there: the peer is as it was read, or, once it was taken away, no other peer
has been given its allowed IPs. `Calling` says that only `Create` works on an
interface that is not configured, so a device that is gone does not come back
behind a call, `Probing` that the modules to load end with the one the device
needs, and that nobody calls before there is a device; `OneAddress` and
`Unrecorded` complete it. For the refinement, `SeenUnder` reduces the mapping
to the one call that holds the mutex: the others see the table with the peer
that is to be added again, and the address `UpdateAddr` found.
`RemoveEndpointAddress` takes effect when the peer is taken away
(`TakeAwayMeets`), so that adding it again is not seen (`PutBackSame`) and
failing to is a removal; `RemoveAllowedIP` when the IPs are replaced
(`ReplaceMeets`), which needs the disjointness of the peers' IPs, as
`UpdatePeer` does (`PutMeets`).

**`CommandLine`**: `TypeCorrect`, `UpDeliversAlways`,
`RunsActiveProfileAlways`, for any commands, profiles, labels and arguments.
`Stored`: after SetConfig the stored configuration has the admin URL of an
undisturbed command that did not find the daemon unavailable, and Login keeps
it; after Login it has the other flags, whichever request stored them.
`PunycodeType`: converting labels twice changes nothing, so that both spellings
name the same domains. `UpToDate` and `Following`: a profile that a command has
read is the one in the file unless another switched it, and the daemon runs
another one only while a command that switched it is at work. `HasProfile`,
`ArgsFit` and `SaidAtEnd` say what a command at each call may have.

**`MiniClient`** (in `GoClientProofs`): `MiniTypeCorrect`, `KeyKeptAlways`,
`UpWorksAlways`, for any number of processes and keys; the invariant is
`MiniInv`. `KeyKnown`: a process whose copy of the file is current
has the kept key, so saving it loses nothing. `NeverSaved`: the file is missing
only before its first save. `PeersOfKey`: whoever has real peers has a
registered key, which is not generated again. `LinkReady`: what an undisturbed
`up` has done to the interface at each command.

### Assumptions

The named `ASSUME`s of the modules, which TLC evaluates in every run: bounds
are natural numbers (`MaxSerial`, `MaxEngines`, `MaxMsgs`, `MaxFaults`,
`MaxMaps`, `MaxStarts`, `MaxKeys`); the values that stand for "none" are none
of the values beside which they are used (`Invalid`, `NoPeer`, `NoSerial`,
`NoItem`, `Nobody`, `NoLink`, `NoProfile`, `Unset`, `NoDoc`, `Torn`,
`Blackhole`, `NoCaller`); rules are not routes; `Parse`, `PrefixOf`, the
arguments of `up` and the list of modules `Deps` have their types; `ToPunycode`
maps labels to labels and changes nothing the second time. None bounds the size
of a set.

### What is only model-checked

Liveness, which needs fairness and ENABLED: `Recovers`, `CancelLeadsToExit`,
`ResetRetries`, `CancelEndsReceive`, `CloseEnds`, `Retried`, `MapArrives`,
`FallBackWrites`. Every invariant, action property and refinement of the
passing runs is proved; the refinements are of the abstract specifications as
they stand, which state no fairness.

Nothing in the proved modules is recursive, so no induction over data is needed:
the loops over peers, networks and rules are written as functions of sets or as
one step per item.

## Not modelled

STUN, TURN, relay and flow settings beyond their failure; what DNS, firewall
and forwarding rules do with a map; the peer connections themselves (ICE,
relays; their code is not in this repository); the route selector's choice, the
server router, the route handlers and watchers beyond their existence, legacy
routing, the name of the table in `rt_tables` and the listing of routes and
rules for debugging; the value of the shutdown timeout; the end of all retries
after three months; `ConnectClient.Stop` called from outside; `RunHealthProbes`,
which nothing in the repository calls; `Send`, `SendToStream` and the one-shot
calls of the Management client, which change no state that others read; in the
WireGuard interface `Up`, `SetFilter`, the readers of statistics, the UAPI
listener, and calls on a handle after `Close`; in the C client masquerading,
`route_remove` (neither is reached from a command) and a second signal during
the signal handler.

Of the command line: what `status` prints, the flags that are only copied, the
browser login, and the daemon itself, whose code is not in the repository. Of
the minimal client: the connection to Signal, whose result nothing uses,
`Teardown`, which nothing calls, and the address and route commands, whose
results nothing looks at.

Not modelled at all: the REST client (stateless HTTP wrappers) and the generated
protocol code, which is a third of the implementation's lines.

## Plan

What is left is the client's API (`SetSyncResponsePersistence`, `Stop`,
`GetLatestSyncResponse`) beside the connect loop, and `Send`.
