----------------------------- MODULE EngineSync -----------------------------
(***************************************************************************)
(* How the engine applies the updates of the Management Service:           *)
(* Engine.handleSync, updateChecksIfNew, updateNetworkMap and the peer     *)
(* bookkeeping under it (removePeers, modifyPeers, addNewPeers), with      *)
(* Engine.Stop and the replacement of a stopped engine by a new one.       *)
(*                                                                         *)
(* Every operation below holds Engine.syncMsgMux from its first to its     *)
(* last line, so each is one step; what the mutex does not cover is the    *)
(* subject of ClientLifecycle.                                             *)
(*                                                                         *)
(* Abstractions.  A peer configuration is its agent version and its list   *)
(* of allowed IPs; such a list is one token, and Parse gives the list of   *)
(* prefixes it denotes (two spellings may denote the same list) or Invalid *)
(* when netip.ParsePrefix rejects one of them.  The list of remote peers   *)
(* is a function of the peer key: its order only decides which peers come  *)
(* before the first one that fails, and that set is chosen freely.  The    *)
(* STUN, TURN, relay and flow settings are left out, except that their     *)
(* handling may fail and end the handler.  The Management Service is       *)
(* external: it publishes maps with growing serials, sends the newest one  *)
(* on every new stream and whenever it is published, and any published map *)
(* may be delivered at any time, again or late.  What it makes of the      *)
(* system info that SyncMeta and Sync send it is left out.                 *)
(***************************************************************************)
EXTENDS Integers

CONSTANTS
  Keys,        \* WireGuard public keys of remote peers
  Versions,    \* agent versions of remote peers
  AllowedIps,  \* spellings of an allowed-IPs list, as the server sends them
  Prefixes,    \* parsed allowed-IPs lists
  Parse,       \* what netip.ParsePrefix makes of each spelling
  Invalid,     \* ... when it returns an error
  Checks,      \* values of the posture-check list
  NoPeer,      \* no entry for a key, in the store or in a map
  NoSerial,    \* no sync response has been stored
  MaxSerial    \* bound: the highest serial the Management Service reaches

ASSUME ParseAssumption   == Parse \in [AllowedIps -> Prefixes \cup {Invalid}]
ASSUME InvalidAssumption == Invalid \notin Prefixes
ASSUME SerialAssumption  == MaxSerial \in Nat /\ NoSerial \notin Int
ASSUME ChecksAssumption  == Checks # {}

RemotePeerConfig == [ver : Versions, ips : AllowedIps]   \* as sent
PeerConn         == [ver : Versions, ips : Prefixes]     \* as stored
ASSUME NoPeerAssumption == NoPeer \notin RemotePeerConfig \cup PeerConn

NetworkMap == [Keys -> RemotePeerConfig \cup {NoPeer}]
Store      == [Keys -> PeerConn \cup {NoPeer}]
Serials    == 0..MaxSerial

VARIABLES
  top,            \* Management Service: the highest serial published
  maps,           \* Management Service: the map of each published serial
  due,            \* Management Service: the open stream still has to bring maps[top]
  missed,         \* the last handling of maps[top] failed, on the stream that is open
  wgUp,           \* Engine.wgInterface # nil
  networkSerial,  \* Engine.networkSerial
  routeSerial,    \* serial of the map last handed to DNS, routes and firewall
  peers,          \* Engine.peerStore
  checks,         \* Engine.checks
  persist,        \* Engine.persistSyncResponse
  latest,         \* serial of Engine.latestSyncResponse, or NoSerial
  result          \* what the last handler call returned

server == <<top, maps>>
vars   == <<top, maps, due, missed, wgUp, networkSerial, routeSerial,
            peers, checks, persist, latest, result>>

Results == {"none", "ok", "error", "panic"}

TypeOK ==
  /\ top \in Serials
  /\ maps \in [Serials -> NetworkMap]
  /\ due \in BOOLEAN
  /\ missed \in BOOLEAN
  /\ wgUp \in BOOLEAN
  /\ networkSerial \in Serials
  /\ routeSerial \in Serials
  /\ peers \in Store
  /\ checks \in Checks
  /\ persist \in BOOLEAN
  /\ latest \in Serials \cup {NoSerial}
  /\ result \in Results

-----------------------------------------------------------------------------
(* The peer bookkeeping, as functions of the store.                        *)

\* What addNewPeer stores for a configuration that parses.
Parsed(c) == [ver |-> c.ver, ips |-> Parse[c.ips]]

\* netip.ParsePrefix accepts every allowed IP of the configuration.
Parses(c) == Parse[c.ips] # Invalid

compareNetIPLists(prefixes, ips) == Parse[ips] = prefixes

removeAllPeers == [k \in Keys |-> NoPeer]

\* Mutant of removePeers: peers the map no longer names are kept.
removePeersKeeps(store, m) == store

removePeers(store, m) ==
  [k \in Keys |-> IF m[k] = NoPeer THEN NoPeer ELSE store[k]]

\* Mutant of Modified: the allowed IPs are not compared.
ModifiedByVersion(store, m) ==
  {k \in Keys : store[k] # NoPeer /\ m[k] # NoPeer /\ store[k].ver # m[k].ver}

\* The peers modifyPeers finds changed: first the agent version, then the IPs.
Modified(store, m) ==
  {k \in Keys : /\ store[k] # NoPeer
                /\ m[k] # NoPeer
                /\ \/ store[k].ver # m[k].ver
                   \/ ~compareNetIPLists(store[k].ips, m[k].ips)}

\* modifyPeers removes all the changed peers before it adds the first again.
removeModified(store, m) ==
  [k \in Keys |-> IF k \in Modified(store, m) THEN NoPeer ELSE store[k]]

\* The peers of the map that have no connection.
Missing(store, m) == {k \in Keys : store[k] = NoPeer /\ m[k] # NoPeer}

\* addNewPeer for each key of ks.
addPeers(store, m, ks) ==
  [k \in Keys |-> IF k \in ks THEN Parsed(m[k]) ELSE store[k]]

\* addNewPeer on the keys of ks in list order succeeds up to some peer and
\* fails there, because a prefix does not parse or NewConn returns an error:
\* the sets of peers that may come before that one.
DoneBeforeFailure(m, ks) ==
  {done \in SUBSET ks : done # ks /\ \A k \in done : Parses(m[k])}

\* The store when updateNetworkMap has run removePeers and the removal half
\* of modifyPeers.
Cleared(store, m) == removeModified(removePeers(store, m), m)

\* The peers that modifyPeers adds again, and then those addNewPeers adds.
Readded(store, m) == Modified(removePeers(store, m), m)
Added(store, m)   == Missing(Cleared(store, m), m) \ Readded(store, m)

\* Every addNewPeer succeeds: the store is the map.
AllParse(store, m)  == \A k \in Readded(store, m) \cup Added(store, m) : Parses(m[k])

\* Mutant of PeersApplied: addNewPeers is not reached after modifyPeers.
PeersAppliedNoNew(store, m) == addPeers(Cleared(store, m), m, Readded(store, m))

PeersApplied(store, m) ==
  addPeers(Cleared(store, m), m, Readded(store, m) \cup Added(store, m))

\* addNewPeer fails inside modifyPeers, so addNewPeers is not reached.
ModifyFails(store, m) ==
  {addPeers(Cleared(store, m), m, done) :
     done \in DoneBeforeFailure(m, Readded(store, m))}

\* modifyPeers succeeds and addNewPeer fails inside addNewPeers.
AddFails(store, m) ==
  {addPeers(Cleared(store, m), m, Readded(store, m) \cup done) :
     done \in IF \A k \in Readded(store, m) : Parses(m[k])
              THEN DoneBeforeFailure(m, Added(store, m)) ELSE {}}

-----------------------------------------------------------------------------
(* Engine.handleSync, one action for each way through it.                  *)

Alive == result # "panic"

\* receiveEvents has handled an update with the map n, or without a map
\* (NoSerial): an error is logged, and this stream does not bring n again.
receiveEvents(n, r) ==
  /\ result' = r
  /\ due' = (due /\ n # top)
  /\ missed' = IF n = top THEN r # "ok" ELSE missed

\* updateTURNs, updateSTUNs, handleRelayUpdate or handleFlowUpdate fails and
\* the rest of the update, network map included, is skipped.
ConfigFails(n) ==
  /\ Alive
  /\ receiveEvents(n, "error")
  /\ UNCHANGED <<server, wgUp, networkSerial, routeSerial, peers, checks,
                 persist, latest>>

\* The checks are stored before SyncMeta is tried.
updateChecksIfNew(c) == checks' = c

\* ... and when SyncMeta fails the rest of the update is skipped.
ChecksFail(c, n) ==
  /\ Alive
  /\ checks # c
  /\ updateChecksIfNew(c)
  /\ receiveEvents(n, "error")
  /\ UNCHANGED <<server, wgUp, networkSerial, routeSerial, peers, persist,
                 latest>>

\* An update without a network map.
SyncNoMap(c) ==
  /\ Alive
  /\ updateChecksIfNew(c)
  /\ receiveEvents(NoSerial, "ok")
  /\ UNCHANGED <<server, wgUp, networkSerial, routeSerial, peers, persist,
                 latest>>

\* Mutant of storeSyncResponse: the flag is not looked at.
storeSyncResponseAlways(n) == latest' = n

\* The response is stored before the serial of its map is looked at.
storeSyncResponse(n) == latest' = IF persist THEN n ELSE latest

\* updateConfig fails: the map carries a PeerConfig and the engine is stopped.
SyncMapNoInterface(c, n) ==
  /\ Alive
  /\ ~wgUp
  /\ updateChecksIfNew(c)
  /\ storeSyncResponse(n)
  /\ receiveEvents(n, "error")
  /\ UNCHANGED <<server, wgUp, networkSerial, routeSerial, peers, persist>>

\* Mutant of Outdated: late maps are not recognised.
OutdatedNever(n) == FALSE

\* The map has a PeerConfig only if the interface is there (else the previous
\* action), and its serial is behind the applied one.
Outdated(n) == networkSerial > n

SyncMapOutdated(c, n, hasPeerConfig) ==
  /\ Alive
  /\ hasPeerConfig => wgUp
  /\ Outdated(n)
  /\ updateChecksIfNew(c)
  /\ storeSyncResponse(n)
  /\ receiveEvents(n, "ok")
  /\ UNCHANGED <<server, wgUp, networkSerial, routeSerial, peers, persist>>

\* A map without a PeerConfig on a stopped engine: wgInterface.Address() is
\* called on the nil interface.
SyncMapPanics(c, n) ==
  /\ Alive
  /\ ~wgUp
  /\ ~Outdated(n)
  /\ updateChecksIfNew(c)
  /\ storeSyncResponse(n)
  /\ receiveEvents(n, "panic")
  /\ UNCHANGED <<server, wgUp, networkSerial, routeSerial, peers, persist>>

\* What the two last outcomes share: DNS, routes, firewall and forwarding
\* rules are updated (their errors are only logged) before the peers.
updateNetworkMap(c, n) ==
  /\ Alive
  /\ wgUp
  /\ ~Outdated(n)
  /\ updateChecksIfNew(c)
  /\ storeSyncResponse(n)
  /\ routeSerial' = n
  /\ UNCHANGED <<server, wgUp, persist>>

SyncMapApplied(c, n) ==
  /\ updateNetworkMap(c, n)
  /\ AllParse(peers, maps[n])
  /\ peers' = PeersApplied(peers, maps[n])
  /\ networkSerial' = n
  /\ receiveEvents(n, "ok")

\* Mutant of SyncMapFails: the error of addNewPeer is not returned.
SyncMapFailsSilently(c, n) ==
  /\ updateNetworkMap(c, n)
  /\ peers' \in ModifyFails(peers, maps[n]) \cup AddFails(peers, maps[n])
  /\ receiveEvents(n, "ok")
  /\ UNCHANGED networkSerial

SyncMapFails(c, n) ==
  /\ updateNetworkMap(c, n)
  /\ peers' \in ModifyFails(peers, maps[n]) \cup AddFails(peers, maps[n])
  /\ receiveEvents(n, "error")
  /\ UNCHANGED networkSerial

handleSync ==
  \/ \E n \in 0..top \cup {NoSerial} :
       ConfigFails(n) \/ \E c \in Checks : ChecksFail(c, n)
  \/ \E c \in Checks :
       \/ SyncNoMap(c)
       \/ \E n \in 0..top :
            \/ SyncMapNoInterface(c, n)
            \/ \E hasPeerConfig \in BOOLEAN : SyncMapOutdated(c, n, hasPeerConfig)
            \/ SyncMapPanics(c, n)
            \/ SyncMapApplied(c, n)
            \/ SyncMapFails(c, n)

-----------------------------------------------------------------------------
(* The engine's other operations, and its environment.                     *)

SetSyncResponsePersistence(enabled) ==
  /\ Alive
  /\ enabled # persist
  /\ persist' = enabled
  /\ latest' = IF enabled THEN latest ELSE NoSerial
  /\ UNCHANGED <<server, due, missed, wgUp, networkSerial, routeSerial,
                 peers, checks, result>>

\* Mutant of Stop: the peers are not removed.
StopKeepsPeers ==
  /\ Alive
  /\ wgUp
  /\ wgUp' = FALSE
  /\ UNCHANGED <<server, due, missed, networkSerial, routeSerial, peers,
                 checks, persist, latest, result>>

\* Engine.Stop: removes the peers and closes the interface, and leaves the
\* serial, the checks and the stored response as they are.  Updates already
\* received are still handled, by the methods above.
Stop ==
  /\ Alive
  /\ wgUp
  /\ wgUp' = FALSE
  /\ peers' = removeAllPeers
  /\ UNCHANGED <<server, due, missed, networkSerial, routeSerial, checks,
                 persist, latest, result>>

\* The connect loop makes a new engine from the checks of a new login, and
\* Start opens a Sync stream, on which the newest map comes first.
\* A process that panicked is started again and forgets the flag.
NewEngine(c) ==
  /\ ~wgUp
  /\ wgUp' = TRUE
  /\ networkSerial' = 0
  /\ routeSerial' = 0
  /\ peers' = removeAllPeers
  /\ checks' = c
  /\ due' = TRUE
  /\ missed' = FALSE
  /\ latest' = NoSerial
  /\ persist' = (Alive /\ persist)
  /\ result' = "none"
  /\ UNCHANGED server

\* The stream broke and GrpcClient.Sync opened another, on which the newest
\* map comes again.
StreamReconnect ==
  /\ Alive
  /\ wgUp
  /\ due' = TRUE
  /\ missed' = FALSE
  /\ result' = "none"
  /\ UNCHANGED <<server, wgUp, networkSerial, routeSerial, peers,
                 checks, persist, latest>>

\* The Management Service publishes a new map.
Publish(m) ==
  /\ top < MaxSerial
  /\ top' = top + 1
  /\ maps' = [maps EXCEPT ![top + 1] = m]
  /\ due' = TRUE
  /\ missed' = FALSE
  /\ UNCHANGED <<wgUp, networkSerial, routeSerial, peers, checks, persist,
                 latest, result>>

Init ==
  /\ top = 0
  /\ maps \in [Serials -> {removeAllPeers}]
  /\ checks \in Checks
  /\ due = TRUE
  /\ missed = FALSE
  /\ wgUp = TRUE
  /\ networkSerial = 0
  /\ routeSerial = 0
  /\ peers = removeAllPeers
  /\ persist = FALSE
  /\ latest = NoSerial
  /\ result = "none"

Next ==
  \/ handleSync
  \/ \E enabled \in BOOLEAN : SetSyncResponsePersistence(enabled)
  \/ Stop
  \/ \E c \in Checks : NewEngine(c)
  \/ StreamReconnect
  \/ \E m \in NetworkMap : Publish(m)

Spec == Init /\ [][Next]_vars

-----------------------------------------------------------------------------
(* Properties.                                                             *)

\* The connection a map prescribes for peer k, if it can be made.
Prescribed(m, k) == IF m[k] # NoPeer /\ Parses(m[k]) THEN Parsed(m[k]) ELSE NoPeer

\* Peers, routes, DNS and firewall come from one map: each stored peer is what
\* the map last handed to the other subsystems (updateNetworkMap applies them
\* first) says of it, even after updates that failed half-way, and that map is
\* published and not older than the last one applied in full.
OneMap ==
  /\ routeSerial >= networkSerial
  /\ routeSerial <= top
  /\ \A k \in Keys : peers[k] \in {NoPeer, Prescribed(maps[routeSerial], k)}

\* Engine.Stop removed all peers, and no update that is handled afterwards
\* (it was received before, or waited for the mutex) brings one back.
StoppedHasNoPeers == ~wgUp => peers = removeAllPeers

\* connect.go: "When disabled, any stored sync response will be cleared", and
\* no update handled afterwards stores another one.
DisabledStoresNothing == ~persist => latest = NoSerial

\* The engine has the newest map, and its peers are exactly those it prescribes.
Converged == wgUp /\ networkSerial = top
                  /\ \A k \in Keys : peers[k] = Prescribed(maps[top], k)

\* Only an error that receiveEvents logs makes an engine miss the newest map: it
\* has converged, or the map is still to come, or its handling failed and the
\* stream is the same.  No late map, skipped update or restart does.
OnlyErrorsMiss == wgUp /\ Alive => Converged \/ due \/ missed

\* The applied serial never goes back while an engine lives, and no update
\* hands an older map than the applied one to the other subsystems.
SerialNeverRegresses ==
  [][(wgUp \/ ~wgUp') => networkSerial' >= networkSerial /\
                         (routeSerial' # routeSerial => routeSerial' >= networkSerial)]_vars

\* The engine implements PeerView: its connections as the abstract ones, the
\* maps as the connections they prescribe.
View == INSTANCE PeerView WITH
  Conns    <- PeerConn,
  newest   <- top,
  view     <- [n \in Serials |-> [k \in Keys |-> Prescribed(maps[n], k)]],
  complete <- [n \in Serials |-> \A k \in Keys : maps[n][k] # NoPeer => Parses(maps[n][k])],
  up       <- wgUp,
  serial   <- networkSerial,
  conns    <- peers

ImplementsPeerView == View!ASpec

\* Fairness: the newest map, which an open stream has to bring, is received and
\* given to handleSync.  Nothing makes the handling succeed, and nothing makes a
\* healthy stream bring the map again or a new one open.
FairSpec == Spec /\ WF_vars(wgUp /\ due /\ handleSync /\ ~due')

\* An engine that stays up, and whose newest map can be parsed, ends with exactly
\* the peers of that map and keeps them, whatever partial failures and late maps
\* came before; or else the handling of that map failed on every stream that
\* brought it, the last of which may stay open for ever: receiveEvents only logs
\* the error.  One delivery that does not fail repairs all that others left.
Recovers ==
  <>[](wgUp /\ Alive /\ \A k \in Keys : maps[top][k] # NoPeer => Parses(maps[top][k]))
    => <>[]Converged \/ []<>(missed /\ ~Converged)
=============================================================================
