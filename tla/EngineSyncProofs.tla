-------------------------- MODULE EngineSyncProofs --------------------------
(***************************************************************************)
(* Proofs about EngineSync for every set of peers, versions, allowed-IPs   *)
(* lists and checks and every bound on the serials.                        *)
(***************************************************************************)
EXTENDS EngineSync, TLAPS

(* The operators on the store.                                             *)

\* A configuration that parses is stored as a connection.
LEMMA ParsedType ==
  ASSUME NEW c \in RemotePeerConfig, Parses(c)
  PROVE  Parsed(c) \in PeerConn
  BY ParseAssumption DEF RemotePeerConfig, PeerConn, Parses, Parsed

\* A prescribed connection is a connection, or none.
LEMMA PrescribedType ==
  ASSUME NEW m \in NetworkMap, NEW k \in Keys
  PROVE  Prescribed(m, k) \in PeerConn \cup {NoPeer}
  BY ParsedType DEF NetworkMap, Prescribed

\* addPeers keeps the store a store when it adds peers of the map that parse.
LEMMA AddPeersType ==
  ASSUME NEW store \in Store, NEW m \in NetworkMap, NEW ks \in SUBSET Keys,
         \A k \in ks : m[k] # NoPeer /\ Parses(m[k])
  PROVE  addPeers(store, m, ks) \in Store
  BY ParsedType DEF addPeers, Store, NetworkMap

\* The store left by removePeers and the removal
\* half of modifyPeers: every peer in it has the connection the map prescribes.
LEMMA ClearedIsPart ==
  ASSUME NEW store \in Store, NEW m \in NetworkMap
  PROVE  /\ Cleared(store, m) \in Store
         /\ \A k \in Keys : Cleared(store, m)[k] \in {NoPeer, Prescribed(m, k)}
  <1>1. removePeers(store, m) \in Store
    BY DEF removePeers, Store
  <1>2. Cleared(store, m) \in Store
    BY <1>1 DEF Cleared, removeModified, Store
  <1>3. ASSUME NEW k \in Keys, Cleared(store, m)[k] # NoPeer
        PROVE  Cleared(store, m)[k] = Prescribed(m, k)
    <2>1. /\ Cleared(store, m)[k] = store[k]
          /\ store[k] \in PeerConn
          /\ m[k] \in RemotePeerConfig
          /\ store[k].ver = m[k].ver
          /\ Parse[m[k].ips] = store[k].ips
      BY <1>3, NoPeerAssumption
      DEF Cleared, removeModified, removePeers, Modified, compareNetIPLists,
          Store, NetworkMap
    <2>2. Parses(m[k])
      BY <2>1, InvalidAssumption DEF Parses, PeerConn
    <2>3. store[k] = [ver |-> store[k].ver, ips |-> store[k].ips]
      BY <2>1 DEF PeerConn
    <2>4. store[k] = Parsed(m[k])
      BY <2>1, <2>3 DEF Parsed
    <2>5. m[k] # NoPeer
      BY <2>1, NoPeerAssumption
    <2> QED BY <2>1, <2>2, <2>4, <2>5 DEF Prescribed
  <1> QED BY <1>2, <1>3

\* What addPeers adds to a part of the map is again a part of the map.
LEMMA AddPeersIsPart ==
  ASSUME NEW store \in Store, NEW m \in NetworkMap, NEW ks \in SUBSET Keys,
         \A k \in ks : m[k] # NoPeer /\ Parses(m[k]),
         \A k \in Keys : store[k] \in {NoPeer, Prescribed(m, k)}
  PROVE  /\ addPeers(store, m, ks) \in Store
         /\ \A k \in Keys : addPeers(store, m, ks)[k] \in {NoPeer, Prescribed(m, k)}
  BY AddPeersType DEF addPeers, Prescribed

\* The peers that are added are peers of the map.
LEMMA AddedAreNamed ==
  ASSUME NEW store \in Store, NEW m \in NetworkMap
  PROVE  /\ Readded(store, m) \subseteq Keys
         /\ Added(store, m) \subseteq Keys
         /\ \A k \in Readded(store, m) \cup Added(store, m) : m[k] # NoPeer
  BY DEF Readded, Added, Modified, Missing

\* An update that succeeds leaves exactly the connections the map prescribes.
LEMMA AppliedIsMap ==
  ASSUME NEW store \in Store, NEW m \in NetworkMap, AllParse(store, m)
  PROVE  /\ PeersApplied(store, m) \in Store
         /\ PeersApplied(store, m) = [k \in Keys |-> Prescribed(m, k)]
         /\ \A k \in Keys : m[k] # NoPeer => Parses(m[k])
  <1> DEFINE ks  == Readded(store, m) \cup Added(store, m)
             clr == Cleared(store, m)
  <1>1. /\ clr \in Store
        /\ \A k \in Keys : clr[k] \in {NoPeer, Prescribed(m, k)}
    BY ClearedIsPart
  <1>2. ks \in SUBSET Keys /\ \A k \in ks : m[k] # NoPeer /\ Parses(m[k])
    BY AddedAreNamed DEF AllParse
  <1>3. ASSUME NEW k \in Keys
        PROVE  /\ addPeers(clr, m, ks)[k] = Prescribed(m, k)
               /\ m[k] # NoPeer => Parses(m[k])
    <2>1. CASE k \in ks
      BY <1>2, <2>1 DEF addPeers, Prescribed
    <2>2. CASE k \notin ks /\ m[k] = NoPeer
      BY <1>1, <2>2 DEF addPeers, Prescribed
    <2>3. CASE k \notin ks /\ m[k] # NoPeer
      <3>1. clr[k] # NoPeer
        BY <2>3 DEF Added, Missing
      <3>2. clr[k] = Prescribed(m, k) /\ Prescribed(m, k) # NoPeer
        BY <1>1, <3>1
      <3> QED BY <2>3, <3>2 DEF addPeers, Prescribed
    <2> QED BY <2>1, <2>2, <2>3
  <1>4. addPeers(clr, m, ks) \in Store
    BY <1>1, <1>2, AddPeersType
  <1> QED BY <1>3, <1>4 DEF PeersApplied, addPeers

\* An update that fails leaves a part of the connections the map prescribes.
LEMMA FailedIsPart ==
  ASSUME NEW store \in Store, NEW m \in NetworkMap,
         NEW new \in ModifyFails(store, m) \cup AddFails(store, m)
  PROVE  /\ new \in Store
         /\ \A k \in Keys : new[k] \in {NoPeer, Prescribed(m, k)}
  <1> DEFINE clr == Cleared(store, m)
  <1>1. PICK ks \in SUBSET Keys : /\ new = addPeers(clr, m, ks)
                                  /\ \A k \in ks : m[k] # NoPeer /\ Parses(m[k])
    <2>1. CASE new \in ModifyFails(store, m)
      BY <2>1, AddedAreNamed DEF ModifyFails, DoneBeforeFailure
    <2>2. CASE new \in AddFails(store, m)
      <3>1. PICK done \in SUBSET Added(store, m) :
              /\ new = addPeers(clr, m, Readded(store, m) \cup done)
              /\ \A k \in Readded(store, m) \cup done : Parses(m[k])
        BY <2>2 DEF AddFails, DoneBeforeFailure
      <3> QED BY <3>1, AddedAreNamed
    <2> QED BY <2>1, <2>2
  <1> QED BY <1>1, ClearedIsPart, AddPeersIsPart

-----------------------------------------------------------------------------
(* Type correctness.                                                       *)

\* The empty store is a store, and the empty map a map.
LEMMA EmptyType == removeAllPeers \in Store /\ removeAllPeers \in NetworkMap
  BY DEF removeAllPeers, Store, NetworkMap

\* The part of a step that updateNetworkMap's outcomes share is well typed.
LEMMA UpdateMapType ==
  ASSUME TypeOK, NEW c \in Checks, NEW n \in 0..top, updateNetworkMap(c, n)
  PROVE  /\ n \in Serials
         /\ maps[n] \in NetworkMap
         /\ top' \in Serials /\ maps' \in [Serials -> NetworkMap]
         /\ checks' \in Checks
         /\ wgUp' \in BOOLEAN /\ persist' \in BOOLEAN
         /\ routeSerial' \in Serials
         /\ latest' \in Serials \cup {NoSerial}
  BY SerialAssumption
  DEF TypeOK, Serials, updateNetworkMap, updateChecksIfNew, storeSyncResponse, server

\* What receiveEvents does after each update is well typed.
LEMMA ReceiveType ==
  \A n, r : /\ TypeOK /\ r \in {"ok", "error", "panic"} /\ receiveEvents(n, r)
            => /\ result' \in Results /\ due' \in BOOLEAN /\ missed' \in BOOLEAN
  BY DEF receiveEvents, TypeOK, Results

\* Every handler and every step of the environment keeps the state well typed.
LEMMA TypeStep == TypeOK /\ [Next]_vars => TypeOK'
  <1> SUFFICES ASSUME TypeOK, [Next]_vars PROVE TypeOK'
    OBVIOUS
  <1>1. ASSUME NEW n \in 0..top \cup {NoSerial}, ConfigFails(n) PROVE TypeOK'
    BY <1>1, ReceiveType DEF ConfigFails, TypeOK, server
  <1>2. ASSUME NEW c \in Checks, NEW n \in 0..top \cup {NoSerial}, ChecksFail(c, n)
        PROVE  TypeOK'
    BY <1>2, ReceiveType DEF ChecksFail, updateChecksIfNew, TypeOK, server
  <1>3. ASSUME NEW c \in Checks, SyncNoMap(c) PROVE TypeOK'
    BY <1>3, ReceiveType DEF SyncNoMap, updateChecksIfNew, TypeOK, server
  <1>4. ASSUME NEW c \in Checks, NEW n \in 0..top,
               \/ SyncMapNoInterface(c, n)
               \/ \E h \in BOOLEAN : SyncMapOutdated(c, n, h)
               \/ SyncMapPanics(c, n)
        PROVE  TypeOK'
    <2>1. n \in Serials
      BY SerialAssumption DEF TypeOK, Serials
    <2> QED
      BY <1>4, <2>1, ReceiveType DEF SyncMapNoInterface, SyncMapOutdated,
           SyncMapPanics, updateChecksIfNew, storeSyncResponse, TypeOK, server
  <1>5. ASSUME NEW c \in Checks, NEW n \in 0..top, SyncMapApplied(c, n)
        PROVE  TypeOK'
    <2>1. updateNetworkMap(c, n) /\ AllParse(peers, maps[n])
          /\ peers' = PeersApplied(peers, maps[n])
          /\ networkSerial' = n /\ receiveEvents(n, "ok")
      BY <1>5 DEF SyncMapApplied
    <2>2. peers' \in Store
      BY <2>1, UpdateMapType, AppliedIsMap DEF TypeOK
    <2> QED BY <2>1, <2>2, UpdateMapType, ReceiveType DEF TypeOK
  <1>6. ASSUME NEW c \in Checks, NEW n \in 0..top, SyncMapFails(c, n)
        PROVE  TypeOK'
    <2>1. updateNetworkMap(c, n)
          /\ peers' \in ModifyFails(peers, maps[n]) \cup AddFails(peers, maps[n])
          /\ networkSerial' = networkSerial /\ receiveEvents(n, "error")
      BY <1>6 DEF SyncMapFails
    <2>2. peers' \in Store
      BY <2>1, UpdateMapType, FailedIsPart DEF TypeOK
    <2> QED BY <2>1, <2>2, UpdateMapType, ReceiveType DEF TypeOK
  <1>7. ASSUME NEW b \in BOOLEAN, SetSyncResponsePersistence(b) PROVE TypeOK'
    BY <1>7 DEF SetSyncResponsePersistence, TypeOK, server
  <1>8. CASE Stop
    BY <1>8, EmptyType DEF Stop, TypeOK, server
  <1>9. ASSUME NEW c \in Checks, NewEngine(c) PROVE TypeOK'
    <2>1. 0 \in Serials
      BY SerialAssumption DEF Serials
    <2>2. due' \in BOOLEAN /\ missed' \in BOOLEAN /\ wgUp' \in BOOLEAN /\ persist' \in BOOLEAN
      BY <1>9 DEF NewEngine, TypeOK
    <2> QED BY <1>9, <2>1, <2>2, EmptyType DEF NewEngine, TypeOK, Results, server
  <1>10. CASE StreamReconnect
    BY <1>10 DEF StreamReconnect, TypeOK, Results, server
  <1>11. ASSUME NEW m \in NetworkMap, Publish(m) PROVE TypeOK'
    <2>1. top' \in Serials /\ maps' \in [Serials -> NetworkMap]
      BY <1>11, SerialAssumption DEF Publish, TypeOK, Serials
    <2>2. due' \in BOOLEAN /\ missed' \in BOOLEAN
      BY <1>11 DEF Publish
    <2> QED BY <1>11, <2>1, <2>2 DEF Publish, TypeOK
  <1>12. CASE UNCHANGED vars
    BY <1>12 DEF vars, TypeOK
  <1> QED
    BY <1>1, <1>2, <1>3, <1>4, <1>5, <1>6, <1>7, <1>8, <1>9, <1>10, <1>11, <1>12
    DEF Next, handleSync

\* The initial states are well typed.
LEMMA TypeInit == Init => TypeOK
  <1> SUFFICES ASSUME Init PROVE TypeOK
    OBVIOUS
  <1>1. maps \in [Serials -> NetworkMap] /\ peers \in Store
    BY EmptyType DEF Init
  <1>2. 0 \in Serials
    BY SerialAssumption DEF Serials
  <1> QED BY <1>1, <1>2 DEF Init, TypeOK, Results

\* Type correctness of the engine's sync state.
THEOREM TypeCorrect == Spec => []TypeOK
  BY TypeInit, TypeStep, PTL DEF Spec

-----------------------------------------------------------------------------
(* The safety invariants.                                                  *)

\* The inductive invariant: the types say what OneMap's parts are made of.
SyncInv == TypeOK /\ OneMap /\ StoppedHasNoPeers /\ DisabledStoresNothing

\* A map that is published later does not change the maps before it.
LEMMA PublishKeeps ==
  ASSUME TypeOK, NEW m \in NetworkMap, Publish(m), NEW n \in 0..top
  PROVE  maps'[n] = maps[n]
  BY SerialAssumption DEF TypeOK, Serials, Publish

\* The three invariants are inductive together with the types.
LEMMA SyncInvStep == SyncInv /\ [Next]_vars => SyncInv'
  <1> SUFFICES ASSUME SyncInv, [Next]_vars
               PROVE  OneMap' /\ StoppedHasNoPeers' /\ DisabledStoresNothing'
    BY TypeStep DEF SyncInv
  <1> USE DEF SyncInv
  <1>0. TypeOK'
    BY TypeStep
  <1>1. CASE UNCHANGED <<server, networkSerial, routeSerial, peers, wgUp>>
             /\ DisabledStoresNothing'
    BY <1>1 DEF server, OneMap, StoppedHasNoPeers, Prescribed, Parsed, Parses
  <1>2. ASSUME NEW n, ConfigFails(n)
        PROVE  OneMap' /\ StoppedHasNoPeers' /\ DisabledStoresNothing'
    BY <1>1, <1>2 DEF ConfigFails, DisabledStoresNothing
  <1>3. ASSUME NEW c \in Checks, NEW n, ChecksFail(c, n) \/ SyncNoMap(c)
        PROVE  OneMap' /\ StoppedHasNoPeers' /\ DisabledStoresNothing'
    BY <1>1, <1>3 DEF ChecksFail, SyncNoMap, DisabledStoresNothing
  <1>4. ASSUME NEW c \in Checks, NEW n \in 0..top,
               \/ SyncMapNoInterface(c, n)
               \/ \E h \in BOOLEAN : SyncMapOutdated(c, n, h)
               \/ SyncMapPanics(c, n)
        PROVE  OneMap' /\ StoppedHasNoPeers' /\ DisabledStoresNothing'
    BY <1>1, <1>4 DEF SyncMapNoInterface, SyncMapOutdated, SyncMapPanics,
         storeSyncResponse, DisabledStoresNothing
  <1>5. ASSUME NEW c \in Checks, NEW n \in 0..top,
               SyncMapApplied(c, n) \/ SyncMapFails(c, n)
        PROVE  OneMap' /\ StoppedHasNoPeers' /\ DisabledStoresNothing'
    <2>1. updateNetworkMap(c, n)
      BY <1>5 DEF SyncMapApplied, SyncMapFails
    <2>2. /\ maps[n] \in NetworkMap
          /\ wgUp' /\ routeSerial' = n /\ n >= networkSerial
          /\ maps' = maps /\ top' = top
      BY <2>1, UpdateMapType
      DEF updateNetworkMap, Outdated, server, TypeOK, Serials
    <2>3. networkSerial' <= n
      BY <1>5, <2>2 DEF SyncMapApplied, SyncMapFails, TypeOK, Serials
    <2>4. \A k \in Keys : peers'[k] \in {NoPeer, Prescribed(maps[n], k)}
      <3>1. CASE SyncMapApplied(c, n)
        BY <2>2, <3>1, AppliedIsMap DEF SyncMapApplied, TypeOK
      <3>2. CASE SyncMapFails(c, n)
        BY <2>2, <3>2, FailedIsPart DEF SyncMapFails, TypeOK
      <3> QED BY <1>5, <3>1, <3>2
    <2>5. OneMap'
      BY <2>2, <2>3, <2>4, <1>0 DEF OneMap, Prescribed, Parsed, Parses, TypeOK, Serials
    <2>6. DisabledStoresNothing'
      BY <2>1 DEF updateNetworkMap, storeSyncResponse, DisabledStoresNothing
    <2> QED BY <2>2, <2>5, <2>6 DEF StoppedHasNoPeers
  <1>6. ASSUME NEW b \in BOOLEAN, SetSyncResponsePersistence(b)
        PROVE  OneMap' /\ StoppedHasNoPeers' /\ DisabledStoresNothing'
    BY <1>1, <1>6 DEF SetSyncResponsePersistence, DisabledStoresNothing
  <1>7. CASE Stop
    <2>1. OneMap'
      BY <1>7 DEF Stop, OneMap, removeAllPeers, server
    <2> QED BY <1>7, <2>1 DEF Stop, StoppedHasNoPeers, DisabledStoresNothing, removeAllPeers
  <1>8. ASSUME NEW c \in Checks, NewEngine(c)
        PROVE  OneMap' /\ StoppedHasNoPeers' /\ DisabledStoresNothing'
    <2>1. OneMap'
      BY <1>8 DEF NewEngine, OneMap, removeAllPeers, server, TypeOK, Serials
    <2> QED BY <1>8, <2>1 DEF NewEngine, StoppedHasNoPeers, DisabledStoresNothing
  <1>9. CASE StreamReconnect
    BY <1>1, <1>9 DEF StreamReconnect, DisabledStoresNothing
  <1>10. ASSUME NEW m \in NetworkMap, Publish(m)
         PROVE  OneMap' /\ StoppedHasNoPeers' /\ DisabledStoresNothing'
    <2>1. maps'[routeSerial] = maps[routeSerial]
      BY <1>10, PublishKeeps DEF OneMap, TypeOK, Serials
    <2>2. OneMap'
      BY <1>10, <2>1 DEF Publish, OneMap, Prescribed, Parsed, Parses, TypeOK, Serials
    <2> QED BY <1>10, <2>2 DEF Publish, StoppedHasNoPeers, DisabledStoresNothing, removeAllPeers
  <1>11. CASE UNCHANGED vars
    BY <1>1, <1>11 DEF vars, server, DisabledStoresNothing
  <1> QED
    BY <1>2, <1>3, <1>4, <1>5, <1>6, <1>7, <1>8, <1>9, <1>10, <1>11
    DEF Next, handleSync

\* The inductive invariant holds throughout.
LEMMA SyncInvCorrect == Spec => []SyncInv
  <1>1. ASSUME Init PROVE SyncInv
    <2>1. OneMap
      BY <1>1 DEF Init, OneMap, removeAllPeers
    <2> QED
      BY <1>1, <2>1, TypeInit DEF Init, SyncInv, StoppedHasNoPeers, DisabledStoresNothing
  <1> QED BY <1>1, SyncInvStep, PTL DEF Spec

\* Peers, routes, DNS and firewall always come from one published map, not
\* older than the last one applied, whatever updates failed in between.
THEOREM OneMapAlways == Spec => []OneMap
  BY SyncInvCorrect, PTL DEF SyncInv

\* A stopped engine has no peers, whatever it still handles.
THEOREM StoppedHasNoPeersAlways == Spec => []StoppedHasNoPeers
  BY SyncInvCorrect, PTL DEF SyncInv

\* With persistence off no sync response is kept.
THEOREM DisabledStoresNothingAlways == Spec => []DisabledStoresNothing
  BY SyncInvCorrect, PTL DEF SyncInv

\* A step that leaves the engine and the newest map alone, and does not handle
\* that map, keeps OnlyErrorsMiss; so does one that ends in an error.
LEMMA SameKeeps ==
  ASSUME OnlyErrorsMiss,
         UNCHANGED <<server, wgUp, networkSerial, peers>>, Alive,
         NEW n, NEW r, receiveEvents(n, r), n = top => r # "ok"
  PROVE  OnlyErrorsMiss'
  BY DEF OnlyErrorsMiss, Converged, server, Prescribed, Parsed, Parses, receiveEvents

\* An engine that is up has the newest map, or is still to get it, or has been
\* told of an error: the handlers leave no other way to miss it.
LEMMA OnlyErrorsMissStep == SyncInv /\ OnlyErrorsMiss /\ [Next]_vars => OnlyErrorsMiss'
  <1> SUFFICES ASSUME SyncInv, OnlyErrorsMiss, [Next]_vars PROVE OnlyErrorsMiss'
    OBVIOUS
  <1>1. ASSUME NEW n \in 0..top \cup {NoSerial},
               ConfigFails(n) \/ \E c \in Checks : ChecksFail(c, n)
        PROVE  OnlyErrorsMiss'
    BY <1>1, SameKeeps DEF ConfigFails, ChecksFail
  <1>2. ASSUME NEW c \in Checks, SyncNoMap(c) PROVE OnlyErrorsMiss'
    BY <1>2, SameKeeps, SerialAssumption DEF SyncNoMap, SyncInv, TypeOK, Serials
  <1>3. ASSUME NEW c \in Checks, NEW n \in 0..top,
               SyncMapNoInterface(c, n) \/ SyncMapPanics(c, n)
        PROVE  OnlyErrorsMiss'
    BY <1>3 DEF SyncMapNoInterface, SyncMapPanics, OnlyErrorsMiss
  <1>4. ASSUME NEW c \in Checks, NEW n \in 0..top, NEW h \in BOOLEAN,
               SyncMapOutdated(c, n, h)
        PROVE  OnlyErrorsMiss'
    <2>1. n # top
      BY <1>4 DEF SyncMapOutdated, Outdated, SyncInv, OneMap, TypeOK, Serials
    <2> QED BY <1>4, <2>1, SameKeeps DEF SyncMapOutdated
  <1>5. ASSUME NEW c \in Checks, NEW n \in 0..top, SyncMapApplied(c, n)
        PROVE  OnlyErrorsMiss'
    <2>1. /\ updateNetworkMap(c, n) /\ AllParse(peers, maps[n])
          /\ peers' = PeersApplied(peers, maps[n]) /\ networkSerial' = n
          /\ receiveEvents(n, "ok")
      BY <1>5 DEF SyncMapApplied
    <2>2. maps' = maps /\ top' = top /\ wgUp' = wgUp /\ wgUp /\ Alive
          /\ n >= networkSerial
      BY <2>1 DEF updateNetworkMap, server, Outdated, SyncInv, TypeOK, Serials
    <2>3. CASE n = top
      <3>1. peers' = [k \in Keys |-> Prescribed(maps[n], k)]
        BY <2>1, UpdateMapType, AppliedIsMap DEF SyncInv, TypeOK
      <3>2. Converged'
        BY <2>1, <2>2, <2>3, <3>1 DEF Converged, Prescribed, Parsed, Parses
      <3> QED BY <3>2 DEF OnlyErrorsMiss
    <2>4. CASE n # top
      <3>1. due' = due /\ missed' = missed
        BY <2>1, <2>4 DEF receiveEvents, SyncInv, TypeOK
      <3>2. ~Converged
        BY <2>2, <2>4 DEF Converged, SyncInv, TypeOK, Serials
      <3> QED BY <2>2, <3>1, <3>2 DEF OnlyErrorsMiss
    <2> QED BY <2>3, <2>4
  <1>6. ASSUME NEW c \in Checks, NEW n \in 0..top, SyncMapFails(c, n)
        PROVE  OnlyErrorsMiss'
    <2>1. /\ updateNetworkMap(c, n) /\ networkSerial' = networkSerial
          /\ receiveEvents(n, "error")
      BY <1>6 DEF SyncMapFails
    <2>2. top' = top /\ wgUp' = wgUp /\ wgUp /\ Alive /\ n >= networkSerial
      BY <2>1 DEF updateNetworkMap, server, Outdated, SyncInv, TypeOK, Serials
    <2>3. CASE n = top
      BY <2>1, <2>3 DEF receiveEvents, OnlyErrorsMiss
    <2>4. CASE n # top
      <3>1. due' = due /\ missed' = missed
        BY <2>1, <2>4 DEF receiveEvents, SyncInv, TypeOK
      <3>2. ~Converged
        BY <2>2, <2>4 DEF Converged, SyncInv, TypeOK, Serials
      <3> QED BY <2>2, <3>1, <3>2 DEF OnlyErrorsMiss
    <2> QED BY <2>3, <2>4
  <1>7. ASSUME NEW b \in BOOLEAN, SetSyncResponsePersistence(b) PROVE OnlyErrorsMiss'
    BY <1>7 DEF SetSyncResponsePersistence, OnlyErrorsMiss, Converged, Alive, server,
                Prescribed, Parsed, Parses
  <1>8. CASE Stop
    BY <1>8 DEF Stop, OnlyErrorsMiss
  <1>9. ASSUME NEW c \in Checks, NewEngine(c) PROVE OnlyErrorsMiss'
    BY <1>9 DEF NewEngine, OnlyErrorsMiss
  <1>10. CASE StreamReconnect
    BY <1>10 DEF StreamReconnect, OnlyErrorsMiss
  <1>11. ASSUME NEW m \in NetworkMap, Publish(m) PROVE OnlyErrorsMiss'
    BY <1>11 DEF Publish, OnlyErrorsMiss
  <1>12. CASE UNCHANGED vars
    BY <1>12 DEF vars, OnlyErrorsMiss, Converged, Alive, Prescribed, Parsed, Parses
  <1> QED
    BY <1>1, <1>2, <1>3, <1>4, <1>5, <1>6, <1>7, <1>8, <1>9, <1>10, <1>11, <1>12
    DEF Next, handleSync

\* An engine that is up has exactly the newest map's peers, unless that map is
\* still to come or its handling failed on the stream that is open.
THEOREM OnlyErrorsMissAlways == Spec => []OnlyErrorsMiss
  <1>1. Init => OnlyErrorsMiss
    BY DEF Init, OnlyErrorsMiss
  <1> QED BY <1>1, OnlyErrorsMissStep, SyncInvCorrect, PTL DEF Spec

\* The serial never regresses while an engine lives, and no step hands an
\* older map than the applied one to the other subsystems.
THEOREM SerialNeverRegressesAlways == Spec => SerialNeverRegresses
  <1> DEFINE A == (wgUp \/ ~wgUp') =>
                    /\ networkSerial' >= networkSerial
                    /\ routeSerial' # routeSerial => routeSerial' >= networkSerial
  <1>1. ASSUME TypeOK, [Next]_vars PROVE [A]_vars
    <2>1. CASE UNCHANGED <<networkSerial, routeSerial>>
      BY <1>1, <2>1 DEF TypeOK, Serials
    <2>2. ASSUME NEW c \in Checks, NEW n \in 0..top, SyncMapApplied(c, n) \/ SyncMapFails(c, n)
          PROVE  A
      <3>1. updateNetworkMap(c, n) /\ networkSerial' \in {n, networkSerial}
        BY <2>2 DEF SyncMapApplied, SyncMapFails
      <3> QED BY <1>1, <3>1 DEF updateNetworkMap, Outdated, TypeOK, Serials
    <2>3. ASSUME NEW c \in Checks, NewEngine(c) PROVE A
      BY <2>3 DEF NewEngine
    <2> QED
      BY <1>1, <2>1, <2>2, <2>3
      DEF Next, handleSync, vars, ConfigFails, ChecksFail, SyncNoMap,
          SyncMapNoInterface, SyncMapOutdated, SyncMapPanics,
          SetSyncResponsePersistence, Stop, StreamReconnect, Publish
  <1> QED BY <1>1, TypeCorrect, PTL DEF Spec, SerialNeverRegresses

-----------------------------------------------------------------------------
(* Refinement of PeerView.                                                 *)

\* The maps as PeerView sees them, and whether each can be applied in full.
Seen      == [n \in Serials |-> [k \in Keys |-> Prescribed(maps[n], k)]]
Complete  == [n \in Serials |-> \A k \in Keys : maps[n][k] # NoPeer => Parses(maps[n][k])]

\* The engine starts as PeerView does.
LEMMA ViewInit == Init => View!AInit
  <1> SUFFICES ASSUME Init PROVE View!AInit
    OBVIOUS
  <1>1. ASSUME NEW n \in Serials PROVE maps[n] = [k \in Keys |-> NoPeer]
    BY DEF Init, removeAllPeers
  <1>2. Seen = [n \in 0..MaxSerial |-> View!Empty]
    BY <1>1 DEF Seen, Serials, Prescribed, View!Empty
  <1>3. Complete = [n \in 0..MaxSerial |-> TRUE]
    BY <1>1 DEF Complete, Serials
  <1> QED BY <1>2, <1>3 DEF Init, View!AInit, View!Empty, removeAllPeers, Seen, Complete

\* Each step of the engine is a step of PeerView or changes nothing in it.
LEMMA ViewStep == SyncInv /\ [Next]_vars => [View!ANext]_(View!avars)
  <1> SUFFICES ASSUME SyncInv, [Next]_vars PROVE [View!ANext]_(View!avars)
    OBVIOUS
  <1>1. CASE UNCHANGED <<server, wgUp, networkSerial, peers>>
    BY <1>1 DEF View!avars, server, Prescribed, Parsed, Parses
  <1>2. ASSUME NEW c \in Checks, NEW n \in 0..top, updateNetworkMap(c, n)
        PROVE  /\ n \in Serials /\ maps[n] \in NetworkMap
               /\ wgUp /\ wgUp' = wgUp /\ n >= networkSerial
               /\ top' = top /\ maps' = maps
    BY <1>2, UpdateMapType
    DEF updateNetworkMap, Outdated, server, SyncInv, TypeOK, Serials
  <1>a. ASSUME maps' = maps PROVE Seen' = Seen /\ Complete' = Complete
    BY <1>a DEF Seen, Complete, Prescribed, Parsed, Parses
  <1>b. ASSUME NEW n \in Serials
        PROVE  /\ Seen[n] = [k \in Keys |-> Prescribed(maps[n], k)]
               /\ Complete[n] <=> \A k \in Keys : maps[n][k] # NoPeer => Parses(maps[n][k])
    BY DEF Seen, Complete
  <1>3. ASSUME NEW c \in Checks, NEW n \in 0..top, SyncMapApplied(c, n)
        PROVE  View!Adopt(n)
    <2>1. updateNetworkMap(c, n) /\ networkSerial' = n
          /\ AllParse(peers, maps[n]) /\ peers' = PeersApplied(peers, maps[n])
      BY <1>3 DEF SyncMapApplied
    <2>2. n \in Serials /\ maps[n] \in NetworkMap /\ peers \in Store
      BY <1>2, <2>1 DEF SyncInv, TypeOK
    <2>3. /\ peers' = [k \in Keys |-> Prescribed(maps[n], k)]
          /\ \A k \in Keys : maps[n][k] # NoPeer => Parses(maps[n][k])
      BY <2>1, <2>2, AppliedIsMap
    <2>4. peers' = Seen[n] /\ Complete[n]
      BY <1>b, <2>2, <2>3
    <2>5. Seen' = Seen /\ Complete' = Complete
      BY <1>2, <1>a, <2>1
    <2> QED BY <1>2, <2>1, <2>4, <2>5 DEF View!Adopt, Seen, Complete
  <1>4. ASSUME NEW c \in Checks, NEW n \in 0..top, SyncMapFails(c, n)
        PROVE  View!Attempt(n)
    <2>1. updateNetworkMap(c, n) /\ networkSerial' = networkSerial
          /\ peers' \in ModifyFails(peers, maps[n]) \cup AddFails(peers, maps[n])
      BY <1>4 DEF SyncMapFails
    <2>2. n \in Serials /\ maps[n] \in NetworkMap /\ peers \in Store
      BY <1>2, <2>1 DEF SyncInv, TypeOK
    <2> DEFINE m == maps[n]
    <2>a. \A new \in ModifyFails(peers, m) \cup AddFails(peers, m) :
            new \in Store /\ \A k \in Keys : new[k] \in {NoPeer, Prescribed(m, k)}
      <3> HIDE DEF m
      <3> QED BY <2>2, FailedIsPart DEF m
    <2>3. peers' \in Store
          /\ \A k \in Keys : peers'[k] \in {NoPeer, Prescribed(maps[n], k)}
      BY <2>1, <2>a
    <2>b. \A k \in Keys : Seen[n][k] = Prescribed(maps[n], k)
      BY <1>b, <2>2
    <2>c. peers' \in View!Views
      BY <2>3 DEF View!Views, Store
    <2>4. peers' \in View!Views /\ View!PartOf(peers', Seen[n])
      BY <2>b, <2>c, <2>3 DEF View!PartOf
    <2>5. Seen' = Seen /\ Complete' = Complete
      BY <1>2, <1>a, <2>1
    <2> QED BY <1>2, <2>1, <2>4, <2>5 DEF View!Attempt, Seen, Complete
  <1>5. CASE Stop
    BY <1>5 DEF Stop, View!ANext, View!Down, View!Empty, removeAllPeers, server,
                Prescribed, Parsed, Parses
  <1>6. ASSUME NEW c \in Checks, NewEngine(c) PROVE View!Renew
    BY <1>6 DEF NewEngine, View!Renew, SyncInv, StoppedHasNoPeers, server,
                Prescribed, Parsed, Parses
  <1>7. ASSUME NEW m \in NetworkMap, Publish(m) PROVE View!Announce
    <2> DEFINE v == [k \in Keys |-> Prescribed(m, k)]
               b == \A k \in Keys : m[k] # NoPeer => Parses(m[k])
    <2>1. v \in View!Views /\ b \in BOOLEAN
      BY PrescribedType DEF View!Views
    <2>2. Seen' = [Seen EXCEPT ![top + 1] = v]
      BY <1>7 DEF Publish, Seen, SyncInv, TypeOK, Serials, Prescribed, Parsed, Parses
    <2>3. Complete' = [Complete EXCEPT ![top + 1] = b]
      BY <1>7 DEF Publish, Complete, SyncInv, TypeOK, Serials, Parses
    <2> QED BY <1>7, <2>1, <2>2, <2>3 DEF Publish, View!Announce, Seen, Complete
  <1> QED
    BY <1>1, <1>3, <1>4, <1>5, <1>6, <1>7
    DEF Next, handleSync, vars, View!ANext, server, ConfigFails, ChecksFail,
        SyncNoMap, SyncMapNoInterface, SyncMapOutdated, SyncMapPanics,
        SetSyncResponsePersistence, StreamReconnect

\* The engine implements PeerView.
THEOREM EngineImplementsPeerView == Spec => ImplementsPeerView
  BY ViewInit, ViewStep, SyncInvCorrect, PTL DEF Spec, ImplementsPeerView, View!ASpec
=============================================================================
