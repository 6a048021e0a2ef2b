------------------------------ MODULE PeerView ------------------------------
(***************************************************************************)
(* What the engine promises about its peer connections, whatever the       *)
(* order, repetition or failure of the updates behind them: at any time    *)
(* they are a part of one published network map, a map is never replaced   *)
(* by one older than the last map applied in full, and an engine that is   *)
(* down has no connection.  How the connections are compared, removed and  *)
(* added again is not visible here; EngineSync shows that the engine       *)
(* implements this specification.                                          *)
(***************************************************************************)
EXTENDS Integers

CONSTANTS
  Keys,       \* peers
  Conns,      \* connection parameters of a peer
  NoPeer,     \* no connection
  MaxSerial   \* bound: the highest serial

VARIABLES
  newest,     \* the highest serial published
  view,       \* view[n][k]: the connection that map n prescribes for peer k,
              \* NoPeer if it names no such peer or none that can be made
  complete,   \* complete[n]: every peer of map n can be connected
  up,         \* the engine runs
  serial,     \* the last map applied in full
  conns       \* the connections that exist

avars == <<newest, view, complete, up, serial, conns>>

Views  == [Keys -> Conns \cup {NoPeer}]
Empty  == [k \in Keys |-> NoPeer]

\* c holds nothing but what v prescribes.
PartOf(c, v) == \A k \in Keys : c[k] \in {NoPeer, v[k]}

AInit ==
  /\ newest = 0
  /\ view = [n \in 0..MaxSerial |-> Empty]
  /\ complete = [n \in 0..MaxSerial |-> TRUE]
  /\ up = TRUE
  /\ serial = 0
  /\ conns = Empty

Announce ==
  /\ newest < MaxSerial
  /\ newest' = newest + 1
  /\ \E v \in Views, b \in BOOLEAN :
       /\ view' = [view EXCEPT ![newest + 1] = v]
       /\ complete' = [complete EXCEPT ![newest + 1] = b]
  /\ UNCHANGED <<up, serial, conns>>

\* A map at least as new as the last one is applied in full.
Adopt(n) ==
  /\ up
  /\ n >= serial
  /\ complete[n]
  /\ serial' = n
  /\ conns' = view[n]
  /\ UNCHANGED <<newest, view, complete, up>>

\* Such a map is applied in part; the serial does not move.
Attempt(n) ==
  /\ up
  /\ n >= serial
  /\ conns' \in Views
  /\ PartOf(conns', view[n])
  /\ UNCHANGED <<newest, view, complete, up, serial>>

Down ==
  /\ up
  /\ up' = FALSE
  /\ conns' = Empty
  /\ UNCHANGED <<newest, view, complete, serial>>

Renew ==
  /\ ~up
  /\ up' = TRUE
  /\ serial' = 0
  /\ UNCHANGED <<newest, view, complete, conns>>

ANext ==
  \/ Announce
  \/ \E n \in 0..newest : Adopt(n) \/ Attempt(n)
  \/ Down
  \/ Renew

ASpec == AInit /\ [][ANext]_avars
=============================================================================
