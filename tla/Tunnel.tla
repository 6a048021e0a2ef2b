------------------------------- MODULE Tunnel -------------------------------
(***************************************************************************)
(* What the WireGuard interface promises to the engine and to the route    *)
(* manager: one table of peers, that every call changes in one step, and   *)
(* one address.  A new interface starts with no peers, whatever was there  *)
(* under its name.  Giving up a peer's endpoint keeps its allowed IPs and  *)
(* forgets its other settings, only UpdatePeer adds a peer to a strict     *)
(* interface, and a call that fails changes nothing, but for two losses:   *)
(* the peer whose endpoint is given up, and the address.  WGIface shows    *)
(* that the code implements this specification.                            *)
(***************************************************************************)
EXTENDS Functions

CONSTANTS
  Keys,      \* the peers' public keys
  Ips,       \* the prefixes routed to peers
  Addrs      \* addresses of the interface

VARIABLES
  strict,    \* only UpdatePeer adds a peer
  open,      \* the interface exists and is configured
  addr,      \* its addresses
  peers      \* its peers: their allowed IPs, whether they have an endpoint, and
             \* the settings only UpdatePeer makes (keepalive, preshared key)

avars == <<strict, open, addr, peers>>

AInit ==
  /\ ~open
  /\ addr = {}
  /\ peers = <<>>

Address == addr' = {} \/ \E a \in Addrs : addr' = {a}

Open ==
  /\ ~open
  /\ open'
  /\ Address
  /\ peers' = <<>>

\* Closed, or deleted by someone else.
Shut ==
  /\ ~open'
  /\ addr' = {}
  /\ peers' = <<>>

\* An allowed IP has one peer: the one it was given to last.
Put(k, new) ==
  peers' = [j \in DOMAIN peers \cup {k} |->
              IF j = k THEN new ELSE [peers[j] EXCEPT !.ips = @ \ new.ips]]

Old(k) == IF k \in DOMAIN peers THEN peers[k]
          ELSE [ips |-> {}, ep |-> FALSE, keep |-> FALSE]

Update(k, ips, ep) ==
  Put(k, [ips |-> Old(k).ips \cup ips, ep |-> Old(k).ep \/ ep, keep |-> TRUE])

Remove(k) == peers' = Restrict(peers, DOMAIN peers \ {k})

RemoveEndpoint(k) ==
  /\ k \in DOMAIN peers
  /\ peers' = [peers EXCEPT ![k].ep = FALSE, ![k].keep = FALSE]

AddIP(k, ip) ==
  /\ strict => k \in DOMAIN peers
  /\ Put(k, [Old(k) EXCEPT !.ips = @ \cup {ip}])

RemoveIP(k, ip) ==
  /\ k \in DOMAIN peers
  /\ peers' = [peers EXCEPT ![k].ips = @ \ {ip}]

ChangePeers ==
  \E k \in Keys :
    \/ \E ips \in SUBSET Ips, ep \in BOOLEAN : Update(k, ips, ep)
    \/ Remove(k)
    \/ RemoveEndpoint(k)
    \/ \E ip \in Ips : AddIP(k, ip) \/ RemoveIP(k, ip)

\* The kind of interface is chosen before it is opened.
Choose == ~open /\ UNCHANGED <<open, addr, peers>>

ANext ==
  \/ Choose
  \/ /\ \/ Open
        \/ Shut
        \/ open /\ ChangePeers /\ UNCHANGED <<open, addr>>
        \/ open /\ Address /\ UNCHANGED <<open, peers>>
     /\ UNCHANGED strict

ASpec == AInit /\ [][ANext]_avars
=============================================================================
