----------------------------- MODULE Documents ------------------------------
(***************************************************************************)
(* What the helper daemon promises to a program that reads the files it    *)
(* writes: a file holds one whole document or does not exist, a document   *)
(* is replaced by another in one step, a list of the Management Service is *)
(* never replaced by one from an older network map, and a reader gets a    *)
(* document that the file held while it was reading.  Temporary files,     *)
(* failed writes, kills and restarts are not visible here; HelperDaemon    *)
(* shows that the helper implements this specification.                    *)
(***************************************************************************)
EXTENDS Integers

CONSTANTS
  Files,     \* the files
  Demo,      \* the demo document of the stub mode
  NoDoc,     \* no document
  MaxMaps    \* bound: network maps, the other documents, are numbered

VARIABLES
  doc,       \* doc[f]: the document in file f
  last,      \* last[f]: the newest network map that file f ever held, or 0
  got        \* got[f]: the document a load of f in progress will return

avars == <<doc, last, got>>

AInit ==
  /\ doc = [f \in Files |-> NoDoc]
  /\ last = [f \in Files |-> 0]
  /\ got = [f \in Files |-> NoDoc]

PutDemo(f) ==
  /\ doc' = [doc EXCEPT ![f] = Demo]
  /\ UNCHANGED <<last, got>>

PutMap(f, n) ==
  /\ n >= last[f]
  /\ doc' = [doc EXCEPT ![f] = n]
  /\ last' = [last EXCEPT ![f] = n]
  /\ UNCHANGED got

Get(f) ==
  /\ doc[f] # NoDoc
  /\ got[f] = NoDoc
  /\ got' = [got EXCEPT ![f] = doc[f]]
  /\ UNCHANGED <<doc, last>>

Return(f) ==
  /\ got' = [got EXCEPT ![f] = NoDoc]
  /\ UNCHANGED <<doc, last>>

ANext ==
  \E f \in Files :
    \/ PutDemo(f)
    \/ \E n \in 1..MaxMaps : PutMap(f, n)
    \/ Get(f)
    \/ Return(f)

ASpec == AInit /\ [][ANext]_avars
=============================================================================
