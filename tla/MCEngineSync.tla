---------------------------- MODULE MCEngineSync ----------------------------
(***************************************************************************)
(* Small instances of EngineSync: two peers, so that one may fail while    *)
(* the other is valid, and two serials beyond the empty map, so that a map *)
(* can be applied, changed, half applied and delivered late.  "a2" spells  *)
(* the same prefixes as "a".                                               *)
(***************************************************************************)
EXTENDS EngineSync

CONSTANTS k1, k2

MCKeys     == {k1, k2}
MCPrefixes == {"pa", "pb"}
MCParse    == [i \in AllowedIps |-> CASE i \in {"a", "a2"} -> "pa"
                                      [] i = "b"           -> "pb"
                                      [] OTHER             -> "invalid"]
=============================================================================
