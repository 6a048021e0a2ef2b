--------------------------- MODULE MCRouteManager ---------------------------
(* Instances of RouteManager: two networks that share a prefix, an exit    *)
(* node, and a network whose prefix is not allowed.                        *)
EXTENDS RouteManager

CONSTANTS a, b, exit, lo, lan, all, loopback

MCPrefixOf ==
  [n \in Networks |-> CASE n = exit -> all [] n = lo -> loopback [] OTHER -> lan]
=============================================================================
