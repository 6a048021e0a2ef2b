---------------------------- MODULE MCCommandLine ----------------------------
(* Small instance of CommandLine: seven ways to call up.                   *)
EXTENDS CommandLine, TLC

CONSTANTS p1, p2, u1, x1, url   \* x1 is the ASCII form of u1

Plain == NoArgs
Full  == [Plain EXCEPT !.profile = p2, !.nat = <<<<"ip", "iface">>>>,
                       !.labels = {u1}, !.mtu = MinMTU, !.admin = url]

MCArgs ==
  {Plain,
   Full,
   [Plain EXCEPT !.profile = p1, !.dns = FALSE],
   [Plain EXCEPT !.nat = <<<<"ip">>, <<"iface", "iface">>>>],
   [Plain EXCEPT !.foreground = TRUE, !.labels = {}],
   [Plain EXCEPT !.foreground = TRUE, !.mtu = MaxMTU + 1],
   [Plain EXCEPT !.labels = {BadLabel}]}

MCToPunycode == [l \in Labels |-> IF l = u1 THEN x1 ELSE l]

\* Commands are interchangeable.
Symmetry == Permutations(Cmds)
==============================================================================
