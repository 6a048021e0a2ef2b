---------------------------- MODULE MCMiniClient ----------------------------
(* Small instance of MiniClient.                                           *)
EXTENDS MiniClient, TLC

\* Commands are interchangeable.
Symmetry == Permutations(Procs)
=============================================================================
