----------------------------- MODULE MCWGIface ------------------------------
(***************************************************************************)
(* WGIface for TLC: wireguard depends on libchacha and, through it, on     *)
(* curve, so that the order of the two in modules.dep matters.             *)
(***************************************************************************)
EXTENDS WGIface

MCDeps == <<"libchacha", "curve">>
=============================================================================
