-------------------------- MODULE MCConfigRefresh --------------------------
(***************************************************************************)
(* Small instances of ConfigRefresh for TLC.                               *)
(***************************************************************************)
EXTENDS ConfigRefresh, TLC

CONSTANTS u1, u2, g1, g2, bad, garbage

MCPublishes == (u1 :> {g1, g2, bad}) @@ (u2 :> {g1, g2, garbage})
=============================================================================
