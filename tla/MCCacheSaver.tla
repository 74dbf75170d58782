---------------------------- MODULE MCCacheSaver ----------------------------
(***************************************************************************)
(* Small instances of CacheSaver for TLC.                                  *)
(***************************************************************************)
EXTENDS CacheSaver

CONSTANTS saver, f1, f2, u1
=============================================================================
