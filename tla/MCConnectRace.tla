--------------------------- MODULE MCConnectRace ---------------------------
(***************************************************************************)
(* Small instances of ConnectRace for TLC.                                 *)
(***************************************************************************)
EXTENDS ConnectRace, TLC

CONSTANTS A, B, f1, f2, f3

\* Two providers, one of them with a second front to fall back on.
MCLaneOf == [f \in Front |-> IF f = f2 THEN B ELSE A]
=============================================================================
