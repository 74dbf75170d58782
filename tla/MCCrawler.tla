----------------------------- MODULE MCCrawler -----------------------------
(***************************************************************************)
(* Small instances of Crawler for TLC.                                     *)
(***************************************************************************)
EXTENDS Crawler

CONSTANTS k1, k2, k3, A, B

MCOneProvider == [k \in Key |-> A]
MCTwoProviders == [k \in Key |-> IF k = k3 THEN B ELSE A]
=============================================================================
