------------------------ MODULE FrontPoolRefinement ------------------------
(***************************************************************************)
(* FrontPool implements Rotation: a front is available while its flag is   *)
(* set, which is from addReady's compare-and-swap to the store that        *)
(* follows a receive.                                                      *)
(***************************************************************************)
EXTENDS FrontPool

Avail == {f \in Front : queued[f]}

\* The fronts u has taken and has neither put back nor failed.
Answers(u) ==
    Range(put[u]) \cup ({sel[u]} \ {None})
                  \cup (IF pc[u] = "hold" THEN {cur[u]} ELSE {})

Has == [u \in User |-> Answers(u)]

Lent == [u \in User |-> IF pc[u] = "vet" THEN cur[u] ELSE None]

Contract == INSTANCE Rotation WITH
    Item <- Front, Client <- User, Nothing <- None,
    avail <- Avail, has <- Has, lent <- Lent

\* The channel, the flags and the two locks behave as one set of fronts with
\* an indivisible take and put (front.go:19-21, 120-149, 220-230).
ImplementsRotation == Contract!Spec
=============================================================================
