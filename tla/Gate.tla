-------------------------------- MODULE Gate --------------------------------
(***************************************************************************)
(* What the pause gate promises, without lock or channels: a switch and    *)
(* goroutines that wait at it.  One passes at an instant at which the gate *)
(* runs and is refused once its context has ended, and for no other        *)
(* reason.  Crawler and ConfigRefresh rely on it.                          *)
(***************************************************************************)
CONSTANT Goroutine

VARIABLES
    running,     \* whether the gate lets goroutines through
    cancelled,   \* whether their context has ended
    at           \* where each goroutine is, or what its last wait reported

vars == <<running, cancelled, at>>

Init ==
    /\ running = TRUE
    /\ cancelled = FALSE
    /\ at = [g \in Goroutine |-> "out"]

Switch == running' = ~running /\ UNCHANGED <<cancelled, at>>

Cancel == ~cancelled /\ cancelled' = TRUE /\ UNCHANGED <<running, at>>

Moves(g, from, to) ==
    /\ at[g] \in from
    /\ at' = [at EXCEPT ![g] = to]
    /\ UNCHANGED <<running, cancelled>>

\* A goroutine that was refused does not come back.
Arrive(g) == Moves(g, {"out", "true"}, "waiting")
Pass(g) == running /\ Moves(g, {"waiting"}, "true")
Refuse(g) == cancelled /\ Moves(g, {"waiting"}, "false")

Next ==
    \/ Switch \/ Cancel
    \/ \E g \in Goroutine : Arrive(g) \/ Pass(g) \/ Refuse(g)

Spec == Init /\ [][Next]_vars
=============================================================================
