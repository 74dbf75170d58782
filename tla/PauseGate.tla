----------------------------- MODULE PauseGate -----------------------------
(***************************************************************************)
(* The pause gate of pause.go.  The gate owns one channel at a time, which *)
(* is open while the gate is paused and closed while it runs; a pause      *)
(* replaces a closed channel and a resume closes the open one.  A waiter   *)
(* sleeps on the channel it found, outside the lock, so it may wake up to  *)
(* another pause.  The critical sections of g.mu never block: each is one  *)
(* step.                                                                   *)
(***************************************************************************)
EXTENDS Naturals

CONSTANTS
    Waiter,     \* the crawler, the cache saver and the config updater
    MaxPause    \* bound: how many channels pauses may create

ASSUME GateAssumption == MaxPause \in Nat

Chan == 0 .. MaxPause

VARIABLES
    chan,      \* g.resumed: the number of the current channel
    shut,      \* the channels that are closed
    done,      \* the waiters' context has ended
    panicked,  \* a closed channel was closed
    pc,        \* where each waiter is
    mine       \* the channel it sleeps on

vars == <<chan, shut, done, panicked, pc, mine>>

Paused == chan \notin shut

Init ==
    /\ chan = 0
    /\ shut = {0}
    /\ done = FALSE
    /\ panicked = FALSE
    /\ pc = [w \in Waiter |-> "out"]
    /\ mine = [w \in Waiter |-> 0]
-----------------------------------------------------------------------------
\* Fault: a pause replaces the channel of a pause that still lasts.
pauseAgain ==
    /\ chan < MaxPause
    /\ chan' = chan + 1
    /\ UNCHANGED <<shut, done, panicked, pc, mine>>

\* Pausing a paused gate does nothing.
pause ==
    /\ ~Paused
    /\ chan < MaxPause
    /\ chan' = chan + 1
    /\ UNCHANGED <<shut, done, panicked, pc, mine>>

\* Resuming a gate that runs does nothing.
resume ==
    /\ Paused
    /\ panicked' = (panicked \/ chan \in shut)
    /\ shut' = shut \cup {chan}
    /\ UNCHANGED <<chan, done, pc, mine>>

\* The client is closed.
Cancel ==
    /\ ~done
    /\ done' = TRUE
    /\ UNCHANGED <<chan, shut, panicked, pc, mine>>
-----------------------------------------------------------------------------
(***************************************************************************)
(* wait(ctx)                                                               *)
(***************************************************************************)
Goto(w, label) == pc' = [pc EXCEPT ![w] = label]

\* A loop comes back to the gate, whatever its last call returned.
Call(w) ==
    /\ pc[w] \in {"out", "true"}
    /\ Goto(w, "test")
    /\ UNCHANGED <<chan, shut, done, panicked, mine>>

\* ctx.Err() at the head of the loop
Test(w) ==
    /\ pc[w] = "test"
    /\ Goto(w, IF done THEN "false" ELSE "look")
    /\ UNCHANGED <<chan, shut, done, panicked, mine>>

\* The critical section: the gate runs, or here is the channel to sleep on.
Look(w) ==
    /\ pc[w] = "look"
    /\ Goto(w, IF Paused THEN "sleep" ELSE "true")
    /\ mine' = [mine EXCEPT ![w] = IF Paused THEN chan ELSE 0]
    /\ UNCHANGED <<chan, shut, done, panicked>>

\* Fault: a waiter that wakes up takes the gate for open.
WakeTrusting(w) ==
    /\ pc[w] = "sleep" /\ mine[w] \in shut
    /\ Goto(w, "true")
    /\ mine' = [mine EXCEPT ![w] = 0]
    /\ UNCHANGED <<chan, shut, done, panicked>>

\* The channel was closed: look again, another pause may have replaced it.
Wake(w) ==
    /\ pc[w] = "sleep" /\ mine[w] \in shut
    /\ Goto(w, "test")
    /\ mine' = [mine EXCEPT ![w] = 0]
    /\ UNCHANGED <<chan, shut, done, panicked>>

\* Fault: a sleeping waiter does not watch its context.
WakeCancelledIgnored(w) == FALSE

WakeCancelled(w) ==
    /\ pc[w] = "sleep" /\ done
    /\ Goto(w, "false")
    /\ mine' = [mine EXCEPT ![w] = 0]
    /\ UNCHANGED <<chan, shut, done, panicked>>
-----------------------------------------------------------------------------
WaitStep(w) == Test(w) \/ Look(w) \/ Wake(w) \/ WakeCancelled(w)

Next ==
    \/ pause \/ resume \/ Cancel
    \/ \E w \in Waiter : Call(w) \/ WaitStep(w)

Spec == Init /\ [][Next]_vars

\* A goroutine that can run does; nobody must pause, resume, cancel or call.
FairSpec == Spec /\ \A w \in Waiter : WF_vars(WaitStep(w))
-----------------------------------------------------------------------------
TypeOK ==
    /\ chan \in Chan
    /\ shut \subseteq Chan
    /\ done \in BOOLEAN /\ panicked \in BOOLEAN
    /\ pc \in [Waiter -> {"out", "test", "look", "sleep", "true", "false"}]
    /\ mine \in [Waiter -> Chan]

\* No sleeper is forgotten: every channel but the current one is closed, so a
\* waiter that sleeps on a channel a later pause replaced is woken, and one
\* that sleeps on the current channel is woken by the next resume
\* (pause.go:12-15).
NoLostWakeup ==
    /\ \A c \in 0 .. chan : c # chan => c \in shut
    /\ \A c \in shut : c <= chan
    /\ \A w \in Waiter : mine[w] <= chan

\* close is never called on a closed channel (pause.go:37-41).
NeverPanics == ~panicked

GateInv == TypeOK /\ NoLostWakeup /\ NeverPanics

\* A waiter is in wait while it tests its context, looks at the gate or sleeps.
Place(w) == IF pc[w] \in {"test", "look", "sleep"} THEN "waiting" ELSE pc[w]

Contract == INSTANCE Gate WITH
    Goroutine <- Waiter, running <- ~Paused, cancelled <- done,
    at <- [w \in Waiter |-> Place(w)]

\* The lock, the channels and the loop of wait behave as one switch: wait
\* reports true only while the gate runs and false only for a context that
\* has ended, however it was woken (pause.go:12-15, 55-77).
ImplementsGate == Contract!Spec
=============================================================================
