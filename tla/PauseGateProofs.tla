-------------------------- MODULE PauseGateProofs --------------------------
(***************************************************************************)
(* Theorems about PauseGate, for any number of waiters and pauses.         *)
(***************************************************************************)
EXTENDS PauseGate, TLAPS

LEMMA GateInit == Init => GateInv
<1> SUFFICES ASSUME Init PROVE GateInv
  OBVIOUS
<1>1. 0 \in Chan
  BY GateAssumption DEF Chan
<1>2. TypeOK /\ NeverPanics
  BY <1>1 DEF Init, TypeOK, NeverPanics
<1>3. NoLostWakeup
  BY DEF Init, NoLostWakeup
<1> QED BY <1>2, <1>3 DEF GateInv

LEMMA GateNext == GateInv /\ [Next]_vars => GateInv'
<1> SUFFICES ASSUME GateInv, [Next]_vars PROVE GateInv'
  OBVIOUS
<1> USE GateAssumption DEF GateInv, TypeOK, NoLostWakeup, NeverPanics, Chan, Paused
<1>1. CASE pause
  <2>1. TypeOK' /\ NeverPanics'
    BY <1>1 DEF pause
  <2>2. NoLostWakeup'
    BY <1>1 DEF pause
  <2> QED BY <2>1, <2>2
<1>2. CASE resume
  <2>1. TypeOK' /\ NeverPanics'
    BY <1>2 DEF resume
  <2>2. NoLostWakeup'
    BY <1>2 DEF resume
  <2> QED BY <2>1, <2>2
<1>3. CASE Cancel
  BY <1>3 DEF Cancel
<1>4. ASSUME NEW w \in Waiter, Call(w) PROVE GateInv'
  BY <1>4 DEF Call, Goto
<1>5. ASSUME NEW w \in Waiter, Test(w) PROVE GateInv'
  BY <1>5 DEF Test, Goto
<1>6. ASSUME NEW w \in Waiter, Look(w) PROVE GateInv'
  BY <1>6 DEF Look, Goto
<1>7. ASSUME NEW w \in Waiter, Wake(w) PROVE GateInv'
  BY <1>7 DEF Wake, Goto
<1>8. ASSUME NEW w \in Waiter, WakeCancelled(w) PROVE GateInv'
  BY <1>8 DEF WakeCancelled, Goto
<1>9. CASE UNCHANGED vars
  BY <1>9 DEF vars
<1> QED
  BY <1>1, <1>2, <1>3, <1>4, <1>5, <1>6, <1>7, <1>8, <1>9 DEF Next, WaitStep

\* Every channel a waiter may sleep on is closed already or is the one the
\* next resume closes, and that close never panics (pause.go:24-42).
THEOREM GateCorrect == Spec => []GateInv
<1> QED BY GateInit, GateNext, PTL DEF Spec

\* close is never called on a closed channel (pause.go:37-41).
THEOREM ResumeNeverPanics == Spec => []NeverPanics
<1>1. GateInv => NeverPanics
  BY DEF GateInv
<1> QED BY <1>1, GateCorrect, PTL

\* wait reports true only at an instant at which the gate was running,
\* however pauses and resumes interleave with it (pause.go:55-77).
PassesOnlyWhenRunning ==
    [][\A w \in Waiter : pc[w] # "true" /\ pc'[w] = "true" => ~Paused]_vars

\* wait returns true only while the gate runs: a waiter that a resume woke
\* and a later pause overtook goes back to sleep (pause.go:55-77).
THEOREM WaitPassesOnlyWhenRunning == Spec => PassesOnlyWhenRunning
<1>1. TypeOK /\ [Next]_vars =>
        [\A w \in Waiter : pc[w] # "true" /\ pc'[w] = "true" => ~Paused]_vars
  <2> SUFFICES ASSUME TypeOK, Next, NEW w \in Waiter, pc[w] # "true", pc'[w] = "true"
               PROVE  ~Paused
    OBVIOUS
  <2>1. PICK v \in Waiter : Call(v) \/ WaitStep(v)
    BY DEF Next, pause, resume, Cancel
  <2>2. v = w
    BY <2>1 DEF TypeOK, Call, WaitStep, Test, Look, Wake, WakeCancelled, Goto
  <2> QED BY <2>1, <2>2 DEF TypeOK, Call, WaitStep, Test, Look, Wake,
          WakeCancelled, Goto
<1>2. GateInv => TypeOK
  BY DEF GateInv
<1> QED BY <1>1, <1>2, GateCorrect, PTL DEF Spec, PassesOnlyWhenRunning
-----------------------------------------------------------------------------
(***************************************************************************)
(* PauseGate implements Gate                                               *)
(***************************************************************************)
At == [w \in Waiter |-> Place(w)]

\* What a step of wait comes to in the contract.
LEMMA StepMovesPlace ==
    ASSUME TypeOK, NEW w \in Waiter, NEW l, pc' = [pc EXCEPT ![w] = l]
    PROVE  At' = [At EXCEPT ![w] = IF l \in {"test", "look", "sleep"} THEN "waiting" ELSE l]
<1> DEFINE p == IF l \in {"test", "look", "sleep"} THEN "waiting" ELSE l
<1>1. Place(w)' = p
  BY DEF TypeOK, Place
<1>2. \A v \in Waiter \ {w} : Place(v)' = Place(v)
  BY DEF TypeOK, Place
<1> HIDE DEF p
<1>3. \A v \in Waiter : At'[v] = IF v = w THEN p ELSE At[v]
  BY <1>1, <1>2 DEF At
<1>4. At' = [At EXCEPT ![w] = p]
  BY <1>3 DEF At
<1> QED BY <1>4 DEF p

LEMMA GateInitImplemented == Init => Contract!Init
<1> SUFFICES ASSUME Init PROVE Contract!Init
  OBVIOUS
<1>1. ~Paused
  BY DEF Init, Paused
<1>2. [w \in Waiter |-> Place(w)] = [w \in Waiter |-> "out"]
  BY DEF Init, Place
<1> QED BY <1>1, <1>2 DEF Init, Contract!Init

\* A pause that finds the gate running and a resume that finds it paused turn
\* the switch.
LEMMA SwitchImplemented ==
    ASSUME TypeOK, NoLostWakeup, pause \/ resume
    PROVE  Contract!Switch
<1>1. Paused' = ~Paused
  <2>1. CASE pause
    <3>1. chan + 1 \notin shut
      BY GateAssumption DEF TypeOK, NoLostWakeup, Chan
    <3> QED BY <2>1, <3>1 DEF pause, Paused
  <2>2. CASE resume
    BY <2>2 DEF resume, Paused
  <2> QED BY <2>1, <2>2
<1>2. done' = done /\ [w \in Waiter |-> Place(w)]' = [w \in Waiter |-> Place(w)]
  BY DEF pause, resume, Place
<1> QED BY <1>1, <1>2 DEF Contract!Switch

LEMMA WaitImplemented ==
    ASSUME TypeOK, NEW w \in Waiter, Call(w) \/ WaitStep(w)
    PROVE  \/ Contract!Arrive(w) \/ Contract!Pass(w) \/ Contract!Refuse(w)
           \/ UNCHANGED <<~Paused, done, At>>
<1>1. IF pc[w] \in {"test", "look", "sleep"} THEN Place(w) = "waiting" ELSE Place(w) = pc[w]
  BY DEF Place
<1>2. At[w] = Place(w) /\ At = [v \in Waiter |-> Place(v)]
  BY DEF At
<1>3. UNCHANGED <<~Paused, done>>
  BY DEF Call, WaitStep, Test, Look, Wake, WakeCancelled, Paused
<1>4. CASE Call(w)
  <2>1. At' = [At EXCEPT ![w] = "waiting"] /\ pc[w] \in {"out", "true"}
    BY <1>4, StepMovesPlace DEF Call, Goto
  <2> QED BY <1>1, <1>2, <1>3, <2>1 DEF Contract!Arrive, Contract!Moves, At
<1>5. ASSUME pc[w] \in {"test", "look", "sleep"}, NEW l \in {"test", "look", "sleep"},
             pc' = [pc EXCEPT ![w] = l]
      PROVE  UNCHANGED <<~Paused, done, At>>
  <2>1. At' = [At EXCEPT ![w] = "waiting"]
    BY <1>5, StepMovesPlace
  <2>2. At[w] = "waiting"
    BY <1>1, <1>2, <1>5
  <2>3. At' = At
    BY <2>1, <2>2 DEF At
  <2> QED BY <1>3, <2>3
<1>6. ASSUME pc[w] \in {"test", "look", "sleep"}, pc' = [pc EXCEPT ![w] = "true"], ~Paused
      PROVE  Contract!Pass(w)
  <2>1. At' = [At EXCEPT ![w] = "true"]
    BY <1>6, StepMovesPlace
  <2>2. At[w] = "waiting"
    BY <1>1, <1>2, <1>6
  <2> QED BY <1>3, <1>6, <2>1, <2>2 DEF Contract!Pass, Contract!Moves, At
<1>7. ASSUME pc[w] \in {"test", "look", "sleep"}, pc' = [pc EXCEPT ![w] = "false"], done
      PROVE  Contract!Refuse(w)
  <2>1. At' = [At EXCEPT ![w] = "false"]
    BY <1>7, StepMovesPlace
  <2>2. At[w] = "waiting"
    BY <1>1, <1>2, <1>7
  <2> QED BY <1>3, <1>7, <2>1, <2>2 DEF Contract!Refuse, Contract!Moves, At
<1>8. CASE Test(w)
  BY <1>5, <1>7, <1>8 DEF Test, Goto
<1>9. CASE Look(w)
  BY <1>5, <1>6, <1>9 DEF Look, Goto
<1>10. CASE Wake(w)
  BY <1>5, <1>10 DEF Wake, Goto
<1>11. CASE WakeCancelled(w)
  BY <1>7, <1>11 DEF WakeCancelled, Goto
<1> QED BY <1>4, <1>8, <1>9, <1>10, <1>11 DEF WaitStep

LEMMA GateStepImplemented ==
    TypeOK /\ NoLostWakeup /\ [Next]_vars => [Contract!Next]_(Contract!vars)
<1> SUFFICES ASSUME TypeOK, NoLostWakeup, [Next]_vars
             PROVE  Contract!Next \/ UNCHANGED <<~Paused, done, At>>
  BY DEF Contract!vars, At
<1>1. CASE pause \/ resume
  BY <1>1, SwitchImplemented DEF Contract!Next
<1>2. CASE Cancel
  BY <1>2 DEF Cancel, Contract!Next, Contract!Cancel, Paused, Place
<1>3. ASSUME NEW w \in Waiter, Call(w) \/ WaitStep(w)
      PROVE  Contract!Next \/ UNCHANGED <<~Paused, done, At>>
  BY <1>3, WaitImplemented DEF Contract!Next
<1>4. CASE UNCHANGED vars
  BY <1>4 DEF vars, Paused, At, Place
<1> QED BY <1>1, <1>2, <1>3, <1>4 DEF Next

\* The channel that every pause replaces, the lock and the loop around them
\* are one switch to everybody who waits (pause.go:12-15, 24-77).
THEOREM GateIsSwitch == Spec => ImplementsGate
<1>1. GateInv => TypeOK /\ NoLostWakeup
  BY DEF GateInv
<1> QED BY <1>1, GateCorrect, GateInitImplemented, GateStepImplemented, PTL
        DEF Spec, ImplementsGate, Contract!Spec
=============================================================================
