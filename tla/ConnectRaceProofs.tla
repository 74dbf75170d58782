------------------------- MODULE ConnectRaceProofs -------------------------
(***************************************************************************)
(* Theorems about ConnectRace, for any number of lanes, fronts, attempts   *)
(* and configuration updates.                                              *)
(***************************************************************************)
EXTENDS ConnectRace, FiniteSetTheorems, TLAPS

LaneState == {"begin", "take", "check", "vet", "dial", "failed", "sent"}
LaneResult == [lane : Lane, ok : BOOLEAN]

\* The lanes that have still to send their result.
Pending == {l \in Lane : lpc[l] # "sent"}

\* What the protocol of the results needs to know of the variables' types.
ShapeInv ==
    /\ lpc \in [Lane -> LaneState]
    /\ conn \in [Lane -> {"none", "open", "closed"}]
    /\ used \in [Lane -> BOOLEAN] /\ givenBack \in [Lane -> Nat]
    /\ results \in Seq(LaneResult)
    /\ remaining \in Nat /\ toRelease \in Nat

\* A result is that of a lane that has sent, which sends once; and only a
\* result that reports a connection comes with one.
ResultInv ==
    /\ \A i \in 1 .. Len(results) : lpc[results[i].lane] = "sent"
    /\ \A i, j \in 1 .. Len(results) : results[i].lane = results[j].lane => i = j

\* The caller waits or the releasing goroutine does, never both.
WaiterInv ==
    /\ cpc \in {"collect", "won", "error"}
    /\ cpc = "collect" => toRelease = 0 /\ ~raceOver
    /\ cpc # "collect" => remaining = 0 /\ raceOver

\* A round-tripper that is still a result is untouched, and so is that of a
\* lane that has not sent; an open one that is no result is the winner's.
OwnerInv ==
    \A l \in Lane :
        /\ conn[l] = "open" => InResults(l) \/ (cpc = "won" /\ l = winner)
        /\ InResults(l) \/ lpc[l] # "sent" => givenBack[l] = 0 /\ ~(cpc = "won" /\ l = winner)

\* The winner's front is returned by whoever swapped used, once.
WinnerInv ==
    /\ cpc = "won" => winner \in Lane
    /\ cpc # "won" => upc = "none"
    /\ cpc = "won" /\ ~used[winner] => givenBack[winner] = 0 /\ upc = "none"
    /\ upc \in {"plain", "upgradeOnH2"} => givenBack[winner] = 0

IInv ==
    /\ ShapeInv /\ ResultsAreAwaited /\ ResultInv /\ WaiterInv /\ OwnerInv /\ WinnerInv
    /\ GivenBackOnce

LEMMA PendingIsFinite == IsFiniteSet(Pending) /\ Cardinality(Pending) \in Nat
BY RaceAssumption, FS_Subset, FS_CardinalityType DEF Pending

LEMMA RaceInit == Init => IInv
<1> SUFFICES ASSUME Init PROVE IInv
  OBVIOUS
<1>1. ShapeInv
  BY RaceAssumption, FS_CardinalityType DEF Init, ShapeInv, LaneState
<1>2. ResultsAreAwaited
  <2>1. {l \in Lane : lpc[l] # "sent"} = Lane /\ Len(results) = 0 /\ remaining = Cardinality(Lane)
        /\ toRelease = 0
    BY DEF Init
  <2>2. Cardinality({l \in Lane : lpc[l] # "sent"}) = Cardinality(Lane)
    BY <2>1
  <2>3. Cardinality(Lane) \in Nat
    BY RaceAssumption, FS_CardinalityType
  <2> QED BY <2>1, <2>2, <2>3 DEF ResultsAreAwaited
<1>3. ResultInv /\ WaiterInv /\ WinnerInv /\ GivenBackOnce
  BY DEF Init, ResultInv, WaiterInv, WinnerInv, GivenBackOnce
<1>4. OwnerInv
  BY DEF Init, OwnerInv, InResults
<1> QED BY <1>1, <1>2, <1>3, <1>4 DEF IInv
-----------------------------------------------------------------------------
(***************************************************************************)
(* Every step of a lane is of one of two kinds: it moves on without a      *)
(* result, or it sends its one result.                                     *)
(***************************************************************************)
shared == <<cpc, remaining, toRelease, winner, used, givenBack, upc, raceOver>>

Moves(l) ==
    /\ lpc[l] # "sent"
    /\ \E p \in LaneState \ {"sent"} : lpc' = [lpc EXCEPT ![l] = p]
    /\ UNCHANGED <<results, conn, shared>>

Sends(l, ok) ==
    /\ lpc[l] # "sent"
    /\ SendResult(l, ok)
    /\ conn' = IF ok THEN [conn EXCEPT ![l] = "open"] ELSE conn
    /\ UNCHANGED shared

LEMMA LaneStepKinds ==
    ASSUME NEW l \in Lane, LaneStep(l)
    PROVE  Moves(l) \/ Sends(l, TRUE) \/ Sends(l, FALSE)
<1> USE DEF laneFrame, configVars, ctxVars, callerVars, rtVars, poolVars, shared, Moves, Sends,
        LaneState
<1>1. CASE LaneEnds(l)
  BY <1>1 DEF LaneEnds
<1>2. CASE LaneBegins(l)
  BY <1>2 DEF LaneBegins
<1>3. CASE \E f \in Front : LaneTakes(l, f) \/ LaneFallsBack(l, f)
  BY <1>3 DEF LaneTakes, LaneFallsBack, Chooses
<1>4. CASE LaneHasNone(l)
  BY <1>4 DEF LaneHasNone
<1>5. CASE LaneGone(l)
  BY <1>5 DEF LaneGone, NextAttempt
<1>6. CASE LaneUnusable(l)
  BY <1>6 DEF LaneUnusable
<1>7. CASE LaneChecked(l)
  BY <1>7 DEF LaneChecked
<1>8. CASE LaneVetted(l)
  BY <1>8 DEF LaneVetted
<1>9. CASE LaneDialFails(l)
  BY <1>9 DEF LaneDialFails
<1>10. CASE LaneConnects(l)
  BY <1>10 DEF LaneConnects
<1>11. CASE LaneCancelled(l)
  BY <1>11 DEF LaneCancelled
<1>12. CASE LaneFailsFront(l)
  BY <1>12 DEF LaneFailsFront, NextAttempt
<1> QED
  BY <1>1, <1>2, <1>3, <1>4, <1>5, <1>6, <1>7, <1>8, <1>9, <1>10, <1>11, <1>12 DEF LaneStep

LEMMA MoveKeepsIInv == ASSUME IInv, NEW l \in Lane, Moves(l) PROVE IInv'
<1>1. PICK p \in LaneState \ {"sent"} : lpc' = [lpc EXCEPT ![l] = p]
  BY DEF Moves
<1>2. /\ lpc[l] # "sent" /\ lpc'[l] # "sent" /\ \A m \in Lane : m # l => lpc'[m] = lpc[m]
      /\ lpc' \in [Lane -> LaneState]
  BY <1>1 DEF Moves, IInv, ShapeInv
<1>3. UNCHANGED <<results, conn, cpc, remaining, toRelease, winner, used, givenBack, upc, raceOver>>
  BY DEF Moves, shared
<1>4. ShapeInv' /\ WaiterInv' /\ WinnerInv' /\ GivenBackOnce'
  BY <1>2, <1>3 DEF IInv, ShapeInv, WaiterInv, WinnerInv, GivenBackOnce
<1>5. ResultsAreAwaited'
  <2>1. {m \in Lane : lpc'[m] # "sent"} = {m \in Lane : lpc[m] # "sent"}
    BY <1>2
  <2> QED BY <1>3, <2>1 DEF IInv, ResultsAreAwaited
<1>6. ResultInv'
  <2>1. \A i \in 1 .. Len(results) : results[i].lane \in Lane
    <3>1. \A i \in 1 .. Len(results) : results[i] \in LaneResult
      BY DEF IInv, ShapeInv
    <3> QED BY <3>1 DEF LaneResult
  <2> QED BY <1>2, <1>3, <2>1 DEF IInv, ResultInv
<1>7. OwnerInv'
  BY <1>2, <1>3 DEF IInv, OwnerInv, InResults
<1> QED BY <1>4, <1>5, <1>6, <1>7 DEF IInv

LEMMA SendKeepsIInv ==
    ASSUME IInv, NEW l \in Lane, NEW ok \in BOOLEAN, Sends(l, ok) PROVE IInv'
<1> DEFINE n == Len(results)
<1>1. /\ lpc[l] # "sent"
      /\ lpc' = [lpc EXCEPT ![l] = "sent"]
      /\ results' = Append(results, Result(l, ok))
      /\ conn' = IF ok THEN [conn EXCEPT ![l] = "open"] ELSE conn
      /\ UNCHANGED <<cpc, remaining, toRelease, winner, used, givenBack, upc, raceOver>>
  BY DEF Sends, SendResult, shared
<1>2. /\ lpc'[l] = "sent" /\ \A m \in Lane : m # l => lpc'[m] = lpc[m]
      /\ lpc' \in [Lane -> LaneState]
  BY <1>1 DEF IInv, ShapeInv, LaneState
<1>3. Result(l, ok) \in LaneResult /\ Result(l, ok).lane = l /\ Result(l, ok).ok = ok
  BY DEF Result, LaneResult
<1>4. /\ n \in Nat /\ Len(results') = n + 1 /\ results' \in Seq(LaneResult)
      /\ results'[n + 1] = Result(l, ok)
      /\ \A i \in 1 .. n : results'[i] = results[i] /\ results[i] \in LaneResult
  BY <1>1, <1>3 DEF IInv, ShapeInv
<1>5. \A i \in 1 .. n : results[i].lane \in Lane /\ results[i].lane # l
                        /\ lpc[results[i].lane] = "sent"
  BY <1>1, <1>4 DEF IInv, ResultInv, LaneResult
<1>6. ShapeInv' /\ WaiterInv' /\ GivenBackOnce' /\ WinnerInv'
  BY <1>1, <1>2, <1>4 DEF IInv, ShapeInv, WaiterInv, GivenBackOnce, WinnerInv
<1>7. ResultsAreAwaited'
  <2>1. Pending' = Pending \ {l} /\ l \in Pending
    BY <1>1, <1>2 DEF Pending
  <2>2. Cardinality(Pending') = Cardinality(Pending) - 1
    BY <2>1, PendingIsFinite, FS_RemoveElement
  <2>3. remaining + toRelease = n + Cardinality(Pending)
    BY DEF IInv, ResultsAreAwaited, Pending
  <2>4. remaining' + toRelease' = Len(results') + Cardinality(Pending')
    BY <1>1, <1>4, <2>2, <2>3, PendingIsFinite DEF IInv, ShapeInv
  <2> QED BY <2>4 DEF ResultsAreAwaited, Pending
<1>8. ResultInv'
  <2>1. \A i \in 1 .. n + 1 : results'[i].lane = IF i = n + 1 THEN l ELSE results[i].lane
    BY <1>3, <1>4
  <2>2. \A i \in 1 .. n + 1 : lpc'[results'[i].lane] = "sent"
    BY <1>2, <1>4, <1>5, <2>1
  <2>3. \A i, j \in 1 .. n : results[i].lane = results[j].lane => i = j
    BY DEF IInv, ResultInv
  <2>4. \A i, j \in 1 .. n + 1 : results'[i].lane = results'[j].lane => i = j
    BY <1>4, <1>5, <2>1, <2>3
  <2> QED BY <1>4, <2>2, <2>4 DEF ResultInv
<1>9. OwnerInv'
  <2>1. \A m \in Lane : InResults(m)' <=> InResults(m) \/ (m = l /\ ok)
    <3> TAKE m \in Lane
    <3>1. DOMAIN results = 1 .. n /\ DOMAIN results' = 1 .. n + 1
      BY <1>4 DEF IInv, ShapeInv
    <3>2. Result(l, ok) = Result(m, TRUE) <=> m = l /\ ok
      BY DEF Result
    <3>3. ASSUME InResults(m)' PROVE InResults(m) \/ (m = l /\ ok)
      <4>1. PICK i \in 1 .. n + 1 : results'[i] = Result(m, TRUE)
        BY <3>1, <3>3 DEF InResults
      <4>2. CASE i = n + 1
        BY <1>4, <3>2, <4>1, <4>2
      <4>3. CASE i \in 1 .. n
        BY <1>4, <3>1, <4>1, <4>3 DEF InResults
      <4> QED BY <1>4, <4>2, <4>3
    <3>4. ASSUME InResults(m) PROVE InResults(m)'
      <4>1. PICK i : i \in 1 .. n /\ results[i] = Result(m, TRUE)
        BY <3>1, <3>4 DEF InResults
      <4>2. i \in 1 .. n + 1
        BY <1>4, <4>1
      <4>3. results'[i] = results[i]
        BY <1>4, <4>1
      <4> QED BY <3>1, <4>1, <4>2, <4>3 DEF InResults
    <3>5. ASSUME m = l /\ ok PROVE InResults(m)'
      BY <1>4, <3>1, <3>2, <3>5 DEF InResults, Result
    <3> QED BY <3>3, <3>4, <3>5
  <2>2. ASSUME NEW m \in Lane, conn'[m] = "open"
        PROVE  InResults(m)' \/ (cpc' = "won" /\ m = winner')
    <3>1. conn[m] = "open" \/ (m = l /\ ok)
      BY <1>1, <2>2 DEF IInv, ShapeInv
    <3> QED BY <1>1, <2>1, <3>1 DEF IInv, OwnerInv
  <2>3. ASSUME NEW m \in Lane, InResults(m)' \/ lpc'[m] # "sent"
        PROVE  givenBack'[m] = 0 /\ ~(cpc' = "won" /\ m = winner')
    <3>1. InResults(m) \/ lpc[m] # "sent"
      BY <1>1, <1>2, <2>1, <2>3
    <3> QED BY <1>1, <3>1 DEF IInv, OwnerInv
  <2> QED BY <2>2, <2>3 DEF OwnerInv
<1> QED BY <1>6, <1>7, <1>8, <1>9 DEF IInv
-----------------------------------------------------------------------------
\* What taking the first result leaves: the others, and no more of its lane.
LEMMA HeadTaken ==
    ASSUME IInv, results # <<>>, results' = Tail(results), UNCHANGED lpc
    PROVE  /\ Head(results) \in LaneResult /\ lpc[Head(results).lane] = "sent"
           /\ Len(results) >= 1 /\ Len(results') = Len(results) - 1
           /\ results' \in Seq(LaneResult)
           /\ ResultInv'
           /\ Head(results).ok <=> InResults(Head(results).lane)
           /\ \A m \in Lane : InResults(m)' <=> InResults(m) /\ m # Head(results).lane
<1> DEFINE n == Len(results)
           h == Head(results)
<1>1. /\ n \in Nat \ {0} /\ h = results[1]
      /\ results' \in Seq(LaneResult) /\ Len(results') = n - 1
      /\ \A i \in 1 .. n - 1 : results'[i] = results[i + 1]
      /\ \A i \in 1 .. n : results[i] \in LaneResult
  BY DEF IInv, ShapeInv
<1>2. DOMAIN results = 1 .. n /\ DOMAIN results' = 1 .. n - 1
  BY <1>1 DEF IInv, ShapeInv
<1>3. \A i \in 1 .. n : lpc[results[i].lane] = "sent"
  BY DEF IInv, ResultInv
<1>4. \A i, j \in 1 .. n : results[i].lane = results[j].lane => i = j
  BY DEF IInv, ResultInv
<1> HIDE DEF n, h
<1>5. h \in LaneResult /\ lpc[h.lane] = "sent"
  BY <1>1, <1>3
<1>6. ResultInv'
  <2>1. \A i \in 1 .. n - 1 : lpc'[results'[i].lane] = "sent"
    BY <1>1, <1>3
  <2>2. \A i, j \in 1 .. n - 1 : results'[i].lane = results'[j].lane => i = j
    <3> SUFFICES ASSUME NEW i \in 1 .. n - 1, NEW j \in 1 .. n - 1,
                        results'[i].lane = results'[j].lane
                 PROVE  i = j
      OBVIOUS
    <3>1. i + 1 \in 1 .. n /\ j + 1 \in 1 .. n
      BY <1>1
    <3>2. results[i + 1].lane = results[j + 1].lane
      BY <1>1
    <3>3. i + 1 = j + 1
      BY <1>4, <3>1, <3>2
    <3> QED BY <1>1, <3>3
  <2> QED BY <1>1, <2>1, <2>2 DEF ResultInv
<1>7. \A i \in 1 .. n : results[i].lane = h.lane => i = 1
  BY <1>1, <1>4
<1>8. \A r \in LaneResult : r.ok <=> r = Result(r.lane, TRUE)
  BY DEF LaneResult, Result
<1>9. \A m \in Lane : Result(m, TRUE).lane = m /\ Result(m, TRUE).ok
  BY DEF Result
<1>10. h.lane \in Lane
  BY <1>5 DEF LaneResult
<1>11. h.ok <=> InResults(h.lane)
  <2>1. ASSUME h.ok PROVE InResults(h.lane)
    <3>1. n \in Nat \ {0} /\ h = results[1]
      BY <1>1
    <3>2. h = Result(h.lane, TRUE)
      BY <1>5, <1>8, <2>1
    <3>3. 1 \in 1 .. n
      BY <3>1
    <3> QED BY <1>2, <3>1, <3>2, <3>3 DEF InResults
  <2>2. ASSUME InResults(h.lane) PROVE h.ok
    <3>1. PICK i \in 1 .. n : results[i] = Result(h.lane, TRUE)
      BY <1>2, <2>2 DEF InResults
    <3>2. i = 1
      BY <1>7, <1>9, <1>10, <3>1
    <3> QED BY <1>1, <1>9, <1>10, <3>1, <3>2
  <2> QED BY <2>1, <2>2
<1>12. \A m \in Lane : InResults(m)' <=> InResults(m) /\ m # h.lane
  <2> TAKE m \in Lane
  <2>1. n \in Nat \ {0} /\ \A i \in 1 .. n - 1 : results'[i] = results[i + 1]
    BY <1>1
  <2>2. ASSUME InResults(m)' PROVE InResults(m) /\ m # h.lane
    <3>1. PICK i : i \in 1 .. n - 1 /\ results'[i] = Result(m, TRUE)
      BY <1>2, <2>2 DEF InResults
    <3>2. i + 1 \in 1 .. n /\ i + 1 # 1
      BY <2>1, <3>1
    <3>3. results[i + 1] = Result(m, TRUE)
      BY <2>1, <3>1
    <3>4. m # h.lane
      BY <1>7, <1>9, <3>2, <3>3
    <3> QED BY <1>2, <3>2, <3>3, <3>4 DEF InResults
  <2>3. ASSUME InResults(m), m # h.lane PROVE InResults(m)'
    <3>1. PICK i : i \in 1 .. n /\ results[i] = Result(m, TRUE)
      BY <1>2, <2>3 DEF InResults
    <3>2. i # 1
      BY <1>1, <1>9, <2>3, <3>1
    <3>3. i - 1 \in 1 .. n - 1 /\ (i - 1) + 1 = i
      BY <2>1, <3>1, <3>2
    <3>4. results'[i - 1] = results[i]
      BY <2>1, <3>3
    <3> QED BY <1>2, <3>1, <3>3, <3>4 DEF InResults
  <2> QED BY <2>2, <2>3
<1> QED BY <1>1, <1>5, <1>6, <1>11, <1>12

LEMMA CollectErrorKeepsIInv == ASSUME IInv, CollectError PROVE IInv'
<1> DEFINE h == Head(results)
<1>1. /\ cpc = "collect" /\ results # <<>> /\ ~h.ok
      /\ results' = Tail(results) /\ remaining' = remaining - 1
      /\ remaining = 1 => raceOver'
      /\ remaining # 1 => ~raceOver'
      /\ cpc' = (IF remaining = 1 THEN "error" ELSE "collect")
      /\ UNCHANGED <<toRelease, winner, lpc, conn, used, givenBack, upc>>
  BY DEF CollectError, callerFrame, laneVars, rtVars
<1>2. /\ Len(results) >= 1 /\ Len(results') = Len(results) - 1
      /\ results' \in Seq(LaneResult) /\ ResultInv'
      /\ ~InResults(h.lane)
      /\ \A m \in Lane : InResults(m)' <=> InResults(m) /\ m # h.lane
  BY <1>1, HeadTaken
<1>3. \A m \in Lane : InResults(m)' <=> InResults(m)
  BY <1>2
<1>4. toRelease = 0 /\ remaining \in Nat /\ Len(results) \in Nat
      /\ remaining = Len(results) + Cardinality(Pending)
  BY <1>1 DEF IInv, WaiterInv, ShapeInv, ResultsAreAwaited, Pending
<1>5. remaining >= 1
  BY <1>2, <1>4, PendingIsFinite
<1>6. ShapeInv'
  BY <1>1, <1>2, <1>4, <1>5 DEF IInv, ShapeInv
<1>7. ResultsAreAwaited'
  <2>1. Pending' = Pending
    BY <1>1 DEF Pending
  <2>2. remaining' + toRelease' = Len(results') + Cardinality(Pending')
    BY <1>1, <1>2, <1>4, <2>1, PendingIsFinite
  <2> QED BY <2>2 DEF ResultsAreAwaited, Pending
<1>8. WaiterInv'
  BY <1>1, <1>4, <1>5 DEF WaiterInv
<1>9. OwnerInv'
  BY <1>1, <1>3 DEF IInv, OwnerInv
<1>10. WinnerInv' /\ GivenBackOnce'
  BY <1>1 DEF IInv, WinnerInv, GivenBackOnce
<1> QED BY <1>2, <1>6, <1>7, <1>8, <1>9, <1>10 DEF IInv

LEMMA CollectWinnerKeepsIInv == ASSUME IInv, CollectWinner PROVE IInv'
<1> DEFINE h == Head(results)
<1>1. /\ cpc = "collect" /\ results # <<>> /\ h.ok
      /\ results' = Tail(results) /\ remaining' = 0 /\ toRelease' = remaining - 1
      /\ raceOver' = TRUE /\ cpc' = "won" /\ winner' = h.lane
      /\ UNCHANGED <<lpc, conn, used, givenBack, upc>>
  BY DEF CollectWinner, callerFrame, laneVars, rtVars
<1>2. /\ h \in LaneResult /\ lpc[h.lane] = "sent"
      /\ Len(results) >= 1 /\ Len(results') = Len(results) - 1
      /\ results' \in Seq(LaneResult) /\ ResultInv'
      /\ InResults(h.lane)
      /\ \A m \in Lane : InResults(m)' <=> InResults(m) /\ m # h.lane
  BY <1>1, HeadTaken
<1>3. h.lane \in Lane
  BY <1>2 DEF LaneResult
<1>4. toRelease = 0 /\ remaining \in Nat /\ Len(results) \in Nat
      /\ remaining = Len(results) + Cardinality(Pending)
  BY <1>1 DEF IInv, WaiterInv, ShapeInv, ResultsAreAwaited, Pending
<1>5. remaining >= 1
  BY <1>2, <1>4, PendingIsFinite
<1>6. ShapeInv'
  BY <1>1, <1>2, <1>4, <1>5 DEF IInv, ShapeInv
<1>7. ResultsAreAwaited'
  <2>1. Pending' = Pending
    BY <1>1 DEF Pending
  <2>2. remaining' + toRelease' = Len(results') + Cardinality(Pending')
    BY <1>1, <1>2, <1>4, <2>1, PendingIsFinite
  <2> QED BY <2>2 DEF ResultsAreAwaited, Pending
<1>8. WaiterInv'
  BY <1>1 DEF WaiterInv
<1>9. OwnerInv'
  BY <1>1, <1>2, <1>3 DEF IInv, OwnerInv
<1>10. WinnerInv'
  <2>1. givenBack[h.lane] = 0 /\ upc = "none"
    BY <1>1, <1>2, <1>3 DEF IInv, OwnerInv, WinnerInv
  <2> QED BY <1>1, <1>3, <2>1 DEF WinnerInv
<1>11. GivenBackOnce'
  BY <1>1 DEF IInv, GivenBackOnce
<1> QED BY <1>2, <1>6, <1>7, <1>8, <1>9, <1>10, <1>11 DEF IInv

LEMMA GiveUpKeepsIInv == ASSUME IInv, CallerGivesUp PROVE IInv'
<1>1. /\ cpc = "collect" /\ cpc' = "error" /\ raceOver' = TRUE
      /\ toRelease' = remaining /\ remaining' = 0
      /\ UNCHANGED <<results, winner, lpc, conn, used, givenBack, upc>>
  BY DEF CallerGivesUp, callerFrame, laneVars, rtVars
<1>2. ShapeInv' /\ ResultInv' /\ WaiterInv' /\ WinnerInv' /\ GivenBackOnce'
  BY <1>1 DEF IInv, ShapeInv, ResultInv, WaiterInv, WinnerInv, GivenBackOnce
<1>3. ResultsAreAwaited'
  <2>1. toRelease = 0 /\ remaining \in Nat
    BY <1>1 DEF IInv, WaiterInv, ShapeInv
  <2> QED BY <1>1, <2>1 DEF IInv, ResultsAreAwaited
<1>4. OwnerInv'
  BY <1>1 DEF IInv, OwnerInv, InResults
<1> QED BY <1>2, <1>3, <1>4 DEF IInv

LEMMA ReleaseKeepsIInv == ASSUME IInv, Release PROVE IInv'
<1> DEFINE h == Head(results)
<1>1. /\ toRelease > 0 /\ results # <<>>
      /\ results' = Tail(results) /\ toRelease' = toRelease - 1
      /\ UNCHANGED <<cpc, remaining, raceOver, winner, lpc, upc>>
  BY DEF Release, ctxVars
<1>2. PICK l \in Lane : l = h.lane
  BY <1>1, HeadTaken DEF LaneResult
<1>3. \/ /\ h.ok
         /\ conn' = [conn EXCEPT ![l] = "closed"] /\ used' = [used EXCEPT ![l] = TRUE]
         /\ givenBack' = [givenBack EXCEPT ![l] = @ + 1]
      \/ ~h.ok /\ UNCHANGED <<conn, used, givenBack>>
  BY <1>2 DEF Release, CloseUnused, GiveBackFront, CloseConn
<1>4. /\ h \in LaneResult /\ lpc[l] = "sent"
      /\ Len(results) >= 1 /\ Len(results') = Len(results) - 1
      /\ results' \in Seq(LaneResult) /\ ResultInv'
      /\ h.ok <=> InResults(l)
      /\ \A m \in Lane : InResults(m)' <=> InResults(m) /\ m # l
  BY <1>1, <1>2, HeadTaken
<1> HIDE DEF h
<1>5. cpc # "collect" /\ toRelease \in Nat /\ remaining \in Nat /\ Len(results) \in Nat
  BY <1>1 DEF IInv, WaiterInv, ShapeInv
<1>6. h.ok => givenBack[l] = 0 /\ ~(cpc = "won" /\ l = winner)
  BY <1>4 DEF IInv, OwnerInv
<1>7. ShapeInv'
  <2>1. conn' \in [Lane -> {"none", "open", "closed"}]
    BY <1>3 DEF IInv, ShapeInv
  <2>2. used' \in [Lane -> BOOLEAN]
    BY <1>3 DEF IInv, ShapeInv
  <2>3. givenBack' \in [Lane -> Nat]
    BY <1>3 DEF IInv, ShapeInv
  <2>4. toRelease' \in Nat /\ remaining' \in Nat
    BY <1>1, <1>5
  <2> QED BY <1>1, <1>4, <2>1, <2>2, <2>3, <2>4 DEF IInv, ShapeInv
<1>8. ResultsAreAwaited'
  <2>1. Pending' = Pending
    BY <1>1 DEF Pending
  <2>2. remaining + toRelease = Len(results) + Cardinality(Pending)
    BY DEF IInv, ResultsAreAwaited, Pending
  <2>3. remaining' + toRelease' = Len(results') + Cardinality(Pending')
    <3>1. Len(results') = Len(results) - 1
      BY <1>4
    <3> QED BY <1>1, <1>5, <2>1, <2>2, <3>1, PendingIsFinite
  <2> QED BY <2>3 DEF ResultsAreAwaited, Pending
<1>9. WaiterInv'
  BY <1>1, <1>5 DEF IInv, WaiterInv
<1>10. OwnerInv'
  <2>1. \A m \in Lane : m # l => UNCHANGED <<conn[m], givenBack[m]>>
    BY <1>3 DEF IInv, ShapeInv
  <2>2. h.ok => conn'[l] = "closed"
    BY <1>3 DEF IInv, ShapeInv
  <2>3. ~h.ok => UNCHANGED <<conn, givenBack>>
    BY <1>3
  <2>4. lpc'[l] = "sent" /\ ~InResults(l)'
    BY <1>1, <1>4
  <2>5. ASSUME NEW m \in Lane, conn'[m] = "open"
        PROVE  InResults(m)' \/ (cpc' = "won" /\ m = winner')
    BY <1>1, <1>4, <2>1, <2>2, <2>3, <2>5 DEF IInv, OwnerInv
  <2>6. ASSUME NEW m \in Lane, InResults(m)' \/ lpc'[m] # "sent"
        PROVE  givenBack'[m] = 0 /\ ~(cpc' = "won" /\ m = winner')
    BY <1>1, <1>4, <2>1, <2>4, <2>6 DEF IInv, OwnerInv
  <2> QED BY <2>5, <2>6 DEF OwnerInv
<1>11. WinnerInv'
  <2>1. cpc = "won" => winner \in Lane /\ UNCHANGED <<used[winner], givenBack[winner]>>
    BY <1>1, <1>3, <1>6 DEF IInv, WinnerInv, ShapeInv
  <2>2. upc # "none" => cpc = "won"
    BY DEF IInv, WinnerInv
  <2> QED BY <1>1, <2>1, <2>2 DEF IInv, WinnerInv
<1>12. GivenBackOnce'
  <2> SUFFICES ASSUME NEW m \in Lane PROVE givenBack'[m] <= 1
    BY DEF GivenBackOnce
  <2>1. givenBack[m] \in Nat /\ givenBack[m] <= 1
    BY DEF IInv, GivenBackOnce, ShapeInv
  <2>2. CASE h.ok /\ m = l
    <3>1. givenBack'[m] = 0 + 1
      BY <1>3, <1>6, <2>2 DEF IInv, ShapeInv
    <3> QED BY <3>1
  <2>3. CASE ~(h.ok /\ m = l)
    <3>1. givenBack'[m] = givenBack[m]
      BY <1>3, <2>3 DEF IInv, ShapeInv
    <3> QED BY <2>1, <3>1
  <2> QED BY <2>2, <2>3
<1> QED BY <1>4, <1>7, <1>8, <1>9, <1>10, <1>11, <1>12 DEF IInv
-----------------------------------------------------------------------------
LEMMA UseKeepsIInv == ASSUME IInv, UserStep PROVE IInv'
<1>1. UNCHANGED <<cpc, remaining, toRelease, winner, raceOver, results, lpc>>
  BY DEF UserStep, UserCloses, RoundTripStarts, RoundTripFails, RoundTripSucceeds, BodyClosed,
         useFrame, callerVars, ctxVars
<1>2. cpc = "won" /\ winner \in Lane
  BY DEF UserStep, UserCloses, RoundTripStarts, RoundTripFails, RoundTripSucceeds, BodyClosed,
         IInv, WinnerInv
<1> DEFINE w == winner
<1>3. ~InResults(w) /\ lpc[w] = "sent"
  BY <1>2 DEF IInv, OwnerInv
\* What happens to the winner's round-tripper, by kind.
<1>4. /\ conn' = conn \/ conn' = [conn EXCEPT ![w] = "closed"]
      /\ \/ /\ ~used[w] /\ used' = [used EXCEPT ![w] = TRUE]
            /\ \/ givenBack' = [givenBack EXCEPT ![w] = @ + 1] /\ upc' = upc
               \/ givenBack' = givenBack /\ upc' \in {"plain", "upgradeOnH2"}
         \/ /\ upc \in {"plain", "upgradeOnH2"} /\ used' = used
            /\ \/ givenBack' = [givenBack EXCEPT ![w] = @ + 1] /\ upc' = "reading"
               \/ givenBack' = givenBack /\ upc' = "done"
         \/ /\ upc = "reading" /\ upc' = "done" /\ UNCHANGED <<used, givenBack>>
  <2>1. CASE UserCloses
    BY <2>1 DEF UserCloses, CloseUnused, GiveBackFront, CloseConn
  <2>2. CASE RoundTripStarts
    BY <2>2 DEF RoundTripStarts
  <2>3. CASE RoundTripFails
    BY <2>3 DEF RoundTripFails, CloseConn
  <2>4. CASE RoundTripSucceeds
    BY <2>4 DEF RoundTripSucceeds, GiveBackFront
  <2>5. CASE BodyClosed
    BY <2>5 DEF BodyClosed, CloseConn
  <2> QED BY <2>1, <2>2, <2>3, <2>4, <2>5 DEF UserStep
<1>5. /\ ~used[w] => givenBack[w] = 0 /\ upc = "none"
      /\ upc \in {"plain", "upgradeOnH2"} => givenBack[w] = 0
  BY <1>2 DEF IInv, WinnerInv
<1>6. \A m \in Lane : m # w => UNCHANGED <<conn[m], givenBack[m]>>
  BY <1>2, <1>4 DEF IInv, ShapeInv
<1>7. conn' \in [Lane -> {"none", "open", "closed"}]
  BY <1>4 DEF IInv, ShapeInv
<1>8. used' \in [Lane -> BOOLEAN]
  BY <1>4 DEF IInv, ShapeInv
<1>9. givenBack' \in [Lane -> Nat]
  BY <1>4 DEF IInv, ShapeInv
<1>10. ShapeInv' /\ ResultsAreAwaited' /\ ResultInv' /\ WaiterInv'
  BY <1>1, <1>7, <1>8, <1>9 DEF IInv, ShapeInv, ResultsAreAwaited, ResultInv, WaiterInv
<1>11. OwnerInv'
  <2>1. \A m \in Lane : InResults(m)' <=> InResults(m)
    BY <1>1 DEF InResults
  <2>2. ASSUME NEW m \in Lane, conn'[m] = "open"
        PROVE  InResults(m)' \/ (cpc' = "won" /\ m = winner')
    BY <1>1, <1>2, <1>6, <2>1, <2>2 DEF IInv, OwnerInv
  <2>3. ASSUME NEW m \in Lane, InResults(m)' \/ lpc'[m] # "sent"
        PROVE  givenBack'[m] = 0 /\ ~(cpc' = "won" /\ m = winner')
    BY <1>1, <1>3, <1>6, <2>1, <2>3 DEF IInv, OwnerInv
  <2> QED BY <2>2, <2>3 DEF OwnerInv
<1>12. WinnerInv'
  <2>1. CASE ~used[w] /\ used' = [used EXCEPT ![w] = TRUE]
    <3>1. used'[w]
      BY <1>2, <2>1 DEF IInv, ShapeInv
    <3>2. upc' \in {"plain", "upgradeOnH2"} => givenBack' = givenBack
      BY <1>4, <1>5, <2>1
    <3> QED BY <1>1, <1>2, <1>5, <2>1, <3>1, <3>2 DEF WinnerInv
  <2>2. CASE used' = used /\ upc' \in {"reading", "done"} /\ upc # "none"
    BY <1>1, <1>2, <1>5, <2>2 DEF WinnerInv
  <2> QED BY <1>4, <2>1, <2>2
<1>13. GivenBackOnce'
  <2> SUFFICES ASSUME NEW m \in Lane PROVE givenBack'[m] <= 1
    BY DEF GivenBackOnce
  <2>1. givenBack[m] \in Nat /\ givenBack[m] <= 1
    BY DEF IInv, GivenBackOnce, ShapeInv
  <2>2. CASE givenBack' = [givenBack EXCEPT ![w] = @ + 1] /\ m = w
    <3>1. givenBack[w] = 0
      BY <1>4, <1>5, <2>1, <2>2 DEF IInv, ShapeInv
    <3>2. givenBack'[m] = 0 + 1
      BY <2>2, <3>1 DEF IInv, ShapeInv
    <3> QED BY <3>2
  <2>3. CASE ~(givenBack' = [givenBack EXCEPT ![w] = @ + 1] /\ m = w)
    <3>1. givenBack'[m] = givenBack[m]
      BY <1>4, <1>6, <2>3
    <3> QED BY <2>1, <3>1
  <2> QED BY <2>2, <2>3
<1> QED BY <1>10, <1>11, <1>12, <1>13 DEF IInv

LEMMA RaceNext == IInv /\ [Next]_vars => IInv'
<1> SUFFICES ASSUME IInv, [Next]_vars PROVE IInv'
  OBVIOUS
<1>1. CASE \E l \in Lane : LaneStep(l)
  BY <1>1, LaneStepKinds, MoveKeepsIInv, SendKeepsIInv
<1>2. CASE CallerStep
  BY <1>2, CollectErrorKeepsIInv, CollectWinnerKeepsIInv, GiveUpKeepsIInv DEF CallerStep
<1>3. CASE Release
  BY <1>3, ReleaseKeepsIInv
<1>4. CASE UserStep
  BY <1>4, UseKeepsIInv
<1>5. CASE CallerCancels \/ ClientCloses \/ ConfigChanges \/ UNCHANGED vars
  <2>1. UNCHANGED <<lpc, conn, used, givenBack, results, remaining, toRelease, cpc, raceOver,
                    winner, upc>>
    BY <1>5 DEF CallerCancels, ClientCloses, ConfigChanges, ctxVars, laneVars, callerVars, rtVars,
                vars
  <2> QED BY <2>1 DEF IInv, ShapeInv, ResultsAreAwaited, ResultInv, WaiterInv, OwnerInv,
                  InResults, WinnerInv, GivenBackOnce
<1> QED BY <1>1, <1>2, <1>3, <1>4, <1>5 DEF Next

\* The results, the connections and the round-trippers of a race keep the
\* invariant that makes the lanes, the caller and the releasing goroutine fit
\* together (connected.go:46-76).
THEOREM RaceInvariant == Spec => []IInv
BY RaceInit, RaceNext, PTL DEF Spec

\* The caller and the releasing goroutine together wait for exactly the
\* results that are queued or still to come (connected.go:59-76).
THEOREM EveryResultIsAwaited == Spec => []ResultsAreAwaited
<1>1. IInv => ResultsAreAwaited
  BY DEF IInv
<1> QED BY <1>1, RaceInvariant, PTL

\* No connection leaks: the count above keeps the releasing goroutine there
\* for every connection still queued when the call has returned
\* (connected.go:46-56, 72-75).
THEOREM NoRaceConnectionLeaks == Spec => []OpenConnectionsAreOwned
<1>1. IInv => OpenConnectionsAreOwned
  <2> SUFFICES ASSUME IInv, NEW l \in Lane, conn[l] = "open", l # winner, cpc # "collect"
               PROVE  InResults(l) /\ toRelease > 0
    BY DEF OpenConnectionsAreOwned, IInv, OwnerInv
  <2>1. InResults(l)
    BY DEF IInv, OwnerInv
  <2>2. Len(results) \in Nat /\ Len(results) # 0
    <3>1. DOMAIN results = 1 .. Len(results) /\ Len(results) \in Nat
      BY DEF IInv, ShapeInv
    <3> QED BY <2>1, <3>1 DEF InResults
  <2>3. remaining = 0 /\ toRelease \in Nat
        /\ remaining + toRelease = Len(results) + Cardinality(Pending)
    BY DEF IInv, WaiterInv, ShapeInv, ResultsAreAwaited, Pending
  <2>4. toRelease > 0
    BY <2>2, <2>3, PendingIsFinite
  <2> QED BY <2>1, <2>4
<1> QED BY <1>1, RaceInvariant, PTL

\* A front is returned at most once by its round-tripper, whoever races to
\* use, close or release it (connected.go:268-271, 314-319).
THEOREM FrontReturnedOnce == Spec => []GivenBackOnce
<1>1. IInv => GivenBackOnce
  BY DEF IInv
<1> QED BY <1>1, RaceInvariant, PTL
-----------------------------------------------------------------------------
\* A dial that a cancellation ended finds the race over for good.
CutInv ==
    /\ cut \in [Lane -> BOOLEAN] /\ lpc \in [Lane -> LaneState]
    /\ \A l \in Lane : lpc[l] = "failed" /\ cut[l] => RaceDone

\* No lane ends a context, and only a failed dial makes a lane fail.
LEMMA LaneStepFails ==
    ASSUME NEW l \in Lane, LaneStep(l)
    PROVE  /\ UNCHANGED <<callerDone, raceOver>>
           /\ \/ cut' = cut /\ \E p \in LaneState \ {"failed"} : lpc' = [lpc EXCEPT ![l] = p]
              \/ cut' = [cut EXCEPT ![l] = RaceDone] /\ lpc' = [lpc EXCEPT ![l] = "failed"]
<1> USE DEF laneFrame, ctxVars, LaneState, SendResult
<1>1. CASE LaneEnds(l) \/ LaneBegins(l)
  BY <1>1 DEF LaneEnds, LaneBegins
<1>2. CASE \E f \in Front : LaneTakes(l, f) \/ LaneFallsBack(l, f)
  BY <1>2 DEF LaneTakes, LaneFallsBack, Chooses
<1>3. CASE LaneHasNone(l) \/ LaneGone(l) \/ LaneUnusable(l)
  BY <1>3 DEF LaneHasNone, LaneGone, NextAttempt, LaneUnusable
<1>4. CASE LaneChecked(l) \/ LaneVetted(l)
  BY <1>4 DEF LaneChecked, LaneVetted
<1>5. CASE LaneDialFails(l)
  BY <1>5 DEF LaneDialFails
<1>6. CASE LaneConnects(l) \/ LaneCancelled(l) \/ LaneFailsFront(l)
  BY <1>6 DEF LaneConnects, LaneCancelled, LaneFailsFront, NextAttempt
<1> QED BY <1>1, <1>2, <1>3, <1>4, <1>5, <1>6 DEF LaneStep

\* The context of a race does not come back (connected.go:38-40).
LEMMA RaceStaysDone == IInv /\ RaceDone /\ [Next]_vars => RaceDone'
<1> SUFFICES ASSUME IInv, RaceDone, [Next]_vars PROVE RaceDone'
  OBVIOUS
<1> USE DEF RaceDone
<1>1. CASE \E l \in Lane : LaneStep(l)
  BY <1>1, LaneStepFails
<1>2. CASE CallerStep
  BY <1>2 DEF CallerStep, CollectError, CollectWinner, CallerGivesUp, callerFrame, IInv, WaiterInv
<1>3. CASE Release \/ UserStep
  BY <1>3 DEF Release, UserStep, UserCloses, RoundTripStarts, RoundTripFails, RoundTripSucceeds,
              BodyClosed, useFrame, ctxVars
<1>4. CASE CallerCancels \/ ClientCloses \/ ConfigChanges \/ UNCHANGED vars
  BY <1>4 DEF CallerCancels, ClientCloses, ConfigChanges, ctxVars, vars
<1> QED BY <1>1, <1>2, <1>3, <1>4 DEF Next

LEMMA CutInit == Init => CutInv
BY DEF Init, CutInv, LaneState

LEMMA CutNext == IInv /\ CutInv /\ [Next]_vars => CutInv'
<1> SUFFICES ASSUME IInv, CutInv, [Next]_vars PROVE CutInv'
  OBVIOUS
<1>1. RaceDone => RaceDone'
  BY RaceStaysDone
<1>2. ASSUME NEW l \in Lane, LaneStep(l) PROVE CutInv'
  <2>1. UNCHANGED <<callerDone, raceOver>>
    BY <1>2, LaneStepFails
  <2>2. CASE cut' = cut /\ \E p \in LaneState \ {"failed"} : lpc' = [lpc EXCEPT ![l] = p]
    <3>1. PICK p \in LaneState \ {"failed"} : lpc' = [lpc EXCEPT ![l] = p]
      BY <2>2
    <3>2. \A m \in Lane : lpc'[m] = "failed" => lpc[m] = "failed"
      BY <3>1 DEF CutInv
    <3>3. lpc' \in [Lane -> LaneState]
      BY <3>1 DEF CutInv
    <3> QED BY <1>1, <2>2, <3>2, <3>3 DEF CutInv
  <2>3. CASE cut' = [cut EXCEPT ![l] = RaceDone] /\ lpc' = [lpc EXCEPT ![l] = "failed"]
    <3>1. RaceDone \in BOOLEAN
      BY DEF RaceDone
    <3>2. cut' \in [Lane -> BOOLEAN] /\ lpc' \in [Lane -> LaneState]
      BY <2>3, <3>1 DEF CutInv, LaneState
    <3>3. ASSUME NEW m \in Lane, lpc'[m] = "failed", cut'[m] PROVE RaceDone'
      <4>1. CASE m = l
        BY <1>1, <2>3, <3>3, <4>1 DEF CutInv
      <4>2. CASE m # l
        BY <1>1, <2>3, <3>3, <4>2 DEF CutInv
      <4> QED BY <4>1, <4>2
    <3> QED BY <3>2, <3>3 DEF CutInv
  <2> QED BY <1>2, <2>2, <2>3, LaneStepFails
<1>3. ASSUME UNCHANGED <<lpc, cut>> PROVE CutInv'
  BY <1>1, <1>3 DEF CutInv
<1>4. CallerStep \/ Release \/ UserStep \/ CallerCancels \/ ClientCloses \/ ConfigChanges
        \/ UNCHANGED vars => UNCHANGED <<lpc, cut>>
  BY DEF CallerStep, CollectError, CollectWinner, CallerGivesUp, callerFrame, laneVars, Release,
         UserStep, UserCloses, RoundTripStarts, RoundTripFails, RoundTripSucceeds, BodyClosed,
         useFrame, CallerCancels, ClientCloses, ConfigChanges, vars
<1> QED BY <1>2, <1>3, <1>4 DEF Next

LEMMA CancelledStepKeepsFront ==
    ASSUME CutInv, [Next]_vars, NEW l \in Lane, lpc[l] = "failed", cut[l], lpc'[l] # "failed"
    PROVE  succ \subseteq succ'
<1>1. RaceDone
  BY DEF CutInv
<1>2. PICK m \in Lane : LaneStep(m)
  BY DEF Next, CallerStep, CollectError, CollectWinner, CallerGivesUp, callerFrame, laneVars,
         Release, UserStep, UserCloses, RoundTripStarts, RoundTripFails, RoundTripSucceeds,
         BodyClosed, useFrame, CallerCancels, ClientCloses, ConfigChanges, vars
<1>3. m = l
  BY <1>2, LaneStepFails DEF CutInv
<1>4. LaneCancelled(l)
  BY <1>1, <1>2, <1>3 DEF LaneStep, LaneEnds, LaneBegins, LaneTakes, LaneFallsBack, LaneHasNone,
     LaneGone, LaneUnusable, LaneChecked, LaneVetted, LaneDialFails, LaneConnects, LaneFailsFront
<1> QED BY <1>4 DEF LaneCancelled

\* A dial that was cut off because the race is over never costs its front
\* its standing (connected.go:161-168).
THEOREM CancelledDialIsForgiven == Spec => CancelledDialKeepsFront
<1>1. Init => IInv /\ CutInv
  BY RaceInit, CutInit
<1>2. IInv /\ CutInv /\ [Next]_vars => IInv' /\ CutInv'
  BY RaceNext, CutNext
<1>3. CutInv /\ [Next]_vars =>
        [\A l \in Lane : lpc[l] = "failed" /\ cut[l] /\ lpc'[l] # "failed" => succ \subseteq succ']_vars
  BY CancelledStepKeepsFront
<1> QED BY <1>1, <1>2, <1>3, PTL DEF Spec, CancelledDialKeepsFront
-----------------------------------------------------------------------------
(***************************************************************************)
(* Fronts                                                                  *)
(***************************************************************************)

\* The fronts of a lane are taken by that lane only, which remembers them; so
\* one it falls back on was not ready at the start, and the front of a winner
\* whose response is read stays where it was put.
LaneFrontInv ==
    /\ initial \subseteq Front
    /\ lfront \in [Lane -> Front \cup {None}] /\ tried \in [Lane -> SUBSET Front]
    /\ fromReady \in [Lane -> BOOLEAN]
    /\ \A l \in Lane : conn[l] = "open" => lpc[l] = "sent"
    /\ \A l \in Lane : InHand(l) \/ conn[l] # "none" =>
                           lfront[l] \in Front /\ LaneOf[lfront[l]] = l
    /\ \A l \in Lane : InHand(l) /\ ~fromReady[l] => lfront[l] \notin initial
    /\ \A f \in initial : f \notin tried[LaneOf[f]] => f \in ready
    /\ upc = "reading" => lfront[winner] \in ready /\ conn[winner] # "none"

\* Only a lane that connected reports a connection or wins.
ConnectedInv ==
    \A l \in Lane : InResults(l) \/ (cpc = "won" /\ l = winner) => conn[l] # "none"

AccountInv == IInv /\ ConnectedInv /\ LaneFrontInv /\ FrontsAreAccounted

LEMMA AccountInit == Init => AccountInv
<1> SUFFICES ASSUME Init PROVE AccountInv
  OBVIOUS
<1>1. LaneFrontInv /\ FrontsAreAccounted
  BY DEF Init, LaneFrontInv, FrontsAreAccounted, InHand
<1>2. ConnectedInv
  BY DEF Init, ConnectedInv, InResults
<1> QED BY <1>1, <1>2, RaceInit DEF AccountInv

LEMMA AppendedResult ==
    ASSUME results \in Seq(LaneResult), NEW l \in Lane, NEW ok \in BOOLEAN,
           results' = Append(results, Result(l, ok)), NEW m \in Lane, InResults(m)'
    PROVE  InResults(m) \/ (m = l /\ ok)
<1> DEFINE n == Len(results)
<1>1. /\ n \in Nat /\ DOMAIN results = 1 .. n /\ DOMAIN results' = 1 .. n + 1
      /\ results'[n + 1] = Result(l, ok)
      /\ \A i \in 1 .. n : results'[i] = results[i]
  <2>1. Result(l, ok) \in LaneResult
    BY DEF Result, LaneResult
  <2> QED BY <2>1
<1>2. PICK i \in 1 .. n + 1 : results'[i] = Result(m, TRUE)
  BY <1>1 DEF InResults
<1>3. CASE i = n + 1
  BY <1>1, <1>2, <1>3 DEF Result
<1>4. CASE i \in 1 .. n
  BY <1>1, <1>2, <1>4 DEF InResults
<1> QED BY <1>1, <1>3, <1>4

LEMMA ConnectedNext == ASSUME IInv, ConnectedInv, [Next]_vars PROVE ConnectedInv'
<1>0. results \in Seq(LaneResult) /\ conn \in [Lane -> {"none", "open", "closed"}]
  BY DEF IInv, ShapeInv
<1>1. ASSUME UNCHANGED <<results, conn, cpc, winner>> PROVE ConnectedInv'
  BY <1>1 DEF ConnectedInv, InResults
<1>2. ASSUME NEW l \in Lane, LaneStep(l) PROVE ConnectedInv'
  <2>1. CASE Moves(l)
    BY <1>1, <2>1 DEF Moves, shared
  <2>2. ASSUME NEW ok \in BOOLEAN, Sends(l, ok) PROVE ConnectedInv'
    <3>1. results' = Append(results, Result(l, ok)) /\ UNCHANGED <<cpc, winner>>
      BY <2>2 DEF Sends, SendResult, shared
    <3>2. \A m \in Lane : InResults(m)' => InResults(m) \/ (m = l /\ ok)
      BY <1>0, <3>1, AppendedResult
    <3>3. \A m \in Lane : conn[m] # "none" \/ (m = l /\ ok) => conn'[m] # "none"
      BY <1>0, <2>2 DEF Sends
    <3> QED BY <3>1, <3>2, <3>3 DEF ConnectedInv
  <2> QED BY <1>2, <2>1, <2>2, LaneStepKinds
<1>3. ASSUME results # <<>>, results' = Tail(results), UNCHANGED lpc,
             \A m \in Lane : conn[m] # "none" => conn'[m] # "none",
             cpc' = "won" => (cpc = "won" /\ winner' = winner)
                               \/ (winner' = Head(results).lane /\ Head(results).ok)
      PROVE  ConnectedInv'
  <2>1. /\ Head(results) \in LaneResult
        /\ Head(results).ok <=> InResults(Head(results).lane)
        /\ \A m \in Lane : InResults(m)' <=> InResults(m) /\ m # Head(results).lane
    BY <1>3, HeadTaken
  <2> QED BY <1>3, <2>1 DEF ConnectedInv
<1>4. CASE CollectError
  BY <1>3, <1>4 DEF CollectError, callerFrame, laneVars
<1>5. CASE CollectWinner
  BY <1>3, <1>5 DEF CollectWinner, callerFrame, laneVars
<1>6. CASE CallerGivesUp
  BY <1>6 DEF CallerGivesUp, callerFrame, laneVars, ConnectedInv, InResults
<1>7. CASE Release
  <2>1. \A m \in Lane : conn[m] # "none" => conn'[m] # "none"
    BY <1>0, <1>7 DEF Release, CloseUnused, CloseConn
  <2> QED BY <1>3, <1>7, <2>1 DEF Release
<1>8. CASE UserStep
  <2>1. \A m \in Lane : conn[m] # "none" => conn'[m] # "none"
    BY <1>0, <1>8 DEF UserStep, UserCloses, RoundTripStarts, RoundTripFails, RoundTripSucceeds,
                      BodyClosed, CloseUnused, CloseConn
  <2>2. UNCHANGED <<results, cpc, winner>>
    BY <1>8 DEF UserStep, UserCloses, RoundTripStarts, RoundTripFails, RoundTripSucceeds,
                BodyClosed, useFrame, callerVars
  <2> QED BY <2>1, <2>2 DEF ConnectedInv, InResults
<1>9. CASE CallerCancels \/ ClientCloses \/ ConfigChanges \/ UNCHANGED vars
  BY <1>1, <1>9 DEF CallerCancels, ClientCloses, ConfigChanges, vars, laneVars, callerVars
<1> QED BY <1>2, <1>4, <1>5, <1>6, <1>7, <1>8, <1>9 DEF Next, CallerStep

LEMMA LaneKeepsFronts ==
    ASSUME AccountInv, NEW l \in Lane, LaneStep(l)
    PROVE  LaneFrontInv' /\ FrontsAreAccounted'
<1> USE RaceAssumption
    DEF laneFrame, configVars, ctxVars, callerVars, rtVars, poolVars, AccountInv, LaneFrontInv,
        FrontsAreAccounted, InHand, SendResult, NextAttempt, Requeue
<1>0. /\ lpc \in [Lane -> LaneState] /\ conn \in [Lane -> {"none", "open", "closed"}]
      /\ upc = "reading" => winner \in Lane /\ lpc[winner] = "sent"
  BY DEF IInv, ShapeInv, WinnerInv, OwnerInv
<1> USE <1>0 DEF LaneState
<1>1. CASE LaneEnds(l)
  BY <1>1 DEF LaneEnds
<1>2. CASE LaneBegins(l)
  BY <1>2 DEF LaneBegins
<1>3. ASSUME NEW f \in Front, LaneTakes(l, f) PROVE LaneFrontInv' /\ FrontsAreAccounted'
  BY <1>3 DEF LaneTakes, Chooses, Untried
<1>4. ASSUME NEW f \in Front, LaneFallsBack(l, f) PROVE LaneFrontInv' /\ FrontsAreAccounted'
  BY <1>4 DEF LaneFallsBack, Chooses, Untried
<1>5. CASE LaneHasNone(l)
  BY <1>5 DEF LaneHasNone
<1>6. CASE LaneGone(l)
  BY <1>6 DEF LaneGone
<1>7. CASE LaneUnusable(l)
  BY <1>7 DEF LaneUnusable
<1>8. CASE LaneChecked(l)
  BY <1>8 DEF LaneChecked
<1>9. CASE LaneVetted(l)
  BY <1>9 DEF LaneVetted
<1>10. CASE LaneDialFails(l)
  BY <1>10 DEF LaneDialFails
<1>11. CASE LaneConnects(l)
  BY <1>11 DEF LaneConnects
<1>12. CASE LaneCancelled(l)
  BY <1>12 DEF LaneCancelled
<1>13. CASE LaneFailsFront(l)
  BY <1>13 DEF LaneFailsFront
<1> QED
  BY <1>1, <1>2, <1>3, <1>4, <1>5, <1>6, <1>7, <1>8, <1>9, <1>10, <1>11, <1>12, <1>13
  DEF LaneStep

LEMMA OthersKeepFronts ==
    ASSUME AccountInv,
           CallerStep \/ Release \/ UserStep \/ CallerCancels \/ ClientCloses \/ ConfigChanges
             \/ UNCHANGED vars
    PROVE  LaneFrontInv' /\ FrontsAreAccounted'
<1> USE DEF AccountInv, LaneFrontInv, FrontsAreAccounted, InHand, poolVars, laneVars, rtVars,
        configVars, ctxVars, callerVars
<1>0. /\ lpc \in [Lane -> LaneState] /\ conn \in [Lane -> {"none", "open", "closed"}]
      /\ upc # "none" => cpc = "won" /\ winner \in Lane
      /\ cpc = "won" => winner \in Lane /\ conn[winner] # "none"
  BY DEF IInv, ShapeInv, WinnerInv, ConnectedInv
<1> USE <1>0
<1>1. CASE CallerStep
  <2>1. UNCHANGED <<initial, ready, succ, lpc, lfront, tried, fromReady, conn, upc>>
    BY <1>1 DEF CallerStep, CollectError, CollectWinner, CallerGivesUp, callerFrame
  <2>2. upc = "reading" => winner' = winner
    BY <1>0, <1>1 DEF CallerStep, CollectError, CollectWinner, CallerGivesUp
  <2> QED BY <2>1, <2>2
<1>2. CASE Release
  <2>1. CASE ~Head(results).ok
    BY <1>2, <2>1 DEF Release
  <2>2. CASE Head(results).ok
    <3> DEFINE l == Head(results).lane
    <3>1. l \in Lane /\ conn[l] # "none"
      <4>1. Head(results) \in LaneResult /\ (Head(results).ok <=> InResults(l))
        BY <1>2, HeadTaken DEF Release
      <4> QED BY <2>2, <4>1 DEF LaneResult, ConnectedInv
    <3> QED BY <1>2, <2>2, <3>1 DEF Release, CloseUnused, GiveBackFront, CloseConn
  <2> QED BY <2>1, <2>2
<1>3. CASE UserCloses
  BY <1>3 DEF UserCloses, CloseUnused, GiveBackFront, CloseConn, useFrame
<1>4. CASE RoundTripStarts
  BY <1>4 DEF RoundTripStarts, useFrame
<1>5. CASE RoundTripFails
  BY <1>5 DEF RoundTripFails, CloseConn, useFrame
<1>6. CASE RoundTripSucceeds
  BY <1>6 DEF RoundTripSucceeds, GiveBackFront, useFrame
<1>7. CASE BodyClosed
  BY <1>7 DEF BodyClosed, CloseConn, useFrame
<1>8. CASE CallerCancels \/ ClientCloses \/ ConfigChanges \/ UNCHANGED vars
  BY <1>8 DEF CallerCancels, ClientCloses, ConfigChanges, vars
<1> QED BY <1>1, <1>2, <1>3, <1>4, <1>5, <1>6, <1>7, <1>8 DEF UserStep

LEMMA AccountNext == AccountInv /\ [Next]_vars => AccountInv'
<1> SUFFICES ASSUME AccountInv, [Next]_vars PROVE AccountInv'
  OBVIOUS
<1>1. IInv' /\ ConnectedInv'
  BY RaceNext, ConnectedNext DEF AccountInv
<1>2. LaneFrontInv' /\ FrontsAreAccounted'
  <2>1. ASSUME NEW l \in Lane, LaneStep(l) PROVE LaneFrontInv' /\ FrontsAreAccounted'
    BY <2>1, LaneKeepsFronts
  <2> QED BY <2>1, OthersKeepFronts DEF Next
<1> QED BY <1>1, <1>2 DEF AccountInv

\* No early return of a lane, no cancellation and no late connection makes a
\* front that was ready vanish: it is ready, failed or somebody's
\* (connected.go:109-176, 311-320).
THEOREM NoRaceFrontIsLost == Spec => []FrontsAreAccounted
<1>1. AccountInv => FrontsAreAccounted
  BY DEF AccountInv
<1> QED BY <1>1, AccountInit, AccountNext, PTL DEF Spec
-----------------------------------------------------------------------------
(***************************************************************************)
(* The race keeps to the contract of the pool                              *)
(***************************************************************************)

\* A round-tripper that nobody has used still has its connection, and a
\* RoundTrip has it until its request has ended.
UseInv ==
    /\ \A l \in Lane : InResults(l) \/ lpc[l] # "sent" => ~used[l]
    /\ \A l \in Lane : InResults(l) \/ (cpc = "won" /\ l = winner /\ ~used[l]) => conn[l] = "open"
    /\ upc \in {"plain", "upgradeOnH2"} => conn[winner] = "open" /\ used[winner]

\* The kinds of steps of one lane that the contract allows.
TakesReady(l, f) ==
    /\ f \in ready /\ ready' = ready \ {f}
    /\ Has(l) = {} /\ Has(l)' = {f} /\ Lent(l)' = Lent(l)
GivesUp(l, f) ==
    /\ ready' \in {ready, ready \cup {f}}
    /\ Has(l) = {f} /\ Has(l)' = {} /\ Lent(l)' = Lent(l)
Borrows(l, f) ==
    /\ ready' = ready
    /\ Has(l)' = Has(l) /\ Lent(l) = None /\ Lent(l)' = f
EndsLoan(l, f) ==
    /\ ready' = ready
    /\ Has(l) = {} /\ Has(l)' \in {{}, {f}} /\ Lent(l) = f /\ Lent(l)' = None
KeepsAll(l) ==
    ready' = ready /\ Has(l)' = Has(l) /\ Lent(l)' = Lent(l)

OthersKept(l) == \A m \in Lane \ {l} : Has(m)' = Has(m) /\ Lent(m)' = Lent(m)

HasAll == [l \in Lane |-> Has(l)]
LentAll == [l \in Lane |-> Lent(l)]

LEMMA OneLaneChanges ==
    ASSUME NEW l \in Lane, OthersKept(l)
    PROVE  /\ HasAll' = [HasAll EXCEPT ![l] = Has(l)']
           /\ LentAll' = [LentAll EXCEPT ![l] = Lent(l)']
BY DEF OthersKept, HasAll, LentAll

Uses(l, f) == TakesReady(l, f) \/ GivesUp(l, f) \/ Borrows(l, f) \/ EndsLoan(l, f)

LEMMA KeepingIsAllowed ==
    ASSUME NEW l \in Lane, OthersKept(l), KeepsAll(l)
    PROVE  UNCHANGED Pool!vars
<1>1. HasAll' = HasAll /\ LentAll' = LentAll
  BY OneLaneChanges DEF KeepsAll, HasAll, LentAll
<1> QED BY <1>1 DEF KeepsAll, Pool!vars, HasAll, LentAll

LEMMA UsesAreAllowed ==
    ASSUME NEW l \in Lane, NEW f \in Front, OthersKept(l), Uses(l, f)
    PROVE  Pool!Next
<1>1. /\ HasAll' = [HasAll EXCEPT ![l] = Has(l)'] /\ HasAll[l] = Has(l)
      /\ LentAll' = [LentAll EXCEPT ![l] = Lent(l)'] /\ LentAll[l] = Lent(l)
  BY OneLaneChanges DEF HasAll, LentAll
<1>2. CASE TakesReady(l, f)
  <2>1. LentAll' = LentAll
    BY <1>1, <1>2 DEF TakesReady, LentAll
  <2>2. HasAll' = [HasAll EXCEPT ![l] = HasAll[l] \cup {f}]
    BY <1>1, <1>2 DEF TakesReady
  <2>3. Pool!Take(l, f)
    BY <1>2, <2>1, <2>2 DEF TakesReady, Pool!Take, HasAll, LentAll
  <2> QED BY <2>3 DEF Pool!Next
<1>3. CASE GivesUp(l, f)
  <2>1. LentAll' = LentAll
    BY <1>1, <1>3 DEF GivesUp, LentAll
  <2>2. f \in HasAll[l] /\ HasAll' = [HasAll EXCEPT ![l] = HasAll[l] \ {f}]
    BY <1>1, <1>3 DEF GivesUp
  <2>3. CASE ready' = ready
    <3>1. Pool!Fail(l, f)
      BY <2>1, <2>2, <2>3 DEF Pool!Fail, HasAll, LentAll
    <3> QED BY <3>1 DEF Pool!Next
  <2>4. CASE ready' = ready \cup {f}
    <3>1. Pool!Put(l, f)
      BY <2>1, <2>2, <2>4 DEF Pool!Put, HasAll, LentAll
    <3> QED BY <3>1 DEF Pool!Next
  <2> QED BY <1>3, <2>3, <2>4 DEF GivesUp
<1>4. CASE Borrows(l, f)
  <2>1. HasAll' = HasAll
    BY <1>1, <1>4 DEF Borrows, HasAll
  <2>2. LentAll[l] = None /\ LentAll' = [LentAll EXCEPT ![l] = f]
    BY <1>1, <1>4 DEF Borrows
  <2>3. Pool!Lend(l, f)
    BY <1>4, <2>1, <2>2 DEF Borrows, Pool!Lend, HasAll, LentAll
  <2> QED BY <2>3 DEF Pool!Next
<1>5. CASE EndsLoan(l, f)
  <2>1. LentAll[l] = f /\ f # None /\ LentAll' = [LentAll EXCEPT ![l] = None]
    BY <1>1, <1>5, RaceAssumption DEF EndsLoan
  <2>2. CASE Has(l)' = {}
    <3>1. HasAll' = HasAll
      BY <1>1, <1>5, <2>2 DEF EndsLoan, HasAll
    <3>2. Pool!Reject(l)
      BY <1>5, <2>1, <3>1 DEF EndsLoan, Pool!Reject, HasAll, LentAll
    <3> QED BY <3>2 DEF Pool!Next
  <2>3. CASE Has(l)' = {f}
    <3>1. HasAll' = [HasAll EXCEPT ![l] = HasAll[l] \cup {f}]
      BY <1>1, <1>5, <2>3 DEF EndsLoan
    <3>2. Pool!Adopt(l)
      BY <1>5, <2>1, <3>1 DEF EndsLoan, Pool!Adopt, HasAll, LentAll
    <3> QED BY <3>2 DEF Pool!Next
  <2> QED BY <1>5, <2>2, <2>3 DEF EndsLoan
<1> QED BY <1>2, <1>3, <1>4, <1>5 DEF Uses

LEMMA UseInit == Init => UseInv
BY DEF Init, UseInv, InResults

LEMMA UseNext == ASSUME IInv, ConnectedInv, UseInv, [Next]_vars PROVE UseInv'
<1>0. /\ results \in Seq(LaneResult) /\ conn \in [Lane -> {"none", "open", "closed"}]
      /\ used \in [Lane -> BOOLEAN] /\ lpc \in [Lane -> LaneState]
      /\ \A m \in Lane : InResults(m) \/ lpc[m] # "sent" => ~(cpc = "won" /\ m = winner)
      /\ cpc = "won" => winner \in Lane
      /\ upc # "none" => cpc = "won" /\ used[winner]
  BY DEF IInv, ShapeInv, OwnerInv, WinnerInv
<1>1. ASSUME UNCHANGED <<lpc, results, conn, cpc, winner, used, upc>> PROVE UseInv'
  BY <1>1 DEF UseInv, InResults
<1>2. ASSUME NEW l \in Lane, LaneStep(l) PROVE UseInv'
  <2>1. CASE Moves(l)
    <3>1. UNCHANGED <<results, conn, cpc, winner, used, upc>>
      BY <2>1 DEF Moves, shared
    <3>2. \A m \in Lane : lpc'[m] # "sent" => lpc[m] # "sent"
      BY <1>0, <2>1 DEF Moves
    <3> QED BY <3>1, <3>2 DEF UseInv, InResults
  <2>2. ASSUME NEW ok \in BOOLEAN, Sends(l, ok) PROVE UseInv'
    <3>1. /\ results' = Append(results, Result(l, ok)) /\ UNCHANGED <<cpc, winner, used, upc>>
          /\ lpc[l] # "sent"
      BY <2>2 DEF Sends, SendResult, shared
    <3>2. \A m \in Lane : InResults(m)' => InResults(m) \/ (m = l /\ ok)
      BY <1>0, <3>1, AppendedResult
    <3>3. \A m \in Lane : conn[m] = "open" \/ (m = l /\ ok) => conn'[m] = "open"
      BY <1>0, <2>2 DEF Sends
    <3>4. \A m \in Lane : lpc'[m] # "sent" => lpc[m] # "sent"
      BY <1>0, <2>2 DEF Sends, SendResult
    <3>5. \A m \in Lane : InResults(m)' \/ lpc'[m] # "sent" => ~used'[m]
      BY <3>1, <3>2, <3>4 DEF UseInv
    <3>6. \A m \in Lane : InResults(m)' \/ (cpc' = "won" /\ m = winner' /\ ~used'[m])
                             => conn'[m] = "open"
      BY <3>1, <3>2, <3>3 DEF UseInv
    <3>7. upc' \in {"plain", "upgradeOnH2"} => conn'[winner'] = "open" /\ used'[winner']
      BY <1>0, <3>1, <3>3 DEF UseInv
    <3> QED BY <3>5, <3>6, <3>7 DEF UseInv
  <2> QED BY <1>2, <2>1, <2>2, LaneStepKinds
<1>3. ASSUME results # <<>>, results' = Tail(results), UNCHANGED lpc
      PROVE  /\ \A m \in Lane : InResults(m)' => InResults(m) /\ m # Head(results).lane
             /\ Head(results).lane \in Lane
             /\ Head(results).ok => InResults(Head(results).lane)
             /\ lpc[Head(results).lane] = "sent"
  BY <1>3, HeadTaken DEF LaneResult
<1>4. CASE CollectError
  <2>1. /\ cpc = "collect" /\ cpc' # "won" /\ UNCHANGED <<lpc, conn, used, upc>>
        /\ results # <<>> /\ results' = Tail(results)
    BY <1>4 DEF CollectError, callerFrame, laneVars, rtVars
  <2>2. \A m \in Lane : InResults(m)' => InResults(m)
    BY <1>3, <2>1
  <2> QED BY <1>0, <2>1, <2>2 DEF UseInv
<1>5. CASE CollectWinner
  <2>1. /\ cpc = "collect" /\ winner' = Head(results).lane /\ Head(results).ok
        /\ UNCHANGED <<lpc, conn, used, upc>> /\ results # <<>> /\ results' = Tail(results)
    BY <1>5 DEF CollectWinner, callerFrame, laneVars, rtVars
  <2> QED BY <1>0, <1>3, <2>1 DEF UseInv
<1>6. CASE CallerGivesUp
  <2>1. cpc = "collect" /\ cpc' = "error" /\ UNCHANGED <<results, winner, lpc, conn, used, upc>>
    BY <1>6 DEF CallerGivesUp, callerFrame, laneVars, rtVars
  <2> QED BY <1>0, <2>1 DEF UseInv, InResults
<1>7. CASE Release
  <2>1. /\ results # <<>> /\ results' = Tail(results) /\ UNCHANGED <<lpc, cpc, winner, upc>>
    BY <1>7 DEF Release
  <2>2. CASE ~Head(results).ok
    <3>1. UNCHANGED <<conn, used>>
      BY <1>7, <2>2 DEF Release
    <3>2. \A m \in Lane : InResults(m)' => InResults(m)
      BY <1>3, <2>1
    <3> QED BY <2>1, <3>1, <3>2 DEF UseInv
  <2>3. CASE Head(results).ok
    <3> DEFINE h == Head(results).lane
    <3>1. /\ h \in Lane /\ InResults(h) /\ lpc[h] = "sent"
          /\ \A m \in Lane : InResults(m)' => InResults(m) /\ m # h
      BY <1>3, <2>1, <2>3
    <3>2. used' = [used EXCEPT ![h] = TRUE] /\ conn' = [conn EXCEPT ![h] = "closed"]
      BY <1>7, <2>3 DEF Release, CloseUnused, CloseConn
    <3> HIDE DEF h
    <3>3. /\ \A m \in Lane \ {h} : used'[m] = used[m] /\ conn'[m] = conn[m]
          /\ used'[h]
      BY <1>0, <3>1, <3>2
    <3>4. ~(cpc = "won" /\ h = winner)
      BY <1>0, <3>1
    <3> QED BY <1>0, <2>1, <3>1, <3>3, <3>4 DEF UseInv
  <2> QED BY <2>2, <2>3
<1>8. CASE UserStep
  <2>1. UNCHANGED <<lpc, results, cpc, winner>> /\ cpc = "won" /\ winner \in Lane
    BY <1>0, <1>8 DEF UserStep, UserCloses, RoundTripStarts, RoundTripFails, RoundTripSucceeds,
                BodyClosed, useFrame, callerVars
  <2>2. \A m \in Lane : InResults(m)' = InResults(m)
    BY <2>1 DEF InResults
  <2>3. \A m \in Lane \ {winner} : used'[m] = used[m] /\ conn'[m] = conn[m]
    BY <1>0, <1>8 DEF UserStep, UserCloses, RoundTripStarts, RoundTripFails, RoundTripSucceeds,
                      BodyClosed, CloseUnused, CloseConn
  <2>4. /\ used'[winner]
        /\ upc' \in {"plain", "upgradeOnH2"} => conn'[winner] = "open"
    BY <1>0, <1>8, <2>1 DEF UserStep, UserCloses, RoundTripStarts, RoundTripFails,
                      RoundTripSucceeds, BodyClosed, CloseUnused, CloseConn, UseInv
  <2> QED BY <1>0, <2>1, <2>2, <2>3, <2>4 DEF UseInv
<1>9. CASE CallerCancels \/ ClientCloses \/ ConfigChanges \/ UNCHANGED vars
  BY <1>1, <1>9 DEF CallerCancels, ClientCloses, ConfigChanges, vars, laneVars, callerVars, rtVars
<1> QED BY <1>2, <1>4, <1>5, <1>6, <1>7, <1>8, <1>9 DEF Next, CallerStep

\* What every step of a lane leaves alone, and what has not begun before the
\* lane has sent its result.
LEMMA LaneStepIsOwn ==
    ASSUME AccountInv, UseInv, NEW l \in Lane, LaneStep(l)
    PROVE  /\ OthersKept(l)
           /\ lpc[l] # "sent" /\ conn[l] # "open" /\ ~used'[l]
<1>0. /\ lpc \in [Lane -> LaneState] /\ conn \in [Lane -> {"none", "open", "closed"}]
      /\ lfront \in [Lane -> Front \cup {None}] /\ fromReady \in [Lane -> BOOLEAN]
  BY DEF AccountInv, IInv, ShapeInv, LaneFrontInv
<1>1. lpc[l] # "sent" /\ UNCHANGED <<used, upc>>
      /\ \A m \in Lane \ {l} : lpc'[m] = lpc[m] /\ conn'[m] = conn[m]
  <2>1. CASE Moves(l)
    BY <1>0, <2>1 DEF Moves, shared
  <2>2. CASE Sends(l, TRUE) \/ Sends(l, FALSE)
    BY <1>0, <2>2 DEF Sends, SendResult, shared
  <2> QED BY <2>1, <2>2, LaneStepKinds
<1>2. \A m \in Lane \ {l} : lfront'[m] = lfront[m] /\ fromReady'[m] = fromReady[m]
  <2>1. CASE \E f \in Front : LaneTakes(l, f) \/ LaneFallsBack(l, f)
    BY <1>0, <2>1 DEF LaneTakes, LaneFallsBack, Chooses
  <2>2. CASE ~\E f \in Front : LaneTakes(l, f) \/ LaneFallsBack(l, f)
    BY <2>2 DEF LaneStep, LaneEnds, LaneBegins, LaneHasNone, LaneGone, LaneUnusable, LaneChecked,
       LaneVetted, LaneDialFails, LaneConnects, LaneCancelled, LaneFailsFront
  <2> QED BY <2>1, <2>2
<1>3. OthersKept(l)
  BY <1>1, <1>2 DEF OthersKept, Has, Lent, InHand
<1>4. conn[l] # "open" /\ ~used[l]
  BY <1>1 DEF AccountInv, LaneFrontInv, UseInv
<1> QED BY <1>1, <1>3, <1>4

\* What a lane answers for, by where it is.
LEMMA LaneHolds ==
    ASSUME NEW l \in Lane, conn[l] # "open"
    PROVE  /\ Has(l) = IF InHand(l) /\ fromReady[l] THEN {lfront[l]} ELSE {}
           /\ Lent(l) = IF InHand(l) /\ ~fromReady[l] THEN lfront[l] ELSE None
BY DEF Has, Lent

LEMMA LaneHoldsNext ==
    ASSUME NEW l \in Lane, ~used'[l]
    PROVE  /\ conn'[l] # "open" =>
                 /\ Has(l)' = IF InHand(l)' /\ fromReady'[l] THEN {lfront'[l]} ELSE {}
                 /\ Lent(l)' = IF InHand(l)' /\ ~fromReady'[l] THEN lfront'[l] ELSE None
           /\ conn'[l] = "open" /\ ~InHand(l)' =>
                 Has(l)' = {lfront'[l]} /\ Lent(l)' = None
BY DEF Has, Lent

LEMMA LaneKeepsContract ==
    ASSUME AccountInv, UseInv, NEW l \in Lane, LaneStep(l)
    PROVE  [Pool!Next]_(Pool!vars)
<1>0. /\ OthersKept(l) /\ conn[l] # "open" /\ ~used'[l]
      /\ lpc \in [Lane -> LaneState] /\ conn \in [Lane -> {"none", "open", "closed"}]
      /\ lfront \in [Lane -> Front \cup {None}] /\ fromReady \in [Lane -> BOOLEAN]
      /\ InHand(l) => lfront[l] \in Front
  BY LaneStepIsOwn DEF AccountInv, IInv, ShapeInv, LaneFrontInv
<1> SUFFICES KeepsAll(l) \/ \E f \in Front : Uses(l, f)
  BY <1>0, KeepingIsAllowed, UsesAreAllowed
<1>h. /\ Has(l) = IF InHand(l) /\ fromReady[l] THEN {lfront[l]} ELSE {}
      /\ Lent(l) = IF InHand(l) /\ ~fromReady[l] THEN lfront[l] ELSE None
  BY <1>0, LaneHolds
<1>n. /\ conn'[l] # "open" =>
            /\ Has(l)' = IF InHand(l)' /\ fromReady'[l] THEN {lfront'[l]} ELSE {}
            /\ Lent(l)' = IF InHand(l)' /\ ~fromReady'[l] THEN lfront'[l] ELSE None
      /\ conn'[l] = "open" /\ ~InHand(l)' => Has(l)' = {lfront'[l]} /\ Lent(l)' = None
  BY <1>0, LaneHoldsNext
\* A lane that is done with its front puts a front it took into the queue, or
\* fails it, and forgets one it borrowed.
<1>r. ASSUME InHand(l), ~InHand(l)', conn' = conn, UNCHANGED <<lfront, fromReady>>,
             ready' = ready \/ (fromReady[l] /\ ready' = ready \cup {lfront[l]})
      PROVE  Uses(l, lfront[l])
  <2>1. Has(l)' = {} /\ Lent(l)' = None
    BY <1>0, <1>n, <1>r
  <2> QED BY <1>h, <1>r, <2>1 DEF Uses, GivesUp, EndsLoan
<1>k. ASSUME InHand(l) = InHand(l)', conn' = conn, UNCHANGED <<ready, lfront, fromReady>>
      PROVE  KeepsAll(l)
  BY <1>0, <1>h, <1>n, <1>k DEF KeepsAll
<1>1. CASE LaneEnds(l) \/ LaneHasNone(l) \/ LaneBegins(l)
  <2>1. /\ lpc[l] \in {"begin", "take"} /\ lpc'[l] \in {"sent", "take"}
        /\ UNCHANGED <<ready, lfront, fromReady, conn>>
    BY <1>0, <1>1 DEF LaneEnds, LaneHasNone, LaneBegins, SendResult, poolVars
  <2>2. ~InHand(l) /\ ~InHand(l)'
    BY <2>1 DEF InHand
  <2> QED BY <1>k, <2>1, <2>2 DEF InHand
<1>2. ASSUME NEW f \in Front, LaneTakes(l, f) PROVE Uses(l, f)
  <2>1. /\ ~InHand(l) /\ InHand(l)' /\ lfront'[l] = f /\ fromReady'[l] /\ conn' = conn
        /\ f \in ready /\ ready' = ready \ {f}
    BY <1>0, <1>2 DEF LaneTakes, Chooses, InHand
  <2> QED BY <1>0, <1>h, <1>n, <2>1 DEF Uses, TakesReady
<1>3. ASSUME NEW f \in Front, LaneFallsBack(l, f) PROVE Uses(l, f)
  <2>1. /\ ~InHand(l) /\ InHand(l)' /\ lfront'[l] = f /\ ~fromReady'[l] /\ conn' = conn
        /\ ready' = ready
    BY <1>0, <1>3 DEF LaneFallsBack, Chooses, InHand
  <2> QED BY <1>0, <1>h, <1>n, <2>1 DEF Uses, Borrows
<1>4. CASE LaneGone(l) \/ LaneUnusable(l) \/ LaneCancelled(l)
  <2>1. /\ InHand(l) /\ ~InHand(l)' /\ UNCHANGED <<conn, lfront, fromReady>>
        /\ ready' = ready \/ (fromReady[l] /\ ready' = ready \cup {lfront[l]})
    BY <1>0, <1>4 DEF LaneGone, LaneUnusable, LaneCancelled, NextAttempt, SendResult, Requeue,
                      InHand
  <2> QED BY <1>0, <1>r, <2>1
<1>5. CASE LaneFailsFront(l)
  <2>1. /\ InHand(l) /\ ~InHand(l)' /\ UNCHANGED <<conn, lfront, fromReady>>
        /\ ready' = ready \/ (fromReady[l] /\ ready' = ready \cup {lfront[l]})
    BY <1>0, <1>5 DEF LaneFailsFront, NextAttempt, Requeue, InHand
  <2> QED BY <1>0, <1>r, <2>1
<1>6. CASE LaneChecked(l) \/ LaneVetted(l) \/ LaneDialFails(l)
  <2>1. InHand(l) = TRUE /\ InHand(l)' = TRUE /\ UNCHANGED <<ready, lfront, fromReady, conn>>
    BY <1>0, <1>6 DEF LaneChecked, LaneVetted, LaneDialFails, InHand, poolVars
  <2> QED BY <1>k, <2>1
<1>7. CASE LaneConnects(l)
  <2>1. /\ InHand(l) /\ ~InHand(l)' /\ conn'[l] = "open"
        /\ UNCHANGED <<ready, lfront, fromReady>>
    BY <1>0, <1>7 DEF LaneConnects, SendResult, InHand, poolVars
  <2>2. Has(l)' = {lfront[l]} /\ Lent(l)' = None
    BY <1>n, <2>1
  <2>3. CASE fromReady[l]
    BY <1>h, <2>1, <2>2, <2>3 DEF KeepsAll
  <2>4. CASE ~fromReady[l]
    <3>1. EndsLoan(l, lfront[l])
      BY <1>h, <2>1, <2>2, <2>4 DEF EndsLoan
    <3> QED BY <1>0, <2>1, <3>1 DEF Uses
  <2> QED BY <2>3, <2>4
<1> QED BY <1>1, <1>2, <1>3, <1>4, <1>5, <1>6, <1>7 DEF LaneStep

\* Whoever gets to the round-tripper of a lane that has sent: what it answers
\* for is the front of an open connection in use or not yet used.
LEMMA SentHolds ==
    ASSUME NEW l \in Lane, lpc[l] = "sent", lpc'[l] = "sent", lfront' = lfront
    PROVE  /\ Lent(l) = None /\ Lent(l)' = None
           /\ Has(l) = IF conn[l] = "open" /\ (~used[l] \/ upc \in {"plain", "upgradeOnH2"})
                         THEN {lfront[l]} ELSE {}
           /\ Has(l)' = IF conn'[l] = "open" /\ (~used'[l] \/ upc' \in {"plain", "upgradeOnH2"})
                          THEN {lfront[l]} ELSE {}
BY DEF Has, Lent, InHand

LEMMA UserKeepsContract == ASSUME AccountInv, UseInv, UserStep PROVE [Pool!Next]_(Pool!vars)
<1>0. /\ conn \in [Lane -> {"none", "open", "closed"}] /\ used \in [Lane -> BOOLEAN]
      /\ \A m \in Lane : conn[m] = "open" => InResults(m) \/ (cpc = "won" /\ m = winner)
      /\ cpc = "won" => winner \in Lane /\ lpc[winner] = "sent"
      /\ upc # "none" => cpc = "won" /\ used[winner]
  BY DEF AccountInv, IInv, ShapeInv, OwnerInv, WinnerInv
<1>w. PICK w \in Lane : w = winner
  BY <1>0 DEF UserStep, UserCloses, RoundTripStarts, RoundTripFails, RoundTripSucceeds, BodyClosed
<1> USE <1>w
<1>1. lpc[w] = "sent" /\ cpc = "won" /\ UNCHANGED <<lpc, lfront, fromReady>>
  BY <1>0 DEF UserStep, UserCloses, RoundTripStarts, RoundTripFails, RoundTripSucceeds, BodyClosed,
              useFrame
<1>2. \A m \in Lane \ {w} : used'[m] = used[m] /\ conn'[m] = conn[m]
  BY <1>0, <1>1 DEF UserStep, UserCloses, RoundTripStarts, RoundTripFails, RoundTripSucceeds,
              BodyClosed, CloseUnused, CloseConn
<1>3. OthersKept(w)
  <2>1. \A m \in Lane \ {w} : conn[m] = "open" => ~used[m]
    BY <1>0 DEF UseInv
  <2> QED BY <1>1, <1>2, <2>1 DEF OthersKept, Has, Lent, InHand
<1>4. /\ Lent(w) = None /\ Lent(w)' = None
      /\ Has(w) = IF conn[w] = "open" /\ (~used[w] \/ upc \in {"plain", "upgradeOnH2"})
                    THEN {lfront[w]} ELSE {}
      /\ Has(w)' = IF conn'[w] = "open" /\ (~used'[w] \/ upc' \in {"plain", "upgradeOnH2"})
                     THEN {lfront[w]} ELSE {}
  BY <1>1, SentHolds
<1>5. conn[w] = "open" => lfront[w] \in Front
  BY <1>1 DEF AccountInv, LaneFrontInv
<1> SUFFICES KeepsAll(w) \/ \E f \in Front : Uses(w, f)
  BY <1>1, <1>3, KeepingIsAllowed, UsesAreAllowed
<1>6. CASE UserCloses
  <2>1. /\ ~used[w] /\ conn[w] = "open" /\ conn'[w] = "closed"
        /\ ready' = ready \cup {lfront[w]}
    BY <1>0, <1>1, <1>6 DEF UserCloses, CloseUnused, CloseConn, GiveBackFront, UseInv
  <2> QED BY <1>4, <1>5, <2>1 DEF Uses, GivesUp
<1>7. CASE RoundTripStarts
  <2>1. /\ ~used[w] /\ conn[w] = "open" /\ conn' = conn /\ ready' = ready
        /\ upc' \in {"plain", "upgradeOnH2"}
    BY <1>0, <1>1, <1>7 DEF RoundTripStarts, poolVars, UseInv
  <2> QED BY <1>4, <2>1 DEF KeepsAll
<1>8. CASE RoundTripFails
  <2>1. /\ conn[w] = "open" /\ conn'[w] = "closed" /\ ready' = ready
        /\ upc \in {"plain", "upgradeOnH2"}
    BY <1>0, <1>1, <1>8 DEF RoundTripFails, CloseConn, UseInv
  <2> QED BY <1>4, <1>5, <2>1 DEF Uses, GivesUp
<1>9. CASE RoundTripSucceeds
  <2>1. /\ conn[w] = "open" /\ used[w] /\ used' = used /\ ready' = ready \cup {lfront[w]}
        /\ upc = "plain" /\ upc' = "reading"
    BY <1>0, <1>1, <1>9 DEF RoundTripSucceeds, GiveBackFront, UseInv
  <2> QED BY <1>4, <1>5, <2>1 DEF Uses, GivesUp
<1>10. CASE BodyClosed
  <2>1. /\ used[w] /\ conn'[w] = "closed" /\ ready' = ready /\ upc = "reading"
    BY <1>0, <1>1, <1>10 DEF BodyClosed, CloseConn, poolVars
  <2> QED BY <1>4, <2>1 DEF KeepsAll
<1> QED BY <1>6, <1>7, <1>8, <1>9, <1>10 DEF UserStep

LEMMA RestKeepsContract ==
    ASSUME AccountInv, UseInv,
           CallerStep \/ Release \/ CallerCancels \/ ClientCloses \/ ConfigChanges \/ UNCHANGED vars
    PROVE  [Pool!Next]_(Pool!vars)
<1>1. ASSUME UNCHANGED <<ready, lpc, lfront, fromReady, conn, used, upc>>
      PROVE  UNCHANGED Pool!vars
  BY <1>1 DEF Pool!vars, Has, Lent, InHand
<1>2. CASE CallerStep \/ CallerCancels \/ ClientCloses \/ ConfigChanges \/ UNCHANGED vars
  BY <1>1, <1>2 DEF CallerStep, CollectError, CollectWinner, CallerGivesUp, callerFrame,
     CallerCancels, ClientCloses, ConfigChanges, vars, poolVars, laneVars, rtVars
<1>3. CASE Release /\ ~Head(results).ok
  BY <1>1, <1>3 DEF Release, poolVars
<1>4. CASE Release /\ Head(results).ok
  <2>h. /\ Head(results) \in LaneResult /\ lpc[Head(results).lane] = "sent"
        /\ InResults(Head(results).lane)
    BY <1>4, HeadTaken DEF Release, AccountInv
  <2>p. PICK h \in Lane : h = Head(results).lane
    BY <2>h DEF LaneResult
  <2>0. /\ conn \in [Lane -> {"none", "open", "closed"}] /\ used \in [Lane -> BOOLEAN]
        /\ InResults(h) /\ lpc[h] = "sent"
    BY <2>h, <2>p DEF AccountInv, IInv, ShapeInv
  <2>1. /\ conn' = [conn EXCEPT ![h] = "closed"] /\ used' = [used EXCEPT ![h] = TRUE]
        /\ ready' = ready \cup {lfront[h]} /\ UNCHANGED <<lpc, lfront, fromReady, upc>>
    BY <1>4, <2>p DEF Release, CloseUnused, CloseConn, GiveBackFront
  <2>2. OthersKept(h)
    <3>1. \A m \in Lane \ {h} : conn'[m] = conn[m] /\ used'[m] = used[m]
      BY <2>0, <2>1
    <3> QED BY <2>1, <3>1 DEF OthersKept, Has, Lent, InHand
  <2>3. conn[h] = "open" /\ ~used[h] /\ conn'[h] = "closed" /\ lfront[h] \in Front
    BY <2>0, <2>1 DEF UseInv, AccountInv, LaneFrontInv
  <2>4. /\ Lent(h) = None /\ Lent(h)' = None
        /\ Has(h) = {lfront[h]} /\ Has(h)' = {}
    BY <2>0, <2>1, <2>3, SentHolds
  <2>5. Uses(h, lfront[h])
    BY <2>1, <2>4 DEF Uses, GivesUp
  <2> QED BY <2>0, <2>2, <2>3, <2>5, UsesAreAllowed
<1> QED BY <1>2, <1>3, <1>4

\* The race uses the pool as Rotation allows, which the pool is proved to
\* implement: whatever overlaps, a lane or a round-tripper puts back or fails
\* only a front it answers for at that instant (connected.go:134-176, 298-320).
THEOREM RaceUsesRotation == Spec => UsesRotation
<1>1. Init => AccountInv /\ UseInv
  BY AccountInit, UseInit
<1>2. AccountInv /\ UseInv /\ [Next]_vars => (AccountInv /\ UseInv)'
  BY AccountNext, UseNext DEF AccountInv
<1>3. AccountInv /\ UseInv /\ [Next]_vars => [Pool!Next]_(Pool!vars)
  <2> SUFFICES ASSUME AccountInv, UseInv, [Next]_vars PROVE [Pool!Next]_(Pool!vars)
    OBVIOUS
  <2>1. CASE \E l \in Lane : LaneStep(l)
    BY <2>1, LaneKeepsContract
  <2>2. CASE UserStep
    BY <2>2, UserKeepsContract
  <2>3. CASE CallerStep \/ Release \/ CallerCancels \/ ClientCloses \/ ConfigChanges
               \/ UNCHANGED vars
    BY <2>3, RestKeepsContract
  <2> QED BY <2>1, <2>2, <2>3 DEF Next
<1> QED BY <1>1, <1>2, <1>3, PTL DEF Spec, UsesRotation
=============================================================================
