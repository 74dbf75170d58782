---------------------------- MODULE ConnectRace ----------------------------
(***************************************************************************)
(* One call of NewConnectedRoundTripper (connected.go): a lane per         *)
(* provider that maps the host dials that provider's fronts one at a time, *)
(* the first lane to connect wins, the race's context is cancelled and a   *)
(* releasing goroutine closes what connects too late.  The winner is used  *)
(* by application goroutines that may call RoundTrip and Close on it at    *)
(* once.  The pool is the set that Rotation specifies.                     *)
(***************************************************************************)
EXTENDS Naturals, Sequences, FiniteSets

CONSTANTS
    Lane,          \* the providers that map the host
    Front,
    LaneOf,        \* the provider of each front
    None,
    MaxTries,      \* maxRetries
    MaxChange      \* bound: how many configuration updates may land

ASSUME RaceAssumption ==
    /\ Lane # {} /\ IsFiniteSet(Lane)
    /\ LaneOf \in [Front -> Lane]
    /\ MaxTries \in Nat \ {0} /\ MaxChange \in Nat
    /\ None \notin Front

VARIABLES
    ready,       \* fronts in the ready queue
    initial,     \* history: those that were in it when the race began
    succ,        \* fronts whose LastSucceeded is set
    mapping,     \* what the configuration says of each lane's provider
    changes,     \* configuration updates so far
    paused,
    poolClosed,
    callerDone,  \* the caller's ctx has ended
    raceOver,    \* cancel() was called on raceCtx
    lpc,         \* where each lane is
    tries,       \* attempts a lane has made
    tried,       \* fronts it has dialed
    lfront,      \* the front it works on
    fromReady,   \* whether it took that front from the ready queue
    conn,        \* the connection of each lane: none, open or closed
    cut,         \* history: the lane's dial failed because of a cancellation
    results,     \* the channel of lane results
    cpc,         \* the caller: collecting, or what it returned
    remaining,   \* results the caller still waits for
    toRelease,   \* results the releasing goroutine still waits for
    winner,
    used,        \* rt.used of each lane's round-tripper
    givenBack,   \* how often each round-tripper returned its front
    upc          \* where the RoundTrip of the winner is that got to use it

poolVars == <<ready, succ>>
configVars == <<mapping, changes, paused>>
ctxVars == <<poolClosed, callerDone, raceOver>>
laneVars == <<lpc, tries, tried, lfront, fromReady, conn, cut>>
callerVars == <<cpc, remaining, toRelease, winner>>
rtVars == <<used, givenBack, upc>>
vars == <<ready, initial, succ, mapping, changes, paused, poolClosed, callerDone,
          raceOver, lpc, tries, tried, lfront, fromReady, conn, cut, results,
          cpc, remaining, toRelease, winner, used, givenBack, upc>>

\* raceCtx is a child of the caller's ctx.
RaceDone == raceOver \/ callerDone

Mapping == {"ok", "noTestURL", "unmapped", "gone"}

Result(l, ok) == [lane |-> l, ok |-> ok]

\* Every lane's provider maps the host; that it has no test URL, or that the
\* client is paused, is one step of ConfigChanges away.
Init ==
    /\ ready \in SUBSET Front
    /\ initial = ready /\ succ = ready
    /\ mapping = [l \in Lane |-> "ok"]
    /\ changes = 0
    /\ paused = FALSE
    /\ poolClosed = FALSE /\ callerDone = FALSE /\ raceOver = FALSE
    /\ lpc = [l \in Lane |-> "begin"]
    /\ tries = [l \in Lane |-> 0]
    /\ tried = [l \in Lane |-> {}]
    /\ lfront = [l \in Lane |-> None]
    /\ fromReady = [l \in Lane |-> FALSE]
    /\ conn = [l \in Lane |-> "none"]
    /\ cut = [l \in Lane |-> FALSE]
    /\ results = <<>>
    /\ cpc = "collect"
    /\ remaining = Cardinality(Lane)
    /\ toRelease = 0
    /\ winner = None
    /\ used = [l \in Lane |-> FALSE]
    /\ givenBack = [l \in Lane |-> 0]
    /\ upc = "none"
-----------------------------------------------------------------------------
(***************************************************************************)
(* connectVia                                                              *)
(***************************************************************************)
laneFrame == UNCHANGED <<initial, configVars, ctxVars, callerVars, rtVars>>

\* The lane's goroutine sends its result, for which the channel has room.
SendResult(l, ok) ==
    /\ lpc' = [lpc EXCEPT ![l] = "sent"]
    /\ results' = Append(results, Result(l, ok))

NextAttempt(l) == lpc' = [lpc EXCEPT ![l] = "begin"] /\ UNCHANGED results

\* The budget is spent, or the pool is closed.
LaneEnds(l) ==
    /\ lpc[l] = "begin"
    /\ tries[l] = MaxTries \/ poolClosed
    /\ SendResult(l, FALSE)
    /\ UNCHANGED <<poolVars, tries, tried, lfront, fromReady, conn, cut>> /\ laneFrame

LaneBegins(l) ==
    /\ lpc[l] = "begin"
    /\ tries[l] < MaxTries /\ ~poolClosed
    /\ lpc' = [lpc EXCEPT ![l] = "take"]
    /\ tries' = [tries EXCEPT ![l] = @ + 1]
    /\ UNCHANGED <<results, poolVars, tried, lfront, fromReady, conn, cut>> /\ laneFrame

Untried(l) == {f \in Front : LaneOf[f] = l} \ tried[l]

Chooses(l, f, isReady) ==
    /\ lpc' = [lpc EXCEPT ![l] = "check"]
    /\ lfront' = [lfront EXCEPT ![l] = f]
    /\ fromReady' = [fromReady EXCEPT ![l] = isReady]
    /\ tried' = [tried EXCEPT ![l] = @ \cup {f}]
    /\ UNCHANGED <<results, succ, tries, conn, cut>> /\ laneFrame

\* tryTakeFrom finds a ready front of the provider that was not tried.
LaneTakes(l, f) ==
    /\ lpc[l] = "take"
    /\ f \in ready \cap Untried(l)
    /\ ready' = ready \ {f}
    /\ Chooses(l, f, TRUE)

\* None is ready: one of the candidates.  The candidates are the provider's
\* known fronts, those that are in use included.
LaneFallsBack(l, f) ==
    /\ lpc[l] = "take"
    /\ ready \cap Untried(l) = {}
    /\ f \in Untried(l)
    /\ Chooses(l, f, FALSE)
    /\ UNCHANGED ready

LaneHasNone(l) ==
    /\ lpc[l] = "take"
    /\ Untried(l) = {}
    /\ SendResult(l, FALSE)
    /\ UNCHANGED <<poolVars, tries, tried, lfront, fromReady, conn, cut>> /\ laneFrame

\* Fault: a front that was only borrowed is put into the queue.
RequeueAlways(l) == ready' = ready \cup {lfront[l]}

\* Return(f, true) of a front that came from the ready queue.
Requeue(l) ==
    ready' = IF fromReady[l] THEN ready \cup {lfront[l]} ELSE ready

\* Fault: the front of a provider that is gone is not put back.
LaneGoneForgets(l) ==
    /\ lpc[l] = "check" /\ mapping[l] = "gone"
    /\ NextAttempt(l)
    /\ UNCHANGED <<ready, succ, tries, tried, lfront, fromReady, conn, cut>> /\ laneFrame

\* The provider is gone: the next attempt.
LaneGone(l) ==
    /\ lpc[l] = "check" /\ mapping[l] = "gone"
    /\ Requeue(l)
    /\ NextAttempt(l)
    /\ UNCHANGED <<succ, tries, tried, lfront, fromReady, conn, cut>> /\ laneFrame

\* Fault: the lane reports that it gives up and goes on.
LaneUnusableGoesOn(l) ==
    /\ lpc[l] = "check"
    /\ mapping[l] = "unmapped" \/ (mapping[l] = "noTestURL" /\ ~fromReady[l])
    /\ Requeue(l)
    /\ results' = Append(results, Result(l, FALSE))
    /\ lpc' = [lpc EXCEPT ![l] = "begin"]
    /\ UNCHANGED <<succ, tries, tried, lfront, fromReady, conn, cut>> /\ laneFrame

\* It no longer maps the host, or has no test URL to vet a fallback with:
\* the lane gives up.
LaneUnusable(l) ==
    /\ lpc[l] = "check"
    /\ mapping[l] = "unmapped" \/ (mapping[l] = "noTestURL" /\ ~fromReady[l])
    /\ Requeue(l)
    /\ SendResult(l, FALSE)
    /\ UNCHANGED <<succ, tries, tried, lfront, fromReady, conn, cut>> /\ laneFrame

LaneChecked(l) ==
    /\ lpc[l] = "check"
    /\ mapping[l] = "ok" \/ (mapping[l] = "noTestURL" /\ fromReady[l])
    /\ lpc' = [lpc EXCEPT ![l] = IF fromReady[l] THEN "dial" ELSE "vet"]
    /\ UNCHANGED <<results, poolVars, tries, tried, lfront, fromReady, conn, cut>> /\ laneFrame

\* dialUnvetted's first dial and its POST succeed and the race is still on;
\* the connection they used is closed again.
LaneVetted(l) ==
    /\ lpc[l] = "vet" /\ ~RaceDone
    /\ succ' = succ \cup {lfront[l]}
    /\ lpc' = [lpc EXCEPT ![l] = "dial"]
    /\ UNCHANGED <<results, ready, tries, tried, lfront, fromReady, conn, cut>>
    /\ laneFrame

\* A dial or a vet fails, by itself or because the context ended.
LaneDialFails(l) ==
    /\ lpc[l] \in {"vet", "dial"}
    /\ lpc' = [lpc EXCEPT ![l] = "failed"]
    /\ cut' = [cut EXCEPT ![l] = RaceDone]
    /\ UNCHANGED <<results, poolVars, tries, tried, lfront, fromReady, conn>> /\ laneFrame

\* The connection is established; a handshake does not watch the context, so
\* this may come after the race is over.
LaneConnects(l) ==
    /\ lpc[l] = "dial"
    /\ conn' = [conn EXCEPT ![l] = "open"]
    /\ SendResult(l, TRUE)
    /\ UNCHANGED <<poolVars, tries, tried, lfront, fromReady, cut>> /\ laneFrame

\* The context ended: the failure says nothing about the front.
LaneCancelled(l) ==
    /\ lpc[l] = "failed" /\ RaceDone
    /\ Requeue(l)
    /\ SendResult(l, FALSE)
    /\ UNCHANGED <<succ, tries, tried, lfront, fromReady, conn, cut>> /\ laneFrame

\* Fault: the lane asks the caller's context instead of the race's.
LaneFailsFrontUnlessCallerDone(l) ==
    /\ lpc[l] = "failed" /\ ~callerDone
    /\ IF paused
         THEN Requeue(l) /\ UNCHANGED succ
         ELSE /\ succ' = succ \ {lfront[l]}
              /\ UNCHANGED ready
    /\ NextAttempt(l)
    /\ UNCHANGED <<tries, tried, lfront, fromReady, conn, cut>> /\ laneFrame

\* The failure counts against the front, unless the client is paused.
LaneFailsFront(l) ==
    /\ lpc[l] = "failed" /\ ~RaceDone
    /\ IF paused
         THEN Requeue(l) /\ UNCHANGED succ
         ELSE /\ succ' = succ \ {lfront[l]}
              /\ UNCHANGED ready
    /\ NextAttempt(l)
    /\ UNCHANGED <<tries, tried, lfront, fromReady, conn, cut>> /\ laneFrame
-----------------------------------------------------------------------------
(***************************************************************************)
(* rt.Close and rt.RoundTrip of the round-tripper of lane l                *)
(***************************************************************************)
GiveBackFront(l) ==
    /\ ready' = ready \cup {lfront[l]}
    /\ givenBack' = [givenBack EXCEPT ![l] = @ + 1]

CloseConn(l) == conn' = [conn EXCEPT ![l] = "closed"]

\* Whoever swaps rt.used releases the front and the connection.
CloseUnused(l) ==
    /\ used' = [used EXCEPT ![l] = TRUE]
    /\ GiveBackFront(l)
    /\ CloseConn(l)
    /\ UNCHANGED succ
-----------------------------------------------------------------------------
(***************************************************************************)
(* The caller, and the goroutine that release starts                       *)
(***************************************************************************)
callerFrame == UNCHANGED <<initial, poolVars, configVars, laneVars, rtVars, poolClosed, callerDone>>

CollectError ==
    /\ cpc = "collect" /\ results # <<>> /\ ~Head(results).ok
    /\ results' = Tail(results)
    /\ remaining' = remaining - 1
    /\ raceOver' = (remaining = 1)
    /\ cpc' = IF remaining = 1 THEN "error" ELSE "collect"
    /\ UNCHANGED <<toRelease, winner>> /\ callerFrame

\* Fault: the results still to come are left in the channel.
CollectWinnerOnly ==
    /\ cpc = "collect" /\ results # <<>> /\ Head(results).ok
    /\ results' = Tail(results)
    /\ winner' = Head(results).lane
    /\ raceOver' = TRUE
    /\ cpc' = "won"
    /\ remaining' = 0
    /\ UNCHANGED toRelease /\ callerFrame

CollectWinner ==
    /\ cpc = "collect" /\ results # <<>> /\ Head(results).ok
    /\ results' = Tail(results)
    /\ winner' = Head(results).lane
    /\ raceOver' = TRUE
    /\ toRelease' = remaining - 1
    /\ cpc' = "won"
    /\ remaining' = 0
    /\ callerFrame

\* Fault: the caller does not watch its context.
CallerIgnoresContext == FALSE

CallerGivesUp ==
    /\ cpc = "collect" /\ callerDone
    /\ raceOver' = TRUE
    /\ toRelease' = remaining
    /\ cpc' = "error"
    /\ remaining' = 0
    /\ UNCHANGED <<results, winner>> /\ callerFrame

\* Fault: the releasing goroutine drops what it receives.
ReleaseWithoutClose ==
    /\ toRelease > 0 /\ results # <<>>
    /\ results' = Tail(results)
    /\ toRelease' = toRelease - 1
    /\ UNCHANGED <<initial, poolVars, conn, used, givenBack, configVars, ctxVars, lpc,
                   tries, tried, lfront, fromReady, cut, cpc, remaining, winner, upc>>

\* The releasing goroutine takes a result and closes its round-tripper.
Release ==
    /\ toRelease > 0 /\ results # <<>>
    /\ results' = Tail(results)
    /\ toRelease' = toRelease - 1
    /\ IF Head(results).ok
         THEN CloseUnused(Head(results).lane)
         ELSE UNCHANGED <<poolVars, conn, used, givenBack>>
    /\ UNCHANGED <<initial, configVars, ctxVars, lpc, tries, tried, lfront, fromReady,
                   cut, cpc, remaining, winner, upc>>
-----------------------------------------------------------------------------
(***************************************************************************)
(* The application: any of its goroutines may call RoundTrip and Close on  *)
(* the winner at any time.  A call that finds rt.used set changes nothing. *)
(***************************************************************************)
useFrame == UNCHANGED <<initial, configVars, ctxVars, callerVars, results, lpc, tries, tried,
                        lfront, fromReady, cut>>

\* Fault: Close does not compare and swap used.
UserClosesBlindly ==
    /\ cpc = "won"
    /\ CloseUnused(winner)
    /\ UNCHANGED upc /\ useFrame

\* Close, or a RoundTrip whose host is not mapped or whose body is unreadable.
UserCloses ==
    /\ cpc = "won" /\ ~used[winner]
    /\ CloseUnused(winner)
    /\ UNCHANGED upc /\ useFrame

\* RoundTrip gets past the swap and sends the request.
RoundTripStarts ==
    /\ cpc = "won" /\ ~used[winner]
    /\ used' = [used EXCEPT ![winner] = TRUE]
    /\ upc' \in {"plain", "upgradeOnH2"}
    /\ UNCHANGED <<poolVars, conn, givenBack>> /\ useFrame

\* doRequest returns an error, which an upgrade over HTTP/2 always is.
RoundTripFails ==
    /\ upc \in {"plain", "upgradeOnH2"}
    /\ succ' = succ \ {lfront[winner]}
    /\ CloseConn(winner)
    /\ upc' = "done"
    /\ UNCHANGED <<ready, used, givenBack>> /\ useFrame

\* ReturnSuccess; the response body keeps the connection until it is closed.
RoundTripSucceeds ==
    /\ upc = "plain"
    /\ succ' = succ \cup {lfront[winner]}
    /\ GiveBackFront(winner)
    /\ upc' = "reading"
    /\ UNCHANGED <<conn, used>> /\ useFrame

BodyClosed ==
    /\ upc = "reading"
    /\ CloseConn(winner)
    /\ upc' = "done"
    /\ UNCHANGED <<poolVars, used, givenBack>> /\ useFrame
-----------------------------------------------------------------------------
(***************************************************************************)
(* What happens around the race                                            *)
(***************************************************************************)
CallerCancels ==
    /\ ~callerDone /\ callerDone' = TRUE
    /\ UNCHANGED <<initial, poolVars, configVars, poolClosed, raceOver, laneVars, results,
                   callerVars, rtVars>>

ClientCloses ==
    /\ ~poolClosed /\ poolClosed' = TRUE
    /\ UNCHANGED <<initial, poolVars, configVars, callerDone, raceOver, laneVars, results,
                   callerVars, rtVars>>

\* A configuration update changes what is known of a lane's provider, or the
\* client is paused or resumed.
ConfigChanges ==
    /\ changes < MaxChange /\ changes' = changes + 1
    /\ \/ /\ \E l \in Lane, m \in Mapping : mapping' = [mapping EXCEPT ![l] = m]
          /\ UNCHANGED paused
       \/ paused' = ~paused /\ UNCHANGED mapping
    /\ UNCHANGED <<initial, poolVars, ctxVars, laneVars, results, callerVars, rtVars>>
-----------------------------------------------------------------------------
LaneStep(l) ==
    \/ LaneEnds(l) \/ LaneBegins(l)
    \/ \E f \in Front : LaneTakes(l, f) \/ LaneFallsBack(l, f)
    \/ LaneHasNone(l) \/ LaneGone(l) \/ LaneUnusable(l) \/ LaneChecked(l)
    \/ LaneVetted(l) \/ LaneDialFails(l) \/ LaneConnects(l)
    \/ LaneCancelled(l) \/ LaneFailsFront(l)

CallerStep == CollectError \/ CollectWinner \/ CallerGivesUp

UserStep ==
    UserCloses \/ RoundTripStarts \/ RoundTripFails \/ RoundTripSucceeds \/ BodyClosed

Next ==
    \/ \E l \in Lane : LaneStep(l)
    \/ CallerStep \/ Release
    \/ UserStep
    \/ CallerCancels \/ ClientCloses \/ ConfigChanges

Spec == Init /\ [][Next]_vars

\* A goroutine that can run does, but a handshake may last; nobody must use
\* the winner.
FairSpec ==
    /\ Spec
    /\ \A l \in Lane : WF_vars(LaneStep(l) /\ lpc[l] \notin {"vet", "dial"})
    /\ WF_vars(CallerStep) /\ WF_vars(Release)
-----------------------------------------------------------------------------
TypeOK ==
    /\ ready \subseteq Front /\ initial \subseteq Front /\ succ \subseteq Front
    /\ mapping \in [Lane -> Mapping] /\ changes \in 0 .. MaxChange
    /\ paused \in BOOLEAN /\ poolClosed \in BOOLEAN
    /\ callerDone \in BOOLEAN /\ raceOver \in BOOLEAN
    /\ lpc \in [Lane -> {"begin", "take", "check", "vet", "dial", "failed", "sent"}]
    /\ tries \in [Lane -> 0 .. MaxTries]
    /\ tried \in [Lane -> SUBSET Front]
    /\ lfront \in [Lane -> Front \cup {None}]
    /\ fromReady \in [Lane -> BOOLEAN] /\ cut \in [Lane -> BOOLEAN]
    /\ conn \in [Lane -> {"none", "open", "closed"}]
    /\ results \in Seq([lane : Lane, ok : BOOLEAN]) /\ Len(results) <= Cardinality(Lane)
    /\ cpc \in {"collect", "won", "error"}
    /\ remaining \in 0 .. Cardinality(Lane) /\ toRelease \in 0 .. Cardinality(Lane)
    /\ winner \in Lane \cup {None}
    /\ used \in [Lane -> BOOLEAN] /\ givenBack \in [Lane -> Nat]
    /\ upc \in {"none", "plain", "upgradeOnH2", "reading", "done"}

InResults(l) == \E i \in DOMAIN results : results[i] = Result(l, TRUE)

\* No connection leaks: an open one is on its way to somebody who will close
\* it, or belongs to the caller that won (connected.go:46-56, 72-75).
OpenConnectionsAreOwned ==
    \A l \in Lane : conn[l] = "open" =>
        \/ l = winner
        \/ InResults(l) /\ (cpc = "collect" \/ toRelease > 0)

\* The releasing goroutine and the caller wait for exactly the results that
\* lanes have still to send or have sent: neither blocks for ever and none is
\* left behind (connected.go:59-76).
ResultsAreAwaited ==
    remaining + toRelease = Len(results) + Cardinality({l \in Lane : lpc[l] # "sent"})

\* A lane works on a front.
InHand(l) == lpc[l] \in {"check", "vet", "dial", "failed"}

\* A front that was ready when the race began is ready again, or failed, or in
\* the hands of a lane, of the winner or of the releasing goroutine
\* (connected.go:109-176, 311-320).
FrontsAreAccounted ==
    \A f \in initial :
        \/ f \in ready \/ f \notin succ
        \/ \E l \in Lane : lfront[l] = f /\ (InHand(l) \/ conn[l] = "open")

\* What a lane and its round-tripper answer for to the pool: a front taken from
\* the ready queue, and from the connection on any front, until it is returned
\* or failed.
Has(l) ==
    IF \/ InHand(l) /\ fromReady[l]
       \/ conn[l] = "open" /\ (~used[l] \/ upc \in {"plain", "upgradeOnH2"})
      THEN {lfront[l]} ELSE {}
Lent(l) == IF InHand(l) /\ ~fromReady[l] THEN lfront[l] ELSE None

Pool == INSTANCE Rotation WITH
    Item <- Front, Client <- Lane, Nothing <- None, avail <- ready,
    has <- [l \in Lane |-> Has(l)], lent <- [l \in Lane |-> Lent(l)]

\* The race uses the pool as its contract allows, whatever overlaps: it puts
\* into the queue, and fails, only a front it then answers for, never one that
\* it borrowed to vet or has given back (connected.go:134-176, 298-320).
UsesRotation == [][Pool!Next]_(Pool!vars)

\* The front of a round-tripper is returned at most once, whoever calls
\* RoundTrip and Close on it (connected.go:268-271, 314-319).
GivenBackOnce == \A l \in Lane : givenBack[l] <= 1

\* A dial that failed after the race was decided never counts against its
\* front: "that says nothing about this front" (connected.go:161-168).
CancelledDialKeepsFront ==
    [][\A l \in Lane :
          lpc[l] = "failed" /\ cut[l] /\ lpc'[l] # "failed" => succ \subseteq succ']_vars

\* The call returns, at the latest when the caller's context ends, though a
\* handshake that does not watch the context may take longer
\* (connected.go:59-68), and once every handshake has ended everything that
\* connected is released or won.
CallReturns == callerDone ~> cpc # "collect"
AllReleased ==
    (\A l \in Lane : []<>(lpc[l] \notin {"vet", "dial"})) =>
        <>[](results = <<>> /\ toRelease = 0 /\ cpc # "collect")
=============================================================================
