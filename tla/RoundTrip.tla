----------------------------- MODULE RoundTrip -----------------------------
(***************************************************************************)
(* Concurrent calls of RoundTrip (roundtrip.go): each takes a front, looks *)
(* its provider up, dials, sends and either answers or retries.  The pool  *)
(* is the one that Rotation specifies, in the order of its channel; vets,  *)
(* configuration updates, pauses and Close happen around the calls.        *)
(***************************************************************************)
EXTENDS ProviderConfig

CONSTANTS
    Call, Provider, Front,
    ProviderOf,   \* the provider of each front
    Offered,      \* what a configuration may say of a provider
    Origin,       \* the host each call asks for
    Warm,         \* the ready queue as the calls find it
    Gone,         \* a provider no configuration names
    SpeaksH2,     \* fronts whose edge chooses HTTP/2
    Upgrades,     \* the calls that ask for a connection upgrade
    None,
    MaxRetries,
    MaxScan,      \* maxProviderScan: the fronts one take may scan (8 in the code)
    MaxChange     \* bound: what happens around the calls

ASSUME RoundTripAssumption ==
    /\ IsFiniteSet(Front)
    /\ ProviderOf \in [Front -> Provider] /\ Warm \in Seq(Front)
    /\ None \notin Front /\ Gone \notin Offered /\ Upgrades \subseteq Call
    /\ MaxRetries \in Nat \ {0} /\ MaxScan \in Nat /\ MaxChange \in Nat
    /\ Origin \in [Call -> Hosts] /\ Empty \notin Hosts
    /\ \A c \in Offered : WellWritten(c) /\ Gone \notin ExpandedProviders(c)

VARIABLES
    ready,     \* the ready queue: fronts leave at its head
    succ,      \* fronts whose LastSucceeded is set
    config,    \* what the configuration says of each provider
    providers, \* what applyConfig made of it
    applying,  \* applyConfig has published the providers, Replace is to follow
    paused, closed, changes,
    ctxDone,   \* the request's context has ended
    pc, tries,
    tried,     \* providers that did not forward
    front,     \* the front in hand
    left,      \* fronts its scan of the queue may still pull
    skipped,   \* fronts its scan has pulled and owes the queue
    via,       \* the name its provider has the host sent under
    open,      \* connections opened and not closed
    gaveUp,    \* history: the dial failed because the caller gave up
    rejected   \* history: providers that got a request and failed it

pool == <<ready, succ>>
scan == <<left, skipped>>
world == <<config, providers, applying, paused, closed, changes, ctxDone>>
vars == <<ready, succ, config, providers, applying, paused, closed, changes,
          ctxDone, pc, tries, tried, front, left, skipped, via, open, gaveUp, rejected>>

\* What applyConfig may publish for a provider.
Published(c) == IF c = Gone THEN {Gone} ELSE ExpandedProviders(c)
Running(c) == pc[c] \notin {"start", "ok", "end"}

Init ==
    /\ ready = Warm /\ succ = Front
    /\ \E c \in Offered, ep \in UNION {Published(c) : c \in Offered} :
         /\ ep \in Published(c)
         /\ config = [p \in Provider |-> c] /\ providers = [p \in Provider |-> ep]
    /\ applying = FALSE
    /\ paused = FALSE /\ closed = FALSE /\ changes = 0
    /\ ctxDone = [c \in Call |-> FALSE]
    /\ pc = [c \in Call |-> "start"]
    /\ tries = [c \in Call |-> 0]
    /\ tried = [c \in Call |-> {}] /\ rejected = [c \in Call |-> {}]
    /\ front = [c \in Call |-> None] /\ via = [c \in Call |-> Empty]
    /\ left = [c \in Call |-> 0] /\ skipped = [c \in Call |-> <<>>]
    /\ open = [c \in Call |-> 0]
    /\ gaveUp = [c \in Call |-> FALSE]
-----------------------------------------------------------------------------
Queued == Sequence!ToSet(ready)

\* addReady, on the contract of Rotation: a front is in the queue at most once.
addReady(f) == ready' = IF f \in Queued THEN ready ELSE Append(ready, f)

Goto(c, label) == pc' = [pc EXCEPT ![c] = label]

\* The front is out of hand: the next attempt, or the end of the call.
Drop(c) ==
    /\ front' = [front EXCEPT ![c] = None] /\ via' = [via EXCEPT ![c] = Empty]
Retry(c) == Goto(c, "take") /\ UNCHANGED <<tries, tried, rejected>>
End(c, label) ==
    /\ Goto(c, label)
    /\ tries' = [tries EXCEPT ![c] = 0]
    /\ tried' = [tried EXCEPT ![c] = {}] /\ rejected' = [rejected EXCEPT ![c] = {}]
Requeue(c) == addReady(front[c]) /\ UNCHANGED succ
Fail(c) == succ' = succ \ {front[c]} /\ UNCHANGED ready
CloseConn(c) == open' = [open EXCEPT ![c] = @ - 1]

\* getBodyFactory: the body is read once, which may fail.
Begin(c) ==
    /\ pc[c] = "start"
    /\ pc' \in {[pc EXCEPT ![c] = l] : l \in {"take", "end"}}
    /\ UNCHANGED <<pool, world, scan, tries, tried, front, via, open, gaveUp, rejected>>

\* Fault: the context of a waiting call is not watched.
StopsWaitingOnClose(c) == closed

StopsWaiting(c) == closed \/ ctxDone[c]

\* Fault: the loop runs once more.
AttemptsInclusive == MaxRetries + 1

Attempts == MaxRetries

\* The attempts are spent, or Take returns an error.
GiveUp(c) ==
    /\ pc[c] = "take"
    /\ tries[c] = Attempts \/ StopsWaiting(c)
    /\ End(c, "end")
    /\ UNCHANGED <<pool, world, scan, front, via, open, gaveUp>>

Untried(c, f) == ProviderOf[f] \notin tried[c]

\* TakePreferringUntried: the first front in the queue, and a scan for another
\* if its provider has been tried.  That a front is ready is enough, even if
\* the context has ended.
Take(c) ==
    /\ pc[c] = "take" /\ tries[c] < Attempts
    /\ ready # <<>>
    /\ front' = [front EXCEPT ![c] = Head(ready)]
    /\ ready' = Tail(ready)
    /\ tries' = [tries EXCEPT ![c] = @ + 1]
    /\ Goto(c, IF Untried(c, Head(ready)) THEN "lookup" ELSE "wait")
    /\ UNCHANGED <<succ, world, scan, tried, via, open, gaveUp, rejected>>

\* scanMu is held by the call that scans or puts back.
ScanMuIsFree == \A d \in Call : pc[d] \notin {"scan", "put"}

\* The number of fronts to scan is settled here, whatever is queued later.
ScanBegins(c) ==
    /\ pc[c] = "wait" /\ ScanMuIsFree
    /\ left' = [left EXCEPT ![c] = IF Len(ready) < MaxScan THEN Len(ready) ELSE MaxScan]
    /\ Goto(c, "scan")
    /\ UNCHANGED <<pool, world, skipped, tries, tried, front, via, open, gaveUp, rejected>>

\* One more front of a provider that has been tried.
ScanSkips(c) ==
    /\ pc[c] = "scan" /\ left[c] > 0 /\ ready # <<>> /\ ~Untried(c, Head(ready))
    /\ skipped' = [skipped EXCEPT ![c] = Append(@, Head(ready))]
    /\ ready' = Tail(ready)
    /\ left' = [left EXCEPT ![c] = @ - 1]
    /\ UNCHANGED <<succ, world, pc, tries, tried, front, via, open, gaveUp, rejected>>

\* The scan selects a front, and the one taken first goes back before the rest.
ScanFinds(c) ==
    /\ pc[c] = "scan" /\ left[c] > 0 /\ ready # <<>> /\ Untried(c, Head(ready))
    /\ skipped' = [skipped EXCEPT ![c] = <<front[c]>> \o @]
    /\ front' = [front EXCEPT ![c] = Head(ready)]
    /\ ready' = Tail(ready)
    /\ left' = [left EXCEPT ![c] = 0]
    /\ Goto(c, "put")
    /\ UNCHANGED <<succ, world, tries, tried, via, open, gaveUp, rejected>>

\* It falls back to the front taken first.
ScanFallsBack(c) ==
    /\ pc[c] = "scan" /\ (left[c] = 0 \/ ready = <<>>)
    /\ left' = [left EXCEPT ![c] = 0]
    /\ Goto(c, "put")
    /\ UNCHANGED <<pool, world, skipped, tries, tried, front, via, open, gaveUp, rejected>>

\* A vet may have queued the selected front while the call had it in hand, and
\* the scan have pulled it again: it does not go back.
PutsBack(c) ==
    /\ pc[c] = "put" /\ skipped[c] # <<>>
    /\ IF Head(skipped[c]) = front[c] THEN UNCHANGED ready ELSE addReady(Head(skipped[c]))
    /\ skipped' = [skipped EXCEPT ![c] = Tail(@)]
    /\ UNCHANGED <<succ, world, left, pc, tries, tried, front, via, open, gaveUp, rejected>>

ScanEnds(c) ==
    /\ pc[c] = "put" /\ skipped[c] = <<>>
    /\ Goto(c, "lookup")
    /\ UNCHANGED <<pool, world, scan, tries, tried, front, via, open, gaveUp, rejected>>

\* No such provider, or no mapping for the host: the empty name.
FrontedHost(c) ==
    LET p == providers[ProviderOf[front[c]]]
    IN IF p = Gone THEN Empty ELSE Lookup(p, Origin[c])

\* Fault: a front whose provider does not map the host is not put back.
LookupForgets(c) ==
    /\ pc[c] = "lookup" /\ FrontedHost(c) = Empty
    /\ Drop(c) /\ Retry(c)
    /\ UNCHANGED <<pool, world, scan, open, gaveUp>>

\* No such provider, or it does not map the host: not the front's fault.
LookupMisses(c) ==
    /\ pc[c] = "lookup" /\ FrontedHost(c) = Empty
    /\ Requeue(c) /\ Drop(c) /\ Retry(c)
    /\ UNCHANGED <<world, scan, open, gaveUp>>

LookupHits(c) ==
    /\ pc[c] = "lookup" /\ FrontedHost(c) # Empty
    /\ via' = [via EXCEPT ![c] = FrontedHost(c)]
    /\ Goto(c, "dial")
    /\ UNCHANGED <<pool, world, scan, tries, tried, front, open, gaveUp, rejected>>

\* dialFront closes the raw connection itself when it fails.
DialFails(c) ==
    /\ pc[c] = "dial"
    /\ \E b \in {FALSE, ctxDone[c]} : gaveUp' = [gaveUp EXCEPT ![c] = b]
    /\ Goto(c, "failed")
    /\ UNCHANGED <<pool, world, scan, tries, tried, front, via, open, rejected>>

Dialed(c) ==
    /\ pc[c] = "dial"
    /\ open' = [open EXCEPT ![c] = @ + 1]
    /\ Goto(c, "send")
    /\ UNCHANGED <<pool, world, scan, tries, tried, front, via, gaveUp, rejected>>

\* returnAfterDialFailure asks for the pause only now.
DialCounted(c) ==
    /\ pc[c] = "failed"
    /\ IF paused THEN Requeue(c) ELSE Fail(c)
    /\ gaveUp' = [gaveUp EXCEPT ![c] = FALSE]
    /\ Drop(c) /\ Retry(c)
    /\ UNCHANGED <<world, scan, open>>

\* Fault: the connection of a request without a body is left open.
BodyUnavailableKeepsConn(c) ==
    /\ pc[c] = "send"
    /\ Requeue(c) /\ Drop(c) /\ End(c, "end")
    /\ UNCHANGED <<world, scan, open, gaveUp>>

\* GetBody fails: the call ends and the front is not to blame.
BodyUnavailable(c) ==
    /\ pc[c] = "send"
    /\ CloseConn(c) /\ Requeue(c) /\ Drop(c) /\ End(c, "end")
    /\ UNCHANGED <<world, scan, gaveUp>>

CannotUpgrade(c) == c \in Upgrades /\ front[c] \in SpeaksH2

\* Fault: an upgrade over HTTP/2 fails its front like any other error.
UpgradeFailsFront(c) ==
    /\ pc[c] = "send" /\ CannotUpgrade(c)
    /\ Fail(c) /\ CloseConn(c) /\ Drop(c) /\ Retry(c)
    /\ UNCHANGED <<world, scan, gaveUp>>

\* The wrong front for this request: it stays, its provider is not tried.
UpgradeRefused(c) ==
    /\ pc[c] = "send" /\ CannotUpgrade(c)
    /\ Requeue(c) /\ CloseConn(c) /\ Drop(c) /\ Retry(c)
    /\ UNCHANGED <<world, scan, gaveUp>>

\* Fault: only the front is remembered, not its provider.
Remembered(c) == tried[c]

MarkTried(c) == tried[c] \cup {ProviderOf[front[c]]}

\* The request fails, or the response is one to retry.
Rejected(c) ==
    /\ pc[c] = "send" /\ ~CannotUpgrade(c)
    /\ tried' = [tried EXCEPT ![c] = MarkTried(c)]
    /\ rejected' = [rejected EXCEPT ![c] = @ \cup {ProviderOf[front[c]]}]
    /\ Fail(c) /\ CloseConn(c) /\ Drop(c) /\ Goto(c, "take")
    /\ UNCHANGED <<world, scan, tries, gaveUp>>

\* ReturnSuccess; the connection lives until the response's body is closed.
Answered(c) ==
    /\ pc[c] = "send" /\ ~CannotUpgrade(c)
    /\ succ' = succ \cup {front[c]} /\ addReady(front[c])
    /\ Drop(c) /\ End(c, "ok")
    /\ UNCHANGED <<world, scan, open, gaveUp>>

BodyClosed(c) ==
    /\ pc[c] = "ok"
    /\ CloseConn(c) /\ Goto(c, "end")
    /\ UNCHANGED <<pool, world, scan, tries, tried, front, via, gaveUp, rejected>>
-----------------------------------------------------------------------------
calls == <<pc, tries, tried, front, left, skipped, via, open, gaveUp, rejected>>

Change == changes < MaxChange /\ changes' = changes + 1

\* The crawler vets a front, whoever holds it.
Vetted(f) ==
    /\ Change
    /\ \/ addReady(f) /\ succ' = succ \cup {f}
       \/ succ' = succ \ {f} /\ UNCHANGED ready
    /\ UNCHANGED <<config, providers, applying, paused, closed, ctxDone, calls>>

\* applyConfig publishes the providers, then it drains the queue.
PublishProviders ==
    /\ ~applying /\ Change
    /\ \E p \in Provider, c \in Offered \cup {Gone} :
         /\ config' = [config EXCEPT ![p] = c]
         /\ \E ep \in Published(c) : providers' = [providers EXCEPT ![p] = ep]
    /\ applying' = TRUE
    /\ UNCHANGED <<pool, paused, closed, ctxDone, calls>>

Replace ==
    /\ applying /\ applying' = FALSE
    /\ ready' = <<>>
    /\ UNCHANGED <<succ, config, providers, paused, closed, changes, ctxDone, calls>>

PauseOrResume ==
    /\ Change
    /\ paused' = ~paused
    /\ UNCHANGED <<pool, config, providers, applying, closed, ctxDone, calls>>

Cancel(c) ==
    /\ Change
    /\ ~ctxDone[c] /\ ctxDone' = [ctxDone EXCEPT ![c] = TRUE]
    /\ UNCHANGED <<pool, config, providers, applying, paused, closed, calls>>

Close ==
    /\ Change
    /\ ~closed /\ closed' = TRUE
    /\ UNCHANGED <<pool, config, providers, applying, paused, ctxDone, calls>>
-----------------------------------------------------------------------------
Step(c) ==
    \/ GiveUp(c) \/ Take(c)
    \/ ScanBegins(c) \/ ScanSkips(c) \/ ScanFinds(c) \/ ScanFallsBack(c)
    \/ PutsBack(c) \/ ScanEnds(c)
    \/ LookupMisses(c) \/ LookupHits(c)
    \/ DialFails(c) \/ Dialed(c) \/ DialCounted(c)
    \/ BodyUnavailable(c)
    \/ UpgradeRefused(c) \/ Rejected(c) \/ Answered(c)

Next ==
    \/ \E c \in Call : Begin(c) \/ Step(c) \/ BodyClosed(c) \/ Cancel(c)
    \/ \E f \in Front : Vetted(f)
    \/ PublishProviders \/ Replace \/ PauseOrResume \/ Close

Spec == Init /\ [][Next]_vars

\* A dial ends within dialTimeout.  A front that keeps the connection and says
\* nothing is waited for until the request's context ends.
FairSpec ==
    Spec /\ \A c \in Call :
        /\ WF_vars(Step(c) /\ (pc[c] = "send" => ctxDone[c] \/ CannotUpgrade(c)))
-----------------------------------------------------------------------------
PC == {"start", "take", "wait", "scan", "put", "lookup", "dial", "failed", "send", "ok",
       "end"}

TypeOK ==
    /\ ready \in Seq(Front) /\ succ \subseteq Front
    /\ config \in [Provider -> Offered \cup {Gone}]
    /\ \A p \in Provider : providers[p] \in Published(config[p])
    /\ applying \in BOOLEAN
    /\ paused \in BOOLEAN /\ closed \in BOOLEAN /\ changes \in 0 .. MaxChange
    /\ ctxDone \in [Call -> BOOLEAN]
    /\ pc \in [Call -> PC]
    /\ tries \in [Call -> 0 .. MaxRetries]
    /\ tried \in [Call -> SUBSET Provider] /\ rejected \in [Call -> SUBSET Provider]
    /\ front \in [Call -> Front \cup {None}]
    /\ left \in [Call -> 0 .. MaxScan] /\ skipped \in [Call -> Seq(Front)]
    /\ open \in [Call -> 0 .. 1]
    /\ gaveUp \in [Call -> BOOLEAN]

\* Every attempt but the one that answers closes its connection, and a call
\* that ends in an error leaves none open (roundtrip.go:101-135).
ConnectionsAreClosed == \A c \in Call : pc[c] \notin {"send", "ok"} => open[c] = 0

Owed(c) == Sequence!ToSet(skipped[c])
Lost == {f \in succ : f \notin Queued /\ \A c \in Call : front[c] # f /\ f \notin Owed(c)}

\* A host is sent under a name that the configuration as it is written gives
\* it, whatever the case of its keys and patterns, and it is given up only when
\* there is none (config.go:65-90, 157-163; roundtrip.go:81-86).
SentAsWritten ==
    [][\A c \in Call : pc[c] = "lookup" /\ pc'[c] # "lookup" =>
          LET raw == config[ProviderOf[front[c]]]
          IN IF raw = Gone \/ ~Maps(raw, Origin[c])
               THEN pc'[c] = "take"
               ELSE via'[c] \in IF AliasesOf(raw, Origin[c]) # {}
                                  THEN AliasesOf(raw, Origin[c])
                                  ELSE {Canonical(Origin[c])}]_vars

\* No exit of the retry loop makes a working front vanish from rotation; only
\* a new configuration does, until its fronts are vetted (roundtrip.go:67-136,
\* front.go:161-194).
NoFrontVanishes == [][~Replace => Lost' \subseteq Lost]_vars

\* A call fails a front only for a dial or a request that failed: not for a
\* host that is not mapped, a body that cannot be had or an upgrade that landed
\* on HTTP/2 (roundtrip.go:76-121).
OnlyFailuresCount ==
    [][pc' # pc => \A f \in succ \ succ' :
          \E c \in Call :
             /\ front[c] = f
             /\ \/ pc[c] = "failed"
                \/ pc[c] = "send" /\ pc'[c] = "take" /\ ~CannotUpgrade(c)]_vars

\* The fronts among the next n in the queue whose providers have not rejected
\* the call's request.
Fresh(c, n) ==
    {ready[i] : i \in {j \in 1 .. Len(ready) :
                         j <= n /\ ProviderOf[ready[j]] \notin rejected[c]}}

\* A provider that connects but does not forward is escaped as far as a scan
\* reaches (roundtrip.go:62-66, front.go:151-194).  A call goes on with the
\* first front it takes only if that front's provider has not rejected it, and
\* scans MaxScan ready fronts otherwise.  One of another provider among them
\* stays within the scan's reach, whatever is returned or queued meanwhile,
\* until the call goes on with a front of another provider, or another call
\* takes it first, or an update drains it.
EscapesProvider ==
    [][\A c \in Call :
          /\ pc[c] = "take" /\ pc'[c] = "lookup" => ProviderOf[front'[c]] \notin rejected[c]
          /\ pc[c] = "wait" /\ pc'[c] # "wait" =>
                pc'[c] = "scan" /\ Fresh(c, left[c])' = Fresh(c, MaxScan)
          /\ pc[c] = "scan" => \A f \in Fresh(c, left[c]) :
                \/ pc'[c] = "scan" /\ f \in Fresh(c, left[c])'
                \/ pc'[c] = "put" /\ ProviderOf[front'[c]] \notin rejected[c]
                \/ \E d \in Call \ {c} : pc[d] = "take" /\ front'[d] = f
                \/ Replace
          /\ pc[c] = "put" => front'[c] = front[c]]_vars

Taking(c) == pc[c] \in {"take", "wait", "scan", "put"}

\* A call waits for nothing but a ready front and the scans of other calls,
\* for the front no longer than the client lasts, and it ends once its context
\* has (front.go:138-149, 170-194, roundtrip.go:68-130).
CallsEnd ==
    \A c \in Call :
        Taking(c) \/ (Running(c) /\ ctxDone[c]) ~>
            IF ctxDone[c] THEN ~Running(c)
            ELSE ~Taking(c) \/ (pc[c] = "take" /\ ready = <<>> /\ ~closed)

\* "Cancelled (another provider won, or the caller gave up): that says nothing
\* about this front." (connected.go:162-163), said of the same dial.
CancelledCallKeepsFront ==
    [][\A c \in Call : front[c] \in succ /\ front'[c] = None /\ gaveUp[c] =>
          front[c] \in succ']_vars
=============================================================================
