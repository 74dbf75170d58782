------------------------------ MODULE Crawler ------------------------------
(***************************************************************************)
(* The crawler of domainfront.go and everything it shares the front pool   *)
(* with: its vetting goroutines, round trips, configuration updates, the   *)
(* pause gate and Close.  The pool is the set of available fronts that     *)
(* Rotation specifies; the steps between which the crawler and its         *)
(* vetting goroutines read the gate, the context and the size of the ready *)
(* queue are kept apart.                                                   *)
(***************************************************************************)
EXTENDS Naturals, FiniteSets

CONSTANTS
    Key,           \* identities of fronts
    Provider,
    ProviderOf,    \* the provider of each key
    MaxEpoch,      \* bound: how many configuration updates may be applied
    Worker,        \* vetting goroutines: one per slot of the semaphore
    Requester,     \* goroutines in RoundTrip
    None,
    Cap,           \* capacity of the ready queue
    ReadyLow,      \* the crawler crawls while fewer are ready (2 in the code)
    ReadyEnough,   \* and stops launching vets at this many (4 in the code)
    Event          \* what an instance lets the application and the network do

ASSUME CrawlerAssumption ==
    /\ ProviderOf \in [Key -> Provider]
    /\ MaxEpoch \in Nat
    /\ Cap \in Nat \ {0}
    /\ Event \subseteq {"pause", "close", "network"}
    /\ ReadyLow \in Nat \ {0} /\ ReadyEnough \in Nat \ {0}
    /\ IsFiniteSet(Key) /\ IsFiniteSet(Worker) /\ Worker # {}
    /\ IsFiniteSet(Requester)

Front == [key : Key, epoch : 0 .. MaxEpoch]

VARIABLES
    ready,       \* fronts in the ready queue
    succ,        \* fronts of the candidate set whose LastSucceeded is set
    fronts,      \* the candidate set
    providers,   \* the providers published by applyConfig
    epoch,       \* configurations applied so far
    applying,    \* applyConfig has published providers, Replace is to follow
    good,        \* keys whose fronts would pass a vet: a fact of the network
    up,          \* whether there is a network
    paused,      \* the gate
    done,        \* c.ctx has ended
    crawl,       \* where the crawler is
    todo,        \* candidates of this crawl not yet reached
    known,       \* those that had succeeded when the crawl began: they go first
    next,        \* the candidate waiting for a slot
    wpc, wfront, \* each vetting goroutine and its front
    rpc, rfront  \* each round trip and its front

poolVars == <<ready, succ, fronts>>
configVars == <<providers, epoch, applying>>
envVars == <<good, up>>
gateVars == <<paused, done>>
crawlVars == <<crawl, todo, known, next>>
workerVars == <<wpc, wfront>>
roundTripVars == <<rpc, rfront>>
vars == <<ready, succ, fronts, providers, epoch, applying, good, up, paused,
          done, crawl, todo, known, next, wpc, wfront, rpc, rfront>>

HasProvider(f) == ProviderOf[f.key] \in providers
Reachable(f) == f.key \in good /\ up
FrontsFor(P, e) == {f \in Front : f.epoch = e /\ ProviderOf[f.key] \in P}

\* Fault: addReady sends whether or not there is room.
addReadyUnbounded(f) == ready' = ready \cup {f}

\* addReady, on the contract of Rotation: a front is in the queue at most
\* once, and one that finds no room is dropped.
addReady(f) ==
    ready' = IF Cardinality(ready) < Cap THEN ready \cup {f} ELSE ready

\* Nothing reads the time a front succeeded once it has left the candidates.
markSucceeded(f) == succ' = succ \cup ({f} \cap fronts)
markFailed(f) == succ' = succ \ {f}

Init ==
    /\ ready = {}
    /\ providers \in SUBSET Provider \ {{}}
    /\ fronts = FrontsFor(providers, 0)
    /\ succ \in SUBSET fronts
    /\ epoch = 0
    /\ applying = FALSE
    /\ good \in SUBSET Key
    /\ up = TRUE
    /\ paused = FALSE
    /\ done = FALSE
    /\ crawl = "gate"
    /\ todo = {} /\ known = {} /\ next = None
    /\ wpc = [w \in Worker |-> "free"]
    /\ wfront = [w \in Worker |-> None]
    /\ rpc = [r \in Requester |-> "idle"]
    /\ rfront = [r \in Requester |-> None]
-----------------------------------------------------------------------------
(***************************************************************************)
(* The crawler                                                             *)
(***************************************************************************)
crawlFrame == UNCHANGED <<poolVars, configVars, envVars, gateVars, workerVars,
                          roundTripVars>>

\* gate.wait returns true.
GateOpens ==
    /\ crawl = "gate" /\ ~done /\ ~paused
    /\ crawl' = "check"
    /\ UNCHANGED <<todo, known, next>> /\ crawlFrame

\* Fault: gate.wait sees the end of the context only once it is resumed.
CrawlerEndsResumed ==
    /\ crawl \in {"gate", "sleep"} /\ done /\ ~paused
    /\ crawl' = "stopped"
    /\ UNCHANGED <<todo, known, next>> /\ crawlFrame

\* gate.wait returns false, or the select sees the context end.
CrawlerEnds ==
    /\ crawl \in {"gate", "sleep"} /\ done
    /\ crawl' = "stopped"
    /\ UNCHANGED <<todo, known, next>> /\ crawlFrame

\* Enough fronts are ready: wait for the timer.
SkipCrawl ==
    /\ crawl = "check" /\ Cardinality(ready) >= ReadyLow
    /\ crawl' = "sleep"
    /\ UNCHANGED <<todo, known, next>> /\ crawlFrame

\* The candidates, and which of them succeeded before; candidates waits for
\* a Replace, which is one step here.
StartCrawl ==
    /\ crawl = "check" /\ Cardinality(ready) < ReadyLow
    /\ crawl' = "loop"
    /\ todo' = fronts
    /\ known' = succ
    /\ UNCHANGED next /\ crawlFrame

MayLaunch == ~done /\ ~paused /\ Cardinality(ready) < ReadyEnough

\* The tests at the head of the loop: they come before the wait for a slot.
PickCandidate ==
    /\ crawl = "loop" /\ todo # {} /\ MayLaunch
    /\ \E f \in (IF todo \cap known # {} THEN todo \cap known ELSE todo) :
          next' = f /\ todo' = todo \ {f}
    /\ crawl' = "acquire"
    /\ UNCHANGED known /\ crawlFrame

\* sem <- struct{}{}, then the goroutine starts.
Acquire(w) ==
    /\ crawl = "acquire" /\ wpc[w] = "free"
    /\ wpc' = [wpc EXCEPT ![w] = "check"]
    /\ wfront' = [wfront EXCEPT ![w] = next]
    /\ next' = None
    /\ crawl' = "loop"
    /\ UNCHANGED <<todo, known, poolVars, configVars, envVars, gateVars,
                   roundTripVars>>

\* Fault: the crawl returns without waiting for its goroutines.
StopCrawlWithoutWait ==
    /\ crawl = "loop" /\ (todo = {} \/ ~MayLaunch)
    /\ crawl' = "sleep"
    /\ todo' = {} /\ known' = {}
    /\ UNCHANGED next /\ crawlFrame

\* The loop ends, or breaks.
StopCrawl ==
    /\ crawl = "loop" /\ (todo = {} \/ ~MayLaunch)
    /\ crawl' = "join"
    /\ todo' = {} /\ known' = {}
    /\ UNCHANGED next /\ crawlFrame

\* wg.Wait
JoinCrawl ==
    /\ crawl = "join" /\ \A w \in Worker : wpc[w] = "free"
    /\ crawl' = "sleep"
    /\ UNCHANGED <<todo, known, next>> /\ crawlFrame

\* The timer fires; the select may choose it although the context has ended.
TimerFires ==
    /\ crawl = "sleep"
    /\ crawl' = "gate"
    /\ UNCHANGED <<todo, known, next>> /\ crawlFrame
-----------------------------------------------------------------------------
(***************************************************************************)
(* A vetting goroutine                                                     *)
(***************************************************************************)
vetFrame == UNCHANGED <<fronts, configVars, envVars, gateVars, crawlVars,
                        roundTripVars>>

\* The goroutine ends and gives its slot back.
Release(w) ==
    /\ wpc' = [wpc EXCEPT ![w] = "free"]
    /\ wfront' = [wfront EXCEPT ![w] = None]

\* Fault: the early return keeps the slot of the semaphore.
VetSkippedKeepsSlot(w) ==
    /\ wpc[w] = "check" /\ (done \/ paused)
    /\ wpc' = [wpc EXCEPT ![w] = "leaked"]
    /\ wfront' = [wfront EXCEPT ![w] = None]
    /\ UNCHANGED <<ready, succ>> /\ vetFrame

VetSkipped(w) ==
    /\ wpc[w] = "check" /\ (done \/ paused)
    /\ Release(w)
    /\ UNCHANGED <<ready, succ>> /\ vetFrame

VetStarts(w) ==
    /\ wpc[w] = "check" /\ ~done /\ ~paused
    /\ wpc' = [wpc EXCEPT ![w] = "vet"]
    /\ UNCHANGED <<wfront, ready, succ>> /\ vetFrame

\* The dial succeeds and the provider is found.  It is not asked for again, and
\* from here on the vet watches neither a deadline nor the context.
VetConnects(w) ==
    /\ wpc[w] = "vet" /\ up /\ HasProvider(wfront[w])
    /\ wpc' = [wpc EXCEPT ![w] = "post"]
    /\ UNCHANGED <<wfront, ready, succ>> /\ vetFrame

\* The test POST is accepted, whatever has become of the provider since.
VetPasses(w) ==
    /\ wpc[w] = "post" /\ Reachable(wfront[w])
    /\ markSucceeded(wfront[w])
    /\ addReady(wfront[w])
    /\ Release(w) /\ vetFrame

\* The dial fails, or is cut short by the end of the context; it succeeds and
\* the provider is gone; or the POST fails or is answered with another status.
VetFails(w) ==
    /\ \/ /\ wpc[w] = "vet"
          /\ ~Reachable(wfront[w]) \/ done \/ ~HasProvider(wfront[w])
       \/ wpc[w] = "post" /\ ~Reachable(wfront[w])
    /\ markFailed(wfront[w])
    /\ Release(w)
    /\ UNCHANGED ready /\ vetFrame
-----------------------------------------------------------------------------
(***************************************************************************)
(* A round trip, one attempt at a time                                     *)
(***************************************************************************)
roundTripFrame == UNCHANGED <<fronts, configVars, envVars, gateVars, crawlVars,
                              workerVars>>

Finish(r) ==
    /\ rpc' = [rpc EXCEPT ![r] = "idle"]
    /\ rfront' = [rfront EXCEPT ![r] = None]

TakeFront(r) ==
    /\ rpc[r] = "idle"
    /\ \E f \in ready : /\ ready' = ready \ {f}
                        /\ rfront' = [rfront EXCEPT ![r] = f]
    /\ rpc' = [rpc EXCEPT ![r] = "holding"]
    /\ UNCHANGED succ /\ roundTripFrame

\* The provider is found.  It is not asked for again.
LookupHits(r) ==
    /\ rpc[r] = "holding" /\ HasProvider(rfront[r])
    /\ rpc' = [rpc EXCEPT ![r] = "sending"]
    /\ UNCHANGED <<rfront, ready, succ>> /\ roundTripFrame

\* The provider is not, or no longer, in the configuration or does not map the
\* host; or the request is an upgrade and the front speaks HTTP/2, or has no
\* body to be had: not the front's fault.
PutBack(r) ==
    /\ rpc[r] \in {"holding", "sending"}
    /\ addReady(rfront[r])
    /\ Finish(r)
    /\ UNCHANGED succ /\ roundTripFrame

Succeeds(r) ==
    /\ rpc[r] = "sending" /\ Reachable(rfront[r])
    /\ markSucceeded(rfront[r])
    /\ addReady(rfront[r])
    /\ Finish(r) /\ roundTripFrame

DialFails(r) ==
    /\ rpc[r] = "sending" /\ ~Reachable(rfront[r])
    /\ rpc' = [rpc EXCEPT ![r] = "dialFailed"]
    /\ UNCHANGED <<rfront, ready, succ>> /\ roundTripFrame

\* The front connects, and the request fails or is answered with a rejection.
RequestFails(r) ==
    /\ rpc[r] = "sending" /\ ~Reachable(rfront[r])
    /\ markFailed(rfront[r])
    /\ Finish(r)
    /\ UNCHANGED ready /\ roundTripFrame

\* returnAfterDialFailure
AfterDialFailure(r) ==
    /\ rpc[r] = "dialFailed"
    /\ IF paused
         THEN addReady(rfront[r]) /\ UNCHANGED succ
         ELSE markFailed(rfront[r]) /\ UNCHANGED ready
    /\ Finish(r) /\ roundTripFrame
-----------------------------------------------------------------------------
(***************************************************************************)
(* applyConfig: the providers are published first, the fronts replaced     *)
(* next.  A fetched configuration is applied neither while paused nor      *)
(* after the context has ended.                                            *)
(***************************************************************************)
PublishProviders(P) ==
    /\ ~applying /\ epoch < MaxEpoch /\ ~paused /\ ~done
    /\ providers' = P
    /\ applying' = TRUE
    /\ UNCHANGED <<epoch, poolVars, envVars, gateVars, crawlVars, workerVars,
                   roundTripVars>>

Replace ==
    /\ applying
    /\ applying' = FALSE
    /\ epoch' = epoch + 1
    /\ fronts' = FrontsFor(providers, epoch + 1)
    /\ succ' = {f \in fronts' : \E g \in succ : g.key = f.key}
    /\ ready' = {}
    /\ UNCHANGED <<providers, envVars, gateVars, crawlVars, workerVars,
                   roundTripVars>>
-----------------------------------------------------------------------------
(***************************************************************************)
(* The application, and the network                                        *)
(***************************************************************************)
appFrame == UNCHANGED <<poolVars, configVars, crawlVars, workerVars, roundTripVars>>

Pause ==
    /\ "pause" \in Event /\ ~paused
    /\ paused' = TRUE
    /\ UNCHANGED <<done, envVars>> /\ appFrame

Resume ==
    /\ paused
    /\ paused' = FALSE
    /\ UNCHANGED <<done, envVars>> /\ appFrame

Close ==
    /\ "close" \in Event /\ ~done
    /\ done' = TRUE
    /\ UNCHANGED <<paused, envVars>> /\ appFrame

\* Close waits for its goroutines, then saves the fronts of succ a last time.
FinalSave ==
    /\ done /\ crawl = "stopped" /\ ~applying
    /\ crawl' = "saved"
    /\ UNCHANGED <<todo, known, next, poolVars, configVars, envVars,
                   gateVars, workerVars, roundTripVars>>

NetworkChanges ==
    /\ "network" \in Event
    /\ up' = ~up
    /\ UNCHANGED <<good, gateVars>> /\ appFrame
-----------------------------------------------------------------------------
CrawlStep ==
    \/ GateOpens \/ CrawlerEnds \/ SkipCrawl \/ StartCrawl \/ PickCandidate
    \/ (\E w \in Worker : Acquire(w)) \/ StopCrawl \/ JoinCrawl \/ TimerFires

VetStep(w) ==
    VetSkipped(w) \/ VetStarts(w) \/ VetConnects(w) \/ VetPasses(w) \/ VetFails(w)

RoundTripStep(r) ==
    \/ TakeFront(r) \/ LookupHits(r) \/ PutBack(r) \/ Succeeds(r)
    \/ RequestFails(r) \/ DialFails(r) \/ AfterDialFailure(r)

AppStep == Pause \/ Resume \/ Close \/ FinalSave \/ NetworkChanges

ConfigStep == (\E P \in SUBSET Provider \ {{}} : PublishProviders(P)) \/ Replace

Next ==
    \/ CrawlStep
    \/ \E w \in Worker : VetStep(w)
    \/ \E r \in Requester : RoundTripStep(r)
    \/ ConfigStep
    \/ AppStep

Spec == Init /\ [][Next]_vars

(***************************************************************************)
(* Every dial has a timeout; the crawler's timer fires; a select that      *)
(* finds the context ended every time it looks ends too.  Nobody is        *)
(* obliged to start a round trip, and a front that has connected is not    *)
(* obliged to answer.                                                      *)
(***************************************************************************)
Fairness ==
    /\ WF_vars(CrawlStep)
    /\ SF_vars(CrawlerEnds)
    /\ \A w \in Worker : WF_vars(VetStep(w) /\ wpc[w] # "post")
    /\ WF_vars(Replace) /\ WF_vars(FinalSave)

SilentSpec == Spec /\ Fairness

\* The environment in which every front that connects answers or hangs up.
FairSpec ==
    /\ SilentSpec
    /\ \A w \in Worker : WF_vars(VetStep(w))
    /\ \A r \in Requester : WF_vars(RoundTripStep(r) /\ rpc[r] # "idle")
-----------------------------------------------------------------------------
CrawlPC == {"gate", "check", "loop", "acquire", "join", "sleep", "stopped", "saved"}

TypeOK ==
    /\ ready \subseteq Front /\ Cardinality(ready) <= Cap
    /\ succ \subseteq fronts /\ fronts \subseteq Front
    /\ providers \subseteq Provider
    /\ epoch \in 0 .. MaxEpoch /\ applying \in BOOLEAN
    /\ good \subseteq Key /\ up \in BOOLEAN
    /\ paused \in BOOLEAN /\ done \in BOOLEAN
    /\ crawl \in CrawlPC
    /\ todo \subseteq Front /\ known \subseteq Front
    /\ next \in Front \cup {None}
    /\ wpc \in [Worker -> {"free", "check", "vet", "post"}]
    /\ wfront \in [Worker -> Front \cup {None}]
    /\ rpc \in [Requester -> {"idle", "holding", "sending", "dialFailed"}]
    /\ rfront \in [Requester -> Front \cup {None}]

\* No vet outlives the crawler: once Close's wait for it is over, nothing
\* marks a front or touches the queue for it (domainfront.go:254, 413).
NoVetAfterStop ==
    crawl \in {"stopped", "saved"} => \A w \in Worker : wpc[w] = "free"

Serviceable(f) == f.key \in good /\ HasProvider(f)

Supplied ==
    \/ \E f \in ready : Serviceable(f)
    \/ \E r \in Requester : rpc[r] # "idle" /\ Serviceable(rfront[r])

Stale == {f \in ready : ~HasProvider(f)}

\* As long as the client runs, unpaused and with a network, a front that can
\* serve requests keeps becoming available, unless the ready queue is held by
\* as many fronts of removed providers as the crawler is content with: those
\* that round trips or vets in their POST had in hand when an update drained
\* the queue (domainfront.go:349-357, 402-404, 424; roundtrip.go:74-79).
SuppliedUnlessStale ==
    <>[](up /\ ~paused /\ ~done) =>
        []<>((\E f \in fronts : Serviceable(f)) =>
                Supplied \/ Cardinality(Stale) >= ReadyLow)

\* The same without the exception: "The ready channel is drained and the
\* crawler repopulates it" (README.md:191, front.go:109).
KeepsSupplied ==
    <>[](up /\ ~paused /\ ~done) =>
        []<>((\E f \in fronts : Serviceable(f)) => Supplied)

\* "Close shuts down all background goroutines" (domainfront.go:250): the
\* crawler ends and Close gets to its final save, "while paused" (pause.go:95)
\* too.
CloseStopsCrawler == done ~> crawl = "saved"

\* "working fronts are cached to disk (JSON) for fast startup" (README.md:18):
\* a front that works and is known to is not forgotten between the call of
\* Close and the final save.
CloseSavesWorking ==
    [][done /\ crawl # "saved" =>
          \A f \in succ : Reachable(f) /\ HasProvider(f) => f \in succ']_vars
=============================================================================
