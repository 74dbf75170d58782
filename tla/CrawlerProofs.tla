--------------------------- MODULE CrawlerProofs ---------------------------
(***************************************************************************)
(* Theorems about Crawler, for any number of fronts, slots, round trips    *)
(* and updates.                                                            *)
(***************************************************************************)
EXTENDS Crawler, FiniteSetTheorems, TLAPS

\* The queue holds fronts, and never more than its capacity.
QueueInv == ready \subseteq Front /\ IsFiniteSet(ready) /\ Cardinality(ready) <= Cap

\* The rest of TypeOK; a front in hand, or waiting for a slot, is there.
ConfigInv ==
    /\ succ \subseteq fronts /\ fronts \subseteq Front
    /\ providers \subseteq Provider
    /\ epoch \in 0 .. MaxEpoch /\ applying \in BOOLEAN
    /\ applying => epoch < MaxEpoch
    /\ good \subseteq Key /\ up \in BOOLEAN
    /\ paused \in BOOLEAN /\ done \in BOOLEAN
LoopInv ==
    /\ crawl \in CrawlPC
    /\ todo \subseteq Front /\ known \subseteq Front
    /\ next \in Front \cup {None}
    /\ crawl = "acquire" => next \in Front
WorkerInv ==
    /\ wpc \in [Worker -> {"free", "check", "vet", "post"}]
    /\ wfront \in [Worker -> Front \cup {None}]
    /\ \A w \in Worker : wpc[w] # "free" => wfront[w] \in Front
RequesterInv ==
    /\ rpc \in [Requester -> {"idle", "holding", "sending", "dialFailed"}]
    /\ rfront \in [Requester -> Front \cup {None}]
    /\ \A r \in Requester : rpc[r] # "idle" => rfront[r] \in Front

\* Vets are in flight only while a crawl runs: it waits for all of them.
VetsBelongToCrawl ==
    crawl \notin {"loop", "acquire", "join"} => \A w \in Worker : wpc[w] = "free"

IInv == QueueInv /\ ConfigInv /\ LoopInv /\ WorkerInv /\ RequesterInv /\ VetsBelongToCrawl

LEMMA CrawlerInit == Init => IInv
<1> SUFFICES ASSUME Init PROVE IInv
  OBVIOUS
<1> USE CrawlerAssumption DEF Init
<1>1. QueueInv
  BY FS_EmptySet DEF QueueInv
<1>2. ConfigInv
  <2>1. providers \subseteq Provider /\ good \subseteq Key /\ succ \subseteq fronts
    OBVIOUS
  <2>2. fronts \subseteq Front
    BY DEF FrontsFor
  <2>3. epoch \in 0 .. MaxEpoch
    OBVIOUS
  <2>4. applying = FALSE /\ up = TRUE /\ paused = FALSE /\ done = FALSE
    OBVIOUS
  <2> HIDE DEF Init
  <2> QED BY <2>1, <2>2, <2>3, <2>4 DEF ConfigInv
<1>3. LoopInv
  BY DEF LoopInv, CrawlPC
<1>4. WorkerInv /\ RequesterInv /\ VetsBelongToCrawl
  BY DEF WorkerInv, RequesterInv, VetsBelongToCrawl
<1> QED BY <1>1, <1>2, <1>3, <1>4 DEF IInv

LEMMA AddKeepsQueue ==
    ASSUME QueueInv, NEW f \in Front, addReady(f)
    PROVE  QueueInv'
<1>1. CASE Cardinality(ready) < Cap
  <2>1. ready' = ready \cup {f}
    BY <1>1 DEF addReady
  <2>2. /\ IsFiniteSet(ready')
        /\ Cardinality(ready') = Cardinality(ready) \/ Cardinality(ready') = Cardinality(ready) + 1
    BY <2>1, FS_AddElement DEF QueueInv
  <2>3. Cardinality(ready) \in Nat
    BY FS_CardinalityType DEF QueueInv
  <2> QED BY <1>1, <2>1, <2>2, <2>3, CrawlerAssumption DEF QueueInv
<1>2. CASE ~(Cardinality(ready) < Cap)
  BY <1>2 DEF addReady, QueueInv
<1> QED BY <1>1, <1>2

LEMMA TakeKeepsQueue ==
    ASSUME QueueInv, NEW f \in ready, ready' = ready \ {f}
    PROVE  QueueInv'
<1>1. IsFiniteSet(ready') /\ Cardinality(ready') = Cardinality(ready) - 1
  BY FS_RemoveElement DEF QueueInv
<1>2. Cardinality(ready) \in Nat
  BY FS_CardinalityType DEF QueueInv
<1> QED BY <1>1, <1>2, CrawlerAssumption DEF QueueInv

LEMMA CrawlKeepsIInv == ASSUME IInv, CrawlStep PROVE IInv'
<1> USE DEF IInv, LoopInv, VetsBelongToCrawl, CrawlPC, crawlFrame, poolVars, configVars,
        envVars, gateVars, workerVars, roundTripVars
<1>1. QueueInv' /\ ConfigInv' /\ RequesterInv'
  BY DEF CrawlStep, GateOpens, CrawlerEnds, SkipCrawl, StartCrawl, PickCandidate, Acquire,
     StopCrawl, JoinCrawl, TimerFires, QueueInv, ConfigInv, RequesterInv
<1>2. CASE GateOpens \/ CrawlerEnds \/ SkipCrawl \/ StopCrawl \/ JoinCrawl \/ TimerFires
  BY <1>1, <1>2 DEF GateOpens, CrawlerEnds, SkipCrawl, StopCrawl, JoinCrawl, TimerFires, WorkerInv
<1>3. CASE StartCrawl
  BY <1>1, <1>3 DEF StartCrawl, ConfigInv, WorkerInv
<1>4. CASE PickCandidate
  BY <1>1, <1>4 DEF PickCandidate, WorkerInv
<1>5. ASSUME NEW w \in Worker, Acquire(w) PROVE IInv'
  BY <1>1, <1>5 DEF Acquire, WorkerInv
<1> QED BY <1>2, <1>3, <1>4, <1>5 DEF CrawlStep

LEMMA VetKeepsIInv == ASSUME IInv, NEW w \in Worker, VetStep(w) PROVE IInv'
<1> USE DEF IInv, VetsBelongToCrawl, vetFrame, configVars, envVars, gateVars, crawlVars,
        roundTripVars
<1>1. LoopInv' /\ RequesterInv'
  BY DEF VetStep, VetSkipped, VetStarts, VetConnects, VetPasses, VetFails, LoopInv, RequesterInv
<1>2. WorkerInv' /\ VetsBelongToCrawl'
  BY DEF VetStep, VetSkipped, VetStarts, VetConnects, VetPasses, VetFails, Release, WorkerInv
<1>3. QueueInv'
  <2>1. CASE VetPasses(w)
    <3>1. wfront[w] \in Front /\ addReady(wfront[w])
      BY <2>1 DEF VetPasses, WorkerInv
    <3> QED BY <3>1, AddKeepsQueue
  <2>2. CASE ~VetPasses(w)
    <3>1. UNCHANGED ready
      BY <2>2 DEF VetStep, VetSkipped, VetStarts, VetConnects, VetFails
    <3> QED BY <3>1 DEF QueueInv
  <2> QED BY <2>1, <2>2
<1>4. ConfigInv'
  BY DEF VetStep, VetSkipped, VetStarts, VetConnects, VetPasses, VetFails, markSucceeded,
     markFailed, ConfigInv
<1> QED BY <1>1, <1>2, <1>3, <1>4

LEMMA RoundTripKeepsIInv == ASSUME IInv, NEW r \in Requester, RoundTripStep(r) PROVE IInv'
<1> USE DEF IInv, VetsBelongToCrawl, roundTripFrame, configVars, envVars, gateVars, crawlVars,
        workerVars
<1>1. LoopInv' /\ WorkerInv' /\ VetsBelongToCrawl'
  BY DEF RoundTripStep, TakeFront, LookupHits, PutBack, Succeeds, DialFails,
     RequestFails, AfterDialFailure, LoopInv, WorkerInv
<1>2. RequesterInv'
  <2>1. CASE TakeFront(r)
    BY <2>1 DEF TakeFront, RequesterInv, QueueInv
  <2>2. CASE ~TakeFront(r)
    BY <2>2 DEF RoundTripStep, LookupHits, PutBack, Succeeds, DialFails,
     RequestFails, AfterDialFailure, Finish, RequesterInv
  <2> QED BY <2>1, <2>2
<1>3. QueueInv'
  <2>1. CASE TakeFront(r)
    BY <2>1, TakeKeepsQueue DEF TakeFront
  <2>2. CASE UNCHANGED ready
    BY <2>2 DEF QueueInv
  <2>3. CASE addReady(rfront[r]) /\ rpc[r] # "idle"
    BY <2>3, AddKeepsQueue DEF RequesterInv
  <2> QED BY <2>1, <2>2, <2>3 DEF RoundTripStep, LookupHits, PutBack, Succeeds, DialFails,
          RequestFails, AfterDialFailure
<1>4. ConfigInv'
  BY DEF RoundTripStep, TakeFront, LookupHits, PutBack, Succeeds, DialFails,
     RequestFails, AfterDialFailure, markSucceeded, markFailed, ConfigInv
<1> QED BY <1>1, <1>2, <1>3, <1>4

LEMMA UpdateKeepsIInv == ASSUME IInv, ConfigStep PROVE IInv'
<1> USE DEF IInv, VetsBelongToCrawl, envVars, gateVars, crawlVars, workerVars, roundTripVars,
        poolVars
<1>1. LoopInv' /\ WorkerInv' /\ RequesterInv' /\ VetsBelongToCrawl'
  BY DEF ConfigStep, PublishProviders, Replace, LoopInv, WorkerInv, RequesterInv
<1>2. QueueInv'
  <2>1. CASE Replace
    BY <2>1, FS_EmptySet, CrawlerAssumption DEF Replace, QueueInv
  <2>2. CASE UNCHANGED ready
    BY <2>2 DEF QueueInv
  <2> QED BY <2>1, <2>2 DEF ConfigStep, PublishProviders
<1>3. ConfigInv'
  <2>1. ASSUME NEW P \in SUBSET Provider, PublishProviders(P) PROVE ConfigInv'
    BY <2>1, CrawlerAssumption DEF PublishProviders, ConfigInv
  <2>2. CASE Replace
    <3>1. epoch' \in 0 .. MaxEpoch /\ epoch' = epoch + 1
      BY <2>2, CrawlerAssumption DEF Replace, ConfigInv
    <3>2. fronts' \subseteq Front /\ succ' \subseteq fronts'
      BY <2>2, <3>1 DEF Replace, FrontsFor
    <3> QED BY <2>2, <3>1, <3>2, CrawlerAssumption DEF Replace, ConfigInv
  <2> QED BY <2>1, <2>2 DEF ConfigStep
<1> QED BY <1>1, <1>2, <1>3

LEMMA AppKeepsIInv == ASSUME IInv, AppStep PROVE IInv'
<1> USE DEF IInv, VetsBelongToCrawl, AppStep, Pause, Resume, Close, FinalSave, NetworkChanges,
        appFrame, poolVars, configVars, envVars, gateVars, crawlVars, workerVars, roundTripVars
<1>1. QueueInv' /\ RequesterInv'
  BY DEF QueueInv, RequesterInv
<1>2. WorkerInv' /\ VetsBelongToCrawl'
  BY DEF WorkerInv
<1>3. LoopInv'
  BY DEF LoopInv, CrawlPC
<1>4. ConfigInv'
  <2>1. UNCHANGED <<succ, fronts, providers, epoch, applying, good>>
    OBVIOUS
  <2>2. up' \in BOOLEAN /\ paused' \in BOOLEAN /\ done' \in BOOLEAN
    BY DEF ConfigInv
  <2> QED BY <2>1, <2>2 DEF ConfigInv
<1> QED BY <1>1, <1>2, <1>3, <1>4

LEMMA CrawlerNext == IInv /\ [Next]_vars => IInv'
<1>1. ASSUME IInv, UNCHANGED vars PROVE IInv'
  BY <1>1 DEF vars, IInv, QueueInv, ConfigInv, LoopInv, WorkerInv, RequesterInv,
     VetsBelongToCrawl
<1> QED BY <1>1, CrawlKeepsIInv, VetKeepsIInv, RoundTripKeepsIInv, UpdateKeepsIInv,
        AppKeepsIInv DEF Next

LEMMA CrawlerInvariant == Spec => []IInv
<1> QED BY CrawlerInit, CrawlerNext, PTL DEF Spec

\* Every variable keeps its type; in particular the ready queue never holds
\* more than its capacity, though vets and round trips add to it on a count
\* that others change (front.go:121-130, domainfront.go:388).
THEOREM CrawlerTypeCorrect == Spec => []TypeOK
<1>1. IInv => TypeOK
  BY DEF IInv, QueueInv, ConfigInv, LoopInv, WorkerInv, RequesterInv, TypeOK
<1> QED BY <1>1, CrawlerInvariant, PTL

\* Once the crawler has stopped, and Close's wait with it, no vet marks a
\* front or touches the queue (domainfront.go:254, 413).
THEOREM VetsEndWithCrawler == Spec => []NoVetAfterStop
<1>1. IInv => NoVetAfterStop
  BY DEF IInv, VetsBelongToCrawl, NoVetAfterStop
<1> QED BY <1>1, CrawlerInvariant, PTL
-----------------------------------------------------------------------------
(***************************************************************************)
(* The slots.  A front leaves todo when it is picked, waits for its slot   *)
(* alone, and no crawl begins before the vets of the last one have ended.  *)
(***************************************************************************)
\* No front is vetted twice at once, not by one crawl nor by two: of two vets
\* of one front the one that ends last would decide what becomes of it
\* (domainfront.go:384, 398-409, 413).
OneVetPerFront ==
    \A v, w \in Worker :
        v # w /\ wpc[v] # "free" /\ wpc[w] # "free" => wfront[v] # wfront[w]

SlotInv ==
    /\ \A w \in Worker : wpc[w] # "free" => wfront[w] \notin todo
    /\ crawl = "acquire" => next \notin todo
    /\ crawl = "acquire" => \A w \in Worker : wpc[w] # "free" => wfront[w] # next
    /\ OneVetPerFront

\* No vet starts, no front is picked and no crawl begins.
LEMMA SlotsRemain ==
    ASSUME SlotInv, todo' \subseteq todo,
           crawl' = "acquire" => crawl = "acquire" /\ next' = next,
           \A w \in Worker : wpc'[w] # "free" => wpc[w] # "free" /\ wfront'[w] = wfront[w]
    PROVE  SlotInv'
<1>1. OneVetPerFront'
  BY DEF SlotInv, OneVetPerFront
<1>2. \A w \in Worker : wpc'[w] # "free" => wfront'[w] \notin todo'
  BY DEF SlotInv
<1>3. crawl' = "acquire" =>
         /\ next' \notin todo'
         /\ \A w \in Worker : wpc'[w] # "free" => wfront'[w] # next'
  BY DEF SlotInv
<1> HIDE DEF SlotInv
<1> QED BY <1>1, <1>2, <1>3 DEF SlotInv

LEMMA CrawlKeepsSlots == ASSUME IInv, SlotInv, CrawlStep PROVE SlotInv'
<1>1. CASE GateOpens \/ CrawlerEnds \/ SkipCrawl \/ JoinCrawl \/ TimerFires \/ StopCrawl
  <2>1. todo' \subseteq todo /\ crawl' # "acquire" /\ wpc' = wpc /\ wfront' = wfront
    BY <1>1 DEF GateOpens, CrawlerEnds, SkipCrawl, JoinCrawl, TimerFires, StopCrawl,
       crawlFrame, workerVars
  <2> QED BY <2>1, SlotsRemain
<1>2. CASE StartCrawl
  <2>1. \A w \in Worker : wpc[w] = "free"
    BY <1>2 DEF IInv, VetsBelongToCrawl, StartCrawl
  <2>2. crawl' = "loop" /\ wpc' = wpc
    BY <1>2 DEF StartCrawl, crawlFrame, workerVars
  <2> QED BY <2>1, <2>2 DEF SlotInv, OneVetPerFront
<1>3. CASE PickCandidate
  <2>1. next' \in todo /\ todo' = todo \ {next'} /\ wpc' = wpc /\ wfront' = wfront
    BY <1>3 DEF PickCandidate, crawlFrame, workerVars
  <2> QED BY <2>1 DEF SlotInv, OneVetPerFront
<1>4. ASSUME NEW w \in Worker, Acquire(w) PROVE SlotInv'
  <2>1. /\ crawl = "acquire" /\ crawl' = "loop" /\ todo' = todo
        /\ wpc' = [wpc EXCEPT ![w] = "check"] /\ wfront' = [wfront EXCEPT ![w] = next]
    BY <1>4 DEF Acquire
  <2>2. /\ wfront'[w] = next
        /\ \A v \in Worker \ {w} : wpc'[v] = wpc[v] /\ wfront'[v] = wfront[v]
    BY <2>1 DEF IInv, WorkerInv
  <2>3. \A v \in Worker : wpc'[v] # "free" => wfront'[v] \notin todo'
    BY <2>1, <2>2 DEF SlotInv
  <2>4. OneVetPerFront'
    <3> SUFFICES ASSUME NEW u \in Worker, NEW v \in Worker, u # v,
                        wpc'[u] # "free", wpc'[v] # "free"
                 PROVE  wfront'[u] # wfront'[v]
      BY DEF OneVetPerFront
    <3>1. CASE u = w
      BY <2>1, <2>2, <3>1 DEF SlotInv
    <3>2. CASE v = w
      BY <2>1, <2>2, <3>2 DEF SlotInv
    <3>3. CASE u # w /\ v # w
      BY <2>2, <3>3 DEF SlotInv, OneVetPerFront
    <3> QED BY <3>1, <3>2, <3>3
  <2> QED BY <2>1, <2>3, <2>4 DEF SlotInv
<1> QED BY <1>1, <1>2, <1>3, <1>4 DEF CrawlStep

LEMMA VetKeepsSlots == ASSUME IInv, SlotInv, NEW w \in Worker, VetStep(w) PROVE SlotInv'
<1>1. UNCHANGED <<todo, crawl, next>>
  BY DEF VetStep, VetSkipped, VetStarts, VetConnects, VetPasses, VetFails, vetFrame, crawlVars
<1>2. wpc[w] # "free"
  BY DEF VetStep, VetSkipped, VetStarts, VetConnects, VetPasses, VetFails
<1>3. \/ \E p \in {"vet", "post"} : wpc' = [wpc EXCEPT ![w] = p] /\ wfront' = wfront
      \/ Release(w)
  BY DEF VetStep, VetSkipped, VetStarts, VetConnects, VetPasses, VetFails
<1>4. \A v \in Worker : wpc'[v] # "free" => wpc[v] # "free" /\ wfront'[v] = wfront[v]
  BY <1>2, <1>3 DEF IInv, WorkerInv, Release
<1> QED BY <1>1, <1>4, SlotsRemain

LEMMA SlotNext == IInv /\ SlotInv /\ [Next]_vars => SlotInv'
<1> SUFFICES ASSUME IInv, SlotInv, [Next]_vars PROVE SlotInv'
  OBVIOUS
<1>1. ASSUME UNCHANGED <<todo, next, wpc, wfront>>, crawl' # "acquire" \/ crawl' = crawl
      PROVE  SlotInv'
  BY <1>1, SlotsRemain
<1>2. ASSUME NEW r \in Requester, RoundTripStep(r) PROVE SlotInv'
  BY <1>1, <1>2 DEF RoundTripStep, TakeFront, LookupHits, PutBack, Succeeds, DialFails,
     RequestFails, AfterDialFailure, roundTripFrame, crawlVars, workerVars
<1>3. CASE ConfigStep
  BY <1>1, <1>3 DEF ConfigStep, PublishProviders, Replace, crawlVars, workerVars
<1>4. CASE AppStep
  BY <1>1, <1>4 DEF AppStep, Pause, Resume, Close, FinalSave, NetworkChanges, appFrame,
     crawlVars, workerVars
<1>5. CASE UNCHANGED vars
  BY <1>1, <1>5 DEF vars
<1> QED BY <1>2, <1>3, <1>4, <1>5, CrawlKeepsSlots, VetKeepsSlots DEF Next

\* No two vets of one front are ever under way, within a crawl or across two,
\* so no vet's verdict is overruled by an older one (domainfront.go:384-413).
THEOREM VetsAreDistinct == Spec => []OneVetPerFront
<1>1. Init => SlotInv
  BY DEF Init, SlotInv, OneVetPerFront
<1>2. SlotInv => OneVetPerFront
  BY DEF SlotInv
<1> QED BY <1>1, <1>2, SlotNext, CrawlerInvariant, PTL DEF Spec
-----------------------------------------------------------------------------
(***************************************************************************)
(* The supply.  Every vet under way and the candidate that waits for a     *)
(* slot may become a ready front, and a round trip may return the one it   *)
(* holds: their sum grows only when a candidate is picked, and then fewer  *)
(* than ReadyEnough are ready.                                             *)
(***************************************************************************)
InHand == {r \in Requester : rpc[r] # "idle"}

\* The crawl counts the ready fronts before it waits for a slot, counts neither
\* the vets in flight nor the fronts in use, and a vet does not count at all
\* (domainfront.go:388-405): it overshoots by a front for each of these.
SupplyIsBounded ==
    Cardinality(ready) + Cardinality(InHand)
        <= ReadyEnough + Cardinality(Worker) + Cardinality(Requester)

Busy == {w \in Worker : wpc[w] # "free"}
Waiting == IF crawl = "acquire" THEN 1 ELSE 0

SupplyInv ==
    Cardinality(ready) + Cardinality(Busy) + Cardinality(InHand) + Waiting
        <= ReadyEnough + Cardinality(Worker) + Cardinality(Requester)

LEMMA SupplyTypes ==
    ASSUME IsFiniteSet(ready)
    PROVE  /\ IsFiniteSet(Busy) /\ Cardinality(Busy) \in Nat
           /\ Cardinality(Busy) <= Cardinality(Worker)
           /\ IsFiniteSet(InHand) /\ Cardinality(InHand) \in Nat
           /\ Cardinality(InHand) <= Cardinality(Requester)
           /\ Cardinality(ready) \in Nat
           /\ Cardinality(Worker) \in Nat /\ Cardinality(Requester) \in Nat
           /\ ReadyEnough \in Nat
<1>1. Busy \in SUBSET Worker /\ InHand \in SUBSET Requester
  BY DEF Busy, InHand
<1>2. IsFiniteSet(Worker) /\ IsFiniteSet(Requester) /\ ReadyEnough \in Nat
  BY CrawlerAssumption
<1>3. IsFiniteSet(Busy) /\ Cardinality(Busy) <= Cardinality(Worker)
  BY <1>1, <1>2, FS_Subset
<1>4. IsFiniteSet(InHand) /\ Cardinality(InHand) <= Cardinality(Requester)
  BY <1>1, <1>2, FS_Subset
<1> QED BY <1>2, <1>3, <1>4, FS_CardinalityType

\* The same of the next state.
LEMMA SupplyTypesNext ==
    ASSUME IsFiniteSet(ready')
    PROVE  /\ Cardinality(Busy') \in Nat /\ Cardinality(InHand') \in Nat
           /\ Cardinality(ready') \in Nat
<1>1. Busy' \in SUBSET Worker /\ InHand' \in SUBSET Requester
  BY DEF Busy, InHand
<1>2. IsFiniteSet(Worker) /\ IsFiniteSet(Requester)
  BY CrawlerAssumption
<1>3. IsFiniteSet(Busy') /\ IsFiniteSet(InHand')
  BY <1>1, <1>2, FS_Subset
<1> QED BY <1>3, FS_CardinalityType

\* A step that picks no candidate may only move fronts within the sum.
LEMMA SupplyRemains ==
    ASSUME QueueInv, QueueInv', SupplyInv,
           Cardinality(ready') + Cardinality(Busy') + Cardinality(InHand') + Waiting'
               <= Cardinality(ready) + Cardinality(Busy) + Cardinality(InHand) + Waiting
    PROVE  SupplyInv'
<1>1. /\ Cardinality(ready) \in Nat /\ Cardinality(ready') \in Nat
      /\ Cardinality(Busy) \in Nat /\ Cardinality(Busy') \in Nat
      /\ Cardinality(InHand) \in Nat /\ Cardinality(InHand') \in Nat
      /\ Cardinality(Worker) \in Nat /\ Cardinality(Requester) \in Nat
      /\ ReadyEnough \in Nat
  <2>1. IsFiniteSet(ready) /\ IsFiniteSet(ready')
    BY DEF QueueInv
  <2> QED BY <2>1, SupplyTypes, SupplyTypesNext
<1>2. Waiting \in Nat /\ Waiting' \in Nat
  BY DEF Waiting
<1> QED BY <1>1, <1>2 DEF SupplyInv

LEMMA AddCounts ==
    ASSUME QueueInv, NEW f, addReady(f)
    PROVE  Cardinality(ready') <= Cardinality(ready) + 1
<1>1. Cardinality(ready) \in Nat
  BY FS_CardinalityType DEF QueueInv
<1>2. CASE ready' = ready
  BY <1>1, <1>2
<1>3. CASE ready' = ready \cup {f}
  <2>1. IsFiniteSet(ready)
    BY DEF QueueInv
  <2>2. Cardinality(ready \cup {f}) \in {Cardinality(ready), Cardinality(ready) + 1}
    BY <2>1, FS_AddElement
  <2> QED BY <1>1, <1>3, <2>2
<1> QED BY <1>2, <1>3 DEF addReady

LEMMA CrawlKeepsSupply == ASSUME IInv, IInv', SupplyInv, CrawlStep PROVE SupplyInv'
<1>q. QueueInv /\ QueueInv' /\ IsFiniteSet(ready)
  BY DEF IInv, QueueInv
<1>s. ready' = ready /\ InHand' = InHand
  BY DEF CrawlStep, GateOpens, CrawlerEnds, SkipCrawl, StartCrawl, PickCandidate, Acquire,
     StopCrawl, JoinCrawl, TimerFires, crawlFrame, poolVars, roundTripVars, InHand
<1>0. /\ QueueInv /\ QueueInv' /\ ready' = ready /\ InHand' = InHand /\ IsFiniteSet(ready)
      /\ Cardinality(ready) \in Nat /\ Cardinality(Busy) \in Nat /\ Cardinality(InHand) \in Nat
  BY <1>q, <1>s, SupplyTypes
<1>1. CASE GateOpens \/ CrawlerEnds \/ SkipCrawl \/ StartCrawl \/ StopCrawl \/ JoinCrawl
            \/ TimerFires
  <2>1. wpc' = wpc /\ crawl # "acquire" /\ crawl' # "acquire"
    BY <1>1 DEF GateOpens, CrawlerEnds, SkipCrawl, StartCrawl, StopCrawl, JoinCrawl, TimerFires,
       crawlFrame, workerVars
  <2>2. Busy' = Busy /\ Waiting' = 0 /\ Waiting = 0
    BY <2>1 DEF Busy, Waiting
  <2> QED BY <1>0, <2>2, SupplyRemains
<1>2. CASE PickCandidate
  <2>1. wpc' = wpc /\ Cardinality(ready) < ReadyEnough
    BY <1>2 DEF PickCandidate, MayLaunch, crawlFrame, workerVars
  <2>2. Busy' = Busy /\ Waiting' \in {0, 1}
    BY <2>1 DEF Busy, Waiting
  <2>3. /\ Cardinality(Busy) <= Cardinality(Worker)
        /\ Cardinality(InHand) <= Cardinality(Requester)
        /\ Cardinality(Worker) \in Nat /\ Cardinality(Requester) \in Nat /\ ReadyEnough \in Nat
    BY <1>0, SupplyTypes
  <2> QED BY <1>0, <2>1, <2>2, <2>3 DEF SupplyInv
<1>3. ASSUME NEW w \in Worker, Acquire(w) PROVE SupplyInv'
  <2>1. /\ wpc[w] = "free" /\ wpc' = [wpc EXCEPT ![w] = "check"]
        /\ crawl = "acquire" /\ crawl' = "loop"
    BY <1>3 DEF Acquire
  <2>2. Busy' = Busy \cup {w} /\ w \notin Busy
    BY <2>1 DEF IInv, WorkerInv, Busy
  <2>3. Cardinality(Busy') = Cardinality(Busy) + 1
    BY <1>0, <2>2, SupplyTypes, FS_AddElement
  <2>4. Waiting = 1 /\ Waiting' = 0
    BY <2>1 DEF Waiting
  <2> QED BY <1>0, <2>3, <2>4, SupplyRemains
<1> QED BY <1>1, <1>2, <1>3 DEF CrawlStep

LEMMA VetKeepsSupply ==
    ASSUME IInv, IInv', SupplyInv, NEW w \in Worker, VetStep(w) PROVE SupplyInv'
<1>0. /\ QueueInv /\ QueueInv' /\ InHand' = InHand /\ Waiting' = Waiting /\ Waiting \in Nat
      /\ Cardinality(ready) \in Nat /\ Cardinality(ready') \in Nat
      /\ Cardinality(Busy) \in Nat /\ Cardinality(InHand) \in Nat
  <2>1. QueueInv /\ QueueInv' /\ IsFiniteSet(ready) /\ IsFiniteSet(ready')
    BY DEF IInv, QueueInv
  <2>2. InHand' = InHand /\ Waiting' = Waiting /\ Waiting \in Nat
    BY DEF VetStep, VetSkipped, VetStarts, VetConnects, VetPasses, VetFails, vetFrame,
       crawlVars, roundTripVars, InHand, Waiting
  <2> QED BY <2>1, <2>2, SupplyTypes, SupplyTypesNext
<1>1. CASE VetStarts(w) \/ VetConnects(w)
  <2>1. \E p \in {"vet", "post"} : wpc' = [wpc EXCEPT ![w] = p]
    BY <1>1 DEF VetStarts, VetConnects
  <2>2. wpc[w] # "free" /\ ready' = ready
    BY <1>1 DEF VetStarts, VetConnects
  <2>3. Busy' = Busy
    BY <2>1, <2>2 DEF IInv, WorkerInv, Busy
  <2> QED BY <1>0, <2>2, <2>3, SupplyRemains
<1>2. CASE VetSkipped(w) \/ VetPasses(w) \/ VetFails(w)
  <2>1. wpc[w] # "free" /\ wpc' = [wpc EXCEPT ![w] = "free"]
    BY <1>2 DEF VetSkipped, VetPasses, VetFails, Release
  <2>2. Busy' = Busy \ {w} /\ w \in Busy
    BY <2>1 DEF IInv, WorkerInv, Busy
  <2>3. Cardinality(Busy') = Cardinality(Busy) - 1
    BY <1>0, <2>2, FS_RemoveElement, SupplyTypes DEF QueueInv
  <2>4. ready' = ready \/ addReady(wfront[w])
    BY <1>2 DEF VetSkipped, VetPasses, VetFails
  <2>5. Cardinality(ready') <= Cardinality(ready) + 1
    BY <1>0, <2>4, AddCounts
  <2> QED BY <1>0, <2>3, <2>5, SupplyRemains
<1> QED BY <1>1, <1>2 DEF VetStep

LEMMA RoundTripKeepsSupply ==
    ASSUME IInv, IInv', SupplyInv, NEW r \in Requester, RoundTripStep(r) PROVE SupplyInv'
<1>0. /\ QueueInv /\ QueueInv' /\ Busy' = Busy /\ Waiting' = Waiting /\ Waiting \in Nat
      /\ IsFiniteSet(ready) /\ IsFiniteSet(InHand)
      /\ Cardinality(ready) \in Nat /\ Cardinality(ready') \in Nat
      /\ Cardinality(Busy) \in Nat /\ Cardinality(InHand) \in Nat
  <2>1. QueueInv /\ QueueInv' /\ IsFiniteSet(ready) /\ IsFiniteSet(ready')
    BY DEF IInv, QueueInv
  <2>2. Busy' = Busy /\ Waiting' = Waiting /\ Waiting \in Nat
    BY DEF RoundTripStep, TakeFront, LookupHits, PutBack, Succeeds, DialFails,
     RequestFails, AfterDialFailure, roundTripFrame, crawlVars, workerVars, Busy, Waiting
  <2> QED BY <2>1, <2>2, SupplyTypes, SupplyTypesNext
<1>1. CASE TakeFront(r)
  <2>1. PICK f \in ready : ready' = ready \ {f}
    BY <1>1 DEF TakeFront
  <2>2. Cardinality(ready') = Cardinality(ready) - 1
    BY <1>0, <2>1, FS_RemoveElement
  <2>3. rpc[r] = "idle" /\ rpc' = [rpc EXCEPT ![r] = "holding"]
    BY <1>1 DEF TakeFront
  <2>4. InHand' = InHand \cup {r} /\ r \notin InHand
    BY <2>3 DEF IInv, RequesterInv, InHand
  <2>5. Cardinality(InHand') = Cardinality(InHand) + 1
    BY <1>0, <2>4, FS_AddElement
  <2> QED BY <1>0, <2>2, <2>5, SupplyRemains
<1>2. CASE LookupHits(r) \/ DialFails(r)
  <2>1. /\ rpc[r] # "idle" /\ ready' = ready
        /\ \E label \in {"sending", "dialFailed"} : rpc' = [rpc EXCEPT ![r] = label]
    BY <1>2 DEF LookupHits, DialFails
  <2>2. InHand' = InHand
    BY <2>1 DEF IInv, RequesterInv, InHand
  <2> QED BY <1>0, <2>1, <2>2, SupplyRemains
<1>3. CASE PutBack(r) \/ Succeeds(r) \/ RequestFails(r) \/ AfterDialFailure(r)
  <2>1. rpc[r] # "idle" /\ rpc' = [rpc EXCEPT ![r] = "idle"]
    BY <1>3 DEF PutBack, Succeeds, RequestFails, AfterDialFailure, Finish
  <2>2. InHand' = InHand \ {r} /\ r \in InHand
    BY <2>1 DEF IInv, RequesterInv, InHand
  <2>3. Cardinality(InHand') = Cardinality(InHand) - 1
    BY <1>0, <2>2, FS_RemoveElement
  <2>4. ready' = ready \/ addReady(rfront[r])
    BY <1>3 DEF PutBack, Succeeds, RequestFails, AfterDialFailure
  <2>5. Cardinality(ready') <= Cardinality(ready) + 1
    BY <1>0, <2>4, AddCounts
  <2> QED BY <1>0, <2>3, <2>5, SupplyRemains
<1> QED BY <1>1, <1>2, <1>3 DEF RoundTripStep

LEMMA SupplyNext == IInv /\ IInv' /\ SupplyInv /\ [Next]_vars => SupplyInv'
<1> SUFFICES ASSUME IInv, IInv', SupplyInv, [Next]_vars PROVE SupplyInv'
  OBVIOUS
<1>0. /\ QueueInv /\ QueueInv' /\ Waiting \in Nat
      /\ Cardinality(ready) \in Nat /\ Cardinality(Busy) \in Nat /\ Cardinality(InHand) \in Nat
  <2>1. QueueInv /\ QueueInv' /\ IsFiniteSet(ready) /\ Waiting \in Nat
    BY DEF IInv, QueueInv, Waiting
  <2> QED BY <2>1, SupplyTypes
<1>1. ASSUME UNCHANGED <<wpc, rpc>>, ready' \in {ready, {}},
             crawl' = crawl \/ crawl' # "acquire"
      PROVE  SupplyInv'
  <2>1. Busy' = Busy /\ InHand' = InHand /\ (Waiting' = Waiting \/ Waiting' = 0)
    BY <1>1 DEF Busy, InHand, Waiting
  <2>2. Cardinality(ready') <= Cardinality(ready)
    BY <1>0, <1>1, FS_EmptySet
  <2>3. Cardinality(ready') \in Nat
    BY <1>0, SupplyTypesNext DEF QueueInv
  <2> QED BY <1>0, <2>1, <2>2, <2>3, SupplyRemains
<1>2. CASE ConfigStep
  BY <1>1, <1>2 DEF ConfigStep, PublishProviders, Replace, poolVars, crawlVars, workerVars,
     roundTripVars
<1>3. CASE AppStep
  BY <1>1, <1>3 DEF AppStep, Pause, Resume, Close, FinalSave, NetworkChanges, appFrame,
     poolVars, crawlVars, workerVars, roundTripVars
<1>4. CASE UNCHANGED vars
  BY <1>1, <1>4 DEF vars
<1> QED BY <1>2, <1>3, <1>4, CrawlKeepsSupply, VetKeepsSupply, RoundTripKeepsSupply DEF Next

\* A crawl that goes on launching vets on a count that is out of date, for as
\* many slots and round trips as there may be, overshoots what it aims at by at
\* most one front for each of them (domainfront.go:388-405).
THEOREM OvershootIsBounded == Spec => []SupplyIsBounded
<1>1. Init => SupplyInv
  <2> SUFFICES ASSUME Init PROVE SupplyInv
    OBVIOUS
  <2>1. IsFiniteSet(ready)
    BY CrawlerInit DEF IInv, QueueInv
  <2>2. Busy = {} /\ InHand = {} /\ ready = {} /\ Waiting = 0
    BY DEF Init, Busy, InHand, Waiting
  <2> QED BY <2>1, <2>2, SupplyTypes, FS_EmptySet DEF SupplyInv
<1>2. IInv /\ SupplyInv => SupplyIsBounded
  <2> SUFFICES ASSUME IInv, SupplyInv PROVE SupplyIsBounded
    OBVIOUS
  <2>1. IsFiniteSet(ready) /\ Waiting \in Nat
    BY DEF IInv, QueueInv, Waiting
  <2> QED BY <2>1, SupplyTypes DEF SupplyInv, SupplyIsBounded
<1> QED BY <1>1, <1>2, SupplyNext, CrawlerInvariant, PTL DEF Spec
=============================================================================
