# A TLA+ model of domainfront

domainfront is a Go library that sends HTTP requests through CDN edges
("fronts"). It keeps a pool of fronts that are known to work, vets new ones in
the background, retries requests over different fronts, races providers for a
connection, refreshes its configuration from several URLs and saves what it
learned to disk. This directory holds TLA+ modules of its concurrent core, of
its persistence and of the decisions it makes about host names, the
configurations TLC checks them with, and TLAPS proofs about them.

Line numbers refer to the files of the repository at the modelled commit.

## 1. Inventory

| component | code | state | operations | hard part | what makes it correct | module |
|---|---|---|---|---|---|---|
| front pool | `front.go` | channel `ready`, flag `queued` per front, `fronts`, `closed`, `scanMu`, `mu` | addReady, Take, TakePreferringUntried, tryTakeFrom, Return, ReturnSuccess, candidates, Replace, Close | flag and channel are two objects; scans hold fronts; Replace drains while fronts come back | a front is queued once, never stuck, never lost; scans, Replace and Take on Close end | `FrontPool`, `Rotation` |
| front state | `front.go` | `LastSucceeded` | markSucceeded, markFailed, candidates' order | copied by Replace without the users' knowledge; changes while it is sorted by | an outcome is not forgotten | `FrontPool`, `Crawler`, `CacheSaver` |
| crawler | `domainfront.go` | the loop, a semaphore, vetting goroutines | crawler, crawlAllFronts, vetFront | counts read before a wait; cancellation; pause; a silent front | a usable front keeps becoming available; one vet per front, a bounded overshoot; nothing outlives Close | `Crawler` |
| pause gate | `pause.go` | one channel per pause, a mutex | pause, resume, isPaused, wait | waiters asleep on a replaced channel | no double close, no lost wakeup, no pass while paused | `PauseGate`, `Gate` |
| connected race | `connected.go` | result channel, race context, per-lane attempts | NewConnectedRoundTripper, connectVia, dialUnvetted | late connections, cancelled dials, early returns | every connection and front has an owner, cancelled dials blame nobody | `ConnectRace` |
| connected round-tripper | `connected.go` | `used`, connection, front | RoundTrip, Close | both called at once | the front is returned once | `ConnectRace` |
| round tripper | `roundtrip.go` | attempts, tried providers, body | RoundTrip, doRequest | every exit owes a front and a connection; competing calls; updates in between | nothing leaks, only failures count, a rejecting provider is escaped as far as a scan reaches, calls end | `RoundTrip` |
| configuration refresh | `config_fetch.go` | hash, validators, result channel | fetchAndApplyConfig, fetchConfigFrom | sources race, deadline, pause, unchanged answers | a change in time is applied; validators belong to the payload in use | `ConfigRefresh` |
| configuration persistence | `config_fetch.go`, `domainfront.go` | two files | persistConfig, persistConfigValidators, loading in New | crash between or within the writes, another client's writes | a restart goes on where the client was; a 304 never confirms bytes one does not have | `ConfigRefresh` |
| cache saver, cache | `domainfront.go`, `cache.go` | dirty token, file | cacheSaver, saveCache, frontsToCache, applyCachedState | token taken before the save, two looks at the fronts, torn writes | every notified mark reaches the file, and at Close every mark | `CacheSaver` (with `PauseGate`) |
| client lifecycle | `domainfront.go` | context, wait group, providers, certificates | New, applyConfig, Close | publications in several steps | Close ends everything, saved last | partly: `Crawler`, `CacheSaver`, `ConfigRefresh`, `RoundTrip` |
| configuration model | `config.go` | none | Lookup, ExpandedProvider, CertPool | pure | a host is sent under the name the configuration gives it | partly: `ProviderConfig` |
| SNI generation | `sni.go` | none | GenerateSNI | pure | a configured name or none | `ProviderConfig` |
| dialer, certificate verification | `dialer.go` | none | dialFront, verifyPeerCertificate, classifyError | library calls | the name that is verified is never the decoy's | partly: `ProviderConfig`; a dial as a step in `RoundTrip`, `Crawler`, `ConnectRace` |
| request framing | `roundtrip.go` | none | sendOverConn, rewriteRequest, getBodyFactory | library calls | a connection lives as long as its response's body | partly: `RoundTrip` |
| file helpers | `fileutil.go` | files | readFile, writeFile | torn writes | with the two persisted states | `ConfigRefresh`, `CacheSaver` |

How they interact. Round trips, vets and the race call the pool directly, from
any number of goroutines. `applyConfig` publishes the providers and then calls
the pool's Replace, while the others hold fronts of the old set. The gate is
asked by the crawler, the cache saver, the configuration updater and by
`returnAfterDialFailure`. Marks of fronts reach the cache saver through a
token. `Close` cancels the context they all watch, closes the pool, waits for
the background goroutines and saves the cache.

## 2. Modules

* `FrontPool` - the pool at the granularity of channel and atomic operations.
  A goroutine (`User`) is in `pc[u]`, has `cur[u]` in hand, `sel[u]` selected by
  a scan and `put[u]` still to give to `addReady`. What the code does in two
  steps is two actions: `Receive`/`Unqueue` (receive, clear the flag),
  `Claim`/`Send` (compare-and-swap, send), `Full`/`Drop` (the default branch,
  clear the flag), `CloseCheck`/`CloseDo`, `ReplaceCopy`/`ReplaceSwap`/`Drain...`.
  `Replace` installs new front *objects*: a front is a key and the epoch of the
  set that created it, so goroutines may hold objects whose keys live on.
* `Rotation` - what the pool promises: a set of available fronts with an
  indivisible take and put. `FrontPoolRefinement` instantiates it with
  `avail <- {f : queued[f]}` and states that `FrontPool` implements it.
* `PauseGate` - the gate, each pause with its own channel, waiters asleep on
  the channel they found.
* `Gate` - what the gate promises: one switch, waiters that pass only while it
  is on and are refused only once their context has ended. `PauseGate`
  instantiates it with a mapping that hides the loop of `wait` and its channels
  (`ImplementsGate`). `Crawler` and `ConfigRefresh` have this switch in their
  `paused`.
* `Crawler` - the crawler loop, one semaphore slot per `Worker`, round trips,
  `applyConfig`, Pause, Close, a network that comes and goes. A vet has two
  phases: the dial, which has a timeout and watches the context, and the test
  POST, which does neither. The provider is asked for once, between the two
  (`VetConnects`, `domainfront.go:424`): a vet whose POST an update overtakes
  queues its front after Replace has drained the queue. A round trip, too, asks
  once, before its dial (`LookupHits`). The crawler uses the pool through the
  contract of `Rotation`: `ready` is a set with a capacity.
* `ConnectRace` - one call of `NewConnectedRoundTripper`: a lane per provider,
  the caller, the releasing goroutine and the use of the winner: any goroutine
  may call RoundTrip and Close on it, of which the swap of `used` lets one
  through; a call that comes too late changes nothing and is no step. It
  uses the pool through the same contract, and `UsesRotation` says so: with
  `has` the front a lane took or owes, and `lent` the front it vets before it
  dials, each of its steps is one of `Rotation` or leaves the pool alone.
* `ProviderConfig` - pure operators: `Lookup` and what `ExpandedProvider`
  makes of a provider (keys in lower case, generated SNIs, the name each
  front's certificate is verified against). `Maps` and `AliasesOf` are the
  reference it is compared with: what the configuration as it is written says.
* `RoundTrip` - concurrent calls of the retry loop, `EXTENDS ProviderConfig`.
  Each call is in `pc[c]` with `front[c]` in hand, `via[c]` the name it sends
  the host under and `open[c]` connections; vets, `applyConfig`'s publication
  and Replace, Pause, Resume, cancelled requests and Close come in between.
  `TakePreferringUntried` is its loop: the first front from the head of the
  queue (`Take`), the wait for `scanMu` and the count of what there is to scan,
  at most `MaxScan` (`ScanBegins`), one step per front pulled (`ScanSkips`,
  `ScanFinds`, `ScanFallsBack`) and one per front put back (`PutsBack`,
  `ScanEnds`). `left[c]` is what the scan may still pull, `skipped[c]` what it
  owes the queue. Everything else happens between any two of these steps.
* `ConfigRefresh` - `fetchAndApplyConfig` with its fetching goroutines, the
  result channel, the deadline, the gate, and both files, each written in two
  steps (truncate, fill) of which either may fail or be the last before a
  crash. `Restart` is possible in every state and is what New makes of the
  files. `OtherClientWrites` stands for a second client with the same directory.
* `CacheSaver` - `EXTENDS PauseGate`: users mark fronts and then notify, the
  saver sleeps, waits at the gate, takes the token, sorts (the first look at
  the times), picks and copies (the second look), truncates and writes; Close
  waits for it and saves once more. A step of the gate is a step of this
  module, so the gate is checked under the client that uses it.
* `MCFrontPool`, `MCCrawler`, `MCConnectRace`, `MCRoundTrip`,
  `MCConfigRefresh`, `MCCacheSaver` - values of the constants and symmetries
  for TLC.
* `FrontPoolProofs`, `PauseGateProofs`, `CrawlerProofs`, `ConnectRaceProofs`,
  `ProviderConfigProofs`, `RoundTripProofs`, `ConfigRefreshProofs`,
  `CacheSaverProofs` - the proofs.

An operator commented "Fault:" changes one definition the way a plausible bug
would; no specification uses it. Each property below was seen to fail when one
of them replaces the definition it varies.

### Abstractions

The pool.

* `tryTakeFrom`'s predicate is "a front of this provider" in `FrontPool`; the
  set of fronts a lane has tried is kept in `ConnectRace`.
* `LastSucceeded` is set or zero, except in `CacheSaver`, which has the times
  and the order they are sorted in. `Crawler` keeps it for the fronts of the
  candidate set only: nothing reads it of a front that has left the set.
* In `FrontPool`, `ReplaceCopy` copies all the timestamps in one step; the hazard, a
  success between the copy and the publication, is there. `candidates` waits
  for `mu`, so `Borrow` is disabled during a Replace.
* In `Crawler` and `ConnectRace`, `ready` is a set: any ready front may be
  taken, where the channel gives the oldest. That is more behaviours. In
  `RoundTrip` it is the channel's sequence, since what a bounded scan sees
  depends on the order; the queue has room for every front. In all three
  `ImplementsRotation` justifies the indivisible take and put. Replace is one
  step in `Crawler` and `RoundTrip`; in `RoundTrip` the new set has the same
  keys.

Dials and requests.

* A dial, a vet and a request succeed or fail. In `Crawler` the outcome is a
  fact of the network (`good`, `up`), which liveness needs; in `ConnectRace` and
  `RoundTrip` it is a free choice. Which protocol an edge chooses is a fact of
  the front (`SpeaksH2`).
* In `ConnectRace` a lane's fallback candidates are its provider's fronts in
  any order, and `Close` of the client is the pool's: the lanes' context is the
  caller's.
* In `RoundTrip` the certificates are not modelled, so a dial that meets those
  of the other configuration is one that fails.

Names. A host is its labels, whether it is written with capitals and whether
it carries a port. Punycode, trailing dots and empty labels are left out. Two
aliases that differ in case only are resolved either way, as Go's map order
does. The masquerade and SNI operators have no state; they are not part of a
run but of the proofs, for every configuration.

Files. A file that is missing, torn or unparsable reads as nothing. A payload
stands for its bytes and for their digest. A validator stands for ETag and
Last-Modified and is named by the payload the server issued it with. What a
source publishes may change at any time. The fetches of a refresh have ended
when the next one starts, 12 hours later. The look at the context at the head
of the collector's loop is one step with the receive that follows it, and the
pass of the gate one step with the application. A client without a
`configCachePath` is one whose writes all fail. In `CacheSaver` the set of
fronts is fixed, since Replace notifies nobody; `horizon` stands for the age
limit at the load. A crash of the saver needs no action: what a restart loads
is `file`, and the invariants hold at every instant.

## 3. Runs

Each violation run states what the repository says of the program and finds an
execution in which the code does otherwise.

| run | what it asks | bounds | result |
|---|---|---|---|
| `pool_safety` | `QueueInv` (the inductive invariant, `TypeOK` and queued-once and `NoStuckFlag` included), `NeverLost`, `ScanIsBounded`, and that `FrontPool` implements `Rotation` | 2 users, 2 keys of 2 providers in 2 epochs, channel of 2, scans of 1 | holds; 1,508,867 states |
| `pool_live` | `ScanTerminates`, `TakeUnblocksOnClose`, `ReplaceTerminates` | 2 users, 1 key in 2 epochs, channel of 1, 1 closer | holds; 212,535 |
| `pool_double_close` | `ClosedOnce` with two closers | 1 user, 2 closers | violated: test and close are two steps |
| `crawler` | `TypeOK`, `NoVetAfterStop`, `SuppliedUnlessStale`, `CloseStopsCrawler` | 2 keys of 2 providers, 1 update, 1 slot, 1 round trip, queue of 2, marks 1 and 2 (2 and 4 in the code), Pause, Close and a network that comes and goes | holds; 380,692 |
| `crawler_replace` | `KeepsSupplied` after an update | 3 keys, 2 providers, 2 round trips, 1 update | violated: stale fronts circulate |
| `crawler_close` | `CloseSavesWorking` | 3 keys, 1 slot | violated: a cancelled vet marks failure |
| `crawler_hang` | `CloseStopsCrawler` with a front that connects and never answers | 2 keys, 1 slot | violated: the POST of a vet has no deadline |
| `race` | connections owned, results awaited, fronts accounted for and returned once, cancelled dials blame nobody, the pool is used as `Rotation` allows, the call returns, everything is released | 2 lanes, 3 fronts, 2 tries, 1 update or pause | holds; 656,826 |
| `config_refresh` | `TypeOK`, `ValidatorsBelong`, `UnchangedConfirmsApplied`, `ChangeIsApplied`, `RestartRestores`, `RefreshEnds`, `FetchersEnd` | 2 sources, one of which may leave validators out; 4 payloads: seed, update, one that does not apply, one that does not parse; 1 pause, close, restart or foreign write per behaviour, from every content of the files | holds; 391,932 |
| `roundtrip` | `TypeOK`, `ConnectionsAreClosed`, `SentAsWritten`, `NoFrontVanishes`, `OnlyFailuresCount`, `EscapesProvider`, `CallsEnd` | 2 calls, one of them an upgrade, of 2 attempts; 2 fronts of one provider, one of them over HTTP/2, and 1 of another; scans of 1; 2 hosts; 2 configurations and a removed provider; 2 of: vet, update, pause, resume, cancellation, Close | holds; 556,115 |
| `roundtrip_cancelled` | `CancelledCallKeepsFront` | 1 call of 2 attempts | violated: a cancelled dial fails its front |
| `cache_saver` | `SaverTypeOK`, `MarksReachFile`, `ClosedIsSaved`, `MarksAreSaved`, `CloseReturns` (what Close waits for the saver; for the crawler it is `CloseStopsCrawler`), and of the gate `GateInv`, `ImplementsGate` | 2 fronts and room for 1, 1 user, 3 successes, 2 pauses | holds; 813,011 |

Why the bounds are enough. The pool's protocol concerns one front, the process
that has its token and one that wants it, so two users and a channel that can
be full reach every collision; a second provider makes a scan skip fronts.
`MaxEpoch = 1` gives stale objects of a key that lives on, and with them up to
four fronts for a channel of two. In `crawler` the mark below which the crawler
wakes is one front, so the one stale front that a round trip puts back, or that
a vet queues after an update overtook its POST, keeps the crawler asleep:
`SuppliedUnlessStale` makes exactly this exception, and the run reaches it both
ways. `crawler_replace` has the code's mark of two and two round trips, and shows
that the exception is needed.
Two lanes are a winner and a loser, the third front is a fallback or
a retry. Two sources are one that has a change and one that has not, and a
restart starts from every pair of files, so one event per behaviour still
meets what any number of earlier clients left. Two attempts of two calls over
two providers give a rejection, an escape from it and a competitor that takes
the front one is escaping to. With three fronts and a scan of one, a scan finds
a front of another provider, finds only one of the same while the other lies
beyond its reach, meets a queue that others have emptied since it was counted,
and waits for the scan of the other call. Two changes give a pause that is over
before the failed dial is counted, and a vet that queues a front in use. Two fronts for one place make the size limit
bite, and the third success comes between the two looks of a save or after
them. Two pauses give a waiter that sleeps through a replaced channel; waiters
do not meet in the gate, so one is enough. `MaxEpoch`, `MaxChange`, `MaxEvent`,
`MaxTime` and `MaxPause` bound what may happen without end in the program; the
proofs of section 4 hold for every value of them. `pool_safety` uses a
symmetry, which is sound for it: its properties are invariants and step
properties, and exchanging the two providers together with their keys, or the
users, changes no definition.

Deadlock is checked in the pool's runs and in `crawler` and `crawler_replace`.
The others may really stop: a race and a round trip end, a saver and a
refresh end with Close, and so do the runs of a closed crawler.

Fairness. The Go scheduler runs every goroutine that can run, so the steps a
goroutine takes on its own are weakly fair.

* `FrontPool`: `scanMu` is taken under strong fairness, since `sync.Mutex` hands
  itself to a waiter that starved for a millisecond.
* `Crawler`: its notice of an ended context is strongly fair, as `select`
  chooses among ready cases at random. A dial ends, by its timeout. That a
  front which has connected answers or hangs up is an assumption about the
  network: `FairSpec` makes it, `SilentSpec` does not, and `crawler_hang` shows
  what depends on it.
* `ConnectRace`: handshakes are *not* fair, since they do not watch the context;
  `AllReleased` assumes that they end, `CallReturns` does not.
* `RoundTrip`: the steps of a call are weakly fair, the wait for `scanMu`
  included: a call scans at most once per attempt, so with boundedly many calls
  the mutex is not for ever taken and released by others. A call that waits for a response is obliged to go on only when
  the request's context has ended, or when it never sent the request.
* `ConfigRefresh`: the deadline comes, and requests whose context has ended
  fail; no source has to answer.
* `CacheSaver`: the timer fires, users notify after they have marked.

Nobody is obliged to call, return a front, pause, resume, cancel or close.

## 4. Proofs

Every invariant and every action property of the passing runs is proved, for
every value of the constants that the named assumptions of its module admit.
Some invariants are stated by theorems only, next to their proofs:
`LockHolderRuns`, `OneVetPerFront` and `SupplyIsBounded`, and
`PassesOnlyWhenRunning`, which `ImplementsGate` implies.
Assumptions are what the constants are: bounds are naturals, capacities are
positive, processes are distinct, the sets that are counted are finite. Two
say more. `RefreshAssumption` has a seed that parses and applies, without which
New returns an error. `RoundTripAssumption` has configurations that are
`WellWritten`: aliases whose keys differ in case only agree on whether they map
to the empty name.

* `FrontPoolProofs`. `TypeCorrect`, `QueueCorrect` (`QueueInv`),
  `FrontQueuedOnce`, `FlagNeverStuck`. Queued-once alone is not inductive: that
  the compare-and-swap admits one sender says something about the channel only
  if every queued front carries its flag (`ReadyIsFlagged`) and if at most one
  process has the *token* of a flagged front that is not in the channel
  (`TokenIsExclusive`). The token is passed from the channel to the receiver,
  which clears the flag, and from the compare-and-swap to the sender. Every
  action is of one of five kinds with respect to the token (it receives,
  clears, claims, sends, or is quiet); one lemma per kind shows that the
  protocol survives, one lemma per group of actions shows of which kind each
  is. `PoolIsRotation` proves the refinement: with `HandInv`, which says what a
  goroutine may have selected or put aside at each label, every step maps to
  a take, put, forget, fail, lend, adopt or reject of `Rotation`, or to a
  stutter. `NoFrontIsLost` (`NeverLost`) needs `PlaceInv`, which keeps each
  kind of process in its part of the program. Why a scan ends is a liveness
  property, `ScanTerminates`, but what it rests on is proved: `LockIsReleased`
  (`LockHolderRuns`: whoever holds `scanMu` is in a scan and not asleep) and
  `ScansAreBounded` (`ScanIsBounded`: a scan begins with at most `6 * Cap + 6`
  units of work, each of its steps uses some up, and no other goroutine adds
  any). With them `ScanTerminates` needs only that a goroutine which can run
  runs. `OneCloserIsSafe` (`ClosedOnce` where there is one closer) shows that
  the finding at `front.go:267` needs two concurrent calls: one goroutine may
  call Close again and again.
* `PauseGateProofs`. `GateCorrect` (`GateInv`), `ResumeNeverPanics`,
  `WaitPassesOnlyWhenRunning`. `NoLostWakeup` is the strengthening: every
  channel but the current one is closed. `GateIsSwitch` (`ImplementsGate`)
  proves the refinement: only the look at the gate and the test of the context
  end a wait, and both read what the switch is at that instant.
* `CrawlerProofs`. `CrawlerTypeCorrect`, `VetsEndWithCrawler`. Vets are in flight
  only while the crawl launches them or joins (`VetsBelongToCrawl`); the bound
  on the queue needs that it is finite (`QueueInv`). `VetsAreDistinct`
  (`OneVetPerFront`) follows the front from `todo` to the one that waits for a
  slot to the slot (`SlotInv`), and needs `VetsBelongToCrawl` where a crawl
  begins. `OvershootIsBounded` (`SupplyIsBounded`) counts the ready fronts, the
  vets, the candidate that waits and the fronts in use together (`SupplyInv`):
  only the choice of a candidate adds to their sum, and it is made when fewer
  than `ReadyEnough` are ready.
* `ConnectRaceProofs`. `RaceInvariant`, `EveryResultIsAwaited`,
  `NoRaceConnectionLeaks`, `FrontReturnedOnce`, `CancelledDialIsForgiven`,
  `NoRaceFrontIsLost`, `RaceUsesRotation`. A lane's step is a move, or it sends its one result
  (`LaneStepKinds`). The count of results awaited, that a lane has at most one
  result in the channel (`ResultInv`) and that caller and releasing goroutine
  never wait both (`WaiterInv`) give an owner to every open connection
  (`OwnerInv`). For the fronts, `LaneFrontInv` says that a front a lane falls
  back on was not ready when the race began: only the lane itself could have
  taken it, and it would remember. `RaceUsesRotation` (`UsesRotation`) is the
  client's half of the pool's contract: `PoolIsRotation` has the pool keep it,
  this has the lanes, the caller, the releasing goroutine and the winner's
  users keep it. `UseInv` ties `used` and the user's place to the connection,
  so that who returns the front is known to answer for it.
* `ProviderConfigProofs`. `LookupAsWritten`, `SNIIsConfigured`,
  `CertificateNameIsChecked`, `DecoyIsNotVerified`: facts about operators, with
  no behaviour.
* `RoundTripProofs`. `RoundTripTypeCorrect`, `RoundTripInvariant`,
  `NoConnectionLeaks`,
  `RejectionIsEscaped`, `BlameIsDeserved`, `WorkingFrontsStay` and, from
  `LookupAsWritten`, `HostsSentAsWritten`. The invariant says at which labels a
  call has a front (`HandInv`) and a connection (`ConnInv`), and that the
  providers it remembers are those that rejected it (`TriedInv`).
  `RejectionIsEscaped` (`EscapesProvider`) claims what a scan of `MaxScan` fronts
  over a count sampled once can give, and no more: a front of another provider
  that is among the first `MaxScan` ready ones when the scan begins stays within
  its reach until the call goes on with a front of another provider, another
  call takes it, or an update drains it. One that lies deeper in the queue, or
  comes while the scan runs, may be missed. The proof follows `Fresh(c, left[c])`
  through what is appended (`AppendKeepsFresh`) and pulled (`PullKeepsFresh`) and
  needs that one call at a time scans (`ScanInv`).
* `ConfigRefreshProofs`. `RefreshTypeCorrect`, `ValidatorsAlwaysBelong`,
  `UnchangedIsUnchanged`, `ChangeIsNotMissed`, `RestartFindsTheSame`. The
  invariant counts every source as asked, queued or received (`CountInv`), lets
  no answer claim more than its source said (`AnswerInv`), finds a change that
  arrived in the queue or in the collector's hands (`ChangeInv`), and says at
  which labels each file may differ from the memory (`DiskInv`).
* `CacheSaverProofs`. `SaverTypeCorrect`, `NoMarkIsLost`, `CloseSaves`. The
  heart is `Sorted`: between the two looks of a save, a front that was marked
  since the first succeeded later than anything sorted by, or has a
  notification pending. `SaverUsesGate` shows that the saver is an instance of
  the gate (`SaverSpec => Spec`), so that the gate's theorems hold of it
  (`SaverGateCorrect`, `SaverPassesOnlyWhenRunning`, `SaverGateIsSwitch`).

Model-checked only: all liveness, since TLAPS does not reason about ENABLED,
and so not about fairness. Not provable here either is induction over data;
the model needs none, its sequences being channels and labels. No module
declares a RECURSIVE operator.

## 5. Where code and documentation disagree

With a run:

1. `front.go:267` - two concurrent `Close` calls close the channel twice
   (`pool_double_close`).
2. `domainfront.go:353` - fronts of a removed provider that round trips held during
   an update are put back, and two of them keep the crawler from vetting the
   new ones for as long as round trips keep putting them back
   (`crawler_replace`). A vet in its test POST does the same: it asks for the
   provider before the POST (`domainfront.go:424`) and queues the front after it
   (`domainfront.go:402-404`), and such a front counts as
   ready until a round trip takes it.
3. `domainfront.go:407` - Close cancels vets, whose fronts count as failed and
   are missing from the final save (`crawler_close`).
4. `domainfront.go:429` - the test POST of a vet watches no context and no
   deadline: a front that stays silent holds its vet, the crawl and Close
   (`crawler_hang`).
5. `roundtrip.go:93` - a dial that fails because the caller gave up fails its
   front; the race forgives the same (`roundtrip_cancelled`).

Seen in the models, without a run of their own:

6. `front.go:240` - a front failed by one user stays queued if a vet queued it;
   front.go:234-235 has it leave the rotation until it is vetted again.
7. `front.go:104` - a success recorded while Replace copies may be lost, which
   front.go:91-92 says is kept.
8. `connected.go:105` - a Close after the look at the pool does not stop a dial;
   connected_race_test.go:351 expects a closed client to open no connection.
9. `connected.go:299` - an upgrade over HTTP/2 fails its front;
   roundtrip.go:19-23 calls the front the wrong one for this request only, and
   `RoundTrip` (`OnlyFailuresCount`) keeps it.
10. `domainfront.go:328` - whether a dial was made while paused is asked after
    it failed, so a Resume in between fails the front; compare pause.go:88-90.
    No document says which answer is right, so no property judges it.

## 6. Not modelled

* `CertPool`, and the decoding of gzip, YAML and PEM: library calls without
  state. What comes out of them is a payload that parses, does not parse or
  does not apply.
* TCP, uTLS and X.509 verification: a dial is a step that succeeds or fails.
  `classifyError` has no caller that acts on its verdict.
* `rewriteRequest` and `stripConnHeaders`: copies of headers.
* A New that fails, which leaves nothing behind but an error, and the
  publication of the certificates between providers and fronts: a dial that
  meets those of the other configuration is a dial that fails.
* A sidecar that cannot be parsed while its payload is whole: the code discards
  it as it does one with another digest, which is modelled.

## 7. Plan

What is left, in this order:

1. The client's half of `Rotation` for `RoundTrip` and `Crawler`, which take a
   vet and a Replace as one step each: a contract with coarser steps, each a
   sequence of fine ones.
2. What the other liveness properties rest on, as `ScanIsBounded` is for scans:
   the attempts a call of `RoundTrip` has left, the results a race waits for,
   the candidates a crawl has left.
3. One front set for `CacheSaver` and Replace: applyConfig copies times while
   a save looks at them.
4. Three attempts over three providers, and scans of two, once the
   liveness of `roundtrip` is split from its safety.
5. Certificates as a third publication of applyConfig, if a document ever
   promises that a dial meets the ones of its provider.
