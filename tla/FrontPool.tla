----------------------------- MODULE FrontPool -----------------------------
(***************************************************************************)
(* The front pool of front.go: a buffered channel of ready fronts, a       *)
(* per-front atomic flag `queued`, a mutex around scans of the channel and *)
(* a mutex around the set of known fronts.  Every step below is one the    *)
(* scheduler may separate from the next: receiving from the channel and    *)
(* clearing the flag, the compare-and-swap and the send, the copy and the  *)
(* publication of a replaced set, the test and the close of `closed`.      *)
(***************************************************************************)
EXTENDS Naturals, Sequences, Functions

CONSTANTS
    Key,          \* identities of fronts: provider, domain and IP (frontKey)
    Provider,     \* provider IDs
    ProviderOf,   \* the provider of each key
    MaxEpoch,     \* bound: how many times Replace may install a new set
    User,         \* goroutines that take, borrow and return fronts
    Updater,      \* the goroutine that calls Replace
    Closer,       \* goroutines that call Close
    None,         \* no front, no process
    Cap,          \* capacity of the ready channel (readySize)
    MaxScan       \* maxProviderScan

(***************************************************************************)
(* A front is a Go object: Replace installs new objects, which may have    *)
(* the keys of old ones, while goroutines still hold the old objects.      *)
(***************************************************************************)
Front == [key : Key, epoch : 0 .. MaxEpoch]

Proc == User \cup {Updater} \cup Closer

ASSUME ProviderAssumption == ProviderOf \in [Key -> Provider]
ASSUME BoundAssumption ==
    /\ MaxEpoch \in Nat
    /\ Cap \in Nat \ {0}
    /\ MaxScan \in Nat \ {0}
ASSUME ProcAssumption ==
    /\ Updater \notin User
    /\ User \cap Closer = {}
    /\ Updater \notin Closer
    /\ None \notin Proc
    /\ None \notin Front

VARIABLES
    ready,     \* the channel: fronts waiting to be taken
    queued,    \* front.queued
    succ,      \* whether front.LastSucceeded is set
    fronts,    \* p.fronts
    fresh,     \* the set a Replace in progress is about to publish
    epoch,     \* how many sets have been created
    closed,    \* whether p.closed is closed
    panicked,  \* a channel was closed twice
    scanMu,    \* who holds p.scanMu
    pc,        \* where each process is
    cur,       \* the front a process has in hand
    sel,       \* the front a scan has selected so far
    put,       \* fronts a process has yet to give to addReady
    want,      \* the providers a take prefers or insists on
    left       \* receives a scan may still make

poolVars == <<fronts, fresh, epoch>>
closeVars == <<closed, panicked>>
takeVars == <<sel, want>>
vars == <<ready, queued, succ, fronts, fresh, epoch, closed, panicked,
          scanMu, pc, cur, sel, put, want, left>>

FrontsOfEpoch(e) == {f \in Front : f.epoch = e}
InQueue(f) == f \in Range(ready)

(***************************************************************************)
(* A process has the token of a front while the flag of the front is set   *)
(* on its account: it received the front and has not yet cleared the flag, *)
(* or it set the flag and has not yet sent the front.                      *)
(***************************************************************************)
TokenPC == {"unqueue", "scanUnqueue", "send", "drop", "drainUnqueue"}
Owns(p) == pc[p] \in TokenPC

PC == TokenPC \cup {"idle", "recv", "lock", "scan", "putBack", "hold", "vet",
                    "swap", "drain", "closing"}

Wanted(u, f) == ProviderOf[f.key] \in want[u]

\* New builds the pool, installs the seed configuration with a first Replace
\* and loads the cache before any goroutine runs.
Init ==
    /\ ready = <<>>
    /\ queued = [f \in Front |-> FALSE]
    /\ \E keys \in SUBSET Key :
          fronts = {f \in FrontsOfEpoch(0) : f.key \in keys}
    /\ \E cached \in SUBSET fronts : succ = [f \in Front |-> f \in cached]
    /\ fresh = {}
    /\ epoch = 0
    /\ closed = FALSE
    /\ panicked = FALSE
    /\ scanMu = None
    /\ pc = [p \in Proc |-> "idle"]
    /\ cur = [p \in Proc |-> None]
    /\ sel = [u \in User |-> None]
    /\ put = [u \in User |-> <<>>]
    /\ want = [u \in User |-> {}]
    /\ left = [u \in User |-> 0]
-----------------------------------------------------------------------------
(***************************************************************************)
(* Take, TakePreferringUntried and tryTakeFrom                             *)
(***************************************************************************)

\* TakePreferringUntried(ctx, tried), where W is the complement of tried.
\* Take(ctx) is the case W = Provider.
CallTake(u, W) ==
    /\ pc[u] = "idle"
    /\ pc' = [pc EXCEPT ![u] = "recv"]
    /\ want' = [want EXCEPT ![u] = W]
    /\ UNCHANGED <<ready, queued, succ, poolVars, closeVars, scanMu, cur, sel,
                   put, left>>

\* tryTakeFrom(match) for the fronts of one provider.
CallTryTakeFrom(u, pid) ==
    /\ pc[u] = "idle"
    /\ pc' = [pc EXCEPT ![u] = "lock"]
    /\ want' = [want EXCEPT ![u] = {pid}]
    /\ UNCHANGED <<ready, queued, succ, poolVars, closeVars, scanMu, cur, sel,
                   put, left>>

\* case f := <-p.ready
Receive(u) ==
    /\ pc[u] = "recv"
    /\ ready # <<>>
    /\ pc' = [pc EXCEPT ![u] = "unqueue"]
    /\ cur' = [cur EXCEPT ![u] = Head(ready)]
    /\ ready' = Tail(ready)
    /\ UNCHANGED <<queued, succ, poolVars, closeVars, scanMu, takeVars, put, left>>

GiveUp(u) ==
    /\ pc[u] = "recv"
    /\ pc' = [pc EXCEPT ![u] = "idle"]
    /\ want' = [want EXCEPT ![u] = {}]
    /\ UNCHANGED <<ready, queued, succ, poolVars, closeVars, scanMu, cur, sel,
                   put, left>>

\* case <-ctx.Done(): the caller's context may end at any time.
TakeCancelled(u) == GiveUp(u)

\* Fault: Take does not watch p.closed.
TakeClosedIgnored(u) == FALSE

\* case <-p.closed
TakeClosed(u) == closed /\ GiveUp(u)

\* f.queued.Store(false), then the test of tried: the front of an untried
\* provider is returned at once, any other is the fallback of a scan.
Unqueue(u) ==
    /\ pc[u] = "unqueue"
    /\ queued' = [queued EXCEPT ![cur[u]] = FALSE]
    /\ IF Wanted(u, cur[u])
         THEN /\ pc' = [pc EXCEPT ![u] = "hold"]
              /\ want' = [want EXCEPT ![u] = {}]
              /\ UNCHANGED <<cur, sel>>
         ELSE /\ pc' = [pc EXCEPT ![u] = "lock"]
              /\ sel' = [sel EXCEPT ![u] = cur[u]]
              /\ cur' = [cur EXCEPT ![u] = None]
              /\ UNCHANGED want
    /\ UNCHANGED <<ready, succ, poolVars, closeVars, scanMu, put, left>>

\* Fault: the first front is not among the skipped ones.
LockScanForgetsFirst(u) ==
    /\ pc[u] = "lock"
    /\ scanMu = None
    /\ scanMu' = u
    /\ pc' = [pc EXCEPT ![u] = "scan"]
    /\ left' = [left EXCEPT ![u] = IF sel[u] # None /\ Len(ready) > MaxScan
                                     THEN MaxScan ELSE Len(ready)]
    /\ UNCHANGED <<ready, queued, succ, poolVars, closeVars, cur, takeVars, put>>

\* A take that already has a fallback scans at most MaxScan fronts, one
\* that has none scans what readyCount returns.
LockScan(u) ==
    /\ pc[u] = "lock"
    /\ scanMu = None
    /\ scanMu' = u
    /\ pc' = [pc EXCEPT ![u] = "scan"]
    /\ put' = [put EXCEPT ![u] = IF sel[u] = None THEN <<>> ELSE <<sel[u]>>]
    /\ left' = [left EXCEPT ![u] = IF sel[u] # None /\ Len(ready) > MaxScan
                                     THEN MaxScan ELSE Len(ready)]
    /\ UNCHANGED <<ready, queued, succ, poolVars, closeVars, cur, takeVars>>

\* Fault: the scan takes what is ready without counting it.
ScanReceiveUncounted(u) ==
    /\ pc[u] = "scan"
    /\ left[u] > 0
    /\ ready # <<>>
    /\ pc' = [pc EXCEPT ![u] = "scanUnqueue"]
    /\ cur' = [cur EXCEPT ![u] = Head(ready)]
    /\ ready' = Tail(ready)
    /\ UNCHANGED <<queued, succ, poolVars, closeVars, scanMu, takeVars, put, left>>

\* tryTakeReady, the receive
ScanReceive(u) ==
    /\ pc[u] = "scan"
    /\ left[u] > 0
    /\ ready # <<>>
    /\ pc' = [pc EXCEPT ![u] = "scanUnqueue"]
    /\ cur' = [cur EXCEPT ![u] = Head(ready)]
    /\ ready' = Tail(ready)
    /\ left' = [left EXCEPT ![u] = @ - 1]
    /\ UNCHANGED <<queued, succ, poolVars, closeVars, scanMu, takeVars, put>>

\* tryTakeReady, the store, then the test: select the front or skip it.
ScanUnqueue(u) ==
    /\ pc[u] = "scanUnqueue"
    /\ queued' = [queued EXCEPT ![cur[u]] = FALSE]
    /\ IF Wanted(u, cur[u])
         THEN /\ pc' = [pc EXCEPT ![u] = "putBack"]
              /\ sel' = [sel EXCEPT ![u] = cur[u]]
              /\ UNCHANGED put
         ELSE /\ pc' = [pc EXCEPT ![u] = "scan"]
              /\ put' = [put EXCEPT ![u] = Append(@, cur[u])]
              /\ UNCHANGED sel
    /\ cur' = [cur EXCEPT ![u] = None]
    /\ UNCHANGED <<ready, succ, poolVars, closeVars, scanMu, want, left>>

\* Fault: the scan waits, spinning, for as many fronts as it counted.
ScanEndSpins(u) ==
    /\ pc[u] = "scan"
    /\ left[u] = 0 \/ ready = <<>>
    /\ pc' = [pc EXCEPT ![u] = IF left[u] = 0 THEN "putBack" ELSE "scan"]
    /\ UNCHANGED <<ready, queued, succ, poolVars, closeVars, scanMu, cur,
                   takeVars, put, left>>

\* The scan's budget is spent, or nothing more is ready right now.
ScanEnd(u) ==
    /\ pc[u] = "scan"
    /\ left[u] = 0 \/ ready = <<>>
    /\ pc' = [pc EXCEPT ![u] = "putBack"]
    /\ UNCHANGED <<ready, queued, succ, poolVars, closeVars, scanMu, cur,
                   takeVars, put, left>>
-----------------------------------------------------------------------------
(***************************************************************************)
(* addReady, for the fronts of put in turn                                 *)
(***************************************************************************)

\* The loop that puts skipped fronts back passes over the selected one.
PutSkip(u) ==
    /\ pc[u] = "putBack"
    /\ put[u] # <<>>
    /\ Head(put[u]) = sel[u]
    /\ put' = [put EXCEPT ![u] = Tail(@)]
    /\ UNCHANGED <<ready, queued, succ, poolVars, closeVars, scanMu, pc, cur,
                   takeVars, left>>

\* Fault: the flag is stored without being compared.
ClaimUnconditional(u) ==
    /\ pc[u] = "putBack"
    /\ put[u] # <<>>
    /\ Head(put[u]) # sel[u]
    /\ queued' = [queued EXCEPT ![Head(put[u])] = TRUE]
    /\ cur' = [cur EXCEPT ![u] = Head(put[u])]
    /\ put' = [put EXCEPT ![u] = Tail(@)]
    /\ pc' = [pc EXCEPT ![u] = "send"]
    /\ UNCHANGED <<ready, succ, poolVars, closeVars, scanMu, takeVars, left>>

\* f.queued.CompareAndSwap(false, true) succeeds
Claim(u) ==
    /\ pc[u] = "putBack"
    /\ put[u] # <<>>
    /\ Head(put[u]) # sel[u]
    /\ ~queued[Head(put[u])]
    /\ queued' = [queued EXCEPT ![Head(put[u])] = TRUE]
    /\ cur' = [cur EXCEPT ![u] = Head(put[u])]
    /\ put' = [put EXCEPT ![u] = Tail(@)]
    /\ pc' = [pc EXCEPT ![u] = "send"]
    /\ UNCHANGED <<ready, succ, poolVars, closeVars, scanMu, takeVars, left>>

\* The compare-and-swap fails: the front is already queued.
ClaimFails(u) ==
    /\ pc[u] = "putBack"
    /\ put[u] # <<>>
    /\ Head(put[u]) # sel[u]
    /\ queued[Head(put[u])]
    /\ put' = [put EXCEPT ![u] = Tail(@)]
    /\ UNCHANGED <<ready, queued, succ, poolVars, closeVars, scanMu, pc, cur,
                   takeVars, left>>

\* case p.ready <- f
Send(u) ==
    /\ pc[u] = "send"
    /\ Len(ready) < Cap
    /\ ready' = Append(ready, cur[u])
    /\ pc' = [pc EXCEPT ![u] = "putBack"]
    /\ cur' = [cur EXCEPT ![u] = None]
    /\ UNCHANGED <<queued, succ, poolVars, closeVars, scanMu, takeVars, put, left>>

\* default: the channel is full, the front is dropped ...
Full(u) ==
    /\ pc[u] = "send"
    /\ Len(ready) >= Cap
    /\ pc' = [pc EXCEPT ![u] = "drop"]
    /\ UNCHANGED <<ready, queued, succ, poolVars, closeVars, scanMu, cur,
                   takeVars, put, left>>

\* ... and f.queued.Store(false) follows.
Drop(u) ==
    /\ pc[u] = "drop"
    /\ queued' = [queued EXCEPT ![cur[u]] = FALSE]
    /\ pc' = [pc EXCEPT ![u] = "putBack"]
    /\ cur' = [cur EXCEPT ![u] = None]
    /\ UNCHANGED <<ready, succ, poolVars, closeVars, scanMu, takeVars, put, left>>

\* Everything is put back: a scan unlocks scanMu and returns what it selected.
Done(u) ==
    /\ pc[u] = "putBack"
    /\ put[u] = <<>>
    /\ scanMu' = IF scanMu = u THEN None ELSE scanMu
    /\ pc' = [pc EXCEPT ![u] = IF sel[u] = None THEN "idle" ELSE "hold"]
    /\ cur' = [cur EXCEPT ![u] = sel[u]]
    /\ sel' = [sel EXCEPT ![u] = None]
    /\ want' = [want EXCEPT ![u] = {}]
    /\ left' = [left EXCEPT ![u] = 0]
    /\ UNCHANGED <<ready, queued, succ, poolVars, closeVars, put>>
-----------------------------------------------------------------------------
(***************************************************************************)
(* What the holder of a front does with it                                 *)
(***************************************************************************)

\* The holder's call of addReady(cur[u]), whatever it did to succ before.
GiveBack(u) ==
    /\ pc' = [pc EXCEPT ![u] = "putBack"]
    /\ put' = [put EXCEPT ![u] = <<cur[u]>>]
    /\ cur' = [cur EXCEPT ![u] = None]
    /\ UNCHANGED <<ready, queued, poolVars, closeVars, scanMu, takeVars, left>>

\* The holder keeps no reference to the front and does not requeue it.
LetGo(u) ==
    /\ pc' = [pc EXCEPT ![u] = "idle"]
    /\ cur' = [cur EXCEPT ![u] = None]
    /\ UNCHANGED <<ready, queued, poolVars, closeVars, scanMu, takeVars, put, left>>

\* Return(f, true)
ReturnRequeue(u) == pc[u] = "hold" /\ GiveBack(u) /\ UNCHANGED succ

\* Return(f, false)
ReturnFailed(u) ==
    /\ pc[u] = "hold"
    /\ succ' = [succ EXCEPT ![cur[u]] = FALSE]
    /\ LetGo(u)

\* ReturnSuccess(f)
ReturnSuccess(u) ==
    /\ pc[u] = "hold"
    /\ succ' = [succ EXCEPT ![cur[u]] = TRUE]
    /\ GiveBack(u)

\* Fault: candidates does not wait for p.mu.
BorrowWithoutLock(u, f) ==
    /\ pc[u] = "idle"
    /\ f \in fronts
    /\ pc' = [pc EXCEPT ![u] = "vet"]
    /\ cur' = [cur EXCEPT ![u] = f]
    /\ UNCHANGED <<ready, queued, succ, poolVars, closeVars, scanMu, takeVars,
                   put, left>>

\* A goroutine copies the known fronts (candidates, which waits for p.mu)
\* and goes on to dial one of them: the crawler, or a connectVia lane that
\* found no ready front.
Borrow(u, f) ==
    /\ pc[u] = "idle"
    /\ pc[Updater] = "idle"
    /\ f \in fronts
    /\ pc' = [pc EXCEPT ![u] = "vet"]
    /\ cur' = [cur EXCEPT ![u] = f]
    /\ UNCHANGED <<ready, queued, succ, poolVars, closeVars, scanMu, takeVars,
                   put, left>>

\* The crawler's vet passed: markSucceeded, then addReady.
VetPassed(u) ==
    /\ pc[u] = "vet"
    /\ succ' = [succ EXCEPT ![cur[u]] = TRUE]
    /\ GiveBack(u)

\* The vet or the dial failed: markFailed.
VetFailed(u) ==
    /\ pc[u] = "vet"
    /\ succ' = [succ EXCEPT ![cur[u]] = FALSE]
    /\ LetGo(u)

\* Paused, cancelled or out of candidates: the front is left as it was.
VetAbandoned(u) == pc[u] = "vet" /\ LetGo(u) /\ UNCHANGED succ

\* dialUnvetted marks the front before it dials it again for the caller, who
\* holds the front from then on if that second dial connects.
VetThenDial(u) ==
    /\ pc[u] = "vet"
    /\ succ' = [succ EXCEPT ![cur[u]] = TRUE]
    /\ \E next \in {"vet", "hold"} : pc' = [pc EXCEPT ![u] = next]
    /\ UNCHANGED <<ready, queued, poolVars, closeVars, scanMu, cur, takeVars,
                   put, left>>
-----------------------------------------------------------------------------
(***************************************************************************)
(* Replace.  Its caller holds p.mu from ReplaceCopy to ReplaceDone.        *)
(***************************************************************************)

\* A new front whose key an old front has takes over that front's state.
ReplaceCopy(keys) ==
    /\ pc[Updater] = "idle"
    /\ epoch < MaxEpoch
    /\ epoch' = epoch + 1
    /\ fresh' = {f \in FrontsOfEpoch(epoch + 1) : f.key \in keys}
    /\ succ' = [f \in Front |->
                  IF f \in fresh'
                    THEN \E old \in fronts : old.key = f.key /\ succ[old]
                    ELSE succ[f]]
    /\ pc' = [pc EXCEPT ![Updater] = "swap"]
    /\ UNCHANGED <<ready, queued, fronts, closeVars, scanMu, cur, takeVars, put,
                   left>>

ReplaceSwap ==
    /\ pc[Updater] = "swap"
    /\ fronts' = fresh
    /\ fresh' = {}
    /\ pc' = [pc EXCEPT ![Updater] = "drain"]
    /\ UNCHANGED <<ready, queued, succ, epoch, closeVars, scanMu, cur, takeVars,
                   put, left>>

DrainReceive ==
    /\ pc[Updater] = "drain"
    /\ ready # <<>>
    /\ pc' = [pc EXCEPT ![Updater] = "drainUnqueue"]
    /\ cur' = [cur EXCEPT ![Updater] = Head(ready)]
    /\ ready' = Tail(ready)
    /\ UNCHANGED <<queued, succ, poolVars, closeVars, scanMu, takeVars, put, left>>

\* Fault: the drain leaves the flag of what it receives.
DrainKeepsFlag ==
    /\ pc[Updater] = "drainUnqueue"
    /\ pc' = [pc EXCEPT ![Updater] = "drain"]
    /\ cur' = [cur EXCEPT ![Updater] = None]
    /\ UNCHANGED <<ready, queued, succ, poolVars, closeVars, scanMu, takeVars, put, left>>

DrainUnqueue ==
    /\ pc[Updater] = "drainUnqueue"
    /\ queued' = [queued EXCEPT ![cur[Updater]] = FALSE]
    /\ pc' = [pc EXCEPT ![Updater] = "drain"]
    /\ cur' = [cur EXCEPT ![Updater] = None]
    /\ UNCHANGED <<ready, succ, poolVars, closeVars, scanMu, takeVars, put, left>>

ReplaceDone ==
    /\ pc[Updater] = "drain"
    /\ ready = <<>>
    /\ pc' = [pc EXCEPT ![Updater] = "idle"]
    /\ UNCHANGED <<ready, queued, succ, poolVars, closeVars, scanMu, cur,
                   takeVars, put, left>>
-----------------------------------------------------------------------------
(***************************************************************************)
(* Close: a test, then the close of the channel                            *)
(***************************************************************************)

CloseCheck(c) ==
    /\ pc[c] = "idle"
    /\ ~closed
    /\ pc' = [pc EXCEPT ![c] = "closing"]
    /\ UNCHANGED <<ready, queued, succ, poolVars, closeVars, scanMu, cur,
                   takeVars, put, left>>

\* Closing a closed channel panics.
CloseDo(c) ==
    /\ pc[c] = "closing"
    /\ panicked' = (panicked \/ closed)
    /\ closed' = TRUE
    /\ pc' = [pc EXCEPT ![c] = "idle"]
    /\ UNCHANGED <<ready, queued, succ, poolVars, scanMu, cur, takeVars, put, left>>
-----------------------------------------------------------------------------
TakeStep(u) ==
    \/ Receive(u) \/ TakeClosed(u) \/ Unqueue(u)
    \/ ScanReceive(u) \/ ScanUnqueue(u) \/ ScanEnd(u)

AddReadyStep(u) ==
    PutSkip(u) \/ Claim(u) \/ ClaimFails(u) \/ Send(u) \/ Full(u) \/ Drop(u) \/ Done(u)

HoldStep(u) ==
    \/ ReturnRequeue(u) \/ ReturnFailed(u) \/ ReturnSuccess(u)
    \/ VetPassed(u) \/ VetFailed(u) \/ VetAbandoned(u) \/ VetThenDial(u)

CallStep(u) ==
    \/ \E W \in SUBSET Provider : CallTake(u, W)
    \/ \E pid \in Provider : CallTryTakeFrom(u, pid)
    \/ \E f \in Front : Borrow(u, f)

UserStep(u) ==
    \/ CallStep(u) \/ TakeCancelled(u) \/ TakeStep(u) \/ LockScan(u)
    \/ AddReadyStep(u) \/ HoldStep(u)

ReplaceStep == ReplaceSwap \/ DrainReceive \/ DrainUnqueue \/ ReplaceDone

UpdaterStep == (\E keys \in SUBSET Key : ReplaceCopy(keys)) \/ ReplaceStep

CloserStep(c) == CloseCheck(c) \/ CloseDo(c)

\* A panic ends the program.
Next ==
    /\ ~panicked
    /\ \/ \E u \in User : UserStep(u)
       \/ UpdaterStep
       \/ \E c \in Closer : CloserStep(c)

Spec == Init /\ [][Next]_vars

(***************************************************************************)
(* The Go scheduler runs every goroutine that can run, and sync.Mutex      *)
(* hands itself to a waiter that has starved for a millisecond: hence weak *)
(* fairness of every step a goroutine takes on its own and strong fairness *)
(* of taking scanMu.  A caller's context need not end, a caller need not   *)
(* give a front back, and nobody is obliged to call Take or Replace.       *)
(***************************************************************************)
Fairness ==
    /\ \A u \in User :
          /\ WF_vars(~panicked /\ (TakeStep(u) \/ AddReadyStep(u)))
          /\ SF_vars(~panicked /\ LockScan(u))
    /\ WF_vars(~panicked /\ ReplaceStep)
    /\ \A c \in Closer : WF_vars(~panicked /\ CloseDo(c))

FairSpec == Spec /\ Fairness
-----------------------------------------------------------------------------
\* Type invariant; the bound on Len(ready) is the capacity of the channel
\* that newFrontPool makes.
TypeOK ==
    /\ ready \in Seq(Front) /\ Len(ready) <= Cap
    /\ queued \in [Front -> BOOLEAN]
    /\ succ \in [Front -> BOOLEAN]
    /\ fronts \subseteq Front /\ fresh \subseteq Front
    /\ epoch \in 0 .. MaxEpoch
    /\ closed \in BOOLEAN /\ panicked \in BOOLEAN
    /\ scanMu \in User \cup {None}
    /\ pc \in [Proc -> PC]
    /\ cur \in [Proc -> Front \cup {None}]
    /\ sel \in [User -> Front \cup {None}]
    /\ put \in [User -> Seq(Front)]
    /\ want \in [User -> SUBSET Provider]
    /\ left \in [User -> Nat]

\* A front is in the ready queue at most once, however many goroutines
\* return it (front.go:19-20, addReady).
QueuedOnce == IsInjective(ready)

\* Every queued front carries the flag.
ReadyIsFlagged == \A f \in Range(ready) : queued[f]

\* A goroutine that has the token of a front is the only one that has it,
\* and the front is out of the channel while it does: addReady's
\* compare-and-swap and the stores that follow the receives never collide.
TokenIsExclusive ==
    \A p \in Proc : Owns(p) =>
        /\ queued[cur[p]]
        /\ ~InQueue(cur[p])
        /\ \A q \in Proc : Owns(q) /\ cur[q] = cur[p] => q = p

\* A flag is never left set on a front that is neither in the queue nor on
\* its way in or out: addReady would ignore that front for ever.
NoStuckFlag ==
    \A f \in Front : queued[f] =>
        \/ InQueue(f)
        \/ \E p \in Proc : Owns(p) /\ cur[p] = f

\* A goroutine that is about to act on a front has one.
HandNotEmpty ==
    \A p \in Proc : pc[p] \in TokenPC \cup {"hold", "vet"} => cur[p] \in Front

\* The inductive invariant of the queue protocol.
QueueInv == /\ TypeOK
            /\ HandNotEmpty
            /\ QueuedOnce
            /\ ReadyIsFlagged
            /\ TokenIsExclusive
            /\ NoStuckFlag

\* A front is in rotation when it is queued, or a user that took it, or that
\* is putting it back, still accounts for it.
InRotation(f) ==
    \/ InQueue(f)
    \/ \E u \in User : \/ cur[u] = f /\ pc[u] # "vet"
                       \/ sel[u] = f
                       \/ f \in Range(put[u])

FailedBy(u, f) == pc[u] = "hold" /\ cur[u] = f /\ pc'[u] = "idle" /\ ~succ'[f]
DroppedBy(u, f) == pc[u] = "drop" /\ cur[u] = f
Drained(f) ==
    \/ pc[Updater] = "drain" /\ pc'[Updater] = "drainUnqueue" /\ Head(ready) = f
    \/ pc[Updater] = "drainUnqueue" /\ cur[Updater] = f

\* No interleaving of takes, scans and returns loses a front: it leaves the
\* rotation only when its holder fails it, the channel is full, or Replace
\* drains it, or has it in hand (front.go:109-117, 156-194, 232-249).
NeverLost ==
    [][\A f \in Front : InRotation(f) /\ ~InRotation(f)' =>
          \/ \E u \in User : FailedBy(u, f) \/ DroppedBy(u, f)
          \/ Drained(f)]_vars

\* Where a goroutine scans or puts fronts back.
ScanPC == {"scan", "scanUnqueue", "putBack", "send", "drop"}

\* How many more steps the scan or addReady of a goroutine may take: six for
\* a front it may still receive, four for one it must still put back.
StepsAt == [scan |-> 2, scanUnqueue |-> 7, putBack |-> 1, send |-> 4, drop |-> 3]
Work(u) == IF pc[u] \in ScanPC
             THEN 6 * left[u] + 4 * Len(put[u]) + StepsAt[pc[u]] ELSE 0

\* A scan starts with a bounded number of steps to make, each one it makes
\* brings it nearer to the release of scanMu, and no other goroutine, sending
\* or receiving in between, adds to them (front.go:172-193, 200-217).
ScanIsBounded ==
    [][\A u \in User :
          /\ pc[u] = "lock" => Work(u)' <= 6 * Cap + 6
          /\ pc[u] \in ScanPC =>
                Work(u)' < Work(u) \/ UNCHANGED <<pc[u], put[u], left[u]>>]_vars

\* A scan holds scanMu and the fronts it skipped; it always ends, whatever
\* the other goroutines do with the queue (front.go:172-193, 200-217).
ScanTerminates == \A u \in User : pc[u] = "lock" ~> pc[u] \in {"hold", "idle"}

\* Close unblocks every pending Take (front.go:261).
TakeUnblocksOnClose ==
    \A u \in User : closed /\ pc[u] = "recv" ~> pc[u] # "recv"

\* Replace's drain loop ends although goroutines keep returning fronts to
\* the channel it empties (front.go:109-117).
ReplaceTerminates == pc[Updater] = "swap" ~> pc[Updater] = "idle"

\* p.closed is closed at most once (front.go:261-269).
ClosedOnce == ~panicked
=============================================================================
