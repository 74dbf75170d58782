-------------------------- MODULE FrontPoolProofs --------------------------
(***************************************************************************)
(* Theorems about FrontPool, for every set of keys, providers and          *)
(* goroutines, every capacity of the channel and every number of Replaces. *)
(***************************************************************************)
EXTENDS FrontPoolRefinement, TLAPS, SequenceTheorems

TypeInv == TypeOK /\ HandNotEmpty

USE DEF poolVars, closeVars, takeVars

-----------------------------------------------------------------------------
(***************************************************************************)
(* Sequences                                                               *)
(***************************************************************************)

\* What receiving from the channel leaves of it.
LEMMA TailOfQueue ==
    ASSUME NEW S, NEW s \in Seq(S), s # <<>>, IsInjective(s)
    PROVE  /\ Head(s) \in S
           /\ Tail(s) \in Seq(S)
           /\ Len(Tail(s)) = Len(s) - 1
           /\ IsInjective(Tail(s))
           /\ Range(s) = Range(Tail(s)) \cup {Head(s)}
           /\ Head(s) \notin Range(Tail(s))
<1>1. /\ Len(s) \in Nat \ {0}
      /\ DOMAIN s = 1 .. Len(s)
      /\ Head(s) = s[1]
      /\ Tail(s) \in Seq(S)
      /\ Len(Tail(s)) = Len(s) - 1
      /\ DOMAIN Tail(s) = 1 .. Len(s) - 1
      /\ \A i \in 1 .. Len(s) - 1 : Tail(s)[i] = s[i + 1]
      /\ \A i \in 1 .. Len(s) : s[i] \in S
  OBVIOUS
<1>2. IsInjective(Tail(s))
  BY <1>1 DEF IsInjective
<1>3. Range(s) = Range(Tail(s)) \cup {Head(s)}
  <2>1. ASSUME NEW x \in Range(s)
        PROVE  x \in Range(Tail(s)) \cup {Head(s)}
    <3>1. PICK i \in 1 .. Len(s) : x = s[i]
      BY <2>1, <1>1 DEF Range
    <3>2. CASE i = 1
      BY <3>1, <3>2, <1>1
    <3>3. CASE i # 1
      <4>1. /\ i - 1 \in 1 .. Len(s) - 1
            /\ x = Tail(s)[i - 1]
        BY <3>1, <3>3, <1>1
      <4> QED BY <4>1, <1>1 DEF Range
    <3> QED BY <3>2, <3>3
  <2>2. Range(Tail(s)) \subseteq Range(s)
    BY <1>1 DEF Range
  <2>3. Head(s) \in Range(s)
    BY <1>1 DEF Range
  <2> QED BY <2>1, <2>2, <2>3
<1>4. Head(s) \notin Range(Tail(s))
  BY <1>1 DEF Range, IsInjective
<1> QED BY <1>1, <1>2, <1>3, <1>4

\* What sending to the channel makes of it.
LEMMA AppendToQueue ==
    ASSUME NEW S, NEW s \in Seq(S), NEW e \in S, IsInjective(s), e \notin Range(s)
    PROVE  /\ Append(s, e) \in Seq(S)
           /\ Len(Append(s, e)) = Len(s) + 1
           /\ IsInjective(Append(s, e))
           /\ Range(Append(s, e)) = Range(s) \cup {e}
<1>1. /\ Len(s) \in Nat
      /\ DOMAIN s = 1 .. Len(s)
      /\ Append(s, e) \in Seq(S)
      /\ Len(Append(s, e)) = Len(s) + 1
      /\ DOMAIN Append(s, e) = 1 .. Len(s) + 1
      /\ \A i \in 1 .. Len(s) : Append(s, e)[i] = s[i]
      /\ Append(s, e)[Len(s) + 1] = e
  OBVIOUS
<1>2. \A i \in 1 .. Len(s) : s[i] # e
  BY <1>1 DEF Range
<1>3. \A i \in 1 .. Len(s) + 1 : i \in 1 .. Len(s) \/ i = Len(s) + 1
  BY <1>1
<1>4. IsInjective(Append(s, e))
  BY <1>1, <1>2, <1>3 DEF IsInjective
<1>5. Range(Append(s, e)) = Range(s) \cup {e}
  <2>1. Range(Append(s, e)) \subseteq Range(s) \cup {e}
    BY <1>1, <1>3 DEF Range
  <2>2. Range(s) \subseteq Range(Append(s, e))
    BY <1>1 DEF Range
  <2>3. e \in Range(Append(s, e))
    BY <1>1 DEF Range
  <2> QED BY <2>1, <2>2, <2>3
<1> QED BY <1>1, <1>4, <1>5
-----------------------------------------------------------------------------
(***************************************************************************)
(* Type correctness                                                        *)
(***************************************************************************)

LEMMA TypeInit == Init => TypeInv
<1> SUFFICES ASSUME Init PROVE TypeInv
  OBVIOUS
<1>1. /\ ready \in Seq(Front) /\ Len(ready) <= Cap
      /\ put \in [User -> Seq(Front)]
  BY BoundAssumption DEF Init
<1>2. fronts \subseteq Front
  BY DEF Init, FrontsOfEpoch
<1>3. succ \in [Front -> BOOLEAN] /\ queued \in [Front -> BOOLEAN]
  BY DEF Init
<1>4. HandNotEmpty
  BY DEF Init, HandNotEmpty, TokenPC
<1>5. /\ pc \in [Proc -> PC]
      /\ cur \in [Proc -> Front \cup {None}]
  BY DEF Init, PC
<1>6. epoch \in 0 .. MaxEpoch /\ left \in [User -> Nat]
  BY BoundAssumption DEF Init
<1>7. /\ fresh \subseteq Front
      /\ closed \in BOOLEAN /\ panicked \in BOOLEAN
      /\ scanMu \in User \cup {None}
      /\ sel \in [User -> Front \cup {None}]
      /\ want \in [User -> SUBSET Provider]
  BY DEF Init
<1> QED BY <1>1, <1>2, <1>3, <1>4, <1>5, <1>6, <1>7 DEF TypeInv, TypeOK

LEMMA TypeNext == TypeInv /\ [Next]_vars => TypeInv'
<1> SUFFICES ASSUME TypeInv, [Next]_vars PROVE TypeInv'
  OBVIOUS
<1> USE ProcAssumption, BoundAssumption DEF TypeInv, TypeOK, HandNotEmpty, PC, TokenPC, Proc
<1>1. ASSUME NEW u \in User, NEW W \in SUBSET Provider, CallTake(u, W) PROVE TypeInv'
  BY <1>1 DEF CallTake
<1>2. ASSUME NEW u \in User, NEW pid \in Provider, CallTryTakeFrom(u, pid) PROVE TypeInv'
  BY <1>2 DEF CallTryTakeFrom
<1>3. ASSUME NEW u \in User, Receive(u) PROVE TypeInv'
  BY <1>3 DEF Receive
<1>4. ASSUME NEW u \in User, TakeCancelled(u) PROVE TypeInv'
  BY <1>4 DEF TakeCancelled, GiveUp
<1>5. ASSUME NEW u \in User, TakeClosed(u) PROVE TypeInv'
  BY <1>5 DEF TakeClosed, GiveUp
<1>6. ASSUME NEW u \in User, Unqueue(u) PROVE TypeInv'
  <2>1. /\ u \in Proc /\ cur[u] \in Front
        /\ queued' \in [Front -> BOOLEAN]
    BY <1>6 DEF Unqueue
  <2>2. CASE Wanted(u, cur[u])
    <3>1. pc' = [pc EXCEPT ![u] = "hold"] /\ want' = [want EXCEPT ![u] = {}]
          /\ UNCHANGED <<cur, sel>>
      BY <1>6, <2>2 DEF Unqueue
    <3>2. pc' \in [Proc -> PC] /\ want' \in [User -> SUBSET Provider] /\ HandNotEmpty'
      BY <2>1, <3>1
    <3> QED BY <1>6, <2>1, <3>1, <3>2 DEF Unqueue
  <2>3. CASE ~Wanted(u, cur[u])
    <3>1. /\ pc' = [pc EXCEPT ![u] = "lock"]
          /\ sel' = [sel EXCEPT ![u] = cur[u]] /\ cur' = [cur EXCEPT ![u] = None]
          /\ UNCHANGED want
      BY <1>6, <2>3 DEF Unqueue
    <3>2. /\ pc' \in [Proc -> PC] /\ sel' \in [User -> Front \cup {None}]
          /\ cur' \in [Proc -> Front \cup {None}] /\ HandNotEmpty'
      BY <2>1, <3>1
    <3> QED BY <1>6, <2>1, <3>1, <3>2 DEF Unqueue
  <2> QED BY <2>2, <2>3
<1>7. ASSUME NEW u \in User, LockScan(u) PROVE TypeInv'
  BY <1>7 DEF LockScan
<1>8. ASSUME NEW u \in User, ScanReceive(u) PROVE TypeInv'
  BY <1>8 DEF ScanReceive
<1>9. ASSUME NEW u \in User, ScanUnqueue(u) PROVE TypeInv'
  <2>1. CASE Wanted(u, cur[u])
    <3>1. /\ u \in Proc /\ cur[u] \in Front
          /\ pc' = [pc EXCEPT ![u] = "putBack"] /\ sel' = [sel EXCEPT ![u] = cur[u]]
          /\ cur' = [cur EXCEPT ![u] = None] /\ UNCHANGED put
          /\ queued' \in [Front -> BOOLEAN]
      BY <1>9, <2>1 DEF ScanUnqueue
    <3>2. /\ pc' \in [Proc -> PC] /\ sel' \in [User -> Front \cup {None}]
          /\ cur' \in [Proc -> Front \cup {None}] /\ HandNotEmpty'
      BY <3>1
    <3> QED BY <1>9, <3>1, <3>2 DEF ScanUnqueue
  <2>2. CASE ~Wanted(u, cur[u])
    <3>1. cur[u] \in Front /\ Append(put[u], cur[u]) \in Seq(Front)
      BY <1>9 DEF ScanUnqueue
    <3>2. put' \in [User -> Seq(Front)]
      BY <1>9, <2>2, <3>1 DEF ScanUnqueue
    <3>3. HandNotEmpty'
      BY <1>9, <2>2 DEF ScanUnqueue
    <3>4. pc' \in [Proc -> PC] /\ cur' \in [Proc -> Front \cup {None}]
      BY <1>9, <2>2 DEF ScanUnqueue
    <3> QED BY <1>9, <2>2, <3>2, <3>3, <3>4 DEF ScanUnqueue
  <2> QED BY <2>1, <2>2
<1>10. ASSUME NEW u \in User, ScanEnd(u) PROVE TypeInv'
  BY <1>10 DEF ScanEnd
<1>11. ASSUME NEW u \in User, PutSkip(u) PROVE TypeInv'
  BY <1>11 DEF PutSkip
<1>12. ASSUME NEW u \in User, Claim(u) PROVE TypeInv'
  BY <1>12 DEF Claim
<1>13. ASSUME NEW u \in User, ClaimFails(u) PROVE TypeInv'
  BY <1>13 DEF ClaimFails
<1>14. ASSUME NEW u \in User, Send(u) PROVE TypeInv'
  BY <1>14 DEF Send
<1>15. ASSUME NEW u \in User, Full(u) PROVE TypeInv'
  BY <1>15 DEF Full
<1>16. ASSUME NEW u \in User, Drop(u) PROVE TypeInv'
  BY <1>16 DEF Drop
<1>17. ASSUME NEW u \in User, Done(u) PROVE TypeInv'
  BY <1>17 DEF Done
<1>18. ASSUME NEW u \in User, ReturnRequeue(u) PROVE TypeInv'
  BY <1>18 DEF ReturnRequeue, GiveBack
<1>19. ASSUME NEW u \in User, ReturnFailed(u) PROVE TypeInv'
  BY <1>19 DEF ReturnFailed, LetGo
<1>20. ASSUME NEW u \in User, ReturnSuccess(u) PROVE TypeInv'
  BY <1>20 DEF ReturnSuccess, GiveBack
<1>21. ASSUME NEW u \in User, NEW f \in Front, Borrow(u, f) PROVE TypeInv'
  BY <1>21 DEF Borrow
<1>22. ASSUME NEW u \in User, VetPassed(u) PROVE TypeInv'
  BY <1>22 DEF VetPassed, GiveBack
<1>23. ASSUME NEW u \in User, VetFailed(u) PROVE TypeInv'
  BY <1>23 DEF VetFailed, LetGo
<1>24. ASSUME NEW u \in User, VetAbandoned(u) PROVE TypeInv'
  BY <1>24 DEF VetAbandoned, LetGo
<1>25. ASSUME NEW u \in User, VetThenDial(u) PROVE TypeInv'
  BY <1>25 DEF VetThenDial
<1>26. ASSUME NEW keys \in SUBSET Key, ReplaceCopy(keys) PROVE TypeInv'
  <2>1. fresh' \subseteq Front
    BY <1>26 DEF ReplaceCopy, FrontsOfEpoch
  <2>2. succ' \in [Front -> BOOLEAN]
    BY <1>26 DEF ReplaceCopy
  <2>3. epoch' \in 0 .. MaxEpoch
    BY <1>26 DEF ReplaceCopy
  <2> QED BY <1>26, <2>1, <2>2, <2>3 DEF ReplaceCopy
<1>27. ASSUME ReplaceSwap PROVE TypeInv'
  BY <1>27 DEF ReplaceSwap
<1>28. ASSUME DrainReceive PROVE TypeInv'
  BY <1>28 DEF DrainReceive
<1>29. ASSUME DrainUnqueue PROVE TypeInv'
  BY <1>29 DEF DrainUnqueue
<1>30. ASSUME ReplaceDone PROVE TypeInv'
  BY <1>30 DEF ReplaceDone
<1>31. ASSUME NEW c \in Closer, CloseCheck(c) PROVE TypeInv'
  BY <1>31 DEF CloseCheck
<1>32. ASSUME NEW c \in Closer, CloseDo(c) PROVE TypeInv'
  BY <1>32 DEF CloseDo
<1>33. CASE UNCHANGED vars
  BY <1>33 DEF vars
<1> QED
  BY <1>1, <1>2, <1>3, <1>4, <1>5, <1>6, <1>7, <1>8, <1>9, <1>10, <1>11,
     <1>12, <1>13, <1>14, <1>15, <1>16, <1>17, <1>18, <1>19, <1>20, <1>21,
     <1>22, <1>23, <1>24, <1>25, <1>26, <1>27, <1>28, <1>29, <1>30, <1>31,
     <1>32, <1>33 DEF Next, UserStep, CallStep, TakeStep, AddReadyStep,
     HoldStep, UpdaterStep, ReplaceStep, CloserStep

\* Every variable keeps its type, the channel never exceeds its capacity, and
\* a goroutine that is to use a front has one.
THEOREM TypeCorrect == Spec => []TypeInv
<1>1. Init => TypeInv
  BY TypeInit
<1>2. TypeInv /\ [Next]_vars => TypeInv'
  BY TypeNext
<1> QED BY <1>1, <1>2, PTL DEF Spec
-----------------------------------------------------------------------------
(***************************************************************************)
(* The queue protocol.  Of each action only this matters to the invariant: *)
(* what it does to the channel, to one flag and to one token.              *)
(***************************************************************************)

Protocol == QueuedOnce /\ ReadyIsFlagged /\ TokenIsExclusive /\ NoStuckFlag

OthersStay(p) == \A q \in Proc \ {p} : pc'[q] = pc[q] /\ cur'[q] = cur[q]

\* p receives a front: it leaves the channel and p has its token.
Receives(p) ==
    /\ OthersStay(p)
    /\ ~Owns(p) /\ Owns(p)'
    /\ ready # <<>> /\ ready' = Tail(ready) /\ cur'[p] = Head(ready)
    /\ queued' = queued

\* p clears the flag of the front whose token it has, and is rid of it.
Clears(p) ==
    /\ OthersStay(p)
    /\ Owns(p) /\ ~Owns(p)'
    /\ queued' = [queued EXCEPT ![cur[p]] = FALSE]
    /\ ready' = ready

\* p sets a clear flag and has the token of that front.
Claims(p) ==
    /\ OthersStay(p)
    /\ ~Owns(p) /\ Owns(p)'
    /\ cur'[p] \in Front /\ ~queued[cur'[p]]
    /\ queued' = [queued EXCEPT ![cur'[p]] = TRUE]
    /\ ready' = ready

\* p sends the front whose token it has, which stands for the token.
Sends(p) ==
    /\ OthersStay(p)
    /\ Owns(p) /\ ~Owns(p)'
    /\ ready' = Append(ready, cur[p])
    /\ queued' = queued

\* No token, flag or queued front changes.
Quiet ==
    /\ ready' = ready /\ queued' = queued
    /\ \A q \in Proc : /\ Owns(q)' = Owns(q)
                       /\ Owns(q) => cur'[q] = cur[q]

\* Receiving a front hands its token over.
LEMMA ReceiveKeeps ==
    ASSUME TypeInv, Protocol, NEW p \in Proc, Receives(p)
    PROVE  Protocol'
<1> DEFINE f == Head(ready)
<1>1. /\ f \in Front
      /\ QueuedOnce'
      /\ Range(ready) = Range(ready') \cup {f}
      /\ f \notin Range(ready')
  BY TailOfQueue DEF TypeInv, TypeOK, Protocol, QueuedOnce, Receives
<1>2. queued[f] /\ \A q \in Proc : Owns(q) => cur[q] # f
  BY <1>1 DEF Protocol, ReadyIsFlagged, TokenIsExclusive, InQueue
<1>3. /\ Owns(p)' /\ cur'[p] = f /\ queued' = queued
      /\ \A q \in Proc \ {p} : Owns(q)' = Owns(q) /\ cur'[q] = cur[q]
  BY DEF Receives, OthersStay, Owns
<1>4. ReadyIsFlagged'
  BY <1>1, <1>3 DEF Protocol, ReadyIsFlagged
<1>5. TokenIsExclusive'
  BY <1>1, <1>2, <1>3 DEF Protocol, TokenIsExclusive, InQueue
<1>6. NoStuckFlag'
  BY <1>1, <1>3, p \in Proc DEF Protocol, NoStuckFlag, InQueue, Receives
<1> QED BY <1>1, <1>4, <1>5, <1>6 DEF Protocol

\* Clearing a flag gives up the token that went with it.
LEMMA ClearKeeps ==
    ASSUME TypeInv, Protocol, NEW p \in Proc, Clears(p)
    PROVE  Protocol'
<1>1. cur[p] \in Front /\ queued[cur[p]] /\ cur[p] \notin Range(ready)
  BY DEF TypeInv, HandNotEmpty, Clears, Owns, Protocol, TokenIsExclusive, InQueue
<1>2. /\ ~Owns(p)' /\ ready' = ready
      /\ \A q \in Proc \ {p} : Owns(q)' = Owns(q) /\ cur'[q] = cur[q]
  BY DEF Clears, OthersStay, Owns
<1>3. \A f \in Front : queued'[f] = (queued[f] /\ f # cur[p])
  BY <1>1 DEF Clears, TypeInv, TypeOK
<1>4. \A q \in Proc \ {p} : Owns(q) => cur[q] # cur[p] /\ cur[q] \in Front
  BY DEF TypeInv, HandNotEmpty, Clears, Owns, Protocol, TokenIsExclusive
<1>5. QueuedOnce'
  BY <1>2 DEF Protocol, QueuedOnce
<1>6. ReadyIsFlagged'
  <2>1. Range(ready) \subseteq Front
    BY DEF TypeInv, TypeOK, Range
  <2> QED BY <1>1, <1>2, <1>3, <2>1 DEF Protocol, ReadyIsFlagged
<1>7. TokenIsExclusive'
  <2> SUFFICES ASSUME NEW q \in Proc, Owns(q)'
               PROVE  /\ queued'[cur'[q]] /\ cur'[q] \notin Range(ready')
                      /\ \A r \in Proc : Owns(r)' /\ cur'[r] = cur'[q] => r = q
    BY DEF TokenIsExclusive, InQueue
  <2>1. q # p /\ Owns(q) /\ cur'[q] = cur[q]
    BY <1>2
  <2>2. /\ queued[cur[q]] /\ cur[q] \notin Range(ready)
        /\ \A r \in Proc : Owns(r) /\ cur[r] = cur[q] => r = q
    BY <2>1 DEF Protocol, TokenIsExclusive, InQueue
  <2>3. queued'[cur[q]]
    BY <1>3, <1>4, <2>1, <2>2
  <2>4. ASSUME NEW r \in Proc, Owns(r)', cur'[r] = cur'[q] PROVE r = q
    <3>1. r # p
      BY <1>2, <2>4
    <3> QED BY <1>2, <2>1, <2>2, <2>4, <3>1
  <2> QED BY <1>2, <2>1, <2>2, <2>3, <2>4
<1>8. NoStuckFlag'
  <2> SUFFICES ASSUME NEW f \in Front, queued'[f], f \notin Range(ready')
               PROVE  \E q \in Proc : Owns(q)' /\ cur'[q] = f
    BY DEF NoStuckFlag, InQueue
  <2>1. queued[f] /\ f # cur[p] /\ f \notin Range(ready)
    BY <1>2, <1>3
  <2>2. PICK q \in Proc : Owns(q) /\ cur[q] = f
    BY <2>1 DEF Protocol, NoStuckFlag, InQueue
  <2> QED BY <1>2, <2>1, <2>2
<1> QED BY <1>5, <1>6, <1>7, <1>8 DEF Protocol

\* A successful compare-and-swap makes a token: nobody had one.
LEMMA ClaimKeeps ==
    ASSUME TypeInv, Protocol, NEW p \in Proc, Claims(p)
    PROVE  Protocol'
<1>1. /\ Owns(p)' /\ ready' = ready
      /\ cur'[p] \in Front /\ ~queued[cur'[p]]
      /\ \A q \in Proc \ {p} : Owns(q)' = Owns(q) /\ cur'[q] = cur[q]
  BY DEF Claims, OthersStay, Owns
<1>2. \A f \in Front : queued'[f] = (queued[f] \/ f = cur'[p])
  BY <1>1 DEF Claims, TypeInv, TypeOK
<1>3. \A q \in Proc : Owns(q) => cur[q] \in Front /\ cur[q] # cur'[p]
  <2>1. \A q \in Proc : Owns(q) => queued[cur[q]]
    BY DEF Protocol, TokenIsExclusive
  <2> QED BY <1>1, <2>1 DEF TypeInv, HandNotEmpty, Owns
<1>4. Range(ready) \subseteq Front /\ cur'[p] \notin Range(ready)
  BY <1>1 DEF TypeInv, TypeOK, Range, Protocol, ReadyIsFlagged
<1>5. QueuedOnce'
  BY <1>1 DEF Protocol, QueuedOnce
<1>6. ReadyIsFlagged'
  BY <1>1, <1>2, <1>4 DEF Protocol, ReadyIsFlagged
<1>7. TokenIsExclusive'
  <2>1. ASSUME NEW q \in Proc, Owns(q)'
        PROVE  cur'[q] \in Front /\ queued'[cur'[q]] /\ cur'[q] \notin Range(ready)
    BY <2>1, <1>1, <1>2, <1>3, <1>4 DEF Protocol, TokenIsExclusive, InQueue
  <2>2. ASSUME NEW q \in Proc, NEW r \in Proc, Owns(q)', Owns(r)', cur'[q] = cur'[r]
        PROVE  q = r
    <3>1. CASE q = p \/ r = p
      BY <2>2, <3>1, <1>1, <1>3
    <3>2. CASE q # p /\ r # p
      BY <2>2, <3>2, <1>1 DEF Protocol, TokenIsExclusive
    <3> QED BY <3>1, <3>2
  <2> QED BY <2>1, <2>2, <1>1 DEF TokenIsExclusive, InQueue
<1>8. NoStuckFlag'
  BY <1>1, <1>2, <1>3 DEF Protocol, NoStuckFlag, InQueue, Claims
<1> QED BY <1>5, <1>6, <1>7, <1>8 DEF Protocol

\* Sending a front gives its token to the channel.
LEMMA SendKeeps ==
    ASSUME TypeInv, Protocol, NEW p \in Proc, Sends(p)
    PROVE  Protocol'
<1> DEFINE f == cur[p]
<1>1. f \in Front /\ queued[f] /\ f \notin Range(ready)
  BY DEF TypeInv, HandNotEmpty, Sends, Owns, Protocol, TokenIsExclusive, InQueue
<1>2. QueuedOnce' /\ Range(ready') = Range(ready) \cup {f}
  BY <1>1, AppendToQueue DEF TypeInv, TypeOK, Protocol, QueuedOnce, Sends
<1>3. /\ ~Owns(p)' /\ queued' = queued
      /\ \A q \in Proc \ {p} : Owns(q)' = Owns(q) /\ cur'[q] = cur[q]
  BY DEF Sends, OthersStay, Owns
<1>4. ReadyIsFlagged'
  BY <1>1, <1>2, <1>3 DEF Protocol, ReadyIsFlagged
<1>5. TokenIsExclusive'
  BY <1>2, <1>3 DEF Protocol, TokenIsExclusive, InQueue, Sends
<1>6. NoStuckFlag'
  BY <1>2, <1>3 DEF Protocol, NoStuckFlag, InQueue
<1> QED BY <1>2, <1>4, <1>5, <1>6 DEF Protocol

\* A step that touches none of it keeps it.
LEMMA QuietKeeps == ASSUME Protocol, Quiet PROVE Protocol'
  BY DEF Protocol, QueuedOnce, ReadyIsFlagged, TokenIsExclusive, NoStuckFlag,
     InQueue, Quiet
-----------------------------------------------------------------------------
(***************************************************************************)
(* Each action is a step of one of these kinds                             *)
(***************************************************************************)

\* Receiving from the channel: Take, the scans and the drain.
LEMMA ReceiveActions ==
    ASSUME TypeInv
    PROVE  /\ \A u \in User : Receive(u) \/ ScanReceive(u) => Receives(u)
           /\ DrainReceive => Receives(Updater)
<1>1. ASSUME NEW u \in User, Receive(u) PROVE Receives(u)
  BY <1>1 DEF Receive, Receives, OthersStay, Owns, TokenPC, TypeInv, TypeOK, Proc
<1>2. ASSUME NEW u \in User, ScanReceive(u) PROVE Receives(u)
  BY <1>2 DEF ScanReceive, Receives, OthersStay, Owns, TokenPC, TypeInv, TypeOK, Proc
<1>3. ASSUME DrainReceive PROVE Receives(Updater)
  BY <1>3 DEF DrainReceive, Receives, OthersStay, Owns, TokenPC, TypeInv, TypeOK, Proc
<1> QED BY <1>1, <1>2, <1>3

\* Storing FALSE: after each receive, and after a send that found no room.
LEMMA ClearActions ==
    ASSUME TypeInv
    PROVE  /\ \A u \in User : Unqueue(u) \/ ScanUnqueue(u) \/ Drop(u) => Clears(u)
           /\ DrainUnqueue => Clears(Updater)
<1>1. ASSUME NEW u \in User, Unqueue(u) PROVE Clears(u)
  BY <1>1 DEF Unqueue, Clears, OthersStay, Owns, TokenPC, TypeInv, TypeOK, Proc
<1>2. ASSUME NEW u \in User, ScanUnqueue(u) PROVE Clears(u)
  BY <1>2 DEF ScanUnqueue, Clears, OthersStay, Owns, TokenPC, TypeInv, TypeOK, Proc
<1>3. ASSUME NEW u \in User, Drop(u) PROVE Clears(u)
  BY <1>3 DEF Drop, Clears, OthersStay, Owns, TokenPC, TypeInv, TypeOK, Proc
<1>4. ASSUME DrainUnqueue PROVE Clears(Updater)
  BY <1>4 DEF DrainUnqueue, Clears, OthersStay, Owns, TokenPC, TypeInv, TypeOK, Proc
<1> QED BY <1>1, <1>2, <1>3, <1>4

\* addReady's compare-and-swap and its send.
LEMMA AddReadyActions ==
    ASSUME TypeInv, NEW u \in User
    PROVE  /\ Claim(u) => Claims(u)
           /\ Send(u) => Sends(u)
<1>1. ASSUME Claim(u) PROVE Claims(u)
  <2>1. Head(put[u]) \in Front
    BY <1>1 DEF Claim, TypeInv, TypeOK
  <2> QED BY <1>1, <2>1 DEF Claim, Claims, OthersStay, Owns, TokenPC, TypeInv, TypeOK, Proc
<1>2. ASSUME Send(u) PROVE Sends(u)
  BY <1>2 DEF Send, Sends, OthersStay, Owns, TokenPC, TypeInv, TypeOK, Proc
<1> QED BY <1>1, <1>2

\* Everything else.
QuietStep ==
    \/ \E u \in User :
          \/ CallStep(u) \/ TakeCancelled(u) \/ TakeClosed(u) \/ LockScan(u)
          \/ ScanEnd(u) \/ PutSkip(u) \/ ClaimFails(u) \/ Full(u) \/ Done(u)
          \/ HoldStep(u)
    \/ \E keys \in SUBSET Key : ReplaceCopy(keys)
    \/ ReplaceSwap \/ ReplaceDone
    \/ \E c \in Closer : CloserStep(c)

LEMMA QuietActions == TypeInv /\ (QuietStep \/ UNCHANGED vars) => Quiet
<1> SUFFICES ASSUME TypeInv, QuietStep \/ UNCHANGED vars PROVE Quiet
  OBVIOUS
<1> USE ProcAssumption DEF Quiet, Owns, TokenPC, TypeInv, TypeOK, Proc
<1>1. ASSUME NEW u \in User, NEW W \in SUBSET Provider, CallTake(u, W) PROVE Quiet
  BY <1>1 DEF CallTake
<1>2. ASSUME NEW u \in User, NEW pid \in Provider, CallTryTakeFrom(u, pid) PROVE Quiet
  BY <1>2 DEF CallTryTakeFrom
<1>3. ASSUME NEW u \in User, NEW f \in Front, Borrow(u, f) PROVE Quiet
  BY <1>3 DEF Borrow
<1>4. ASSUME NEW u \in User, TakeCancelled(u) \/ TakeClosed(u) PROVE Quiet
  BY <1>4 DEF TakeCancelled, TakeClosed, GiveUp
<1>5. ASSUME NEW u \in User, LockScan(u) \/ ScanEnd(u) PROVE Quiet
  BY <1>5 DEF LockScan, ScanEnd
<1>6. ASSUME NEW u \in User, PutSkip(u) \/ ClaimFails(u) PROVE Quiet
  BY <1>6 DEF PutSkip, ClaimFails
<1>7. ASSUME NEW u \in User, Full(u) PROVE Quiet
  BY <1>7 DEF Full
<1>8. ASSUME NEW u \in User, Done(u) PROVE Quiet
  BY <1>8 DEF Done
<1>9. ASSUME NEW u \in User, ReturnRequeue(u) \/ ReturnSuccess(u) \/ VetPassed(u) PROVE Quiet
  BY <1>9 DEF ReturnRequeue, ReturnSuccess, VetPassed, GiveBack
<1>10. ASSUME NEW u \in User, ReturnFailed(u) \/ VetFailed(u) \/ VetAbandoned(u) PROVE Quiet
  BY <1>10 DEF ReturnFailed, VetFailed, VetAbandoned, LetGo
<1>11. ASSUME NEW u \in User, VetThenDial(u) PROVE Quiet
  BY <1>11 DEF VetThenDial
<1>12. ASSUME NEW keys \in SUBSET Key, ReplaceCopy(keys) PROVE Quiet
  BY <1>12 DEF ReplaceCopy
<1>13. ASSUME ReplaceSwap \/ ReplaceDone PROVE Quiet
  BY <1>13 DEF ReplaceSwap, ReplaceDone
<1>14. ASSUME NEW c \in Closer, CloseCheck(c) \/ CloseDo(c) PROVE Quiet
  BY <1>14 DEF CloseCheck, CloseDo
<1>15. CASE UNCHANGED vars
  BY <1>15 DEF vars
<1> QED
  BY <1>1, <1>2, <1>3, <1>4, <1>5, <1>6, <1>7, <1>8, <1>9,
     <1>10, <1>11, <1>12, <1>13, <1>14, <1>15
     DEF QuietStep, CallStep, HoldStep, CloserStep

LEMMA ProtocolInit == Init => Protocol
<1> SUFFICES ASSUME Init PROVE Protocol
  OBVIOUS
<1>1. Range(ready) = {} /\ IsInjective(ready)
  BY DEF Init, Range, IsInjective
<1> QED BY <1>1 DEF Init, Protocol, QueuedOnce, ReadyIsFlagged, TokenIsExclusive,
           NoStuckFlag, InQueue, Owns, TokenPC

LEMMA ProtocolNext == TypeInv /\ Protocol /\ [Next]_vars => Protocol'
<1> SUFFICES ASSUME TypeInv, Protocol, [Next]_vars PROVE Protocol'
  OBVIOUS
<1> USE DEF Proc
<1>1. ASSUME NEW u \in User, Receive(u) \/ ScanReceive(u) PROVE Protocol'
  BY <1>1, ReceiveActions, ReceiveKeeps
<1>2. ASSUME NEW u \in User, Unqueue(u) \/ ScanUnqueue(u) \/ Drop(u) PROVE Protocol'
  BY <1>2, ClearActions, ClearKeeps
<1>3. ASSUME NEW u \in User, Claim(u) PROVE Protocol'
  BY <1>3, AddReadyActions, ClaimKeeps
<1>4. ASSUME NEW u \in User, Send(u) PROVE Protocol'
  BY <1>4, AddReadyActions, SendKeeps
<1>5. CASE DrainReceive
  BY <1>5, ReceiveActions, ReceiveKeeps
<1>6. CASE DrainUnqueue
  BY <1>6, ClearActions, ClearKeeps
<1>7. CASE QuietStep \/ UNCHANGED vars
  BY <1>7, QuietActions, QuietKeeps
<1> QED
  BY <1>1, <1>2, <1>3, <1>4, <1>5, <1>6, <1>7
     DEF Next, UserStep, TakeStep, AddReadyStep, UpdaterStep, ReplaceStep, QuietStep

\* The queue protocol's invariant holds in every reachable state.
THEOREM QueueCorrect == Spec => []QueueInv
<1>1. Init => TypeInv /\ Protocol
  BY TypeInit, ProtocolInit
<1>2. TypeInv /\ Protocol /\ [Next]_vars => (TypeInv /\ Protocol)'
  BY TypeNext, ProtocolNext
<1>3. TypeInv /\ Protocol => QueueInv
  BY DEF TypeInv, Protocol, QueueInv
<1> QED BY <1>1, <1>2, <1>3, PTL DEF Spec

\* A front is in the ready channel at most once (front.go:19-20, 121-131),
\* whatever the goroutines that return, vet, take and drain it do.
THEOREM FrontQueuedOnce == Spec => []QueuedOnce
<1>1. QueueInv => QueuedOnce
  BY DEF QueueInv
<1> QED BY <1>1, QueueCorrect, PTL

\* No interleaving leaves a front flagged and out of reach, which addReady
\* could never queue again (front.go:122, 129, 142, 225).
THEOREM FlagNeverStuck == Spec => []NoStuckFlag
<1>1. QueueInv => NoStuckFlag
  BY DEF QueueInv
<1> QED BY <1>1, QueueCorrect, PTL
-----------------------------------------------------------------------------
(***************************************************************************)
(* FrontPool implements Rotation                                           *)
(***************************************************************************)

\* A goroutine has something selected or still to put back only while it
\* scans or puts back, and what a scan fell back on is among what it skipped.
HandInv ==
    \A u \in User :
        /\ pc[u] \in {"idle", "recv", "unqueue", "hold", "vet"} => sel[u] = None /\ put[u] = <<>>
        /\ pc[u] = "lock" => put[u] = <<>>
        /\ pc[u] \in {"scan", "scanUnqueue"} /\ sel[u] # None => sel[u] \in Range(put[u])

RefInv == TypeInv /\ Protocol /\ HandInv

\* Only u's part of the goroutines' state changes.
OnlyUser(u) ==
    \A v \in User \ {u} : /\ pc'[v] = pc[v] /\ cur'[v] = cur[v]
                          /\ sel'[v] = sel[v] /\ put'[v] = put[v]

\* Taking the head of what is left to put back.
LEMMA TailOfPut ==
    ASSUME NEW S, NEW s \in Seq(S), s # <<>>
    PROVE  /\ Head(s) \in S
           /\ Range(s) = Range(Tail(s)) \cup {Head(s)}
<1>1. /\ Len(s) \in Nat \ {0} /\ DOMAIN s = 1 .. Len(s) /\ Head(s) = s[1]
      /\ DOMAIN Tail(s) = 1 .. Len(s) - 1
      /\ \A i \in 1 .. Len(s) - 1 : Tail(s)[i] = s[i + 1]
      /\ \A i \in 1 .. Len(s) : s[i] \in S
  OBVIOUS
<1>2. ASSUME NEW x \in Range(s) PROVE x \in Range(Tail(s)) \cup {Head(s)}
  <2>1. PICK i \in 1 .. Len(s) : x = s[i]
    BY <1>1, <1>2 DEF Range
  <2>2. CASE i = 1
    BY <1>1, <2>1, <2>2
  <2>3. CASE i # 1
    <3>1. i - 1 \in 1 .. Len(s) - 1 /\ x = Tail(s)[i - 1]
      BY <1>1, <2>1, <2>3
    <3> QED BY <1>1, <3>1 DEF Range
  <2> QED BY <2>2, <2>3
<1>3. Range(Tail(s)) \subseteq Range(s)
  BY <1>1 DEF Range
<1>4. Head(s) \in Range(s)
  BY <1>1 DEF Range
<1> QED BY <1>1, <1>2, <1>3, <1>4

LEMMA SmallRanges ==
    /\ Range(<<>>) = {}
    /\ \A x : Range(<<x>>) = {x}
    /\ \A S : \A s \in Seq(S), x \in S : Range(Append(s, x)) = Range(s) \cup {x}
<1>1. Range(<<>>) = {}
  BY DEF Range
<1>2. \A x : Range(<<x>>) = {x}
  BY DEF Range
<1>3. ASSUME NEW S, NEW s \in Seq(S), NEW x \in S PROVE Range(Append(s, x)) = Range(s) \cup {x}
  <2>1. /\ Len(s) \in Nat /\ DOMAIN s = 1 .. Len(s) /\ DOMAIN Append(s, x) = 1 .. Len(s) + 1
        /\ \A i \in 1 .. Len(s) : Append(s, x)[i] = s[i]
        /\ Append(s, x)[Len(s) + 1] = x
    OBVIOUS
  <2>2. \A i \in 1 .. Len(s) + 1 : i \in 1 .. Len(s) \/ i = Len(s) + 1
    BY <2>1
  <2>3. Range(Append(s, x)) \subseteq Range(s) \cup {x}
    BY <2>1, <2>2 DEF Range
  <2>4. Range(s) \subseteq Range(Append(s, x))
    BY <2>1 DEF Range
  <2>5. x \in Range(Append(s, x))
    BY <2>1 DEF Range
  <2> QED BY <2>3, <2>4, <2>5
<1> QED BY <1>1, <1>2, <1>3

LEMMA HandInit == Init => HandInv
BY DEF Init, HandInv

\* HandInv of every goroutine but u is kept by a step of u.
LEMMA HandOfOne ==
    ASSUME HandInv, NEW u \in User, OnlyUser(u),
           /\ pc'[u] \in {"idle", "recv", "unqueue", "hold", "vet"} =>
                 sel'[u] = None /\ put'[u] = <<>>
           /\ pc'[u] = "lock" => put'[u] = <<>>
           /\ pc'[u] \in {"scan", "scanUnqueue"} /\ sel'[u] # None => sel'[u] \in Range(put'[u])
    PROVE  HandInv'
BY DEF HandInv, OnlyUser

\* Nothing a goroutine does changes what another is at.
LEMMA StepIsOwn ==
    ASSUME TypeInv, NEW u \in User, UserStep(u)
    PROVE  /\ OnlyUser(u)
           /\ \A q \in Proc \ {u} : pc'[q] = pc[q] /\ cur'[q] = cur[q]
<1> SUFFICES ASSUME NEW q \in Proc \ {u}
             PROVE  /\ pc'[q] = pc[q] /\ cur'[q] = cur[q]
                    /\ q \in User => sel'[q] = sel[q] /\ put'[q] = put[q]
  BY DEF OnlyUser, Proc
<1>1. /\ u \in Proc
      /\ pc \in [Proc -> PC]
      /\ cur \in [Proc -> Front \cup {None}]
      /\ sel \in [User -> Front \cup {None}]
      /\ put \in [User -> Seq(Front)]
  BY DEF TypeInv, TypeOK, Proc
<1>2. CASE CallStep(u) \/ TakeCancelled(u) \/ LockScan(u)
  BY <1>1, <1>2 DEF CallStep, CallTake, CallTryTakeFrom, Borrow, TakeCancelled, GiveUp, LockScan
<1>3. CASE Receive(u) \/ TakeClosed(u) \/ ScanReceive(u) \/ ScanEnd(u)
  BY <1>1, <1>3 DEF Receive, TakeClosed, GiveUp, ScanReceive, ScanEnd
<1>4. CASE Unqueue(u)
  BY <1>1, <1>4 DEF Unqueue
<1>5. CASE ScanUnqueue(u)
  BY <1>1, <1>5 DEF ScanUnqueue
<1>6. CASE PutSkip(u) \/ Claim(u) \/ ClaimFails(u)
  BY <1>1, <1>6 DEF PutSkip, Claim, ClaimFails
<1>7. CASE Send(u) \/ Full(u) \/ Drop(u) \/ Done(u)
  BY <1>1, <1>7 DEF Send, Full, Drop, Done
<1>8. CASE ReturnRequeue(u) \/ ReturnSuccess(u) \/ VetPassed(u)
  BY <1>1, <1>8 DEF ReturnRequeue, ReturnSuccess, VetPassed, GiveBack
<1>9. CASE ReturnFailed(u) \/ VetFailed(u) \/ VetAbandoned(u)
  BY <1>1, <1>9 DEF ReturnFailed, VetFailed, VetAbandoned, LetGo
<1>10. CASE VetThenDial(u)
  BY <1>1, <1>10 DEF VetThenDial
<1> QED BY <1>2, <1>3, <1>4, <1>5, <1>6, <1>7, <1>8, <1>9, <1>10
           DEF UserStep, TakeStep, AddReadyStep, HoldStep

\* Replace and Close change nothing of where the others are.
LEMMA RestLeavesUsers ==
    ASSUME TypeInv, UpdaterStep \/ (\E c \in Closer : CloserStep(c)) \/ UNCHANGED vars
    PROVE  \A u \in User : pc'[u] = pc[u] /\ cur'[u] = cur[u]
<1> SUFFICES ASSUME NEW u \in User PROVE pc'[u] = pc[u] /\ cur'[u] = cur[u]
  OBVIOUS
<1>1. /\ pc \in [Proc -> PC] /\ cur \in [Proc -> Front \cup {None}]
      /\ u \in Proc /\ u # Updater /\ u \notin Closer
  BY ProcAssumption DEF TypeInv, TypeOK, Proc
<1>2. CASE UpdaterStep
  BY <1>1, <1>2 DEF UpdaterStep, ReplaceStep, ReplaceCopy, ReplaceSwap, DrainReceive, DrainUnqueue,
     ReplaceDone
<1>3. CASE \E c \in Closer : CloserStep(c)
  BY <1>1, <1>3 DEF CloserStep, CloseCheck, CloseDo
<1> QED BY <1>2, <1>3 DEF vars

LEMMA HandNext == TypeInv /\ HandInv /\ [Next]_vars => HandInv'
<1> SUFFICES ASSUME TypeInv, HandInv, [Next]_vars PROVE HandInv'
  OBVIOUS
<1>1. ASSUME NEW u \in User, UserStep(u) PROVE HandInv'
  <2> SUFFICES /\ pc'[u] \in {"idle", "recv", "unqueue", "hold", "vet"} =>
                     sel'[u] = None /\ put'[u] = <<>>
               /\ pc'[u] = "lock" => put'[u] = <<>>
               /\ pc'[u] \in {"scan", "scanUnqueue"} /\ sel'[u] # None =>
                     sel'[u] \in Range(put'[u])
    BY <1>1, StepIsOwn, HandOfOne
  <2>0. /\ pc[u] \in {"idle", "recv", "unqueue", "hold", "vet"} => sel[u] = None /\ put[u] = <<>>
        /\ pc[u] = "lock" => put[u] = <<>>
        /\ pc[u] \in {"scan", "scanUnqueue"} /\ sel[u] # None => sel[u] \in Range(put[u])
    BY DEF HandInv
  <2>t. /\ u \in Proc
        /\ pc \in [Proc -> PC]
        /\ sel \in [User -> Front \cup {None}]
        /\ put \in [User -> Seq(Front)]
    BY DEF TypeInv, TypeOK, Proc
  <2>1. CASE CallStep(u)
    <3>1. /\ pc[u] = "idle" /\ pc'[u] \in {"recv", "lock", "vet"}
          /\ sel' = sel /\ put' = put
      BY <2>t, <2>1 DEF CallStep, CallTake, CallTryTakeFrom, Borrow
    <3> QED BY <2>0, <3>1
  <2>2. CASE TakeCancelled(u) \/ Receive(u) \/ TakeClosed(u)
    <3>1. /\ pc[u] = "recv" /\ pc'[u] \in {"idle", "unqueue"}
          /\ sel' = sel /\ put' = put
      BY <2>t, <2>2 DEF TakeCancelled, TakeClosed, GiveUp, Receive
    <3> QED BY <2>0, <3>1
  <2>3. CASE Unqueue(u)
    <3>1. /\ pc[u] = "unqueue" /\ put' = put
          /\ \/ pc'[u] = "hold" /\ sel' = sel
             \/ pc'[u] = "lock"
      BY <2>t, <2>3 DEF Unqueue
    <3> QED BY <2>0, <3>1
  <2>4. CASE ScanReceive(u) \/ ScanEnd(u)
    <3>1. /\ pc[u] = "scan" /\ pc'[u] \in {"scanUnqueue", "putBack"}
          /\ sel' = sel /\ put' = put
      BY <2>t, <2>4 DEF ScanReceive, ScanEnd
    <3> QED BY <2>0, <3>1
  <2>5. CASE ScanUnqueue(u)
    <3>1. CASE Wanted(u, cur[u])
      <4>1. pc'[u] = "putBack"
        BY <2>t, <2>5, <3>1 DEF ScanUnqueue
      <4> QED BY <4>1
    <3>2. CASE ~Wanted(u, cur[u])
      <4>1. /\ pc[u] = "scanUnqueue" /\ pc'[u] = "scan" /\ sel' = sel
            /\ put'[u] = Append(put[u], cur[u])
        BY <2>t, <2>5, <3>2 DEF ScanUnqueue
      <4>2. cur[u] \in Front /\ put[u] \in Seq(Front)
        BY <2>t, <4>1 DEF TypeInv, TypeOK, HandNotEmpty, TokenPC
      <4>3. Range(put'[u]) = Range(put[u]) \cup {cur[u]}
        BY <4>1, <4>2, SmallRanges
      <4> QED BY <2>0, <4>1, <4>3
    <3> QED BY <3>1, <3>2
  <2>6. CASE LockScan(u)
    <3>1. /\ pc[u] = "lock" /\ pc'[u] = "scan" /\ sel' = sel
          /\ sel[u] # None => put'[u] = <<sel[u]>>
      BY <2>t, <2>6 DEF LockScan
    <3>2. Range(<<sel[u]>>) = {sel[u]}
      BY SmallRanges
    <3> QED BY <3>1, <3>2
  <2>7. CASE PutSkip(u) \/ Claim(u) \/ ClaimFails(u) \/ Send(u) \/ Full(u) \/ Drop(u)
    <3>1. pc'[u] \in {"putBack", "send", "drop"}
      BY <2>t, <2>7 DEF PutSkip, Claim, ClaimFails, Send, Full, Drop
    <3> QED BY <3>1
  <2>8. CASE Done(u)
    <3>1. /\ put[u] = <<>> /\ put' = put /\ sel'[u] = None
          /\ pc'[u] \in {"idle", "hold"}
      BY <2>t, <2>8 DEF Done
    <3> QED BY <3>1
  <2>9. CASE HoldStep(u)
    <3>1. CASE ReturnRequeue(u) \/ ReturnSuccess(u) \/ VetPassed(u)
      <4>1. pc'[u] = "putBack"
        BY <2>t, <3>1 DEF ReturnRequeue, ReturnSuccess, VetPassed, GiveBack
      <4> QED BY <4>1
    <3>2. CASE ReturnFailed(u) \/ VetFailed(u) \/ VetAbandoned(u) \/ VetThenDial(u)
      <4>1. /\ pc[u] \in {"hold", "vet"} /\ pc'[u] \in {"idle", "hold", "vet"}
            /\ sel' = sel /\ put' = put
        BY <2>t, <3>2 DEF ReturnFailed, VetFailed, VetAbandoned, LetGo, VetThenDial
      <4> QED BY <2>0, <4>1
    <3> QED BY <2>9, <3>1, <3>2 DEF HoldStep
  <2> QED BY <1>1, <2>1, <2>2, <2>3, <2>4, <2>5, <2>6, <2>7, <2>8, <2>9
            DEF UserStep, TakeStep, AddReadyStep
<1>2. CASE UpdaterStep \/ \E c \in Closer : CloserStep(c)
  <2>1. \A u \in User : pc'[u] = pc[u]
    BY <1>2, RestLeavesUsers
  <2>2. sel' = sel /\ put' = put
    BY <1>2 DEF UpdaterStep, ReplaceStep, ReplaceCopy, ReplaceSwap, DrainReceive,
       DrainUnqueue, ReplaceDone, CloserStep, CloseCheck, CloseDo
  <2> QED BY <2>1, <2>2 DEF HandInv
<1>3. CASE UNCHANGED vars
  BY <1>3 DEF vars, HandInv
<1> QED BY <1>1, <1>2, <1>3 DEF Next
-----------------------------------------------------------------------------
\* What a step of u does to the functions of the contract.
LEMMA ContractOfOne ==
    ASSUME NEW u \in User, OnlyUser(u)
    PROVE  /\ Has' = [Has EXCEPT ![u] = Answers(u)']
           /\ Lent' = [Lent EXCEPT ![u] = (IF pc[u] = "vet" THEN cur[u] ELSE None)']
           /\ Has[u] = Answers(u) /\ Lent[u] = IF pc[u] = "vet" THEN cur[u] ELSE None
           /\ Answers(u)' = Answers(u) => Has' = Has
           /\ (IF pc[u] = "vet" THEN cur[u] ELSE None)' = (IF pc[u] = "vet" THEN cur[u] ELSE None)
                => Lent' = Lent
<1>1. \A v \in User \ {u} : Answers(v)' = Answers(v)
  BY DEF OnlyUser, Answers
<1> QED BY <1>1 DEF Has, Lent, OnlyUser

\* A step that leaves the flags and every goroutine's fronts alone.
Unseen(u) ==
    /\ queued' = queued
    /\ OnlyUser(u) /\ Answers(u)' = Answers(u)
    /\ (IF pc[u] = "vet" THEN cur[u] ELSE None)' = IF pc[u] = "vet" THEN cur[u] ELSE None

LEMMA UnseenStutters ==
    ASSUME NEW u \in User, Unseen(u) PROVE UNCHANGED <<Avail, Has, Lent>>
BY ContractOfOne DEF Unseen, Avail

\* Calls, receives, sends, and the ends of scans, are not seen.
LEMMA UnseenSteps ==
    ASSUME RefInv, NEW u \in User,
           \/ \E W \in SUBSET Provider : CallTake(u, W)
           \/ \E pid \in Provider : CallTryTakeFrom(u, pid)
           \/ TakeCancelled(u) \/ TakeClosed(u) \/ Receive(u) \/ LockScan(u)
           \/ ScanReceive(u) \/ ScanEnd(u) \/ PutSkip(u) \/ Send(u) \/ Full(u) \/ Done(u)
           \/ ReturnRequeue(u) \/ ReturnSuccess(u)
    PROVE  Unseen(u)
<1> USE ProcAssumption DEF RefInv, TypeInv, TypeOK, OnlyUser, Proc, Unseen
<1>0. /\ pc[u] \in {"idle", "recv", "unqueue", "hold", "vet"} => sel[u] = None /\ put[u] = <<>>
      /\ pc[u] = "lock" => put[u] = <<>>
  BY DEF HandInv
<1>1. CASE (\E W \in SUBSET Provider : CallTake(u, W)) \/ \E pid \in Provider : CallTryTakeFrom(u, pid)
  BY <1>1 DEF CallTake, CallTryTakeFrom, Answers
<1>2. CASE TakeCancelled(u) \/ TakeClosed(u) \/ Receive(u)
  BY <1>2 DEF TakeCancelled, TakeClosed, GiveUp, Receive, Answers
<1>3. CASE LockScan(u)
  <2>1. Range(put'[u]) = IF sel[u] = None THEN {} ELSE {sel[u]}
    BY <1>3, SmallRanges DEF LockScan
  <2>2. Range(put[u]) = {} /\ pc[u] = "lock" /\ pc'[u] = "scan" /\ sel' = sel
    BY <1>0, <1>3, SmallRanges DEF LockScan
  <2>3. Answers(u)' = Answers(u)
    BY <2>1, <2>2 DEF Answers
  <2> QED BY <1>3, <2>2, <2>3 DEF LockScan
<1>4. CASE ScanReceive(u) \/ ScanEnd(u) \/ Send(u) \/ Full(u)
  BY <1>4 DEF ScanReceive, ScanEnd, Send, Full, Answers
<1>5. CASE PutSkip(u)
  <2>1. Range(put[u]) = Range(put'[u]) \cup {sel[u]} /\ sel[u] \in Front
    BY <1>5, TailOfPut DEF PutSkip
  <2>2. Answers(u)' = Answers(u)
    BY <1>5, <2>1 DEF PutSkip, Answers
  <2> QED BY <1>5, <2>2 DEF PutSkip
<1>6. CASE Done(u)
  <2>1. Answers(u)' = Answers(u)
    <3>1. CASE sel[u] = None
      BY <1>6, <3>1 DEF Done, Answers
    <3>2. CASE sel[u] # None
      BY <1>6, <3>2 DEF Done, Answers
    <3> QED BY <3>1, <3>2
  <2> QED BY <1>6, <2>1 DEF Done
<1>7. CASE ReturnRequeue(u) \/ ReturnSuccess(u)
  <2>1. /\ pc[u] = "hold" /\ pc'[u] = "putBack" /\ sel' = sel /\ sel[u] = None
        /\ put[u] = <<>> /\ put'[u] = <<cur[u]>>
    BY <1>0, <1>7 DEF ReturnRequeue, ReturnSuccess, GiveBack
  <2>2. Answers(u)' = Answers(u)
    BY <2>1, SmallRanges DEF Answers
  <2> QED BY <1>7, <2>1, <2>2 DEF ReturnRequeue, ReturnSuccess, GiveBack
<1> QED BY <1>1, <1>2, <1>3, <1>4, <1>5, <1>6, <1>7

\* A store that clears a flag takes the front out of the set, a
\* compare-and-swap puts it in.
LEMMA AvailChanges ==
    ASSUME TypeInv, NEW f \in Front
    PROVE  /\ queued' = [queued EXCEPT ![f] = FALSE] => Avail' = Avail \ {f}
           /\ queued' = [queued EXCEPT ![f] = TRUE] => Avail' = Avail \cup {f}
BY DEF TypeInv, TypeOK, Avail

\* The store after a receive is the take: u answers for the front from now on.
LEMMA TakeImplemented ==
    ASSUME RefInv, NEW u \in User, Unqueue(u) \/ ScanUnqueue(u)
    PROVE  Contract!Next
<1> USE ProcAssumption DEF RefInv, TypeInv, TypeOK, OnlyUser, Proc
<1> DEFINE f == cur[u]
<1>1. f \in Front /\ queued[f] /\ pc[u] \in {"unqueue", "scanUnqueue"}
  BY DEF Unqueue, ScanUnqueue, HandNotEmpty, TokenPC, Protocol, TokenIsExclusive, Owns
<1>2. f \in Avail /\ Avail' = Avail \ {f}
  BY <1>1, AvailChanges DEF Unqueue, ScanUnqueue, Avail
<1>3. OnlyUser(u) /\ pc'[u] \in {"hold", "lock", "putBack", "scan"}
  BY DEF Unqueue, ScanUnqueue
<1>4. Answers(u)' = Answers(u) \cup {f}
  <2>1. CASE Unqueue(u)
    <3>1. sel[u] = None /\ put[u] = <<>> /\ put' = put
      BY <2>1 DEF Unqueue, HandInv
    <3>2. CASE Wanted(u, f)
      BY <1>1, <2>1, <3>1, <3>2 DEF Unqueue, Answers
    <3>3. CASE ~Wanted(u, f)
      BY <1>1, <2>1, <3>1, <3>3 DEF Unqueue, Answers
    <3> QED BY <3>2, <3>3
  <2>2. CASE ScanUnqueue(u)
    <3>1. sel[u] # None => sel[u] \in Range(put[u])
      BY <2>2 DEF ScanUnqueue, HandInv
    <3>2. CASE Wanted(u, f)
      BY <1>1, <2>2, <3>1, <3>2 DEF ScanUnqueue, Answers
    <3>3. CASE ~Wanted(u, f)
      <4>1. put'[u] = Append(put[u], f) /\ sel' = sel /\ pc'[u] = "scan" /\ pc[u] = "scanUnqueue"
        BY <2>2, <3>3 DEF ScanUnqueue
      <4>2. Range(put'[u]) = Range(put[u]) \cup {f}
        BY <1>1, <4>1, SmallRanges
      <4> QED BY <4>1, <4>2 DEF Answers
    <3> QED BY <3>2, <3>3
  <2> QED BY <2>1, <2>2
<1>5. Has' = [Has EXCEPT ![u] = @ \cup {f}] /\ Lent' = Lent
  <2>1. Has' = [Has EXCEPT ![u] = Answers(u)'] /\ Has[u] = Answers(u) /\ Lent' = Lent
    BY <1>1, <1>3, ContractOfOne
  <2> QED BY <1>4, <2>1
<1>6. Contract!Take(u, f)
  BY <1>2, <1>5 DEF Contract!Take
<1> QED BY <1>1, <1>6 DEF Contract!Next

\* addReady is the put, whether its compare-and-swap succeeds or finds the
\* front available already.
LEMMA PutImplemented ==
    ASSUME RefInv, NEW u \in User, Claim(u) \/ ClaimFails(u)
    PROVE  Contract!Next
<1> USE ProcAssumption DEF RefInv, TypeInv, TypeOK, OnlyUser, Proc
<1> DEFINE f == Head(put[u])
<1>1. /\ pc[u] = "putBack" /\ put[u] # <<>> /\ f # sel[u] /\ put[u] \in Seq(Front)
      /\ put' = [put EXCEPT ![u] = Tail(@)] /\ sel' = sel
      /\ pc'[u] \in {"putBack", "send"}
  BY DEF Claim, ClaimFails
<1>2. f \in Front /\ Range(put[u]) = Range(Tail(put[u])) \cup {f}
  BY <1>1, TailOfPut
<1>3. OnlyUser(u) /\ put'[u] = Tail(put[u])
  BY <1>1 DEF Claim, ClaimFails
<1>4. Avail' = Avail \cup {f}
  <2>1. CASE Claim(u)
    BY <1>2, <2>1, AvailChanges DEF Claim
  <2>2. CASE ClaimFails(u)
    BY <1>2, <2>2 DEF ClaimFails, Avail
  <2> QED BY <2>1, <2>2
<1>5. f \in Answers(u) /\ Answers(u)' \in {Answers(u), Answers(u) \ {f}}
  <2>1. Answers(u) = Range(Tail(put[u])) \cup {f} \cup ({sel[u]} \ {None})
    BY <1>1, <1>2 DEF Answers
  <2>2. Answers(u)' = Range(Tail(put[u])) \cup ({sel[u]} \ {None})
    BY <1>1, <1>3 DEF Answers
  <2> QED BY <1>1, <2>1, <2>2
<1>6. Has' = [Has EXCEPT ![u] = Answers(u)'] /\ Has[u] = Answers(u) /\ Lent' = Lent
  BY <1>1, <1>3, ContractOfOne
<1>7. PICK rest \in {Has[u], Has[u] \ {f}} : Has' = [Has EXCEPT ![u] = rest]
  BY <1>5, <1>6
<1>8. Contract!Put(u, f)
  BY <1>4, <1>5, <1>6, <1>7 DEF Contract!Put
<1> QED BY <1>2, <1>8 DEF Contract!Next

\* A front that is dropped or drained is forgotten.
LEMMA ForgetImplemented ==
    ASSUME RefInv, DrainUnqueue \/ \E u \in User : Drop(u)
    PROVE  Contract!Next
<1> USE ProcAssumption DEF RefInv, TypeInv, TypeOK, OnlyUser, Proc
<1>1. PICK p \in Proc : /\ pc[p] \in {"drop", "drainUnqueue"}
                        /\ queued' = [queued EXCEPT ![cur[p]] = FALSE]
  BY DEF DrainUnqueue, Drop
<1>2. cur[p] \in Front /\ queued[cur[p]]
  BY <1>1 DEF HandNotEmpty, TokenPC, Protocol, TokenIsExclusive, Owns
<1>3. cur[p] \in Avail /\ Avail' = Avail \ {cur[p]}
  BY <1>1, <1>2, AvailChanges DEF Avail
<1>4. Has' = Has /\ Lent' = Lent
  <2>1. CASE DrainUnqueue
    <3>1. \A v \in User : pc'[v] = pc[v] /\ cur'[v] = cur[v] /\ put'[v] = put[v] /\ sel'[v] = sel[v]
      BY <2>1 DEF DrainUnqueue
    <3> QED BY <3>1 DEF Has, Lent, Answers
  <2>2. ASSUME NEW u \in User, Drop(u) PROVE Has' = Has /\ Lent' = Lent
    <3>1. OnlyUser(u) /\ pc[u] = "drop" /\ pc'[u] = "putBack" /\ put' = put /\ sel' = sel
      BY <2>2 DEF Drop
    <3>2. Answers(u)' = Answers(u)
      BY <3>1 DEF Answers
    <3> QED BY <3>1, <3>2, ContractOfOne
  <2> QED BY <2>1, <2>2
<1>5. Contract!Forget(cur[p])
  BY <1>3, <1>4 DEF Contract!Forget
<1> QED BY <1>2, <1>5 DEF Contract!Next

\* A failed front is not put back.
LEMMA FailImplemented ==
    ASSUME RefInv, NEW u \in User, ReturnFailed(u) PROVE Contract!Next
<1> USE ProcAssumption DEF RefInv, TypeInv, TypeOK, OnlyUser, Proc
<1>1. /\ pc[u] = "hold" /\ pc'[u] = "idle" /\ put' = put /\ sel' = sel /\ queued' = queued
      /\ OnlyUser(u)
  BY DEF ReturnFailed, LetGo
<1>2. sel[u] = None /\ put[u] = <<>> /\ cur[u] \in Front
  BY <1>1 DEF HandInv, HandNotEmpty
<1>3. Answers(u) = {cur[u]} /\ Answers(u)' = {}
  BY <1>1, <1>2, SmallRanges DEF Answers
<1>4. Has' = [Has EXCEPT ![u] = Answers(u)'] /\ Has[u] = Answers(u) /\ Lent' = Lent
  BY <1>1, ContractOfOne
<1>5. Has' = [Has EXCEPT ![u] = @ \ {cur[u]}] /\ cur[u] \in Has[u]
  <2>1. Answers(u)' = Answers(u) \ {cur[u]} /\ cur[u] \in Answers(u)
    BY <1>3
  <2> QED BY <1>4, <2>1
<1>6. Contract!Fail(u, cur[u])
  BY <1>1, <1>4, <1>5 DEF Contract!Fail, Avail
<1> QED BY <1>2, <1>6 DEF Contract!Next

\* A vet borrows a front that it may adopt or reject.
LEMMA LendImplemented ==
    ASSUME RefInv, NEW u \in User, NEW f \in Front, Borrow(u, f) PROVE Contract!Next
<1> USE ProcAssumption DEF RefInv, TypeInv, TypeOK, OnlyUser, Proc
<1>1. /\ pc[u] = "idle" /\ pc'[u] = "vet" /\ put' = put /\ sel' = sel /\ queued' = queued
      /\ cur'[u] = f /\ OnlyUser(u)
  BY DEF Borrow
<1>2. Answers(u)' = Answers(u)
  BY <1>1 DEF Answers
<1>3. Has' = Has /\ Lent' = [Lent EXCEPT ![u] = f] /\ Lent[u] = None
  BY <1>1, <1>2, ContractOfOne
<1>4. Contract!Lend(u, f)
  BY <1>1, <1>3 DEF Contract!Lend, Avail
<1> QED BY <1>4 DEF Contract!Next

LEMMA VetImplemented ==
    ASSUME RefInv, NEW u \in User,
           VetPassed(u) \/ VetFailed(u) \/ VetAbandoned(u) \/ VetThenDial(u)
    PROVE  Contract!Next \/ UNCHANGED <<Avail, Has, Lent>>
<1> USE ProcAssumption DEF RefInv, TypeInv, TypeOK, OnlyUser, Proc
<1>1. pc[u] = "vet" /\ OnlyUser(u) /\ queued' = queued /\ sel' = sel
  BY DEF VetPassed, VetFailed, VetAbandoned, VetThenDial, GiveBack, LetGo
<1>2. sel[u] = None /\ put[u] = <<>> /\ cur[u] \in Front
  BY <1>1 DEF HandInv, HandNotEmpty
<1>3. /\ Has' = [Has EXCEPT ![u] = Answers(u)'] /\ Has[u] = Answers(u)
      /\ Lent' = [Lent EXCEPT ![u] = (IF pc[u] = "vet" THEN cur[u] ELSE None)']
      /\ Lent[u] = cur[u]
  BY <1>1, ContractOfOne
<1>4. Avail' = Avail /\ Answers(u) = {}
  BY <1>1, <1>2, SmallRanges DEF Avail, Answers
<1>5. CASE pc'[u] = "vet"
  <2>1. put' = put /\ cur' = cur
    BY <1>5 DEF VetPassed, VetFailed, VetAbandoned, VetThenDial, GiveBack, LetGo
  <2>2. Answers(u)' = Answers(u)
    BY <1>1, <1>5, <2>1 DEF Answers
  <2> QED BY <1>1, <1>4, <1>5, <2>1, <2>2, ContractOfOne
<1>6. CASE pc'[u] # "vet" /\ Answers(u)' = {cur[u]}
  <2>1. Has' = [Has EXCEPT ![u] = @ \cup {Lent[u]}] /\ Lent' = [Lent EXCEPT ![u] = None]
    BY <1>3, <1>4, <1>6
  <2>2. Contract!Adopt(u)
    BY <1>2, <1>3, <1>4, <2>1 DEF Contract!Adopt
  <2> QED BY <2>2 DEF Contract!Next
<1>7. CASE pc'[u] # "vet" /\ Answers(u)' = {}
  <2>1. Has' = Has /\ Lent' = [Lent EXCEPT ![u] = None]
    BY <1>1, <1>3, <1>4, <1>7, ContractOfOne
  <2>2. Contract!Reject(u)
    BY <1>2, <1>3, <1>4, <2>1 DEF Contract!Reject
  <2> QED BY <2>2 DEF Contract!Next
<1>8. CASE pc'[u] # "vet"
  <2>1. CASE VetPassed(u)
    <3>1. pc'[u] = "putBack" /\ put'[u] = <<cur[u]>>
      BY <2>1 DEF VetPassed, GiveBack
    <3>2. Answers(u)' = {cur[u]}
      BY <1>1, <1>2, <3>1, SmallRanges DEF Answers
    <3> QED BY <1>6, <1>8, <3>2
  <2>2. CASE VetFailed(u) \/ VetAbandoned(u)
    <3>1. pc'[u] = "idle" /\ put' = put
      BY <2>2 DEF VetFailed, VetAbandoned, LetGo
    <3>2. Answers(u)' = {}
      BY <1>1, <1>2, <3>1, SmallRanges DEF Answers
    <3> QED BY <1>7, <1>8, <3>2
  <2>3. CASE VetThenDial(u)
    <3>1. pc'[u] = "hold" /\ put' = put /\ cur' = cur
      BY <1>8, <2>3 DEF VetThenDial
    <3>2. Answers(u)' = {cur[u]}
      BY <1>1, <1>2, <3>1, SmallRanges DEF Answers
    <3> QED BY <1>6, <1>8, <3>2
  <2> QED BY <2>1, <2>2, <2>3
<1> QED BY <1>5, <1>8

\* Replace and Close, the drain's store apart, are not seen.
LEMMA RestStutters ==
    ASSUME RefInv,
           \/ \E keys \in SUBSET Key : ReplaceCopy(keys)
           \/ ReplaceSwap \/ DrainReceive \/ ReplaceDone
           \/ \E c \in Closer : CloserStep(c)
           \/ UNCHANGED vars
    PROVE  UNCHANGED <<Avail, Has, Lent>>
<1>1. queued' = queued /\ put' = put /\ sel' = sel
  BY DEF ReplaceCopy, ReplaceSwap, DrainReceive, ReplaceDone, CloserStep, CloseCheck, CloseDo, vars
<1>2. \A u \in User : pc'[u] = pc[u] /\ cur'[u] = cur[u]
  BY RestLeavesUsers DEF RefInv, UpdaterStep, ReplaceStep
<1> QED BY <1>1, <1>2 DEF Avail, Has, Lent, Answers

\* Every step of the pool is a step of the contract or is not seen in it.
LEMMA StepImplemented ==
    RefInv /\ [Next]_vars => Contract!Next \/ UNCHANGED <<Avail, Has, Lent>>
<1> SUFFICES ASSUME RefInv, [Next]_vars PROVE Contract!Next \/ UNCHANGED <<Avail, Has, Lent>>
  OBVIOUS
<1>1. ASSUME NEW u \in User, UserStep(u) PROVE Contract!Next \/ UNCHANGED <<Avail, Has, Lent>>
  <2>1. CASE \/ \E W \in SUBSET Provider : CallTake(u, W)
             \/ \E pid \in Provider : CallTryTakeFrom(u, pid)
             \/ TakeCancelled(u) \/ TakeClosed(u) \/ Receive(u) \/ LockScan(u)
             \/ ScanReceive(u) \/ ScanEnd(u) \/ PutSkip(u) \/ Send(u) \/ Full(u) \/ Done(u)
             \/ ReturnRequeue(u) \/ ReturnSuccess(u)
    BY <2>1, UnseenSteps, UnseenStutters
  <2>2. CASE \E f \in Front : Borrow(u, f)
    BY <2>2, LendImplemented
  <2>3. CASE Unqueue(u) \/ ScanUnqueue(u)
    BY <2>3, TakeImplemented
  <2>4. CASE Claim(u) \/ ClaimFails(u)
    BY <2>4, PutImplemented
  <2>5. CASE Drop(u)
    BY <2>5, ForgetImplemented
  <2>6. CASE ReturnFailed(u)
    BY <2>6, FailImplemented
  <2>7. CASE VetPassed(u) \/ VetFailed(u) \/ VetAbandoned(u) \/ VetThenDial(u)
    BY <2>7, VetImplemented
  <2> QED BY <1>1, <2>1, <2>2, <2>3, <2>4, <2>5, <2>6, <2>7
            DEF UserStep, CallStep, TakeStep, AddReadyStep, HoldStep
<1>2. CASE DrainUnqueue
  BY <1>2, ForgetImplemented
<1>3. CASE \/ \E keys \in SUBSET Key : ReplaceCopy(keys)
           \/ ReplaceSwap \/ DrainReceive \/ ReplaceDone
           \/ \E c \in Closer : CloserStep(c)
           \/ UNCHANGED vars
  BY <1>3, RestStutters
<1> QED BY <1>1, <1>2, <1>3 DEF Next, UpdaterStep, ReplaceStep

\* The channel, the flags and the two locks implement one set of fronts with
\* an indivisible take and put, whatever the goroutines, the capacity and the
\* number of updates (front.go:19-21, 120-149, 220-230).
THEOREM PoolIsRotation == Spec => ImplementsRotation
<1>1. Init => RefInv
  BY TypeInit, ProtocolInit, HandInit DEF RefInv
<1>2. RefInv /\ [Next]_vars => RefInv'
  BY TypeNext, ProtocolNext, HandNext DEF RefInv
<1>3. Init => Contract!Init
  <2> SUFFICES ASSUME Init PROVE Contract!Init
    OBVIOUS
  <2>1. Avail = {}
    BY DEF Init, Avail
  <2>2. \A u \in User : Answers(u) = {} /\ pc[u] = "idle"
    BY SmallRanges DEF Init, Answers, Proc
  <2> QED BY <2>1, <2>2 DEF Contract!Init, Has, Lent
<1>4. RefInv /\ [Next]_vars => [Contract!Next]_(Contract!vars)
  BY StepImplemented DEF Contract!vars
<1> QED BY <1>1, <1>2, <1>3, <1>4, PTL DEF Spec, ImplementsRotation, Contract!Spec
-----------------------------------------------------------------------------
(***************************************************************************)
(* No front is lost                                                        *)
(***************************************************************************)

\* Each kind of process stays in its own part of the program, and between
\* two fronts a goroutine has none in hand.
PlaceInv ==
    /\ \A u \in User :
          /\ pc[u] \notin {"swap", "drain", "drainUnqueue", "closing"}
          /\ pc[u] \in {"idle", "recv", "lock", "scan", "putBack"} => cur[u] = None
    /\ pc[Updater] \in {"idle", "swap", "drain", "drainUnqueue"}
    /\ \A c \in Closer : pc[c] \in {"idle", "closing"}

LEMMA PlaceInit == Init => PlaceInv
BY ProcAssumption DEF Init, PlaceInv, Proc

\* PlaceInv of everybody but u is kept by a step of u.
LEMMA PlaceOfOne ==
    ASSUME PlaceInv, NEW u \in User, \A q \in Proc \ {u} : pc'[q] = pc[q] /\ cur'[q] = cur[q],
           pc'[u] \notin {"swap", "drain", "drainUnqueue", "closing"},
           pc'[u] \in {"idle", "recv", "lock", "scan", "putBack"} => cur'[u] = None
    PROVE  PlaceInv'
<1>1. /\ \A v \in User \ {u} : pc'[v] = pc[v] /\ cur'[v] = cur[v]
      /\ pc'[Updater] = pc[Updater] /\ \A c \in Closer : pc'[c] = pc[c]
  BY ProcAssumption DEF Proc
<1> QED BY <1>1 DEF PlaceInv

LEMMA PlaceNext == TypeInv /\ HandInv /\ PlaceInv /\ [Next]_vars => PlaceInv'
<1> SUFFICES ASSUME TypeInv, HandInv, PlaceInv, [Next]_vars PROVE PlaceInv'
  OBVIOUS
<1>1. ASSUME NEW u \in User, UserStep(u) PROVE PlaceInv'
  <2> SUFFICES /\ pc'[u] \notin {"swap", "drain", "drainUnqueue", "closing"}
               /\ pc'[u] \in {"idle", "recv", "lock", "scan", "putBack"} => cur'[u] = None
    BY <1>1, StepIsOwn, PlaceOfOne
  <2>0. /\ u \in Proc
        /\ pc \in [Proc -> PC]
        /\ cur \in [Proc -> Front \cup {None}]
        /\ pc[u] \in {"idle", "recv", "lock", "scan", "putBack"} => cur[u] = None
    BY DEF TypeInv, TypeOK, Proc, PlaceInv
  <2>1. CASE CallStep(u)
    <3>1. CASE \E f \in Front : Borrow(u, f)
      BY <2>0, <3>1 DEF Borrow
    <3>2. CASE \/ \E W \in SUBSET Provider : CallTake(u, W)
               \/ \E pid \in Provider : CallTryTakeFrom(u, pid)
      BY <2>0, <3>2 DEF CallTake, CallTryTakeFrom
    <3> QED BY <2>1, <3>1, <3>2 DEF CallStep
  <2>2. CASE Receive(u)
    BY <2>0, <2>2 DEF Receive
  <2>3. CASE TakeCancelled(u) \/ TakeClosed(u)
    BY <2>0, <2>3 DEF TakeCancelled, TakeClosed, GiveUp
  <2>4. CASE Unqueue(u)
    BY <2>0, <2>4 DEF Unqueue
  <2>5. CASE ScanUnqueue(u)
    BY <2>0, <2>5 DEF ScanUnqueue
  <2>6. CASE LockScan(u) \/ ScanReceive(u) \/ ScanEnd(u)
    BY <2>0, <2>6 DEF LockScan, ScanReceive, ScanEnd
  <2>7. CASE PutSkip(u) \/ Claim(u) \/ ClaimFails(u)
    BY <2>0, <2>7 DEF PutSkip, Claim, ClaimFails
  <2>8. CASE Send(u) \/ Full(u) \/ Drop(u)
    BY <2>0, <2>8 DEF Send, Full, Drop
  <2>9. CASE Done(u)
    BY <2>0, <2>9 DEF Done
  <2>10. CASE ReturnRequeue(u) \/ ReturnSuccess(u) \/ VetPassed(u)
    BY <2>0, <2>10 DEF ReturnRequeue, ReturnSuccess, VetPassed, GiveBack
  <2>11. CASE ReturnFailed(u) \/ VetFailed(u) \/ VetAbandoned(u)
    BY <2>0, <2>11 DEF ReturnFailed, VetFailed, VetAbandoned, LetGo
  <2>12. CASE VetThenDial(u)
    BY <2>0, <2>12 DEF VetThenDial
  <2> QED BY <1>1, <2>1, <2>2, <2>3, <2>4, <2>5, <2>6, <2>7, <2>8, <2>9, <2>10, <2>11, <2>12
            DEF UserStep, TakeStep, AddReadyStep, HoldStep
<1>2. CASE UpdaterStep
  <2>1. /\ \A q \in Proc \ {Updater} : pc'[q] = pc[q] /\ cur'[q] = cur[q]
        /\ pc'[Updater] \in {"idle", "swap", "drain", "drainUnqueue"}
    BY <1>2 DEF UpdaterStep, ReplaceStep, ReplaceCopy, ReplaceSwap, DrainReceive, DrainUnqueue,
       ReplaceDone, TypeInv, TypeOK, Proc
  <2> QED BY <2>1, ProcAssumption DEF PlaceInv, Proc
<1>3. ASSUME NEW c \in Closer, CloserStep(c) PROVE PlaceInv'
  <2>1. /\ \A q \in Proc \ {c} : pc'[q] = pc[q]
        /\ cur' = cur /\ pc'[c] \in {"idle", "closing"}
    BY <1>3 DEF CloserStep, CloseCheck, CloseDo, TypeInv, TypeOK, Proc
  <2> QED BY <2>1, ProcAssumption DEF PlaceInv, Proc
<1>4. CASE UNCHANGED vars
  BY <1>4 DEF vars, PlaceInv
<1> QED BY <1>1, <1>2, <1>3, <1>4 DEF Next
-----------------------------------------------------------------------------
\* u accounts for f.
Holds(u, f) ==
    \/ cur[u] = f /\ pc[u] # "vet"
    \/ sel[u] = f
    \/ f \in Range(put[u])

LossInv == RefInv /\ PlaceInv

\* A step of u that moves fronts only between the channel and u loses none.
Keeps(u) ==
    /\ OnlyUser(u)
    /\ \A f \in Front : InQueue(f) \/ Holds(u, f) => InQueue(f)' \/ Holds(u, f)'

LEMMA KeepsRotation ==
    ASSUME NEW u \in User, Keeps(u), NEW f \in Front, InRotation(f) PROVE InRotation(f)'
BY DEF Keeps, OnlyUser, Holds, InRotation

LEMMA KeepingSteps ==
    ASSUME LossInv, NEW u \in User, UserStep(u),
           ~(ClaimFails(u) \/ Drop(u) \/ ReturnFailed(u))
    PROVE  Keeps(u)
<1> USE ProcAssumption DEF LossInv, RefInv, TypeInv, TypeOK, OnlyUser, Proc
<1>0. /\ pc[u] \in {"idle", "recv", "unqueue", "hold", "vet"} => sel[u] = None /\ put[u] = <<>>
      /\ pc[u] = "lock" => put[u] = <<>>
      /\ pc[u] \in {"scan", "scanUnqueue"} /\ sel[u] # None => sel[u] \in Range(put[u])
      /\ pc[u] \in {"idle", "recv", "lock", "scan", "putBack"} => cur[u] = None
      /\ None \notin Front
  BY DEF HandInv, PlaceInv
<1>1. ASSUME NEW W \in SUBSET Provider, CallTake(u, W) PROVE Keeps(u)
  BY <1>1 DEF CallTake, Keeps, Holds, InQueue
<1>2. ASSUME NEW pid \in Provider, CallTryTakeFrom(u, pid) PROVE Keeps(u)
  BY <1>2 DEF CallTryTakeFrom, Keeps, Holds, InQueue
<1>3. ASSUME NEW g \in Front, Borrow(u, g) PROVE Keeps(u)
  BY <1>0, <1>3 DEF Borrow, Keeps, Holds, InQueue
<1>4. CASE TakeCancelled(u) \/ TakeClosed(u)
  BY <1>4 DEF TakeCancelled, TakeClosed, GiveUp, Keeps, Holds, InQueue
<1>5. CASE Receive(u) \/ ScanReceive(u)
  <2>1. /\ ready # <<>> /\ ready' = Tail(ready) /\ cur'[u] = Head(ready) /\ cur[u] = None
        /\ pc'[u] # "vet" /\ sel' = sel /\ put' = put /\ OnlyUser(u)
    BY <1>0, <1>5 DEF Receive, ScanReceive
  <2>2. Range(ready) = Range(ready') \cup {Head(ready)}
    BY <2>1, TailOfQueue DEF Protocol, QueuedOnce
  <2> QED BY <1>0, <2>1, <2>2 DEF Keeps, Holds, InQueue
<1>6. CASE Unqueue(u)
  BY <1>0, <1>6 DEF Unqueue, Keeps, Holds, InQueue
<1>7. CASE ScanUnqueue(u)
  <2>1. cur[u] \in Front
    BY <1>7 DEF ScanUnqueue, HandNotEmpty, TokenPC
  <2>2. Range(Append(put[u], cur[u])) = Range(put[u]) \cup {cur[u]}
    BY <2>1, SmallRanges
  <2> QED BY <1>0, <1>7, <2>1, <2>2 DEF ScanUnqueue, Keeps, Holds, InQueue
<1>8. CASE LockScan(u)
  <2>1. Range(put[u]) = {} /\ sel' = sel /\ cur' = cur /\ ready' = ready /\ pc[u] = "lock"
        /\ pc'[u] = "scan" /\ OnlyUser(u)
    BY <1>0, <1>8, SmallRanges DEF LockScan
  <2> QED BY <2>1 DEF Keeps, Holds, InQueue
<1>9. CASE ScanEnd(u)
  BY <1>9 DEF ScanEnd, Keeps, Holds, InQueue
<1>10. CASE PutSkip(u) \/ Claim(u)
  <2>1. /\ Range(put[u]) = Range(put'[u]) \cup {Head(put[u])} /\ OnlyUser(u) /\ pc[u] = "putBack"
        /\ ready' = ready /\ sel' = sel /\ pc'[u] # "vet"
        /\ Head(put[u]) = sel[u] \/ Head(put[u]) = cur'[u]
    <3>1. put[u] \in Seq(Front) /\ put[u] # <<>> /\ put'[u] = Tail(put[u])
      BY <1>10 DEF PutSkip, Claim
    <3>2. Range(put[u]) = Range(put'[u]) \cup {Head(put[u])}
      BY <3>1, TailOfPut
    <3>3. CASE PutSkip(u)
      BY <3>2, <3>3 DEF PutSkip
    <3>4. CASE Claim(u)
      BY <3>2, <3>4 DEF Claim
    <3> QED BY <1>10, <3>3, <3>4
  <2> QED BY <1>0, <2>1 DEF Keeps, Holds, InQueue
<1>11. CASE Send(u)
  <2>1. cur[u] \in Front /\ cur[u] \notin Range(ready)
    BY <1>11 DEF Send, HandNotEmpty, TokenPC, Protocol, TokenIsExclusive, Owns, InQueue
  <2>2. Range(ready') = Range(ready) \cup {cur[u]}
    BY <1>11, <2>1, AppendToQueue DEF Send, Protocol, QueuedOnce
  <2> QED BY <1>11, <2>2 DEF Send, Keeps, Holds, InQueue
<1>12. CASE Full(u)
  BY <1>12 DEF Full, Keeps, Holds, InQueue
<1>13. CASE Done(u)
  <2>1. Range(put[u]) = {}
    BY <1>13, SmallRanges DEF Done
  <2> QED BY <1>0, <1>13, <2>1 DEF Done, Keeps, Holds, InQueue
<1>14. CASE ReturnRequeue(u) \/ ReturnSuccess(u) \/ VetPassed(u)
  <2>1. /\ pc[u] \in {"hold", "vet"} /\ put'[u] = <<cur[u]>> /\ sel' = sel /\ ready' = ready
        /\ put[u] = <<>> /\ OnlyUser(u)
    BY <1>0, <1>14 DEF ReturnRequeue, ReturnSuccess, VetPassed, GiveBack
  <2>2. Range(put[u]) = {} /\ Range(put'[u]) = {cur[u]}
    BY <2>1, SmallRanges
  <2> QED BY <2>1, <2>2 DEF Keeps, Holds, InQueue
<1>15. CASE VetFailed(u) \/ VetAbandoned(u)
  BY <1>15 DEF VetFailed, VetAbandoned, LetGo, Keeps, Holds, InQueue
<1>16. CASE VetThenDial(u)
  BY <1>16 DEF VetThenDial, Keeps, Holds, InQueue
<1> QED BY <1>1, <1>2, <1>3, <1>4, <1>5, <1>6, <1>7, <1>8, <1>9, <1>10, <1>11, <1>12, <1>13,
           <1>14, <1>15, <1>16
        DEF UserStep, CallStep, TakeStep, AddReadyStep, HoldStep

LEMMA LossAccounted ==
    ASSUME LossInv, LossInv', [Next]_vars, NEW f \in Front, InRotation(f), ~InRotation(f)'
    PROVE  (\E u \in User : FailedBy(u, f) \/ DroppedBy(u, f)) \/ Drained(f)
<1> USE ProcAssumption DEF LossInv, RefInv, TypeInv, TypeOK, OnlyUser, Proc
<1>1. ASSUME NEW u \in User, UserStep(u), ~(ClaimFails(u) \/ Drop(u) \/ ReturnFailed(u))
      PROVE  FALSE
  BY <1>1, KeepingSteps, KeepsRotation
<1>2. ASSUME NEW u \in User, ClaimFails(u) PROVE Drained(f)
  \* The flag that made the compare-and-swap fail has the channel or a token
  \* behind it, and the only token outside the rotation is the drain's.
  <2>1. /\ put[u] \in Seq(Front) /\ put[u] # <<>> /\ put'[u] = Tail(put[u])
        /\ queued[Head(put[u])]
        /\ OnlyUser(u) /\ pc' = pc /\ cur' = cur /\ sel' = sel /\ ready' = ready
    BY <1>2 DEF ClaimFails
  <2>2. Range(put[u]) = Range(put'[u]) \cup {Head(put[u])}
    BY <2>1, TailOfPut
  <2>3. f = Head(put[u])
    BY <2>1, <2>2 DEF InRotation, InQueue, OnlyUser
  <2>4. ~InQueue(f)
    BY <2>1 DEF InRotation, InQueue
  <2>5. PICK p \in Proc : Owns(p) /\ cur[p] = f
    BY <2>1, <2>3, <2>4 DEF Protocol, NoStuckFlag
  <2>6. p \notin User
    BY <2>1, <2>5 DEF InRotation, Owns, TokenPC
  <2>7. pc[p] = "drainUnqueue" /\ p = Updater
    BY <2>5, <2>6 DEF PlaceInv, Owns, TokenPC
  <2> QED BY <2>5, <2>7 DEF Drained
<1>3. ASSUME NEW u \in User, Drop(u) PROVE DroppedBy(u, f)
  <2>1. /\ OnlyUser(u) /\ sel' = sel /\ put' = put /\ ready' = ready /\ pc[u] = "drop"
        /\ pc'[u] = "putBack"
    BY <1>3 DEF Drop
  <2>2. cur[u] = f
    BY <2>1 DEF InRotation, InQueue, OnlyUser
  <2> QED BY <2>1, <2>2 DEF DroppedBy
<1>4. ASSUME NEW u \in User, ReturnFailed(u) PROVE FailedBy(u, f)
  <2>1. /\ OnlyUser(u) /\ sel' = sel /\ put' = put /\ ready' = ready /\ pc[u] = "hold"
        /\ pc'[u] = "idle" /\ succ' = [succ EXCEPT ![cur[u]] = FALSE]
    BY <1>4 DEF ReturnFailed, LetGo
  <2>2. cur[u] = f
    BY <2>1 DEF InRotation, InQueue, OnlyUser
  <2>3. ~succ'[f]
    BY <2>1, <2>2
  <2> QED BY <2>1, <2>2, <2>3 DEF FailedBy
<1>5. ASSUME DrainReceive PROVE Drained(f)
  <2>1. /\ pc[Updater] = "drain" /\ pc'[Updater] = "drainUnqueue"
        /\ ready # <<>> /\ ready' = Tail(ready) /\ sel' = sel /\ put' = put
        /\ \A u \in User : pc'[u] = pc[u] /\ cur'[u] = cur[u]
    BY <1>5 DEF DrainReceive
  <2>2. Range(ready) = Range(ready') \cup {Head(ready)}
    BY <2>1, TailOfQueue DEF Protocol, QueuedOnce
  <2>3. Head(ready) = f
    BY <2>1, <2>2 DEF InRotation, InQueue
  <2> QED BY <2>1, <2>3 DEF Drained
<1>6. CASE \/ \E keys \in SUBSET Key : ReplaceCopy(keys)
           \/ ReplaceSwap \/ DrainUnqueue \/ ReplaceDone
           \/ \E c \in Closer : CloserStep(c)
           \/ UNCHANGED vars
  <2>1. ready' = ready /\ put' = put /\ sel' = sel
    BY <1>6 DEF ReplaceCopy, ReplaceSwap, DrainUnqueue, ReplaceDone, CloserStep, CloseCheck,
       CloseDo, vars
  <2>2. \A u \in User : pc'[u] = pc[u] /\ cur'[u] = cur[u]
    BY <1>6, RestLeavesUsers DEF UpdaterStep, ReplaceStep
  <2> QED BY <2>1, <2>2 DEF InRotation, InQueue
<1> QED BY <1>1, <1>2, <1>3, <1>4, <1>5, <1>6 DEF Next, UpdaterStep, ReplaceStep

\* A front leaves the rotation only when its holder fails it, the channel is
\* full or Replace drains it; a compare-and-swap that fails while the drain
\* has the front counts as the last (front.go:109-117, 156-194, 232-249).
THEOREM NoFrontIsLost == Spec => NeverLost
<1>1. Init => LossInv
  BY TypeInit, ProtocolInit, HandInit, PlaceInit DEF LossInv, RefInv
<1>2. LossInv /\ [Next]_vars => LossInv'
  BY TypeNext, ProtocolNext, HandNext, PlaceNext DEF LossInv, RefInv
<1>3. LossInv /\ LossInv' /\ [Next]_vars =>
        [\A f \in Front : InRotation(f) /\ ~InRotation(f)' =>
            \/ \E u \in User : FailedBy(u, f) \/ DroppedBy(u, f)
            \/ Drained(f)]_vars
  BY LossAccounted
<1> QED BY <1>1, <1>2, <1>3, PTL DEF Spec, NeverLost
-----------------------------------------------------------------------------
(***************************************************************************)
(* scanMu                                                                  *)
(***************************************************************************)

\* scanMu is held by one scan, from its first look at the channel until its
\* last skipped front is back, and never by a goroutine that is through or
\* that waits for a front, for scanMu or for p.mu (front.go:172-193, 200-217).
LockHolderRuns ==
    /\ \A u \in User : pc[u] \in {"scan", "scanUnqueue"} => scanMu = u
    /\ scanMu # None => pc[scanMu] \in ScanPC

\* LockHolderRuns of every goroutine but u is kept by a step of u that takes
\* or gives up the lock for itself only.
LEMMA LockOfOne ==
    ASSUME TypeInv, LockHolderRuns, NEW u \in User, OnlyUser(u),
           \/ scanMu' = scanMu
           \/ scanMu \in {None, u} /\ scanMu' \in {None, u},
           pc'[u] \in {"scan", "scanUnqueue"} => scanMu' = u,
           scanMu' = u => pc'[u] \in ScanPC
    PROVE  LockHolderRuns'
<1>1. None \notin User /\ scanMu \in User \cup {None}
  BY ProcAssumption DEF TypeInv, TypeOK, Proc
<1>2. ASSUME NEW v \in User \ {u}, pc'[v] \in {"scan", "scanUnqueue"} PROVE scanMu' = v
  BY <1>1, <1>2 DEF LockHolderRuns, OnlyUser
<1>3. ASSUME scanMu' # None, scanMu' # u PROVE pc'[scanMu'] \in ScanPC
  BY <1>1, <1>3 DEF LockHolderRuns, OnlyUser
<1> QED BY <1>2, <1>3 DEF LockHolderRuns

LEMMA LockNext == TypeInv /\ LockHolderRuns /\ [Next]_vars => LockHolderRuns'
<1> SUFFICES ASSUME TypeInv, LockHolderRuns, [Next]_vars PROVE LockHolderRuns'
  OBVIOUS
<1>1. ASSUME NEW u \in User, UserStep(u) PROVE LockHolderRuns'
  <2> SUFFICES /\ \/ scanMu' = scanMu
                  \/ scanMu \in {None, u} /\ scanMu' \in {None, u}
               /\ pc'[u] \in {"scan", "scanUnqueue"} => scanMu' = u
               /\ scanMu' = u => pc'[u] \in ScanPC
    BY <1>1, StepIsOwn, LockOfOne
  <2>1. /\ u \in Proc /\ pc \in [Proc -> PC] /\ u # None
        /\ pc[u] \in {"scan", "scanUnqueue"} => scanMu = u
        /\ scanMu = u => pc[u] \in ScanPC
    BY ProcAssumption DEF TypeInv, TypeOK, Proc, LockHolderRuns
  <2>2. CASE CallStep(u) \/ TakeCancelled(u) \/ Receive(u) \/ TakeClosed(u)
    <3>1. /\ pc[u] \in {"idle", "recv"} /\ pc'[u] \in {"idle", "recv", "lock", "vet", "unqueue"}
          /\ scanMu' = scanMu
      BY <2>1, <2>2 DEF CallStep, CallTake, CallTryTakeFrom, Borrow, TakeCancelled, TakeClosed,
         GiveUp, Receive
    <3> QED BY <2>1, <3>1 DEF ScanPC
  <2>3. CASE Unqueue(u)
    <3>1. pc[u] = "unqueue" /\ pc'[u] \in {"hold", "lock"} /\ scanMu' = scanMu
      BY <2>1, <2>3 DEF Unqueue
    <3> QED BY <2>1, <3>1 DEF ScanPC
  <2>4. CASE LockScan(u)
    BY <2>1, <2>4 DEF LockScan, ScanPC
  <2>5. CASE ScanReceive(u) \/ ScanUnqueue(u) \/ ScanEnd(u)
    <3>1. /\ pc[u] \in {"scan", "scanUnqueue"}
          /\ pc'[u] \in {"scan", "scanUnqueue", "putBack"}
          /\ scanMu' = scanMu
      BY <2>1, <2>5 DEF ScanReceive, ScanUnqueue, ScanEnd
    <3> QED BY <2>1, <3>1 DEF ScanPC
  <2>6. CASE PutSkip(u) \/ Claim(u) \/ ClaimFails(u) \/ Send(u) \/ Full(u) \/ Drop(u)
    <3>1. pc'[u] \in {"putBack", "send", "drop"} /\ scanMu' = scanMu
      BY <2>1, <2>6 DEF PutSkip, Claim, ClaimFails, Send, Full, Drop
    <3>2. pc[u] \in ScanPC
      BY <2>6 DEF PutSkip, Claim, ClaimFails, Send, Full, Drop, ScanPC
    <3> QED BY <2>1, <3>1, <3>2 DEF ScanPC
  <2>7. CASE Done(u)
    <3>1. pc'[u] \in {"idle", "hold"} /\ scanMu' = IF scanMu = u THEN None ELSE scanMu
      BY <2>1, <2>7 DEF Done
    <3> QED BY <2>1, <3>1
  <2>8. CASE HoldStep(u)
    <3>1. pc[u] \in {"hold", "vet"} /\ scanMu' = scanMu
      BY <2>8 DEF HoldStep, ReturnRequeue, ReturnFailed, ReturnSuccess, VetPassed, VetFailed,
         VetAbandoned, VetThenDial, GiveBack, LetGo
    <3>2. pc'[u] \in {"putBack", "idle", "vet", "hold"}
      BY <2>1, <2>8 DEF HoldStep, ReturnRequeue, ReturnFailed, ReturnSuccess, VetPassed, VetFailed,
         VetAbandoned, VetThenDial, GiveBack, LetGo
    <3> QED BY <2>1, <3>1, <3>2 DEF ScanPC
  <2> QED BY <1>1, <2>2, <2>3, <2>4, <2>5, <2>6, <2>7, <2>8 DEF UserStep, TakeStep, AddReadyStep
<1>2. CASE UpdaterStep \/ (\E c \in Closer : CloserStep(c)) \/ UNCHANGED vars
  <2>1. scanMu' = scanMu
    BY <1>2 DEF UpdaterStep, ReplaceStep, ReplaceCopy, ReplaceSwap, DrainReceive, DrainUnqueue,
       ReplaceDone, CloserStep, CloseCheck, CloseDo, vars
  <2>2. \A v \in User : pc'[v] = pc[v]
    BY <1>2, RestLeavesUsers
  <2> QED BY <2>1, <2>2 DEF LockHolderRuns, TypeInv, TypeOK
<1> QED BY <1>1, <1>2 DEF Next

\* Scans exclude each other and none leaves the lock behind, whatever it
\* found (front.go:172-193, 200-217).
THEOREM LockIsReleased == Spec => []LockHolderRuns
<1>1. Init => LockHolderRuns
  BY ProcAssumption DEF Init, LockHolderRuns, Proc
<1> QED BY <1>1, LockNext, TypeCorrect, PTL DEF Spec
-----------------------------------------------------------------------------
(***************************************************************************)
(* The length of a scan                                                    *)
(***************************************************************************)
LEMMA WorkIs ==
    ASSUME NEW u
    PROVE  /\ pc[u] \notin ScanPC => Work(u) = 0
           /\ pc[u] = "scan" => Work(u) = 6 * left[u] + 4 * Len(put[u]) + 2
           /\ pc[u] = "scanUnqueue" => Work(u) = 6 * left[u] + 4 * Len(put[u]) + 7
           /\ pc[u] = "putBack" => Work(u) = 6 * left[u] + 4 * Len(put[u]) + 1
           /\ pc[u] = "send" => Work(u) = 6 * left[u] + 4 * Len(put[u]) + 4
           /\ pc[u] = "drop" => Work(u) = 6 * left[u] + 4 * Len(put[u]) + 3
BY DEF Work, ScanPC, StepsAt

\* The same of the next state.
LEMMA NextWorkIs ==
    ASSUME NEW u
    PROVE  /\ pc'[u] \notin ScanPC => Work(u)' = 0
           /\ pc'[u] = "scan" => Work(u)' = 6 * left'[u] + 4 * Len(put'[u]) + 2
           /\ pc'[u] = "scanUnqueue" => Work(u)' = 6 * left'[u] + 4 * Len(put'[u]) + 7
           /\ pc'[u] = "putBack" => Work(u)' = 6 * left'[u] + 4 * Len(put'[u]) + 1
           /\ pc'[u] = "send" => Work(u)' = 6 * left'[u] + 4 * Len(put'[u]) + 4
           /\ pc'[u] = "drop" => Work(u)' = 6 * left'[u] + 4 * Len(put'[u]) + 3
BY DEF Work, ScanPC, StepsAt

LEMMA ScanStepShortens ==
    ASSUME TypeInv, NEW u \in User, UserStep(u), pc[u] \in ScanPC
    PROVE  Work(u)' < Work(u)
<1>1. /\ u \in Proc /\ pc \in [Proc -> PC] /\ left \in [User -> Nat] /\ left[u] \in Nat
      /\ put \in [User -> Seq(Front)] /\ put[u] \in Seq(Front) /\ Len(put[u]) \in Nat
  BY DEF TypeInv, TypeOK, Proc
<1>2. CASE ScanReceive(u)
  <2>1. /\ pc[u] = "scan" /\ pc'[u] = "scanUnqueue"
        /\ left'[u] = left[u] - 1 /\ put'[u] = put[u]
    BY <1>1, <1>2 DEF ScanReceive
  <2>2. Work(u) = 6 * left[u] + 4 * Len(put[u]) + 2
    BY <2>1, WorkIs
  <2>3. Work(u)' = 6 * (left[u] - 1) + 4 * Len(put[u]) + 7
    BY <2>1, NextWorkIs
  <2> QED BY <1>1, <2>2, <2>3
<1>3. CASE ScanUnqueue(u)
  <2>1. cur[u] \in Front
    BY <1>1, <1>3 DEF TypeInv, HandNotEmpty, TokenPC, ScanUnqueue
  <2>2. /\ pc[u] = "scanUnqueue" /\ left'[u] = left[u]
        /\ \/ pc'[u] = "putBack" /\ put'[u] = put[u]
           \/ pc'[u] = "scan" /\ put'[u] = Append(put[u], cur[u])
    BY <1>1, <1>3 DEF ScanUnqueue
  <2>3. Len(put'[u]) <= Len(put[u]) + 1 /\ Len(put'[u]) \in Nat
        /\ (pc'[u] = "putBack" => Len(put'[u]) = Len(put[u]))
    BY <1>1, <2>1, <2>2
  <2> QED BY <1>1, <2>2, <2>3, WorkIs, NextWorkIs
<1>4. CASE ScanEnd(u)
  <2>1. pc[u] = "scan" /\ pc'[u] = "putBack" /\ left'[u] = left[u] /\ put'[u] = put[u]
    BY <1>1, <1>4 DEF ScanEnd
  <2> QED BY <1>1, <2>1, WorkIs, NextWorkIs
<1>5. CASE PutSkip(u) \/ Claim(u) \/ ClaimFails(u)
  <2>1. /\ pc[u] = "putBack" /\ pc'[u] \in {"putBack", "send"} /\ left'[u] = left[u]
        /\ put[u] # <<>> /\ put'[u] = Tail(put[u])
    BY <1>1, <1>5 DEF PutSkip, Claim, ClaimFails
  <2>2. Len(put'[u]) = Len(put[u]) - 1
    BY <1>1, <2>1
  <2> QED BY <1>1, <2>1, <2>2, WorkIs, NextWorkIs
<1>6. CASE Send(u) \/ Full(u) \/ Drop(u)
  <2>1. /\ \/ pc[u] = "send" /\ pc'[u] \in {"putBack", "drop"}
           \/ pc[u] = "drop" /\ pc'[u] = "putBack"
        /\ left'[u] = left[u] /\ put'[u] = put[u]
    BY <1>1, <1>6 DEF Send, Full, Drop
  <2> QED BY <1>1, <2>1, WorkIs, NextWorkIs
<1>7. CASE Done(u)
  <2>1. pc[u] = "putBack" /\ pc'[u] \in {"idle", "hold"}
    BY <1>1, <1>7 DEF Done
  <2>2. Work(u) = 6 * left[u] + 4 * Len(put[u]) + 1
    BY <2>1, WorkIs
  <2>3. Work(u)' = 0
    BY <2>1, NextWorkIs DEF ScanPC
  <2> QED BY <1>1, <2>2, <2>3
<1>8. ~(CallStep(u) \/ TakeCancelled(u) \/ Receive(u) \/ TakeClosed(u) \/ Unqueue(u)
          \/ LockScan(u) \/ HoldStep(u))
  BY DEF ScanPC, CallStep, CallTake, CallTryTakeFrom, Borrow, TakeCancelled, TakeClosed, GiveUp,
     Receive, Unqueue, LockScan, HoldStep, ReturnRequeue, ReturnFailed, ReturnSuccess, VetPassed,
     VetFailed, VetAbandoned, VetThenDial
<1> QED BY <1>2, <1>3, <1>4, <1>5, <1>6, <1>7, <1>8 DEF UserStep, TakeStep, AddReadyStep

\* What a scan counts before its first receive is at most what the channel
\* holds.
LEMMA LockBoundsWork ==
    ASSUME TypeInv, NEW u \in User, UserStep(u), pc[u] = "lock"
    PROVE  Work(u)' <= 6 * Cap + 6
<1>1. LockScan(u)
  BY DEF UserStep, CallStep, CallTake, CallTryTakeFrom, Borrow, TakeCancelled, GiveUp, TakeStep,
     Receive, TakeClosed, Unqueue, ScanReceive, ScanUnqueue, ScanEnd, AddReadyStep, PutSkip, Claim,
     ClaimFails, Send, Full, Drop, Done, HoldStep, ReturnRequeue, ReturnFailed, ReturnSuccess,
     VetPassed, VetFailed, VetAbandoned, VetThenDial
<1>2. /\ u \in Proc /\ pc \in [Proc -> PC] /\ left \in [User -> Nat] /\ put \in [User -> Seq(Front)]
      /\ Len(ready) \in Nat /\ Len(ready) <= Cap /\ Cap \in Nat /\ MaxScan \in Nat
  BY BoundAssumption DEF TypeInv, TypeOK, Proc
<1>3. pc'[u] = "scan" /\ (put'[u] = <<>> \/ put'[u] = <<sel[u]>>)
  BY <1>1, <1>2 DEF LockScan
<1>4. left'[u] \in Nat /\ left'[u] <= Cap
  BY <1>1, <1>2 DEF LockScan
<1>5. Len(put'[u]) \in Nat /\ Len(put'[u]) <= 1
  <2>1. CASE put'[u] = <<>>
    <3>1. Len(put'[u]) = 0
      BY <2>1
    <3> QED BY <3>1
  <2>2. CASE put'[u] = <<sel[u]>>
    <3>1. Len(put'[u]) = 1
      BY <2>2
    <3> QED BY <3>1
  <2> QED BY <1>3, <2>1, <2>2
<1>6. Work(u)' = 6 * left'[u] + 4 * Len(put'[u]) + 2
  BY <1>3, NextWorkIs
<1> QED BY <1>2, <1>4, <1>5, <1>6

\* Nothing another goroutine does lengthens a scan.
LEMMA OthersLeaveWork ==
    ASSUME TypeInv, [Next]_vars, NEW u \in User, ~UserStep(u)
    PROVE  UNCHANGED <<pc[u], put[u], left[u]>>
<1>1. ASSUME NEW v \in User \ {u}, UserStep(v)
      PROVE  UNCHANGED <<pc[u], put[u], left[u]>>
  <2>1. pc'[u] = pc[u] /\ put'[u] = put[u]
    BY <1>1, StepIsOwn DEF OnlyUser
  <2>2. left \in [User -> Nat]
    BY DEF TypeInv, TypeOK
  <2>3. LockScan(v) \/ ScanReceive(v) \/ Done(v) => left'[u] = left[u]
    BY <2>2 DEF LockScan, ScanReceive, Done
  <2>4. ~(LockScan(v) \/ ScanReceive(v) \/ Done(v)) => left' = left
    BY <1>1 DEF UserStep, CallStep, CallTake, CallTryTakeFrom, Borrow, TakeCancelled, GiveUp,
       TakeStep, Receive, TakeClosed, Unqueue, ScanUnqueue, ScanEnd, AddReadyStep, PutSkip, Claim,
       ClaimFails, Send, Full, Drop, HoldStep, ReturnRequeue, ReturnFailed, ReturnSuccess,
       VetPassed, VetFailed, VetAbandoned, VetThenDial, GiveBack, LetGo
  <2>5. left'[u] = left[u]
    BY <2>3, <2>4
  <2> QED BY <2>1, <2>5
<1>2. CASE UpdaterStep \/ (\E c \in Closer : CloserStep(c)) \/ UNCHANGED vars
  <2>1. put' = put /\ left' = left
    BY <1>2 DEF UpdaterStep, ReplaceStep, ReplaceCopy, ReplaceSwap, DrainReceive, DrainUnqueue,
       ReplaceDone, CloserStep, CloseCheck, CloseDo, vars
  <2> QED BY <1>2, <2>1, RestLeavesUsers
<1> QED BY <1>1, <1>2 DEF Next

\* A scan that has taken scanMu releases it after at most 6 * Cap + 6 steps of
\* its own, whatever the goroutines that send and receive in between do
\* (front.go:172-193, 200-217).
THEOREM ScansAreBounded == Spec => ScanIsBounded
<1>1. TypeInv /\ [Next]_vars =>
        [\A u \in User :
           /\ pc[u] = "lock" => Work(u)' <= 6 * Cap + 6
           /\ pc[u] \in ScanPC =>
                 Work(u)' < Work(u) \/ UNCHANGED <<pc[u], put[u], left[u]>>]_vars
  <2> SUFFICES ASSUME TypeInv, [Next]_vars, NEW u \in User
               PROVE  /\ pc[u] = "lock" => Work(u)' <= 6 * Cap + 6
                      /\ pc[u] \in ScanPC =>
                            Work(u)' < Work(u) \/ UNCHANGED <<pc[u], put[u], left[u]>>
    OBVIOUS
  <2>1. CASE UserStep(u)
    BY <2>1, LockBoundsWork, ScanStepShortens DEF ScanPC
  <2>2. CASE ~UserStep(u)
    <3>1. UNCHANGED <<pc[u], put[u], left[u]>>
      BY <2>2, OthersLeaveWork
    <3>2. pc[u] = "lock" => Work(u)' = 0
      BY <3>1, NextWorkIs DEF ScanPC
    <3> QED BY <3>1, <3>2, BoundAssumption
  <2> QED BY <2>1, <2>2
<1> QED BY <1>1, TypeCorrect, PTL DEF Spec, ScanIsBounded
-----------------------------------------------------------------------------
(***************************************************************************)
(* Close                                                                   *)
(***************************************************************************)

\* While a goroutine is between the test and the close, nobody has closed.
CloseInv == ~panicked /\ \A c \in Closer : pc[c] = "closing" => ~closed

\* One goroutine may call Close as often as it likes: the test of p.closed
\* keeps the second call from closing the channel again.  Only another
\* goroutine's call between the test and the close makes it panic, which is
\* what a run of FrontPool finds (front.go:261-269).
THEOREM OneCloserIsSafe ==
  ASSUME \A c, d \in Closer : c = d
  PROVE  Spec => []ClosedOnce
<1>1. Init => CloseInv
  BY DEF Init, CloseInv, Proc
<1>2. TypeInv /\ CloseInv /\ [Next]_vars => CloseInv'
  <2> SUFFICES ASSUME TypeInv, CloseInv, [Next]_vars PROVE CloseInv'
    OBVIOUS
  <2>1. pc \in [Proc -> PC] /\ User \cap Closer = {} /\ Updater \notin Closer
    BY ProcAssumption DEF TypeInv, TypeOK
  <2>2. ASSUME NEW u \in User, UserStep(u) PROVE CloseInv'
    <3>1. \A c \in Closer : pc'[c] = pc[c]
      BY <2>1, <2>2, StepIsOwn DEF Proc
    <3>2. UNCHANGED closeVars
      BY <2>2 DEF UserStep, CallStep, CallTake, CallTryTakeFrom, Borrow, TakeCancelled, GiveUp,
         TakeStep, Receive, TakeClosed, Unqueue, LockScan, ScanReceive, ScanUnqueue, ScanEnd,
         AddReadyStep, PutSkip, Claim, ClaimFails, Send, Full, Drop, Done, HoldStep, ReturnRequeue,
         ReturnFailed, ReturnSuccess, VetPassed, VetFailed, VetAbandoned, VetThenDial, GiveBack,
         LetGo
    <3> QED BY <3>1, <3>2 DEF CloseInv
  <2>3. CASE UpdaterStep \/ UNCHANGED vars
    <3>1. \A c \in Closer : pc'[c] = pc[c]
      BY <2>1, <2>3 DEF UpdaterStep, ReplaceStep, ReplaceCopy, ReplaceSwap, DrainReceive,
         DrainUnqueue, ReplaceDone, vars, Proc
    <3>2. UNCHANGED closeVars
      BY <2>3 DEF UpdaterStep, ReplaceStep, ReplaceCopy, ReplaceSwap, DrainReceive, DrainUnqueue,
         ReplaceDone, vars
    <3> QED BY <3>1, <3>2 DEF CloseInv
  <2>4. ASSUME NEW c \in Closer, CloserStep(c) PROVE CloseInv'
    <3>1. \A d \in Closer : d = c
      BY <2>4
    <3>2. CASE CloseCheck(c)
      BY <3>1, <3>2 DEF CloseCheck, CloseInv
    <3>3. CASE CloseDo(c)
      BY <2>1, <3>1, <3>3 DEF CloseDo, CloseInv, Proc
    <3> QED BY <2>4, <3>2, <3>3 DEF CloserStep
  <2> QED BY <2>2, <2>3, <2>4 DEF Next
<1>3. CloseInv => ClosedOnce
  BY DEF CloseInv, ClosedOnce
<1> QED BY <1>1, <1>2, <1>3, TypeCorrect, PTL DEF Spec
=============================================================================
