-------------------------- MODULE RoundTripProofs --------------------------
(***************************************************************************)
(* Theorems about RoundTrip, for any number of calls, fronts, providers,   *)
(* attempts and things that happen around them.                            *)
(***************************************************************************)
EXTENDS RoundTrip, ProviderConfigProofs, TLAPS

\* The parts of TypeOK: the pool, the world and the calls.  Two variables it
\* says nothing of the domain of are functions.
PoolInv == ready \in Seq(Front) /\ succ \subseteq Front
WorldInv ==
    /\ config \in [Provider -> Offered \cup {Gone}]
    /\ providers = [p \in Provider |-> providers[p]]
    /\ \A p \in Provider : providers[p] \in Published(config[p])
    /\ applying \in BOOLEAN
    /\ paused \in BOOLEAN /\ closed \in BOOLEAN /\ changes \in 0 .. MaxChange
    /\ ctxDone \in [Call -> BOOLEAN]
CallInv ==
    /\ pc \in [Call -> PC]
    /\ tries \in [Call -> 0 .. MaxRetries]
    /\ tried \in [Call -> SUBSET Provider] /\ rejected \in [Call -> SUBSET Provider]
    /\ front \in [Call -> Front \cup {None}]
    /\ left \in [Call -> 0 .. MaxScan] /\ skipped \in [Call -> Seq(Front)]
    /\ open \in [Call -> 0 .. 1]
    /\ gaveUp \in [Call -> BOOLEAN]

\* A call has a front in hand exactly while an attempt lasts.
HandInv ==
    \A c \in Call :
        front[c] \in Front <=>
            pc[c] \in {"wait", "scan", "put", "lookup", "dial", "failed", "send"}

\* It has a connection open exactly while it sends or its response is read.
ConnInv == \A c \in Call : open[c] = IF pc[c] \in {"send", "ok"} THEN 1 ELSE 0

\* The providers a call remembers are the ones that rejected its request.
TriedInv == \A c \in Call : tried[c] = rejected[c]

IInv == PoolInv /\ WorldInv /\ CallInv /\ HandInv /\ ConnInv /\ TriedInv

LEMMA RoundTripInit == Init => IInv
<1> SUFFICES ASSUME Init PROVE IInv
  OBVIOUS
<1> USE RoundTripAssumption DEF Init
<1>1. WorldInv
  <2>1. PICK c \in Offered, ep \in UNION {Published(d) : d \in Offered} :
           /\ ep \in Published(c)
           /\ config = [p \in Provider |-> c] /\ providers = [p \in Provider |-> ep]
    OBVIOUS
  <2>2. c \in Offered /\ ep \in Published(c)
    BY <2>1
  <2>3. /\ config \in [Provider -> Offered \cup {Gone}]
        /\ providers = [p \in Provider |-> providers[p]]
        /\ \A p \in Provider : providers[p] \in Published(config[p])
    BY <2>1, <2>2
  <2>4. applying \in BOOLEAN /\ paused \in BOOLEAN /\ closed \in BOOLEAN
    OBVIOUS
  <2>5. changes \in 0 .. MaxChange
    OBVIOUS
  <2>6. ctxDone \in [Call -> BOOLEAN]
    OBVIOUS
  <2> HIDE DEF Init
  <2> QED BY <2>3, <2>4, <2>5, <2>6 DEF WorldInv
<1>2. PoolInv /\ CallInv /\ HandInv /\ ConnInv /\ TriedInv
  BY DEF PoolInv, CallInv, HandInv, ConnInv, TriedInv, PC
<1> QED BY <1>1, <1>2 DEF IInv

\* What the steps on the queue do to the set of the fronts in it.
LEMMA AddQueues ==
    ASSUME ready \in Seq(Front), NEW f \in Front, addReady(f)
    PROVE  ready' \in Seq(Front) /\ Queued' = Queued \cup {f}
<1>1. CASE f \in Queued
  BY <1>1 DEF addReady, Queued
<1>2. CASE f \notin Queued
  <2>1. ready' = Append(ready, f)
    BY <1>2 DEF addReady
  <2>2. /\ ready' \in Seq(Front) /\ DOMAIN ready' = DOMAIN ready \cup {Len(ready) + 1}
        /\ ready'[Len(ready) + 1] = f /\ \A i \in DOMAIN ready : ready'[i] = ready[i]
    BY <2>1
  <2> QED BY <2>2 DEF Queued, Sequence!ToSet
<1> QED BY <1>1, <1>2

LEMMA PullDequeues ==
    ASSUME ready \in Seq(Front), ready # <<>>, ready' = Tail(ready)
    PROVE  /\ ready' \in Seq(Front) /\ Head(ready) \in Front
           /\ Queued \subseteq Queued' \cup {Head(ready)}
<1>1. ready' \in Seq(Front) /\ Head(ready) \in Front
  OBVIOUS
<1>2. ASSUME NEW i \in DOMAIN ready, i # 1
      PROVE  i - 1 \in DOMAIN ready' /\ ready'[i - 1] = ready[i]
  BY <1>2
<1>3. Head(ready) = ready[1]
  OBVIOUS
<1>4. ASSUME NEW i \in DOMAIN ready PROVE ready[i] \in Queued' \cup {Head(ready)}
  BY <1>2, <1>3, <1>4 DEF Queued, Sequence!ToSet
<1> QED BY <1>1, <1>4 DEF Queued, Sequence!ToSet

\* A step of a call leaves the world alone.
LEMMA CallKeepsWorld ==
    ASSUME WorldInv, UNCHANGED world
    PROVE  WorldInv'
BY DEF WorldInv, world

LEMMA CallKeepsIInv ==
    ASSUME IInv, NEW c \in Call, Begin(c) \/ Step(c) \/ BodyClosed(c)
    PROVE  IInv'
<1> USE RoundTripAssumption DEF PoolInv, CallInv, HandInv, ConnInv, TriedInv, IInv, Goto, pool,
        scan, PC
<1>1. CASE Begin(c)
  <2>1. PICK l \in {"take", "end"} : pc' = [pc EXCEPT ![c] = l]
    BY <1>1 DEF Begin
  <2> QED BY <1>1, <2>1, CallKeepsWorld DEF Begin
<1>2. CASE GiveUp(c)
  BY <1>2, CallKeepsWorld DEF GiveUp, End
<1>3. CASE Take(c)
  BY <1>3, CallKeepsWorld, PullDequeues DEF Take, Attempts, PC
<1>4. CASE LookupMisses(c)
  BY <1>4, CallKeepsWorld, AddQueues DEF LookupMisses, Requeue, Drop, Retry
<1>5. CASE LookupHits(c)
  BY <1>5, CallKeepsWorld DEF LookupHits
<1>6. CASE DialFails(c)
  <2>1. PICK b \in {FALSE, ctxDone[c]} : gaveUp' = [gaveUp EXCEPT ![c] = b]
    BY <1>6 DEF DialFails
  <2>2. b \in BOOLEAN
    BY DEF WorldInv
  <2> QED BY <1>6, <2>1, <2>2, CallKeepsWorld DEF DialFails
<1>7. CASE Dialed(c)
  BY <1>7, CallKeepsWorld DEF Dialed
<1>8. CASE DialCounted(c)
  BY <1>8, CallKeepsWorld, AddQueues DEF DialCounted, Requeue, Fail, Drop, Retry
<1>9. CASE BodyUnavailable(c)
  BY <1>9, CallKeepsWorld, AddQueues DEF BodyUnavailable, CloseConn, Requeue, Drop, End
<1>10. CASE UpgradeRefused(c)
  BY <1>10, CallKeepsWorld, AddQueues DEF UpgradeRefused, CloseConn, Requeue, Drop, Retry
<1>11. CASE Rejected(c)
  <2>1. ProviderOf[front[c]] \in Provider
    BY <1>11 DEF Rejected
  <2>2. tried' = [tried EXCEPT ![c] = @ \cup {ProviderOf[front[c]]}]
    BY <1>11 DEF Rejected, MarkTried
  <2>3. CallInv'
    BY <1>11, <2>1, <2>2 DEF Rejected, CloseConn, Drop
  <2>4. TriedInv'
    BY <1>11, <2>2 DEF Rejected
  <2>5. PoolInv' /\ WorldInv'
    BY <1>11, CallKeepsWorld DEF Rejected, Fail
  <2>6. HandInv' /\ ConnInv'
    BY <1>11 DEF Rejected, CloseConn, Drop
  <2> HIDE DEF PoolInv, CallInv, HandInv, ConnInv, TriedInv
  <2> QED BY <2>3, <2>4, <2>5, <2>6
<1>12. CASE Answered(c)
  BY <1>12, CallKeepsWorld, AddQueues DEF Answered, Drop, End
<1>13. CASE BodyClosed(c)
  BY <1>13, CallKeepsWorld DEF BodyClosed, CloseConn
<1>14. CASE ScanBegins(c)
  BY <1>14, CallKeepsWorld DEF ScanBegins
<1>15. CASE ScanSkips(c)
  <2>1. /\ ready' \in Seq(Front) /\ Append(skipped[c], Head(ready)) \in Seq(Front)
        /\ left[c] - 1 \in 0 .. MaxScan
    BY <1>15, PullDequeues DEF ScanSkips
  <2> QED BY <1>15, <2>1, CallKeepsWorld DEF ScanSkips
<1>16. CASE ScanFinds(c)
  BY <1>16, CallKeepsWorld, PullDequeues DEF ScanFinds
<1>17. CASE ScanFallsBack(c)
  BY <1>17, CallKeepsWorld DEF ScanFallsBack
<1>18. CASE PutsBack(c)
  BY <1>18, CallKeepsWorld, AddQueues DEF PutsBack
<1>19. CASE ScanEnds(c)
  BY <1>19, CallKeepsWorld DEF ScanEnds
<1> QED
  BY <1>1, <1>2, <1>3, <1>4, <1>5, <1>6, <1>7, <1>8, <1>9, <1>10, <1>11, <1>12, <1>13,
     <1>14, <1>15, <1>16, <1>17, <1>18, <1>19 DEF Step

LEMMA WorldKeepsIInv ==
    ASSUME IInv,
           \/ \E c \in Call : Cancel(c)
           \/ \E f \in Front : Vetted(f)
           \/ PublishProviders \/ Replace \/ PauseOrResume \/ Close
    PROVE  IInv'
<1> USE RoundTripAssumption DEF PoolInv, CallInv, HandInv, ConnInv, TriedInv, IInv, pool, calls
<1>1. ASSUME NEW c \in Call, Cancel(c) PROVE IInv'
  BY <1>1 DEF Cancel, Change, WorldInv
<1>2. ASSUME NEW f \in Front, Vetted(f) PROVE IInv'
  BY <1>2, AddQueues DEF Vetted, Change, WorldInv
<1>3. CASE PublishProviders
  <2>1. PICK p \in Provider, c \in Offered \cup {Gone} :
          /\ config' = [config EXCEPT ![p] = c]
          /\ \E ep \in Published(c) : providers' = [providers EXCEPT ![p] = ep]
    BY <1>3 DEF PublishProviders
  <2>2. PICK ep \in Published(c) : providers' = [providers EXCEPT ![p] = ep]
    BY <2>1
  <2>3. \A q \in Provider : providers'[q] \in Published(config'[q])
    BY <2>1, <2>2 DEF WorldInv
  <2>4. config' \in [Provider -> Offered \cup {Gone}]
    BY <2>1 DEF WorldInv
  <2>5. providers' = [q \in Provider |-> providers'[q]]
    BY <2>2 DEF WorldInv
  <2>6. WorldInv'
    <3>1. changes' \in 0 .. MaxChange /\ applying' \in BOOLEAN
      BY <1>3 DEF PublishProviders, Change, WorldInv
    <3>2. paused' \in BOOLEAN /\ closed' \in BOOLEAN /\ ctxDone' \in [Call -> BOOLEAN]
      BY <1>3 DEF PublishProviders, WorldInv
    <3> QED BY <2>3, <2>4, <2>5, <3>1, <3>2 DEF WorldInv
  <2> QED BY <1>3, <2>6 DEF PublishProviders
<1>4. CASE Replace
  <2>1. PoolInv'
    BY <1>4 DEF Replace
  <2>3. WorldInv'
    <3> HIDE DEF PoolInv, CallInv, HandInv, ConnInv, TriedInv
    <3> QED BY <1>4 DEF Replace, WorldInv
  <2>2. CallInv' /\ HandInv' /\ ConnInv' /\ TriedInv'
    BY <1>4 DEF Replace
  <2> QED BY <2>1, <2>2, <2>3
<1>5. CASE PauseOrResume
  BY <1>5 DEF PauseOrResume, Change, WorldInv
<1>6. CASE Close
  BY <1>6 DEF Close, Change, WorldInv
<1> QED BY <1>1, <1>2, <1>3, <1>4, <1>5, <1>6

LEMMA StutterKeepsIInv == IInv /\ UNCHANGED vars => IInv'
BY DEF IInv, PoolInv, WorldInv, CallInv, HandInv, ConnInv, TriedInv, vars

LEMMA RoundTripNext == IInv /\ [Next]_vars => IInv'
BY CallKeepsIInv, WorldKeepsIInv, StutterKeepsIInv DEF Next

THEOREM RoundTripInvariant == Spec => []IInv
<1> QED BY RoundTripInit, RoundTripNext, PTL DEF Spec

\* Every variable keeps its type; in particular no call has more than one
\* connection open or makes more than MaxRetries attempts (roundtrip.go:67-68).
THEOREM RoundTripTypeCorrect == Spec => []TypeOK
<1>1. IInv => TypeOK
  BY DEF IInv, PoolInv, WorldInv, CallInv, TypeOK
<1> QED BY <1>1, RoundTripInvariant, PTL

\* Every attempt but the one that answers closes its connection, and a call
\* that ends in an error leaves none open (roundtrip.go:101-135).
THEOREM NoConnectionLeaks == Spec => []ConnectionsAreClosed
<1>1. IInv => ConnectionsAreClosed
  BY DEF IInv, ConnInv, ConnectionsAreClosed
<1> QED BY <1>1, RoundTripInvariant, PTL
-----------------------------------------------------------------------------
\* One call at a time scans the queue, or puts back what its scan has pulled.
ScanInv ==
    \A c, d \in Call :
        pc[c] \in {"scan", "put"} /\ pc[d] \in {"scan", "put"} => c = d

LEMMA ScanNext == IInv /\ ScanInv /\ [Next]_vars => ScanInv'
<1> SUFFICES ASSUME IInv, ScanInv, [Next]_vars PROVE ScanInv'
  OBVIOUS
<1> USE DEF IInv, CallInv, ScanInv, PC, Goto
<1>1. ASSUME NEW c \in Call, Begin(c) \/ BodyClosed(c) \/ Cancel(c) PROVE ScanInv'
  BY <1>1 DEF Begin, BodyClosed, Cancel, calls
<1>2. ASSUME NEW c \in Call, Step(c) PROVE ScanInv'
  <2>1. CASE ScanBegins(c)
    BY <2>1 DEF ScanBegins, ScanMuIsFree
  <2>2. CASE ScanSkips(c) \/ ScanFinds(c) \/ ScanFallsBack(c) \/ PutsBack(c) \/ ScanEnds(c)
    BY <2>2 DEF ScanSkips, ScanFinds, ScanFallsBack, PutsBack, ScanEnds
  <2>3. CASE \E label \in PC \ {"scan", "put"} : Goto(c, label)
    BY <2>3
  <2> QED BY <1>2, <2>1, <2>2, <2>3 DEF Step, GiveUp, Take, LookupMisses, LookupHits,
          DialFails, Dialed, DialCounted, BodyUnavailable, UpgradeRefused, Rejected, Answered, Retry, End
<1>3. CASE UNCHANGED pc
  BY <1>3
<1> QED BY <1>1, <1>2, <1>3 DEF Next, Vetted, PublishProviders, Replace, PauseOrResume, Close,
        calls, vars

LEMMA ScansExclude == Spec => []ScanInv
<1>1. Init => ScanInv
  BY DEF Init, ScanInv
<1> QED BY <1>1, ScanNext, RoundTripInvariant, PTL DEF Spec

\* What is appended to the queue, and what is pulled from its head, leaves the
\* other fronts within the reach of a scan that counts what it pulls.
LEMMA AppendKeepsFresh ==
    ASSUME ready \in Seq(Front), NEW c \in Call, NEW g \in Fresh(c, left[c]),
           ready' = ready \/ \E f \in Front : addReady(f),
           left'[c] = left[c], rejected'[c] = rejected[c]
    PROVE  g \in Fresh(c, left[c])'
<1>1. PICK i \in 1 .. Len(ready) :
         g = ready[i] /\ i <= left[c] /\ ProviderOf[ready[i]] \notin rejected[c]
  BY DEF Fresh
<1>2. i \in 1 .. Len(ready') /\ ready'[i] = ready[i]
  BY <1>1 DEF addReady
<1> QED BY <1>1, <1>2 DEF Fresh

LEMMA PullKeepsFresh ==
    ASSUME ready \in Seq(Front), NEW c \in Call, NEW g \in Fresh(c, left[c]),
           ready # <<>>, ready' = Tail(ready), g # Head(ready),
           left[c] \in Nat, left'[c] = left[c] \/ left'[c] = left[c] - 1,
           rejected'[c] = rejected[c]
    PROVE  g \in Fresh(c, left[c])'
<1>1. PICK i \in 1 .. Len(ready) :
         g = ready[i] /\ i <= left[c] /\ ProviderOf[ready[i]] \notin rejected[c]
  BY DEF Fresh
<1>2. i - 1 \in 1 .. Len(ready') /\ ready'[i - 1] = ready[i] /\ i - 1 <= left'[c]
  BY <1>1
<1> QED BY <1>1, <1>2 DEF Fresh

\* A provider that rejected the request is escaped as far as a scan reaches,
\* however many calls compete for the queue and whatever is put into it
\* (roundtrip.go:62-66, 114-117, front.go:151-194).
THEOREM RejectionIsEscaped == Spec => EscapesProvider
<1> DEFINE Escapes(c) ==
      /\ pc[c] = "take" /\ pc'[c] = "lookup" => ProviderOf[front'[c]] \notin rejected[c]
      /\ pc[c] = "wait" /\ pc'[c] # "wait" =>
            pc'[c] = "scan" /\ Fresh(c, left[c])' = Fresh(c, MaxScan)
      /\ pc[c] = "scan" => \A f \in Fresh(c, left[c]) :
            \/ pc'[c] = "scan" /\ f \in Fresh(c, left[c])'
            \/ pc'[c] = "put" /\ ProviderOf[front'[c]] \notin rejected[c]
            \/ \E d \in Call \ {c} : pc[d] = "take" /\ front'[d] = f
            \/ Replace
      /\ pc[c] = "put" => front'[c] = front[c]
<1>1. IInv /\ ScanInv /\ [Next]_vars => [\A c \in Call : Escapes(c)]_vars
  <2> SUFFICES ASSUME IInv, ScanInv, Next, NEW c \in Call PROVE Escapes(c)
    OBVIOUS
  <2> USE RoundTripAssumption DEF IInv, CallInv, PoolInv, TriedInv, Goto
  \* A step that leaves the call alone and adds at most one front to the queue.
  <2>1. ASSUME ready' = ready \/ \E f \in Front : addReady(f),
               pc'[c] = pc[c], left'[c] = left[c], front'[c] = front[c],
               rejected'[c] = rejected[c]
        PROVE  Escapes(c)
    BY <2>1, AppendKeepsFresh
  <2>2. CASE \E d \in Call : Cancel(d)
    BY <2>1, <2>2 DEF Cancel, pool, calls
  <2>3. CASE PublishProviders \/ PauseOrResume \/ Close
    BY <2>1, <2>3 DEF PublishProviders, PauseOrResume, Close, pool, calls
  <2>4. CASE \E f \in Front : Vetted(f)
    BY <2>1, <2>4 DEF Vetted, calls
  <2>5. CASE Replace
    BY <2>5 DEF Replace, calls
  \* Another call.
  <2>6. ASSUME NEW d \in Call \ {c}, Begin(d) \/ Step(d) \/ BodyClosed(d) PROVE Escapes(c)
    <3> DEFINE Same == /\ pc'[c] = pc[c] /\ left'[c] = left[c]
                       /\ front'[c] = front[c] /\ rejected'[c] = rejected[c]
    <3>1. CASE Take(d)
      <4>1. Same /\ ready # <<>> /\ ready' = Tail(ready) /\ front'[d] = Head(ready)
        BY <3>1 DEF Take, scan
      <4>2. pc[d] = "take"
        BY <3>1 DEF Take
      <4>3. ASSUME pc[c] = "scan", NEW f \in Fresh(c, left[c]), f # Head(ready)
            PROVE  f \in Fresh(c, left[c])'
        BY <4>1, <4>3, PullKeepsFresh
      <4> QED BY <4>1, <4>2, <4>3
    <3>2. CASE ScanSkips(d) \/ ScanFinds(d)
      <4>1. Same /\ pc[d] = "scan"
        BY <3>2 DEF ScanSkips, ScanFinds
      <4> QED BY <4>1 DEF ScanInv
    <3>3. CASE PutsBack(d)
      <4>1. Same /\ pc[d] = "put"
        BY <3>3 DEF PutsBack
      <4> QED BY <4>1 DEF ScanInv
    <3>4. CASE Begin(d) \/ BodyClosed(d)
      BY <2>1, <3>4 DEF Begin, BodyClosed, pool, scan
    <3>5. CASE GiveUp(d) \/ ScanBegins(d) \/ ScanFallsBack(d) \/ ScanEnds(d)
      BY <2>1, <3>5 DEF GiveUp, ScanBegins, ScanFallsBack, ScanEnds, End, pool, scan
    <3>6. CASE LookupHits(d) \/ DialFails(d) \/ Dialed(d)
      BY <2>1, <3>6 DEF LookupHits, DialFails, Dialed, pool, scan
    <3>7. CASE \/ LookupMisses(d) \/ DialCounted(d) \/ BodyUnavailable(d)
               \/ UpgradeRefused(d) \/ Rejected(d) \/ Answered(d)
      <4>1. front[d] \in Front
        BY <3>7 DEF HandInv, LookupMisses, DialCounted, BodyUnavailable, UpgradeRefused,
           Rejected, Answered
      <4>2. ready' = ready \/ addReady(front[d])
        BY <3>7 DEF LookupMisses, DialCounted, BodyUnavailable, UpgradeRefused, Rejected,
           Answered, Requeue, Fail
      <4>3. Same
        BY <3>7 DEF LookupMisses, DialCounted, BodyUnavailable, UpgradeRefused, Rejected,
           Answered, Retry, End, Drop, scan
      <4> QED BY <2>1, <4>1, <4>2, <4>3
    <3> QED BY <2>6, <3>1, <3>2, <3>3, <3>4, <3>5, <3>6, <3>7 DEF Step
  \* The call itself.
  <2>7. CASE Take(c)
    BY <2>7 DEF Take, Untried
  <2>8. CASE ScanBegins(c)
    <3>1. /\ pc[c] = "wait" /\ pc'[c] = "scan" /\ ready' = ready /\ rejected' = rejected
          /\ left'[c] = IF Len(ready) < MaxScan THEN Len(ready) ELSE MaxScan
      BY <2>8 DEF ScanBegins, pool
    <3>2. \A j \in 1 .. Len(ready) : j <= left'[c] <=> j <= MaxScan
      BY <3>1
    <3>3. Fresh(c, left[c])' = Fresh(c, MaxScan)
      BY <3>1, <3>2 DEF Fresh
    <3> QED BY <3>1, <3>3
  <2>9. CASE ScanSkips(c)
    <3>1. /\ pc[c] = "scan" /\ pc'[c] = "scan" /\ ready # <<>> /\ ready' = Tail(ready)
          /\ left'[c] = left[c] - 1 /\ left[c] \in Nat /\ rejected'[c] = rejected[c]
          /\ ProviderOf[Head(ready)] \in rejected[c]
      BY <2>9 DEF ScanSkips, Untried
    <3>2. \A f \in Fresh(c, left[c]) : ProviderOf[f] \notin rejected[c]
      BY DEF Fresh
    <3> QED BY <3>1, <3>2, PullKeepsFresh
  <2>10. CASE ScanFinds(c)
    BY <2>10 DEF ScanFinds, Untried
  <2>11. CASE ScanFallsBack(c)
    <3>1. pc[c] = "scan" /\ (left[c] = 0 \/ ready = <<>>)
      BY <2>11 DEF ScanFallsBack
    <3>2. Fresh(c, left[c]) = {}
      BY <3>1 DEF Fresh
    <3> QED BY <3>1, <3>2
  <2>12. CASE PutsBack(c) \/ ScanEnds(c)
    BY <2>12 DEF PutsBack, ScanEnds
  <2>13. CASE Begin(c) \/ BodyClosed(c) \/ GiveUp(c)
    BY <2>13 DEF Begin, BodyClosed, GiveUp, End
  <2>14. CASE \/ LookupMisses(c) \/ LookupHits(c) \/ DialFails(c) \/ Dialed(c) \/ DialCounted(c)
              \/ BodyUnavailable(c) \/ UpgradeRefused(c) \/ Rejected(c) \/ Answered(c)
    <3>1. pc[c] \in {"lookup", "dial", "failed", "send"}
      BY <2>14 DEF LookupMisses, LookupHits, DialFails, Dialed, DialCounted, BodyUnavailable,
         UpgradeRefused, Rejected, Answered
    <3> QED BY <3>1
  <2>15. CASE Begin(c) \/ Step(c) \/ BodyClosed(c)
    BY <2>15, <2>7, <2>8, <2>9, <2>10, <2>11, <2>12, <2>13, <2>14 DEF Step
  <2>16. CASE \E d \in Call : Begin(d) \/ Step(d) \/ BodyClosed(d)
    BY <2>16, <2>6, <2>15
  <2> QED BY <2>2, <2>3, <2>4, <2>5, <2>16 DEF Next
<1> QED BY <1>1, RoundTripInvariant, ScansExclude, PTL DEF Spec, EscapesProvider
-----------------------------------------------------------------------------
\* A call fails a front only for a dial or a request that failed: not for a
\* host that is not mapped, a body that cannot be had or an upgrade that
\* landed on HTTP/2 (roundtrip.go:76-121).
THEOREM BlameIsDeserved == Spec => OnlyFailuresCount
<1>1. IInv /\ [Next]_vars =>
        [pc' # pc => \A f \in succ \ succ' :
            \E c \in Call :
               /\ front[c] = f
               /\ \/ pc[c] = "failed"
                  \/ pc[c] = "send" /\ pc'[c] = "take" /\ ~CannotUpgrade(c)]_vars
  <2> SUFFICES ASSUME IInv, Next, pc' # pc, NEW f \in succ \ succ'
               PROVE  \E c \in Call :
                         /\ front[c] = f
                         /\ \/ pc[c] = "failed"
                            \/ pc[c] = "send" /\ pc'[c] = "take" /\ ~CannotUpgrade(c)
    OBVIOUS
  <2> USE DEF IInv, CallInv
  <2>1. PICK c \in Call : Begin(c) \/ Step(c) \/ BodyClosed(c)
    BY DEF Next, Cancel, Vetted, PublishProviders, Replace, PauseOrResume, Close, calls
  <2>2. DialCounted(c) \/ Rejected(c)
    BY <2>1 DEF Begin, BodyClosed, Step, GiveUp, Take, ScanBegins, ScanSkips, ScanFinds,
       ScanFallsBack, PutsBack, ScanEnds, LookupMisses, LookupHits, DialFails, Dialed,
       BodyUnavailable, UpgradeRefused, Answered, Requeue, pool
  <2>3. front[c] = f
    BY <2>2 DEF DialCounted, Rejected, Requeue, Fail
  <2> QED BY <2>2, <2>3 DEF DialCounted, Rejected, Goto
<1> QED BY <1>1, RoundTripInvariant, PTL DEF Spec, OnlyFailuresCount

\* What the steps of a scan do to the fronts it owes the queue.
LEMMA AppendOwes ==
    ASSUME CallInv, NEW c \in Call, NEW f \in Front,
           skipped' = [skipped EXCEPT ![c] = Append(@, f)]
    PROVE  f \in Owed(c)' /\ \A d \in Call : Owed(d) \subseteq Owed(d)'
<1>1. skipped[c] \in Seq(Front) /\ skipped'[c] = Append(skipped[c], f)
  BY DEF CallInv
<1>2. f \in Owed(c)' /\ Owed(c) \subseteq Owed(c)'
  BY <1>1 DEF Owed, Sequence!ToSet
<1>3. \A d \in Call \ {c} : skipped'[d] = skipped[d]
  BY DEF CallInv
<1> QED BY <1>2, <1>3 DEF Owed

LEMMA PrependOwes ==
    ASSUME CallInv, NEW c \in Call, NEW f \in Front,
           skipped' = [skipped EXCEPT ![c] = <<f>> \o @]
    PROVE  f \in Owed(c)' /\ \A d \in Call : Owed(d) \subseteq Owed(d)'
<1>1. skipped[c] \in Seq(Front) /\ skipped'[c] = <<f>> \o skipped[c]
  BY DEF CallInv
<1>2. f \in Owed(c)'
  BY <1>1 DEF Owed, Sequence!ToSet
<1>3. ASSUME NEW i \in DOMAIN skipped[c] PROVE skipped[c][i] \in Owed(c)'
  <2>1. i + 1 \in DOMAIN skipped'[c] /\ skipped'[c][i + 1] = skipped[c][i]
    BY <1>1
  <2> QED BY <2>1 DEF Owed, Sequence!ToSet
<1>4. \A d \in Call \ {c} : skipped'[d] = skipped[d]
  BY DEF CallInv
<1> QED BY <1>2, <1>3, <1>4 DEF Owed, Sequence!ToSet

LEMMA TailShifts ==
    ASSUME NEW S, NEW s \in Seq(S), NEW i \in DOMAIN s, i # 1
    PROVE  i - 1 \in DOMAIN Tail(s) /\ Tail(s)[i - 1] = s[i]
OBVIOUS

LEMMA TailOwes ==
    ASSUME CallInv, NEW c \in Call, skipped[c] # <<>>,
           skipped' = [skipped EXCEPT ![c] = Tail(@)]
    PROVE  \A d \in Call : Owed(d) \subseteq Owed(d)' \cup {Head(skipped[c])}
<1>1. skipped[c] \in Seq(Front) /\ skipped'[c] = Tail(skipped[c])
  BY DEF CallInv
<1>2. ASSUME NEW i \in DOMAIN skipped[c], i # 1 PROVE skipped[c][i] \in Owed(c)'
  <2>1. i - 1 \in DOMAIN skipped'[c] /\ skipped'[c][i - 1] = skipped[c][i]
    BY <1>1, <1>2, TailShifts
  <2> QED BY <2>1 DEF Owed, Sequence!ToSet
<1>3. Head(skipped[c]) = skipped[c][1]
  BY <1>1
<1>4. \A d \in Call \ {c} : skipped'[d] = skipped[d]
  BY DEF CallInv
<1> QED BY <1>2, <1>3, <1>4 DEF Owed, Sequence!ToSet

\* No exit of the retry loop, no vet and no change of the world but Replace
\* makes a working front vanish: it is ready or in the hands of a call
\* (roundtrip.go:67-136, front.go:230-244).
THEOREM WorkingFrontsStay == Spec => NoFrontVanishes
<1>1. IInv /\ [Next]_vars => [~Replace => Lost' \subseteq Lost]_vars
  <2> SUFFICES ASSUME IInv, Next, ~Replace, NEW f \in Lost' PROVE f \in Lost
    OBVIOUS
  <2> USE RoundTripAssumption DEF IInv, CallInv, HandInv, PoolInv
  <2>1. f \in succ' /\ f \notin Queued' /\ \A c \in Call : front'[c] # f /\ f \notin Owed(c)'
    BY DEF Lost
  <2>2. IInv'
    BY RoundTripNext
  <2>3. f \in Front
    BY <2>1, <2>2
  <2>4. CASE \E c \in Call : Begin(c) \/ Step(c) \/ BodyClosed(c)
    <3>1. PICK c \in Call : Begin(c) \/ Step(c) \/ BodyClosed(c)
      BY <2>4
    <3>2. CASE \/ Begin(c) \/ GiveUp(c) \/ ScanBegins(c) \/ ScanFallsBack(c) \/ ScanEnds(c)
               \/ LookupHits(c) \/ DialFails(c) \/ Dialed(c) \/ BodyClosed(c)
      <4>1. UNCHANGED <<pool, front, skipped>>
        BY <3>2 DEF Begin, GiveUp, ScanBegins, ScanFallsBack, ScanEnds, LookupHits, DialFails,
           Dialed, BodyClosed, scan
      <4> QED BY <4>1, <2>1 DEF pool, Queued, Owed, Lost
    <3>3. CASE Take(c)
      <4>1. f # Head(ready)
        BY <3>3, <2>1, <2>3 DEF Take
      <4>2. f \notin Queued
        BY <3>3, <4>1, <2>1, PullDequeues DEF Take
      <4>3. front[c] = None \/ front[c] \notin Front
        BY <3>3 DEF Take
      <4> QED BY <3>3, <4>2, <4>3, <2>1, <2>3 DEF Take, scan, Owed, Lost
    <3>4. CASE ScanSkips(c)
      <4>1. /\ ready # <<>> /\ ready' = Tail(ready) /\ succ' = succ /\ front' = front
            /\ skipped' = [skipped EXCEPT ![c] = Append(@, Head(ready))]
        BY <3>4 DEF ScanSkips
      <4>2. Head(ready) \in Front
        BY <4>1
      <4>3. Head(ready) \in Owed(c)' /\ \A d \in Call : Owed(d) \subseteq Owed(d)'
        BY <4>1, <4>2, AppendOwes
      <4>4. f \notin Queued
        BY <4>1, <4>3, <2>1, PullDequeues
      <4> QED BY <4>1, <4>3, <4>4, <2>1 DEF Lost
    <3>5. CASE ScanFinds(c)
      <4>1. /\ ready # <<>> /\ ready' = Tail(ready) /\ succ' = succ
            /\ front' = [front EXCEPT ![c] = Head(ready)] /\ front[c] \in Front
            /\ skipped' = [skipped EXCEPT ![c] = <<front[c]>> \o @]
        BY <3>5 DEF ScanFinds
      <4>2. front[c] \in Owed(c)' /\ \A d \in Call : Owed(d) \subseteq Owed(d)'
        BY <4>1, PrependOwes
      <4>3. f \notin Queued
        BY <4>1, <2>1, PullDequeues
      <4>4. \A d \in Call : front[d] # f
        BY <4>1, <4>2, <2>1
      <4> QED BY <4>1, <4>2, <4>3, <4>4, <2>1 DEF Lost
    <3>6. CASE PutsBack(c)
      <4>1. /\ skipped[c] # <<>> /\ UNCHANGED <<succ, front>>
            /\ \/ Head(skipped[c]) = front[c] /\ ready' = ready
               \/ addReady(Head(skipped[c]))
            /\ skipped' = [skipped EXCEPT ![c] = Tail(@)]
        BY <3>6 DEF PutsBack
      <4>2. Head(skipped[c]) \in Front
        BY <4>1
      <4>3. /\ Queued \subseteq Queued'
            /\ front'[c] = Head(skipped[c]) \/ Head(skipped[c]) \in Queued'
        BY <4>1, <4>2, AddQueues DEF Queued
      <4>4. \A d \in Call : Owed(d) \subseteq Owed(d)' \cup {Head(skipped[c])}
        BY <4>1, TailOwes
      <4> QED BY <4>1, <4>3, <4>4, <2>1 DEF Lost
    <3>7. CASE \/ LookupMisses(c) \/ DialCounted(c) \/ BodyUnavailable(c)
               \/ UpgradeRefused(c) \/ Rejected(c) \/ Answered(c)
      <4>1. front[c] \in Front /\ UNCHANGED skipped /\ front' = [front EXCEPT ![c] = None]
        BY <3>7 DEF LookupMisses, DialCounted, BodyUnavailable, UpgradeRefused, Rejected,
           Answered, Drop, scan
      <4>2. \/ addReady(front[c]) /\ (UNCHANGED succ \/ succ' = succ \cup {front[c]})
            \/ UNCHANGED ready /\ succ' = succ \ {front[c]}
        BY <3>7 DEF LookupMisses, DialCounted, BodyUnavailable, UpgradeRefused, Rejected,
           Answered, Requeue, Fail
      <4>3. f # front[c] /\ f \in succ /\ f \notin Queued
        BY <4>1, <4>2, <2>1, AddQueues DEF Queued
      <4> QED BY <4>1, <4>3, <2>1 DEF Owed, Lost
    <3> QED BY <3>1, <3>2, <3>3, <3>4, <3>5, <3>6, <3>7 DEF Step
  <2>5. CASE \E g \in Front : Vetted(g)
    <3>1. PICK g \in Front : Vetted(g)
      BY <2>5
    <3>2. UNCHANGED <<front, skipped>>
      BY <3>1 DEF Vetted, calls
    <3>3. \/ addReady(g) /\ succ' = succ \cup {g}
          \/ UNCHANGED ready /\ succ' = succ \ {g}
      BY <3>1 DEF Vetted
    <3>4. f \in succ /\ f \notin Queued
      BY <3>3, <2>1, AddQueues DEF Queued
    <3> QED BY <3>2, <3>4, <2>1 DEF Owed, Lost
  <2>6. CASE (\E c \in Call : Cancel(c)) \/ PublishProviders \/ PauseOrResume \/ Close
    <3>1. UNCHANGED <<pool, front, skipped>>
      BY <2>6 DEF Cancel, PublishProviders, PauseOrResume, Close, pool, calls
    <3> QED BY <3>1, <2>1 DEF pool, Queued, Owed, Lost
  <2> QED BY <2>4, <2>5, <2>6 DEF Next
<1> QED BY <1>1, RoundTripInvariant, PTL DEF Spec, NoFrontVanishes
-----------------------------------------------------------------------------
ViaInv == DOMAIN via = Call

LEMMA ViaNext == ViaInv /\ [Next]_vars => ViaInv'
<1> SUFFICES ASSUME ViaInv, [Next]_vars PROVE ViaInv'
  OBVIOUS
<1>1. CASE \E c \in Call : Begin(c) \/ BodyClosed(c) \/ Cancel(c)
  BY <1>1 DEF Begin, BodyClosed, Cancel, calls, ViaInv
<1>2. ASSUME NEW c \in Call, Step(c) PROVE ViaInv'
  <2>1. CASE UNCHANGED via
    BY <2>1 DEF ViaInv
  <2>2. CASE \E name : via' = [via EXCEPT ![c] = name]
    BY <2>2 DEF ViaInv
  <2>3. CASE \/ Take(c) \/ ScanBegins(c) \/ ScanSkips(c) \/ ScanFinds(c) \/ ScanFallsBack(c)
             \/ PutsBack(c) \/ ScanEnds(c)
    BY <2>1, <2>3 DEF Take, ScanBegins, ScanSkips, ScanFinds, ScanFallsBack, PutsBack, ScanEnds
  <2>4. CASE GiveUp(c) \/ LookupHits(c) \/ DialFails(c) \/ Dialed(c)
    BY <2>1, <2>2, <2>4 DEF GiveUp, LookupHits, DialFails, Dialed
  <2>5. CASE \/ LookupMisses(c) \/ DialCounted(c) \/ BodyUnavailable(c)
             \/ UpgradeRefused(c) \/ Rejected(c) \/ Answered(c)
    BY <2>2, <2>5 DEF LookupMisses, DialCounted, BodyUnavailable, UpgradeRefused, Rejected,
       Answered, Drop
  <2> QED BY <1>2, <2>3, <2>4, <2>5 DEF Step
<1>3. CASE UNCHANGED via
  BY <1>3 DEF ViaInv
<1> QED BY <1>1, <1>2, <1>3 DEF Next, vars, calls, Vetted, PublishProviders, Replace,
        PauseOrResume, Close

LEMMA ViaIsTotal == Spec => []ViaInv
<1>1. Init => ViaInv
  BY DEF Init, ViaInv
<1> QED BY <1>1, ViaNext, PTL DEF Spec

\* The name FrontedHost finds in what was published is one that the
\* configuration as it is written gives.
LEMMA FrontedAsWritten ==
    ASSUME IInv, NEW c \in Call, pc[c] = "lookup"
    PROVE  LET raw == config[ProviderOf[front[c]]]
           IN IF raw = Gone \/ ~Maps(raw, Origin[c])
                THEN FrontedHost(c) = Empty
                ELSE /\ FrontedHost(c) # Empty
                     /\ FrontedHost(c) \in IF AliasesOf(raw, Origin[c]) # {}
                                             THEN AliasesOf(raw, Origin[c])
                                             ELSE {Canonical(Origin[c])}
<1> DEFINE q == ProviderOf[front[c]]
           raw == config[q]
           h == Origin[c]
<1>1. q \in Provider
  BY RoundTripAssumption DEF IInv, HandInv
<1>2. providers[q] \in Published(raw) /\ raw \in Offered \cup {Gone}
  BY <1>1 DEF IInv, WorldInv
<1>3. h \in Hosts
  BY RoundTripAssumption
<1>4. CASE raw = Gone
  BY <1>2, <1>4 DEF FrontedHost, Published
<1>5. CASE raw # Gone
  <2>1. WellWritten(raw) /\ providers[q] \in ExpandedProviders(raw) /\ providers[q] # Gone
    BY <1>2, <1>5, RoundTripAssumption DEF Published
  <2>2. FrontedHost(c) = Lookup(providers[q], h)
    BY <2>1 DEF FrontedHost
  <2>3. /\ AliasesOf(raw, h) # {} => FrontedHost(c) \in AliasesOf(raw, h)
        /\ AliasesOf(raw, h) = {} =>
             FrontedHost(c) = IF Maps(raw, h) THEN Canonical(h) ELSE Empty
    BY <1>3, <2>1, <2>2, LookupAsWritten
  <2>4. Empty \notin AliasesOf(raw, h)
    BY DEF AliasesOf
  <2>5. Canonical(h) # Empty
    BY <1>3, RoundTripAssumption DEF Canonical, Lower, StripPort, Hosts
  <2>6. AliasesOf(raw, h) # {} => Maps(raw, h)
    BY DEF Maps
  <2> QED BY <1>5, <2>3, <2>4, <2>5, <2>6
<1> QED BY <1>4, <1>5

\* Between the take of a front and the dial, updates included, a host gets no
\* name but one that the configuration as it is written gives it, and a front
\* is put back for lack of a name only when there is none (config.go:65-90,
\* 157-163; roundtrip.go:74-91).
THEOREM HostsSentAsWritten == Spec => SentAsWritten
<1> DEFINE AsWritten ==
      \A c \in Call : pc[c] = "lookup" /\ pc'[c] # "lookup" =>
          LET raw == config[ProviderOf[front[c]]]
          IN IF raw = Gone \/ ~Maps(raw, Origin[c])
               THEN pc'[c] = "take"
               ELSE via'[c] \in IF AliasesOf(raw, Origin[c]) # {}
                                  THEN AliasesOf(raw, Origin[c])
                                  ELSE {Canonical(Origin[c])}
<1>1. IInv /\ ViaInv /\ [Next]_vars => [AsWritten]_vars
  <2> SUFFICES ASSUME IInv, ViaInv, Next, NEW c \in Call, pc[c] = "lookup", pc'[c] # "lookup"
               PROVE  LET raw == config[ProviderOf[front[c]]]
                      IN IF raw = Gone \/ ~Maps(raw, Origin[c])
                           THEN pc'[c] = "take"
                           ELSE via'[c] \in IF AliasesOf(raw, Origin[c]) # {}
                                              THEN AliasesOf(raw, Origin[c])
                                              ELSE {Canonical(Origin[c])}
    OBVIOUS
  <2>1. PICK d \in Call : Begin(d) \/ Step(d) \/ BodyClosed(d)
    BY DEF Next, Cancel, Vetted, PublishProviders, Replace, PauseOrResume, Close, calls
  <2>2. LookupMisses(c) \/ LookupHits(c)
    BY <2>1 DEF Begin, BodyClosed, Step, GiveUp, Take, ScanBegins, ScanSkips, ScanFinds,
       ScanFallsBack, PutsBack, ScanEnds, LookupMisses, LookupHits, DialFails, Dialed,
       DialCounted, BodyUnavailable, UpgradeRefused, Rejected, Answered, Goto, Retry, End,
       IInv, CallInv
  <2>3. CASE LookupMisses(c)
    <3>1. FrontedHost(c) = Empty /\ pc'[c] = "take"
      BY <2>3 DEF LookupMisses, Retry, Goto, IInv, CallInv
    <3> QED BY <3>1, FrontedAsWritten
  <2>4. CASE LookupHits(c)
    <3>1. FrontedHost(c) # Empty /\ via'[c] = FrontedHost(c)
      BY <2>4 DEF LookupHits, ViaInv
    <3> QED BY <3>1, FrontedAsWritten
  <2> QED BY <2>2, <2>3, <2>4
<1> QED BY <1>1, RoundTripInvariant, ViaIsTotal, PTL DEF Spec, SentAsWritten
=============================================================================
