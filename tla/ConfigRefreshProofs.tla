------------------------ MODULE ConfigRefreshProofs ------------------------
(***************************************************************************)
(* Theorems about ConfigRefresh, for any number of sources, payloads and   *)
(* events.                                                                 *)
(***************************************************************************)
EXTENDS ConfigRefresh, FiniteSetTheorems, TLAPS

\* The parts of TypeOK.
FlagInv ==
    /\ events \in 0 .. MaxEvent
    /\ paused \in BOOLEAN /\ closed \in BOOLEAN /\ expired \in BOOLEAN
    /\ spoiled \in BOOLEAN /\ dirty \in BOOLEAN /\ change \in BOOLEAN
DataInv ==
    /\ applied \in Good /\ hash \in Good \cup {None} /\ validators \in Validators
    /\ file \in Payload \cup {None} /\ sidecar \in Sidecar
FetchInv ==
    /\ asking \subseteq Url /\ asked \in Validators
    /\ results \in Seq(Response)
    /\ held \in Response \cup {None}
    /\ pc \in {"idle", "collect", "gate", "persist", "writing", "finish", "sealing"}

\* While somebody listens every source is asked, queued or received, and
\* nothing is queued that nobody will read.
CountInv ==
    /\ received \in 0 .. Cardinality(Url)
    /\ Listening => Len(results) + Cardinality(asking) + received = Cardinality(Url)
    /\ ~Listening => results = <<>>

\* A response says of the source's payload what the code takes it to say: an
\* unchanged one names the payload in use, and a validator its payload.
Faithful(r) ==
    /\ r.kind = "unchanged" => hash # None /\ r.payload = hash /\ r.val = hash
    /\ r.kind = "full" => r.val \in {r.payload, None}

AnswerInv ==
    /\ \A u \in Url : asked[u] \in {hash, None}
    /\ \A i \in 1 .. Len(results) : Faithful(results[i])
    /\ pc = "gate" => /\ held \in Response /\ held.kind = "full"
                      /\ held.val \in {held.payload, None}
                      /\ held.payload \notin Unparsable

\* A change that arrived is queued or held, unless the client was closed.
IsChange(r) == r.kind = "full" /\ r.payload \in Good \ {hash}
ChangeInv ==
    change => \/ closed
              \/ \E i \in 1 .. Len(results) : IsChange(results[i])
              \/ pc = "gate" /\ IsChange(held)

\* The payload's file agrees with the memory except while it is written, and
\* the sidecar does unless the refresh has still to write it.
DiskInv ==
    /\ hash = None => ~dirty
    /\ pc \in {"persist", "writing", "sealing"} => dirty /\ hash # None
    /\ pc = "idle" => ~dirty
    /\ ~spoiled /\ pc \notin {"persist", "writing"} => applied = BootPayload /\ hash = BootHash
    /\ ~spoiled /\ ~dirty => validators = LoadValidators

IInv ==
    /\ FlagInv /\ DataInv /\ FetchInv /\ CountInv
    /\ AnswerInv /\ ValidatorsBelong /\ ChangeInv /\ DiskInv

LEMMA BootLemma ==
    ASSUME DataInv
    PROVE  /\ BootPayload \in Good /\ BootHash \in Good \cup {None}
           /\ BootHash \in {BootPayload, None} /\ LoadValidators \in Validators
BY RefreshAssumption DEF DataInv, BootPayload, BootHash, LoadValidators, Good, Sidecar,
   Validators, NoValidators

LEMMA BootValidators ==
    ASSUME DataInv, \A u \in Url : sidecar.vals[u] \in {sidecar.sha, None}
    PROVE  \A u \in Url : LoadValidators[u] \in {BootHash, None}
BY DEF LoadValidators, NoValidators

LEMMA RefreshInit == Init => IInv
<1> SUFFICES ASSUME Init PROVE IInv
  OBVIOUS
<1>0. Cardinality(Url) \in Nat /\ IsFiniteSet({}) /\ Cardinality({}) = 0
  BY RefreshAssumption, FS_CardinalityType, FS_EmptySet
<1>1. file \in Payload \cup {None} /\ sidecar \in Sidecar
  BY DEF Init, Unusable, Sealed, Sidecar, Validators, NoValidators, Good
<1>2. \A u \in Url : sidecar.vals[u] \in {sidecar.sha, None}
  BY DEF Init, Unusable, Sealed, NoValidators
<1>3. /\ BootPayload \in Good /\ BootHash \in Good \cup {None}
      /\ BootHash \in {BootPayload, None} /\ LoadValidators \in Validators
  BY <1>1, RefreshAssumption DEF BootPayload, BootHash, LoadValidators, Good, Sidecar,
     Validators, NoValidators
<1>4. \A u \in Url : LoadValidators[u] \in {BootHash, None}
  BY <1>2 DEF LoadValidators, NoValidators
<1>5. applied = BootPayload /\ hash = BootHash /\ validators = LoadValidators
  BY DEF Init
<1>6. DataInv
  BY <1>1, <1>3, <1>5 DEF DataInv
<1>7. FlagInv
  <2>1. events \in 0 .. MaxEvent
    BY RefreshAssumption DEF Init
  <2>2. paused \in BOOLEAN /\ closed = FALSE /\ expired = TRUE /\ spoiled = FALSE /\ dirty = FALSE /\ change = FALSE
    BY DEF Init
  <2> QED BY <2>1, <2>2 DEF FlagInv
<1>8. FetchInv
  BY DEF Init, FetchInv, Validators, NoValidators
<1>9. CountInv
  BY <1>0 DEF Init, CountInv, Listening
<1>10. AnswerInv
  BY DEF Init, AnswerInv, NoValidators
<1>11. ValidatorsBelong
  BY <1>2, <1>3, <1>4, <1>5 DEF ValidatorsBelong
<1>12. ChangeInv /\ DiskInv
  BY <1>5 DEF Init, ChangeInv, DiskInv
<1> QED BY <1>6, <1>7, <1>8, <1>9, <1>10, <1>11, <1>12 DEF IInv

-----------------------------------------------------------------------------
(***************************************************************************)
(* The fetches                                                             *)
(***************************************************************************)
LEMMA FetchAnswersFaithfully ==
    ASSUME IInv, NEW u \in Url, Fetch(u)
    PROVE  \E r \in Response : Faithful(r) /\ Send(u, r)
<1> USE RefreshAssumption DEF IInv, DataInv, FetchInv, AnswerInv, Validators
<1>0. Nil(u) \in Response /\ Faithful(Nil(u))
  BY DEF Nil, Response, Faithful
<1>1. CASE FetchFull(u)
  <2>1. PICK p \in Publishes[u] : \E v \in Tags(u, p) : Send(u, Respond(u, "full", p, v))
    BY <1>1 DEF FetchFull
  <2> PICK v \in Tags(u, p) : Send(u, Respond(u, "full", p, v))
    BY <2>1
  <2>2. p \in Payload /\ v \in {p, None}
    BY <2>1 DEF Tags
  <2>3. Respond(u, "full", p, v) \in Response /\ Faithful(Respond(u, "full", p, v))
    BY <2>2 DEF Respond, Response, Faithful
  <2> QED BY <2>3
<1>2. CASE FetchNotModified(u)
  <2>1. PICK p \in Publishes[u] : asked[u] \in {p, None} /\ Send(u, NotModified(u, p))
    BY <1>2 DEF FetchNotModified
  <2>2. p \in Payload
    BY <2>1
  <2>3. NotModified(u, p) \in Response /\ Faithful(NotModified(u, p))
    BY <1>0, <2>1, <2>2 DEF NotModified, Respond, Response, Faithful
  <2> QED BY <2>1, <2>3
<1>3. CASE FetchFails(u)
  BY <1>0, <1>3 DEF FetchFails
<1> QED BY <1>1, <1>2, <1>3 DEF Fetch

LEMMA SendKeepsIInv ==
    ASSUME IInv, NEW u \in Url, NEW r \in Response, Faithful(r), Send(u, r)
    PROVE  IInv'
<1> USE DEF Send, memory, disk, collector
<1>0. UNCHANGED <<events, paused, closed, applied, hash, validators, file, sidecar, spoiled, pc,
                  expired, received, held, dirty>>
  OBVIOUS
<1>1. FlagInv' /\ DataInv'
  BY <1>0 DEF IInv, FlagInv, DataInv
<1>2. FetchInv'
  BY <1>0 DEF IInv, FetchInv, Validators
<1>3. CountInv'
  <2>1. IsFiniteSet(asking) /\ Cardinality(Url) \in Nat /\ Cardinality(asking) \in Nat
    BY RefreshAssumption, FS_Subset, FS_CardinalityType DEF IInv, FetchInv
  <2>2. Cardinality(asking') = Cardinality(asking) - 1
    BY <2>1, FS_RemoveElement
  <2>3. Listening' <=> Listening
    BY <1>0 DEF Listening
  <2> HIDE DEF Listening
  <2>4. CASE Listening
    <3>1. results' = Append(results, r)
      BY <2>4
    <3>2. Len(results') = Len(results) + 1
      BY <3>1 DEF IInv, FetchInv
    <3> QED BY <1>0, <2>1, <2>2, <2>3, <2>4, <3>2 DEF IInv, CountInv, FetchInv
  <2>5. CASE ~Listening
    BY <1>0, <2>3, <2>5 DEF IInv, CountInv
  <2> QED BY <2>4, <2>5
<1>4. ValidatorsBelong' /\ DiskInv'
  BY <1>0 DEF IInv, ValidatorsBelong, DiskInv, BootPayload, BootHash, LoadValidators
<1>5. \/ results' = Append(results, r) /\ change' = (change \/ IsChange(r))
      \/ results' = results /\ change' = change
  BY DEF IsChange
<1>6. Faithful(r)' /\ (IsChange(r) <=> IsChange(r)')
  BY <1>0 DEF Faithful, IsChange
<1>7. AnswerInv'
  BY <1>0, <1>5, <1>6 DEF IInv, AnswerInv, FetchInv, Faithful, Validators
<1>8. ChangeInv'
  <2>1. CASE results' = results /\ change' = change
    BY <1>0, <2>1 DEF IInv, ChangeInv, IsChange
  <2>2. CASE results' = Append(results, r) /\ change' = (change \/ IsChange(r))
    <3>1. /\ results \in Seq(Response) /\ results' \in Seq(Response)
          /\ Len(results') = Len(results) + 1 /\ results'[Len(results')] = r
          /\ \A i \in 1 .. Len(results) : results'[i] = results[i]
      BY <2>2 DEF IInv, FetchInv
    <3>2. CASE IsChange(r)
      <4>1. Len(results') \in 1 .. Len(results')
        BY <3>1
      <4>2. \E i \in 1 .. Len(results') : IsChange(results'[i])
        BY <3>1, <3>2, <4>1
      <4> QED BY <1>0, <4>2 DEF ChangeInv, IsChange
    <3>3. CASE ~IsChange(r)
      <4>1. change' => change
        BY <2>2, <3>3
      <4>2. (\E i \in 1 .. Len(results) : IsChange(results[i])) =>
              \E i \in 1 .. Len(results') : IsChange(results'[i])
        BY <3>1
      <4> QED BY <1>0, <4>1, <4>2 DEF IInv, ChangeInv, IsChange
    <3> QED BY <3>2, <3>3
  <2> QED BY <1>5, <2>1, <2>2
<1> QED BY <1>1, <1>2, <1>3, <1>4, <1>7, <1>8 DEF IInv
-----------------------------------------------------------------------------
(***************************************************************************)
(* The collector                                                           *)
(***************************************************************************)
\* The frame and the queue of a step that receives.
LEMMA ReceiveTakesHead ==
    ASSUME IInv, NEW label \in {"collect", "gate"}, Receive(label)
    PROVE  /\ Head(results) \in Response /\ Faithful(Head(results))
           /\ Head(results) = results[1] /\ Len(results) > 0
           /\ results' \in Seq(Response) /\ Len(results') = Len(results) - 1
           /\ \A i \in 1 .. Len(results') : results'[i] = results[i + 1]
           /\ CountInv'
           /\ pc = "collect" /\ pc' = label /\ ~closed
           /\ UNCHANGED <<events, paused, closed, asking, asked, change, applied, hash, file,
                          sidecar, spoiled, expired>>
<1> USE DEF IInv, FetchInv, CountInv, AnswerInv, Receive, disk, outside
<1>1. /\ Len(results) > 0 /\ Head(results) = results[1] /\ Head(results) \in Response
      /\ results' \in Seq(Response) /\ Len(results') = Len(results) - 1
      /\ \A i \in 1 .. Len(results') : results'[i] = results[i + 1]
  OBVIOUS
<1>2. Faithful(Head(results))
  BY <1>1
<1>3. CountInv'
  <2>1. IsFiniteSet(asking) /\ Cardinality(Url) \in Nat /\ Cardinality(asking) \in Nat
    BY RefreshAssumption, FS_Subset, FS_CardinalityType
  <2>2. Listening /\ Listening'
    BY DEF Listening
  <2>3. Len(results') + Cardinality(asking') + received' = Cardinality(Url)
    BY <1>1, <2>1, <2>2
  <2>4. received' \in 0 .. Cardinality(Url)
    BY <1>1, <2>1, <2>2
  <2> QED BY <2>2, <2>3, <2>4
<1> QED BY <1>1, <1>2, <1>3

LEMMA ReceiveUnchangedKeepsIInv == ASSUME IInv, ReceiveUnchanged PROVE IInv'
<1> DEFINE r == Head(results)
<1>1. /\ Receive("collect") /\ Confirms(r)
      /\ validators' = [validators EXCEPT ![r.url] = r.val]
      /\ dirty' = (dirty \/ validators[r.url] # r.val)
      /\ held' = held
  BY DEF ReceiveUnchanged
<1>2. /\ r \in Response /\ Faithful(r) /\ r = results[1] /\ Len(results) > 0
      /\ results' \in Seq(Response) /\ Len(results') = Len(results) - 1
      /\ \A i \in 1 .. Len(results') : results'[i] = results[i + 1]
      /\ CountInv'
      /\ pc = "collect" /\ pc' = "collect" /\ ~closed
      /\ UNCHANGED <<events, paused, closed, asking, asked, change, applied, hash, file,
                     sidecar, spoiled, expired>>
  BY <1>1, ReceiveTakesHead
<1> HIDE DEF r
<1>3. r.url \in Url /\ r.val \in {hash, None} /\ r.val \in Payload \cup {None} /\ hash # None /\ ~IsChange(r)
  BY <1>1, <1>2 DEF Confirms, Faithful, IsChange, Response
<1>4. validators \in Validators /\ validators' \in Validators
  BY <1>1, <1>3 DEF IInv, DataInv, Validators
<1>5. FlagInv' /\ DataInv' /\ FetchInv'
  <2>1. dirty' \in BOOLEAN
    BY <1>1 DEF IInv, FlagInv
  <2> QED BY <1>1, <1>2, <1>4, <2>1 DEF IInv, FlagInv, DataInv, FetchInv
<1>6. AnswerInv'
  BY <1>1, <1>2 DEF IInv, AnswerInv, Faithful
<1>7. ValidatorsBelong'
  BY <1>1, <1>2, <1>3, <1>4 DEF IInv, ValidatorsBelong, Validators
<1>8. ChangeInv'
  <2> SUFFICES ASSUME change PROVE \E i \in 1 .. Len(results') : IsChange(results'[i])
    BY <1>2 DEF ChangeInv, IsChange
  <2>1. PICK i \in 1 .. Len(results) : IsChange(results[i])
    BY <1>2 DEF IInv, ChangeInv
  <2>2. i # 1 /\ i - 1 \in 1 .. Len(results')
    BY <1>2, <1>3, <2>1
  <2>3. results'[i - 1] = results[i]
    BY <1>2, <2>2
  <2> QED BY <2>1, <2>2, <2>3
<1>9. DiskInv'
  <2>1. ~dirty' => validators' = validators
    BY <1>1, <1>3, <1>4 DEF Validators
  <2>2. ~dirty' => ~dirty
    BY <1>1
  <2> QED BY <1>2, <1>3, <2>1, <2>2 DEF IInv, DiskInv, BootPayload, BootHash, LoadValidators
<1> QED BY <1>2, <1>5, <1>6, <1>7, <1>8, <1>9 DEF IInv

LEMMA ReceiveOtherKeepsIInv == ASSUME IInv, ReceiveUseless \/ ReceiveChanged PROVE IInv'
<1> DEFINE r == Head(results)
<1>1. PICK label \in {"collect", "gate"} : Receive(label)
  BY DEF ReceiveUseless, ReceiveChanged
<1>2. /\ r \in Response /\ Faithful(r) /\ r = results[1] /\ Len(results) > 0
      /\ results' \in Seq(Response) /\ Len(results') = Len(results) - 1
      /\ \A i \in 1 .. Len(results') : results'[i] = results[i + 1]
      /\ CountInv'
      /\ pc = "collect" /\ pc' = label /\ ~closed
      /\ UNCHANGED <<events, paused, closed, asking, asked, change, applied, hash, file,
                     sidecar, spoiled, expired>>
  BY <1>1, ReceiveTakesHead
<1>3. UNCHANGED <<validators, dirty>>
  BY DEF ReceiveUseless, ReceiveChanged
<1>4. \/ pc' = "collect" /\ held' = held /\ ~IsChange(r)
      \/ /\ pc' = "gate" /\ held' = r
         /\ r.kind = "full" /\ r.payload \notin Unparsable
  BY DEF ReceiveUseless, ReceiveChanged, Receive, IsChange, Good
<1> HIDE DEF r
<1>5. FlagInv' /\ DataInv' /\ FetchInv'
  BY <1>2, <1>3, <1>4 DEF IInv, FlagInv, DataInv, FetchInv
<1>6. AnswerInv'
  <2>1. \A i \in 1 .. Len(results') : Faithful(results[i])'
    BY <1>2 DEF IInv, AnswerInv, Faithful
  <2> QED BY <1>2, <1>4, <2>1 DEF IInv, AnswerInv, Faithful
<1>7. ValidatorsBelong'
  BY <1>2, <1>3 DEF IInv, ValidatorsBelong
<1>8. ChangeInv'
  <2> SUFFICES ASSUME change
               PROVE  \/ \E i \in 1 .. Len(results') : IsChange(results'[i])
                      \/ pc' = "gate" /\ IsChange(held')
    BY <1>2 DEF ChangeInv, IsChange
  <2>1. PICK i \in 1 .. Len(results) : IsChange(results[i])
    BY <1>2 DEF IInv, ChangeInv
  <2>2. CASE i = 1
    BY <1>2, <1>4, <2>1, <2>2
  <2>3. CASE i # 1
    <3>1. i - 1 \in 1 .. Len(results') /\ results'[i - 1] = results[i]
      BY <1>2, <2>3
    <3> QED BY <2>1, <3>1
  <2> QED BY <2>2, <2>3
<1>9. DiskInv'
  BY <1>2, <1>3 DEF IInv, DiskInv, BootPayload, BootHash, LoadValidators
<1> QED BY <1>2, <1>5, <1>6, <1>7, <1>8, <1>9 DEF IInv

\* Every exit stops listening.
LEMMA LeavingKeepsIInv == ASSUME IInv, Finish \/ GateCancelled PROVE IInv'
<1> USE DEF Leave, StopListening, memory, disk, collector, outside, NoValidators
<1>1. /\ pc' = "finish" /\ expired' = TRUE /\ results' = <<>>
      /\ asked' = [u \in Url |-> None]
      /\ UNCHANGED <<events, paused, closed, applied, hash, validators, file, sidecar, spoiled,
                     received, held, dirty, change, asking>>
  BY DEF Finish, GateCancelled
<1>2. FlagInv' /\ DataInv'
  BY <1>1 DEF IInv, FlagInv, DataInv
<1>3. FetchInv'
  BY <1>1 DEF IInv, FetchInv, Validators
<1>4. CountInv'
  BY <1>1 DEF IInv, CountInv, Listening
<1>5. AnswerInv' /\ ValidatorsBelong'
  BY <1>1 DEF IInv, AnswerInv, ValidatorsBelong
<1>6. closed \/ (results = <<>> /\ pc = "collect")
  <2>1. CASE GateCancelled
    BY <2>1 DEF GateCancelled
  <2>2. CASE Finish /\ received = Cardinality(Url)
    <3>1. IsFiniteSet(asking) /\ Cardinality(Url) \in Nat /\ Cardinality(asking) \in Nat
      BY RefreshAssumption, FS_Subset, FS_CardinalityType DEF IInv, FetchInv
    <3>2. Len(results) = 0 /\ pc = "collect"
      BY <2>2, <3>1 DEF Finish, Listening, IInv, CountInv, FetchInv
    <3> QED BY <3>2 DEF IInv, FetchInv
  <2>3. CASE Finish /\ ~(received = Cardinality(Url))
    BY <2>3 DEF Finish, Done
  <2> QED BY <2>1, <2>2, <2>3
<1>7. ChangeInv'
  BY <1>1, <1>6 DEF IInv, ChangeInv
<1>8. DiskInv'
  <2>1. pc \in {"collect", "gate"}
    BY DEF Finish, GateCancelled
  <2> QED BY <1>1, <2>1 DEF IInv, DiskInv, BootPayload, BootHash, LoadValidators
<1> QED BY <1>2, <1>3, <1>4, <1>5, <1>7, <1>8 DEF IInv

LEMMA ApplyFailsKeepsIInv == ASSUME IInv, ApplyFails PROVE IInv'
<1>1. /\ pc = "gate" /\ pc' = "collect" /\ held' = None /\ held.payload \in Empty
      /\ UNCHANGED <<events, paused, closed, applied, hash, validators, file, sidecar, spoiled,
                     asking, asked, results, change, received, dirty, expired>>
  BY DEF ApplyFails, GatePassed, Refuses, memory, disk, fetches, outside
<1>2. FlagInv' /\ DataInv' /\ FetchInv'
  BY <1>1 DEF IInv, FlagInv, DataInv, FetchInv
<1>3. CountInv'
  BY <1>1 DEF IInv, CountInv, Listening
<1>4. AnswerInv' /\ ValidatorsBelong'
  BY <1>1 DEF IInv, AnswerInv, ValidatorsBelong, Faithful
<1>5. ChangeInv'
  BY <1>1 DEF IInv, ChangeInv, IsChange, Good
<1>6. DiskInv'
  BY <1>1 DEF IInv, DiskInv, BootPayload, BootHash, LoadValidators
<1> QED BY <1>2, <1>3, <1>4, <1>5, <1>6 DEF IInv

LEMMA ApplyKeepsIInv == ASSUME IInv, Apply PROVE IInv'
<1>1. /\ pc = "gate" /\ held.payload \notin Empty
      /\ applied' = held.payload /\ hash' = held.payload
      /\ validators' = [NoValidators EXCEPT ![held.url] = held.val]
      /\ dirty' = TRUE /\ change' = FALSE /\ held' = None
      /\ pc' = "persist" /\ expired' = TRUE /\ results' = <<>> /\ asked' = NoValidators
      /\ UNCHANGED <<events, paused, closed, file, sidecar, spoiled, asking, received>>
  BY DEF Apply, GatePassed, Refuses, Renewed, StopListening, disk, outside
<1>2. /\ held \in Response /\ held.url \in Url /\ held.payload \in Good /\ held.payload # None
      /\ held.val \in {held.payload, None} /\ held.val \in Payload \cup {None}
  BY <1>1, RefreshAssumption DEF IInv, AnswerInv, Response, Good
<1>3. /\ validators' \in Validators
      /\ \A u \in Url : validators'[u] \in {hash', None}
  BY <1>1, <1>2 DEF Validators, NoValidators
<1>4. FlagInv'
  BY <1>1 DEF IInv, FlagInv
<1>5. DataInv' /\ FetchInv'
  BY <1>1, <1>2, <1>3 DEF IInv, DataInv, FetchInv, Validators, NoValidators
<1>6. CountInv'
  BY <1>1 DEF IInv, CountInv, Listening
<1>7. AnswerInv' /\ ValidatorsBelong' /\ ChangeInv'
  BY <1>1, <1>2, <1>3 DEF IInv, AnswerInv, ValidatorsBelong, ChangeInv, NoValidators
<1>8. DiskInv'
  BY <1>1, <1>2 DEF IInv, DiskInv
<1> QED BY <1>4, <1>5, <1>6, <1>7, <1>8 DEF IInv

LEMMA StartKeepsIInv == ASSUME IInv, Start PROVE IInv'
<1>1. /\ pc = "idle" /\ pc' = "collect" /\ expired' = FALSE /\ asking' = Url
      /\ asked' = validators /\ results' = <<>> /\ received' = 0 /\ held' = None
      /\ dirty' = FALSE /\ change' = FALSE
      /\ UNCHANGED <<events, paused, closed, applied, hash, validators, file, sidecar, spoiled>>
  BY DEF Start, memory, disk, outside
<1>2. FlagInv' /\ DataInv' /\ FetchInv'
  <2>1. FlagInv'
    BY <1>1 DEF IInv, FlagInv
  <2>2. DataInv'
    BY <1>1 DEF IInv, DataInv
  <2>3. FetchInv'
    BY <1>1 DEF IInv, DataInv, FetchInv
  <2> QED BY <2>1, <2>2, <2>3
<1>3. CountInv'
  <2>1. Cardinality(Url) \in Nat
    BY RefreshAssumption, FS_CardinalityType
  <2> QED BY <1>1, <2>1 DEF CountInv, Listening
<1>4. AnswerInv' /\ ValidatorsBelong' /\ ChangeInv'
  BY <1>1 DEF IInv, AnswerInv, ValidatorsBelong, ChangeInv
<1>5. DiskInv'
  BY <1>1 DEF IInv, DiskInv, BootPayload, BootHash, LoadValidators
<1> QED BY <1>2, <1>3, <1>4, <1>5 DEF IInv
-----------------------------------------------------------------------------
(***************************************************************************)
(* The writes, and the world                                               *)
(***************************************************************************)
\* What every step of a write leaves alone.
LEMMA WriteFrame ==
    ASSUME IInv, NEW label \in {"idle", "writing", "finish", "sealing"},
           pc \in {"persist", "writing", "finish", "sealing"}, pc' = label,
           writeFrame, DataInv', spoiled' \in BOOLEAN,
           \/ UNCHANGED <<held, dirty, change>>
           \/ held' = None /\ dirty' = FALSE /\ change' = FALSE
    PROVE  /\ FlagInv' /\ FetchInv' /\ CountInv' /\ AnswerInv' /\ ChangeInv'
           /\ UNCHANGED <<applied, hash, validators>>
<1> USE DEF writeFrame, outside, memory
<1>1. FlagInv' /\ FetchInv'
  BY DEF IInv, FlagInv, FetchInv
<1>2. CountInv' /\ AnswerInv' /\ ChangeInv'
  BY DEF IInv, CountInv, Listening, AnswerInv, ChangeInv
<1> QED BY <1>1, <1>2

LEMMA WriteKeepsIInv ==
    ASSUME IInv, WriteRefused \/ WriteTruncates \/ WriteFails \/ WriteEnds \/ NothingToSeal
    PROVE  IInv'
<1> USE DEF WriteRefused, WriteTruncates, WriteFails, WriteEnds, NothingToSeal, Goto, Return
<1>1. PICK label \in {"idle", "writing", "finish", "sealing"} : pc' = label
  OBVIOUS
<1>2. /\ pc \in {"persist", "writing", "finish", "sealing"} /\ writeFrame
      /\ \/ UNCHANGED <<held, dirty, change>>
         \/ held' = None /\ dirty' = FALSE /\ change' = FALSE
  OBVIOUS
<1>3. UNCHANGED <<applied, hash, validators>>
  BY <1>2 DEF writeFrame, memory
<1>4. spoiled' \in BOOLEAN
  BY DEF disk, IInv, FlagInv
<1>5. pc = "sealing" \/ pc = "writing" => hash \in Good
  BY DEF IInv, DataInv, DiskInv
<1>6. sidecar' \in {sidecar, Unusable, [sha |-> hash, vals |-> validators]}
      /\ file' \in {file, None, hash}
  BY DEF disk
<1>7. DataInv'
  BY <1>3, <1>6 DEF IInv, DataInv, Unusable, Sidecar, Validators, NoValidators, Good
<1>8. FlagInv' /\ FetchInv' /\ CountInv' /\ AnswerInv' /\ ChangeInv'
  BY <1>1, <1>2, <1>4, <1>7, WriteFrame
<1>9. ValidatorsBelong'
  BY <1>3, <1>6 DEF IInv, DataInv, ValidatorsBelong, Unusable, NoValidators
<1>10. DiskInv'
  <2> USE <1>3 DEF IInv, DiskInv
  <2>1. CASE WriteRefused \/ WriteFails
    BY <2>1 DEF Sealing
  <2>2. CASE WriteTruncates
    BY <2>2 DEF Sealing, BootPayload, BootHash
  <2>3. CASE WriteEnds /\ pc = "writing"
    <3>1. hash \in Good /\ hash = applied /\ dirty
      BY <2>3 DEF DataInv, ValidatorsBelong
    <3> QED BY <2>3, <3>1, RefreshAssumption DEF BootPayload, BootHash
  <2>4. CASE WriteEnds /\ pc = "sealing"
    BY <2>4 DEF BootPayload, BootHash, LoadValidators
  <2>5. CASE NothingToSeal
    BY <2>5 DEF Sealing, BootPayload, BootHash, LoadValidators, disk
  <2> QED BY <2>1, <2>2, <2>3, <2>4, <2>5
<1> QED BY <1>7, <1>8, <1>9, <1>10 DEF IInv

LEMMA RestartKeepsIInv == ASSUME IInv, Restart PROVE IInv'
<1>1. /\ applied' = BootPayload /\ hash' = BootHash /\ validators' = LoadValidators
      /\ closed' = FALSE /\ paused' = FALSE /\ spoiled' = FALSE
      /\ pc' = "idle" /\ expired' = TRUE
      /\ asking' = {} /\ asked' = NoValidators
      /\ results' = <<>> /\ received' = Cardinality(Url) /\ held' = None
      /\ dirty' = FALSE /\ change' = FALSE
      /\ events' = events + 1 /\ events < MaxEvent
      /\ UNCHANGED <<file, sidecar>>
  BY DEF Restart, Event
<1>2. BootPayload' = BootPayload /\ BootHash' = BootHash /\ LoadValidators' = LoadValidators
  BY <1>1 DEF BootPayload, BootHash, LoadValidators
<1>3. /\ BootPayload \in Good /\ BootHash \in Good \cup {None}
      /\ BootHash \in {BootPayload, None} /\ LoadValidators \in Validators
  BY BootLemma DEF IInv
<1>4. \A u \in Url : LoadValidators[u] \in {BootHash, None}
  BY BootValidators DEF IInv, ValidatorsBelong
<1>5. Cardinality(Url) \in Nat
  BY RefreshAssumption, FS_CardinalityType
<1>6. FlagInv'
  <2>1. events' \in 0 .. MaxEvent
    BY <1>1, RefreshAssumption DEF IInv, FlagInv
  <2>2. /\ paused' \in BOOLEAN /\ closed' \in BOOLEAN /\ expired' \in BOOLEAN
        /\ spoiled' \in BOOLEAN /\ dirty' \in BOOLEAN /\ change' \in BOOLEAN
    BY <1>1
  <2> QED BY <2>1, <2>2 DEF FlagInv
<1>7. DataInv'
  BY <1>1, <1>3 DEF IInv, DataInv
<1>8. FetchInv'
  BY <1>1 DEF FetchInv, Validators, NoValidators
<1>9. CountInv'
  BY <1>1, <1>5 DEF CountInv, Listening
<1>10. AnswerInv' /\ ChangeInv'
  BY <1>1 DEF AnswerInv, ChangeInv, NoValidators
<1>11. ValidatorsBelong'
  BY <1>1, <1>3, <1>4 DEF IInv, ValidatorsBelong
<1>12. DiskInv'
  BY <1>1, <1>2 DEF DiskInv
<1> QED BY <1>6, <1>7, <1>8, <1>9, <1>10, <1>11, <1>12 DEF IInv

LEMMA WorldKeepsIInv ==
    ASSUME IInv, Deadline \/ PauseOrResume \/ Close \/ OtherClientWrites
    PROVE  IInv'
<1> USE DEF Deadline, PauseOrResume, Close, OtherClientWrites, worldFrame, Event, memory, disk,
        fetches, collector
<1>1. UNCHANGED <<applied, hash, validators, pc, asking, asked, results, received, held, dirty,
                  change>>
  OBVIOUS
<1>2. FlagInv'
  <2>1. events' \in 0 .. MaxEvent
    BY RefreshAssumption DEF IInv, FlagInv
  <2>2. paused' \in BOOLEAN /\ closed' \in BOOLEAN /\ expired' \in BOOLEAN /\ spoiled' \in BOOLEAN
    BY DEF IInv, FlagInv
  <2>3. dirty' \in BOOLEAN /\ change' \in BOOLEAN
    BY <1>1 DEF IInv, FlagInv
  <2> QED BY <2>1, <2>2, <2>3 DEF FlagInv
<1>3. \/ UNCHANGED <<file, sidecar, spoiled>>
      \/ /\ spoiled' = TRUE
         /\ \/ file' \in Good /\ sidecar' = sidecar
            \/ sidecar' \in {Sealed(p) : p \in Good} /\ file' = file
  OBVIOUS
<1>4. DataInv' /\ ValidatorsBelong'
  BY <1>1, <1>3 DEF IInv, DataInv, ValidatorsBelong, Sealed, Sidecar, Validators, Good
<1>5. FetchInv' /\ CountInv' /\ AnswerInv'
  BY <1>1 DEF IInv, FetchInv, CountInv, Listening, AnswerInv, Faithful
<1>6. ChangeInv'
  <2>1. closed => closed'
    OBVIOUS
  <2> QED BY <1>1, <2>1 DEF IInv, ChangeInv, IsChange
<1>7. DiskInv'
  BY <1>1, <1>3 DEF IInv, DiskInv, BootPayload, BootHash, LoadValidators
<1> QED BY <1>2, <1>4, <1>5, <1>6, <1>7 DEF IInv

LEMMA RefreshStutter == IInv /\ UNCHANGED vars => IInv'
BY DEF IInv, FlagInv, DataInv, FetchInv, CountInv, Listening, AnswerInv, Faithful,
   ValidatorsBelong, ChangeInv, IsChange, DiskInv, BootPayload, BootHash, LoadValidators, vars

LEMMA RefreshNext == IInv /\ [Next]_vars => IInv'
<1> SUFFICES ASSUME IInv, [Next]_vars PROVE IInv'
  OBVIOUS
<1>1. CASE Updater
  BY <1>1, StartKeepsIInv, LeavingKeepsIInv, ReceiveUnchangedKeepsIInv, ReceiveOtherKeepsIInv,
     ApplyFailsKeepsIInv, ApplyKeepsIInv, WriteKeepsIInv DEF Updater
<1>2. ASSUME NEW u \in Url, Fetch(u) PROVE IInv'
  <2>1. PICK r \in Response : Faithful(r) /\ Send(u, r)
    BY <1>2, FetchAnswersFaithfully
  <2> QED BY <2>1, SendKeepsIInv
<1>3. CASE Restart \/ Deadline \/ PauseOrResume \/ Close \/ OtherClientWrites
  BY <1>3, RestartKeepsIInv, WorldKeepsIInv
<1> QED BY <1>1, <1>2, <1>3, RefreshStutter DEF Next

LEMMA RefreshInvariant == Spec => []IInv
<1> QED BY RefreshInit, RefreshNext, PTL DEF Spec

\* Every variable keeps its type (config_fetch.go).
THEOREM RefreshTypeCorrect == Spec => []TypeOK
<1>1. IInv => TypeOK
  BY DEF IInv, FlagInv, DataInv, FetchInv, CountInv, TypeOK
<1> QED BY <1>1, RefreshInvariant, PTL

\* Every validator, in memory and in the sidecar, vouches for the payload the
\* client runs on or the one the sidecar names, across updates, failed and
\* torn writes, restarts and writes of others (config_fetch.go:99-101,
\* 195-224).
THEOREM ValidatorsAlwaysBelong == Spec => []ValidatorsBelong
<1>1. IInv => ValidatorsBelong
  BY DEF IInv
<1> QED BY <1>1, RefreshInvariant, PTL

\* A 304, or a 200 with the bytes the client has, comes from a source that had
\* the payload in use (config_fetch.go:76-80, 152-162).
THEOREM UnchangedIsUnchanged == Spec => []UnchangedConfirmsApplied
<1>1. IInv => UnchangedConfirmsApplied
  <2> SUFFICES ASSUME IInv, results # <<>>, Confirms(Head(results))
               PROVE  Head(results).payload = applied
    BY DEF UnchangedConfirmsApplied
  <2>1. Faithful(Head(results))
    BY DEF IInv, FetchInv, AnswerInv
  <2>2. hash \in {applied, None}
    BY DEF IInv, ValidatorsBelong
  <2> QED BY <2>1, <2>2 DEF Confirms, Faithful
<1> QED BY <1>1, RefreshInvariant, PTL

\* No refresh ends without a change that reached it in time, unless the client
\* was closed (config_fetch.go:29-30, 114-128).
THEOREM ChangeIsNotMissed == Spec => []ChangeIsApplied
<1>1. IInv => ChangeIsApplied
  BY DEF IInv, CountInv, Listening, ChangeInv, ChangeIsApplied
<1> QED BY <1>1, RefreshInvariant, PTL

\* Between refreshes a restart finds in the files what the client has in
\* memory, unless a write failed or somebody else wrote
\* (domainfront.go:98-104, config_fetch.go:99-108).
THEOREM RestartFindsTheSame == Spec => []RestartRestores
<1>1. IInv => RestartRestores
  BY DEF IInv, DiskInv, RestartRestores
<1> QED BY <1>1, RefreshInvariant, PTL
=============================================================================
