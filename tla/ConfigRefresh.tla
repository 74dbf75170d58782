--------------------------- MODULE ConfigRefresh ---------------------------
(***************************************************************************)
(* The refresh of the configuration (config_fetch.go), what it persists    *)
(* and what the next start makes of the two files (domainfront.go).  A     *)
(* payload stands for its bytes and for their digest; the validator a      *)
(* server issues with a payload stands for its ETag and Last-Modified, and *)
(* is named by that payload.  A file that is missing, torn or unparsable   *)
(* reads as nothing.                                                       *)
(***************************************************************************)
EXTENDS Naturals, Sequences, FiniteSets

CONSTANTS
    Url,         \* configURLs
    Careless,    \* the sources that may leave their validators out
    Payload,
    Publishes,   \* the payloads each source may have in its life
    Unparsable,  \* payloads ParseConfig refuses
    Empty,       \* payloads that parse and that applyConfig refuses
    Seed,        \* what the caller of New passes
    None,        \* no payload, no digest, no validator
    MaxEvent     \* bound: how often something happens around the refreshes

ASSUME RefreshAssumption ==
    /\ Url # {} /\ IsFiniteSet(Url) /\ Careless \subseteq Url
    /\ Publishes \in [Url -> SUBSET Payload]
    /\ Unparsable \subseteq Payload /\ Empty \subseteq Payload
    /\ Seed \in Payload \ (Unparsable \cup Empty)
    /\ None \notin Payload /\ MaxEvent \in Nat

VARIABLES
    events,      \* restarts, pauses, closings and writes of others so far
    paused,
    closed,      \* c.ctx has ended
    applied,     \* the payload the client runs on
    hash,        \* c.configHash
    validators,  \* c.configValidators
    file,        \* the persisted payload
    sidecar,     \* the persisted validators, bound to a digest
    pc,          \* where fetchAndApplyConfig is
    asking,      \* the sources whose fetch is in flight
    asked,       \* the validator each fetch sent
    expired,     \* the fetch context has ended
    results,     \* the channel of responses, while somebody reads it
    received,    \* how many the collector has received
    held,        \* the response it is applying
    dirty,       \* validatorsChanged
    change,      \* history: this refresh got a change and has applied none
    spoiled      \* history: a write failed, or somebody else wrote the files

memory == <<applied, hash, validators>>
disk == <<file, sidecar, spoiled>>
fetches == <<asking, asked, results, change>>
collector == <<received, held, dirty>>
vars == <<events, paused, closed, applied, hash, validators, file, sidecar, pc, asking, asked,
          expired, results, received, held, dirty, change, spoiled>>

Good == Payload \ (Unparsable \cup Empty)
Validators == [Url -> Payload \cup {None}]
NoValidators == [u \in Url |-> None]
Sidecar == [sha : Payload \cup {None}, vals : Validators]
Unusable == [sha |-> None, vals |-> NoValidators]

\* A response names the payload the source had when it answered; the one of
\* a request that failed is "nil".
Response == [url : Url, kind : {"full", "unchanged", "nil"}, payload : Payload,
             val : Payload \cup {None}]

Respond(u, kind, p, val) == [url |-> u, kind |-> kind, payload |-> p, val |-> val]
Nil(u) == [url |-> u, kind |-> "nil", payload |-> Seed, val |-> None]
-----------------------------------------------------------------------------
(***************************************************************************)
(* New: what a start makes of the files                                    *)
(***************************************************************************)
BootPayload == IF file \in Good THEN file ELSE Seed
BootHash == IF file \in Good THEN file ELSE None

\* Fault: the sidecar is believed whatever payload it was written for.
LoadAnySidecar == IF BootHash # None THEN sidecar.vals ELSE NoValidators

LoadValidators ==
    IF BootHash # None /\ sidecar.sha = BootHash THEN sidecar.vals ELSE NoValidators

\* What another client may have written: every source gave it a validator.
Sealed(p) == [sha |-> p, vals |-> [u \in Url |-> p]]

\* A start on whatever files an earlier client left, paused at once or not.
Init ==
    /\ events = 0
    /\ paused \in BOOLEAN /\ closed = FALSE
    /\ file \in (Payload \ Unparsable) \cup {None}
    /\ sidecar \in {Unusable} \cup {Sealed(p) : p \in Good}
    /\ spoiled = FALSE
    /\ applied = BootPayload /\ hash = BootHash /\ validators = LoadValidators
    /\ pc = "idle" /\ expired = TRUE
    /\ asking = {} /\ asked = NoValidators
    /\ results = <<>> /\ received = Cardinality(Url) /\ held = None
    /\ dirty = FALSE /\ change = FALSE

Event == events < MaxEvent /\ events' = events + 1

\* A crash in any state, or Close and New: what was in memory is gone, and
\* the fetches with it.
Restart ==
    /\ Event
    /\ applied' = BootPayload /\ hash' = BootHash /\ validators' = LoadValidators
    /\ closed' = FALSE /\ paused' = FALSE /\ spoiled' = FALSE
    /\ pc' = "idle" /\ expired' = TRUE
    /\ asking' = {} /\ asked' = NoValidators
    /\ results' = <<>> /\ received' = Cardinality(Url) /\ held' = None
    /\ dirty' = FALSE /\ change' = FALSE
    /\ UNCHANGED <<file, sidecar>>
-----------------------------------------------------------------------------
(***************************************************************************)
(* fetchConfigFrom, a goroutine per source                                 *)
(***************************************************************************)
CtxDone == expired \/ closed
Listening == pc \in {"collect", "gate"}

\* Fault: the channel holds one response.
RoomForOne == 1

Room == Cardinality(Url)

\* Responses nobody has received; those of a refresh that has ended stay in
\* its channel for ever.
Queued == Cardinality(Url) - Cardinality(asking) - received

Send(u, r) ==
    /\ u \in asking /\ Queued < Room
    /\ asking' = asking \ {u} /\ asked' = [asked EXCEPT ![u] = None]
    /\ IF Listening
         THEN /\ results' = Append(results, r)
              /\ change' = (change \/ (r.kind = "full" /\ r.payload \in Good \ {hash}))
         ELSE UNCHANGED <<results, change>>
    /\ UNCHANGED <<events, paused, closed, memory, disk, pc, expired, collector>>

\* The validator that comes with a payload.
Tags(u, p) == IF p \notin Good THEN {None} ELSE IF u \in Careless THEN {p, None} ELSE {p}

\* 200: whatever payload the source has by now.
FetchFull(u) ==
    \E p \in Publishes[u] : \E v \in Tags(u, p) : Send(u, Respond(u, "full", p, v))

\* A 304 without validators keeps the one that was sent.
NotModified(u, p) ==
    IF asked[u] = None THEN Nil(u) ELSE Respond(u, "unchanged", p, asked[u])

\* 304: the source still has what the validator names, or misbehaves.
FetchNotModified(u) ==
    \E p \in Publishes[u] : asked[u] \in {p, None} /\ Send(u, NotModified(u, p))

\* No response, another status, too large a body.
FetchFails(u) == Send(u, Nil(u))

Fetch(u) == FetchFull(u) \/ FetchNotModified(u) \/ FetchFails(u)

Deadline ==
    /\ Listening /\ ~expired
    /\ expired' = TRUE
    /\ UNCHANGED <<events, paused, closed, memory, disk, pc, fetches, collector>>
-----------------------------------------------------------------------------
(***************************************************************************)
(* fetchAndApplyConfig                                                     *)
(***************************************************************************)
outside == UNCHANGED <<events, paused, closed>>

\* The updater begins, or its ticker fires: the fetches of the refresh
\* before were cancelled 12 hours ago.
Start ==
    /\ pc = "idle" /\ ~closed /\ asking = {}
    /\ pc' = "collect" /\ expired' = FALSE
    /\ asking' = Url /\ asked' = validators
    /\ results' = <<>> /\ received' = 0 /\ held' = None
    /\ dirty' = FALSE /\ change' = FALSE
    /\ UNCHANGED <<memory, disk>> /\ outside

\* Every exit cancels the fetch context; nobody reads the channel any more.
StopListening ==
    /\ expired' = TRUE
    /\ results' = <<>> /\ asked' = NoValidators
    /\ UNCHANGED asking

Leave == pc' = "finish" /\ StopListening

\* Fault: the deadline discards what is queued.
DoneAtDeadline == closed \/ received = Cardinality(Url) \/ CtxDone

\* The client is closed, every source has answered, or the context has ended
\* and nothing is queued.
Done == closed \/ received = Cardinality(Url) \/ (results = <<>> /\ CtxDone)

Finish ==
    /\ pc = "collect" /\ Done
    /\ Leave
    /\ UNCHANGED <<memory, disk, collector, change>> /\ outside

\* What every response received has in common.
Receive(next) ==
    /\ pc = "collect" /\ ~closed /\ results # <<>>
    /\ results' = Tail(results)
    /\ received' = received + 1
    /\ pc' = next
    /\ UNCHANGED <<asking, asked, change, applied, hash, disk, expired>> /\ outside

Confirms(r) == r.kind = "unchanged" \/ (r.kind = "full" /\ hash # None /\ r.payload = hash)

\* Fault: a validator that stays the same clears the flag.
ReceiveUnchangedClears ==
    LET r == Head(results) IN
    /\ Receive("collect") /\ Confirms(r)
    /\ validators' = [validators EXCEPT ![r.url] = r.val]
    /\ dirty' = (validators[r.url] # r.val)
    /\ UNCHANGED held

\* rememberConfigValidator, which forgets one that the source dropped.
ReceiveUnchanged ==
    LET r == Head(results) IN
    /\ Receive("collect") /\ Confirms(r)
    /\ validators' = [validators EXCEPT ![r.url] = r.val]
    /\ dirty' = (dirty \/ validators[r.url] # r.val)
    /\ UNCHANGED held

ReceiveUseless ==
    LET r == Head(results) IN
    /\ Receive("collect")
    /\ r.kind = "nil" \/ (~Confirms(r) /\ r.payload \in Unparsable)
    /\ UNCHANGED <<validators, dirty, held>>

ReceiveChanged ==
    LET r == Head(results) IN
    /\ Receive("gate")
    /\ r.kind = "full" /\ ~Confirms(r) /\ r.payload \notin Unparsable
    /\ held' = r
    /\ UNCHANGED <<validators, dirty>>

\* Fault: the collector does not watch the client's context at the gate.
GateCancelledIgnored == FALSE

\* gate.wait(c.ctx) reports that the client was closed.
GateCancelled ==
    /\ pc = "gate" /\ closed
    /\ Leave
    /\ UNCHANGED <<memory, disk, collector, change>> /\ outside

\* Fault: a payload without providers is applied.
RefusesNothing(p) == FALSE

Refuses(p) == p \in Empty

GatePassed == pc = "gate" /\ ~paused /\ ~closed

\* applyConfig refuses a payload before it changes anything.
ApplyFails ==
    /\ GatePassed /\ Refuses(held.payload)
    /\ pc' = "collect" /\ held' = None
    /\ UNCHANGED <<memory, disk, fetches, received, dirty, expired>> /\ outside

\* Fault: the validators of the payload before are kept.
RenewedKeeping(u, v) == [validators EXCEPT ![u] = v]

Renewed(u, v) == [NoValidators EXCEPT ![u] = v]

Apply ==
    /\ GatePassed /\ ~Refuses(held.payload)
    /\ applied' = held.payload /\ hash' = held.payload
    /\ validators' = Renewed(held.url, held.val)
    /\ dirty' = TRUE /\ change' = FALSE /\ held' = None
    /\ pc' = "persist" /\ StopListening
    /\ UNCHANGED <<disk, received>> /\ outside
-----------------------------------------------------------------------------
(***************************************************************************)
(* persistConfig and the deferred persistConfigValidators: a write first   *)
(* truncates, so a crash or a failure between the two steps leaves a torn  *)
(* file.  A client without a configCachePath is one whose writes all fail. *)
(***************************************************************************)
writeFrame == UNCHANGED <<memory, asking, asked, results, received, expired>> /\ outside

Sealing == dirty /\ hash # None

\* The function returns: its variables are gone.
Return ==
    /\ pc' = "idle"
    /\ held' = None /\ dirty' = FALSE /\ change' = FALSE

Goto(label) == pc' = label /\ UNCHANGED <<held, dirty, change>>

WriteRefused ==
    /\ \/ pc = "persist" /\ Goto("finish")
       \/ pc = "finish" /\ Sealing /\ Return
    /\ spoiled' = TRUE
    /\ UNCHANGED <<file, sidecar>> /\ writeFrame

WriteTruncates ==
    /\ \/ pc = "persist" /\ Goto("writing") /\ file' = None /\ UNCHANGED sidecar
       \/ pc = "finish" /\ Sealing /\ Goto("sealing") /\ sidecar' = Unusable /\ UNCHANGED file
    /\ UNCHANGED spoiled /\ writeFrame

WriteFails ==
    /\ \/ pc = "writing" /\ Goto("finish")
       \/ pc = "sealing" /\ Return
    /\ spoiled' = TRUE
    /\ UNCHANGED <<file, sidecar>> /\ writeFrame

WriteEnds ==
    /\ \/ /\ pc = "writing" /\ Goto("finish")
          /\ file' = hash /\ UNCHANGED sidecar
       \/ /\ pc = "sealing" /\ Return
          /\ sidecar' = [sha |-> hash, vals |-> validators] /\ UNCHANGED file
    /\ UNCHANGED spoiled /\ writeFrame

NothingToSeal ==
    /\ pc = "finish" /\ ~Sealing
    /\ Return
    /\ UNCHANGED disk /\ writeFrame
-----------------------------------------------------------------------------
(***************************************************************************)
(* The world around a refresh                                              *)
(***************************************************************************)
worldFrame == Event /\ UNCHANGED <<memory, pc, fetches, collector, expired>>

PauseOrResume ==
    /\ paused' = ~paused
    /\ UNCHANGED <<closed, disk>> /\ worldFrame

Close ==
    /\ ~closed /\ closed' = TRUE
    /\ UNCHANGED <<paused, disk>> /\ worldFrame

\* The tunnel and the app share the directory: another client, which runs the
\* same code, replaces one of the files.
OtherClientWrites ==
    /\ spoiled' = TRUE
    /\ \/ file' \in Good /\ UNCHANGED sidecar
       \/ sidecar' \in {Sealed(p) : p \in Good} /\ UNCHANGED file
    /\ UNCHANGED <<paused, closed>> /\ worldFrame
-----------------------------------------------------------------------------
Updater ==
    \/ Start \/ Finish \/ ReceiveUnchanged \/ ReceiveUseless \/ ReceiveChanged
    \/ GateCancelled \/ ApplyFails \/ Apply
    \/ WriteRefused \/ WriteTruncates \/ WriteFails \/ WriteEnds \/ NothingToSeal

Next ==
    \/ Updater \/ Deadline
    \/ \E u \in Url : Fetch(u)
    \/ Restart \/ PauseOrResume \/ Close \/ OtherClientWrites

Spec == Init /\ [][Next]_vars

\* The goroutine of the updater goes on, its deadline comes, and requests
\* whose context has ended fail; nothing else has to happen.
FairSpec ==
    /\ Spec
    /\ WF_vars(Updater)
    /\ WF_vars(Deadline)
    /\ WF_vars(CtxDone /\ \E u \in Url : FetchFails(u))
-----------------------------------------------------------------------------
TypeOK ==
    /\ events \in 0 .. MaxEvent
    /\ paused \in BOOLEAN /\ closed \in BOOLEAN /\ expired \in BOOLEAN
    /\ applied \in Good /\ hash \in Good \cup {None} /\ validators \in Validators
    /\ file \in Payload \cup {None} /\ sidecar \in Sidecar /\ spoiled \in BOOLEAN
    /\ pc \in {"idle", "collect", "gate", "persist", "writing", "finish",
               "sealing"}
    /\ asking \subseteq Url /\ asked \in Validators
    /\ results \in Seq(Response) /\ received \in 0 .. Cardinality(Url)
    /\ held \in Response \cup {None}
    /\ dirty \in BOOLEAN /\ change \in BOOLEAN

\* Every validator vouches for the payload the client runs on, in memory and
\* in the sidecar: one of an earlier payload would make a 304 confirm bytes
\* the client no longer has (config_fetch.go:99-101, 195-224).
ValidatorsBelong ==
    /\ hash \in {applied, None}
    /\ \A u \in Url : validators[u] \in {hash, None}
    /\ \A u \in Url : sidecar.vals[u] \in {sidecar.sha, None}

\* An answer that counts as unchanged came from a source that had, when it
\* answered, the payload the client runs on (config_fetch.go:76-80, 152-162).
UnchangedConfirmsApplied ==
    pc = "collect" /\ results # <<>> /\ Confirms(Head(results)) =>
        Head(results).payload = applied

\* A changed answer that arrives while the collector is at work is applied, or
\* another one is: no unchanged answer, useless answer, pause or deadline
\* makes a refresh end without it (config_fetch.go:29-30, 114-128).
ChangeIsApplied ==
    pc = "finish" /\ change => closed

\* Between refreshes the files describe exactly what the client has in memory,
\* unless a write failed or another client wrote: a restart then goes on with
\* the same payload and the same validators (domainfront.go:98-104).
RestartRestores ==
    pc = "idle" /\ ~spoiled =>
        applied = BootPayload /\ hash = BootHash /\ validators = LoadValidators

\* A refresh waits for nothing but a resume, and for that only when it holds a
\* change: unchanged answers "can finish without resuming"
\* (config_fetch.go:87-92).  A change waits no longer than the pause.
RefreshEnds ==
    /\ pc = "collect" ~> (pc = "idle" \/ (pc = "gate" /\ held.payload # hash))
    /\ <>[]~paused \/ <>[]closed => (pc = "gate" ~> pc # "gate")

\* No fetch outlives the context of its refresh, though the collector takes
\* only some of the responses (config_fetch.go:42-48).
FetchersEnd == asking # {} ~> asking = {}
=============================================================================
