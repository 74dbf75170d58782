----------------------------- MODULE CacheSaver -----------------------------
(***************************************************************************)
(* The cache of fronts that worked: the saver of domainfront.go behind the *)
(* pause gate, the users that mark fronts and then say so, and Close.      *)
(* os.WriteFile empties the file before it fills it, and a file it did not *)
(* get to fill reads as nothing, so at every instant `file' is what the    *)
(* next client would load.                                                 *)
(***************************************************************************)
EXTENDS PauseGate, FiniteSets

CONSTANTS
    Saver,      \* the waiter that saves the cache; the gate's waiters do not meet
    Front, User,
    MaxSize,    \* maxCacheSize
    MaxTime     \* bound: successes

ASSUME SaverAssumption ==
    /\ Waiter = {Saver} /\ IsFiniteSet(Front)
    /\ MaxSize \in Nat /\ MaxTime \in Nat \ {0}

VARIABLES
    time,     \* LastSucceeded of each front, 0 if zero
    clock,    \* the time of the last success
    dirty,    \* the token of cacheDirty
    owes,     \* users between a mark and its notification
    file,     \* the times in the file, 0 for a front that is not in it
    spc,      \* where the saver is, and then Close
    order,    \* the times candidates sorted by
    entries,  \* what frontsToCache made of them
    closing, last,   \* Close was called; it saves
    told,     \* history: fronts whose latest mark is one that is notified
    fresh,    \* history: fronts marked since candidates last looked
    failed    \* history: the latest save failed

marks == <<time, clock, told>>
saving == <<spc, order, entries, last>>
saverVars == <<time, clock, dirty, owes, file, spc, order, entries, closing, last,
               told, fresh, failed>>
allVars == <<vars, saverVars>>

Time == 0 .. MaxTime
Nothing == [f \in Front |-> 0]

\* applyCachedState: what is not too old.  The horizon stands for how long no
\* client ran.
SaverInit ==
    /\ Init
    /\ clock = 1 /\ file \in [Front -> 0 .. 1]
    /\ Cardinality({f \in Front : file[f] # 0}) <= MaxSize
    /\ \E horizon \in 0 .. 1 :
          time = [f \in Front |-> IF file[f] > horizon THEN file[f] ELSE 0]
    /\ dirty = FALSE /\ owes = {}
    /\ spc = "sleep" /\ order = Nothing /\ entries = Nothing
    /\ closing = FALSE /\ last = FALSE
    /\ told = {} /\ fresh = {} /\ failed = FALSE
-----------------------------------------------------------------------------
\* markSucceeded, and markFailed, of a vet, a round trip or a lane.
MarkSucceeded(f) ==
    /\ clock < MaxTime
    /\ clock' = clock + 1 /\ time' = [time EXCEPT ![f] = clock + 1]
MarkFailed(f) == time' = [time EXCEPT ![f] = 0] /\ UNCHANGED clock

Mark(u, f) ==
    /\ u \notin owes
    /\ MarkSucceeded(f) \/ MarkFailed(f)
    /\ owes' = owes \cup {u} /\ told' = told \cup {f} /\ fresh' = fresh \cup {f}
    /\ UNCHANGED <<vars, dirty, file, saving, closing, failed>>

\* dialUnvetted marks a front that passed its vet and tells nobody.
MarkQuietly(f) ==
    /\ MarkSucceeded(f)
    /\ told' = told \ {f} /\ fresh' = fresh \cup {f}
    /\ UNCHANGED <<vars, dirty, owes, file, saving, closing, failed>>

NotifyCacheDirty(u) ==
    /\ u \in owes /\ owes' = owes \ {u}
    /\ dirty' = TRUE
    /\ UNCHANGED <<vars, marks, file, saving, closing, fresh, failed>>
-----------------------------------------------------------------------------
rest == UNCHANGED <<marks, owes, closing>>

\* The timer fires, and gate.wait begins.
TimerFires ==
    /\ spc = "sleep" /\ spc' = "gate"
    /\ Call(Saver)
    /\ rest /\ UNCHANGED <<dirty, file, order, entries, last, fresh, failed>>

\* gate.wait returns false, or the select sees the context end.
SaverStops ==
    /\ (spc = "gate" /\ pc[Saver] = "false") \/ (spc = "sleep" /\ done)
    /\ spc' = "stopped"
    /\ rest /\ UNCHANGED <<vars, dirty, file, order, entries, last, fresh, failed>>

\* Fault: the timer is not set again when there is nothing to save.
NothingToSaveStops ==
    /\ spc = "gate" /\ pc[Saver] = "true" /\ ~dirty
    /\ spc' = "idle"
    /\ rest /\ UNCHANGED <<vars, dirty, file, order, entries, last, fresh, failed>>

NothingToSave ==
    /\ spc = "gate" /\ pc[Saver] = "true" /\ ~dirty
    /\ spc' = "sleep"
    /\ rest /\ UNCHANGED <<vars, dirty, file, order, entries, last, fresh, failed>>

\* The token is taken before the fronts are looked at.
TakeToken ==
    /\ spc = "gate" /\ pc[Saver] = "true" /\ dirty
    /\ dirty' = FALSE /\ spc' = "sort"
    /\ rest /\ UNCHANGED <<vars, file, order, entries, last, fresh, failed>>

\* Fault: Close saves only what was notified.
FinalSaveIfDirty ==
    /\ closing /\ spc = "stopped" /\ ~last
    /\ last' = TRUE /\ spc' = IF dirty THEN "sort" ELSE "closed"
    /\ rest /\ UNCHANGED <<vars, dirty, file, order, entries, fresh, failed>>

\* Close, after its wait.
FinalSave ==
    /\ closing /\ spc = "stopped" /\ ~last
    /\ last' = TRUE /\ spc' = "sort"
    /\ rest /\ UNCHANGED <<vars, dirty, file, order, entries, fresh, failed>>

\* candidates
Sort ==
    /\ spc = "sort" /\ spc' = "pick"
    /\ order' = time /\ fresh' = {}
    /\ rest /\ UNCHANGED <<vars, dirty, file, entries, last, failed>>

\* Fault: one more.
RoomForOneMore == MaxSize + 1

Room == MaxSize

\* The first fronts of the order that have succeeded by now; those that had
\* not when it was made come last, shuffled.
Picks ==
    LET works == {f \in Front : time[f] # 0}
    IN {c \in SUBSET works :
          /\ Cardinality(c) <= Room
          /\ c # works => Cardinality(c) = Room
          /\ \A f \in works \ c, g \in c : order[f] <= order[g]}

Pick ==
    /\ spc = "pick" /\ spc' = "truncate"
    /\ \E c \in Picks : entries' = [f \in Front |-> IF f \in c THEN time[f] ELSE 0]
    /\ order' = Nothing
    /\ rest /\ UNCHANGED <<vars, dirty, file, last, fresh, failed>>

\* Save fails before it touches the file, empties it, or does all of it.
Truncate ==
    /\ spc = "truncate" /\ spc' = "write"
    /\ file' = Nothing
    /\ rest /\ UNCHANGED <<vars, dirty, order, entries, last, fresh, failed>>

Saved == spc' = (IF last THEN "closed" ELSE "sleep") /\ entries' = Nothing

\* Fault: the token is taken once the fronts are saved.
WriteTakesToken ==
    /\ spc = "write" /\ Saved
    /\ file' = entries /\ failed' = FALSE /\ dirty' = FALSE
    /\ rest /\ UNCHANGED <<vars, order, last, fresh>>

Write ==
    /\ spc = "write" /\ Saved
    /\ file' = entries /\ failed' = FALSE
    /\ rest /\ UNCHANGED <<vars, dirty, order, last, fresh>>

\* The token is gone, and nobody saves again before the next one.
SaveFails ==
    /\ spc \in {"truncate", "write"} /\ Saved
    /\ failed' = TRUE
    /\ rest /\ UNCHANGED <<vars, dirty, file, order, last, fresh>>

Close ==
    /\ ~closing /\ closing' = TRUE
    /\ done' = TRUE
    /\ UNCHANGED <<chan, shut, panicked, pc, mine, marks, dirty, owes, file, saving,
                   fresh, failed>>
-----------------------------------------------------------------------------
SaveStep ==
    \/ TimerFires \/ SaverStops \/ NothingToSave \/ TakeToken \/ FinalSave
    \/ Sort \/ Pick \/ Truncate \/ Write \/ SaveFails

GateStep ==
    /\ pause \/ resume \/ Cancel \/ WaitStep(Saver)
    /\ UNCHANGED saverVars

SaverNext ==
    \/ \E u \in User : NotifyCacheDirty(u) \/ \E f \in Front : Mark(u, f)
    \/ \E f \in Front : MarkQuietly(f)
    \/ SaveStep \/ Close \/ GateStep

SaverSpec == SaverInit /\ [][SaverNext]_allVars

\* Every goroutine runs on when it can; the timer fires.
FairSaverSpec ==
    /\ SaverSpec
    /\ WF_allVars(SaveStep)
    /\ \A u \in User : WF_allVars(NotifyCacheDirty(u))
    /\ WF_allVars(WaitStep(Saver) /\ UNCHANGED saverVars)
-----------------------------------------------------------------------------
SaverTypeOK ==
    /\ time \in [Front -> Time] /\ clock \in Time
    /\ dirty \in BOOLEAN /\ owes \subseteq User
    /\ file \in [Front -> Time] /\ order \in [Front -> Time]
    /\ entries \in [Front -> Time] /\ Cardinality({f \in Front : entries[f] # 0}) <= MaxSize
    /\ spc \in {"sleep", "gate", "sort", "pick", "truncate", "write", "stopped", "closed"}
    /\ closing \in BOOLEAN /\ last \in BOOLEAN
    /\ told \subseteq Front /\ fresh \subseteq Front /\ failed \in BOOLEAN

\* In s a front has the time it last succeeded at, or none, or has made room
\* for as many others that succeeded no earlier.
Reflects(s, f) ==
    \/ s[f] = time[f]
    \/ s[f] = 0 /\ Cardinality({g \in Front \ {f} : time[g] >= time[f]}) >= MaxSize

\* No mark is lost between the saver and those it saves for: one that is not
\* in the file has its token, a user about to send it, or a save that will
\* write it, however marks, notifications and the two looks of a save at the
\* fronts interleave (domainfront.go:317-322, 474-486, cache.go:60-64).
MarksReachFile ==
    \A f \in told :
        \/ Reflects(file, f) \/ failed
        \/ dirty \/ owes # {}
        \/ spc \in {"sort", "pick"}
        \/ spc \in {"truncate", "write"} /\ Reflects(entries, f)

\* When Close returns, the file has every front that worked when it looked,
\* the ones nobody was told of included (domainfront.go:254-257).
ClosedIsSaved ==
    spc = "closed" /\ ~failed /\ fresh = {} =>
        \A f \in Front : Reflects(file, f)

\* While the client runs and saving works, every mark gets to the file
\* (domainfront.go:466-481).
MarksAreSaved ==
    <>[](~Paused /\ ~done /\ ~failed) => []<>(\A f \in told : Reflects(file, f))

\* Close does not wait for the saver for ever, while paused too, and goes on to
\* the final save (domainfront.go:250-258, pause.go:58-60).  It waits for the
\* crawler as well: CloseStopsCrawler of Crawler.
CloseReturns == closing ~> spc = "closed"
=============================================================================
