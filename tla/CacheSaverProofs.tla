-------------------------- MODULE CacheSaverProofs --------------------------
(***************************************************************************)
(* Theorems about CacheSaver, for any number of fronts, users, marks and   *)
(* pauses.  The gate's theorems hold of it because its steps are steps of  *)
(* the gate.                                                               *)
(***************************************************************************)
EXTENDS CacheSaver, PauseGateProofs, FiniteSetTheorems

\* What the saver works on has its type.
Typed ==
    /\ time \in [Front -> Time] /\ clock \in Time
    /\ dirty \in BOOLEAN /\ owes \subseteq User
    /\ file \in [Front -> Time] /\ order \in [Front -> Time]
    /\ entries \in [Front -> Time]
    /\ spc \in {"sleep", "gate", "sort", "pick", "truncate", "write", "stopped", "closed"}
    /\ closing \in BOOLEAN /\ last \in BOOLEAN
    /\ told \subseteq Front /\ fresh \subseteq Front /\ failed \in BOOLEAN

\* The entries fit, and no time is later than the last.
Bounded ==
    /\ Cardinality({f \in Front : entries[f] # 0}) <= MaxSize
    /\ \A f \in Front : time[f] <= clock /\ order[f] <= clock

\* A save will come for what is not in the file.
Pending == dirty \/ owes # {}

\* Between the two looks at the fronts: the times sorted by are those of the
\* fronts not marked since, and a front that succeeded since did so later.
Sorted ==
    spc = "pick" =>
        /\ \A f \in Front \ fresh : order[f] = time[f]
        /\ \A g \in fresh : time[g] = 0 \/ \A f \in Front : order[f] < time[g]
        /\ Pending \/ fresh \cap told = {}

\* The entries reflect what was notified, and all that was not marked since.
EntriesReflect ==
    spc \in {"truncate", "write"} =>
        /\ Pending \/ \A f \in told : Reflects(entries, f)
        /\ fresh = {} => \A f \in Front : Reflects(entries, f)

\* So does the file, when no save runs.
FileReflects ==
    spc \notin {"sort", "pick", "truncate", "write"} =>
        Pending \/ failed \/ \A f \in told : Reflects(file, f)

SaverInv ==
    Typed /\ Bounded /\ Sorted /\ EntriesReflect /\ FileReflects /\ ClosedIsSaved
-----------------------------------------------------------------------------
(***************************************************************************)
(* Facts about sets of fronts                                              *)
(***************************************************************************)
LEMMA FrontsAreCounted ==
  ASSUME NEW S \in SUBSET Front, NEW R \in SUBSET S
  PROVE  Cardinality(R) \in Nat /\ Cardinality(S) \in Nat
         /\ Cardinality(R) <= Cardinality(S)
<1>1. IsFiniteSet(S)
  BY SaverAssumption, FS_Subset
<1> QED BY <1>1, FS_Subset, FS_CardinalityType

LEMMA NothingFits == Cardinality({f \in Front : Nothing[f] # 0}) <= MaxSize
<1>1. {f \in Front : Nothing[f] # 0} = {}
  BY DEF Nothing
<1> QED BY <1>1, FS_EmptySet, SaverAssumption

\* A front keeps its place in a file when only others succeed.
LEMMA ReflectsStays ==
  ASSUME NEW s \in [Front -> Time], NEW f \in Front, Reflects(s, f),
         Typed, time' \in [Front -> Time], time'[f] = time[f],
         \A g \in Front : time[g] <= time'[g]
  PROVE  \/ s[f] = time'[f]
         \/ s[f] = 0 /\ Cardinality({g \in Front \ {f} : time'[g] >= time'[f]}) >= MaxSize
<1>1. CASE s[f] = time[f]
  BY <1>1
<1>2. CASE s[f] = 0 /\ Cardinality({g \in Front \ {f} : time[g] >= time[f]}) >= MaxSize
  <2> DEFINE R == {g \in Front \ {f} : time[g] >= time[f]}
             S == {g \in Front \ {f} : time'[g] >= time'[f]}
  <2>1. R \subseteq S
    BY SaverAssumption DEF Typed, Time
  <2>2. Cardinality(R) \in Nat /\ Cardinality(S) \in Nat /\ Cardinality(R) <= Cardinality(S)
    <3>1. S \in SUBSET Front
      OBVIOUS
    <3> HIDE DEF R, S
    <3> QED BY <2>1, <3>1, FrontsAreCounted
  <2>3. Cardinality(S) >= MaxSize
    <3>1. Cardinality(R) >= MaxSize
      BY <1>2
    <3> HIDE DEF R, S
    <3> QED BY <2>2, <3>1, SaverAssumption
  <2> QED BY <1>2, <2>3
<1> QED BY <1>1, <1>2 DEF Reflects
-----------------------------------------------------------------------------
LEMMA SaverInitInv == SaverInit => SaverInv
<1> SUFFICES ASSUME SaverInit PROVE SaverInv
  OBVIOUS
<1>0. Nothing \in [Front -> Time] /\ 1 \in Time /\ 0 \in Time
  BY SaverAssumption DEF Nothing, Time
<1>1. Typed
  <2>1. file \in [Front -> Time]
    BY <1>0 DEF SaverInit, Time
  <2>2. time \in [Front -> Time]
    BY <1>0, <2>1 DEF SaverInit
  <2> QED BY <1>0, <2>1, <2>2 DEF SaverInit, Typed
<1>2. Bounded
  <2>1. Cardinality({f \in Front : entries[f] # 0}) <= MaxSize
    BY NothingFits DEF SaverInit
  <2>2. \A f \in Front : time[f] <= clock
    BY DEF SaverInit
  <2>3. \A f \in Front : order[f] <= clock
    BY DEF SaverInit, Nothing
  <2> QED BY <2>1, <2>2, <2>3 DEF Bounded
<1>3. Sorted /\ EntriesReflect /\ FileReflects /\ ClosedIsSaved
  BY DEF SaverInit, Sorted, EntriesReflect, FileReflects, ClosedIsSaved
<1> QED BY <1>1, <1>2, <1>3 DEF SaverInv
-----------------------------------------------------------------------------
\* A mark keeps the times in bounds, and in order between the two looks.
LEMMA MarkedTimes ==
  ASSUME SaverInv, NEW f \in Front, MarkSucceeded(f) \/ MarkFailed(f),
         fresh' = fresh \cup {f}, UNCHANGED saving
  PROVE  /\ time' \in [Front -> Time] /\ clock' \in Time
         /\ Bounded'
         /\ spc = "pick" =>
              /\ \A h \in Front \ fresh' : order'[h] = time'[h]
              /\ \A g \in fresh' : time'[g] = 0 \/ \A h \in Front : order'[h] < time'[g]
<1> USE SaverAssumption DEF SaverInv, Typed, Bounded, Time, saving
<1>1. clock' \in Time /\ clock <= clock' /\ \A h \in Front \ {f} : time'[h] = time[h]
  BY DEF MarkSucceeded, MarkFailed
<1>2. time' \in [Front -> Time]
  BY DEF MarkSucceeded, MarkFailed
<1>3. time'[f] = 0 \/ (time'[f] = clock' /\ clock < clock')
  BY DEF MarkSucceeded, MarkFailed
<1>4. \A h \in Front : time'[h] <= clock' /\ order'[h] <= clock'
  BY <1>1, <1>2, <1>3
<1>5. ASSUME NEW h \in Front, time'[f] # 0 PROVE order'[h] < time'[f]
  <2>1. time'[f] = clock' /\ clock < clock'
    BY <1>3, <1>5
  <2>2. order'[h] = order[h] /\ order[h] \in Nat /\ clock \in Nat /\ clock' \in Nat
    BY <1>1
  <2> QED BY <2>1, <2>2
<1>6. ASSUME spc = "pick"
      PROVE  /\ \A h \in Front \ fresh' : order'[h] = time'[h]
             /\ \A g \in fresh' : time'[g] = 0 \/ \A h \in Front : order'[h] < time'[g]
  BY <1>1, <1>5, <1>6 DEF Sorted
<1>7. Cardinality({h \in Front : entries[h] # 0})' <= MaxSize
  BY DEF Bounded
<1>8. Bounded'
  BY <1>4, <1>7 DEF Bounded
<1> QED BY <1>1, <1>2, <1>6, <1>8

LEMMA MarkStep ==
  ASSUME SaverInv, NEW u \in User, NEW f \in Front, Mark(u, f)
  PROVE  SaverInv'
<1>1. MarkSucceeded(f) \/ MarkFailed(f)
  BY DEF Mark
<1>2. /\ owes' = owes \cup {u} /\ told' = told \cup {f} /\ fresh' = fresh \cup {f}
      /\ UNCHANGED <<dirty, file, closing, failed>> /\ UNCHANGED saving
  BY DEF Mark
<1>3. /\ time' \in [Front -> Time] /\ clock' \in Time
      /\ Bounded'
      /\ spc = "pick" =>
           /\ \A h \in Front \ fresh' : order'[h] = time'[h]
           /\ \A g \in fresh' : time'[g] = 0 \/ \A h \in Front : order'[h] < time'[g]
  BY <1>1, <1>2, MarkedTimes
<1>4. Typed'
  BY <1>2, <1>3 DEF SaverInv, Typed, saving
<1>5. Pending' /\ fresh' # {} /\ spc' = spc
  BY <1>2 DEF Pending, saving
<1>6. Sorted' /\ EntriesReflect' /\ FileReflects' /\ ClosedIsSaved'
  BY <1>3, <1>5 DEF Sorted, EntriesReflect, FileReflects, ClosedIsSaved
<1> QED BY <1>3, <1>4, <1>6 DEF SaverInv

LEMMA QuietStep ==
  ASSUME SaverInv, NEW f \in Front, MarkQuietly(f)
  PROVE  SaverInv'
<1>1. MarkSucceeded(f) \/ MarkFailed(f)
  BY DEF MarkQuietly
<1>2. /\ told' = told \ {f} /\ fresh' = fresh \cup {f}
      /\ UNCHANGED <<dirty, owes, file, closing, failed>> /\ UNCHANGED saving
  BY DEF MarkQuietly
<1>3. /\ time' \in [Front -> Time] /\ clock' \in Time
      /\ Bounded'
      /\ spc = "pick" =>
           /\ \A h \in Front \ fresh' : order'[h] = time'[h]
           /\ \A g \in fresh' : time'[g] = 0 \/ \A h \in Front : order'[h] < time'[g]
  BY <1>1, <1>2, MarkedTimes
<1>4. Typed'
  BY <1>2, <1>3 DEF SaverInv, Typed, saving
<1>5. (Pending' <=> Pending) /\ fresh' # {} /\ spc' = spc /\ failed' = failed
  BY <1>2 DEF Pending, saving
<1>6. (\A h \in Front \ {f} : time'[h] = time[h]) /\ \A h \in Front : time[h] <= time'[h]
  <2> USE SaverAssumption DEF SaverInv, Typed, Bounded, Time
  <2>1. \A h \in Front \ {f} : time'[h] = time[h]
    BY DEF MarkQuietly, MarkSucceeded
  <2>2. time[f] <= time'[f]
    BY DEF MarkQuietly, MarkSucceeded
  <2>3. \A h \in Front : time[h] \in Nat
    OBVIOUS
  <2> QED BY <2>1, <2>2, <2>3
<1>7. ASSUME NEW s \in [Front -> Time], NEW h \in told', Reflects(s, h)
      PROVE  \/ s[h] = time'[h]
             \/ s[h] = 0 /\ Cardinality({g \in Front \ {h} : time'[g] >= time'[h]}) >= MaxSize
  <2>1. h \in Front /\ time'[h] = time[h]
    BY <1>2, <1>6, <1>7 DEF SaverInv, Typed
  <2> QED BY <1>3, <1>6, <1>7, <2>1, ReflectsStays DEF SaverInv
<1>8. told' \subseteq told /\ entries' = entries /\ file' = file
      /\ entries \in [Front -> Time] /\ file \in [Front -> Time]
  BY <1>2 DEF saving, SaverInv, Typed
<1>9. Sorted'
  BY <1>2, <1>3, <1>5 DEF SaverInv, Sorted
<1>10. EntriesReflect'
  <2> SUFFICES ASSUME spc' \in {"truncate", "write"}, ~Pending', NEW h \in told'
               PROVE  Reflects(entries, h)'
    BY <1>5 DEF EntriesReflect
  <2>1. Reflects(entries, h)
    BY <1>5, <1>8 DEF SaverInv, EntriesReflect
  <2> QED BY <1>7, <1>8, <2>1 DEF Reflects
<1>11. FileReflects'
  <2> SUFFICES ASSUME spc' \notin {"sort", "pick", "truncate", "write"}, ~Pending', ~failed',
                      NEW h \in told'
               PROVE  Reflects(file, h)'
    BY DEF FileReflects
  <2>1. Reflects(file, h)
    BY <1>5, <1>8 DEF SaverInv, FileReflects
  <2> QED BY <1>7, <1>8, <2>1 DEF Reflects
<1>12. ClosedIsSaved'
  BY <1>5 DEF ClosedIsSaved
<1> QED BY <1>3, <1>4, <1>9, <1>10, <1>11, <1>12 DEF SaverInv
-----------------------------------------------------------------------------
\* A step that leaves the times alone leaves what reflects them alone.
LEMMA SameTimes ==
  ASSUME UNCHANGED time
  PROVE  /\ UNCHANGED file => \A f \in Front : Reflects(file, f)' <=> Reflects(file, f)
         /\ UNCHANGED entries =>
              \A f \in Front : Reflects(entries, f)' <=> Reflects(entries, f)
BY DEF Reflects

LEMMA NotifyStep ==
  ASSUME SaverInv, NEW u \in User, NotifyCacheDirty(u)
  PROVE  SaverInv'
<1> USE DEF SaverInv
<1>1. /\ dirty' = TRUE /\ owes' = owes \ {u} /\ UNCHANGED <<time, clock, told>>
      /\ UNCHANGED <<file, spc, order, entries, last, closing, fresh, failed>>
  BY DEF NotifyCacheDirty, marks, saving
<1>2. Typed' /\ Bounded'
  BY <1>1 DEF Typed, Bounded
<1>3. Pending'
  BY <1>1 DEF Pending
<1>4. Sorted' /\ FileReflects'
  BY <1>1, <1>3 DEF Sorted, FileReflects
<1>5. EntriesReflect' /\ ClosedIsSaved'
  BY <1>1, <1>3, SameTimes DEF EntriesReflect, ClosedIsSaved
<1> QED BY <1>2, <1>4, <1>5

\* Steps of the saver that touch neither a file nor the looks at the fronts.
LEMMA WaitingStep ==
  ASSUME SaverInv,
         TimerFires \/ SaverStops \/ NothingToSave \/ TakeToken \/ FinalSave \/ Close \/ GateStep
           \/ UNCHANGED allVars
  PROVE  SaverInv'
<1> USE DEF SaverInv
<1>1. UNCHANGED <<time, clock, told, owes, file, order, entries, fresh, failed>>
  BY DEF TimerFires, SaverStops, NothingToSave, TakeToken, FinalSave, Close, GateStep,
         rest, marks, saving, saverVars, allVars
<1>2. /\ dirty' = dirty \/ (dirty' = FALSE /\ spc' = "sort")
      /\ \/ spc' = spc
         \/ spc \in {"sleep", "gate", "stopped"} /\ spc' \in {"sleep", "gate", "stopped", "sort"}
      /\ dirty' \in BOOLEAN /\ closing' \in BOOLEAN /\ last' \in BOOLEAN
  BY DEF TimerFires, SaverStops, NothingToSave, TakeToken, FinalSave, Close, GateStep,
         rest, marks, saving, saverVars, allVars, Typed
<1>3. Typed'
  BY <1>1, <1>2 DEF Typed
<1>4. Bounded'
  BY <1>1 DEF Bounded
<1>5. spc' # "sort" => (Pending' <=> Pending)
  BY <1>1, <1>2 DEF Pending
<1>6. Sorted'
  BY <1>1, <1>2, <1>5 DEF Sorted
<1>7. EntriesReflect'
  BY <1>1, <1>2, <1>5, SameTimes DEF EntriesReflect, Typed
<1>8. FileReflects'
  BY <1>1, <1>2, <1>5, SameTimes DEF FileReflects, Typed
<1>9. ClosedIsSaved'
  BY <1>1, <1>2, SameTimes DEF ClosedIsSaved
<1> QED BY <1>3, <1>4, <1>6, <1>7, <1>8, <1>9

LEMMA SortStep == ASSUME SaverInv, Sort PROVE SaverInv'
<1> USE DEF SaverInv
<1>1. /\ spc = "sort" /\ spc' = "pick" /\ order' = time /\ fresh' = {}
      /\ UNCHANGED <<time, clock, told, owes, closing, dirty, file, entries, last, failed>>
  BY DEF Sort, rest, marks
<1>2. Typed' /\ Bounded'
  BY <1>1 DEF Typed, Bounded
<1>3. Sorted' /\ EntriesReflect' /\ FileReflects' /\ ClosedIsSaved'
  BY <1>1 DEF Sorted, EntriesReflect, FileReflects, ClosedIsSaved
<1> QED BY <1>2, <1>3
-----------------------------------------------------------------------------
\* A front that was not picked made room for others.
LEMMA PickedReflects ==
  ASSUME SaverInv, spc = "pick", NEW c \in Picks, NEW f \in Front,
         f \notin fresh
  PROVE  LET e == [h \in Front |-> IF h \in c THEN time[h] ELSE 0]
         IN Reflects(e, f)
<1> DEFINE e == [h \in Front |-> IF h \in c THEN time[h] ELSE 0]
           works == {h \in Front : time[h] # 0}
           others == {g \in Front \ {f} : time[g] >= time[f]}
<1> USE DEF SaverInv
<1>1. c \subseteq works /\ Cardinality(c) <= Room
      /\ (c # works => Cardinality(c) = Room)
      /\ \A h \in works \ c, g \in c : order[h] <= order[g]
  BY DEF Picks
<1>2. CASE f \in c \/ f \notin works
  BY <1>2 DEF Reflects
<1>3. CASE f \notin c /\ f \in works
  <2>1. Cardinality(c) = MaxSize
    BY <1>1, <1>3 DEF Room
  <2>2. ASSUME NEW g \in c PROVE g \in others
    <3>1. g \in Front /\ g # f /\ time[g] # 0 /\ order[f] <= order[g] /\ order[f] = time[f]
      BY <1>1, <1>3 DEF Sorted
    <3>2. order[g] = time[g] \/ order[f] < time[g]
      BY <3>1 DEF Sorted
    <3>3. time[g] \in Nat /\ time[f] \in Nat
      BY <3>1, SaverAssumption DEF Typed, Time
    <3> QED BY <3>1, <3>2, <3>3
  <2>3. c \subseteq others /\ others \in SUBSET Front
    BY <2>2
  <2>4. Cardinality(others) >= MaxSize
    <3> HIDE DEF others
    <3> QED BY <2>1, <2>3, FrontsAreCounted, SaverAssumption
  <2> QED BY <1>3, <2>4 DEF Reflects
<1> QED BY <1>2, <1>3

LEMMA PickStep == ASSUME SaverInv, Pick PROVE SaverInv'
<1> USE DEF SaverInv
<1>1. PICK c \in Picks : entries' = [f \in Front |-> IF f \in c THEN time[f] ELSE 0]
  BY DEF Pick
<1>2. /\ spc = "pick" /\ spc' = "truncate" /\ order' = Nothing
      /\ UNCHANGED <<time, clock, told, owes, closing, dirty, file, last, fresh, failed>>
  BY DEF Pick, rest, marks
<1>3. Typed'
  <2>1. entries' \in [Front -> Time] /\ order' \in [Front -> Time]
    BY <1>1, <1>2, SaverAssumption DEF Typed, Time, Nothing
  <2> QED BY <1>2, <2>1 DEF Typed
<1>4. Bounded'
  <2>1. {f \in Front : entries'[f] # 0} = c
    BY <1>1 DEF Picks
  <2>2. Cardinality({f \in Front : entries'[f] # 0}) <= MaxSize
    BY <2>1 DEF Picks, Room
  <2>3. \A f \in Front : order'[f] <= clock'
    BY <1>2, SaverAssumption DEF Nothing, Typed, Time
  <2>4. \A f \in Front : time'[f] <= clock'
    BY <1>2 DEF Bounded
  <2> QED BY <2>2, <2>3, <2>4 DEF Bounded
<1>5. ASSUME NEW f \in Front, f \notin fresh PROVE Reflects(entries, f)'
  <2>1. Reflects(entries', f)
    BY <1>1, <1>2, <1>5, PickedReflects
  <2> QED BY <1>2, <2>1 DEF Reflects
<1>6. EntriesReflect'
  <2>1. Pending' \/ fresh \cap told = {}
    BY <1>2 DEF Sorted, Pending
  <2> QED BY <1>2, <1>5, <2>1 DEF EntriesReflect, Typed
<1>7. Sorted' /\ FileReflects' /\ ClosedIsSaved'
  BY <1>2 DEF Sorted, FileReflects, ClosedIsSaved
<1> QED BY <1>3, <1>4, <1>6, <1>7

LEMMA TruncateStep == ASSUME SaverInv, Truncate PROVE SaverInv'
<1> USE DEF SaverInv
<1>1. /\ spc = "truncate" /\ spc' = "write" /\ file' = Nothing
      /\ UNCHANGED <<time, clock, told, owes, closing, dirty, order, entries, last, fresh, failed>>
  BY DEF Truncate, rest, marks
<1>2. Nothing \in [Front -> Time]
  BY SaverAssumption DEF Nothing, Time
<1>3. Typed' /\ Bounded'
  BY <1>1, <1>2 DEF Typed, Bounded
<1>4. EntriesReflect'
  BY <1>1, SameTimes DEF EntriesReflect, Pending, Typed
<1>5. Sorted' /\ FileReflects' /\ ClosedIsSaved'
  BY <1>1 DEF Sorted, FileReflects, ClosedIsSaved
<1> QED BY <1>3, <1>4, <1>5

\* The file is what the entries were, and they are gone.
LEMMA SavedStep == ASSUME SaverInv, Write \/ SaveFails PROVE SaverInv'
<1> USE DEF SaverInv
<1>1. /\ spc \in {"truncate", "write"} /\ spc' \in {"closed", "sleep"} /\ entries' = Nothing
      /\ UNCHANGED <<time, clock, told, owes, closing, dirty, order, last, fresh>>
      /\ file' = entries \/ (failed' = TRUE /\ file' = file)
      /\ failed' \in BOOLEAN
  BY DEF Write, SaveFails, Saved, rest, marks, Typed
<1>2. Nothing \in [Front -> Time]
  BY SaverAssumption DEF Nothing, Time
<1>3. Typed'
  BY <1>1, <1>2 DEF Typed
<1>4. Bounded'
  BY <1>1, NothingFits DEF Bounded
<1>5. ASSUME ~failed', NEW f \in Front, Reflects(entries, f) PROVE Reflects(file, f)'
  BY <1>1, <1>5 DEF Reflects
<1>6. FileReflects' /\ ClosedIsSaved'
  <2>1. FileReflects'
    BY <1>1, <1>5 DEF FileReflects, EntriesReflect, Pending, Typed
  <2>2. ClosedIsSaved'
    BY <1>1, <1>5 DEF ClosedIsSaved, EntriesReflect
  <2> QED BY <2>1, <2>2
<1>7. Sorted' /\ EntriesReflect'
  BY <1>1 DEF Sorted, EntriesReflect
<1> QED BY <1>3, <1>4, <1>6, <1>7

LEMMA SaverNextInv == SaverInv /\ [SaverNext]_allVars => SaverInv'
<1> SUFFICES ASSUME SaverInv, [SaverNext]_allVars PROVE SaverInv'
  OBVIOUS
<1>1. ASSUME NEW u \in User, NotifyCacheDirty(u) PROVE SaverInv'
  BY <1>1, NotifyStep
<1>2. ASSUME NEW u \in User, NEW f \in Front, Mark(u, f) PROVE SaverInv'
  BY <1>2, MarkStep
<1>3. ASSUME NEW f \in Front, MarkQuietly(f) PROVE SaverInv'
  BY <1>3, QuietStep
<1>4. CASE Close \/ GateStep \/ UNCHANGED allVars
  BY <1>4, WaitingStep
<1>5. CASE SaveStep
  BY <1>5, WaitingStep, SortStep, PickStep, TruncateStep, SavedStep DEF SaveStep
<1> QED BY <1>1, <1>2, <1>3, <1>4, <1>5 DEF SaverNext

\* However marks, notifications, saves that fail, pauses and Close interleave.
THEOREM SaverInvariant == SaverSpec => []SaverInv
<1> QED BY SaverInitInv, SaverNextInv, PTL DEF SaverSpec

\* What the saver keeps has its type, and the entries fit in the file
\* (cache.go:60-64, 88-95).
THEOREM SaverTypeCorrect == SaverSpec => []SaverTypeOK
<1>1. SaverInv => SaverTypeOK
  BY DEF SaverInv, Typed, Bounded, SaverTypeOK
<1> QED BY <1>1, SaverInvariant, PTL

\* A mark that was notified reaches the file, unless a save failed
\* (domainfront.go:317-322, 474-486).
THEOREM NoMarkIsLost == SaverSpec => []MarksReachFile
<1>1. SaverInv => MarksReachFile
  BY DEF SaverInv, Typed, Pending, EntriesReflect, FileReflects, MarksReachFile
<1> QED BY <1>1, SaverInvariant, PTL

\* Close leaves in the file what worked (domainfront.go:254-257).
THEOREM CloseSaves == SaverSpec => []ClosedIsSaved
<1>1. SaverInv => ClosedIsSaved
  BY DEF SaverInv
<1> QED BY <1>1, SaverInvariant, PTL
-----------------------------------------------------------------------------
\* A step of the client is a step of the gate, or leaves it alone.
LEMMA SaverStepsGate == GateInv /\ [SaverNext]_allVars => [Next]_vars
<1> SUFFICES ASSUME GateInv, [SaverNext]_allVars PROVE [Next]_vars
  OBVIOUS
<1>0. Saver \in Waiter
  BY SaverAssumption
<1>1. CASE Close
  <2>1. done \in BOOLEAN /\ done' = TRUE /\ UNCHANGED <<chan, shut, panicked, pc, mine>>
    BY <1>1 DEF Close, GateInv, TypeOK
  <2>2. CASE done
    BY <2>1, <2>2 DEF vars
  <2>3. CASE ~done
    BY <2>1, <2>3 DEF Cancel, Next
  <2> QED BY <2>2, <2>3
<1>2. CASE GateStep
  BY <1>0, <1>2 DEF GateStep, Next
<1>3. CASE TimerFires
  BY <1>0, <1>3 DEF TimerFires, Next
<1>4. CASE UNCHANGED allVars
  BY <1>4 DEF allVars
<1>5. CASE SaveStep /\ ~TimerFires
  BY <1>5 DEF SaveStep, SaverStops, NothingToSave, TakeToken, FinalSave, Sort, Pick,
              Truncate, Write, SaveFails
<1>6. CASE (\E u \in User : NotifyCacheDirty(u) \/ \E f \in Front : Mark(u, f))
             \/ \E f \in Front : MarkQuietly(f)
  BY <1>6 DEF NotifyCacheDirty, Mark, MarkQuietly
<1> QED BY <1>1, <1>2, <1>3, <1>4, <1>5, <1>6 DEF SaverNext

\* The saver uses the gate as the gate's theorems assume: a step of the saver
\* and of those around it is one of the gate or none (domainfront.go:470-473).
THEOREM SaverUsesGate == SaverSpec => Spec
<1>1. SaverInit => Init
  BY DEF SaverInit
<1>2. SaverSpec => []GateInv
  <2>1. GateInv /\ [SaverNext]_allVars => GateInv'
    BY SaverStepsGate, GateNext
  <2> QED BY <1>1, <2>1, GateInit, PTL DEF SaverSpec
<1> QED BY <1>1, <1>2, SaverStepsGate, PTL DEF SaverSpec, Spec

\* So no resume panics and no pause loses the saver (pause.go:12-15, 37-41).
THEOREM SaverGateCorrect == SaverSpec => []GateInv
<1> QED BY SaverUsesGate, GateCorrect, PTL

\* And no save starts but at an instant at which the gate ran
\* (pause.go:55-77, domainfront.go:470-473).
THEOREM SaverPassesOnlyWhenRunning == SaverSpec => PassesOnlyWhenRunning
<1> QED BY SaverUsesGate, WaitPassesOnlyWhenRunning, PTL

\* To the saver, too, the gate is one switch (pause.go:12-15, 24-77).
THEOREM SaverGateIsSwitch == SaverSpec => ImplementsGate
<1> QED BY SaverUsesGate, GateIsSwitch, PTL
=============================================================================
