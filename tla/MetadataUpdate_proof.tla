------------------------ MODULE MetadataUpdate_proof ------------------------
(***************************************************************************)
(* Proofs about MetadataUpdate: attempts are retried, in time, and known   *)
(* after a restart; differential updates leave no gap and end with what    *)
(* the server had.                                                         *)
(***************************************************************************)
EXTENDS MetadataUpdate, WellFoundedInduction, TLAPS

(* Give or take 20%. *)
LEMMA Fifth ==
  ASSUME NEW x \in Nat
  PROVE  /\ (x * 20) \div 100 \in Nat
         /\ 5 * ((x * 20) \div 100) <= x
OBVIOUS

LEMMA ShortestIsNat ==
  ShortestRetry \in Nat /\ ShortestRetry > 0 /\ ShortestRetry <= RetryBase
<1> DEFINE v == (RetryBase * 20) \div 100
<1>1. RetryBase \in Nat /\ RetryBase >= 5
  BY MetadataAssumption
<1>2. v \in Nat /\ 5 * v <= RetryBase
  BY <1>1, Fifth
<1> HIDE DEF v
<1>3. \A b, w \in Nat : b >= 5 /\ 5 * w <= b => b - w \in Nat /\ b - w > 0 /\ b - w <= b
  OBVIOUS
<1>4. RetryBase - v \in Nat /\ RetryBase - v > 0 /\ RetryBase - v <= RetryBase
  BY <1>1, <1>2, <1>3
<1> QED BY <1>4 DEF ShortestRetry, v

-----------------------------------------------------------------------------
(* The schedule.  A timeout is 0, none yet, or at least the shortest one:   *)
(* in memory at most the maximum, in the options up to 20% more.            *)
Stored(o) ==
  /\ o \in [try : BOOLEAN, retry : Nat, ran : BOOLEAN]
  /\ o.retry = 0 \/ o.retry >= ShortestRetry
Stages(isUpdating) ==
  IF isUpdating THEN {"unsent", "sent", "answered"} ELSE {"none"}
Schedule ==
  /\ Stored(opt) /\ opt.ran
  /\ Stored(disk) /\ (disk.try => disk.ran)
  /\ retry \in {0} \cup (ShortestRetry .. RetryMax)
  /\ updating \in BOOLEAN /\ request.stage \in Stages(updating)
  /\ Awaited /\ RetryBounded /\ AttemptRemembered

LEMMA RandomizedBase ==
  Randomize(RetryBase) \subseteq ShortestRetry .. RetryMax
<1> DEFINE v == (RetryBase * 20) \div 100
<1>1. RetryBase \in Nat /\ RetryBase >= 5 /\ RetryMax \in Nat /\ RetryMax >= 2 * RetryBase
  BY MetadataAssumption
<1>2. v \in Nat /\ 5 * v <= RetryBase
  BY <1>1, Fifth
<1> HIDE DEF v
<1>3. \A b, w, m \in Nat : b >= 5 /\ 5 * w <= b /\ m >= 2 * b =>
        (b - w) .. (b + w - 1) \subseteq (b - w) .. m
  OBVIOUS
<1>4. (RetryBase - v) .. (RetryBase + v - 1) \subseteq (RetryBase - v) .. RetryMax
  BY <1>1, <1>2, <1>3
<1> QED BY <1>4 DEF Randomize, ShortestRetry, v

(* Twice the shortest timeout is still long enough less 20%. *)
LEMMA RandomizedLong ==
  ASSUME NEW x \in Nat, x >= 2 * ShortestRetry, NEW r \in Randomize(x)
  PROVE  r \in Nat /\ r >= ShortestRetry
<1> DEFINE v == (x * 20) \div 100
<1>1. v \in Nat /\ 5 * v <= x
  BY Fifth
<1>2. r \in (x - v) .. (x + v - 1)
  BY DEF Randomize
<1> HIDE DEF v
<1>3. \A y, w, s \in Nat : y >= 2 * s /\ 5 * w <= y =>
        \A q \in (y - w) .. (y + w - 1) : q \in Nat /\ q >= s
  OBVIOUS
<1>4. ShortestRetry \in Nat
  BY ShortestIsNat
<1> QED BY <1>1, <1>2, <1>3, <1>4

LEMMA ScheduledRetry ==
  ASSUME NEW r \in Nat, r = 0 \/ r >= ShortestRetry, ScheduleRetry(r)
  PROVE  retry' \in ShortestRetry .. RetryMax /\ timer' = "retry"
<1>1. ShortestRetry \in Nat /\ ShortestRetry > 0
  BY ShortestIsNat
<1>2. CASE r \in 1 .. RetryMax
  <2>1. retry' = r
    BY <1>2 DEF ScheduleRetry
  <2>2. RetryMax \in Nat
    BY MetadataAssumption
  <2>3. r \in ShortestRetry .. RetryMax
    BY <1>1, <1>2, <2>2
  <2> QED BY <2>1, <2>3 DEF ScheduleRetry
<1>3. CASE r \notin 1 .. RetryMax
  BY <1>3, RandomizedBase DEF ScheduleRetry
<1> QED BY <1>2, <1>3

LEMMA FailureScheduled ==
  ASSUME Schedule, UpdateFailed
  PROVE  /\ Stored(opt') /\ opt'.ran
         /\ retry' \in ShortestRetry .. RetryMax /\ timer' = "retry"
         /\ updating' = FALSE /\ request' = NoRequest /\ opt'.try
<1>1. PICK r \in IF retry = 0 THEN {RetryBase} ELSE Randomize(Doubled) :
        opt' = [opt EXCEPT !.try = TRUE, !.retry = r] /\ ScheduleRetry(r)
  BY DEF UpdateFailed
<1>2. /\ ShortestRetry \in Nat /\ ShortestRetry <= RetryBase
      /\ RetryBase \in Nat /\ RetryMax \in Nat /\ RetryMax >= 2 * RetryBase
  BY ShortestIsNat, MetadataAssumption
<1>3. r \in Nat /\ r >= ShortestRetry
  <2>1. CASE retry = 0
    BY <1>1, <1>2, <2>1
  <2>2. CASE retry # 0
    <3>1. retry \in ShortestRetry .. RetryMax
      BY <2>2 DEF Schedule
    <3>2. Doubled \in Nat /\ Doubled >= 2 * ShortestRetry
      BY <1>2, <3>1 DEF Doubled
    <3> QED BY <1>1, <2>2, <3>2, RandomizedLong
  <2> QED BY <2>1, <2>2
<1>4. opt \in [try : BOOLEAN, retry : Nat, ran : BOOLEAN] /\ opt.ran
  BY DEF Schedule, Stored
<1>5. /\ opt' \in [try : BOOLEAN, retry : Nat, ran : BOOLEAN]
      /\ opt'.ran /\ opt'.try /\ opt'.retry = r
  BY <1>1, <1>3, <1>4
<1> QED BY <1>1, <1>3, <1>5, ScheduledRetry DEF UpdateFailed, Stored

LEMMA FailureKeepsSchedule ==
  ASSUME Schedule, UpdateFailed, UNCHANGED disk
  PROVE  Schedule'
<1>1. RetryBounded' /\ Awaited' /\ AttemptRemembered'
  BY FailureScheduled DEF RetryBounded, Awaited, AttemptRemembered, ShortestRetry
<1>2. updating' \in BOOLEAN /\ request'.stage \in Stages(updating')
  BY FailureScheduled DEF NoRequest, Stages
<1> QED BY <1>1, <1>2, FailureScheduled DEF Schedule, Stored, ShortestRetry

LEMMA AttemptKeepsSchedule ==
  ASSUME Schedule, NEW m, NEW isFull, NEW t,
         t = timer \/ t = "none",
         UpdateGadgetsMetadata(m, isFull, t), UNCHANGED disk
  PROVE  Schedule'
<1>1. CASE UpdateFailed
  BY <1>1, FailureKeepsSchedule
<1>2. CASE /\ updating' = TRUE /\ timer' = t
           /\ opt' = [opt EXCEPT !.try = TRUE] /\ UNCHANGED retry
           /\ request'.stage \in {"sent", "unsent"}
  <2>1. opt \in [try : BOOLEAN, retry : Nat, ran : BOOLEAN] /\ opt.ran
    BY DEF Schedule, Stored
  <2>2. /\ opt' \in [try : BOOLEAN, retry : Nat, ran : BOOLEAN]
        /\ opt'.ran /\ opt'.try /\ opt'.retry = opt.retry
    BY <1>2, <2>1
  <2>3. Stored(opt')
    BY <2>2 DEF Schedule, Stored
  <2>4. RetryBounded' /\ Awaited' /\ AttemptRemembered'
    BY <1>2, <2>2 DEF Schedule, RetryBounded, Awaited, Lost, AttemptRemembered, ShortestRetry
  <2>5. updating' \in BOOLEAN /\ request'.stage \in Stages(updating')
    BY <1>2 DEF Stages
  <2>6. retry' \in {0} \cup (ShortestRetry .. RetryMax)
    BY <1>2 DEF Schedule
  <2>7. Stored(disk') /\ (disk'.try => disk'.ran)
    BY DEF Schedule
  <2> QED BY <2>2, <2>3, <2>4, <2>5, <2>6, <2>7 DEF Schedule, Stored, ShortestRetry
<1>3. UpdateFailed \/ request' = Unsent \/ \E q : request' = [stage |-> "sent", query |-> q]
  BY DEF UpdateGadgetsMetadata
<1>4. \/ UpdateFailed
      \/ /\ updating' = TRUE /\ timer' = t
         /\ opt' = [opt EXCEPT !.try = TRUE] /\ UNCHANGED retry
  BY DEF UpdateGadgetsMetadata
<1>5. UpdateFailed \/ request'.stage \in {"sent", "unsent"}
  BY <1>3 DEF Unsent
<1> QED BY <1>1, <1>2, <1>4, <1>5

LEMMA InitSchedule == Init => Schedule
<1> SUFFICES ASSUME Init PROVE Schedule
  OBVIOUS
<1>1. RetryMax \in Nat
  BY MetadataAssumption
<1> QED BY <1>1 DEF Init, Schedule, Stored, Awaited, RetryBounded, AttemptRemembered, NoRequest, Stages

LEMMA RestartKeepsSchedule ==
  ASSUME Schedule, Restart
  PROVE  Schedule'
<1>1. /\ disk \in [try : BOOLEAN, retry : Nat, ran : BOOLEAN]
      /\ disk.retry = 0 \/ disk.retry >= ShortestRetry
      /\ disk.try => disk.ran
  BY DEF Schedule, Stored
<1>2. /\ opt' = [disk EXCEPT !.ran = TRUE] /\ disk' = disk /\ updating' = FALSE
      /\ request'.stage = "none"
      /\ IF disk.ran /\ disk.try THEN ScheduleRetry(disk.retry)
         ELSE retry' = 0 /\ timer' = IF disk.ran THEN "week" ELSE "now"
  BY DEF Restart, Started, NoRequest
<1>3. /\ opt' \in [try : BOOLEAN, retry : Nat, ran : BOOLEAN]
      /\ opt'.ran /\ opt'.retry = disk.retry /\ opt'.try = disk.try
  BY <1>1, <1>2
<1>4. Stored(opt)' /\ Stored(disk)'
  BY <1>1, <1>2, <1>3 DEF Stored, ShortestRetry
<1>5. CASE disk.try
  <2>1. retry' \in ShortestRetry .. RetryMax /\ timer' = "retry"
    BY <1>1, <1>2, <1>5, ScheduledRetry
  <2> QED BY <1>1, <1>2, <1>3, <1>4, <1>5, <2>1
          DEF Schedule, Stages, Awaited, RetryBounded, AttemptRemembered, ShortestRetry
<1>6. CASE ~disk.try
  <2>1. retry' = 0 /\ timer' \in {"week", "now"}
    BY <1>2, <1>6
  <2> QED BY <1>1, <1>2, <1>3, <1>4, <1>6, <2>1
          DEF Schedule, Stages, Awaited, RetryBounded, AttemptRemembered, ShortestRetry
<1> QED BY <1>5, <1>6

LEMMA NextSchedule ==
  ASSUME Schedule, [Next]_vars
  PROVE  Schedule'
<1> USE DEF Schedule, Stages, Stored, Awaited, Lost, RetryBounded, AttemptRemembered, ShortestRetry
<1>1. CASE OnUpdateTimer
  <2>1. CASE updating
    BY <1>1, <2>1 DEF OnUpdateTimer
  <2>2. CASE ~updating
    <3>1. UpdateGadgetsMetadata(mem, FALSE, "none") /\ UNCHANGED disk
      BY <1>1, <2>2 DEF OnUpdateTimer
    <3> HIDE DEF Schedule
    <3> QED BY <3>1, AttemptKeepsSchedule
  <2> QED BY <2>1, <2>2
<1>2. CASE ChecksumMismatch
  <2>1. UpdateGadgetsMetadata(EnsureInitialized(mem), TRUE, timer) /\ UNCHANGED disk
    BY <1>2 DEF ChecksumMismatch
  <2> HIDE DEF Schedule
  <2> QED BY <2>1, AttemptKeepsSchedule
<1>3. CASE UpdateSucceeds
  <2>1. /\ opt' \in [try : BOOLEAN, retry : Nat, ran : BOOLEAN]
        /\ opt'.ran /\ opt'.retry = 0 /\ ~opt'.try
    BY <1>3 DEF UpdateSucceeds
  <2>2. /\ updating' = FALSE /\ request'.stage = "none"
        /\ retry' = 0 /\ timer' = "week" /\ disk' = disk
    BY <1>3 DEF UpdateSucceeds, NoRequest
  <2> QED BY <2>1, <2>2
<1>4. CASE ParsingFails
  <2>1. PICK m : IF full THEN mem' = m /\ UpdateFailed /\ UNCHANGED full
                 ELSE UpdateGadgetsMetadata(m, TRUE, timer)
    BY <1>4 DEF ParsingFails
  <2>2. disk' = disk
    BY <1>4 DEF ParsingFails
  <2> HIDE DEF Schedule
  <2> QED BY <2>1, <2>2, AttemptKeepsSchedule, FailureKeepsSchedule
<1>5. CASE RequestFails
  <2>1. UpdateFailed /\ UNCHANGED disk
    BY <1>5 DEF RequestFails
  <2> HIDE DEF Schedule
  <2> QED BY <2>1, FailureKeepsSchedule
<1>6. CASE FreeMemory
  BY <1>6 DEF FreeMemory
<1>7. CASE GetAllGadgetInfo
  BY <1>7 DEF GetAllGadgetInfo
<1>8. CASE Restart
  <2> HIDE DEF Schedule
  <2> QED BY <1>8, RestartKeepsSchedule
<1>9. CASE Flush
  BY <1>9 DEF Flush
<1>10. CASE ServerChanges
  BY <1>10 DEF ServerChanges
<1>11. CASE ServerAnswers
  BY <1>11 DEF ServerAnswers, Answer
<1>12. CASE ScheduleMetaDataUpdate
  BY <1>12 DEF ScheduleMetaDataUpdate
<1>13. CASE UNCHANGED vars
  BY <1>13 DEF vars
<1> QED BY <1>1, <1>2, <1>3, <1>4, <1>5, <1>6, <1>7, <1>8, <1>9, <1>10, <1>11,
           <1>12, <1>13 DEF Next

LEMMA ScheduleInvariant == Spec => []Schedule
BY InitSchedule, NextSchedule, PTL DEF Spec

(* Unless a request that never calls back is waited for, there is a timer   *)
(* that will start the next update, or a request under way whose end will   *)
(* arm it: however requests, parses and restarts interleave with the timer  *)
(* (OnUpdateTimer, OnUpdateDone, Init).                                     *)
THEOREM AlwaysAwaited == Spec => []Awaited
<1>1. Schedule => Awaited
  BY DEF Schedule
<1> QED BY <1>1, ScheduleInvariant, PTL

(* A retry never waits shorter than the base interval less 20%, nor longer  *)
(* than the maximum, also with a timeout stored by an earlier run           *)
(* (ScheduleNextUpdate, OnUpdateDone).                                      *)
THEOREM RetriesBounded == Spec => []RetryBounded
<1>1. Schedule => RetryBounded
  BY DEF Schedule
<1> QED BY <1>1, ScheduleInvariant, PTL

(* The option kept for the next start says that an attempt was made and did *)
(* not succeed while that is so, and no longer (UpdateGadgetsMetadata,      *)
(* OnUpdateDone).                                                           *)
THEOREM AttemptsRemembered == Spec => []AttemptRemembered
<1>1. Schedule => AttemptRemembered
  BY DEF Schedule
<1> QED BY <1>1, ScheduleInvariant, PTL

-----------------------------------------------------------------------------
(* The records.  A bounded set of naturals has a greatest element.          *)
LEMMA GreatestNat ==
  ASSUME NEW T \in SUBSET Nat, T # {}, NEW b \in Nat, \A x \in T : x <= b
  PROVE  \E x \in T : \A y \in T : y <= x
<1> DEFINE R == {ss \in Nat \X Nat : ss[1] < ss[2]}
           U == {n \in Nat : b - n \in T}
<1>1. U # {}
  <2>1. PICK x \in T : x <= b
    OBVIOUS
  <2>2. x \in Nat /\ b - x \in Nat /\ b - (b - x) = x
    BY <2>1
  <2> QED BY <2>2
<1>2. PICK n \in U : \A k \in U : ~(<<k, n>> \in R)
  <2>1. IsWellFoundedOn(R, Nat) /\ U \in SUBSET Nat
    BY NatLessThanWellFounded DEF OpToRel
  <2> HIDE DEF R, U
  <2> QED BY <1>1, <2>1, WFMin
<1>3. ASSUME NEW y \in T PROVE y <= b - n
  <2>1. y \in Nat /\ y <= b /\ n \in Nat
    OBVIOUS
  <2>2. b - y \in Nat /\ b - (b - y) = y
    BY <2>1
  <2>3. b - y \in U
    BY <2>2
  <2>4. ~(b - y < n)
    BY <1>2, <2>2, <2>3
  <2> QED BY <2>1, <2>4
<1> QED BY <1>3

LEMMA ChosenGreatest ==
  ASSUME NEW T \in SUBSET Nat, T # {}, NEW b \in Nat, \A x \in T : x <= b
  PROVE  LET g == CHOOSE x \in T : \A y \in T : y <= x
         IN g \in T /\ \A y \in T : y <= g
BY GreatestNat

(* What was released, and who is listed. *)
Mine(rel, p) == {r \in 1 .. Len(rel) : rel[r].plugin = p}
History ==
  /\ releases \in Seq([plugin : Plugins, day : Nat])
  /\ day \in Nat /\ day >= 2 /\ listed \subseteq Plugins
  /\ \A r \in 1 .. Len(releases) : releases[r].day >= 2 /\ releases[r].day <= day
  /\ \A p \in listed : Mine(releases, p) # {}
Known == [Plugins -> 0 .. Len(releases)]

(* Where records are not the newest, the newest are as late as any of them, *)
(* or as the latest day the client has: it will ask for them again.         *)
Fresh(records) ==
  \A p \in listed : \/ records[p] = Newest(p)
                    \/ \A q \in Plugins : DayOf(Newest(p)) >= DayOf(records[q])
FreshSince(m) ==
  \/ m.plugins = NoRecords
  \/ \A p \in listed : m.plugins[p] = Newest(p) \/ DayOf(Newest(p)) >= m.latest
MemoryOK(m) ==
  /\ m \in [plugins : Known, builtins : BOOLEAN, latest : Nat]
  /\ m.latest <= day
  /\ FreshSince(m)
FileOK(f) ==
  \/ f \in {NoFile, Damaged}
  \/ f.state = "saved" /\ f.plugins \in Known /\ Fresh(f.plugins)

(* The answer under way. *)
AnswerOK(a) ==
  /\ a.served \in Known /\ Fresh(a.served)
  /\ a.full \in Known /\ \A q \in Plugins : a.full[q] \in {0, a.served[q]}
  /\ a.partial \subseteq Plugins
  /\ \A q \in Plugins \ a.partial : a.full[q] = a.served[q]
  /\ full => a.partial = {}
  /\ ~full /\ mem.plugins # NoRecords =>
       \A q \in a.partial : mem.plugins[q] = a.served[q] /\ mem.plugins[q] # 0
RequestOK ==
  /\ request # NoRequest => updating /\ (IsEmpty(mem) => file = Damaged)
  /\ \/ request = NoRequest
     \/ request = Unsent
     \/ request = [stage |-> "sent", query |-> QueryDate(mem, full)]
     \/ request.stage = "answered" /\ AnswerOK(request)
Data == History /\ MemoryOK(mem) /\ FileOK(file) /\ RequestOK

LEMMA DayIsNat ==
  ASSUME History, NEW r \in 0 .. Len(releases)
  PROVE  /\ DayOf(r) \in Nat /\ DayOf(r) <= day
         /\ r # 0 => DayOf(r) >= 2
<1>1. CASE r = 0
  BY <1>1 DEF DayOf, History
<1>2. CASE r # 0
  <2>1. Len(releases) \in Nat
    BY DEF History
  <2>2. r \in 1 .. Len(releases)
    BY <1>2, <2>1
  <2>3. releases[r] \in [plugin : Plugins, day : Nat]
    <3>1. releases \in Seq([plugin : Plugins, day : Nat])
      BY DEF History
    <3>2. \A S : \A q \in Seq(S) : \A k \in 1 .. Len(q) : q[k] \in S
      OBVIOUS
    <3> QED BY <2>2, <3>1, <3>2
  <2>4. releases[r].day \in Nat
    BY <2>3
  <2>5. releases[r].day >= 2 /\ releases[r].day <= day
    BY <2>2 DEF History
  <2> QED BY <1>2, <2>4, <2>5 DEF DayOf
<1> QED BY <1>1, <1>2

LEMMA NewestIsMine ==
  ASSUME History, NEW p
  PROVE  /\ Newest(p) \in 0 .. Len(releases)
         /\ p \in listed => Newest(p) # 0
         /\ Mine(releases, p) # {} => Newest(p) \in Mine(releases, p)
<1>1. Len(releases) \in Nat
  BY DEF History
<1>2. Newest(p) = IF Mine(releases, p) = {} THEN 0
                  ELSE CHOOSE r \in Mine(releases, p) :
                         \A s \in Mine(releases, p) : s <= r
  BY DEF Newest, Mine
<1>3. /\ Mine(releases, p) \in SUBSET Nat
      /\ Mine(releases, p) \subseteq 1 .. Len(releases)
      /\ \A x \in Mine(releases, p) : x <= Len(releases)
  BY <1>1 DEF Mine
<1>4. Mine(releases, p) # {} => Newest(p) \in Mine(releases, p)
  BY <1>1, <1>2, <1>3, ChosenGreatest
<1>5. p \in listed => Mine(releases, p) # {}
  BY DEF History
<1>6. 0 \in 0 .. Len(releases) /\ \A x \in 1 .. Len(releases) : x \in 0 .. Len(releases) /\ x # 0
  BY <1>1
<1>7. CASE Mine(releases, p) = {}
  BY <1>2, <1>4, <1>5, <1>6, <1>7
<1>8. CASE Mine(releases, p) # {}
  BY <1>3, <1>4, <1>6, <1>8
<1> QED BY <1>7, <1>8

LEMMA LatestIsDay ==
  ASSUME History, NEW records \in Known
  PROVE  /\ LatestOf(records) \in Nat /\ LatestOf(records) <= day
         /\ \E p \in Plugins : LatestOf(records) = DayOf(records[p])
<1> DEFINE days == {DayOf(records[p]) : p \in Plugins}
<1>1. \A p \in Plugins : DayOf(records[p]) \in Nat /\ DayOf(records[p]) <= day
  BY DayIsNat DEF Known
<1>2. days \in SUBSET Nat /\ days # {} /\ \A x \in days : x <= day
  BY <1>1, MetadataAssumption
<1>3. day \in Nat
  BY DEF History
<1>4. LatestOf(records) = CHOOSE x \in days : \A y \in days : y <= x
  BY DEF LatestOf
<1>5. LatestOf(records) \in days
  <2> HIDE DEF days
  <2> QED BY <1>2, <1>3, <1>4, ChosenGreatest
<1> QED BY <1>1, <1>5

(* An action that leaves the server alone leaves what it says of days and   *)
(* newest releases.                                                         *)
LEMMA ServerStays ==
  ASSUME UNCHANGED server
  PROVE  /\ \A p : Newest(p)' = Newest(p)
         /\ \A r : DayOf(r)' = DayOf(r)
         /\ Known' = Known /\ (History => History')
<1>1. releases' = releases /\ listed' = listed /\ day' = day
  BY DEF server
<1>2. ASSUME NEW p PROVE Newest(p)' = Newest(p)
  BY <1>1 DEF Newest
<1>3. ASSUME NEW r PROVE DayOf(r)' = DayOf(r)
  BY <1>1 DEF DayOf
<1>4. Known' = Known
  BY <1>1 DEF Known
<1>5. History => History'
  BY <1>1 DEF History, Mine
<1> QED BY <1>2, <1>3, <1>4, <1>5

LEMMA LoadedMemory ==
  ASSUME History, NEW m, MemoryOK(m), FileOK(file)
  PROVE  /\ MemoryOK(EnsureInitialized(m))
         /\ IsEmpty(EnsureInitialized(m)) => file = Damaged
<1>1. m \in [plugins : Known, builtins : BOOLEAN, latest : Nat]
  BY DEF MemoryOK
<1>2. CASE ~IsEmpty(m)
  BY <1>2 DEF EnsureInitialized
<1>3. CASE IsEmpty(m) /\ file = NoFile
  <2>1. EnsureInitialized(m) = [m EXCEPT !.builtins = TRUE]
    BY <1>3 DEF EnsureInitialized, LoadedFrom, NoFile
  <2> QED BY <1>1, <1>3, <2>1 DEF MemoryOK, FreshSince, IsEmpty
<1>4. CASE IsEmpty(m) /\ file = Damaged
  <2>1. EnsureInitialized(m) = m
    BY <1>4 DEF EnsureInitialized, LoadedFrom, Damaged
  <2> QED BY <1>4, <2>1
<1>5. CASE IsEmpty(m) /\ file \notin {NoFile, Damaged}
  <2>1. file.state = "saved" /\ file.plugins \in Known /\ Fresh(file.plugins)
    BY <1>5 DEF FileOK
  <2> DEFINE l == LatestOf(file.plugins)
             n == [plugins |-> file.plugins, builtins |-> TRUE, latest |-> l]
  <2>2. EnsureInitialized(m) = n
    BY <1>5, <2>1 DEF EnsureInitialized, LoadedFrom
  <2>3. l \in Nat /\ l <= day /\ \E p \in Plugins : l = DayOf(file.plugins[p])
    BY <2>1, LatestIsDay
  <2> HIDE DEF l
  <2>4. FreshSince(n)
    BY <2>1, <2>3 DEF Fresh, FreshSince
  <2>5. n \in [plugins : Known, builtins : BOOLEAN, latest : Nat] /\ n.latest <= day
    BY <2>1, <2>3
  <2> QED BY <2>2, <2>4, <2>5 DEF MemoryOK, IsEmpty
<1> QED BY <1>2, <1>3, <1>4, <1>5

(* A release is of the day and becomes the newest of its plugin; everything *)
(* else keeps its releases.                                                 *)
LEMMA ReleaseIsNewest ==
  ASSUME History, NEW p \in Plugins, Publish(p)
  PROVE  /\ History'
         /\ Len(releases') = Len(releases) + 1
         /\ \A r \in 0 .. Len(releases) : DayOf(r)' = DayOf(r)
         /\ \A q : q # p => Newest(q)' = Newest(q)
         /\ Newest(p)' = Len(releases') /\ DayOf(Newest(p))' = day
<1> DEFINE new == [plugin |-> p, day |-> day]
           n == Len(releases)
<1>1. /\ releases' = Append(releases, new) /\ listed' = listed \cup {p} /\ day' = day
  BY DEF Publish
<1>2. /\ releases \in Seq([plugin : Plugins, day : Nat]) /\ day \in Nat
      /\ new \in [plugin : Plugins, day : Nat] /\ n \in Nat
  BY DEF History
<1>3. /\ releases' \in Seq([plugin : Plugins, day : Nat])
      /\ Len(releases') = n + 1 /\ releases'[n + 1] = new
      /\ \A r \in 1 .. n : releases'[r] = releases[r]
  BY <1>1, <1>2
<1> HIDE DEF new
<1>4. new.plugin = p /\ new.day = day
  BY DEF new
<1>5. \A r \in 1 .. n + 1 : r \in 1 .. n \/ r = n + 1
  BY <1>2
<1>6. 1 .. n \subseteq 1 .. n + 1 /\ n + 1 \in 1 .. n + 1
  BY <1>2
<1>7. \A q : q # p => Mine(releases', q) = Mine(releases, q)
  BY <1>3, <1>4, <1>5, <1>6 DEF Mine
<1>8. n + 1 \in Mine(releases', p)
  BY <1>3, <1>4, <1>6 DEF Mine
<1>9. History'
  <2>1. \A r \in 1 .. Len(releases') : releases'[r].day >= 2 /\ releases'[r].day <= day'
    <3>1. day >= 2
      BY DEF History
    <3> QED BY <1>1, <1>2, <1>3, <1>4, <1>5, <3>1 DEF History
  <2>2. \A q \in listed' : Mine(releases', q) # {}
    BY <1>1, <1>7, <1>8 DEF History
  <2> QED BY <1>1, <1>2, <1>3, <2>1, <2>2 DEF History
<1>10. \A r \in 0 .. n : DayOf(r)' = DayOf(r)
  <2>1. \A r \in 0 .. n : r = 0 \/ r \in 1 .. n
    BY <1>2
  <2> QED BY <1>3, <2>1 DEF DayOf
<1>11. \A q : q # p => Newest(q)' = Newest(q)
  <2>1. ASSUME NEW q, q # p PROVE Newest(q)' = Newest(q)
    <3> DEFINE Greatest(T) == IF T = {} THEN 0
                              ELSE CHOOSE r \in T : \A s \in T : s <= r
    <3>1. Newest(q) = Greatest(Mine(releases, q))
      BY DEF Newest, Mine
    <3>2. Newest(q)' = Greatest(Mine(releases', q))
      BY DEF Newest, Mine
    <3>3. Mine(releases', q) = Mine(releases, q)
      BY <1>7, <2>1
    <3> HIDE DEF Greatest
    <3> QED BY <3>1, <3>2, <3>3
  <2> QED BY <2>1
<1>12. Newest(p)' = n + 1
  <2> DEFINE T == Mine(releases', p)
             g == CHOOSE r \in T : \A s \in T : s <= r
  <2>1. Newest(p)' = IF T = {} THEN 0 ELSE g
    BY DEF Newest, Mine
  <2>2. T \in SUBSET Nat /\ n + 1 \in Nat /\ \A x \in T : x <= n + 1
    BY <1>2, <1>3 DEF Mine
  <2>3. n + 1 \in T
    BY <1>8
  <2> HIDE DEF T
  <2>4. g \in T /\ \A s \in T : s <= g
    BY <2>2, <2>3, ChosenGreatest
  <2> HIDE DEF g
  <2>5. g \in Nat /\ n + 1 <= g /\ g <= n + 1
    BY <2>2, <2>3, <2>4
  <2>6. g = n + 1
    BY <2>5, <1>2
  <2> QED BY <2>1, <2>3, <2>6
<1>13. DayOf(Newest(p))' = IF Newest(p)' = 0 THEN 0 ELSE releases'[Newest(p)'].day
  BY DEF DayOf
<1>14. DayOf(Newest(p))' = day
  BY <1>2, <1>3, <1>4, <1>12, <1>13
<1> QED BY <1>3, <1>9, <1>10, <1>11, <1>12, <1>14

LEMMA ServerStep ==
  ASSUME History, ServerChanges
  PROVE  /\ History' /\ day <= day' /\ Len(releases) <= Len(releases')
         /\ \A r \in 0 .. Len(releases) : r \in 0 .. Len(releases') /\ DayOf(r)' = DayOf(r)
         /\ \A p \in listed' : \/ p \in listed /\ Newest(p)' = Newest(p)
                               \/ DayOf(Newest(p))' = day
         /\ UNCHANGED <<mem, file, updating, full, request>>
<1>1. Len(releases) \in Nat /\ day \in Nat
  BY DEF History
<1>2. UNCHANGED <<mem, file, updating, full, request>>
  BY DEF ServerChanges
<1>3. CASE NextDay
  <2>1. releases' = releases /\ listed' = listed /\ day' = day + 1
    BY <1>3 DEF NextDay
  <2>2. \A p : Newest(p)' = Newest(p)
    BY <2>1 DEF Newest
  <2>3. \A r : DayOf(r)' = DayOf(r)
    BY <2>1 DEF DayOf
  <2>4. History'
    <3>1. \A r \in 1 .. Len(releases) : releases[r].day \in Nat
      <4>1. \A S : \A q \in Seq(S) : \A k \in 1 .. Len(q) : q[k] \in S
        OBVIOUS
      <4>2. \A r \in 1 .. Len(releases) : releases[r] \in [plugin : Plugins, day : Nat]
        BY <4>1 DEF History
      <4> QED BY <4>2
    <3>2. \A d, e \in Nat : d <= e => d <= e + 1
      OBVIOUS
    <3> QED BY <1>1, <2>1, <3>1, <3>2 DEF History, Mine
  <2> QED BY <1>1, <1>2, <2>1, <2>2, <2>3, <2>4
<1>4. ASSUME NEW p \in Plugins, Publish(p)
      PROVE  /\ History' /\ day <= day' /\ Len(releases) <= Len(releases')
             /\ \A r \in 0 .. Len(releases) : r \in 0 .. Len(releases') /\ DayOf(r)' = DayOf(r)
             /\ \A q \in listed' : \/ q \in listed /\ Newest(q)' = Newest(q)
                                   \/ DayOf(Newest(q))' = day
  <2>1. listed' = listed \cup {p} /\ day' = day
    BY <1>4 DEF Publish
  <2>2. \A r \in 0 .. Len(releases) : r \in 0 .. Len(releases) + 1
    BY <1>1
  <2>3. Len(releases) <= Len(releases) + 1 /\ day <= day
    BY <1>1
  <2> QED BY <1>4, <2>1, <2>2, <2>3, ReleaseIsNewest
<1>5. ASSUME NEW p \in Plugins, Withdraw(p)
      PROVE  /\ History' /\ day <= day' /\ Len(releases) <= Len(releases')
             /\ \A r \in 0 .. Len(releases) : r \in 0 .. Len(releases') /\ DayOf(r)' = DayOf(r)
             /\ \A q \in listed' : \/ q \in listed /\ Newest(q)' = Newest(q)
                                   \/ DayOf(Newest(q))' = day
  <2>1. releases' = releases /\ listed' = listed \ {p} /\ day' = day
    BY <1>5 DEF Withdraw
  <2>2. \A q : Newest(q)' = Newest(q)
    BY <2>1 DEF Newest
  <2>3. \A r : DayOf(r)' = DayOf(r)
    BY <2>1 DEF DayOf
  <2>4. History'
    BY <2>1 DEF History, Mine
  <2>5. day <= day /\ Len(releases) <= Len(releases)
    BY <1>1
  <2> QED BY <2>1, <2>2, <2>3, <2>4, <2>5
<1> QED BY <1>2, <1>3, <1>4, <1>5 DEF ServerChanges

LEMMA ServerKeepsFresh ==
  ASSUME History, ServerChanges, NEW records \in Known, Fresh(records)
  PROVE  records \in Known' /\ Fresh(records)'
<1>1. records \in Known'
  BY ServerStep DEF Known
<1>2. \A q \in Plugins : /\ DayOf(records[q])' = DayOf(records[q])
                         /\ DayOf(records[q]) \in Nat /\ DayOf(records[q]) <= day
  BY ServerStep, DayIsNat DEF Known
<1>3. day \in Nat
  BY DEF History
<1>4. ASSUME NEW p \in listed'
      PROVE  \/ records[p] = Newest(p)'
             \/ \A q \in Plugins : DayOf(Newest(p))' >= DayOf(records[q])'
  <2>1. CASE DayOf(Newest(p))' = day
    BY <1>2, <1>3, <2>1
  <2>2. CASE p \in listed /\ Newest(p)' = Newest(p)
    <3>1. DayOf(Newest(p))' = DayOf(Newest(p))
      BY <2>2, ServerStep, NewestIsMine
    <3> QED BY <1>2, <2>2, <3>1 DEF Fresh
  <2> QED BY <2>1, <2>2, ServerStep
<1> QED BY <1>1, <1>4 DEF Fresh

LEMMA ServerChangesKeep ==
  ASSUME Data, ServerChanges
  PROVE  Data'
<1>1. History /\ MemoryOK(mem) /\ FileOK(file) /\ RequestOK
  BY DEF Data
<1>2. UNCHANGED <<mem, file, updating, full, request>> /\ History'
  BY <1>1, ServerStep
<1>3. MemoryOK(mem)'
  <2>1. /\ mem \in [plugins : Known, builtins : BOOLEAN, latest : Nat]
        /\ mem.latest \in Nat /\ mem.latest <= day /\ FreshSince(mem)
    BY <1>1 DEF MemoryOK
  <2>2. Known \subseteq Known'
    BY <1>1, ServerStep DEF Known
  <2>3. mem.latest <= day'
    <3>1. day \in Nat /\ day' \in Nat /\ day <= day'
      BY <1>1, <1>2, ServerStep DEF History
    <3> QED BY <2>1, <3>1
  <2>4. ASSUME NEW p \in listed', mem.plugins # NoRecords
        PROVE  mem.plugins[p] = Newest(p)' \/ DayOf(Newest(p))' >= mem.latest
    <3>1. CASE DayOf(Newest(p))' = day
      BY <1>1, <2>1, <3>1 DEF History
    <3>2. CASE p \in listed /\ Newest(p)' = Newest(p)
      <4>1. DayOf(Newest(p))' = DayOf(Newest(p))
        BY <1>1, <3>2, ServerStep, NewestIsMine
      <4> QED BY <2>1, <2>4, <3>2, <4>1 DEF FreshSince
    <3> QED BY <1>1, <3>1, <3>2, ServerStep
  <2>5. FreshSince(mem)'
    BY <1>2, <2>4 DEF FreshSince
  <2>6. mem \in [plugins : Known', builtins : BOOLEAN, latest : Nat]
    BY <2>1, <2>2
  <2> QED BY <1>2, <2>3, <2>5, <2>6 DEF MemoryOK
<1>4. FileOK(file)'
  BY <1>1, <1>2, ServerKeepsFresh DEF FileOK
<1>5. RequestOK'
  <2>1. ASSUME AnswerOK(request) PROVE AnswerOK(request)'
    <3>1. Known \subseteq Known'
      BY <1>1, ServerStep DEF Known
    <3>2. PICK served : served = request.served
      OBVIOUS
    <3>3. served \in Known' /\ Fresh(served)'
      BY <1>1, <2>1, <3>2, ServerKeepsFresh DEF AnswerOK
    <3>4. request'.served \in Known' /\ Fresh(request.served)'
      BY <1>2, <3>2, <3>3 DEF Fresh, DayOf
    <3>5. request.full \in Known'
      BY <2>1, <3>1 DEF AnswerOK
    <3> QED BY <1>2, <2>1, <3>4, <3>5 DEF AnswerOK
  <2>2. QueryDate(mem, full)' = QueryDate(mem, full)
    BY <1>2 DEF QueryDate
  <2> QED BY <1>1, <1>2, <2>1, <2>2 DEF RequestOK, IsEmpty
<1> QED BY <1>2, <1>3, <1>4, <1>5 DEF Data

(* What an action must show that leaves the server alone. *)
LEMMA MemoryStays ==
  ASSUME History, UNCHANGED server, NEW m, MemoryOK(m), mem' = m
  PROVE  MemoryOK(mem)'
<1>1. /\ \A p : Newest(p)' = Newest(p) /\ DayOf(Newest(p))' = DayOf(Newest(p))
      /\ Known' = Known
  <2>1. \A p : DayOf(Newest(p))' = DayOf(Newest(p))
    BY DEF server, DayOf, Newest
  <2> QED BY <2>1, ServerStays
<1>2. /\ m \in [plugins : Known, builtins : BOOLEAN, latest : Nat]
      /\ m.latest <= day /\ FreshSince(m) /\ day' = day /\ listed' = listed
  BY DEF MemoryOK, server
<1>3. FreshSince(mem)'
  BY <1>1, <1>2 DEF FreshSince
<1> QED BY <1>1, <1>2, <1>3 DEF MemoryOK

LEMMA FreshStays ==
  ASSUME UNCHANGED server, NEW records, Fresh(records)
  PROVE  Fresh(records)'
<1>1. /\ \A p : Newest(p)' = Newest(p) /\ DayOf(Newest(p))' = DayOf(Newest(p))
      /\ \A q : DayOf(records[q])' = DayOf(records[q])
      /\ listed' = listed
  BY DEF server, DayOf, Newest
<1> QED BY <1>1 DEF Fresh

LEMMA FileStays ==
  ASSUME UNCHANGED server, UNCHANGED file, FileOK(file)
  PROVE  FileOK(file)'
<1>1. CASE file \in {NoFile, Damaged}
  BY <1>1 DEF FileOK
<1>2. CASE file.state = "saved" /\ file.plugins \in Known /\ Fresh(file.plugins)
  <2>1. PICK records : records = file.plugins
    OBVIOUS
  <2>2. Fresh(records)' /\ file'.plugins = records
    BY <1>2, <2>1, FreshStays
  <2>3. Fresh(file.plugins)'
    BY <2>2 DEF Fresh, DayOf
  <2> QED BY <1>2, <2>3, ServerStays DEF FileOK
<1> QED BY <1>1, <1>2 DEF FileOK

LEMMA AttemptKeepsData ==
  ASSUME History, FileOK(file), NEW m, MemoryOK(m), NEW isFull, NEW t,
         UpdateGadgetsMetadata(m, isFull, t), UNCHANGED server, UNCHANGED file
  PROVE  Data'
<1> DEFINE l == EnsureInitialized(m)
<1>1. mem' = l /\ full' = isFull
  BY DEF UpdateGadgetsMetadata
<1>2. MemoryOK(l) /\ (IsEmpty(l) => file = Damaged)
  BY LoadedMemory
<1>3. \/ request' = [stage |-> "sent", query |-> QueryDate(l, isFull)] /\ updating' = TRUE
      \/ request' = Unsent /\ updating' = TRUE
      \/ request' = NoRequest
  BY DEF UpdateGadgetsMetadata, UpdateFailed
<1> HIDE DEF l
<1>4. QueryDate(mem, full)' = QueryDate(l, isFull)
  BY <1>1 DEF QueryDate
<1>5. IsEmpty(mem)' => file' = Damaged
  BY <1>1, <1>2 DEF IsEmpty
<1>6. RequestOK'
  BY <1>3, <1>4, <1>5 DEF RequestOK
<1>7. MemoryOK(mem)'
  BY <1>1, <1>2, MemoryStays
<1> QED BY <1>6, <1>7, FileStays, ServerStays DEF Data

LEMMA MergedData ==
  ASSUME Data, UpdateSucceeds
  PROVE  mem'.plugins = request.served /\ Data'
<1>1. /\ request.stage = "answered" /\ Parses(ParsedInto, request)
      /\ mem' = Merged(ParsedInto, request)
      /\ SavePluginsXMLFile(mem'.plugins)
      /\ request' = NoRequest
      /\ UNCHANGED server
  BY DEF UpdateSucceeds, server
<1>2. /\ History /\ MemoryOK(mem) /\ FileOK(file) /\ AnswerOK(request)
      /\ IsEmpty(mem) => file = Damaged
  <2>1. /\ request # NoRequest /\ request # Unsent
        /\ request # [stage |-> "sent", query |-> QueryDate(mem, full)]
    BY <1>1 DEF NoRequest, Unsent
  <2> QED BY <2>1 DEF Data, RequestOK
<1>3. ParsedInto = mem
  BY <1>2 DEF ParsedInto, EnsureInitialized, LoadedFrom, Damaged
<1> DEFINE l == LatestOf(request.full)
           records == [p \in Plugins |-> IF p \in request.partial THEN mem.plugins[p]
                                         ELSE request.full[p]]
<1>4. mem' = [plugins |-> records, builtins |-> TRUE, latest |-> l]
  BY <1>1, <1>3 DEF Merged
<1>5. records = request.served
  <2>1. \A p \in request.partial : ~full /\ mem.plugins[p] # 0 /\ p \in Plugins
    BY <1>1, <1>2, <1>3 DEF Parses, AnswerOK
  <2>2. \A p \in request.partial : mem.plugins[p] = request.served[p]
    BY <1>2, <2>1 DEF AnswerOK, NoRecords
  <2>3. request.served \in Known /\ \A p \in Plugins : records[p] = request.served[p]
    BY <1>2, <2>2 DEF AnswerOK
  <2> QED BY <2>3 DEF Known
<1> HIDE DEF records
<1>6. /\ l \in Nat /\ l <= day
      /\ \E p \in Plugins : l = DayOf(request.full[p])
  BY <1>2, LatestIsDay DEF AnswerOK
<1>7. /\ request.served \in Known /\ Fresh(request.served)
      /\ \A q \in Plugins : request.full[q] \in {0, request.served[q]}
  BY <1>2 DEF AnswerOK
<1> HIDE DEF l
<1> DEFINE m == [plugins |-> request.served, builtins |-> TRUE, latest |-> l]
<1>8. MemoryOK(m)
  <2>1. ASSUME NEW p \in listed
        PROVE  request.served[p] = Newest(p) \/ DayOf(Newest(p)) >= l
    <3>1. PICK q \in Plugins : l = DayOf(request.full[q])
      BY <1>6
    <3>2. CASE request.full[q] = 0
      <4>1. l = 0
        BY <3>1, <3>2 DEF DayOf
      <4>2. DayOf(Newest(p)) \in Nat
        BY <1>2, NewestIsMine, DayIsNat
      <4> QED BY <4>1, <4>2
    <3>3. CASE request.full[q] = request.served[q]
      BY <1>7, <3>1, <3>3 DEF Fresh
    <3> QED BY <1>7, <3>2, <3>3
  <2>2. FreshSince(m)
    BY <2>1 DEF FreshSince
  <2>3. m \in [plugins : Known, builtins : BOOLEAN, latest : Nat]
    BY <1>6, <1>7
  <2> QED BY <1>6, <2>2, <2>3 DEF MemoryOK
<1>9. MemoryOK(mem)'
  <2>1. mem' = m
    BY <1>4, <1>5
  <2> HIDE DEF m
  <2> QED BY <1>1, <1>2, <1>8, <2>1, MemoryStays
<1>10. FileOK(file)'
  <2>1. file' \in {[state |-> "saved", plugins |-> request.served], Damaged}
    BY <1>1, <1>4, <1>5 DEF SavePluginsXMLFile
  <2>2. PICK served : served = request.served
    OBVIOUS
  <2>3. Fresh(served)' /\ served \in Known'
    BY <1>1, <1>7, <2>2, FreshStays, ServerStays
  <2>4. CASE file' = Damaged
    BY <2>4 DEF FileOK
  <2>5. CASE file' = [state |-> "saved", plugins |-> request.served]
    <3>1. file'.state = "saved" /\ file'.plugins = served
      BY <2>2, <2>5
    <3>2. Fresh(file.plugins)'
      BY <2>3, <3>1 DEF Fresh, DayOf
    <3> QED BY <2>3, <3>1, <3>2 DEF FileOK
  <2> QED BY <2>1, <2>4, <2>5
<1>11. RequestOK'
  BY <1>1 DEF RequestOK
<1> QED BY <1>1, <1>2, <1>4, <1>5, <1>9, <1>10, <1>11, ServerStays DEF Data

(* A half parsed answer moves the latest day only where there are no        *)
(* records that could be missed.                                            *)
LEMMA HalfParsedMemory ==
  ASSUME History, MemoryOK(mem), AnswerOK(request), ~Parses(mem, request),
         NEW m \in HalfParsed(mem, request)
  PROVE  MemoryOK(m)
<1>1. mem.plugins = NoRecords
  <2> SUFFICES ASSUME mem.plugins # NoRecords PROVE FALSE
    OBVIOUS
  <2>1. PICK p \in request.partial : ~(~full /\ mem.plugins[p] # 0)
    BY DEF Parses
  <2> QED BY <2>1 DEF AnswerOK
<1>2. PICK d \in {0} \cup {DayOf(request.full[p]) : p \in Plugins} :
        m = [mem EXCEPT !.latest = d]
  BY DEF HalfParsed
<1>3. d \in Nat /\ d <= day
  <2>1. \A p \in Plugins : DayOf(request.full[p]) \in Nat /\ DayOf(request.full[p]) <= day
    BY DayIsNat DEF AnswerOK, Known
  <2>2. 0 \in Nat /\ 0 <= day
    BY DEF History
  <2> QED BY <2>1, <2>2
<1>4. mem \in [plugins : Known, builtins : BOOLEAN, latest : Nat]
  BY DEF MemoryOK
<1>5. /\ m \in [plugins : Known, builtins : BOOLEAN, latest : Nat]
      /\ m.plugins = NoRecords /\ m.latest = d
  BY <1>1, <1>2, <1>3, <1>4
<1> QED BY <1>3, <1>5 DEF MemoryOK, FreshSince

LEMMA StutterKeepsData ==
  ASSUME Data, UNCHANGED <<releases, listed, day, mem, file, updating, full, request>>
  PROVE  Data'
<1>1. UNCHANGED server /\ mem' = mem /\ History /\ MemoryOK(mem) /\ FileOK(file) /\ RequestOK
  BY DEF server, Data
<1>2. MemoryOK(mem)' /\ FileOK(file)' /\ History'
  BY <1>1, MemoryStays, FileStays, ServerStays
<1>3. ASSUME AnswerOK(request) PROVE AnswerOK(request)'
  <2>1. PICK served : served = request.served
    OBVIOUS
  <2>2. Fresh(served)' /\ Known' = Known
    BY <1>1, <1>3, <2>1, FreshStays, ServerStays DEF AnswerOK
  <2>3. Fresh(request.served)'
    BY <2>1, <2>2 DEF Fresh, DayOf
  <2> QED BY <1>3, <2>2, <2>3 DEF AnswerOK
<1>4. RequestOK'
  BY <1>1, <1>3 DEF RequestOK, QueryDate, IsEmpty
<1> QED BY <1>2, <1>4 DEF Data

LEMMA FailureKeepsData ==
  ASSUME History, FileOK(file), NEW m, MemoryOK(m), mem' = m,
         request' = NoRequest, UNCHANGED server, UNCHANGED file
  PROVE  Data'
<1>1. MemoryOK(mem)' /\ FileOK(file)' /\ History'
  BY MemoryStays, FileStays, ServerStays
<1> QED BY <1>1 DEF Data, RequestOK

LEMMA ParsingFailsKeepsData ==
  ASSUME Data, ParsingFails
  PROVE  Data'
<1>1. /\ request.stage = "answered" /\ UNCHANGED server /\ UNCHANGED file
  BY DEF ParsingFails, server
<1>2. /\ History /\ MemoryOK(mem) /\ FileOK(file) /\ AnswerOK(request)
      /\ IsEmpty(mem) => file = Damaged
  <2>1. /\ request # NoRequest /\ request # Unsent
        /\ request # [stage |-> "sent", query |-> QueryDate(mem, full)]
    BY <1>1 DEF NoRequest, Unsent
  <2> QED BY <2>1 DEF Data, RequestOK
<1>3. ParsedInto = mem
  BY <1>2 DEF ParsedInto, EnsureInitialized, LoadedFrom, Damaged
<1>4. PICK m \in {mem} \cup IF Parses(mem, request) THEN {} ELSE HalfParsed(mem, request) :
        IF full THEN mem' = m /\ UpdateFailed /\ UNCHANGED full
        ELSE UpdateGadgetsMetadata(m, TRUE, timer)
  BY <1>3 DEF ParsingFails
<1>5. MemoryOK(m)
  BY <1>2, <1>4, HalfParsedMemory
<1>6. CASE full
  BY <1>1, <1>2, <1>4, <1>5, <1>6, FailureKeepsData DEF UpdateFailed
<1>7. CASE ~full
  BY <1>1, <1>2, <1>4, <1>5, <1>7, AttemptKeepsData
<1> QED BY <1>6, <1>7

LEMMA ServerAnswersKeepsData ==
  ASSUME Data, ServerAnswers
  PROVE  Data'
<1>1. /\ request.stage = "sent" /\ request' = Answer(request.query)
      /\ UNCHANGED server /\ UNCHANGED <<mem, file, updating, full>>
  BY DEF ServerAnswers, server
<1>2. /\ History /\ MemoryOK(mem) /\ FileOK(file) /\ updating
      /\ IsEmpty(mem) => file = Damaged
      /\ request.query = QueryDate(mem, full)
  <2>1. request # NoRequest /\ request # Unsent /\ request.stage # "answered"
    BY <1>1 DEF NoRequest, Unsent
  <2>2. request = [stage |-> "sent", query |-> QueryDate(mem, full)]
    BY <2>1 DEF Data, RequestOK
  <2>3. request.query = QueryDate(mem, full)
    BY <2>2
  <2> QED BY <2>1, <2>3 DEF Data, RequestOK
<1> DEFINE query == QueryDate(mem, full)
           served == [p \in Plugins |-> IF p \in listed THEN Newest(p) ELSE 0]
           fulls == [p \in Plugins |-> IF DayOf(served[p]) > query THEN served[p] ELSE 0]
           part == {p \in listed : DayOf(served[p]) <= query}
<1>3. /\ request'.stage = "answered" /\ request'.served = served
      /\ request'.full = fulls /\ request'.partial = part
  BY <1>1, <1>2 DEF Answer, Catalogue
<1>4. /\ mem.latest \in Nat /\ FreshSince(mem)
      /\ query = IF ~full /\ mem.latest > 1 THEN mem.latest - 1 ELSE 0
      /\ query \in Nat
  <2>1. mem \in [plugins : Known, builtins : BOOLEAN, latest : Nat]
    BY <1>2 DEF MemoryOK
  <2>2. mem.latest \in Nat
    BY <2>1
  <2> QED BY <1>2, <2>2 DEF MemoryOK, QueryDate
<1> HIDE DEF query
<1>5. /\ Len(releases) \in Nat /\ listed \subseteq Plugins
      /\ \A p : Newest(p) \in 0 .. Len(releases)
      /\ \A p \in listed : DayOf(Newest(p)) \in Nat /\ DayOf(Newest(p)) >= 2 /\ Newest(p) # 0
  BY <1>2, NewestIsMine, DayIsNat DEF History
<1>6. served \in Known /\ \A p \in listed : served[p] = Newest(p)
  BY <1>5 DEF Known
<1> HIDE DEF served
<1>7. fulls \in Known /\ \A q \in Plugins : fulls[q] \in {0, served[q]}
  BY <1>5, <1>6 DEF Known
<1>8. part \subseteq Plugins /\ (full => part = {})
  BY <1>4, <1>5, <1>6
<1>9. \A q \in Plugins \ part : fulls[q] = served[q]
  <2>1. ASSUME NEW q \in Plugins, q \notin part, ~(DayOf(served[q]) > query)
        PROVE  served[q] = 0
    <3>1. DayOf(served[q]) \in Nat
      BY <1>2, <1>6, DayIsNat DEF Known
    <3>2. q \notin listed
      BY <1>4, <2>1, <3>1
    <3> QED BY <3>2 DEF served
  <2> QED BY <2>1
<1>10. ~full /\ mem.plugins # NoRecords =>
         \A q \in part : mem.plugins[q] = served[q] /\ mem.plugins[q] # 0
  <2> SUFFICES ASSUME ~full, mem.plugins # NoRecords, NEW q \in part
               PROVE  mem.plugins[q] = served[q] /\ mem.plugins[q] # 0
    OBVIOUS
  <2>1. q \in listed /\ DayOf(Newest(q)) <= query /\ served[q] = Newest(q)
    BY <1>6
  <2>2. ~(DayOf(Newest(q)) >= mem.latest)
    BY <1>4, <1>5, <2>1
  <2>3. mem.plugins[q] = Newest(q)
    BY <1>4, <2>1, <2>2 DEF FreshSince
  <2> QED BY <1>5, <2>1, <2>3
<1> HIDE DEF fulls, part
<1>11. AnswerOK(request)'
  <2>1. PICK s : s = served
    OBVIOUS
  <2>2. Fresh(s)
    BY <1>6, <2>1 DEF Fresh
  <2>3. Fresh(s)' /\ Known' = Known
    BY <1>1, <2>2, FreshStays, ServerStays
  <2>4. request'.served = s
    BY <1>3, <2>1
  <2>5. Fresh(request.served)'
    BY <2>3, <2>4 DEF Fresh, DayOf
  <2>6. request'.served = served /\ request'.full = fulls /\ request'.partial = part
    BY <1>3
  <2>7. mem' = mem /\ full' = full
    BY <1>1
  <2>8. request'.served \in Known' /\ request'.full \in Known' /\ request'.partial \subseteq Plugins
    BY <1>6, <1>7, <1>8, <2>3, <2>6
  <2>9. /\ \A q \in Plugins : request'.full[q] \in {0, request'.served[q]}
        /\ \A q \in Plugins \ request'.partial : request'.full[q] = request'.served[q]
    BY <1>7, <1>9, <2>6
  <2>10. /\ full' => request'.partial = {}
         /\ ~full' /\ mem'.plugins # NoRecords =>
              \A q \in request'.partial : mem'.plugins[q] = request'.served[q] /\ mem'.plugins[q] # 0
    BY <1>8, <1>10, <2>6, <2>7
  <2> QED BY <2>5, <2>8, <2>9, <2>10 DEF AnswerOK
<1>12. RequestOK'
  BY <1>1, <1>2, <1>3, <1>11 DEF RequestOK, IsEmpty
<1>13. MemoryOK(mem)' /\ FileOK(file)' /\ History'
  BY <1>1, <1>2, MemoryStays, FileStays, ServerStays
<1> QED BY <1>12, <1>13 DEF Data

LEMMA InitData == Init => Data
<1> SUFFICES ASSUME Init PROVE Data
  OBVIOUS
<1>1. History
  <2>1. releases = <<>> /\ listed = {} /\ day = 2
    BY DEF Init
  <2>2. <<>> \in Seq([plugin : Plugins, day : Nat]) /\ 1 .. Len(<<>>) = {}
    OBVIOUS
  <2> QED BY <2>1, <2>2 DEF History
<1>2. NoRecords \in Known
  <2>1. releases = <<>> /\ 0 \in 0 .. Len(<<>>)
    BY DEF Init
  <2> QED BY <2>1 DEF NoRecords, Known
<1>3. MemoryOK(mem)
  <2>1. mem = [plugins |-> NoRecords, builtins |-> FALSE, latest |-> 0] /\ day = 2
    BY DEF Init
  <2> QED BY <1>2, <2>1 DEF MemoryOK, FreshSince
<1> QED BY <1>1, <1>3 DEF Init, Data, FileOK, RequestOK

LEMMA NextData ==
  ASSUME Data, [Next]_vars
  PROVE  Data'
<1>0. /\ History /\ MemoryOK(mem) /\ FileOK(file) /\ RequestOK
      /\ request.stage = "none" => request = NoRequest
  BY DEF Data, RequestOK, Unsent
<1>1. CASE OnUpdateTimer
  <2>1. UNCHANGED server /\ UNCHANGED file
    BY <1>1 DEF OnUpdateTimer, server
  <2>2. CASE updating
    BY <1>1, <2>2, StutterKeepsData DEF OnUpdateTimer
  <2>3. CASE ~updating
    <3>1. UpdateGadgetsMetadata(mem, FALSE, "none")
      BY <1>1, <2>3 DEF OnUpdateTimer
    <3> QED BY <1>0, <2>1, <3>1, AttemptKeepsData
  <2> QED BY <2>2, <2>3
<1>2. CASE ChecksumMismatch
  <2>1. /\ UpdateGadgetsMetadata(EnsureInitialized(mem), TRUE, timer)
        /\ UNCHANGED server /\ UNCHANGED file
    BY <1>2 DEF ChecksumMismatch, server
  <2> QED BY <1>0, <2>1, LoadedMemory, AttemptKeepsData
<1>3. CASE UpdateSucceeds
  BY <1>3, MergedData
<1>4. CASE ParsingFails
  BY <1>4, ParsingFailsKeepsData
<1>5. CASE RequestFails
  <2>1. mem' = mem /\ request' = NoRequest /\ UNCHANGED server /\ UNCHANGED file
    BY <1>5 DEF RequestFails, UpdateFailed, server
  <2> QED BY <1>0, <2>1, FailureKeepsData
<1>6. CASE FreeMemory
  <2> DEFINE m == [mem EXCEPT !.plugins = NoRecords, !.builtins = FALSE]
  <2>1. mem' = m /\ request' = NoRequest /\ UNCHANGED server /\ UNCHANGED file
    BY <1>0, <1>6 DEF FreeMemory, server
  <2>2. NoRecords \in Known
    <3>1. Len(releases) \in Nat
      BY <1>0 DEF History
    <3> QED BY <3>1 DEF NoRecords, Known
  <2>3. MemoryOK(m)
    BY <1>0, <2>2 DEF MemoryOK, FreshSince
  <2> HIDE DEF m
  <2> QED BY <1>0, <2>1, <2>3, FailureKeepsData
<1>7. CASE GetAllGadgetInfo
  <2>1. /\ mem' = EnsureInitialized(mem) /\ mem' # mem
        /\ UNCHANGED request /\ UNCHANGED server /\ UNCHANGED file
    BY <1>7 DEF GetAllGadgetInfo, server
  <2>2. ~(IsEmpty(mem) => file = Damaged)
    BY <2>1 DEF EnsureInitialized, LoadedFrom, Damaged
  <2>3. request = NoRequest
    BY <1>0, <2>2 DEF RequestOK
  <2> QED BY <1>0, <2>1, <2>3, LoadedMemory, FailureKeepsData
<1>8. CASE Restart
  <2> DEFINE m == [plugins |-> NoRecords, builtins |-> FALSE, latest |-> 0]
  <2>1. mem' = m /\ request' = NoRequest /\ UNCHANGED server /\ UNCHANGED file
    BY <1>8 DEF Restart, Started, server
  <2>2. NoRecords \in Known /\ 0 <= day
    <3>1. Len(releases) \in Nat /\ day \in Nat
      BY <1>0 DEF History
    <3> QED BY <3>1 DEF NoRecords, Known
  <2>3. MemoryOK(m)
    BY <2>2 DEF MemoryOK, FreshSince
  <2> HIDE DEF m
  <2> QED BY <1>0, <2>1, <2>3, FailureKeepsData
<1>9. CASE Flush
  BY <1>9, StutterKeepsData DEF Flush
<1>10. CASE ServerChanges
  BY <1>10, ServerChangesKeep
<1>11. CASE ServerAnswers
  BY <1>11, ServerAnswersKeepsData
<1>12. CASE ScheduleMetaDataUpdate
  BY <1>12, StutterKeepsData DEF ScheduleMetaDataUpdate
<1>13. CASE UNCHANGED vars
  BY <1>13, StutterKeepsData DEF vars
<1> QED BY <1>1, <1>2, <1>3, <1>4, <1>5, <1>6, <1>7, <1>8, <1>9, <1>10, <1>11,
           <1>12, <1>13 DEF Next

LEMMA DataInvariant == Spec => []Data
BY InitData, NextData, PTL DEF Spec

(* A plugin whose record is old is asked for again by the next differential *)
(* update, whatever was freed, read back or half parsed since               *)
(* (GetQueryDate, ParsePluginsXML, FreeMemory).                             *)
THEOREM NoGaps == Spec => []NoGap
<1>1. Data => NoGap
  <2> SUFFICES ASSUME Data, NEW m \in {EnsureInitialized(mem)}, NEW p \in Outdated(m)
               PROVE  DayOf(Newest(p)) > QueryDate(m, FALSE)
    BY DEF NoGap
  <2>1. History /\ MemoryOK(m)
    BY LoadedMemory DEF Data
  <2>2. /\ p \in listed /\ m.plugins[p] # Newest(p) /\ m.plugins # NoRecords
    BY <2>1 DEF Outdated, History, NoRecords
  <2>3. DayOf(Newest(p)) >= m.latest /\ m.latest \in Nat
    BY <2>1, <2>2 DEF MemoryOK, FreshSince
  <2>4. DayOf(Newest(p)) \in Nat /\ DayOf(Newest(p)) >= 2
    BY <2>1, <2>2, NewestIsMine, DayIsNat
  <2> QED BY <2>3, <2>4 DEF QueryDate
<1> QED BY <1>1, DataInvariant, PTL

(* An update that succeeds leaves exactly the records the server had when   *)
(* it answered (ParsePluginsXML, UpdateFromServer).                         *)
THEOREM MergesAreServed == Spec => MergedIsServed
<1>1. ASSUME Data, [Next]_vars
      PROVE  [UpdateSucceeds => mem'.plugins = request.served]_vars
  BY <1>1, MergedData
<1> QED BY <1>1, DataInvariant, PTL DEF Spec, MergedIsServed
=============================================================================
