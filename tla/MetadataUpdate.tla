---------------------------- MODULE MetadataUpdate ----------------------------
(***************************************************************************)
(* The catalogue of gadgets and its updates: GadgetsMetadata               *)
(* (extensions/google_gadget_manager/gadgets_metadata.cc) with the part of *)
(* GoogleGadgetManager that schedules, retries and records the updates     *)
(* (google_gadget_manager.cc).                                             *)
(*                                                                         *)
(* An update asks the server for what changed since one day before the     *)
(* latest record the client has.  The server lists every plugin it has:    *)
(* those changed since that day with a full record, the others with a      *)
(* partial one, for which the client keeps the record it has.  Records are *)
(* cached in a file, and freed from memory now and then.  What the manager *)
(* knows about its attempts is kept in the global options, which reach the *)
(* disk later.                                                             *)
(*                                                                         *)
(* A record is the number of a release, 0 where there is none.  Dates are  *)
(* days.  Times of day are left out: a timer is known by what it waits for.*)
(***************************************************************************)
EXTENDS Integers, Sequences, FiniteSets

CONSTANTS Plugins,      \* what the server may list
          MaxReleases,  \* bound on the releases
          MaxDay,       \* bound on the days
          RetryBase,    \* kGadgetsMetadataRetryInterval
          RetryMax,     \* kGadgetsMetadataRetryMaxInterval
          MaxStarts     \* bound on the starts of the program

ASSUME MetadataAssumption ==
  /\ Plugins # {}
  /\ MaxReleases \in Nat /\ MaxDay \in Nat /\ MaxStarts \in Nat
  /\ RetryBase \in Nat /\ RetryBase >= 5
  /\ RetryMax \in Nat /\ RetryMax >= 2 * RetryBase

VARIABLES
  releases,  \* the server's history
  listed,    \* the plugins it lists now
  day,       \* the day
  mem,       \* plugins_ and latest_plugin_time_
  file,      \* plugins.xml
  opt,       \* the options of the updates: in memory ...
  disk,      \* ... and as last flushed
  retry,     \* retry_timeout_
  timer,     \* what update_timer_ waits for
  updating,  \* updating_metadata_
  full,      \* full_download_, of both classes
  request,   \* request_
  starts     \* the number of starts

server == <<releases, listed, day>>
vars == <<releases, listed, day, mem, file, opt, disk, retry, timer,
          updating, full, request, starts>>

Records == [Plugins -> 0 .. MaxReleases]
NoRecords == [p \in Plugins |-> 0]
NoRequest == [stage |-> "none"]
Unsent == [stage |-> "unsent"]
NoFile == [state |-> "absent"]
Damaged == [state |-> "damaged"]

DayOf(r) == IF r = 0 THEN 0 ELSE releases[r].day
LatestOf(records) ==
  LET days == {DayOf(records[p]) : p \in Plugins}
  IN CHOOSE d \in days : \A e \in days : e <= d
Newest(p) ==
  LET mine == {r \in 1 .. Len(releases) : releases[r].plugin = p}
  IN IF mine = {} THEN 0 ELSE CHOOSE r \in mine : \A s \in mine : s <= r
Catalogue == [p \in Plugins |-> IF p \in listed THEN Newest(p) ELSE 0]

-----------------------------------------------------------------------------
(* The catalogue in memory. *)

IsEmpty(m) == m.plugins = NoRecords /\ ~m.builtins

(* Init of GadgetsMetadata: a cached file that does not parse leaves        *)
(* everything as it is, the built-in gadgets unloaded.                      *)
LoadedFrom(f, m) ==
  CASE f.state = "absent"  -> [m EXCEPT !.builtins = TRUE]
    [] f.state = "damaged" -> m
    [] f.state = "saved"   -> [plugins |-> f.plugins, builtins |-> TRUE,
                               latest |-> LatestOf(f.plugins)]
EnsureInitialized(m) == IF IsEmpty(m) THEN LoadedFrom(file, m) ELSE m

(* GetQueryDate; day 0 stands for kDefaultQueryDate. *)
QueryDateMutant(m, isFull) == IF ~isFull /\ m.latest > 1 THEN m.latest ELSE 0
QueryDate(m, isFull) == IF ~isFull /\ m.latest > 1 THEN m.latest - 1 ELSE 0

(* The answer of the server, which takes the day of the query exclusive. *)
Answer(query) ==
  [stage   |-> "answered",
   full    |-> [p \in Plugins |->
                  IF DayOf(Catalogue[p]) > query THEN Catalogue[p] ELSE 0],
   partial |-> {p \in listed : DayOf(Catalogue[p]) <= query},
   served  |-> Catalogue]

(* ParsePluginsXML.  Partial records need one to complete, which a full     *)
(* update does not have.  The latest day is counted before that is known.   *)
ParsedInto == IF full THEN mem ELSE EnsureInitialized(mem)
Parses(m, a) == \A p \in a.partial : ~full /\ m.plugins[p] # 0
MergedMutant(m, a) ==
  [plugins  |-> [p \in Plugins |-> IF a.full[p] # 0 THEN a.full[p] ELSE m.plugins[p]],
   builtins |-> TRUE, latest |-> LatestOf(a.full)]
Merged(m, a) ==
  [plugins  |-> [p \in Plugins |-> IF p \in a.partial THEN m.plugins[p] ELSE a.full[p]],
   builtins |-> TRUE, latest |-> LatestOf(a.full)]
HalfParsed(m, a) ==
  {[m EXCEPT !.latest = d] : d \in {0} \cup {DayOf(a.full[p]) : p \in Plugins}}

-----------------------------------------------------------------------------
(* The schedule of the manager. *)

(* Randomize: give or take 20%. *)
Randomize(x) == LET variant == (x * 20) \div 100 IN (x - variant) .. (x + variant - 1)

(* ScheduleNextUpdate, with a timeout r of an update that failed. *)
ScheduleRetryMutant(r) == retry' = r /\ timer' = "retry"
ScheduleRetry(r) ==
  /\ retry' \in IF r \in 1 .. RetryMax THEN {r} ELSE Randomize(RetryBase)
  /\ timer' = "retry"

(* OnUpdateDone, when the update failed for good. *)
Doubled == IF 2 * retry < RetryMax THEN 2 * retry ELSE RetryMax
UpdateFailedMutant ==
  /\ updating' = FALSE /\ request' = NoRequest /\ UNCHANGED timer
  /\ \E r \in IF retry = 0 THEN {RetryBase} ELSE Randomize(Doubled) :
       opt' = [opt EXCEPT !.try = TRUE, !.retry = r] /\ retry' = r
UpdateFailed ==
  /\ updating' = FALSE /\ request' = NoRequest
  /\ \E r \in IF retry = 0 THEN {RetryBase} ELSE Randomize(Doubled) :
       /\ opt' = [opt EXCEPT !.try = TRUE, !.retry = r]
       /\ ScheduleRetry(r)

(* UpdateGadgetsMetadata, UpdateFromServer: the request is sent, or refused *)
(* by its backoff, which ends it at once, or it cannot be opened or started *)
(* and stays in request_, but never calls back.  t is what the timer waits  *)
(* for meanwhile.                                                           *)
UpdateGadgetsMetadata(m, isFull, t) ==
  LET initialized == EnsureInitialized(m)
  IN /\ mem' = initialized /\ full' = isFull
     /\ \/ /\ request' = [stage |-> "sent", query |-> QueryDate(initialized, isFull)]
           /\ updating' = TRUE /\ timer' = t
           /\ opt' = [opt EXCEPT !.try = TRUE] /\ UNCHANGED retry
        \/ UpdateFailed
        \/ /\ updating' = TRUE /\ request' = Unsent /\ timer' = t
           /\ opt' = [opt EXCEPT !.try = TRUE] /\ UNCHANGED retry

OnUpdateTimer ==
  /\ timer # "none"
  /\ IF updating
     THEN timer' = "none" /\ UNCHANGED <<mem, full, request, updating, opt, retry>>
     ELSE UpdateGadgetsMetadata(mem, FALSE, "none")
  /\ UNCHANGED <<releases, listed, day, file, disk, starts>>

(* The gadget browser asks for an update at once. *)
ScheduleMetaDataUpdate ==
  /\ timer' = "now"
  /\ UNCHANGED <<releases, listed, day, mem, file, opt, disk, retry, updating,
                 full, request, starts>>

(* SaveGadget finds that a download does not have the listed checksum. *)
ChecksumMismatch ==
  /\ ~updating
  /\ UpdateGadgetsMetadata(EnsureInitialized(mem), TRUE, timer)
  /\ UNCHANGED <<releases, listed, day, file, disk, starts>>

(* OnRequestReadyStateChange, OnUpdateDone. *)
SavePluginsXMLFile(records) ==
  file' \in {[state |-> "saved", plugins |-> records], Damaged}
UpdateSucceedsMutant ==
  /\ request.stage = "answered" /\ Parses(ParsedInto, request)
  /\ mem' = Merged(ParsedInto, request)
  /\ SavePluginsXMLFile(mem'.plugins)
  /\ request' = NoRequest /\ updating' = FALSE
  /\ opt' = [opt EXCEPT !.retry = 0]
  /\ retry' = 0 /\ timer' = "week"
  /\ UNCHANGED <<releases, listed, day, disk, full, starts>>
UpdateSucceeds ==
  /\ request.stage = "answered" /\ Parses(ParsedInto, request)
  /\ mem' = Merged(ParsedInto, request)
  /\ SavePluginsXMLFile(mem'.plugins)
  /\ request' = NoRequest /\ updating' = FALSE
  /\ opt' = [opt EXCEPT !.try = FALSE, !.retry = 0]
  /\ retry' = 0 /\ timer' = "week"
  /\ UNCHANGED <<releases, listed, day, disk, full, starts>>

(* The answer is no XML, or lists a plugin the client cannot complete. *)
ParsingFails ==
  /\ request.stage = "answered"
  /\ \E m \in {ParsedInto} \cup
               IF Parses(ParsedInto, request) THEN {} ELSE HalfParsed(ParsedInto, request) :
       IF full
       THEN mem' = m /\ UpdateFailed /\ UNCHANGED full
       ELSE UpdateGadgetsMetadata(m, TRUE, timer)
  /\ UNCHANGED <<releases, listed, day, file, disk, starts>>

RequestFails ==
  /\ request.stage \in {"sent", "answered"}
  /\ UpdateFailed
  /\ UNCHANGED <<releases, listed, day, mem, file, disk, full, starts>>

(* OnFreeMemoryTimer, while the gadget browser is closed and no request is  *)
(* kept.                                                                    *)
FreeMemory ==
  /\ request.stage = "none" /\ ~IsEmpty(mem)
  /\ mem' = [mem EXCEPT !.plugins = NoRecords, !.builtins = FALSE]
  /\ UNCHANGED <<releases, listed, day, file, opt, disk, retry, timer, updating,
                 full, request, starts>>

(* GetAllGadgetInfo, GetGadgetInfo. *)
GetAllGadgetInfo ==
  /\ mem' = EnsureInitialized(mem) /\ mem' # mem
  /\ UNCHANGED <<releases, listed, day, file, opt, disk, retry, timer, updating,
                 full, request, starts>>

-----------------------------------------------------------------------------
(* The program: it starts, flushes its options and ends at any moment.      *)

(* Init of the manager, on the options read back. *)
Started(o) ==
  /\ mem' = [plugins |-> NoRecords, builtins |-> FALSE, latest |-> 0]
  /\ opt' = [o EXCEPT !.ran = TRUE]
  /\ updating' = FALSE /\ full' = FALSE /\ request' = NoRequest
  /\ IF o.ran /\ o.try THEN ScheduleRetry(o.retry)
     ELSE retry' = 0 /\ timer' = IF o.ran THEN "week" ELSE "now"
Restart ==
  /\ starts < MaxStarts /\ starts' = starts + 1
  /\ Started(disk)
  /\ UNCHANGED <<releases, listed, day, file, disk>>
Flush ==
  /\ disk # opt /\ disk' = opt
  /\ UNCHANGED <<releases, listed, day, mem, file, opt, retry, timer, updating,
                 full, request, starts>>

-----------------------------------------------------------------------------
(* The server. *)
Publish(p) ==
  /\ Len(releases) < MaxReleases
  /\ releases' = Append(releases, [plugin |-> p, day |-> day])
  /\ listed' = listed \cup {p} /\ UNCHANGED day
Withdraw(p) == p \in listed /\ listed' = listed \ {p} /\ UNCHANGED <<releases, day>>
NextDay == day < MaxDay /\ day' = day + 1 /\ UNCHANGED <<releases, listed>>
ServerChanges ==
  /\ NextDay \/ \E p \in Plugins : Publish(p) \/ Withdraw(p)
  /\ UNCHANGED <<mem, file, opt, disk, retry, timer, updating, full, request, starts>>
ServerAnswers ==
  /\ request.stage = "sent" /\ request' = Answer(request.query)
  /\ UNCHANGED <<releases, listed, day, mem, file, opt, disk, retry, timer, updating,
                 full, starts>>

Init ==
  /\ releases = <<>> /\ listed = {} /\ day = 2
  /\ mem = [plugins |-> NoRecords, builtins |-> FALSE, latest |-> 0]
  /\ file = NoFile
  /\ disk = [try |-> FALSE, retry |-> 0, ran |-> FALSE]
  /\ opt = [try |-> FALSE, retry |-> 0, ran |-> TRUE]
  /\ retry = 0 /\ timer = "now"
  /\ updating = FALSE /\ full = FALSE /\ request = NoRequest
  /\ starts = 1

Next ==
  \/ OnUpdateTimer \/ ScheduleMetaDataUpdate \/ ChecksumMismatch
  \/ UpdateSucceeds \/ ParsingFails \/ RequestFails
  \/ FreeMemory \/ GetAllGadgetInfo
  \/ Restart \/ Flush
  \/ ServerChanges \/ ServerAnswers
Spec == Init /\ [][Next]_vars

(* The main loop fires the timer.  Time and again the backoff lets a        *)
(* request through, the server answers, and the answer is well-formed.      *)
FairSpec ==
  /\ Spec /\ WF_vars(OnUpdateTimer) /\ SF_vars(ServerAnswers)
  /\ SF_vars(OnUpdateTimer /\ request'.stage = "sent")
  /\ SF_vars(UpdateSucceeds)

-----------------------------------------------------------------------------
Timeouts == 0 .. 2 * RetryMax
TypeOK ==
  /\ releases \in Seq([plugin : Plugins, day : Nat]) /\ listed \subseteq Plugins
  /\ day \in 2 .. MaxDay
  /\ mem \in [plugins : Records, builtins : BOOLEAN, latest : 0 .. MaxDay]
  /\ file \in {NoFile, Damaged} \cup [state : {"saved"}, plugins : Records]
  /\ opt \in [try : BOOLEAN, retry : Timeouts, ran : BOOLEAN] /\ opt.ran
  /\ disk \in [try : BOOLEAN, retry : Timeouts, ran : BOOLEAN]
  /\ retry \in 0 .. RetryMax /\ timer \in {"none", "now", "retry", "week"}
  /\ updating \in BOOLEAN /\ full \in BOOLEAN
  /\ request.stage \in {"none", "unsent", "sent", "answered"} /\ starts \in 1 .. MaxStarts

(* An update by differences leaves exactly the records the server had when  *)
(* it answered: "to ensure there is no gap between the current data and the *)
(* returned incremental data" (gadgets_metadata.cc:358-359).                    *)
MergedIsServed == [][UpdateSucceeds => mem'.plugins = request.served]_vars

(* A plugin for which the client has an old record is asked for again: its  *)
(* newest release is after the day the next query will name.  Whatever is   *)
(* freed, read back from the file or half parsed in between.                *)
Outdated(m) == {p \in listed : m.plugins[p] \notin {0, Newest(p)}}
NoGap ==
  \A m \in {EnsureInitialized(mem)} :
     \A p \in Outdated(m) : DayOf(Newest(p)) > QueryDate(m, FALSE)

(* A request that could be neither opened nor started never calls back:     *)
(* updating_metadata_ stays set, and nothing arms the timer again, until    *)
(* the program is started anew.                                             *)
Lost == request.stage = "unsent"

(* But for such a request, there is always a timer that will start the next *)
(* update, or a request under way whose end will arm it.                    *)
Awaited == ~Lost => timer # "none" \/ request.stage \in {"sent", "answered"}

(* A retry waits at least for the base interval less 20%, never longer than *)
(* the maximum, also with what was stored by an earlier run.                *)
ShortestRetry == RetryBase - (RetryBase * 20) \div 100
RetryBounded == timer = "retry" => retry \in ShortestRetry .. RetryMax

(* The options tell an attempt that did not succeed yet from one that did:  *)
(* after a restart the former is retried, not put off for a week.  An       *)
(* attempt that failed is retried later, or at once if the gadget browser   *)
(* asks for that.                                                           *)
AttemptRemembered ==
  /\ updating \/ timer = "retry" => opt.try
  /\ opt.try => updating \/ timer \in {"retry", "now"}

(* If the server goes on answering, its news reach the client, unless a     *)
(* request that never calls back is waited for.                             *)
NewsArrive == <>[](mem.plugins \in {NoRecords, Catalogue}) \/ <>[]Lost
=============================================================================
