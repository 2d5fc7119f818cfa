---------------------------- MODULE GadgetManager ----------------------------
(***************************************************************************)
(* The instance table of the Google gadget manager                         *)
(* (extensions/google_gadget_manager/google_gadget_manager.cc) and the     *)
(* host that loads and unloads the gadgets it announces (hosts/gtk,        *)
(* simple_gtk_host.cc).                                                    *)
(*                                                                         *)
(* Everything runs on the main loop's thread, but the host's handler of    *)
(* new_instance_signal_ may ask the user in a dialog that runs a nested    *)
(* main loop, so that other operations start and finish while a call is    *)
(* under way.  calls is the stack of those calls; only its top may go on.  *)
(*                                                                         *)
(* status[i] = 0 for every i >= size: the vector instance_statuses_ holds  *)
(* its first size elements.  The options inst_status.i are written with    *)
(* every write of instance_statuses_[i] and are not kept apart from it.    *)
(***************************************************************************)
EXTENDS Integers, Sequences

CONSTANTS Gadgets,       \* the gadget ids
          Local,         \* those that are file locations or system names
          Unsupported,   \* those whose module id InitInstanceOptions rejects
          NoGadget,      \* an option or an options file without a gadget id
          MaxInstances,  \* kMaxNumGadgetInstances (128)
          Threshold,     \* kExpirationThreshold (64)
          MaxCalls,      \* bound on nested calls
          Restarts       \* whether the program may end and start again

ASSUME ConstantsAssumption ==
  /\ Local \subseteq Gadgets
  /\ Unsupported \subseteq Gadgets
  /\ NoGadget \notin Gadgets
  /\ MaxInstances \in Nat \ {0}
  /\ Threshold \in Nat /\ Threshold > 2
  /\ MaxCalls \in Nat
  /\ Restarts \in BOOLEAN

VARIABLES
  status,    \* instance_statuses_[i] and the option inst_status.i
  size,      \* instance_statuses_.size()
  gid,       \* the options inst_gadget_id.i
  maxId,     \* the option max_inst_id
  active,    \* active_gadgets_
  owner,     \* the gadget_id in the options file gadget-i
  files,     \* gadgets with a file in profile://downloaded_gadgets
  loaded,    \* the host's gadgets_: instances with a live Gadget object
  calls,     \* calls waiting for a handler or in the middle of a loop
  saved      \* the manager's options as last flushed to disk

vars == <<status, size, gid, maxId, active, owner, files, loaded, calls, saved>>

Ids == 0 .. MaxInstances - 1
None == 0
Active == 1
InactiveStart == 2
GadgetOrNone == Gadgets \cup {NoGadget}

(* new, reuse: NewGadgetInstance waits for the handler of instance id.     *)
(* load, renew: so do the host's start-up loop and UpdateGadgetInstances.  *)
(* enum, update: those loops are at index id of the n they counted.        *)
Handlers == {"new", "reuse", "load", "renew"}
Call == [kind : Handlers, id : Ids, n : {0}, g : GadgetOrNone]
        \cup [kind : {"enum", "update"}, id : 0 .. MaxInstances,
              n : 0 .. MaxInstances, g : GadgetOrNone]

Top == calls[Len(calls)]
Return == SubSeq(calls, 1, Len(calls) - 1)

(* The main loop runs, on its own or inside a handler's dialog. *)
LoopRuns == calls # <<>> => Top.kind \in Handlers

NewCall(kind, i, n, g) == [kind |-> kind, id |-> i, n |-> n, g |-> g]

IsActive(i) == status[i] = Active
IsInactive(i) == status[i] >= InactiveStart

-----------------------------------------------------------------------------
(* The parts the operations are made of. *)

(* TrimInstanceStatuses of statuses st in an array of n: the new size.  An  *)
(* array of empty slots only is left alone.                                 *)
TrimmedSize(st, n) ==
  LET LastUsed(m) == st[m - 1] # None /\ \A k \in m .. n - 1 : st[k] = None
  IN  IF \E m \in 1 .. n : LastUsed(m)
      THEN CHOOSE m \in 1 .. n : LastUsed(m)
      ELSE n

Trim(st) ==
  /\ size' = TrimmedSize(st, size)
  /\ maxId' = IF size' < size THEN size' ELSE maxId

(* IncreseAndCheckExpirationScores: the instances that expire, the others'  *)
(* new scores.                                                              *)
Expiring == {i \in Ids : IsInactive(i) /\ status[i] >= Threshold - 1}

AgedMutant == [i \in Ids |-> IF IsInactive(i) /\ i \notin Expiring
                             THEN status[i] + 1 ELSE status[i]]
Aged == [i \in Ids |-> IF i \in Expiring THEN None
                       ELSE IF IsInactive(i) THEN status[i] + 1
                       ELSE status[i]]

IsLastInstanceMutant(i) == TRUE
IsLastInstance(i) ==
  ~ \E j \in Ids \ {i} : IsActive(j) /\ gid[j] = gid[i]

(* ActuallyRemoveInstance of the instances in gone: the options file and    *)
(* the gadget id go, and for an expired one the downloaded file.            *)
ActuallyRemoveMutant(gone) ==
  /\ gid' = [j \in Ids |-> IF j \in gone THEN NoGadget ELSE gid[j]]
  /\ files' = files \ ({gid[j] : j \in Expiring} \ Local)
  /\ UNCHANGED owner
ActuallyRemove(gone) ==
  /\ gid' = [j \in Ids |-> IF j \in gone THEN NoGadget ELSE gid[j]]
  /\ owner' = [j \in Ids |-> IF j \in gone THEN NoGadget ELSE owner[j]]
  /\ files' = files \ ({gid[j] : j \in Expiring} \ Local)

(* RemoveGadgetInstanceInternal(i) of an active instance: all inactive      *)
(* instances age; the last instance of a gadget becomes inactive, another   *)
(* one is actually removed; the host drops its gadget.                      *)
RemoveInternal(i) ==
  LET last == IsLastInstance(i)
      st   == [Aged EXCEPT ![i] = IF last THEN InactiveStart ELSE None]
      gone == Expiring \cup (IF last THEN {} ELSE {i})
  IN  /\ status' = st
      /\ Trim(st)
      /\ ActuallyRemove(gone)
      /\ active' = IF last THEN active \ {gid[i]} ELSE active
      /\ loaded' = loaded \ {i}
      /\ UNCHANGED saved

(* InitInstanceOptions: the file is kept if it belongs to the gadget,       *)
(* otherwise written anew, or deleted again if the module id is unknown.    *)
InitInstanceOptions(g, i, ok) ==
  /\ ok \/ (g \in Unsupported /\ owner[i] # g)
  /\ owner' = [owner EXCEPT ![i] = IF ok THEN g ELSE NoGadget]

CanReuse(g, i) ==
  LET Match(k) == IsInactive(k) /\ gid[k] = g
  IN  Match(i) /\ \A j \in Ids : j < i => ~Match(j)

NoneToReuseMutant(g) == TRUE
NoneToReuse(g) == \A i \in Ids : ~(IsInactive(i) /\ gid[i] = g)

(* GetNewInstanceId returns i: the lowest empty slot, or one slot more. *)
FreeSlot(i) ==
  /\ \A j \in Ids : j < i => status[j] # None
  /\ \/ i < size /\ status[i] = None
     \/ i = size /\ size < MaxInstances

GrowMutant(i) ==
  IF i = size
  THEN size' = size + 1 /\ maxId' = size - 1
  ELSE UNCHANGED <<size, maxId>>
Grow(i) ==
  IF i = size
  THEN size' = size + 1 /\ maxId' = size
  ELSE UNCHANGED <<size, maxId>>

-----------------------------------------------------------------------------
Init ==
  /\ status = [i \in Ids |-> None]
  /\ size = 0
  /\ gid = [i \in Ids |-> NoGadget]
  /\ maxId = -1
  /\ active = {}
  /\ owner = [i \in Ids |-> NoGadget]
  /\ files = {}
  /\ loaded = {}
  /\ calls = <<>>
  /\ saved = [status |-> status, gid |-> gid, maxId |-> maxId]

(* NewGadgetInstance(g) finds an inactive instance of g.  It is active      *)
(* before its options are initialised; when that fails it stays active.     *)
Reuse(g, i, ok) ==
  /\ LoopRuns
  /\ Len(calls) < MaxCalls
  /\ CanReuse(g, i)
  /\ InitInstanceOptions(g, i, ok)
  /\ status' = [status EXCEPT ![i] = Active]
  /\ active' = active \cup {g}
  /\ calls' = IF ok THEN Append(calls, NewCall("reuse", i, 0, g)) ELSE calls
  /\ UNCHANGED <<size, gid, maxId, files, loaded, saved>>

(* NewGadgetInstance(g) makes a pure new instance. *)
Create(g, i, ok) ==
  /\ LoopRuns
  /\ Len(calls) < MaxCalls
  /\ NoneToReuse(g)
  /\ FreeSlot(i)
  /\ Grow(i)
  /\ InitInstanceOptions(g, i, ok)
  /\ IF ok
     THEN /\ status' = [status EXCEPT ![i] = Active]
          /\ gid' = [gid EXCEPT ![i] = g]
          /\ active' = active \cup {g}
          /\ calls' = Append(calls, NewCall("new", i, 0, g))
     ELSE UNCHANGED <<status, gid, active, calls>>
  /\ UNCHANGED <<files, loaded, saved>>

(* The handler loads the gadget and returns true: LoadGadget keeps one that *)
(* is loaded already.                                                       *)
Accept ==
  /\ calls # <<>>
  /\ Top.kind \in Handlers
  /\ loaded' = loaded \cup {Top.id}
  /\ calls' = Return
  /\ UNCHANGED <<status, size, gid, maxId, active, owner, files, saved>>

(* The handler returns false.  NewGadgetInstance and the host's start-up    *)
(* loop then remove the instance if it is active; NewGadgetInstance trims   *)
(* the array once more if it had made the slot.                             *)
VetoMutant ==
  /\ calls # <<>>
  /\ Top.kind \in Handlers \ {"renew"}
  /\ calls' = Return
  /\ UNCHANGED <<status, size, gid, maxId, active, owner, files, loaded, saved>>
Veto ==
  /\ calls # <<>>
  /\ Top.kind \in Handlers \ {"renew"}
  /\ calls' = Return
  /\ IF IsActive(Top.id)
     THEN RemoveInternal(Top.id)
     ELSE /\ IF Top.kind = "new" THEN Trim(status) ELSE UNCHANGED <<size, maxId>>
          /\ UNCHANGED <<status, gid, active, owner, files, loaded, saved>>

(* UpdateGadgetInstances ignores what new_instance_signal_ returns. *)
VetoIgnored ==
  /\ calls # <<>>
  /\ Top.kind = "renew"
  /\ calls' = Return
  /\ UNCHANGED <<status, size, gid, maxId, active, owner, files, loaded, saved>>

(* The user or the gadget removes a loaded gadget: Gadget::RemoveMe, then   *)
(* HostInterface::RemoveGadget from a zero timer.  The options are deleted  *)
(* at once if they are not to be saved, and the timer's call may be         *)
(* dropped (IsSafeToRemove), so the two are separate steps.                 *)
DiscardOptions(i) ==
  /\ LoopRuns
  /\ i \in loaded
  /\ owner[i] # NoGadget
  /\ owner' = [owner EXCEPT ![i] = NoGadget]
  /\ UNCHANGED <<status, size, gid, maxId, active, files, loaded, calls, saved>>

RemoveGadgetMutant(i) ==
  /\ LoopRuns
  /\ IsActive(i)
  /\ RemoveInternal(i)
  /\ UNCHANGED calls

RemoveGadget(i) ==
  /\ LoopRuns
  /\ i \in loaded
  /\ IsActive(i)
  /\ RemoveInternal(i)
  /\ UNCHANGED calls

(* SaveGadget of a downloaded file that was written: the running instances  *)
(* of the gadget are reloaded one by one.                                   *)
SaveGadget(g) ==
  /\ LoopRuns
  /\ g \notin Local
  /\ Len(calls) + 1 < MaxCalls
  /\ files' = files \cup {g}
  /\ calls' = Append(calls, NewCall("update", 0, size, g))
  /\ UNCHANGED <<status, size, gid, maxId, active, owner, loaded, saved>>

(* UpdateGadgetInstances at index id of its loop: no host connects          *)
(* update_instance_signal_, so a match is removed from the host and         *)
(* announced again.                                                         *)
UpdateNext ==
  /\ calls # <<>>
  /\ Top.kind = "update"
  /\ LET i == Top.id
         on == [calls EXCEPT ![Len(calls)].id = i + 1]
     IN  IF i >= Top.n
         THEN calls' = Return /\ UNCHANGED loaded
         ELSE IF IsActive(i) /\ gid[i] = Top.g
         THEN /\ calls' = Append(on, NewCall("renew", i, 0, Top.g))
              /\ loaded' = loaded \ {i}
         ELSE calls' = on /\ UNCHANGED loaded
  /\ UNCHANGED <<status, size, gid, maxId, active, owner, files, saved>>

(* DefaultOptions writes its file from a timer. *)
Flush ==
  /\ LoopRuns
  /\ Restarts
  /\ saved' = [status |-> status, gid |-> gid, maxId |-> maxId]
  /\ saved' # saved
  /\ UNCHANGED <<status, size, gid, maxId, active, owner, files, loaded, calls>>

(* The array the options describe after a start. *)
StoredSizeMutant == IF saved.maxId >= MaxInstances THEN MaxInstances ELSE saved.maxId
StoredSize == IF saved.maxId >= MaxInstances THEN MaxInstances ELSE saved.maxId + 1

ActiveIn(st, id) == {id[i] : i \in {j \in Ids : st[j] = Active}}

ReloadedActiveMutant(st) == {saved.gid[i] : i \in {j \in Ids : st[j] # None}}
ReloadedActive(st) == ActiveIn(st, saved.gid)

(* The program ends, at any point, and starts again: Init reads the options *)
(* back and the host starts to enumerate the active instances.              *)
Restart ==
  LET n  == StoredSize
      st == [i \in Ids |-> IF i < n THEN saved.status[i] ELSE None]
  IN  /\ Restarts
      /\ status' = st
      /\ size' = TrimmedSize(st, n)
      /\ maxId' = IF size' < n THEN size' ELSE saved.maxId
      /\ gid' = saved.gid
      /\ active' = ReloadedActive(st)
      /\ loaded' = {}
      /\ calls' = <<NewCall("enum", 0, size', NoGadget)>>
      /\ UNCHANGED <<owner, files, saved>>

(* EnumerateGadgetInstances at index id: the host loads active instances;   *)
(* one that a nested call has loaded in the meantime asks nothing and stays.*)
EnumNext ==
  /\ calls # <<>>
  /\ Top.kind = "enum"
  /\ LET i == Top.id
         on == [calls EXCEPT ![Len(calls)].id = i + 1]
     IN  IF i >= Top.n
         THEN calls' = Return
         ELSE calls' = IF IsActive(i) /\ i \notin loaded
                       THEN Append(on, NewCall("load", i, 0, gid[i]))
                       ELSE on
  /\ UNCHANGED <<status, size, gid, maxId, active, owner, files, loaded, saved>>

NewGadgetInstance ==
  \E g \in Gadgets, i \in Ids, ok \in BOOLEAN : Reuse(g, i, ok) \/ Create(g, i, ok)

Next ==
  \/ NewGadgetInstance
  \/ Accept
  \/ Veto
  \/ VetoIgnored
  \/ \E i \in Ids : DiscardOptions(i) \/ RemoveGadget(i)
  \/ \E g \in Gadgets : SaveGadget(g)
  \/ UpdateNext
  \/ Flush
  \/ Restart
  \/ EnumNext

Spec == Init /\ [][Next]_vars

-----------------------------------------------------------------------------
(* Every variable keeps its type; elements past the end of the array are    *)
(* empty, and the stored maximum id covers every slot of the array.         *)
TypeOK ==
  /\ status \in [Ids -> 0 .. Threshold - 1]
  /\ size \in 0 .. MaxInstances
  /\ gid \in [Ids -> GadgetOrNone]
  /\ maxId \in -1 .. MaxInstances
  /\ active \subseteq Gadgets
  /\ owner \in [Ids -> GadgetOrNone]
  /\ files \subseteq Gadgets
  /\ loaded \subseteq Ids
  /\ calls \in Seq(Call)
  /\ saved \in [status : [Ids -> 0 .. Threshold - 1],
                gid : [Ids -> GadgetOrNone], maxId : -1 .. MaxInstances]

(* When the last instance of a gadget is removed it becomes inactive and is *)
(* reused by the next one (google_gadget_manager.h:175-178): a gadget with  *)
(* an inactive instance has no other instance at all.  The reuse, the       *)
(* last-instance test, expiry and a handler's late veto all bear on it.     *)
InactiveIsOnly ==
  \A i, j \in Ids :
    IsInactive(i) /\ status[j] # None /\ gid[j] = gid[i] => i = j

(* active_gadgets_, which GadgetHasInstance answers from, is the set of     *)
(* gadgets with an active instance, although it is kept apart from the      *)
(* instance table.                                                          *)
ActiveSetExact ==
  active = ActiveIn(status, gid)

(* What a restart would read back has every instance in it: no slot in use  *)
(* lies past the stored maximum id, now or in the flushed options.          *)
MaxIdCovers ==
  /\ \A i \in Ids : status[i] # None => i < size
  /\ size <= maxId + 1
  /\ \A i \in Ids : saved.status[i] # None => i <= saved.maxId

(* An instance has a gadget id exactly if its slot is used.  A slot that    *)
(* kept the id of the gadget before would be found by a later search.       *)
IdsMatchStatus == \A i \in Ids : (status[i] # None) <=> (gid[i] # NoGadget)

(* Removing, expiring or replacing an instance never takes the downloaded   *)
(* file of a gadget that has active instances before and after.             *)
FilesOfActiveKept ==
  [][\A g \in files \cap active : g \in active' => g \in files']_vars

(* As long as nothing is lost in a crash, the options file of an instance   *)
(* is its gadget's own or deleted, never another gadget's.                  *)
OptionsFileOwned ==
  \A i \in Ids : owner[i] \in {gid[i], NoGadget}

(* NewGadgetInstance acts after the handler's answer on the instance it     *)
(* made: it is still active, of the same gadget, and not yet loaded, so     *)
(* that a veto removes this instance and no other.                          *)
PendingIsOwn ==
  \A k \in 1 .. Len(calls) :
    calls[k].kind \in {"new", "reuse"} =>
      /\ IsActive(calls[k].id)
      /\ gid[calls[k].id] = calls[k].g
      /\ calls[k].id \notin loaded
      /\ \A m \in 1 .. Len(calls) :
           calls[m].kind \in {"new", "reuse"} /\ calls[m].id = calls[k].id => m = k

(* The host's gadgets are those of active instances, and each active one is *)
(* loaded or a call is under way that will load it: the handler can cancel  *)
(* the action (gadget_manager_interface.h, ConnectOnNewGadgetInstance).     *)
ActiveIsLoaded ==
  /\ \A i \in loaded : IsActive(i)
  /\ calls = <<>> => \A i \in Ids : IsActive(i) => i \in loaded

-----------------------------------------------------------------------------
(* The promise of GadgetRegistry: slots, scores and files are hidden. *)
Live(st, id) == [i \in Ids |-> IF st[i] = Active THEN id[i] ELSE NoGadget]
Kept(st, id) == {id[i] : i \in {j \in Ids : st[j] >= InactiveStart}}

Registry == INSTANCE GadgetRegistry WITH
  Nothing <- NoGadget,
  running <- Live(status, gid),
  kept    <- Kept(status, gid),
  disk    <- [running |-> Live(saved.status, saved.gid),
              kept |-> Kept(saved.status, saved.gid)]

ImplementsRegistry == Registry!RegistrySpec
=============================================================================
