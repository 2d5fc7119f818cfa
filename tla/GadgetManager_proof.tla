------------------------ MODULE GadgetManager_proof ------------------------
(* The instance table is consistent for any gadgets, any number of slots,  *)
(* any expiration threshold and any depth of nested calls; and what holds  *)
(* between the manager and the host that loads its gadgets.                *)
EXTENDS GadgetManager, SequenceTheorems, TLAPS

-----------------------------------------------------------------------------
(* A table of statuses st with gadget ids id: used slots have an id, an     *)
(* inactive instance is the only one of its gadget.                         *)
TableOK(st, id) ==
  /\ \A i \in Ids : (st[i] # None) <=> (id[i] # NoGadget)
  /\ \A i, j \in Ids :
       st[i] >= InactiveStart /\ st[j] # None /\ id[j] = id[i] => i = j

(* The inductive invariant: the flushed options hold such a table too, which *)
(* a restart makes the current one.                                          *)
IInv ==
  /\ TypeOK
  /\ TableOK(status, gid)
  /\ TableOK(saved.status, saved.gid)
  /\ ActiveSetExact
  /\ MaxIdCovers

-----------------------------------------------------------------------------
(* TrimInstanceStatuses keeps every used slot of an array that held them.   *)
LEMMA TrimmedSizeKeeps ==
  ASSUME NEW n \in 0 .. MaxInstances,
         NEW st \in [Ids -> 0 .. Threshold - 1],
         \A i \in Ids : st[i] # None => i < n
  PROVE  /\ TrimmedSize(st, n) \in 0 .. n
         /\ \A i \in Ids : st[i] # None => i < TrimmedSize(st, n)
<1> USE ConstantsAssumption DEF Ids, None
<1> DEFINE P(m) == st[m - 1] # None /\ \A k \in m .. n - 1 : st[k] = None
<1>1. CASE \E m \in 1 .. n : P(m)
  <2> DEFINE c == CHOOSE m \in 1 .. n : P(m)
  <2>1. c \in 1 .. n /\ P(c)
    BY <1>1
  <2>2. TrimmedSize(st, n) = c
    BY <1>1 DEF TrimmedSize
  <2>3. ASSUME NEW i \in Ids, st[i] # None PROVE i < c
    <3>1. i \in Nat /\ n \in Nat /\ c \in Nat /\ i < n
      BY <2>1, <2>3
    <3>2. \A k \in c .. n - 1 : st[k] = None
      BY <2>1
    <3> HIDE DEF c, P
    <3> QED BY <2>3, <3>1, <3>2
  <2>4. c \in 0 .. n
    BY <2>1
  <2> HIDE DEF c, P
  <2> QED BY <2>2, <2>3, <2>4
<1>2. CASE ~ \E m \in 1 .. n : P(m)
  <2>1. TrimmedSize(st, n) = n
    BY <1>2 DEF TrimmedSize
  <2> QED BY <2>1
<1> QED BY <1>1, <1>2

(* The top of a non-empty stack of calls is a call; popping and pushing keep *)
(* the stack typed.                                                          *)
LEMMA CallsTyped ==
  ASSUME calls \in Seq(Call), calls # <<>>
  PROVE  /\ Top \in Call
         /\ Return \in Seq(Call)
BY DEF Top, Return

(* Trimming the array of a table st that covers its used slots keeps the    *)
(* array and the stored maximum id typed and covering.                      *)
LEMMA TrimCovers ==
  ASSUME TypeOK, MaxIdCovers,
         NEW st \in [Ids -> 0 .. Threshold - 1],
         \A i \in Ids : st[i] # None => i < size,
         Trim(st)
  PROVE  /\ size' \in 0 .. MaxInstances
         /\ maxId' \in -1 .. MaxInstances
         /\ \A i \in Ids : st[i] # None => i < size'
         /\ size' <= maxId' + 1
<1>1. size \in 0 .. MaxInstances /\ maxId \in -1 .. MaxInstances
  BY DEF TypeOK
<1>2. /\ TrimmedSize(st, size) \in 0 .. size
      /\ \A i \in Ids : st[i] # None => i < TrimmedSize(st, size)
  BY <1>1, TrimmedSizeKeeps
<1>3. size' = TrimmedSize(st, size) /\ maxId' = IF size' < size THEN size' ELSE maxId
  BY DEF Trim
<1>4. size <= maxId + 1
  BY DEF MaxIdCovers
<1> QED BY <1>1, <1>2, <1>3, <1>4, ConstantsAssumption

(* Removing an active instance keeps the table: it stays as the only,       *)
(* inactive, instance of its gadget or goes altogether, and aging changes   *)
(* no other instance's kind except by emptying its slot.                    *)
LEMMA RemoveKeepsTable ==
  ASSUME IInv, NEW i \in Ids, IsActive(i), RemoveInternal(i), calls' \in Seq(Call)
  PROVE  IInv'
<1> USE ConstantsAssumption DEF Ids, None, Active, InactiveStart
<1> DEFINE last == IsLastInstance(i)
           st == [Aged EXCEPT ![i] = IF last THEN InactiveStart ELSE None]
           gone == Expiring \cup (IF last THEN {} ELSE {i})
<1>1. /\ status \in [Ids -> 0 .. Threshold - 1]
      /\ gid \in [Ids -> GadgetOrNone]
      /\ status[i] = 1
  BY DEF IInv, TypeOK, IsActive
<1>2. /\ status' = st
      /\ Trim(st)
      /\ gid' = [j \in Ids |-> IF j \in gone THEN NoGadget ELSE gid[j]]
      /\ owner' = [j \in Ids |-> IF j \in gone THEN NoGadget ELSE owner[j]]
      /\ files' = files \ ({gid[j] : j \in Expiring} \ Local)
      /\ active' = IF last THEN active \ {gid[i]} ELSE active
      /\ loaded' = loaded \ {i}
      /\ saved' = saved
  BY DEF RemoveInternal, ActuallyRemove
<1>3. Expiring \subseteq Ids /\ i \notin Expiring
  BY <1>1 DEF Expiring, IsInactive
<1>4. st = [j \in Ids |-> IF j = i THEN (IF last THEN 2 ELSE 0)
                          ELSE IF j \in Expiring THEN 0
                          ELSE IF status[j] >= 2 THEN status[j] + 1
                          ELSE status[j]]
  BY <1>1, <1>3 DEF Aged, IsInactive
<1>5. \A j \in Ids : j \notin Expiring => status[j] < 2 \/ status[j] + 1 <= Threshold - 1
  BY <1>1 DEF Expiring, IsInactive
<1>6. st \in [Ids -> 0 .. Threshold - 1]
  <2>1. \A j \in Ids : status[j] \in 0 .. Threshold - 1
    BY <1>1
  <2>2. 2 \in 0 .. Threshold - 1 /\ 0 \in 0 .. Threshold - 1
    OBVIOUS
  <2>3. ASSUME NEW j \in Ids, j \notin Expiring, status[j] >= 2
        PROVE  status[j] + 1 \in 0 .. Threshold - 1
    BY <1>5, <2>1, <2>3
  <2> HIDE DEF last, st
  <2> QED BY <1>4, <2>1, <2>2, <2>3
<1>7. \A j \in Ids : /\ st[j] # 0 => status[j] # 0
                     /\ st[j] # 0 <=> status[j] # 0 /\ j \notin gone
                     /\ j # i => (st[j] = 1 <=> status[j] = 1)
                     /\ j # i => (st[j] >= 2 <=> status[j] >= 2 /\ j \notin gone)
                     /\ st[i] # 1
  <2>1. \A j \in Expiring : status[j] >= 2
    BY DEF Expiring, IsInactive
  <2> HIDE DEF last, st
  <2>2. \A j \in Ids : status[j] \in Nat
    BY <1>1
  <2>3. i \in gone <=> ~last
    BY <1>3
  <2>4. \A j \in Ids : j # i => (j \in gone <=> j \in Expiring)
    OBVIOUS
  <2> HIDE DEF gone
  <2> QED BY <1>1, <1>3, <1>4, <2>1, <2>2, <2>3, <2>4
<1>8. \A j \in Ids : gid'[j] = IF j \in gone THEN NoGadget ELSE gid[j]
  BY <1>2
<1>9. /\ \A j \in Ids : (status[j] # 0) <=> (gid[j] # NoGadget)
      /\ \A j, k \in Ids :
           status[j] >= 2 /\ status[k] # 0 /\ gid[k] = gid[j] => j = k
  BY DEF IInv, TableOK
<1>10. last <=> \A j \in Ids : j # i /\ status[j] = 1 => gid[j] # gid[i]
  BY DEF IsLastInstance, IsActive
<1>11. gid[i] \in Gadgets
  BY <1>1, <1>9 DEF GadgetOrNone
<1> HIDE DEF st, gone, last
<1>12. TableOK(status', gid')
  <2>1. \A j \in Ids : (st[j] # 0) <=> (gid'[j] # NoGadget)
    BY <1>7, <1>8, <1>9
  <2>2. ASSUME NEW j \in Ids, NEW k \in Ids,
               st[j] >= 2, st[k] # 0, gid'[k] = gid'[j]
        PROVE  j = k
    <3>1. j \notin gone /\ k \notin gone /\ status[k] # 0 /\ gid[k] = gid[j]
      <4>1. st[j] # 0
        BY <2>2, <1>6
      <4> QED BY <4>1, <2>2, <1>7, <1>8
    <3>2. CASE j # i
      BY <3>1, <3>2, <1>7, <1>9, <2>2
    <3>3. CASE j = i /\ k # i
      <4>1. last
        BY <3>1, <3>3 DEF gone
      <4>2. status[k] # 1
        BY <3>1, <3>3, <4>1, <1>10
      <4>3. status[k] >= 2
        BY <3>1, <4>2, <1>1
      <4> QED BY <4>3, <3>1, <1>1, <1>9
    <3> QED BY <3>2, <3>3
  <2> QED BY <1>2, <2>1, <2>2 DEF TableOK
<1>13. ActiveSetExact'
  <2>1. active = {gid[j] : j \in {k \in Ids : status[k] = 1}}
    BY DEF IInv, ActiveSetExact, ActiveIn
  <2>2. \A j \in Ids : st[j] = 1 => j # i /\ gid'[j] = gid[j] /\ status[j] = 1
    BY <1>7, <1>8
  <2>3. \A j \in Ids : j # i /\ status[j] = 1 => st[j] = 1
    BY <1>7
  <2>4. CASE last
    <3>1. active' = active \ {gid[i]}
      BY <1>2, <2>4
    <3>2. \A x \in active \ {gid[i]} : \E j \in Ids : st[j] = 1 /\ gid'[j] = x
      BY <2>1, <2>2, <2>3
    <3>3. \A j \in Ids : st[j] = 1 => gid'[j] \in active \ {gid[i]}
      BY <2>1, <2>2, <2>4, <1>10
    <3> QED BY <1>2, <3>1, <3>2, <3>3 DEF ActiveSetExact, ActiveIn
  <2>5. CASE ~last
    <3>1. active' = active
      BY <1>2, <2>5
    <3>2. PICK m \in Ids : m # i /\ status[m] = 1 /\ gid[m] = gid[i]
      BY <2>5, <1>10
    <3>3. \A x \in active : \E j \in Ids : j # i /\ status[j] = 1 /\ gid[j] = x
      BY <2>1, <3>2
    <3>4. \A x \in active : \E j \in Ids : st[j] = 1 /\ gid'[j] = x
      BY <3>3, <2>2, <2>3
    <3>5. \A j \in Ids : st[j] = 1 => gid'[j] \in active
      BY <2>1, <2>2
    <3> QED BY <1>2, <3>1, <3>4, <3>5 DEF ActiveSetExact, ActiveIn
  <2> QED BY <2>4, <2>5
<1>14. /\ size' \in 0 .. MaxInstances
       /\ maxId' \in -1 .. MaxInstances
       /\ \A j \in Ids : st[j] # None => j < size'
       /\ size' <= maxId' + 1
  <2>1. \A j \in Ids : st[j] # None => j < size
    BY <1>7 DEF IInv, MaxIdCovers
  <2> QED BY <1>2, <1>6, <2>1, TrimCovers DEF IInv
<1>15. TypeOK'
  <2>1. gid' \in [Ids -> GadgetOrNone] /\ owner' \in [Ids -> GadgetOrNone]
    BY <1>1, <1>2 DEF IInv, TypeOK, GadgetOrNone
  <2> QED BY <1>2, <1>6, <1>14, <2>1 DEF IInv, TypeOK
<1>16. MaxIdCovers'
  BY <1>2, <1>14 DEF IInv, MaxIdCovers
<1>17. TableOK(saved.status, saved.gid)'
  BY <1>2 DEF IInv, TableOK
<1> QED BY <1>12, <1>13, <1>15, <1>16, <1>17 DEF IInv

-----------------------------------------------------------------------------
LEMMA InitEstablishes == Init => IInv
<1> USE ConstantsAssumption DEF Ids, None, Active, InactiveStart, GadgetOrNone
<1> SUFFICES ASSUME Init PROVE IInv
  OBVIOUS
<1>1. /\ status = [i \in Ids |-> 0] /\ gid = [i \in Ids |-> NoGadget]
      /\ size = 0 /\ maxId = -1 /\ active = {} /\ calls = <<>>
      /\ saved.status = status /\ saved.gid = gid /\ saved.maxId = maxId
  BY DEF Init
<1>2. TypeOK
  BY DEF Init, TypeOK
<1>3. TableOK(status, gid) /\ TableOK(saved.status, saved.gid)
  BY <1>1 DEF TableOK
<1>4. ActiveSetExact
  BY <1>1 DEF ActiveSetExact, ActiveIn
<1>5. MaxIdCovers
  BY <1>1 DEF MaxIdCovers
<1> QED BY <1>2, <1>3, <1>4, <1>5 DEF IInv

(* A handler's call that is pushed is a call. *)
LEMMA PushedTyped ==
  ASSUME NEW s \in Seq(Call), NEW kind \in Handlers, NEW i \in Ids,
         NEW g \in GadgetOrNone
  PROVE  Append(s, NewCall(kind, i, 0, g)) \in Seq(Call)
BY DEF NewCall, Call, Handlers

(* An inactive instance that is reused was the only one of its gadget.      *)
LEMMA ReuseKeepsTable ==
  ASSUME IInv, NEW g \in Gadgets, NEW i \in Ids, NEW ok \in BOOLEAN, Reuse(g, i, ok)
  PROVE  IInv'
<1> USE ConstantsAssumption DEF Ids, None, Active, InactiveStart
<1>1. /\ status \in [Ids -> 0 .. Threshold - 1]
      /\ gid \in [Ids -> GadgetOrNone]
      /\ owner \in [Ids -> GadgetOrNone]
      /\ status[i] >= 2 /\ gid[i] = g
  BY DEF IInv, TypeOK, Reuse, CanReuse, IsInactive
<1>2. /\ status' = [status EXCEPT ![i] = 1]
      /\ active' = active \cup {g}
      /\ calls' = IF ok THEN Append(calls, NewCall("reuse", i, 0, g)) ELSE calls
      /\ owner' = [owner EXCEPT ![i] = IF ok THEN g ELSE NoGadget]
      /\ UNCHANGED <<size, gid, maxId, files, loaded, saved>>
  BY DEF Reuse, InitInstanceOptions
<1>3. \A j \in Ids : status'[j] = IF j = i THEN 1 ELSE status[j]
  BY <1>1, <1>2
<1>4. TypeOK'
  <2>1. calls' \in Seq(Call)
    BY <1>2, PushedTyped DEF IInv, TypeOK, GadgetOrNone, Handlers
  <2>2. owner' \in [Ids -> GadgetOrNone]
    BY <1>1, <1>2 DEF GadgetOrNone
  <2>3. status' \in [Ids -> 0 .. Threshold - 1]
    BY <1>1, <1>2
  <2> QED BY <1>2, <2>1, <2>2, <2>3 DEF IInv, TypeOK
<1>5. TableOK(status', gid')
  BY <1>1, <1>2, <1>3 DEF IInv, TableOK
<1>6. ActiveSetExact'
  <2>1. active = {gid[j] : j \in {k \in Ids : status[k] = 1}}
    BY DEF IInv, ActiveSetExact, ActiveIn
  <2> QED BY <1>1, <1>2, <1>3, <2>1 DEF ActiveSetExact, ActiveIn
<1>7. MaxIdCovers' /\ TableOK(saved.status, saved.gid)'
  <2>1. \A j \in Ids : status'[j] # 0 => status[j] # 0
    BY <1>1, <1>3
  <2> QED BY <1>2, <2>1 DEF IInv, MaxIdCovers, TableOK
<1> QED BY <1>4, <1>5, <1>6, <1>7 DEF IInv

(* A pure new instance is made only for a gadget without an inactive one.   *)
LEMMA CreateKeepsTable ==
  ASSUME IInv, NEW g \in Gadgets, NEW i \in Ids, NEW ok \in BOOLEAN, Create(g, i, ok)
  PROVE  IInv'
<1> USE ConstantsAssumption DEF Ids, None, Active, InactiveStart
<1>1. /\ status \in [Ids -> 0 .. Threshold - 1]
      /\ gid \in [Ids -> GadgetOrNone]
      /\ owner \in [Ids -> GadgetOrNone]
      /\ size \in 0 .. MaxInstances /\ maxId \in -1 .. MaxInstances
      /\ size <= maxId + 1
      /\ \A j \in Ids : status[j] # 0 => j < size
  BY DEF IInv, TypeOK, MaxIdCovers
<1>2. /\ owner' = [owner EXCEPT ![i] = IF ok THEN g ELSE NoGadget]
      /\ UNCHANGED <<files, loaded, saved>>
      /\ \A j \in Ids : ~(status[j] >= 2 /\ gid[j] = g)
  BY DEF Create, InitInstanceOptions, NoneToReuse, IsInactive
<1>3. \/ i < size /\ status[i] = 0 /\ size' = size /\ maxId' = maxId
      \/ i = size /\ size < MaxInstances /\ size' = size + 1 /\ maxId' = size
  BY <1>1 DEF Create, FreeSlot, Grow
<1>4. /\ status[i] = 0
      /\ size' \in 0 .. MaxInstances /\ maxId' \in -1 .. MaxInstances
      /\ size' <= maxId' + 1 /\ size <= size' /\ i < size'
  BY <1>1, <1>3
<1>5. CASE ok
  <2>1. /\ status' = [status EXCEPT ![i] = 1]
        /\ gid' = [gid EXCEPT ![i] = g]
        /\ active' = active \cup {g}
        /\ calls' = Append(calls, NewCall("new", i, 0, g))
    BY <1>5 DEF Create
  <2>2. \A j \in Ids : /\ status'[j] = IF j = i THEN 1 ELSE status[j]
                       /\ gid'[j] = IF j = i THEN g ELSE gid[j]
    BY <1>1, <2>1
  <2>3. TypeOK'
    <3>1. calls' \in Seq(Call)
      BY <2>1, PushedTyped DEF IInv, TypeOK, GadgetOrNone, Handlers
    <3>2. owner' \in [Ids -> GadgetOrNone] /\ gid' \in [Ids -> GadgetOrNone]
      BY <1>1, <1>2, <2>1 DEF GadgetOrNone
    <3>3. status' \in [Ids -> 0 .. Threshold - 1]
      BY <1>1, <2>1
    <3> QED BY <1>2, <1>4, <2>1, <3>1, <3>2, <3>3 DEF IInv, TypeOK
  <2>4. TableOK(status', gid')
    <3>1. /\ \A j \in Ids : (status[j] # 0) <=> (gid[j] # NoGadget)
          /\ \A j, k \in Ids :
               status[j] >= 2 /\ status[k] # 0 /\ gid[k] = gid[j] => j = k
      BY DEF IInv, TableOK
    <3>2. \A j \in Ids : (status'[j] # 0) <=> (gid'[j] # NoGadget)
      BY <2>2, <3>1
    <3>3. \A j, k \in Ids :
             status'[j] >= 2 /\ status'[k] # 0 /\ gid'[k] = gid'[j] => j = k
      BY <1>2, <2>2, <3>1
    <3> QED BY <3>2, <3>3 DEF TableOK
  <2>5. ActiveSetExact'
    <3>1. active = {gid[j] : j \in {k \in Ids : status[k] = 1}}
      BY DEF IInv, ActiveSetExact, ActiveIn
    <3>2. \A x \in active \cup {g} : \E j \in Ids : status'[j] = 1 /\ gid'[j] = x
      BY <1>4, <2>2, <3>1
    <3>3. \A j \in Ids : status'[j] = 1 => gid'[j] \in active \cup {g}
      BY <2>2, <3>1
    <3>4. active' = {gid'[j] : j \in {k \in Ids : status'[k] = 1}}
      <4>1. active' = active \cup {g}
        BY <2>1
      <4>2. \A x \in active' : x \in {gid'[j] : j \in {k \in Ids : status'[k] = 1}}
        BY <4>1, <3>2
      <4>3. \A x \in {gid'[j] : j \in {k \in Ids : status'[k] = 1}} : x \in active'
        BY <4>1, <3>3
      <4> QED BY <4>2, <4>3
    <3> QED BY <3>4 DEF ActiveSetExact, ActiveIn
  <2>6. MaxIdCovers' /\ TableOK(saved.status, saved.gid)'
    <3>1. \A j \in Ids : status'[j] # 0 => j < size'
      BY <1>1, <1>4, <2>2
    <3> QED BY <1>2, <1>4, <3>1 DEF IInv, MaxIdCovers, TableOK
  <2> QED BY <2>3, <2>4, <2>5, <2>6 DEF IInv
<1>6. CASE ~ok
  <2>1. UNCHANGED <<status, gid, active, calls>>
    BY <1>6 DEF Create
  <2>2. owner' \in [Ids -> GadgetOrNone]
    BY <1>1, <1>2 DEF GadgetOrNone
  <2>3. \A j \in Ids : status'[j] # 0 => j < size'
    BY <1>1, <1>4, <2>1
  <2>4. TypeOK'
    BY <1>2, <1>4, <2>1, <2>2 DEF IInv, TypeOK
  <2>5. MaxIdCovers'
    BY <1>2, <1>4, <2>1, <2>3 DEF IInv, MaxIdCovers
  <2> QED BY <1>2, <2>1, <2>4, <2>5 DEF IInv, TableOK, ActiveSetExact, ActiveIn
<1> QED BY <1>5, <1>6

(* Reading the flushed options back gives the table that was flushed. *)
LEMMA RestartKeepsTable ==
  ASSUME IInv, Restart
  PROVE  IInv'
<1> USE ConstantsAssumption DEF Ids, None, Active, InactiveStart
<1> DEFINE n == StoredSize
           st == [i \in Ids |-> IF i < n THEN saved.status[i] ELSE 0]
<1>1. /\ saved.status \in [Ids -> 0 .. Threshold - 1]
      /\ saved.gid \in [Ids -> GadgetOrNone]
      /\ saved.maxId \in -1 .. MaxInstances
      /\ \A i \in Ids : saved.status[i] # 0 => i <= saved.maxId
      /\ TableOK(saved.status, saved.gid)
  BY DEF IInv, TypeOK, MaxIdCovers
<1>2. n \in 0 .. MaxInstances /\ n <= saved.maxId + 1
  BY <1>1 DEF StoredSize
<1>3. \A i \in Ids : saved.status[i] # 0 => i < n
  BY <1>1 DEF StoredSize
<1>4. /\ status' = st
      /\ size' = TrimmedSize(st, n)
      /\ maxId' = IF size' < n THEN size' ELSE saved.maxId
      /\ gid' = saved.gid
      /\ active' = ReloadedActive(st)
      /\ loaded' = {}
      /\ calls' = <<NewCall("enum", 0, size', NoGadget)>>
      /\ UNCHANGED <<owner, files, saved>>
  BY DEF Restart
<1> HIDE DEF n
<1>5. st = saved.status
  BY <1>1, <1>3
<1> HIDE DEF st
<1>6. /\ size' \in 0 .. n
      /\ \A i \in Ids : st[i] # 0 => i < size'
  <2>1. st \in [Ids -> 0 .. Threshold - 1] /\ \A i \in Ids : st[i] # None => i < n
    BY <1>1, <1>3, <1>5
  <2> QED BY <1>2, <1>4, <2>1, TrimmedSizeKeeps
<1>7. size' \in 0 .. MaxInstances /\ maxId' \in -1 .. MaxInstances /\ size' <= maxId' + 1
  BY <1>1, <1>2, <1>4, <1>6
<1>8. calls' \in Seq(Call)
  <2>1. NewCall("enum", 0, size', NoGadget) \in Call
    BY <1>7 DEF NewCall, Call, GadgetOrNone
  <2> QED BY <1>4, <2>1
<1>9. active' = {gid'[i] : i \in {j \in Ids : status'[j] = 1}}
  BY <1>4 DEF ReloadedActive, ActiveIn
<1>10. active' \subseteq Gadgets
  <2>1. \A i \in Ids : st[i] = 1 => saved.gid[i] \in Gadgets
    BY <1>1, <1>5 DEF TableOK, GadgetOrNone
  <2> QED BY <1>4, <1>9, <2>1
<1>11. TypeOK'
  BY <1>1, <1>4, <1>5, <1>7, <1>8, <1>10 DEF IInv, TypeOK
<1>12. MaxIdCovers'
  BY <1>1, <1>4, <1>6, <1>7 DEF MaxIdCovers
<1>13. TableOK(status', gid') /\ TableOK(saved.status, saved.gid)' /\ ActiveSetExact'
  BY <1>1, <1>4, <1>5, <1>9 DEF ActiveSetExact, ActiveIn, TableOK
<1> QED BY <1>11, <1>12, <1>13 DEF IInv

-----------------------------------------------------------------------------
(* Every step keeps the invariant: one step of the proof per action. *)
LEMMA NextKeeps == IInv /\ [Next]_vars => IInv'
<1> USE ConstantsAssumption
<1> SUFFICES ASSUME IInv, [Next]_vars PROVE IInv'
  OBVIOUS
<1>0. calls \in Seq(Call)
  BY DEF IInv, TypeOK
<1>1. CASE NewGadgetInstance
  BY <1>1, ReuseKeepsTable, CreateKeepsTable DEF NewGadgetInstance
<1>2. CASE Accept
  <2>1. Top \in Call /\ Return \in Seq(Call) /\ Top.kind \in Handlers
    BY <1>0, <1>2, CallsTyped DEF Accept
  <2>2. Top.id \in Ids
    BY <2>1 DEF Call, Handlers
  <2> QED BY <1>2, <2>1, <2>2
       DEF Accept, IInv, TypeOK, TableOK, ActiveSetExact, ActiveIn, MaxIdCovers
<1>3. CASE Veto
  <2>1. Top \in Call /\ Return \in Seq(Call) /\ Top.kind \in Handlers
    BY <1>0, <1>3, CallsTyped DEF Veto
  <2>2. Top.id \in Ids /\ calls' \in Seq(Call)
    BY <1>3, <2>1 DEF Call, Handlers, Veto
  <2>3. CASE IsActive(Top.id)
    BY <1>3, <2>2, <2>3, RemoveKeepsTable DEF Veto
  <2>4. CASE ~IsActive(Top.id) /\ Top.kind = "new"
    <3>1. Trim(status) /\ UNCHANGED <<status, gid, active, owner, files, loaded, saved>>
      BY <1>3, <2>4 DEF Veto
    <3>2. /\ size' \in 0 .. MaxInstances
          /\ maxId' \in -1 .. MaxInstances
          /\ \A i \in Ids : status[i] # None => i < size'
          /\ size' <= maxId' + 1
      BY <3>1, TrimCovers DEF IInv, TypeOK, MaxIdCovers
    <3> QED BY <2>2, <3>1, <3>2
         DEF IInv, TypeOK, TableOK, ActiveSetExact, ActiveIn, MaxIdCovers
  <2>5. CASE ~IsActive(Top.id) /\ Top.kind # "new"
    <3>1. UNCHANGED <<status, size, gid, maxId, active, owner, files, loaded, saved>>
      BY <1>3, <2>5 DEF Veto
    <3> QED BY <2>2, <3>1
         DEF IInv, TypeOK, TableOK, ActiveSetExact, ActiveIn, MaxIdCovers
  <2> QED BY <2>3, <2>4, <2>5
<1>4. CASE VetoIgnored
  <2>1. Return \in Seq(Call)
    BY <1>0, <1>4, CallsTyped DEF VetoIgnored
  <2> QED BY <1>4, <2>1
       DEF VetoIgnored, IInv, TypeOK, TableOK, ActiveSetExact, ActiveIn, MaxIdCovers
<1>5. ASSUME NEW i \in Ids, DiscardOptions(i) PROVE IInv'
  <2>1. owner' \in [Ids -> GadgetOrNone]
    BY <1>5 DEF DiscardOptions, IInv, TypeOK, GadgetOrNone
  <2> QED BY <1>5, <2>1
       DEF DiscardOptions, IInv, TypeOK, TableOK, ActiveSetExact, ActiveIn, MaxIdCovers
<1>6. ASSUME NEW i \in Ids, RemoveGadget(i) PROVE IInv'
  BY <1>0, <1>6, RemoveKeepsTable DEF RemoveGadget
<1>7. ASSUME NEW g \in Gadgets, SaveGadget(g) PROVE IInv'
  <2>1. NewCall("update", 0, size, g) \in Call
    BY DEF NewCall, Call, GadgetOrNone, IInv, TypeOK
  <2>2. calls' \in Seq(Call)
    BY <1>0, <1>7, <2>1 DEF SaveGadget
  <2> QED BY <1>7, <2>2
       DEF SaveGadget, IInv, TypeOK, TableOK, ActiveSetExact, ActiveIn, MaxIdCovers
<1>8. CASE UpdateNext
  <2>1. Top \in Call /\ Return \in Seq(Call) /\ Top.kind = "update"
    BY <1>0, <1>8, CallsTyped DEF UpdateNext
  <2> DEFINE on == [calls EXCEPT ![Len(calls)].id = Top.id + 1]
  <2>2. ASSUME Top.id < Top.n PROVE on \in Seq(Call) /\ Top.id \in Ids
    <3>1. [Top EXCEPT !.id = Top.id + 1] \in Call /\ Top.id \in Ids
      BY <2>1, <2>2 DEF Call, Ids, Handlers
    <3>2. on = [calls EXCEPT ![Len(calls)] = [Top EXCEPT !.id = Top.id + 1]]
      BY DEF Top
    <3>3. Len(calls) \in 1 .. Len(calls)
      BY <1>0, <1>8 DEF UpdateNext
    <3> QED BY <1>0, <3>1, <3>2, <3>3
  <2> HIDE DEF on
  <2>3. CASE Top.id >= Top.n
    BY <1>8, <2>1, <2>3 DEF UpdateNext, IInv, TypeOK, TableOK, ActiveSetExact, ActiveIn, MaxIdCovers
  <2>4. CASE ~(Top.id >= Top.n)
    <3>1. Top.id < Top.n
      <4>1. Top.id \in Int /\ Top.n \in Int
        BY <2>1 DEF Call, Ids
      <4> QED BY <4>1, <2>4
    <3>2. on \in Seq(Call) /\ Top.id \in Ids
      BY <2>2, <3>1
    <3>3. Append(on, NewCall("renew", Top.id, 0, Top.g)) \in Seq(Call)
      BY <3>2, <2>1, PushedTyped DEF Handlers, Call
    <3>4. /\ calls' = Append(on, NewCall("renew", Top.id, 0, Top.g)) \/ calls' = on
          /\ loaded' \subseteq loaded
          /\ UNCHANGED <<status, size, gid, maxId, active, owner, files, saved>>
      BY <1>8, <2>4 DEF UpdateNext, on
    <3>5. calls' \in Seq(Call)
      BY <3>2, <3>3, <3>4
    <3> QED BY <3>4, <3>5
         DEF IInv, TypeOK, TableOK, ActiveSetExact, ActiveIn, MaxIdCovers
  <2> QED BY <2>3, <2>4
<1>9. CASE Flush
  <2>1. saved' = [status |-> status, gid |-> gid, maxId |-> maxId]
    BY <1>9 DEF Flush
  <2>2. /\ saved'.status = status /\ saved'.gid = gid /\ saved'.maxId = maxId
        /\ UNCHANGED <<status, size, gid, maxId, active, owner, files, loaded, calls>>
    BY <1>9, <2>1 DEF Flush
  <2>3. TypeOK'
    BY <2>1, <2>2 DEF IInv, TypeOK
  <2>4. \A i \in Ids : status[i] # None => i <= maxId
    BY DEF IInv, TypeOK, MaxIdCovers, Ids
  <2>5. MaxIdCovers'
    BY <2>2, <2>4 DEF IInv, MaxIdCovers
  <2>6. TableOK(status', gid') /\ TableOK(saved'.status, saved'.gid) /\ ActiveSetExact'
    BY <2>2 DEF IInv, TableOK, ActiveSetExact, ActiveIn
  <2> QED BY <2>3, <2>5, <2>6 DEF IInv
<1>10. CASE Restart
  BY <1>10, RestartKeepsTable
<1>11. CASE EnumNext
  <2>1. Top \in Call /\ Return \in Seq(Call) /\ Top.kind = "enum"
    BY <1>0, <1>11, CallsTyped DEF EnumNext
  <2> DEFINE on == [calls EXCEPT ![Len(calls)].id = Top.id + 1]
  <2>2. ASSUME Top.id < Top.n PROVE on \in Seq(Call) /\ Top.id \in Ids
    <3>1. [Top EXCEPT !.id = Top.id + 1] \in Call /\ Top.id \in Ids
      BY <2>1, <2>2 DEF Call, Ids, Handlers
    <3>2. on = [calls EXCEPT ![Len(calls)] = [Top EXCEPT !.id = Top.id + 1]]
      BY DEF Top
    <3>3. Len(calls) \in 1 .. Len(calls)
      BY <1>0, <1>11 DEF EnumNext
    <3> QED BY <1>0, <3>1, <3>2, <3>3
  <2> HIDE DEF on
  <2>3. calls' \in Seq(Call)
    <3>1. CASE Top.id >= Top.n
      BY <1>11, <2>1, <3>1 DEF EnumNext
    <3>2. CASE ~(Top.id >= Top.n)
      <4>1. Top.id < Top.n
        <5>1. Top.id \in Int /\ Top.n \in Int
          BY <2>1 DEF Call, Ids
        <5> QED BY <5>1, <3>2
      <4>2. on \in Seq(Call) /\ Top.id \in Ids /\ gid[Top.id] \in GadgetOrNone
        BY <2>2, <4>1 DEF IInv, TypeOK
      <4>3. Append(on, NewCall("load", Top.id, 0, gid[Top.id])) \in Seq(Call)
        BY <4>2, PushedTyped DEF Handlers
      <4>4. \/ calls' = Append(on, NewCall("load", Top.id, 0, gid[Top.id]))
            \/ calls' = on
        BY <1>11, <3>2 DEF EnumNext, on
      <4> QED BY <4>2, <4>3, <4>4
    <3> QED BY <3>1, <3>2
  <2> QED BY <1>11, <2>3
       DEF EnumNext, IInv, TypeOK, TableOK, ActiveSetExact, ActiveIn, MaxIdCovers
<1>12. CASE UNCHANGED vars
  BY <1>12 DEF vars, IInv, TypeOK, TableOK, ActiveSetExact, ActiveIn, MaxIdCovers
<1> QED BY <1>1, <1>2, <1>3, <1>4, <1>5, <1>6, <1>7, <1>8, <1>9, <1>10, <1>11, <1>12
     DEF Next

(* The invariant holds in every state of the specification. *)
LEMMA Invariance == Spec => []IInv
BY InitEstablishes, NextKeeps, PTL DEF Spec

-----------------------------------------------------------------------------
(* Every variable keeps its type, whatever the depth of the nested calls. *)
THEOREM TypeCorrect == Spec => []TypeOK
<1>1. IInv => TypeOK
  BY DEF IInv
<1> QED BY <1>1, Invariance, PTL

(* A gadget with an inactive instance, whose settings wait for a reuse, has *)
(* no other instance (google_gadget_manager.h:175-178).                     *)
THEOREM InactiveInstanceIsOnly == Spec => []InactiveIsOnly
<1>1. IInv => InactiveIsOnly
  BY DEF IInv, TableOK, InactiveIsOnly, IsInactive
<1> QED BY <1>1, Invariance, PTL

(* active_gadgets_ is the set of the gadgets with an active instance. *)
THEOREM ActiveSetIsExact == Spec => []ActiveSetExact
<1>1. IInv => ActiveSetExact
  BY DEF IInv
<1> QED BY <1>1, Invariance, PTL

(* A restart finds every instance: none lies past the stored maximum id. *)
THEOREM StoredMaxCovers == Spec => []MaxIdCovers
<1>1. IInv => MaxIdCovers
  BY DEF IInv
<1> QED BY <1>1, Invariance, PTL

-----------------------------------------------------------------------------
(* The gadget manager keeps the promise of GadgetRegistry: its initial      *)
(* state maps to the registry's, each of its steps to a registry step or a  *)
(* stutter.  The invariant is what makes the mapping of a step exact: an    *)
(* inactive instance stands alone for its gadget.                           *)

(* What removing an active instance does to the table. *)
LEMMA RemoveEffect ==
  ASSUME IInv, NEW i \in Ids, IsActive(i), RemoveInternal(i)
  PROVE  /\ status[i] = 1
         /\ \A j \in Expiring : j \in Ids /\ status[j] >= 2
         /\ \A j \in Ids : j # i =>
              /\ status'[j] = 1 <=> status[j] = 1
              /\ status'[j] >= 2 <=> status[j] >= 2 /\ j \notin Expiring
              /\ j \notin Expiring => gid'[j] = gid[j]
         /\ IF IsLastInstance(i)
            THEN status'[i] = 2 /\ gid'[i] = gid[i]
            ELSE status'[i] = 0
<1> USE ConstantsAssumption DEF Ids, None, Active, InactiveStart
<1> DEFINE last == IsLastInstance(i)
           gone == Expiring \cup (IF last THEN {} ELSE {i})
<1>1. status \in [Ids -> 0 .. Threshold - 1] /\ status[i] = 1
  BY DEF IInv, TypeOK, IsActive
<1>2. /\ status' = [Aged EXCEPT ![i] = IF last THEN InactiveStart ELSE None]
      /\ gid' = [j \in Ids |-> IF j \in gone THEN NoGadget ELSE gid[j]]
  BY DEF RemoveInternal, ActuallyRemove
<1>3. \A j \in Expiring : j \in Ids /\ status[j] >= 2
  BY DEF Expiring, IsInactive
<1>4. i \notin Expiring
  BY <1>1, <1>3
<1>5. status' = [j \in Ids |-> IF j = i THEN (IF last THEN 2 ELSE 0)
                               ELSE IF j \in Expiring THEN 0
                               ELSE IF status[j] >= 2 THEN status[j] + 1
                               ELSE status[j]]
  BY <1>2, <1>4 DEF Aged, IsInactive
<1>6. \A j \in Ids : status[j] \in Nat
  BY <1>1
<1> HIDE DEF last
<1>7. ASSUME NEW j \in Ids, j # i
      PROVE  /\ status'[j] = 1 <=> status[j] = 1
             /\ status'[j] >= 2 <=> status[j] >= 2 /\ j \notin Expiring
             /\ j \notin Expiring => gid'[j] = gid[j]
  <2>1. j \notin Expiring => gid'[j] = gid[j]
    BY <1>2, <1>7
  <2>2. status[j] \in Nat /\ (j \in Expiring => status[j] >= 2)
    BY <1>3, <1>6
  <2>3. status'[j] = IF j \in Expiring THEN 0
                     ELSE IF status[j] >= 2 THEN status[j] + 1 ELSE status[j]
    BY <1>5, <1>7
  <2> QED BY <2>1, <2>2, <2>3
<1>8. IF last THEN status'[i] = 2 /\ gid'[i] = gid[i] ELSE status'[i] = 0
  BY <1>2, <1>4, <1>5
<1> QED BY <1>1, <1>3, <1>7, <1>8 DEF last

(* Reading the flushed options back gives the flushed table itself. *)
LEMMA RestartReads ==
  ASSUME IInv, Restart
  PROVE  status' = saved.status /\ gid' = saved.gid /\ saved' = saved
<1> USE ConstantsAssumption DEF Ids, None
<1>1. /\ saved.status \in [Ids -> 0 .. Threshold - 1]
      /\ saved.maxId \in -1 .. MaxInstances
      /\ \A i \in Ids : saved.status[i] # 0 => i <= saved.maxId
  BY DEF IInv, TypeOK, MaxIdCovers
<1>2. \A i \in Ids : saved.status[i] # 0 => i < StoredSize
  BY <1>1 DEF StoredSize
<1>3. /\ status' = [i \in Ids |-> IF i < StoredSize THEN saved.status[i] ELSE 0]
      /\ gid' = saved.gid /\ saved' = saved
  BY DEF Restart
<1> QED BY <1>1, <1>2, <1>3

-----------------------------------------------------------------------------
(* The mapping of the table: what runs, what is kept. *)
LEMMA Mapping ==
  /\ \A i \in Ids :
       Live(status, gid)[i] = IF status[i] = 1 THEN gid[i] ELSE NoGadget
  /\ \A g : g \in Kept(status, gid) <=> \E j \in Ids : status[j] >= 2 /\ gid[j] = g
  /\ \A i \in Ids :
       Live(status', gid')[i] = IF status'[i] = 1 THEN gid'[i] ELSE NoGadget
  /\ \A g : g \in Kept(status', gid') <=> \E j \in Ids : status'[j] >= 2 /\ gid'[j] = g
BY DEF Live, Kept, Active, InactiveStart

(* Removing an active instance is the registry's Remove; the gadgets whose  *)
(* settings are lost are those of the expiring instances.                   *)
LEMMA RemoveImplements ==
  ASSUME IInv, NEW i \in Ids, IsActive(i), RemoveInternal(i)
  PROVE  Registry!Remove(i)
<1> DEFINE run == Live(status, gid)
           kept == Kept(status, gid)
           lost == {gid[j] : j \in Expiring}
           last == IsLastInstance(i)
<1>1. /\ status[i] = 1
      /\ \A j \in Expiring : j \in Ids /\ status[j] >= 2
      /\ \A j \in Ids : j # i =>
           /\ status'[j] = 1 <=> status[j] = 1
           /\ status'[j] >= 2 <=> status[j] >= 2 /\ j \notin Expiring
           /\ j \notin Expiring => gid'[j] = gid[j]
      /\ IF last THEN status'[i] = 2 /\ gid'[i] = gid[i] ELSE status'[i] = 0
  BY RemoveEffect
<1>2. /\ \A j \in Ids : (status[j] # 0) <=> (gid[j] # NoGadget)
      /\ \A j, k \in Ids :
           status[j] >= 2 /\ status[k] # 0 /\ gid[k] = gid[j] => j = k
      /\ \A j \in Ids : status[j] \in Nat
  BY DEF IInv, TableOK, TypeOK, None, InactiveStart
<1>3. last <=> \A j \in Ids : j # i /\ status[j] = 1 => gid[j] # gid[i]
  BY DEF IsLastInstance, IsActive, Active
<1>4. run[i] = gid[i] /\ gid[i] # NoGadget
  BY <1>1, <1>2, Mapping
<1>5. Live(status', gid') = [run EXCEPT ![i] = NoGadget]
  <2>1. ASSUME NEW j \in Ids, j # i
        PROVE  Live(status', gid')[j] = run[j]
    <3>1. status[j] = 1 => j \notin Expiring
      BY <1>1
    <3> QED BY <1>1, <2>1, <3>1, Mapping
  <2>2. Live(status', gid')[i] = NoGadget
    BY <1>1, Mapping
  <2>3. /\ run = [j \in Ids |-> run[j]]
        /\ Live(status', gid') = [j \in Ids |-> Live(status', gid')[j]]
    BY DEF Live
  <2> HIDE DEF run
  <2> QED BY <2>1, <2>2, <2>3
<1>6. {k \in Ids : run[k] = gid[i]} = {i} <=> last
  <2>1. \A k \in Ids : run[k] = gid[i] <=> status[k] = 1 /\ gid[k] = gid[i]
    BY <1>4, Mapping
  <2> HIDE DEF run, last
  <2> QED BY <1>1, <1>3, <2>1
<1>7. lost \subseteq kept
  BY <1>1, Mapping
<1>8. Kept(status', gid') = (kept \ lost) \cup (IF last THEN {gid[i]} ELSE {})
  <2>1. ASSUME NEW g \in Kept(status', gid')
        PROVE  g \in (kept \ lost) \cup (IF last THEN {gid[i]} ELSE {})
    <3>1. PICK j \in Ids : status'[j] >= 2 /\ gid'[j] = g
      BY Mapping
    <3>2. CASE j = i
      BY <1>1, <3>1, <3>2
    <3>3. CASE j # i
      <4>1. status[j] >= 2 /\ j \notin Expiring /\ gid[j] = g
        BY <1>1, <3>1, <3>3
      <4>2. \A k \in Expiring : status[k] # 0
        BY <1>1, <1>2
      <4>3. g \notin lost
        BY <1>1, <1>2, <4>1, <4>2
      <4>4. g \in kept
        BY <4>1, Mapping
      <4> QED BY <4>3, <4>4
    <3> QED BY <3>2, <3>3
  <2>2. ASSUME NEW g \in kept, g \notin lost PROVE g \in Kept(status', gid')
    <3>1. PICK j \in Ids : status[j] >= 2 /\ gid[j] = g
      BY Mapping
    <3>2. j \notin Expiring /\ j # i
      BY <1>1, <2>2, <3>1
    <3>3. status'[j] >= 2 /\ gid'[j] = g
      BY <1>1, <3>1, <3>2
    <3> QED BY <3>3, Mapping
  <2>3. last => gid[i] \in Kept(status', gid')
    BY <1>1, Mapping
  <2> HIDE DEF kept, lost, last
  <2> QED BY <2>1, <2>2, <2>3
<1>9. saved' = saved
  BY DEF RemoveInternal
<1> HIDE DEF last, lost
<1>10. \E l \in SUBSET kept : Kept(status', gid') =
         (kept \ l) \cup (IF {k \in Ids : run[k] = run[i]} = {i} THEN {run[i]} ELSE {})
  <2>1. Kept(status', gid') =
          (kept \ lost) \cup (IF {k \in Ids : run[k] = run[i]} = {i} THEN {run[i]} ELSE {})
    BY <1>4, <1>6, <1>8
  <2> QED BY <1>7, <2>1
<1> QED BY <1>4, <1>5, <1>9, <1>10 DEF Registry!Remove, Registry!Running

(* A step that makes instance i active for g, when only an inactive i may   *)
(* hold settings of g, is the registry's Add.                               *)
LEMMA AddImplements ==
  ASSUME IInv, NEW g \in Gadgets, NEW i \in Ids, status[i] # 1,
         \A j \in Ids : status'[j] = IF j = i THEN 1 ELSE status[j],
         \A j \in Ids : gid'[j] = IF j = i THEN g ELSE gid[j],
         \A j \in Ids : status[j] >= 2 => (gid[j] = g <=> j = i),
         saved' = saved
  PROVE  Registry!Add(g, i)
<1> DEFINE run == Live(status, gid)
<1>1. run[i] = NoGadget
  BY Mapping
<1>2. Live(status', gid') = [run EXCEPT ![i] = g]
  <2>1. \A j \in Ids : Live(status', gid')[j] = IF j = i THEN g ELSE run[j]
    BY Mapping
  <2>2. /\ run = [j \in Ids |-> run[j]]
        /\ Live(status', gid') = [j \in Ids |-> Live(status', gid')[j]]
    BY DEF Live
  <2> HIDE DEF run
  <2> QED BY <2>1, <2>2
<1>3. Kept(status', gid') = Kept(status, gid) \ {g}
  <2>1. ASSUME NEW x \in Kept(status', gid') PROVE x \in Kept(status, gid) \ {g}
    <3>1. PICK j \in Ids : status'[j] >= 2 /\ gid'[j] = x
      BY Mapping
    <3>2. j # i /\ status[j] >= 2 /\ gid[j] = x
      BY <3>1
    <3> QED BY <3>2, Mapping
  <2>2. ASSUME NEW x \in Kept(status, gid), x # g PROVE x \in Kept(status', gid')
    <3>1. PICK j \in Ids : status[j] >= 2 /\ gid[j] = x
      BY Mapping
    <3>2. j # i
      BY <2>2, <3>1
    <3> QED BY <3>1, <3>2, Mapping
  <2> QED BY <2>1, <2>2
<1> QED BY <1>1, <1>2, <1>3 DEF Registry!Add

(* A step that leaves the table and the flushed options alone is a stutter. *)
LEMMA SameTableStutters ==
  ASSUME UNCHANGED <<status, gid, saved>>
  PROVE  UNCHANGED Registry!rvars
BY DEF Registry!rvars, Live, Kept

-----------------------------------------------------------------------------
(* The initial states map to the registry's initial state. *)
LEMMA InitImplements == Init => Registry!Init
<1> SUFFICES ASSUME Init PROVE Registry!Init
  OBVIOUS
<1>1. /\ status = [i \in Ids |-> 0] /\ gid = [i \in Ids |-> NoGadget]
      /\ saved.status = status /\ saved.gid = gid
  BY DEF Init, None
<1>2. Live(status, gid) = [i \in Ids |-> NoGadget] /\ Kept(status, gid) = {}
  BY <1>1 DEF Live, Kept, Active, InactiveStart
<1> QED BY <1>1, <1>2 DEF Registry!Init

(* Every step maps to a registry step or a stutter: one step per action. *)
LEMMA NextImplements ==
  IInv /\ [Next]_vars => [Registry!Next]_(Registry!rvars)
<1> SUFFICES ASSUME IInv, [Next]_vars
             PROVE  Registry!Next \/ UNCHANGED Registry!rvars
  OBVIOUS
<1>1. ASSUME NEW g \in Gadgets, NEW i \in Ids, NEW ok \in BOOLEAN, Reuse(g, i, ok)
      PROVE  Registry!Next
  <2>1. /\ status \in [Ids -> 0 .. Threshold - 1] /\ gid \in [Ids -> GadgetOrNone]
        /\ status[i] >= 2 /\ gid[i] = g
    BY <1>1 DEF IInv, TypeOK, Reuse, CanReuse, IsInactive, InactiveStart
  <2>2. status' = [status EXCEPT ![i] = 1] /\ gid' = gid /\ saved' = saved
    BY <1>1 DEF Reuse, Active
  <2>3. \A j \in Ids : status[j] >= 2 => (gid[j] = g <=> j = i)
    <3>1. status[i] # 0
      BY <2>1, ConstantsAssumption
    <3> QED BY <2>1, <3>1 DEF IInv, TableOK, None, InactiveStart
  <2>4. status[i] # 1
    BY <2>1, ConstantsAssumption
  <2>5. /\ \A j \in Ids : status'[j] = IF j = i THEN 1 ELSE status[j]
        /\ \A j \in Ids : gid'[j] = IF j = i THEN g ELSE gid[j]
    BY <2>1, <2>2
  <2>6. Registry!Add(g, i)
    BY <2>2, <2>3, <2>4, <2>5, AddImplements
  <2> QED BY <2>6 DEF Registry!Next
<1>2. ASSUME NEW g \in Gadgets, NEW i \in Ids, NEW ok \in BOOLEAN, Create(g, i, ok)
      PROVE  Registry!Next \/ UNCHANGED Registry!rvars
  <2>1. /\ status \in [Ids -> 0 .. Threshold - 1] /\ gid \in [Ids -> GadgetOrNone]
        /\ size \in Nat
        /\ \A j \in Ids : status[j] # 0 => j < size
    BY ConstantsAssumption DEF IInv, TypeOK, MaxIdCovers, None
  <2>2. status[i] = 0
    <3>1. ~(i < size) => status[i] = 0
      BY <2>1
    <3>2. (i < size /\ status[i] = 0) \/ i = size
      BY <1>2 DEF Create, FreeSlot, None
    <3>3. i = size => ~(i < size)
      BY <2>1
    <3> QED BY <3>1, <3>2, <3>3
  <2>3. CASE ok
    <3>1. status' = [status EXCEPT ![i] = 1] /\ gid' = [gid EXCEPT ![i] = g] /\ saved' = saved
      BY <1>2, <2>3 DEF Create, Active
    <3>2. \A j \in Ids : ~(status[j] >= 2 /\ gid[j] = g)
      BY <1>2 DEF Create, NoneToReuse, IsInactive, InactiveStart
    <3>3. \A j \in Ids : status[j] >= 2 => (gid[j] = g <=> j = i)
      BY <2>2, <3>2
    <3>4. /\ \A j \in Ids : status'[j] = IF j = i THEN 1 ELSE status[j]
          /\ \A j \in Ids : gid'[j] = IF j = i THEN g ELSE gid[j]
      BY <2>1, <3>1
    <3>5. status[i] # 1
      BY <2>2
    <3>6. Registry!Add(g, i)
      BY <3>1, <3>3, <3>4, <3>5, AddImplements
    <3> QED BY <3>6 DEF Registry!Next
  <2>4. CASE ~ok
    BY <1>2, <2>4, SameTableStutters DEF Create
  <2> QED BY <2>3, <2>4
<1>3. CASE NewGadgetInstance
  BY <1>1, <1>2, <1>3 DEF NewGadgetInstance
<1>4. CASE Veto
  <2>1. Top.id \in Ids
    BY <1>4, CallsTyped DEF Veto, Call, Handlers, IInv, TypeOK
  <2>2. CASE IsActive(Top.id)
    BY <1>4, <2>1, <2>2, RemoveImplements DEF Veto, Registry!Next
  <2>3. CASE ~IsActive(Top.id)
    BY <1>4, <2>3, SameTableStutters DEF Veto
  <2> QED BY <2>2, <2>3
<1>5. ASSUME NEW i \in Ids, RemoveGadget(i) PROVE Registry!Next
  BY <1>5, RemoveImplements DEF RemoveGadget, Registry!Next
<1>6. CASE Flush
  <2>1. /\ saved'.status = status /\ saved'.gid = gid
        /\ status' = status /\ gid' = gid
    BY <1>6 DEF Flush
  <2>2. Registry!Flush
    BY <2>1 DEF Registry!Flush, Live, Kept
  <2> QED BY <2>2 DEF Registry!Next
<1>7. CASE Restart
  <2>1. status' = saved.status /\ gid' = saved.gid /\ saved' = saved
    BY <1>7, RestartReads
  <2>2. Registry!Restart
    BY <2>1 DEF Registry!Restart, Live, Kept
  <2> QED BY <2>2 DEF Registry!Next
<1>8. CASE Accept \/ VetoIgnored \/ UpdateNext \/ EnumNext \/ UNCHANGED vars
  BY <1>8, SameTableStutters DEF Accept, VetoIgnored, UpdateNext, EnumNext, vars
<1>9. ASSUME NEW i \in Ids, DiscardOptions(i) PROVE UNCHANGED Registry!rvars
  BY <1>9, SameTableStutters DEF DiscardOptions
<1>10. ASSUME NEW g \in Gadgets, SaveGadget(g) PROVE UNCHANGED Registry!rvars
  BY <1>10, SameTableStutters DEF SaveGadget
<1> QED BY <1>3, <1>4, <1>5, <1>6, <1>7, <1>8, <1>9, <1>10 DEF Next

(* The instance table implements the registry: an instance runs one gadget  *)
(* until it is removed, the settings of the last instance are kept and go   *)
(* to the next one, and a restart finds what was flushed                    *)
(* (google_gadget_manager.h:160-180).                                       *)
THEOREM RefinesRegistry == Spec => ImplementsRegistry
BY InitImplements, NextImplements, Invariance, PTL
   DEF Spec, ImplementsRegistry, Registry!RegistrySpec

-----------------------------------------------------------------------------
(* A used slot has a gadget id and an empty one has none, so that a search  *)
(* for a gadget's instances never meets the slot of one that is gone.       *)
THEOREM IdsAreOfUsedSlots == Spec => []IdsMatchStatus
<1>1. IInv => IdsMatchStatus
  BY DEF IInv, TableOK, IdsMatchStatus
<1> QED BY <1>1, Invariance, PTL

(* Only expiry deletes downloaded files, and a gadget with an instance that *)
(* expires has no active one.                                               *)
LEMMA RemoveKeepsFiles ==
  ASSUME IInv, NEW i \in Ids, IsActive(i), RemoveInternal(i)
  PROVE  files \cap active \subseteq files'
<1>1. files' = files \ ({gid[j] : j \in Expiring} \ Local)
  BY DEF RemoveInternal, ActuallyRemove
<1>2. \A j \in Expiring : j \in Ids /\ status[j] >= 2
  BY RemoveEffect
<1>3. ASSUME NEW j \in Expiring PROVE gid[j] \notin active
  <2>1. SUFFICES ASSUME gid[j] \in active PROVE FALSE
    OBVIOUS
  <2>2. PICK k \in Ids : status[k] = 1 /\ gid[k] = gid[j]
    BY <2>1 DEF IInv, ActiveSetExact, ActiveIn, Active
  <2>3. j = k
    BY <1>2, <2>2 DEF IInv, TableOK, None, InactiveStart
  <2> QED BY <1>2, <2>2, <2>3
<1> QED BY <1>1, <1>3

(* No step takes the downloaded file of a gadget that runs before and after *)
(* it, whichever instances expire in the step.                              *)
THEOREM FilesOfActiveAreKept == Spec => FilesOfActiveKept
<1>1. IInv /\ [Next]_vars =>
        [\A g \in files \cap active : g \in active' => g \in files']_vars
  <2> SUFFICES ASSUME IInv, [Next]_vars PROVE files \cap active \subseteq files'
    OBVIOUS
  <2>1. ASSUME NEW i \in Ids, RemoveGadget(i) PROVE files \cap active \subseteq files'
    BY <2>1, RemoveKeepsFiles DEF RemoveGadget
  <2>2. CASE Veto
    <3>1. Top.id \in Ids
      BY <2>2, CallsTyped DEF Veto, Call, Handlers, IInv, TypeOK
    <3> QED BY <2>2, <3>1, RemoveKeepsFiles DEF Veto
  <2>3. ASSUME NEW g \in Gadgets, SaveGadget(g) PROVE files \subseteq files'
    BY <2>3 DEF SaveGadget
  <2>4. ASSUME NEW i \in Ids, DiscardOptions(i) PROVE files' = files
    BY <2>4 DEF DiscardOptions
  <2>5. CASE NewGadgetInstance
    BY <2>5 DEF NewGadgetInstance, Reuse, Create
  <2>6. CASE \/ Accept \/ VetoIgnored \/ UpdateNext \/ Flush \/ Restart \/ EnumNext
             \/ UNCHANGED vars
    BY <2>6 DEF Accept, VetoIgnored, UpdateNext, Flush, Restart, EnumNext, vars
  <2> QED BY <2>1, <2>2, <2>3, <2>4, <2>5, <2>6 DEF Next
<1> QED BY <1>1, Invariance, PTL DEF Spec, FilesOfActiveKept

-----------------------------------------------------------------------------
(* Between the manager and the host that loads its gadgets: whose options   *)
(* file a slot has, which instance a handler's late answer is about, which  *)
(* instances run.  The first needs that nothing is lost in a                *)
(* crash, the others that no gadget is updated in place (every gadget is    *)
(* local): an update reloads an instance whose first handler has not        *)
(* answered yet, and ignores a veto.                                        *)
-----------------------------------------------------------------------------
(* The options file of a slot follows its gadget id. *)
LEMMA RemoveKeepsOwners ==
  ASSUME IInv, OptionsFileOwned, NEW i \in Ids, RemoveInternal(i)
  PROVE  OptionsFileOwned'
<1> DEFINE last == IsLastInstance(i)
           gone == Expiring \cup (IF last THEN {} ELSE {i})
<1>1. /\ gid' = [j \in Ids |-> IF j \in gone THEN NoGadget ELSE gid[j]]
      /\ owner' = [j \in Ids |-> IF j \in gone THEN NoGadget ELSE owner[j]]
  BY DEF RemoveInternal, ActuallyRemove
<1> HIDE DEF gone
<1> QED BY <1>1 DEF OptionsFileOwned

LEMMA OwnersKept ==
  ASSUME ~Restarts, IInv, OptionsFileOwned, [Next]_vars
  PROVE  OptionsFileOwned'
<1>0. /\ owner \in [Ids -> GadgetOrNone] /\ gid \in [Ids -> GadgetOrNone]
      /\ calls \in Seq(Call)
  BY DEF IInv, TypeOK
<1>1. ASSUME NEW g \in Gadgets, NEW i \in Ids, NEW ok \in BOOLEAN, Reuse(g, i, ok)
      PROVE  OptionsFileOwned'
  <2>1. owner' = [owner EXCEPT ![i] = IF ok THEN g ELSE NoGadget] /\ gid' = gid /\ gid[i] = g
    BY <1>1 DEF Reuse, CanReuse, InitInstanceOptions
  <2> QED BY <1>0, <2>1 DEF OptionsFileOwned
<1>2. ASSUME NEW g \in Gadgets, NEW i \in Ids, NEW ok \in BOOLEAN, Create(g, i, ok)
      PROVE  OptionsFileOwned'
  <2>1. /\ owner' = [owner EXCEPT ![i] = IF ok THEN g ELSE NoGadget]
        /\ gid' = IF ok THEN [gid EXCEPT ![i] = g] ELSE gid
    BY <1>2 DEF Create, InitInstanceOptions
  <2> QED BY <1>0, <2>1 DEF OptionsFileOwned
<1>3. CASE Veto
  <2>1. CASE IsActive(Top.id)
    <3>1. Top \in Call /\ Top.kind \in Handlers
      BY <1>0, <1>3, CallsTyped DEF Veto
    <3>2. Top.id \in Ids
      BY <3>1 DEF Call, Handlers
    <3> QED BY <1>3, <2>1, <3>2, RemoveKeepsOwners DEF Veto
  <2>2. CASE ~IsActive(Top.id)
    BY <1>3, <2>2 DEF Veto, OptionsFileOwned
  <2> QED BY <2>1, <2>2
<1>4. ASSUME NEW i \in Ids, DiscardOptions(i) PROVE OptionsFileOwned'
  BY <1>0, <1>4 DEF DiscardOptions, OptionsFileOwned
<1>5. ASSUME NEW i \in Ids, RemoveGadget(i) PROVE OptionsFileOwned'
  BY <1>5, RemoveKeepsOwners DEF RemoveGadget
<1>6. CASE Accept \/ VetoIgnored \/ (\E g \in Gadgets : SaveGadget(g)) \/ UpdateNext
           \/ Flush \/ EnumNext \/ UNCHANGED vars
  BY <1>6 DEF Accept, VetoIgnored, SaveGadget, UpdateNext, Flush, EnumNext, vars, OptionsFileOwned
<1> QED BY <1>1, <1>2, <1>3, <1>4, <1>5, <1>6 DEF Next, NewGadgetInstance, Restart

(* In a program that does not crash a slot never has another gadget's       *)
(* options, although slots are freed and used again and the files are       *)
(* deleted, kept and rewritten apart from the table.                        *)
THEOREM OptionsFilesAreOwned ==
  ASSUME ~Restarts
  PROVE  Spec => []OptionsFileOwned
<1>1. Init => OptionsFileOwned
  BY DEF Init, OptionsFileOwned
<1>2. IInv /\ OptionsFileOwned /\ [Next]_vars => OptionsFileOwned'
  BY OwnersKept
<1> QED BY <1>1, <1>2, Invariance, PTL DEF Spec

-----------------------------------------------------------------------------
(* Calls that wait for a handler to load their instance. *)
Waits == {"new", "reuse", "load"}

(* In a stack s, over a table of statuses st and gadget ids id, with the    *)
(* instances ld loaded: what is loaded is active; only the start-up loop,   *)
(* outermost, is in the stack besides calls that wait; each of those is     *)
(* about an active instance of its gadget that is not loaded, no two about  *)
(* the same.                                                                *)
Held(s, st, id, ld) ==
  /\ \A i \in ld : i \in Ids /\ st[i] = Active
  /\ \A k \in 1 .. Len(s) : s[k].kind \in Waits \/ (s[k].kind = "enum" /\ k = 1)
  /\ \A k \in 1 .. Len(s) : s[k].kind \in Waits =>
       s[k].id \in Ids /\ st[s[k].id] = Active /\ id[s[k].id] = s[k].g /\ s[k].id \notin ld
  /\ \A k, m \in 1 .. Len(s) :
       s[k].kind \in Waits /\ s[m].kind \in Waits /\ s[k].id = s[m].id => k = m

(* Each active instance is loaded, waited for, or still ahead of the loop.  *)
Reached(s, st, ld) ==
  \A i \in Ids : st[i] = Active =>
    \/ i \in ld
    \/ \E k \in 1 .. Len(s) : s[k].kind \in Waits /\ s[k].id = i
    \/ Len(s) > 0 /\ s[1].kind = "enum" /\ s[1].id <= i /\ i < s[1].n

HeldNow == Held(calls, status, gid, loaded)
ReachedNow == Reached(calls, status, loaded)

(* What a step may do to the table while it deals with instance i. *)
Apart(i, st, id, ld, st2, id2, ld2) ==
  /\ \A j \in Ids : j # i =>
       /\ st2[j] = Active <=> st[j] = Active
       /\ st[j] = Active => id2[j] = id[j]
       /\ j \in ld2 <=> j \in ld
  /\ ld2 \subseteq Ids

LEMMA Push ==
  ASSUME NEW s \in Seq(Call), NEW c \in Call, c.kind \in Waits, c.id \in Ids,
         NEW st, NEW id, NEW ld, NEW st2, NEW id2,
         Apart(c.id, st, id, ld, st2, id2, ld),
         st2[c.id] = Active, id2[c.id] = c.g, c.id \notin ld,
         \A k \in 1 .. Len(s) : s[k].kind \in Waits => s[k].id # c.id
  PROVE  /\ Held(s, st, id, ld) => Held(Append(s, c), st2, id2, ld)
         /\ Reached(s, st, ld) => Reached(Append(s, c), st2, ld)
<1> DEFINE t == Append(s, c)
<1>1. /\ Len(t) = Len(s) + 1 /\ Len(s) \in Nat
      /\ \A k \in 1 .. Len(s) : t[k] = s[k]
      /\ t[Len(t)] = c
  OBVIOUS
<1>2. \A k \in 1 .. Len(t) : k \in 1 .. Len(s) \/ (k = Len(t) /\ t[k] = c)
  BY <1>1
<1> HIDE DEF t
<1>3. ASSUME Held(s, st, id, ld) PROVE Held(t, st2, id2, ld)
  <2>1. \A i \in ld : i \in Ids /\ st2[i] = Active
    BY <1>3 DEF Held, Apart
  <2>2. \A k \in 1 .. Len(t) : t[k].kind \in Waits \/ (t[k].kind = "enum" /\ k = 1)
    BY <1>1, <1>2, <1>3 DEF Held
  <2>3. ASSUME NEW k \in 1 .. Len(t), t[k].kind \in Waits
        PROVE  t[k].id \in Ids /\ st2[t[k].id] = Active /\ id2[t[k].id] = t[k].g /\ t[k].id \notin ld
    BY <1>1, <1>2, <1>3, <2>3 DEF Held, Apart
  <2>4. ASSUME NEW k \in 1 .. Len(t), NEW m \in 1 .. Len(t),
               t[k].kind \in Waits, t[m].kind \in Waits, t[k].id = t[m].id
        PROVE  k = m
    BY <1>1, <1>2, <1>3, <2>4 DEF Held
  <2> QED BY <2>1, <2>2, <2>3, <2>4 DEF Held
<1>4. ASSUME Reached(s, st, ld), NEW i \in Ids, st2[i] = Active
      PROVE  \/ i \in ld
             \/ \E k \in 1 .. Len(t) : t[k].kind \in Waits /\ t[k].id = i
             \/ Len(t) > 0 /\ t[1].kind = "enum" /\ t[1].id <= i /\ i < t[1].n
  <2>1. CASE i = c.id
    <3>1. Len(t) \in 1 .. Len(t)
      BY <1>1
    <3> QED BY <1>1, <2>1, <3>1
  <2>2. CASE i # c.id
    <3>1. st[i] = Active
      BY <1>4, <2>2 DEF Apart
    <3>2. \A k \in 1 .. Len(s) : k \in 1 .. Len(t) /\ t[k] = s[k]
      BY <1>1
    <3>3. Len(s) > 0 => Len(t) > 0 /\ t[1] = s[1]
      BY <1>1
    <3>4. \/ i \in ld
          \/ \E k \in 1 .. Len(s) : s[k].kind \in Waits /\ s[k].id = i
          \/ Len(s) > 0 /\ s[1].kind = "enum" /\ s[1].id <= i /\ i < s[1].n
      BY <1>4, <3>1 DEF Reached
    <3> QED BY <3>2, <3>3, <3>4
  <2> QED BY <2>1, <2>2
<1> QED BY <1>3, <1>4 DEF Reached, t

LEMMA Pop ==
  ASSUME NEW s \in Seq(Call), s # <<>>, s[Len(s)].kind \in Waits,
         NEW st, NEW id, NEW ld, NEW st2, NEW id2, NEW ld2,
         Held(s, st, id, ld),
         Apart(s[Len(s)].id, st, id, ld, st2, id2, ld2),
         s[Len(s)].id \in ld2 <=> st2[s[Len(s)].id] = Active
  PROVE  /\ Held(SubSeq(s, 1, Len(s) - 1), st2, id2, ld2)
         /\ Reached(s, st, ld) => Reached(SubSeq(s, 1, Len(s) - 1), st2, ld2)
<1> DEFINE t == SubSeq(s, 1, Len(s) - 1)
           i == s[Len(s)].id
<1>1. /\ Len(t) = Len(s) - 1 /\ Len(s) \in Nat /\ Len(s) > 0
      /\ \A k \in 1 .. Len(t) : t[k] = s[k]
  <2> DEFINE n == Len(s) - 1
  <2>1. Len(s) \in Nat /\ Len(s) > 0 /\ n \in 0 .. Len(s)
    OBVIOUS
  <2>2. /\ Len(SubSeq(s, 1, n)) = IF 1 <= n THEN n - 1 + 1 ELSE 0
        /\ \A k \in 1 .. n - 1 + 1 : SubSeq(s, 1, n)[k] = s[1 + k - 1]
    BY <2>1, SubSeqProperties
  <2> HIDE DEF n
  <2>3. n - 1 + 1 = n /\ (IF 1 <= n THEN n - 1 + 1 ELSE 0) = n /\ \A k \in 1 .. n : 1 + k - 1 = k
    BY <2>1
  <2>4. Len(SubSeq(s, 1, n)) = n /\ \A k \in 1 .. n : SubSeq(s, 1, n)[k] = s[k]
    BY <2>2, <2>3
  <2> QED BY <2>1, <2>4 DEF n
<1>2. \A k \in 1 .. Len(t) : k \in 1 .. Len(s) /\ k # Len(s) /\ Len(s) \in 1 .. Len(s)
  BY <1>1
<1>3. \A k \in 1 .. Len(t) : t[k].kind \in Waits => t[k].id # i
  BY <1>1, <1>2 DEF Held
<1>4. i \in Ids /\ st[i] = Active /\ i \notin ld
  BY <1>1, <1>2 DEF Held
<1> HIDE DEF t
<1>5. Held(t, st2, id2, ld2)
  <2>1. \A j \in ld2 : j \in Ids /\ st2[j] = Active
    BY DEF Held, Apart
  <2>2. \A k \in 1 .. Len(t) : t[k].kind \in Waits \/ (t[k].kind = "enum" /\ k = 1)
    BY <1>1, <1>2 DEF Held
  <2>3. ASSUME NEW k \in 1 .. Len(t), t[k].kind \in Waits
        PROVE  t[k].id \in Ids /\ st2[t[k].id] = Active /\ id2[t[k].id] = t[k].g /\ t[k].id \notin ld2
    <3>1. t[k].id \in Ids /\ st[t[k].id] = Active /\ id[t[k].id] = t[k].g /\ t[k].id \notin ld
      BY <1>1, <1>2, <2>3 DEF Held
    <3> QED BY <1>3, <2>3, <3>1 DEF Apart
  <2>4. \A k, m \in 1 .. Len(t) :
          t[k].kind \in Waits /\ t[m].kind \in Waits /\ t[k].id = t[m].id => k = m
    BY <1>1, <1>2 DEF Held
  <2> QED BY <2>1, <2>2, <2>3, <2>4 DEF Held
<1>6. ASSUME Reached(s, st, ld), NEW j \in Ids, st2[j] = Active
      PROVE  \/ j \in ld2
             \/ \E k \in 1 .. Len(t) : t[k].kind \in Waits /\ t[k].id = j
             \/ Len(t) > 0 /\ t[1].kind = "enum" /\ t[1].id <= j /\ j < t[1].n
  <2>1. CASE j = i
    BY <1>6, <2>1
  <2>2. CASE j # i
    <3>1. st[j] = Active
      BY <1>6, <2>2 DEF Apart
    <3>2. \/ j \in ld
          \/ \E k \in 1 .. Len(s) : s[k].kind \in Waits /\ s[k].id = j
          \/ Len(s) > 0 /\ s[1].kind = "enum" /\ s[1].id <= j /\ j < s[1].n
      BY <1>6, <3>1 DEF Reached
    <3>3. ASSUME NEW k \in 1 .. Len(s), s[k].kind \in Waits, s[k].id = j
          PROVE  k \in 1 .. Len(t) /\ t[k] = s[k]
      <4>1. k # Len(s)
        BY <2>2, <3>3
      <4> QED BY <1>1, <4>1
    <3>4. s[1].kind = "enum" => 1 \in 1 .. Len(t)
      <4> SUFFICES ASSUME s[1].kind = "enum" PROVE Len(s) # 1
        BY <1>1
      <4> QED BY DEF Waits
    <3>5. s[1].kind = "enum" => Len(t) > 0 /\ t[1] = s[1]
      BY <1>1, <3>4
    <3> QED BY <2>2, <3>2, <3>3, <3>5 DEF Apart
  <2> QED BY <2>1, <2>2
<1> QED BY <1>5, <1>6 DEF Reached, t

(* The stack stays and no call waits for instance i, which is no longer     *)
(* active.                                                                  *)
LEMMA Drop ==
  ASSUME NEW s, NEW i \in Ids,
         NEW st, NEW id, NEW ld, NEW st2, NEW id2, NEW ld2,
         Held(s, st, id, ld), i \in ld, i \notin ld2, st2[i] # Active,
         Apart(i, st, id, ld, st2, id2, ld2)
  PROVE  /\ Held(s, st2, id2, ld2)
         /\ Reached(s, st, ld) => Reached(s, st2, ld2)
<1>1. \A k \in 1 .. Len(s) : s[k].kind \in Waits => s[k].id # i
  BY DEF Held
<1>2. Held(s, st2, id2, ld2)
  BY <1>1 DEF Held, Apart
<1>3. Reached(s, st, ld) => Reached(s, st2, ld2)
  BY DEF Reached, Apart
<1> QED BY <1>2, <1>3

-----------------------------------------------------------------------------
(* The steps of the manager. *)
LEMMA RemoveIsApart ==
  ASSUME IInv, NEW i \in Ids, IsActive(i), RemoveInternal(i), loaded \subseteq Ids
  PROVE  /\ Apart(i, status, gid, loaded, status', gid', loaded')
         /\ status'[i] # Active /\ i \notin loaded'
<1>1. /\ \A j \in Expiring : j \in Ids /\ status[j] >= 2
      /\ \A j \in Ids : j # i =>
           /\ status'[j] = 1 <=> status[j] = 1
           /\ j \notin Expiring => gid'[j] = gid[j]
      /\ status'[i] # 1
  BY RemoveEffect
<1>2. loaded' = loaded \ {i}
  BY DEF RemoveInternal
<1>3. \A j \in Ids : status[j] = 1 => j \notin Expiring
  BY <1>1
<1> QED BY <1>1, <1>2, <1>3 DEF Apart, Active

LEMMA AppendToOne ==
  ASSUME NEW s \in Seq(Call), NEW c \in Call
  PROVE  Len(s) = 1 =>
           Len(Append(s, c)) = 2 /\ Append(s, c)[1] = s[1] /\ Append(s, c)[2] = c
<1> DEFINE t == Append(s, c)
<1>1. /\ Len(t) = Len(s) + 1 /\ Len(s) \in Nat
      /\ \A k \in 1 .. Len(s) : t[k] = s[k]
      /\ t[Len(t)] = c
  OBVIOUS
<1> HIDE DEF t
<1>2. Len(s) = 1 => Len(t) = 2 /\ t[1] = s[1] /\ t[2] = c
  BY <1>1
<1> QED BY <1>2 DEF t

LEMMA NewIsHeld ==
  ASSUME IInv, NEW g \in Gadgets, NEW i \in Ids, NEW kind \in {"new", "reuse"},
         ~IsActive(i), HeldNow,
         calls' = Append(calls, NewCall(kind, i, 0, g)),
         status' = [status EXCEPT ![i] = Active], gid' = [gid EXCEPT ![i] = g],
         loaded' = loaded
  PROVE  HeldNow' /\ (ReachedNow => ReachedNow')
<1> DEFINE c == NewCall(kind, i, 0, g)
<1>1. calls \in Seq(Call) /\ status \in [Ids -> 0 .. Threshold - 1] /\ gid \in [Ids -> GadgetOrNone]
      /\ loaded \subseteq Ids
  BY DEF IInv, TypeOK
<1>2. c \in Call /\ c.kind \in Waits /\ c.id = i /\ c.g = g
  BY DEF NewCall, Call, Handlers, GadgetOrNone, Waits
<1> HIDE DEF c
<1>3. Apart(i, status, gid, loaded, status', gid', loaded) /\ status'[i] = Active /\ gid'[i] = g
  BY <1>1 DEF Apart
<1>4. i \notin loaded /\ \A k \in 1 .. Len(calls) : calls[k].kind \in Waits => calls[k].id # i
  BY DEF HeldNow, Held, IsActive
<1>5. /\ HeldNow => Held(Append(calls, c), status', gid', loaded)
      /\ ReachedNow => Reached(Append(calls, c), status', loaded)
  BY <1>1, <1>2, <1>3, <1>4, Push DEF HeldNow, ReachedNow
<1> QED BY <1>5 DEF HeldNow, ReachedNow, c

LEMMA StepHolds ==
  ASSUME Gadgets \subseteq Local, IInv, HeldNow, [Next]_vars
  PROVE  HeldNow' /\ (Unsupported = {} /\ ReachedNow => ReachedNow')
<1> USE ConstantsAssumption
<1>0. calls \in Seq(Call) /\ status \in [Ids -> 0 .. Threshold - 1] /\ gid \in [Ids -> GadgetOrNone]
      /\ loaded \subseteq Ids /\ size \in 0 .. MaxInstances
  BY DEF IInv, TypeOK
<1>1. ASSUME NEW g \in Gadgets, NEW i \in Ids, NEW ok \in BOOLEAN, Reuse(g, i, ok)
      PROVE  HeldNow' /\ (Unsupported = {} /\ ReachedNow => ReachedNow')
  <2>1. /\ status[i] # Active /\ gid[i] = g
        /\ status' = [status EXCEPT ![i] = Active] /\ gid' = gid /\ loaded' = loaded
        /\ ok \/ g \in Unsupported
    BY <1>0, <1>1 DEF Reuse, CanReuse, IsInactive, InitInstanceOptions, Active, InactiveStart
  <2>2. CASE ok
    <3>1. calls' = Append(calls, NewCall("reuse", i, 0, g)) /\ gid' = [gid EXCEPT ![i] = g]
      BY <1>0, <1>1, <2>1, <2>2 DEF Reuse
    <3> QED BY <2>1, <3>1, NewIsHeld DEF IsActive
  <2>3. CASE ~ok
    <3>1. calls' = calls /\ Unsupported # {}
      BY <1>1, <2>1, <2>3 DEF Reuse
    <3>2. \A j \in Ids : status[j] = Active => status'[j] = Active
      BY <1>0, <2>1
    <3> QED BY <2>1, <3>1, <3>2 DEF HeldNow, Held
  <2> QED BY <2>2, <2>3
<1>2. ASSUME NEW g \in Gadgets, NEW i \in Ids, NEW ok \in BOOLEAN, Create(g, i, ok)
      PROVE  HeldNow' /\ (Unsupported = {} /\ ReachedNow => ReachedNow')
  <2>1. loaded' = loaded
    BY <1>2 DEF Create
  <2>2. CASE ok
    <3>1. /\ calls' = Append(calls, NewCall("new", i, 0, g))
          /\ status' = [status EXCEPT ![i] = Active] /\ gid' = [gid EXCEPT ![i] = g]
      BY <1>2, <2>2 DEF Create
    <3>2. status[i] # Active
      <4>1. FreeSlot(i)
        BY <1>2 DEF Create
      <4>2. i = size => status[i] = None
        BY DEF IInv, MaxIdCovers, Ids
      <4> QED BY <4>1, <4>2 DEF FreeSlot, None, Active
    <3> QED BY <2>1, <3>1, <3>2, NewIsHeld DEF IsActive
  <2>3. CASE ~ok
    BY <1>2, <2>1, <2>3 DEF Create, HeldNow, ReachedNow
  <2> QED BY <2>2, <2>3
<1>3. ASSUME Accept \/ Veto
      PROVE  HeldNow' /\ (ReachedNow => ReachedNow')
  <2>1. calls # <<>> /\ Top.kind \in Handlers /\ calls' = Return
    BY <1>3 DEF Accept, Veto
  <2>2. Len(calls) \in 1 .. Len(calls)
    BY <1>0, <2>1
  <2>3. Top.kind \in Waits /\ Top.id \in Ids /\ IsActive(Top.id)
    BY <2>1, <2>2 DEF Top, HeldNow, Held, Handlers, IsActive
  <2>4. CASE Accept
    <3>1. status' = status /\ gid' = gid /\ loaded' = loaded \cup {Top.id}
      BY <2>4 DEF Accept
    <3>2. Apart(Top.id, status, gid, loaded, status', gid', loaded')
      BY <1>0, <2>3, <3>1 DEF Apart
    <3>3. Top.id \in loaded' <=> status'[Top.id] = Active
      BY <2>3, <3>1 DEF IsActive
    <3> QED BY <1>0, <2>1, <2>3, <3>2, <3>3, Pop DEF HeldNow, ReachedNow, Top, Return
  <2>5. CASE Veto
    <3>1. RemoveInternal(Top.id)
      BY <2>3, <2>5 DEF Veto
    <3>2. /\ Apart(Top.id, status, gid, loaded, status', gid', loaded')
          /\ status'[Top.id] # Active /\ Top.id \notin loaded'
      BY <1>0, <2>3, <3>1, RemoveIsApart
    <3> QED BY <1>0, <2>1, <2>3, <3>2, Pop DEF HeldNow, ReachedNow, Top, Return
  <2> QED BY <1>3, <2>4, <2>5
<1>4. ASSUME NEW i \in Ids, RemoveGadget(i)
      PROVE  HeldNow' /\ (ReachedNow => ReachedNow')
  <2>1. i \in loaded /\ IsActive(i) /\ RemoveInternal(i) /\ calls' = calls
    BY <1>4 DEF RemoveGadget
  <2>2. /\ Apart(i, status, gid, loaded, status', gid', loaded')
        /\ status'[i] # Active /\ i \notin loaded'
    BY <1>0, <2>1, RemoveIsApart
  <2> QED BY <2>1, <2>2, Drop DEF HeldNow, ReachedNow
<1>5. ASSUME NEW i \in Ids, DiscardOptions(i)
      PROVE  HeldNow' /\ (ReachedNow => ReachedNow')
  BY <1>5 DEF DiscardOptions, HeldNow, ReachedNow
<1>6. ASSUME NEW g \in Gadgets, SaveGadget(g) PROVE FALSE
  BY <1>6 DEF SaveGadget
<1>7. ASSUME VetoIgnored \/ UpdateNext PROVE FALSE
  <2>1. calls # <<>> /\ Top.kind \in {"renew", "update"}
    BY <1>7 DEF VetoIgnored, UpdateNext
  <2>2. Len(calls) \in 1 .. Len(calls)
    BY <1>0, <2>1
  <2> QED BY <2>1, <2>2 DEF HeldNow, Held, Waits, Top
<1>8. ASSUME Restart PROVE HeldNow' /\ ReachedNow'
  <2>1. /\ calls' = <<NewCall("enum", 0, size', NoGadget)>> /\ loaded' = {}
    BY <1>8 DEF Restart
  <2>2. IInv'
    BY <1>8, RestartKeepsTable
  <2>3. /\ Len(calls') = 1 /\ calls'[1].kind = "enum"
        /\ calls'[1].id = 0 /\ calls'[1].n = size'
    BY <2>1 DEF NewCall
  <2>4. \A i \in Ids : 0 <= i /\ (status'[i] = Active => i < size')
    BY <2>2 DEF IInv, MaxIdCovers, Ids, Active, None
  <2> QED BY <2>1, <2>3, <2>4 DEF HeldNow, ReachedNow, Held, Reached, Waits
<1>9. ASSUME EnumNext PROVE HeldNow' /\ (ReachedNow => ReachedNow')
  <2>1. calls # <<>> /\ Top.kind = "enum" /\ UNCHANGED <<status, gid, loaded>>
    BY <1>9 DEF EnumNext
  <2>2. Len(calls) = 1 /\ Top = calls[1] /\ calls[1] \in Call
    <3>1. Len(calls) \in 1 .. Len(calls)
      BY <1>0, <2>1
    <3>2. Len(calls) = 1
      BY <2>1, <3>1 DEF HeldNow, Held, Waits, Top
    <3> QED BY <1>0, <3>1, <3>2 DEF Top
  <2>3. /\ calls[1].id \in Nat /\ calls[1].n \in 0 .. MaxInstances
        /\ calls[1].kind = "enum"
    BY <2>1, <2>2 DEF Call, Handlers
  <2> DEFINE i == calls[1].id
             on == [calls EXCEPT ![1].id = i + 1]
  <2>4. CASE i >= calls[1].n
    <3>1. calls' = Return /\ Len(calls') = 0
      BY <1>0, <1>9, <2>2, <2>4 DEF EnumNext, Return
    <3>2. ReachedNow => \A j \in Ids : status[j] = Active => j \in loaded
      <4>1. \A j \in Ids : ~(i <= j /\ j < calls[1].n)
        BY <2>3, <2>4 DEF Ids
      <4> QED BY <2>2, <2>3, <4>1 DEF ReachedNow, Reached, Waits
    <3> QED BY <2>1, <3>1, <3>2 DEF HeldNow, Held, ReachedNow, Reached
  <2>5. CASE ~(i >= calls[1].n)
    <3>1. calls' = IF IsActive(i) /\ i \notin loaded
                   THEN Append(on, NewCall("load", i, 0, gid[i])) ELSE on
      BY <1>9, <2>2, <2>5 DEF EnumNext
    <3>2. i \in Ids
      BY <2>3, <2>5 DEF Ids
    <3>3. [calls[1] EXCEPT !.id = i + 1] \in Call /\ calls[1] \in Call
      BY <2>2, <2>3, <2>5 DEF Call, Handlers
    <3>8. on = [calls EXCEPT ![1] = [calls[1] EXCEPT !.id = i + 1]]
      OBVIOUS
    <3>9. /\ [calls[1] EXCEPT !.id = i + 1].kind = "enum"
          /\ [calls[1] EXCEPT !.id = i + 1].id = i + 1
          /\ [calls[1] EXCEPT !.id = i + 1].n = calls[1].n
      BY <2>3, <3>3 DEF Call, Handlers
    <3>4. /\ on \in Seq(Call) /\ Len(on) = 1 /\ on[1].kind = "enum"
          /\ on[1].id = i + 1 /\ on[1].n = calls[1].n
      <4> DEFINE e == [calls[1] EXCEPT !.id = i + 1]
      <4> HIDE DEF e, on
      <4>1. on = [calls EXCEPT ![1] = e] /\ e \in Call
        BY <3>3, <3>8 DEF e
      <4>2. on \in Seq(Call) /\ Len(on) = 1 /\ on[1] = e
        <5>1. 1 \in 1 .. Len(calls)
          BY <2>2
        <5> QED BY <1>0, <2>2, <4>1, <5>1, ExceptSeq
      <4> QED BY <3>9, <4>2 DEF e
    <3> HIDE DEF on, i
    <3>5. Held(on, status, gid, loaded)
      BY <3>4 DEF HeldNow, Held, Waits
    <3>6. CASE ~(IsActive(i) /\ i \notin loaded)
      <4>1. ReachedNow => Reached(on, status, loaded)
        <5> SUFFICES ASSUME ReachedNow, NEW j \in Ids, status[j] = Active, j \notin loaded
                     PROVE  i + 1 <= j /\ j < on[1].n
          BY <3>4 DEF Reached
        <5>1. i <= j /\ j < calls[1].n
          BY <2>2, <2>3 DEF ReachedNow, Reached, Waits, i
        <5>2. i # j
          BY <3>6 DEF IsActive
        <5> QED BY <3>2, <3>4, <5>1, <5>2 DEF Ids
      <4> QED BY <2>1, <3>1, <3>5, <3>6, <4>1 DEF HeldNow, ReachedNow
    <3>7. CASE IsActive(i) /\ i \notin loaded
      <4> DEFINE c == NewCall("load", i, 0, gid[i])
      <4>1. c \in Call /\ c.kind \in Waits /\ c.id = i /\ c.g = gid[i]
        BY <1>0, <3>2 DEF NewCall, Call, Handlers, Waits
      <4> HIDE DEF c
      <4>2. calls' = Append(on, c)
        BY <3>1, <3>7 DEF c
      <4>3. Apart(c.id, status, gid, loaded, status, gid, loaded)
        BY <1>0 DEF Apart
      <4>4. \A k \in 1 .. Len(on) : on[k].kind \notin Waits
        BY <3>4 DEF Waits
      <4>5. Held(Append(on, c), status, gid, loaded)
        BY <3>4, <3>5, <3>7, <4>1, <3>2, <4>3, <4>4, Push DEF IsActive
      <4>6. ReachedNow => Reached(Append(on, c), status, loaded)
        <5>1. Len(Append(on, c)) = 2 /\ Append(on, c)[1] = on[1] /\ Append(on, c)[2] = c
          <6>1. on \in Seq(Call) /\ Len(on) = 1 /\ c \in Call
            BY <3>4, <4>1
          <6> QED BY <6>1, AppendToOne
        <5> SUFFICES ASSUME ReachedNow, NEW j \in Ids, status[j] = Active, j \notin loaded, j # i
                     PROVE  i + 1 <= j /\ j < on[1].n
          <6>1. \A j \in Ids : j = i => \E k \in 1 .. 2 : Append(on, c)[k].kind \in Waits /\ Append(on, c)[k].id = j
            BY <4>1, <5>1
          <6> QED BY <3>4, <5>1, <6>1 DEF Reached
        <5>2. i <= j /\ j < calls[1].n
          BY <2>2, <2>3 DEF ReachedNow, Reached, Waits, i
        <5> QED BY <3>2, <3>4, <5>2 DEF Ids
      <4> QED BY <2>1, <4>2, <4>5, <4>6 DEF HeldNow, ReachedNow
    <3> QED BY <3>6, <3>7
  <2> QED BY <2>4, <2>5
<1>10. CASE Flush \/ UNCHANGED vars
  BY <1>10 DEF Flush, vars, HeldNow, ReachedNow
<1> QED BY <1>1, <1>2, <1>3, <1>4, <1>5, <1>6, <1>7, <1>8, <1>9, <1>10 DEF Next, NewGadgetInstance

(* Without updates in place a late veto finds the instance its call made:   *)
(* active, of the same gadget and not loaded, and of no other call, however *)
(* handlers, removals, expiry and restarts mix.                             *)
THEOREM PendingCallsAreOwn ==
  ASSUME Gadgets \subseteq Local
  PROVE  Spec => []PendingIsOwn
<1>1. Init => HeldNow
  BY DEF Init, HeldNow, Held
<1>2. IInv /\ HeldNow /\ [Next]_vars => HeldNow'
  BY StepHolds
<1>3. HeldNow => PendingIsOwn
  BY DEF HeldNow, Held, PendingIsOwn, Waits, IsActive
<1> QED BY <1>1, <1>2, <1>3, Invariance, PTL DEF Spec

(* When moreover options files can always be initialised, the gadgets of    *)
(* the host are exactly the active instances whenever no call is under way, *)
(* also after a start in whose loop other calls came.                       *)
THEOREM ActiveInstancesAreLoaded ==
  ASSUME Gadgets \subseteq Local, Unsupported = {}
  PROVE  Spec => []ActiveIsLoaded
<1>1. Init => HeldNow /\ ReachedNow
  <2>1. Init => \A i \in Ids : status[i] # Active
    BY DEF Init, None, Active
  <2> QED BY <2>1 DEF Init, HeldNow, Held, ReachedNow, Reached
<1>2. IInv /\ (HeldNow /\ ReachedNow) /\ [Next]_vars => (HeldNow /\ ReachedNow)'
  BY StepHolds
<1>3. HeldNow /\ ReachedNow => ActiveIsLoaded
  BY DEF HeldNow, Held, ReachedNow, Reached, ActiveIsLoaded, IsActive
<1> QED BY <1>1, <1>2, <1>3, Invariance, PTL DEF Spec
=============================================================================
