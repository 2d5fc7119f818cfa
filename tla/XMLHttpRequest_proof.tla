------------------------- MODULE XMLHttpRequest_proof -------------------------
(* The object outlives its transfers, whatever calls the script makes in    *)
(* its handlers, as long as they show no dialogs, for any number of         *)
(* requests, transfers, pieces and nested calls.  Its references are        *)
(* counted: one of the script, one of each transfer whose DoneTask has not  *)
(* begun, and one of the DoneTask that is running.  The queue gives a       *)
(* transfer's DoneTask last, and the stack ends a DoneTask by letting go of *)
(* its reference.                                                           *)
EXTENDS XMLHttpRequest, TLAPS, SequenceTheorems, FiniteSetTheorems

-----------------------------------------------------------------------------
(* What a call has left to do. *)
Unrefs(todo) == \E j \in 1 .. Len(todo) : todo[j] = "unref"
Performs(todo) == \E j \in 1 .. Len(todo) : todo[j] = "perform"
Ending(todo) ==
  /\ Len(todo) > 0 /\ todo[Len(todo)] = "unref"
  /\ \A j \in 1 .. Len(todo) :
       j < Len(todo) => todo[j] \in {"write", "loading", "loaded", "finish"}

(* Of a stack s, with the contexts ws: only the outermost call is a         *)
(* DoneTask's, which lets go of its reference last; a call that performs a  *)
(* transfer works for a synchronous one; every call has something to do.    *)
FramesOK(s, ws) ==
  \A k \in 1 .. Len(s) :
    /\ s[k].event # "none" \/ s[k].todo # <<>>
    /\ Unrefs(s[k].todo) => k = 1 /\ Ending(s[k].todo)
    /\ Performs(s[k].todo) => s[k].w \in 1 .. Len(ws) /\ ~ws[s[k].w].async
UnrefsAtLast(s) == Len(s) > 0 /\ Unrefs(s[1].todo)

(* Of a queue q: tasks are of asynchronous transfers that go on or have     *)
(* their DoneTask behind, and after that one there is nothing of theirs.    *)
IsDone(task, w) == task.kind = "done" /\ task.w = w
Goes(ws, w) == ws[w].async /\ ws[w].thread # "ended"
QueueOK(q, ws) ==
  \A k \in 1 .. Len(q) :
    /\ q[k].w \in 1 .. Len(ws) /\ ws[q[k].w].async
    /\ Goes(ws, q[k].w) \/ \E m \in 1 .. Len(q) : k <= m /\ IsDone(q[m], q[k].w)
    /\ q[k].kind = "done" =>
         /\ ~Goes(ws, q[k].w)
         /\ \A m \in 1 .. Len(q) : q[m].w = q[k].w => m <= k
Reporting(q, ws) ==
  {w \in 1 .. Len(ws) : ws[w].async /\
     (Goes(ws, w) \/ \E k \in 1 .. Len(q) : IsDone(q[k], w))}

Count(unreported, own, ending) ==
  Cardinality(unreported) + (IF own THEN 1 ELSE 0) + (IF ending THEN 1 ELSE 0)

Typed ==
  /\ curl \in Addrs \cup {NoHandle} /\ request \in 0 .. MaxOpens
  /\ async \in BOOLEAN /\ owned \in BOOLEAN
  /\ workers \in Seq(Worker) /\ Len(workers) <= MaxSends
  /\ tasks \in Seq(Task) /\ stack \in Seq(Call)

Inv ==
  /\ Typed
  /\ FramesOK(stack, workers)
  /\ QueueOK(tasks, workers)
  /\ Len(stack) > 0 => owned \/ UnrefsAtLast(stack) \/ Reporting(tasks, workers) # {}
  /\ refs = Count(Reporting(tasks, workers), owned, UnrefsAtLast(stack))

-----------------------------------------------------------------------------
(* What is left after the first piece, and with one more before it. *)
LEMMA RestOf ==
  ASSUME NEW t \in Seq(Labels), t # <<>>
  PROVE  /\ Tail(t) \in Seq(Labels)
         /\ Len(Tail(t)) = Len(t) - 1 /\ Len(t) \in Nat /\ Len(t) > 0
         /\ \A j \in 1 .. Len(t) - 1 : Tail(t)[j] = t[j + 1]
OBVIOUS

LEMMA RestKeeps ==
  ASSUME NEW t \in Seq(Labels), t # <<>>, Unrefs(t) => Ending(t)
  PROVE  /\ Tail(t) \in Seq(Labels)
         /\ Performs(Tail(t)) => Performs(t)
         /\ Unrefs(Tail(t)) => Ending(Tail(t))
         /\ t[1] # "unref" => (Unrefs(Tail(t)) <=> Unrefs(t))
         /\ t[1] = "unref" => Tail(t) = <<>>
<1> DEFINE r == Tail(t)
<1>1. /\ r \in Seq(Labels)
      /\ Len(r) = Len(t) - 1 /\ Len(t) \in Nat /\ Len(t) > 0
      /\ \A j \in 1 .. Len(t) - 1 : r[j] = t[j + 1]
  BY RestOf
<1> HIDE DEF r
<1>2. Len(r) = 0 => r = <<>>
  BY <1>1
<1>3. \A j \in 1 .. Len(r) : j + 1 \in 1 .. Len(t) /\ r[j] = t[j + 1]
  BY <1>1
<1>4. \A j \in 1 .. Len(t) : j # 1 => j - 1 \in 1 .. Len(r) /\ r[j - 1] = t[j]
  BY <1>1
<1>5. Performs(r) => Performs(t)
  BY <1>3 DEF Performs
<1>6. Unrefs(r) => Unrefs(t)
  BY <1>3 DEF Unrefs
<1>7. t[1] # "unref" => (Unrefs(t) => Unrefs(r))
  BY <1>4 DEF Unrefs
<1>8. Unrefs(r) => Ending(r)
  <2> SUFFICES ASSUME Unrefs(r) PROVE Ending(r)
    OBVIOUS
  <2>1. Ending(t) /\ Len(r) > 0
    BY <1>1, <1>6 DEF Unrefs
  <2>2. r[Len(r)] = "unref"
    BY <1>1, <2>1 DEF Ending
  <2> QED BY <1>1, <1>3, <2>1, <2>2 DEF Ending
<1>9. ASSUME t[1] = "unref" PROVE r = <<>>
  <2>1. 1 \in 1 .. Len(t)
    BY <1>1
  <2>2. Ending(t)
    BY <1>9, <2>1 DEF Unrefs
  <2>3. Len(t) = 1
    BY <1>1, <1>9, <2>1, <2>2 DEF Ending
  <2> QED BY <1>1, <1>2, <2>3
<1> QED BY <1>1, <1>5, <1>6, <1>7, <1>8, <1>9 DEF r

LEMMA BeforeKeeps ==
  ASSUME NEW t \in Seq(Labels), NEW x \in Labels \ {"unref", "perform"}
  PROVE  /\ <<x>> \o t \in Seq(Labels) /\ <<x>> \o t # <<>>
         /\ Performs(<<x>> \o t) => Performs(t)
         /\ Unrefs(<<x>> \o t) <=> Unrefs(t)
         /\ x \in {"write", "loading", "loaded"} /\ Ending(t) => Ending(<<x>> \o t)
<1> DEFINE r == <<x>> \o t
<1>1. /\ r \in Seq(Labels) /\ r # <<>>
      /\ Len(r) = Len(t) + 1 /\ Len(t) \in Nat
      /\ r[1] = x /\ \A j \in 1 .. Len(t) : r[j + 1] = t[j]
  <2>1. <<x>> \in Seq(Labels) /\ Len(<<x>>) = 1 /\ <<x>>[1] = x
    BY DEF Labels
  <2> QED BY <2>1
<1> HIDE DEF r
<1>2. \A j \in 1 .. Len(r) : j = 1 \/ (j - 1 \in 1 .. Len(t) /\ r[j] = t[j - 1])
  BY <1>1
<1>3. \A j \in 1 .. Len(t) : j + 1 \in 1 .. Len(r) /\ r[j + 1] = t[j]
  BY <1>1
<1>4. Performs(r) => Performs(t)
  BY <1>1, <1>2 DEF Performs
<1>5. Unrefs(r) => Unrefs(t)
  BY <1>1, <1>2 DEF Unrefs
<1>6. Unrefs(t) => Unrefs(r)
  BY <1>3 DEF Unrefs
<1>7. ASSUME x \in {"write", "loading", "loaded"}, Ending(t) PROVE Ending(r)
  <2>1. Len(r) > 0 /\ r[Len(r)] = "unref"
    BY <1>1, <1>7 DEF Ending
  <2>2. ASSUME NEW j \in 1 .. Len(r), j < Len(r)
        PROVE  r[j] \in {"write", "loading", "loaded", "finish"}
    <3>1. CASE j = 1
      BY <1>1, <1>7, <3>1
    <3>2. CASE j # 1
      <4>1. j - 1 \in 1 .. Len(t) /\ r[j] = t[j - 1] /\ j - 1 < Len(t)
        BY <1>1, <1>2, <2>2, <3>2
      <4> QED BY <1>7, <4>1 DEF Ending
    <3> QED BY <3>1, <3>2
  <2> QED BY <2>1, <2>2 DEF Ending
<1> QED BY <1>1, <1>4, <1>5, <1>6, <1>7 DEF r

-----------------------------------------------------------------------------
(* Stacks. *)

(* Contexts ws2 are those of ws further on, perhaps with others added;      *)
(* Grown, if these are synchronous and no asynchronous one has ended.       *)
Longer(ws, ws2) ==
  /\ Len(ws) \in Nat /\ Len(ws2) \in Nat /\ Len(ws) <= Len(ws2)
  /\ \A w \in 1 .. Len(ws) : ws2[w].async <=> ws[w].async
Grown(ws, ws2) ==
  /\ Longer(ws, ws2)
  /\ \A w \in 1 .. Len(ws) : ws[w].async => (ws2[w].thread = "ended" <=> ws[w].thread = "ended")
  /\ \A w \in 1 .. Len(ws2) : w > Len(ws) => ~ws2[w].async

Event == States \cup {"ABORTED", "none"}

LEMMA PushShape ==
  ASSUME NEW s \in Seq(Call), NEW ev \in Event, NEW t \in Seq(Labels),
         NEW w \in 0 .. MaxSends, NEW wrote \in BOOLEAN
  PROVE  /\ Push(s, ev, t, w, wrote) \in Seq(Call)
         /\ \/ ev = "none" /\ t = <<>> /\ Push(s, ev, t, w, wrote) = s
            \/ /\ Len(Push(s, ev, t, w, wrote)) = Len(s) + 1
               /\ \A k \in 1 .. Len(s) : Push(s, ev, t, w, wrote)[k] = s[k]
               /\ Push(s, ev, t, w, wrote)[Len(s) + 1].todo = t
               /\ Push(s, ev, t, w, wrote)[Len(s) + 1].w = w
               /\ \/ Push(s, ev, t, w, wrote)[Len(s) + 1].event # "none"
                  \/ t # <<>>
<1> DEFINE c == [event |-> ev, todo |-> t, w |-> w, wrote |-> wrote]
<1>1. c \in Call /\ c.todo = t /\ c.w = w /\ c.event = ev
  BY DEF Call, Event
<1> HIDE DEF c
<1>2. CASE ev = "none" /\ t = <<>>
  BY <1>2 DEF Push
<1>3. CASE ~(ev = "none" /\ t = <<>>)
  <2>1. Push(s, ev, t, w, wrote) = Append(s, c)
    BY <1>3 DEF Push, c
  <2>2. /\ Append(s, c) \in Seq(Call) /\ Len(Append(s, c)) = Len(s) + 1
        /\ \A k \in 1 .. Len(s) : Append(s, c)[k] = s[k]
        /\ Append(s, c)[Len(s) + 1] = c
    BY <1>1, AppendProperties
  <2> QED BY <1>1, <1>3, <2>1, <2>2
<1> QED BY <1>2, <1>3

(* A new call. *)
LEMMA EnterFrames ==
  ASSUME NEW s \in Seq(Call), NEW ev \in Event, NEW t \in Seq(Labels),
         NEW w \in 0 .. MaxSends, NEW wrote \in BOOLEAN,
         NEW ws, FramesOK(s, ws),
         Unrefs(t) => Len(s) = 0 /\ Ending(t), ~Performs(t)
  PROVE  /\ Push(s, ev, t, w, wrote) \in Seq(Call)
         /\ FramesOK(Push(s, ev, t, w, wrote), ws)
         /\ UnrefsAtLast(Push(s, ev, t, w, wrote)) <=> UnrefsAtLast(s) \/ Unrefs(t)
<1> DEFINE p == Push(s, ev, t, w, wrote)
<1>1. /\ p \in Seq(Call)
      /\ \/ ev = "none" /\ t = <<>> /\ p = s
         \/ /\ Len(p) = Len(s) + 1 /\ p[Len(s) + 1].todo = t
            /\ p[Len(s) + 1].event # "none" \/ t # <<>>
            /\ \A k \in 1 .. Len(s) : p[k] = s[k]
  BY PushShape
<1> HIDE DEF p
<1>2. CASE ev = "none" /\ t = <<>> /\ p = s
  <2>1. ~Unrefs(t)
    BY <1>2 DEF Unrefs
  <2> QED BY <1>1, <1>2, <2>1 DEF p
<1>3. CASE /\ Len(p) = Len(s) + 1 /\ p[Len(s) + 1].todo = t
           /\ p[Len(s) + 1].event # "none" \/ t # <<>>
           /\ \A k \in 1 .. Len(s) : p[k] = s[k]
  <2>1. Len(s) \in Nat
    OBVIOUS
  <2>2. \A k \in 1 .. Len(p) : k \in 1 .. Len(s) \/ k = Len(s) + 1
    BY <1>3, <2>1
  <2>3. FramesOK(p, ws)
    <3> SUFFICES ASSUME NEW k \in 1 .. Len(p)
                 PROVE  /\ p[k].event # "none" \/ p[k].todo # <<>>
                        /\ Unrefs(p[k].todo) => k = 1 /\ Ending(p[k].todo)
                        /\ Performs(p[k].todo) => p[k].w \in 1 .. Len(ws) /\ ~ws[p[k].w].async
      BY DEF FramesOK
    <3>1. CASE k \in 1 .. Len(s)
      <4>1. p[k] = s[k]
        BY <1>3, <3>1
      <4> QED BY <3>1, <4>1 DEF FramesOK
    <3>2. CASE k = Len(s) + 1
      BY <1>3, <3>2
    <3> QED BY <2>2, <3>1, <3>2
  <2>4. UnrefsAtLast(p) <=> UnrefsAtLast(s) \/ Unrefs(t)
    <3>1. CASE Len(s) = 0
      BY <1>3, <3>1 DEF UnrefsAtLast
    <3>2. CASE Len(s) > 0
      <4>1. p[1] = s[1]
        BY <1>3, <2>1, <3>2
      <4> QED BY <1>3, <2>1, <3>2, <4>1 DEF UnrefsAtLast
    <3> QED BY <2>1, <3>1, <3>2
  <2> QED BY <1>1, <2>3, <2>4 DEF p
<1> QED BY <1>1, <1>2, <1>3

(* The stack below the top call. *)
LEMMA BelowShape ==
  ASSUME NEW s \in Seq(Call), s # <<>>
  PROVE  /\ SubSeq(s, 1, Len(s) - 1) \in Seq(Call)
         /\ Len(SubSeq(s, 1, Len(s) - 1)) = Len(s) - 1
         /\ \A k \in 1 .. Len(s) - 1 : SubSeq(s, 1, Len(s) - 1)[k] = s[k]
<1> DEFINE n == Len(s) - 1
<1>1. Len(s) \in Nat /\ n \in 0 .. Len(s) /\ n \in Nat
  OBVIOUS
<1>2. \A i \in 1 .. n : s[i] \in Call
  BY <1>1
<1>3. /\ SubSeq(s, 1, n) \in Seq(Call)
      /\ Len(SubSeq(s, 1, n)) = IF 1 <= n THEN n - 1 + 1 ELSE 0
      /\ \A k \in 1 .. n - 1 + 1 : SubSeq(s, 1, n)[k] = s[1 + k - 1]
  BY <1>1, <1>2, SubSeqProperties
<1> HIDE DEF n
<1>4. n - 1 + 1 = n /\ (IF 1 <= n THEN n - 1 + 1 ELSE 0) = n /\ \A k \in 1 .. n : 1 + k - 1 = k
  BY <1>1
<1>5. /\ SubSeq(s, 1, n) \in Seq(Call) /\ Len(SubSeq(s, 1, n)) = n
      /\ \A k \in 1 .. n : SubSeq(s, 1, n)[k] = s[k]
  BY <1>3, <1>4
<1> QED BY <1>5 DEF n

(* The top call goes on with t. *)
LEMMA GoOnFrames ==
  ASSUME NEW s \in Seq(Call), s # <<>>, NEW ev \in Event, NEW t \in Seq(Labels),
         NEW w \in 0 .. MaxSends, NEW wrote \in BOOLEAN,
         NEW ws, NEW ws2, FramesOK(s, ws), Longer(ws, ws2),
         Unrefs(t) <=> Unrefs(s[Len(s)].todo), Unrefs(t) => Ending(t),
         Performs(t) => w \in 1 .. Len(ws2) /\ ~ws2[w].async
  PROVE  /\ Push(SubSeq(s, 1, Len(s) - 1), ev, t, w, wrote) \in Seq(Call)
         /\ FramesOK(Push(SubSeq(s, 1, Len(s) - 1), ev, t, w, wrote), ws2)
         /\ UnrefsAtLast(Push(SubSeq(s, 1, Len(s) - 1), ev, t, w, wrote)) <=> UnrefsAtLast(s)
<1> DEFINE b == SubSeq(s, 1, Len(s) - 1)
           p == Push(b, ev, t, w, wrote)
<1>1. /\ b \in Seq(Call) /\ Len(b) = Len(s) - 1
      /\ \A k \in 1 .. Len(s) - 1 : b[k] = s[k]
  BY BelowShape
<1>2. Len(s) \in Nat /\ Len(s) > 0
  OBVIOUS
<1> HIDE DEF b
<1>3. /\ p \in Seq(Call)
      /\ \/ ev = "none" /\ t = <<>> /\ p = b
         \/ /\ Len(p) = Len(b) + 1 /\ p[Len(b) + 1].todo = t /\ p[Len(b) + 1].w = w
            /\ p[Len(b) + 1].event # "none" \/ t # <<>>
            /\ \A k \in 1 .. Len(b) : p[k] = b[k]
  BY <1>1, PushShape
<1> HIDE DEF p
<1>4. \A k \in 1 .. Len(s) :
        /\ s[k].event # "none" \/ s[k].todo # <<>>
        /\ Unrefs(s[k].todo) => k = 1 /\ Ending(s[k].todo)
        /\ Performs(s[k].todo) => s[k].w \in 1 .. Len(ws2) /\ ~ws2[s[k].w].async
  BY DEF FramesOK, Longer
<1>5. CASE ev = "none" /\ t = <<>> /\ p = b
  <2>1. ~Unrefs(s[Len(s)].todo)
    BY <1>5 DEF Unrefs
  <2>2. FramesOK(b, ws2)
    <3>1. \A k \in 1 .. Len(b) : k \in 1 .. Len(s) /\ b[k] = s[k]
      BY <1>1, <1>2
    <3> QED BY <1>4, <3>1 DEF FramesOK
  <2>3. UnrefsAtLast(b) <=> UnrefsAtLast(s)
    <3>1. CASE Len(s) = 1
      BY <1>1, <2>1, <3>1 DEF UnrefsAtLast
    <3>2. CASE Len(s) # 1
      <4>1. b[1] = s[1] /\ Len(b) > 0
        BY <1>1, <1>2, <3>2
      <4> QED BY <1>2, <4>1 DEF UnrefsAtLast
    <3> QED BY <3>1, <3>2
  <2> QED BY <1>3, <1>5, <2>2, <2>3 DEF b, p
<1>6. CASE /\ Len(p) = Len(b) + 1 /\ p[Len(b) + 1].todo = t /\ p[Len(b) + 1].w = w
           /\ p[Len(b) + 1].event # "none" \/ t # <<>>
           /\ \A k \in 1 .. Len(b) : p[k] = b[k]
  <2>1. /\ Len(p) = Len(s) /\ p[Len(s)].todo = t /\ p[Len(s)].w = w
        /\ p[Len(s)].event # "none" \/ t # <<>>
        /\ \A k \in 1 .. Len(s) : k # Len(s) => p[k] = s[k]
    BY <1>1, <1>2, <1>6
  <2>2. Len(s) \in 1 .. Len(s)
    BY <1>2
  <2>3. FramesOK(p, ws2)
    <3> SUFFICES ASSUME NEW k \in 1 .. Len(s)
                 PROVE  /\ p[k].event # "none" \/ p[k].todo # <<>>
                        /\ Unrefs(p[k].todo) => k = 1 /\ Ending(p[k].todo)
                        /\ Performs(p[k].todo) => p[k].w \in 1 .. Len(ws2) /\ ~ws2[p[k].w].async
      BY <2>1 DEF FramesOK
    <3>1. CASE k # Len(s)
      BY <1>4, <2>1, <3>1
    <3>2. CASE k = Len(s)
      BY <1>4, <2>1, <2>2, <3>2
    <3> QED BY <3>1, <3>2
  <2>4. UnrefsAtLast(p) <=> UnrefsAtLast(s)
    <3>1. CASE Len(s) = 1
      BY <2>1, <3>1 DEF UnrefsAtLast
    <3>2. CASE Len(s) # 1
      <4>1. 1 \in 1 .. Len(s) /\ p[1] = s[1]
        BY <1>2, <2>1, <3>2
      <4> QED BY <2>1, <4>1 DEF UnrefsAtLast
    <3> QED BY <3>1, <3>2
  <2> QED BY <1>3, <2>3, <2>4 DEF b, p
<1> QED BY <1>3, <1>5, <1>6

-----------------------------------------------------------------------------
(* Transfers and their tasks. *)

LEMMA SameTransfers ==
  ASSUME NEW q \in Seq(Task), NEW ws, NEW ws2, QueueOK(q, ws), Grown(ws, ws2)
  PROVE  QueueOK(q, ws2) /\ Reporting(q, ws2) = Reporting(q, ws)
<1>1. \A w \in 1 .. Len(ws) : w \in 1 .. Len(ws2) /\ (Goes(ws2, w) <=> Goes(ws, w))
                              /\ (ws2[w].async <=> ws[w].async)
  BY DEF Grown, Longer, Goes
<1>2. \A w \in 1 .. Len(ws2) : w \in 1 .. Len(ws) \/ ~ws2[w].async
  BY DEF Grown, Longer
<1>3. QueueOK(q, ws2)
  BY <1>1 DEF QueueOK
<1>4. Reporting(q, ws2) = Reporting(q, ws)
  BY <1>1, <1>2 DEF Reporting
<1> QED BY <1>3, <1>4

(* A running transfer w posts a task that is not its last one. *)
LEMMA Posted ==
  ASSUME NEW q \in Seq(Task), NEW task \in Task, NEW ws, QueueOK(q, ws),
         task.kind # "done", task.w \in 1 .. Len(ws), Goes(ws, task.w)
  PROVE  /\ QueueOK(Append(q, task), ws)
         /\ Reporting(Append(q, task), ws) = Reporting(q, ws)
<1> DEFINE p == Append(q, task)
<1>1. /\ Len(p) = Len(q) + 1 /\ Len(q) \in Nat
      /\ \A k \in 1 .. Len(q) : p[k] = q[k]
      /\ p[Len(q) + 1] = task
  OBVIOUS
<1> HIDE DEF p
<1>2. \A k \in 1 .. Len(p) : k \in 1 .. Len(q) \/ k = Len(q) + 1
  BY <1>1
<1>3. \A k \in 1 .. Len(q) : k \in 1 .. Len(p)
  BY <1>1
<1>4. QueueOK(p, ws)
  <2> SUFFICES ASSUME NEW k \in 1 .. Len(p)
               PROVE  /\ p[k].w \in 1 .. Len(ws) /\ ws[p[k].w].async
                      /\ \/ Goes(ws, p[k].w)
                         \/ \E m \in 1 .. Len(p) : k <= m /\ IsDone(p[m], p[k].w)
                      /\ p[k].kind = "done" =>
                           /\ ~Goes(ws, p[k].w)
                           /\ \A m \in 1 .. Len(p) : p[m].w = p[k].w => m <= k
    BY DEF QueueOK
  <2>1. CASE k = Len(q) + 1
    BY <1>1, <2>1 DEF Goes
  <2>2. CASE k \in 1 .. Len(q)
    <3>1. p[k] = q[k] /\ q[k].w \in 1 .. Len(ws) /\ ws[q[k].w].async
      BY <1>1, <2>2 DEF QueueOK
    <3>2. \/ Goes(ws, q[k].w)
          \/ \E m \in 1 .. Len(p) : k <= m /\ IsDone(p[m], q[k].w)
      BY <1>1, <1>3, <2>2 DEF QueueOK
    <3>3. ASSUME q[k].kind = "done", NEW m \in 1 .. Len(p), p[m].w = q[k].w
          PROVE  ~Goes(ws, q[k].w) /\ m <= k
      <4>1. ~Goes(ws, q[k].w)
        BY <2>2, <3>3 DEF QueueOK
      <4>2. m # Len(q) + 1
        BY <1>1, <3>3, <4>1
      <4>3. m \in 1 .. Len(q) /\ q[m].w = q[k].w
        BY <1>1, <1>2, <3>3, <4>2
      <4> QED BY <2>2, <3>3, <4>1, <4>3 DEF QueueOK
    <3>4. q[k].kind = "done" => ~Goes(ws, q[k].w)
      BY <2>2 DEF QueueOK
    <3> QED BY <3>1, <3>2, <3>3, <3>4
  <2> QED BY <1>2, <2>1, <2>2
<1>5. \A w : (\E k \in 1 .. Len(p) : IsDone(p[k], w)) <=> (\E k \in 1 .. Len(q) : IsDone(q[k], w))
  BY <1>1, <1>2, <1>3 DEF IsDone
<1>6. Reporting(p, ws) = Reporting(q, ws)
  BY <1>5 DEF Reporting
<1> QED BY <1>4, <1>6 DEF p

(* Transfer w ends and posts its last task. *)
LEMMA PostedLast ==
  ASSUME NEW q \in Seq(Task), NEW task \in Task, NEW ws, NEW ws2, QueueOK(q, ws),
         NEW w \in 1 .. Len(ws), IsDone(task, w), Goes(ws, w),
         Len(ws2) = Len(ws), ws2[w].async, ws2[w].thread = "ended",
         \A v \in 1 .. Len(ws) : v # w => ws2[v] = ws[v]
  PROVE  /\ QueueOK(Append(q, task), ws2)
         /\ Reporting(Append(q, task), ws2) = Reporting(q, ws)
<1> DEFINE p == Append(q, task)
<1>1. /\ Len(p) = Len(q) + 1 /\ Len(q) \in Nat
      /\ \A k \in 1 .. Len(q) : p[k] = q[k]
      /\ p[Len(q) + 1] = task
  OBVIOUS
<1> HIDE DEF p
<1>2. \A k \in 1 .. Len(p) : k \in 1 .. Len(q) \/ k = Len(q) + 1
  BY <1>1
<1>3. /\ \A k \in 1 .. Len(q) : k \in 1 .. Len(p)
      /\ Len(q) + 1 \in 1 .. Len(p) /\ IsDone(p[Len(q) + 1], w)
  BY <1>1
<1>4. ws[w].async /\ ~Goes(ws2, w)
  BY DEF Goes
<1>5. \A v \in 1 .. Len(ws) : v # w => (Goes(ws2, v) <=> Goes(ws, v))
                                     /\ (ws2[v].async <=> ws[v].async)
  BY DEF Goes
<1>6. QueueOK(p, ws2)
  <2> SUFFICES ASSUME NEW k \in 1 .. Len(p)
               PROVE  /\ p[k].w \in 1 .. Len(ws2) /\ ws2[p[k].w].async
                      /\ \/ Goes(ws2, p[k].w)
                         \/ \E m \in 1 .. Len(p) : k <= m /\ IsDone(p[m], p[k].w)
                      /\ p[k].kind = "done" =>
                           /\ ~Goes(ws2, p[k].w)
                           /\ \A m \in 1 .. Len(p) : p[m].w = p[k].w => m <= k
    BY DEF QueueOK
  <2>1. CASE k = Len(q) + 1
    <3>1. p[k].w = w /\ IsDone(p[k], w) /\ k <= k /\ \A m \in 1 .. Len(p) : m <= k
      BY <1>1, <1>3, <2>1 DEF IsDone
    <3> QED BY <1>4, <3>1
  <2>2. CASE k \in 1 .. Len(q)
    <3>1. p[k] = q[k] /\ q[k].w \in 1 .. Len(ws) /\ ws[q[k].w].async
      BY <1>1, <2>2 DEF QueueOK
    <3>2. CASE q[k].w = w
      <4>1. q[k].kind # "done"
        BY <2>2, <3>2 DEF QueueOK
      <4>2. k <= Len(q) + 1
        BY <1>1, <2>2
      <4> QED BY <1>3, <3>1, <3>2, <4>1, <4>2
    <3>3. CASE q[k].w # w
      <4>1. \/ Goes(ws, q[k].w)
            \/ \E m \in 1 .. Len(p) : k <= m /\ IsDone(p[m], q[k].w)
        BY <1>1, <1>3, <2>2 DEF QueueOK
      <4>2. ASSUME q[k].kind = "done", NEW m \in 1 .. Len(p), p[m].w = q[k].w
            PROVE  m <= k
        <5>1. m # Len(q) + 1
          BY <1>3, <3>3, <4>2 DEF IsDone
        <5>2. m \in 1 .. Len(q) /\ q[m].w = q[k].w
          BY <1>1, <1>2, <4>2, <5>1
        <5> QED BY <2>2, <4>2, <5>2 DEF QueueOK
      <4>3. q[k].kind = "done" => ~Goes(ws, q[k].w)
        BY <2>2 DEF QueueOK
      <4> QED BY <1>5, <3>1, <3>3, <4>1, <4>2, <4>3
    <3> QED BY <3>2, <3>3
  <2> QED BY <1>2, <2>1, <2>2
<1>7. \A v : v # w => ((\E k \in 1 .. Len(p) : IsDone(p[k], v)) <=>
                       (\E k \in 1 .. Len(q) : IsDone(q[k], v)))
  BY <1>1, <1>2, <1>3 DEF IsDone
<1>8. ASSUME NEW v \in 1 .. Len(ws)
      PROVE  v \in Reporting(p, ws2) <=> v \in Reporting(q, ws)
  BY <1>3, <1>4, <1>5, <1>7 DEF Reporting
<1>9. Reporting(p, ws2) = Reporting(q, ws)
  BY <1>8 DEF Reporting
<1> QED BY <1>6, <1>9 DEF p

(* The first task is taken from the queue. *)
LEMMA Taken ==
  ASSUME NEW q \in Seq(Task), q # <<>>, NEW ws, QueueOK(q, ws)
  PROVE  /\ Tail(q) \in Seq(Task) /\ Head(q) \in Task
         /\ QueueOK(Tail(q), ws)
         /\ Head(q).w \in Reporting(q, ws)
         /\ Reporting(Tail(q), ws) = IF Head(q).kind = "done"
                                     THEN Reporting(q, ws) \ {Head(q).w}
                                     ELSE Reporting(q, ws)
<1> DEFINE p == Tail(q)
           h == Head(q)
<1>1. /\ p \in Seq(Task) /\ h \in Task
      /\ Len(p) = Len(q) - 1 /\ Len(q) \in Nat /\ Len(q) > 0
      /\ \A k \in 1 .. Len(q) - 1 : p[k] = q[k + 1]
      /\ h = q[1]
  OBVIOUS
<1> HIDE DEF p, h
<1>2. \A k \in 1 .. Len(p) : k + 1 \in 1 .. Len(q) /\ p[k] = q[k + 1]
  BY <1>1
<1>3. \A k \in 1 .. Len(q) : k = 1 \/ (k - 1 \in 1 .. Len(p) /\ p[k - 1] = q[k])
  BY <1>1
<1>4. 1 \in 1 .. Len(q)
  BY <1>1
<1>5. QueueOK(p, ws)
  <2> SUFFICES ASSUME NEW k \in 1 .. Len(p)
               PROVE  /\ p[k].w \in 1 .. Len(ws) /\ ws[p[k].w].async
                      /\ \/ Goes(ws, p[k].w)
                         \/ \E m \in 1 .. Len(p) : k <= m /\ IsDone(p[m], p[k].w)
                      /\ p[k].kind = "done" =>
                           /\ ~Goes(ws, p[k].w)
                           /\ \A m \in 1 .. Len(p) : p[m].w = p[k].w => m <= k
    BY DEF QueueOK
  <2>1. k + 1 \in 1 .. Len(q) /\ p[k] = q[k + 1]
    BY <1>2
  <2>2. q[k + 1].w \in 1 .. Len(ws) /\ ws[q[k + 1].w].async
    BY <2>1 DEF QueueOK
  <2>3. ASSUME ~Goes(ws, q[k + 1].w)
        PROVE  \E m \in 1 .. Len(p) : k <= m /\ IsDone(p[m], q[k + 1].w)
    <3>1. PICK m \in 1 .. Len(q) : k + 1 <= m /\ IsDone(q[m], q[k + 1].w)
      BY <2>1, <2>3 DEF QueueOK
    <3>2. m - 1 \in 1 .. Len(p) /\ p[m - 1] = q[m] /\ k <= m - 1
      BY <1>3, <3>1
    <3> QED BY <3>1, <3>2
  <2>4. ASSUME q[k + 1].kind = "done", NEW m \in 1 .. Len(p), p[m].w = q[k + 1].w
        PROVE  m <= k
    <3>1. m + 1 \in 1 .. Len(q) /\ q[m + 1].w = q[k + 1].w
      BY <1>2, <2>4
    <3>2. m + 1 <= k + 1
      BY <2>1, <2>4, <3>1 DEF QueueOK
    <3> QED BY <3>2
  <2>5. q[k + 1].kind = "done" => ~Goes(ws, q[k + 1].w)
    BY <2>1 DEF QueueOK
  <2> QED BY <2>1, <2>2, <2>3, <2>4, <2>5
<1>6. h.w \in 1 .. Len(ws) /\ ws[h.w].async
      /\ (Goes(ws, h.w) \/ \E m \in 1 .. Len(q) : IsDone(q[m], h.w))
  BY <1>1, <1>4 DEF QueueOK
<1>7. h.w \in Reporting(q, ws)
  BY <1>6 DEF Reporting
<1>8. \A w : (\E k \in 1 .. Len(q) : IsDone(q[k], w)) <=>
              IsDone(h, w) \/ \E k \in 1 .. Len(p) : IsDone(p[k], w)
  BY <1>1, <1>2, <1>3, <1>4
<1>9. CASE h.kind = "done"
  <2>1. ~Goes(ws, h.w) /\ \A m \in 1 .. Len(q) : q[m].w = h.w => m <= 1
    BY <1>1, <1>4, <1>9 DEF QueueOK
  <2>2. ~ \E k \in 1 .. Len(p) : IsDone(p[k], h.w)
    <3> SUFFICES ASSUME NEW k \in 1 .. Len(p), p[k].w = h.w PROVE FALSE
      BY DEF IsDone
    <3>1. k + 1 \in 1 .. Len(q) /\ q[k + 1].w = h.w /\ k >= 1
      BY <1>2
    <3> QED BY <2>1, <3>1
  <2>3. \A w : IsDone(h, w) <=> w = h.w
    BY <1>9 DEF IsDone
  <2>4. Reporting(p, ws) = Reporting(q, ws) \ {h.w}
    BY <1>8, <2>1, <2>2, <2>3 DEF Reporting
  <2> QED BY <1>1, <1>5, <1>7, <1>9, <2>4 DEF p, h
<1>10. CASE h.kind # "done"
  <2>1. \A w : ~IsDone(h, w)
    BY <1>10 DEF IsDone
  <2>2. Reporting(p, ws) = Reporting(q, ws)
    BY <1>8, <2>1 DEF Reporting
  <2> QED BY <1>1, <1>5, <1>7, <1>10, <2>2 DEF p, h
<1> QED BY <1>9, <1>10

(* The count of references. *)
LEMMA CountOf ==
  ASSUME NEW q, NEW ws, Len(ws) \in Nat
  PROVE  /\ IsFiniteSet(Reporting(q, ws)) /\ Cardinality(Reporting(q, ws)) \in Nat
         /\ Cardinality(Reporting(q, ws)) = 0 <=> Reporting(q, ws) = {}
<1>1. Reporting(q, ws) \subseteq 1 .. Len(ws)
  BY DEF Reporting
<1>2. IsFiniteSet(1 .. Len(ws))
  BY FS_Interval
<1>3. IsFiniteSet(Reporting(q, ws))
  BY <1>1, <1>2, FS_Subset
<1> QED BY <1>3, FS_CardinalityType, FS_EmptySet

-----------------------------------------------------------------------------
(* Steps that leave the transfers as they are. *)
LEMMA TopFacts ==
  ASSUME Inv, Depth > 0
  PROVE  /\ stack \in Seq(Call) /\ stack # <<>> /\ Top \in Call
         /\ Top.todo \in Seq(Labels) /\ Top.w \in 0 .. MaxSends /\ Top.wrote \in BOOLEAN
         /\ Top.event \in Event
         /\ Top.event # "none" \/ Top.todo # <<>>
         /\ Unrefs(Top.todo) => Depth = 1 /\ Ending(Top.todo)
         /\ Performs(Top.todo) => Top.w \in 1 .. Len(workers) /\ ~workers[Top.w].async
<1>1. stack \in Seq(Call) /\ FramesOK(stack, workers)
  BY DEF Inv, Typed
<1>2. Depth \in 1 .. Len(stack) /\ stack # <<>>
  BY <1>1 DEF Depth
<1>3. Top \in Call
  BY <1>1, <1>2 DEF Top
<1>4. /\ Top.event # "none" \/ Top.todo # <<>>
      /\ Unrefs(Top.todo) => Depth = 1 /\ Ending(Top.todo)
      /\ Performs(Top.todo) => Top.w \in 1 .. Len(workers) /\ ~workers[Top.w].async
  BY <1>1, <1>2 DEF FramesOK, Top
<1>5. Top.todo \in Seq(Labels) /\ Top.w \in 0 .. MaxSends /\ Top.wrote \in BOOLEAN
      /\ Top.event \in Event
  BY <1>3 DEF Call, Event
<1> QED BY <1>1, <1>2, <1>3, <1>4, <1>5

LEMMA StepFacts ==
  ASSUME Inv, NEW label, Step(label)
  PROVE  /\ Depth > 0 /\ Top.todo # <<>> /\ Top.todo[1] = label
         /\ Unrefs(Top.todo) => label \in {"write", "loading", "loaded", "finish", "unref"}
<1>1. Depth > 0 /\ Top.event = "none" /\ Top.todo[1] = label
  BY DEF Step
<1>2. /\ Top.todo # <<>> /\ Top.todo \in Seq(Labels)
      /\ Unrefs(Top.todo) => Ending(Top.todo)
  BY <1>1, TopFacts
<1>3. 1 \in 1 .. Len(Top.todo) /\ Len(Top.todo) \in Nat
  BY <1>2
<1>4. ASSUME Unrefs(Top.todo)
      PROVE  label \in {"write", "loading", "loaded", "finish", "unref"}
  <2>1. Ending(Top.todo)
    BY <1>2, <1>4
  <2>2. CASE Len(Top.todo) = 1
    BY <1>1, <2>1, <2>2 DEF Ending
  <2>3. CASE Len(Top.todo) # 1
    <3>1. 1 < Len(Top.todo)
      <4>1. PICK n \in Nat : n = Len(Top.todo)
        BY <1>3
      <4>2. 1 \in 1 .. n /\ n # 1
        BY <1>3, <2>3, <4>1
      <4>3. 1 < n
        BY <4>2
      <4> QED BY <4>1, <4>3
    <3> QED BY <1>1, <1>3, <2>1, <3>1 DEF Ending
  <2> QED BY <2>2, <2>3
<1> QED BY <1>1, <1>2, <1>4

(* The rest of the state keeps its type. *)
Others ==
  /\ curl' \in Addrs \cup {NoHandle} /\ request' \in 0 .. MaxOpens
  /\ async' \in BOOLEAN /\ owned' = owned /\ refs' = refs /\ tasks' = tasks
  /\ workers' \in Seq(Worker) /\ Len(workers') <= MaxSends /\ Grown(workers, workers')

(* The top call goes on with t. *)
GoesOn(ev, t, w, wrote) ==
  /\ Depth > 0 /\ stack' = Push(Below, ev, t, w, wrote)
  /\ ev \in Event /\ t \in Seq(Labels) /\ w \in 0 .. MaxSends /\ wrote \in BOOLEAN
  /\ Unrefs(t) <=> Unrefs(Top.todo)
  /\ Unrefs(t) => Ending(t)
  /\ Performs(t) => w \in 1 .. Len(workers') /\ ~workers'[w].async

LEMMA GoesOnKeeps ==
  ASSUME Inv, Others, NEW ev, NEW t, NEW w, NEW wrote, GoesOn(ev, t, w, wrote)
  PROVE  Inv'
<1>1. /\ stack \in Seq(Call) /\ stack # <<>> /\ FramesOK(stack, workers)
      /\ tasks \in Seq(Task) /\ QueueOK(tasks, workers) /\ Len(stack) > 0
  BY TopFacts DEF Inv, Typed, GoesOn, Depth
<1>2. /\ Push(SubSeq(stack, 1, Len(stack) - 1), ev, t, w, wrote) \in Seq(Call)
      /\ FramesOK(Push(SubSeq(stack, 1, Len(stack) - 1), ev, t, w, wrote), workers')
      /\ UnrefsAtLast(Push(SubSeq(stack, 1, Len(stack) - 1), ev, t, w, wrote))
           <=> UnrefsAtLast(stack)
  <2>1. PICK ws, ws2 : ws = workers /\ ws2 = workers'
    OBVIOUS
  <2>2. /\ ev \in Event /\ t \in Seq(Labels) /\ w \in 0 .. MaxSends /\ wrote \in BOOLEAN
        /\ FramesOK(stack, ws) /\ Longer(ws, ws2)
        /\ Unrefs(t) <=> Unrefs(stack[Len(stack)].todo)
        /\ Unrefs(t) => Ending(t)
        /\ Performs(t) => w \in 1 .. Len(ws2) /\ ~ws2[w].async
    BY <1>1, <2>1 DEF GoesOn, Others, Top, Depth, Grown
  <2>3. PICK s : s = stack
    OBVIOUS
  <2>4. /\ Push(SubSeq(s, 1, Len(s) - 1), ev, t, w, wrote) \in Seq(Call)
        /\ FramesOK(Push(SubSeq(s, 1, Len(s) - 1), ev, t, w, wrote), ws2)
        /\ UnrefsAtLast(Push(SubSeq(s, 1, Len(s) - 1), ev, t, w, wrote)) <=> UnrefsAtLast(s)
    BY <1>1, <2>2, <2>3, GoOnFrames
  <2> QED BY <2>1, <2>3, <2>4
<1>3. stack' = Push(SubSeq(stack, 1, Len(stack) - 1), ev, t, w, wrote)
  BY DEF GoesOn, Below, Depth
<1>4. /\ stack' \in Seq(Call) /\ FramesOK(stack', workers')
      /\ UnrefsAtLast(stack') <=> UnrefsAtLast(stack)
  BY <1>2, <1>3
<1>5. QueueOK(tasks', workers') /\ Reporting(tasks', workers') = Reporting(tasks, workers)
  <2>1. PICK ws, ws2 : ws = workers /\ ws2 = workers'
    OBVIOUS
  <2>2. QueueOK(tasks, ws2) /\ Reporting(tasks, ws2) = Reporting(tasks, ws)
    BY <1>1, <2>1, SameTransfers DEF Others
  <2> QED BY <2>1, <2>2 DEF Others
<1>6. Typed'
  BY <1>4 DEF Others, Inv, Typed
<1>7. Len(stack') > 0 => owned' \/ UnrefsAtLast(stack') \/ Reporting(tasks', workers') # {}
  BY <1>1, <1>4, <1>5 DEF Inv, Others
<1>8. refs' = Count(Reporting(tasks', workers'), owned', UnrefsAtLast(stack'))
  BY <1>4, <1>5 DEF Inv, Others, Count
<1> QED BY <1>4, <1>5, <1>6, <1>7, <1>8 DEF Inv

(* With the rest of what it had left. *)
LEMMA RestGoesOn ==
  ASSUME Inv, NEW label, Step(label), label # "unref",
         NEW ev \in Event, NEW wrote \in BOOLEAN, Others,
         stack' = Push(Below, ev, Rest, Top.w, wrote)
  PROVE  Inv'
<1>1. /\ Depth > 0 /\ Top.todo # <<>> /\ Top.todo[1] # "unref"
  BY StepFacts
<1>2. /\ Top.todo \in Seq(Labels) /\ Top.w \in 0 .. MaxSends
      /\ Unrefs(Top.todo) => Ending(Top.todo)
      /\ Performs(Top.todo) => Top.w \in 1 .. Len(workers) /\ ~workers[Top.w].async
  BY <1>1, TopFacts
<1>3. /\ Rest \in Seq(Labels)
      /\ Performs(Rest) => Performs(Top.todo)
      /\ Unrefs(Rest) => Ending(Rest)
      /\ Unrefs(Rest) <=> Unrefs(Top.todo)
  BY <1>1, <1>2, RestKeeps DEF Rest
<1>4. GoesOn(ev, Rest, Top.w, wrote)
  BY <1>1, <1>2, <1>3 DEF GoesOn, Others, Grown, Longer
<1> QED BY <1>4, GoesOnKeeps

-----------------------------------------------------------------------------
(* What new calls have to do. *)
LEMMA OneLabel ==
  ASSUME NEW x \in Labels
  PROVE  /\ <<x>> \in Seq(Labels) /\ <<x>> # <<>>
         /\ Unrefs(<<x>>) <=> x = "unref"
         /\ Performs(<<x>>) <=> x = "perform"
         /\ x = "unref" => Ending(<<x>>)
<1>1. <<x>> \in Seq(Labels)
  OBVIOUS
<1>2. Len(<<x>>) = 1 /\ <<x>>[1] = x /\ 1 .. 1 = {1}
  OBVIOUS
<1> DEFINE t == <<x>>
<1>3. Len(t) = 1 /\ t[1] = x /\ 1 .. 1 = {1}
  BY <1>2
<1> HIDE DEF t
<1>4. /\ Unrefs(t) <=> x = "unref"
      /\ Performs(t) <=> x = "perform"
  BY <1>3 DEF Unrefs, Performs
<1>5. x = "unref" => Ending(t)
  BY <1>3 DEF Ending
<1> QED BY <1>1, <1>2, <1>4, <1>5 DEF t

LEMMA TwoLabels ==
  ASSUME NEW x \in Labels, NEW y \in Labels
  PROVE  /\ <<x, y>> \in Seq(Labels)
         /\ Unrefs(<<x, y>>) <=> x = "unref" \/ y = "unref"
         /\ Performs(<<x, y>>) <=> x = "perform" \/ y = "perform"
         /\ x = "finish" /\ y = "unref" => Ending(<<x, y>>)
<1> DEFINE t == <<x, y>>
<1>1. t \in Seq(Labels)
  OBVIOUS
<1>2. Len(t) = 2 /\ t[1] = x /\ t[2] = y /\ 1 .. 2 = {1, 2}
  OBVIOUS
<1> HIDE DEF t
<1>3. /\ Unrefs(t) <=> x = "unref" \/ y = "unref"
      /\ Performs(t) <=> x = "perform" \/ y = "perform"
  BY <1>2 DEF Unrefs, Performs
<1>4. x = "finish" /\ y = "unref" => Ending(t)
  BY <1>2 DEF Ending
<1> QED BY <1>1, <1>3, <1>4 DEF t

LEMMA ThreeLabels ==
  ASSUME NEW x \in Labels, NEW y \in Labels, NEW z \in Labels
  PROVE  /\ <<x, y, z>> \in Seq(Labels)
         /\ Unrefs(<<x, y, z>>) <=> x = "unref" \/ y = "unref" \/ z = "unref"
         /\ Performs(<<x, y, z>>) <=> x = "perform" \/ y = "perform" \/ z = "perform"
<1> DEFINE t == <<x, y, z>>
<1>1. t \in Seq(Labels)
  OBVIOUS
<1>2. Len(t) = 3 /\ t[1] = x /\ t[2] = y /\ t[3] = z /\ 1 .. 3 = {1, 2, 3}
  OBVIOUS
<1> HIDE DEF t
<1>3. /\ Unrefs(t) <=> x = "unref" \/ y = "unref" \/ z = "unref"
      /\ Performs(t) <=> x = "perform" \/ y = "perform" \/ z = "perform"
  BY <1>2 DEF Unrefs, Performs
<1> QED BY <1>1, <1>3 DEF t

(* Nothing of a transfer's, or the end of a DoneTask. *)
Plain(t) == t \in Seq(Labels) /\ ~Unrefs(t) /\ ~Performs(t)
Last(t) == t \in Seq(Labels) /\ Ending(t) /\ Unrefs(t) /\ ~Performs(t)

LEMMA ShortCalls ==
  /\ Plain(<<>>) /\ Plain(<<"open">>) /\ Plain(<<"send">>) /\ Plain(<<"refused">>)
  /\ Plain(<<"aborted">> \o <<>>) /\ Plain(<<"aborted">> \o <<"open">>)
  /\ Plain(<<"aborted">> \o <<"refused">>)
<1>1. "open" \in Labels /\ "send" \in Labels /\ "refused" \in Labels /\ "aborted" \in Labels
  BY DEF Labels
<1>2. Plain(<<>>)
  BY DEF Plain, Unrefs, Performs
<1>3. Plain(<<"open">>)
  BY <1>1, OneLabel DEF Plain
<1>4. Plain(<<"send">>)
  BY <1>1, OneLabel DEF Plain
<1>5. Plain(<<"refused">>)
  BY <1>1, OneLabel DEF Plain
<1>6. ASSUME NEW t, Plain(t) PROVE Plain(<<"aborted">> \o t)
  BY <1>1, <1>6, BeforeKeeps DEF Plain
<1> QED BY <1>2, <1>3, <1>4, <1>5, <1>6

LEMMA WriteCalls ==
  /\ Plain(<<"write", "written">>) /\ Plain(<<"write", "finish", "unsend">>)
  /\ <<"perform">> \in Seq(Labels) /\ ~Unrefs(<<"perform">>)
<1>1. /\ "write" \in Labels /\ "written" \in Labels /\ "finish" \in Labels
      /\ "unsend" \in Labels /\ "perform" \in Labels
  BY DEF Labels
<1>2. Plain(<<"write", "written">>)
  BY <1>1, TwoLabels DEF Plain
<1>3. Plain(<<"write", "finish", "unsend">>)
  BY <1>1, ThreeLabels DEF Plain
<1>4. <<"perform">> \in Seq(Labels) /\ ~Unrefs(<<"perform">>)
  BY <1>1, OneLabel
<1> QED BY <1>2, <1>3, <1>4

LEMMA DoneCalls ==
  /\ Last(<<"write">> \o <<"finish", "unref">>)
  /\ Last(<<>> \o <<"finish", "unref">>)
<1> DEFINE t == <<"finish", "unref">>
<1>1. "write" \in Labels /\ "finish" \in Labels /\ "unref" \in Labels
  BY DEF Labels
<1>2. Last(t)
  BY <1>1, TwoLabels DEF Last
<1> HIDE DEF t
<1>3. Last(<<"write">> \o t)
  BY <1>1, <1>2, BeforeKeeps DEF Last
<1>4. <<>> \o t = t
  BY <1>2, ConcatEmptySeq DEF Last
<1> QED BY <1>2, <1>3, <1>4 DEF t

-----------------------------------------------------------------------------
(* Steps of the calls that only go on. *)
LEMMA SameContexts ==
  ASSUME Inv
  PROVE  /\ curl \in Addrs \cup {NoHandle} /\ request \in 0 .. MaxOpens
         /\ async \in BOOLEAN
         /\ workers \in Seq(Worker) /\ Len(workers) <= MaxSends
         /\ Len(workers) \in Nat /\ Grown(workers, workers)
<1>1. workers \in Seq(Worker) /\ Len(workers) <= MaxSends
  BY DEF Inv, Typed
<1>2. Len(workers) \in Nat /\ \A w \in 1 .. Len(workers) : w <= Len(workers)
  BY <1>1
<1> QED BY <1>1, <1>2 DEF Inv, Typed, Grown, Longer

LEMMA ReleasedIsHandle ==
  ASSUME Release
  PROVE  curl' \in Addrs \cup {NoHandle}
BY DEF Release

LEMMA RestSteps ==
  ASSUME Inv,
         \/ Aborted \/ Open \/ OpenRefused \/ SendOvertaken \/ Refused \/ SendNoThread
         \/ Written \/ Finish \/ SyncSendReturns
  PROVE  Inv'
<1> USE SameContexts
<1>1. CASE Aborted
  <2>1. Others
    BY <1>1 DEF Aborted, counts, Others
  <2>2. Step("aborted") /\ stack' = Push(Below, "none", Rest, Top.w, Top.wrote)
    BY <1>1 DEF Aborted, Continue
  <2> QED BY <2>1, <2>2, RestGoesOn, StepFacts, TopFacts DEF Event
<1>2. CASE Open
  <2>1. Others
    BY <1>2, XhrAssumption DEF Open, Allocate, Others
  <2>2. Step("open") /\ stack' = Push(Below, "OPENED", Rest, Top.w, Top.wrote)
    BY <1>2 DEF Open, ChangeState, Continue
  <2> QED BY <2>1, <2>2, RestGoesOn, StepFacts, TopFacts DEF Event, States
<1>3. CASE OpenRefused
  <2>1. Others
    BY <1>3 DEF OpenRefused, Allocate, counts, Others
  <2>2. Step("open") /\ stack' = Push(Below, "none", Rest, Top.w, Top.wrote)
    BY <1>3 DEF OpenRefused, Continue
  <2> QED BY <2>1, <2>2, RestGoesOn, StepFacts, TopFacts DEF Event
<1>4. CASE SendOvertaken
  <2>1. Others
    BY <1>4 DEF SendOvertaken, counts, Others
  <2>2. Step("send") /\ stack' = Push(Below, "none", Rest, Top.w, Top.wrote)
    BY <1>4 DEF SendOvertaken, Continue
  <2> QED BY <2>1, <2>2, RestGoesOn, StepFacts, TopFacts DEF Event
<1>5. CASE Refused
  <2>1. Others
    BY <1>5 DEF Refused, counts, Others
  <2>2. PICK ev \in {"DONE", "none"} :
          Step("refused") /\ stack' = Push(Below, ev, Rest, Top.w, Top.wrote)
    BY <1>5 DEF Refused, ChangeState, Continue
  <2> QED BY <2>1, <2>2, RestGoesOn, StepFacts, TopFacts DEF Event, States
<1>6. CASE SendNoThread
  <2>1. Others
    BY <1>6 DEF SendNoThread, counts, Others
  <2>2. Step("send") /\ stack' = Push(Below, "none", Rest, Top.w, Top.wrote)
    BY <1>6 DEF SendNoThread, Continue
  <2> QED BY <2>1, <2>2, RestGoesOn, StepFacts, TopFacts DEF Event
<1>7. CASE Written
  <2>1. Others
    BY <1>7, ReleasedIsHandle DEF Written, Done, counts, Others
  <2>2. PICK ev \in {"DONE", "none"} :
          Step("written") /\ stack' = Push(Below, ev, Rest, Top.w, Top.wrote)
    BY <1>7 DEF Written, DoneEvent, Continue
  <2> QED BY <2>1, <2>2, RestGoesOn, StepFacts, TopFacts DEF Event, States
<1>8. CASE Finish
  <2>1. Others
    BY <1>8, ReleasedIsHandle DEF Finish, Done, counts, Others
  <2>2. PICK ev \in {"DONE", "none"} :
          Step("finish") /\ stack' = Push(Below, ev, Rest, Top.w, Top.wrote)
    BY <1>8 DEF Finish, DoneEvent, Continue
  <2> QED BY <2>1, <2>2, RestGoesOn, StepFacts, TopFacts DEF Event, States
<1>9. CASE SyncSendReturns
  <2>1. Others
    BY <1>9 DEF SyncSendReturns, counts, Others
  <2>2. Step("unsend") /\ stack' = Push(Below, "none", Rest, Top.w, Top.wrote)
    BY <1>9 DEF SyncSendReturns, Continue
  <2> QED BY <2>1, <2>2, RestGoesOn, StepFacts, TopFacts DEF Event
<1> QED BY <1>1, <1>2, <1>3, <1>4, <1>5, <1>6, <1>7, <1>8, <1>9

(* The handler returns; WriteBody goes on, with or without an event. *)
LEMMA HandlerReturnsKeeps ==
  ASSUME Inv, HandlerReturns
  PROVE  Inv'
<1>1. Others
  BY SameContexts DEF HandlerReturns, counts, Others
<1>2. Depth > 0 /\ stack' = Push(Below, "none", Top.todo, Top.w, Top.wrote)
  BY DEF HandlerReturns, InHandler, Continue
<1>3. workers' = workers
  BY DEF HandlerReturns
<1>4. GoesOn("none", Top.todo, Top.w, Top.wrote)
  BY <1>2, <1>3, TopFacts DEF GoesOn, Event
<1> QED BY <1>1, <1>4, GoesOnKeeps

LEMMA WriteSteps ==
  ASSUME Inv, Write \/ Loading \/ Loaded
  PROVE  Inv'
<1>1. Others /\ workers' = workers
  BY SameContexts DEF Write, Loading, Loaded, counts, Others
<1>2. PICK label \in {"write", "loading", "loaded"} : Step(label)
  BY DEF Write, Loading, Loaded
<1>3. /\ Depth > 0 /\ Top.todo # <<>> /\ Top.todo[1] # "unref"
      /\ Top.w \in 0 .. MaxSends /\ Top.wrote \in BOOLEAN
  BY <1>2, StepFacts, TopFacts
<1>4. \/ \E wrote \in BOOLEAN : stack' = Push(Below, "none", Rest, Top.w, wrote)
      \/ \E ev \in {"HEADERS_RECEIVED", "LOADING"}, x \in {"loading", "loaded"} :
           stack' = Push(Below, ev, <<x>> \o Rest, Top.w, Top.wrote)
  BY DEF Write, Loading, Loaded, StoreBody, WriteFails, ChangeState, Continue
<1>5. CASE \E wrote \in BOOLEAN : stack' = Push(Below, "none", Rest, Top.w, wrote)
  BY <1>1, <1>2, <1>5, RestGoesOn DEF Event
<1>6. CASE \E ev \in {"HEADERS_RECEIVED", "LOADING"}, x \in {"loading", "loaded"} :
             stack' = Push(Below, ev, <<x>> \o Rest, Top.w, Top.wrote)
  <2>1. PICK ev \in {"HEADERS_RECEIVED", "LOADING"}, x \in {"loading", "loaded"} :
               stack' = Push(Below, ev, <<x>> \o Rest, Top.w, Top.wrote)
    BY <1>6
  <2>2. ev \in Event /\ x \in Labels \ {"unref", "perform"}
    BY DEF Event, States, Labels
  <2>3. /\ Rest \in Seq(Labels)
        /\ Performs(Rest) => Performs(Top.todo)
        /\ Unrefs(Rest) => Ending(Rest)
        /\ Unrefs(Rest) <=> Unrefs(Top.todo)
    BY <1>3, TopFacts, RestKeeps DEF Rest
  <2>4. PICK r : r = Rest
    OBVIOUS
  <2>5. /\ <<x>> \o r \in Seq(Labels)
        /\ Performs(<<x>> \o r) => Performs(r)
        /\ Unrefs(<<x>> \o r) <=> Unrefs(r)
        /\ Ending(r) => Ending(<<x>> \o r)
    BY <2>2, <2>3, <2>4, BeforeKeeps
  <2>6. GoesOn(ev, <<x>> \o Rest, Top.w, Top.wrote)
    BY <1>1, <1>3, <2>1, <2>2, <2>3, <2>4, <2>5, TopFacts DEF GoesOn
  <2> QED BY <1>1, <2>6, GoesOnKeeps
<1> QED BY <1>4, <1>5, <1>6

LEMMA SendRefusedKeeps ==
  ASSUME Inv, SendRefused
  PROVE  Inv'
<1>1. Others /\ workers' = workers
  BY SameContexts, ReleasedIsHandle DEF SendRefused, Abort, counts, Others
<1>2. Step("send")
  BY DEF SendRefused
<1>3. /\ Depth > 0 /\ ~Unrefs(Top.todo)
      /\ Top.w \in 0 .. MaxSends /\ Top.wrote \in BOOLEAN
  BY <1>2, StepFacts, TopFacts
<1>4. PICK ev, t : /\ stack' = Push(Below, ev, t, Top.w, Top.wrote)
                   /\ ev \in {"ABORTED", "none"}
                   /\ t \in {<<"refused">>, <<"aborted">> \o <<"refused">>}
  BY DEF SendRefused, Continue, AbortEvent, AfterAbort
<1>5. Plain(t)
  BY <1>4, ShortCalls
<1>6. GoesOn(ev, t, Top.w, Top.wrote)
  BY <1>3, <1>4, <1>5 DEF GoesOn, Plain, Event
<1> QED BY <1>1, <1>6, GoesOnKeeps

-----------------------------------------------------------------------------
(* A new call: of the script, which holds the object, or of a task. *)
LEMMA EnteredKeeps ==
  ASSUME Inv, NEW ev \in Event, NEW t, Plain(t), NEW w \in 0 .. MaxSends,
         stack' = Push(stack, ev, t, w, TRUE),
         curl' \in Addrs \cup {NoHandle}, request' = request, async' = async,
         owned' = owned, refs' = refs, workers' = workers,
         tasks' \in Seq(Task), QueueOK(tasks', workers),
         Reporting(tasks', workers) = Reporting(tasks, workers),
         owned \/ Reporting(tasks, workers) # {}
  PROVE  Inv'
<1>1. stack \in Seq(Call) /\ FramesOK(stack, workers)
  BY DEF Inv, Typed
<1>2. /\ stack' \in Seq(Call) /\ FramesOK(stack', workers)
      /\ UnrefsAtLast(stack') <=> UnrefsAtLast(stack)
  <2>1. PICK s, ws : s = stack /\ ws = workers
    OBVIOUS
  <2>2. /\ Push(s, ev, t, w, TRUE) \in Seq(Call)
        /\ FramesOK(Push(s, ev, t, w, TRUE), ws)
        /\ UnrefsAtLast(Push(s, ev, t, w, TRUE)) <=> UnrefsAtLast(s) \/ Unrefs(t)
    BY <1>1, <2>1, EnterFrames DEF Plain
  <2> QED BY <2>1, <2>2 DEF Plain
<1>3. Typed'
  BY <1>2 DEF Inv, Typed
<1>4. FramesOK(stack', workers') /\ QueueOK(tasks', workers')
      /\ Reporting(tasks', workers') = Reporting(tasks, workers)
  BY <1>2
<1>5. Len(stack') > 0 => owned' \/ UnrefsAtLast(stack') \/ Reporting(tasks', workers') # {}
  BY <1>4
<1>6. refs' = Count(Reporting(tasks', workers'), owned', UnrefsAtLast(stack'))
  BY <1>2, <1>4 DEF Inv, Count
<1> QED BY <1>3, <1>4, <1>5, <1>6 DEF Inv

LEMMA ScriptKeeps ==
  ASSUME Inv, CallAbort \/ CallOpen \/ CallSend
  PROVE  Inv'
<1>1. /\ owned /\ request' = request /\ async' = async /\ owned' = owned /\ refs' = refs
      /\ workers' = workers /\ tasks' = tasks
  BY DEF CallAbort, CallOpen, CallSend, Script, counts
<1>2. curl' \in Addrs \cup {NoHandle}
  BY SameContexts, ReleasedIsHandle DEF CallAbort, CallOpen, CallSend, Abort
<1>3. PICK ev, t : /\ stack' = Push(stack, ev, t, 0, TRUE)
                   /\ ev \in {"ABORTED", "none", "OPENED"}
                   /\ t \in {<<>>, <<"open">>, <<"send">>, <<"aborted">> \o <<>>,
                             <<"aborted">> \o <<"open">>}
  BY DEF CallAbort, CallOpen, CallSend, Enter, AbortEvent, AfterAbort
<1>4. Plain(t) /\ ev \in Event
  BY <1>3, ShortCalls DEF Event, States
<1>5. tasks \in Seq(Task) /\ QueueOK(tasks, workers) /\ 0 \in 0 .. MaxSends
  BY XhrAssumption DEF Inv, Typed
<1> QED BY <1>1, <1>2, <1>3, <1>4, <1>5, EnteredKeeps

(* Without dialogs tasks run when every call has returned. *)
LEMMA Outermost == NoDialogs /\ MainLoopRuns => Depth = 0
BY DEF NoDialogs, MainLoopRuns

LEMMA DispatchTakes ==
  ASSUME Inv, NoDialogs, NEW kind, Dispatch(kind)
  PROVE  /\ Len(stack) = 0 /\ tasks' \in Seq(Task) /\ QueueOK(tasks', workers)
         /\ Head(tasks).w \in 0 .. MaxSends
         /\ Head(tasks).w \in Reporting(tasks, workers)
         /\ Reporting(tasks', workers) = IF kind = "done"
                                         THEN Reporting(tasks, workers) \ {Head(tasks).w}
                                         ELSE Reporting(tasks, workers)
<1>1. /\ Len(stack) = 0 /\ tasks # <<>> /\ Head(tasks).kind = kind /\ tasks' = Tail(tasks)
      /\ tasks \in Seq(Task) /\ QueueOK(tasks, workers)
  BY Outermost DEF Dispatch, Depth, Inv, Typed
<1>2. PICK q, ws : q = tasks /\ ws = workers
  OBVIOUS
<1>3. /\ Tail(q) \in Seq(Task) /\ Head(q) \in Task
      /\ QueueOK(Tail(q), ws) /\ Head(q).w \in Reporting(q, ws)
      /\ Reporting(Tail(q), ws) = IF Head(q).kind = "done"
                                  THEN Reporting(q, ws) \ {Head(q).w} ELSE Reporting(q, ws)
  BY <1>1, <1>2, Taken
<1>4. Head(q).w \in 1 .. MaxSends
  BY <1>3 DEF Task
<1> QED BY <1>1, <1>2, <1>3, <1>4

LEMMA TaskKeeps ==
  ASSUME Inv, NoDialogs, WriteHeaderTask \/ HeaderTooLong \/ WriteBodyTask
  PROVE  Inv'
<1>1. /\ request' = request /\ async' = async /\ owned' = owned /\ refs' = refs
      /\ workers' = workers
  BY DEF WriteHeaderTask, HeaderTooLong, WriteBodyTask, counts
<1>2. curl' \in Addrs \cup {NoHandle}
  BY SameContexts, ReleasedIsHandle DEF WriteHeaderTask, HeaderTooLong, WriteBodyTask, Done
<1>3. PICK kind \in {"header", "body", "trailer"} : Dispatch(kind)
  BY DEF WriteHeaderTask, HeaderTooLong, WriteBodyTask
<1>4. /\ tasks' \in Seq(Task) /\ QueueOK(tasks', workers)
      /\ Head(tasks).w \in 0 .. MaxSends
      /\ Reporting(tasks', workers) = Reporting(tasks, workers)
      /\ Reporting(tasks, workers) # {}
  BY <1>3, DispatchTakes
<1>5. PICK ev, t : /\ stack' = Push(stack, ev, t, Head(tasks).w, TRUE)
                   /\ ev \in {"DONE", "none"} /\ t \in {<<>>, <<"write", "written">>}
  BY DEF WriteHeaderTask, HeaderTooLong, WriteBodyTask, Enter, DoneEvent, Push
<1>6. Plain(t) /\ ev \in Event
  BY <1>5, ShortCalls, WriteCalls DEF Event, States
<1> QED BY <1>1, <1>2, <1>4, <1>5, <1>6, EnteredKeeps

(* The reference of the transfer becomes that of its DoneTask. *)
LEMMA DoneTaskKeeps ==
  ASSUME Inv, NoDialogs, DoneTask
  PROVE  Inv'
<1>1. /\ request' = request /\ async' = async /\ owned' = owned /\ refs' = refs
      /\ workers' = workers /\ curl' = curl
  BY DEF DoneTask, counts
<1>2. /\ Len(stack) = 0 /\ tasks' \in Seq(Task) /\ QueueOK(tasks', workers)
      /\ Head(tasks).w \in 0 .. MaxSends
      /\ Head(tasks).w \in Reporting(tasks, workers)
      /\ Reporting(tasks', workers) = Reporting(tasks, workers) \ {Head(tasks).w}
  BY DispatchTakes DEF DoneTask
<1>3. PICK t : /\ stack' = Push(stack, "none", t, Head(tasks).w, TRUE)
               /\ t \in {<<"write">> \o <<"finish", "unref">>, <<>> \o <<"finish", "unref">>}
  BY DEF DoneTask, Enter
<1>4. Last(t)
  BY <1>3, DoneCalls
<1>5. stack \in Seq(Call) /\ FramesOK(stack, workers) /\ ~UnrefsAtLast(stack)
  BY <1>2 DEF Inv, Typed, UnrefsAtLast
<1>6. /\ stack' \in Seq(Call) /\ FramesOK(stack', workers)
      /\ UnrefsAtLast(stack')
  <2>1. PICK s, ws, w : s = stack /\ ws = workers /\ w = Head(tasks).w
    OBVIOUS
  <2>2. "none" \in Event
    BY DEF Event
  <2>3. /\ Push(s, "none", t, w, TRUE) \in Seq(Call)
        /\ FramesOK(Push(s, "none", t, w, TRUE), ws)
        /\ UnrefsAtLast(Push(s, "none", t, w, TRUE)) <=> UnrefsAtLast(s) \/ Unrefs(t)
    BY <1>2, <1>4, <1>5, <2>1, <2>2, EnterFrames DEF Last
  <2> QED BY <1>3, <1>4, <2>1, <2>3 DEF Last
<1>7. Typed'
  BY <1>1, <1>2, <1>6 DEF Inv, Typed
<1>8. refs' = Count(Reporting(tasks', workers'), owned', UnrefsAtLast(stack'))
  <2>1. PICK r, w : r = Reporting(tasks, workers) /\ w = Head(tasks).w
    OBVIOUS
  <2>2. IsFiniteSet(r) /\ w \in r
    BY <1>2, <2>1, CountOf, SameContexts
  <2>3. Cardinality(r \ {w}) = Cardinality(r) - 1 /\ Cardinality(r) \in Nat
    BY <2>2, FS_RemoveElement, FS_CardinalityType
  <2>4. Cardinality(r \ {w}) + 1 = Cardinality(r)
    BY <2>3
  <2>5. refs = Count(r, owned, FALSE)
    BY <1>5, <2>1 DEF Inv, Count
  <2>6. Count(r \ {w}, owned, TRUE) = Count(r, owned, FALSE)
    BY <2>3, <2>4 DEF Count
  <2> QED BY <1>1, <1>2, <1>6, <2>1, <2>5, <2>6 DEF Count
<1> QED BY <1>1, <1>2, <1>6, <1>7, <1>8 DEF Inv

-----------------------------------------------------------------------------
(* References go. *)
LEMMA UnrefKeepsHandle ==
  ASSUME Inv, Unref
  PROVE  curl' \in Addrs \cup {NoHandle}
BY SameContexts, ReleasedIsHandle DEF Unref, Abort

LEMMA DropObjectKeeps ==
  ASSUME Inv, DropObject
  PROVE  Inv'
<1>1. /\ owned = TRUE /\ owned' = FALSE /\ Len(stack) = 0 /\ refs' = refs - 1
      /\ request' = request /\ async' = async /\ workers' = workers /\ tasks' = tasks
      /\ stack' = stack
  BY DEF DropObject, Unref, Depth, Inv, Typed
<1>2. curl' \in Addrs \cup {NoHandle}
  BY UnrefKeepsHandle DEF DropObject
<1>3. Typed'
  BY <1>1, <1>2 DEF Inv, Typed
<1>4. Cardinality(Reporting(tasks, workers)) \in Nat
  BY CountOf, SameContexts
<1>5. refs' = Count(Reporting(tasks', workers'), owned', UnrefsAtLast(stack'))
  BY <1>1, <1>4 DEF Inv, Count
<1>6. FramesOK(stack', workers') /\ QueueOK(tasks', workers') /\ Len(stack') = 0
  BY <1>1 DEF Inv
<1> QED BY <1>3, <1>5, <1>6 DEF Inv

LEMMA UnrefInDoneTaskKeeps ==
  ASSUME Inv, UnrefInDoneTask
  PROVE  Inv'
<1>1. /\ owned' = owned /\ refs' = refs - 1 /\ request' = request /\ async' = async
      /\ workers' = workers /\ tasks' = tasks
      /\ stack' = Push(Below, "none", Rest, Top.w, Top.wrote) /\ Step("unref")
  BY DEF UnrefInDoneTask, Unref, Continue
<1>2. Depth > 0 /\ Top.todo # <<>> /\ Top.todo[1] = "unref"
  BY <1>1, StepFacts
<1>3. /\ stack \in Seq(Call) /\ Top.todo \in Seq(Labels)
      /\ Unrefs(Top.todo) => Depth = 1 /\ Ending(Top.todo)
  BY <1>2, TopFacts
<1>4. Unrefs(Top.todo)
  <2>1. 1 \in 1 .. Len(Top.todo)
    BY <1>2, <1>3
  <2> QED BY <1>2, <2>1 DEF Unrefs
<1>5. Rest = <<>>
  BY <1>2, <1>3, RestKeeps DEF Rest
<1>6. stack' = <<>>
  BY <1>1, <1>3, <1>4, <1>5 DEF Push, Below
<1>7. UnrefsAtLast(stack)
  <2>1. Unrefs(stack[1].todo)
    BY <1>3, <1>4 DEF Top
  <2> QED BY <1>2, <2>1 DEF UnrefsAtLast, Depth
<1>8. stack' \in Seq(Call) /\ FramesOK(stack', workers') /\ ~UnrefsAtLast(stack')
      /\ Len(stack') = 0
  BY <1>6 DEF FramesOK, UnrefsAtLast
<1>9. curl' \in Addrs \cup {NoHandle}
  BY UnrefKeepsHandle DEF UnrefInDoneTask
<1>10. Typed'
  BY <1>1, <1>8, <1>9 DEF Inv, Typed
<1>11. Cardinality(Reporting(tasks, workers)) \in Nat
  BY CountOf, SameContexts
<1>12. refs' = Count(Reporting(tasks', workers'), owned', UnrefsAtLast(stack'))
  BY <1>1, <1>7, <1>8, <1>11 DEF Inv, Count
<1> QED BY <1>1, <1>8, <1>10, <1>12 DEF Inv

-----------------------------------------------------------------------------
(* The worker threads. *)
LEMMA LongerFrames ==
  ASSUME NEW s \in Seq(Call), NEW ws, NEW ws2, FramesOK(s, ws), Longer(ws, ws2)
  PROVE  FramesOK(s, ws2)
BY DEF FramesOK, Longer

(* The stack stays, the queue takes what it may. *)
LEMMA QueueChanges ==
  ASSUME Inv, workers' \in Seq(Worker), Len(workers') <= MaxSends,
         Longer(workers, workers'), tasks' \in Seq(Task),
         QueueOK(tasks', workers'),
         Reporting(tasks', workers') = Reporting(tasks, workers),
         curl' = curl, request' = request, async' = async, owned' = owned, refs' = refs,
         stack' = stack
  PROVE  Inv'
<1>1. stack \in Seq(Call) /\ FramesOK(stack, workers)
  BY DEF Inv, Typed
<1>2. PICK ws, ws2 : ws = workers /\ ws2 = workers'
  OBVIOUS
<1>3. FramesOK(stack, ws2)
  BY <1>1, <1>2, LongerFrames
<1>4. FramesOK(stack', workers')
  BY <1>2, <1>3
<1>5. Typed'
  BY DEF Inv, Typed
<1>6. Len(stack') > 0 => owned' \/ UnrefsAtLast(stack') \/ Reporting(tasks', workers') # {}
  BY DEF Inv
<1>7. refs' = Count(Reporting(tasks', workers'), owned', UnrefsAtLast(stack'))
  BY DEF Inv
<1> QED BY <1>4, <1>5, <1>6, <1>7 DEF Inv

LEMMA Advanced ==
  ASSUME Inv, NEW w \in Workers, NEW c \in Worker, workers' = [workers EXCEPT ![w] = c],
         c.async <=> workers[w].async
  PROVE  /\ workers' \in Seq(Worker) /\ Len(workers') = Len(workers)
         /\ Len(workers') <= MaxSends
         /\ workers'[w] = c /\ \A v \in 1 .. Len(workers) : v # w => workers'[v] = workers[v]
         /\ Longer(workers, workers')
         /\ (c.async => (c.thread = "ended" <=> workers[w].thread = "ended"))
              => Grown(workers, workers')
<1>1. workers \in Seq(Worker) /\ Len(workers) <= MaxSends /\ w \in 1 .. Len(workers)
      /\ Len(workers) \in Nat
  BY SameContexts DEF Workers
<1>2. /\ workers' \in Seq(Worker) /\ Len(workers') = Len(workers)
      /\ workers'[w] = c /\ \A v \in 1 .. Len(workers) : v # w => workers'[v] = workers[v]
  BY <1>1, ExceptSeq
<1>3. Longer(workers, workers')
  BY <1>1, <1>2 DEF Longer
<1>4. ASSUME c.async => (c.thread = "ended" <=> workers[w].thread = "ended")
      PROVE  Grown(workers, workers')
  BY <1>1, <1>2, <1>3, <1>4 DEF Grown
<1> QED BY <1>1, <1>2, <1>3, <1>4

LEMMA ContextOf ==
  ASSUME Inv, NEW w \in Workers
  PROVE  /\ workers[w] \in Worker /\ w \in 1 .. Len(workers) /\ w \in 1 .. MaxSends
<1>1. w \in 1 .. Len(workers) /\ workers \in Seq(Worker) /\ Len(workers) <= MaxSends
      /\ MaxSends \in Nat /\ Len(workers) \in Nat
  BY SameContexts, XhrAssumption DEF Workers
<1> QED BY <1>1

LEMMA ReceiveKeeps ==
  ASSUME Inv, NEW w \in Workers, WriteHeaderCallback(w) \/ WriteBodyCallback(w) \/ TrailerCallback(w)
  PROVE  Inv' /\ Reporting(tasks', workers') = Reporting(tasks, workers)
<1>1. /\ workers[w] \in Worker /\ w \in 1 .. Len(workers) /\ w \in 1 .. MaxSends
      /\ tasks \in Seq(Task) /\ QueueOK(tasks, workers)
  BY ContextOf DEF Inv, Typed
<1>2. /\ Goes(workers, w)
      /\ curl' = curl /\ request' = request /\ async' = async /\ owned' = owned
      /\ refs' = refs /\ stack' = stack
  BY DEF WriteHeaderCallback, WriteBodyCallback, TrailerCallback, Receive, Running, Goes, counts
<1>3. PICK c \in Worker :
           /\ c.async = workers[w].async /\ c.thread # "ended"
           /\ workers' = [workers EXCEPT ![w] = c]
           /\ \/ tasks' = tasks
              \/ \E kind \in {"header", "body", "trailer"} :
                   tasks' = Append(tasks, [kind |-> kind, w |-> w])
  <2>1. PICK kind \in {"header", "body", "trailer"} :
          Receive(w, kind) /\ (kind # "header" => workers[w].pieces < MaxPieces)
    <3>1. CASE WriteHeaderCallback(w)
      BY <3>1 DEF WriteHeaderCallback
    <3>2. CASE WriteBodyCallback(w)
      BY <3>2 DEF WriteBodyCallback
    <3>3. CASE TrailerCallback(w)
      <4>1. workers[w].pieces < MaxPieces
        BY <3>3, XhrAssumption DEF TrailerCallback
      <4> QED BY <3>3, <4>1 DEF TrailerCallback
    <3> QED BY <3>1, <3>2, <3>3
  <2>2. CASE Mine(w)
    <3> DEFINE c == [workers[w] EXCEPT !.thread = "receiving",
                                       !.pieces = IF kind = "header" THEN @ ELSE @ + 1]
    <3>1. c \in Worker /\ c.async = workers[w].async /\ c.thread # "ended"
      <4>1. workers[w].pieces \in 0 .. MaxPieces /\ MaxPieces \in Nat
        BY <1>1, XhrAssumption DEF Worker
      <4>2. (IF kind = "header" THEN workers[w].pieces ELSE workers[w].pieces + 1)
            \in 0 .. MaxPieces
        BY <2>1, <4>1
      <4> QED BY <1>1, <4>2 DEF Worker
    <3>2. workers' = [workers EXCEPT ![w] = c] /\ tasks' = Append(tasks, [kind |-> kind, w |-> w])
      BY <2>1, <2>2 DEF Receive
    <3> QED BY <3>1, <3>2
  <2>3. CASE ~Mine(w)
    <3> DEFINE c == [workers[w] EXCEPT !.thread = "failing"]
    <3>1. c \in Worker /\ c.async = workers[w].async /\ c.thread # "ended"
      BY <1>1 DEF Worker
    <3>2. workers' = [workers EXCEPT ![w] = c] /\ tasks' = tasks
      BY <2>1, <2>3 DEF Receive
    <3> QED BY <3>1, <3>2
  <2> QED BY <2>2, <2>3
<1>4. /\ workers' \in Seq(Worker) /\ Len(workers') = Len(workers)
      /\ Len(workers') <= MaxSends /\ workers'[w] = c
      /\ Longer(workers, workers') /\ Grown(workers, workers')
  <2>1. workers[w].thread # "ended"
    BY <1>2 DEF Goes
  <2> QED BY <1>3, <2>1, Advanced
<1>5. Goes(workers', w)
  BY <1>2, <1>3, <1>4 DEF Goes
<1>6. QueueOK(tasks, workers') /\ Reporting(tasks, workers') = Reporting(tasks, workers)
  <2>1. PICK ws, ws2 : ws = workers /\ ws2 = workers'
    OBVIOUS
  <2> QED BY <1>1, <1>4, <2>1, SameTransfers
<1>7. CASE tasks' = tasks
  BY <1>1, <1>2, <1>4, <1>6, <1>7, QueueChanges
<1>8. ASSUME NEW kind \in {"header", "body", "trailer"},
             tasks' = Append(tasks, [kind |-> kind, w |-> w])
      PROVE  Inv' /\ Reporting(tasks', workers') = Reporting(tasks, workers)
  <2> DEFINE task == [kind |-> kind, w |-> w]
  <2>1. task \in Task /\ task.kind # "done" /\ task.w = w
    BY <1>1 DEF Task
  <2> HIDE DEF task
  <2>2. PICK ws : ws = workers'
    OBVIOUS
  <2>3. QueueOK(Append(tasks, task), ws) /\ Reporting(Append(tasks, task), ws) = Reporting(tasks, ws)
    BY <1>1, <1>4, <1>5, <1>6, <2>1, <2>2, Posted
  <2>4. tasks' = Append(tasks, task) /\ tasks' \in Seq(Task)
    BY <1>1, <1>8, <2>1 DEF task
  <2> QED BY <1>2, <1>4, <1>6, <2>2, <2>3, <2>4, QueueChanges
<1> QED BY <1>3, <1>7, <1>8

LEMMA WorkerDoneKeeps ==
  ASSUME Inv, NEW w \in Workers, WorkerDone(w)
  PROVE  Inv' /\ Reporting(tasks', workers') = Reporting(tasks, workers)
<1>1. /\ workers[w] \in Worker /\ w \in 1 .. Len(workers) /\ w \in 1 .. MaxSends
      /\ tasks \in Seq(Task) /\ QueueOK(tasks, workers)
  BY ContextOf DEF Inv, Typed
<1>2. /\ Goes(workers, w)
      /\ curl' = curl /\ request' = request /\ async' = async /\ owned' = owned
      /\ refs' = refs /\ stack' = stack
      /\ tasks' = Append(tasks, [kind |-> "done", w |-> w])
  BY DEF WorkerDone, Running, Goes, counts
<1>3. PICK c : /\ c \in Worker /\ c.async = workers[w].async /\ c.thread = "ended"
               /\ workers' = [workers EXCEPT ![w] = c]
  <2>1. PICK d \in BOOLEAN :
          workers' = [workers EXCEPT ![w].thread = "ended", ![w].succeeded = d]
    BY DEF WorkerDone
  <2> DEFINE c == [workers[w] EXCEPT !.thread = "ended", !.succeeded = d]
  <2>2. c \in Worker /\ c.async = workers[w].async /\ c.thread = "ended"
    BY <1>1 DEF Worker
  <2>3. workers' = [workers EXCEPT ![w] = c]
    BY <2>1
  <2> QED BY <2>2, <2>3
<1>4. /\ workers' \in Seq(Worker) /\ Len(workers') = Len(workers)
      /\ Len(workers') <= MaxSends /\ workers'[w] = c
      /\ \A v \in 1 .. Len(workers) : v # w => workers'[v] = workers[v]
      /\ Longer(workers, workers')
  BY <1>3, Advanced
<1> DEFINE task == [kind |-> "done", w |-> w]
<1>5. task \in Task /\ IsDone(task, w)
  BY <1>1 DEF Task, IsDone
<1> HIDE DEF task
<1>6. tasks' = Append(tasks, task) /\ tasks' \in Seq(Task)
  BY <1>1, <1>2, <1>5 DEF task
<1>7. workers'[w].async /\ workers'[w].thread = "ended"
  BY <1>2, <1>3, <1>4 DEF Goes
<1>8. QueueOK(tasks', workers') /\ Reporting(tasks', workers') = Reporting(tasks, workers)
  <2>1. PICK ws, ws2 : ws = workers /\ ws2 = workers'
    OBVIOUS
  <2>2. /\ QueueOK(Append(tasks, task), ws2)
        /\ Reporting(Append(tasks, task), ws2) = Reporting(tasks, ws)
    BY <1>1, <1>2, <1>4, <1>5, <1>7, <2>1, PostedLast
  <2> QED BY <1>6, <2>1, <2>2
<1> QED BY <1>2, <1>4, <1>6, <1>8, QueueChanges

-----------------------------------------------------------------------------
(* New transfers. *)
LEMMA Started ==
  ASSUME Inv, StartTransfer
  PROVE  /\ workers' \in Seq(Worker) /\ Len(workers') <= MaxSends
         /\ Len(workers') = Len(workers) + 1 /\ Len(workers) \in Nat
         /\ workers'[Len(workers) + 1].async = async
         /\ workers'[Len(workers) + 1].thread = "starting"
         /\ \A v \in 1 .. Len(workers) : workers'[v] = workers[v]
         /\ Longer(workers, workers')
<1> DEFINE c == [addr |-> curl, request |-> request, async |-> async,
                 thread |-> "starting", pieces |-> 0, succeeded |-> FALSE]
<1>1. c \in Worker /\ c.async = async /\ c.thread = "starting"
  BY SameContexts, XhrAssumption DEF Worker
<1>2. workers' = Append(workers, c) /\ Len(workers) < MaxSends
  BY DEF StartTransfer
<1> HIDE DEF c
<1>3. workers \in Seq(Worker) /\ Len(workers) \in Nat /\ MaxSends \in Nat
  BY SameContexts, XhrAssumption
<1>4. /\ workers' \in Seq(Worker) /\ Len(workers') = Len(workers) + 1
      /\ workers'[Len(workers) + 1] = c
      /\ \A v \in 1 .. Len(workers) : workers'[v] = workers[v]
  BY <1>1, <1>2, <1>3, AppendProperties
<1>5. Len(workers') <= MaxSends
  BY <1>2, <1>3, <1>4
<1>6. Longer(workers, workers')
  BY <1>3, <1>4 DEF Longer
<1> QED BY <1>1, <1>3, <1>4, <1>5, <1>6

LEMMA SendSyncKeeps ==
  ASSUME Inv, SendSync
  PROVE  Inv'
<1>1. StartTransfer /\ ~async /\ Step("send")
  BY DEF SendSync
<1>2. /\ workers' \in Seq(Worker) /\ Len(workers') <= MaxSends
      /\ Len(workers') = Len(workers) + 1 /\ Len(workers) \in Nat
      /\ ~workers'[Len(workers) + 1].async
      /\ \A v \in 1 .. Len(workers) : workers'[v] = workers[v]
      /\ Longer(workers, workers')
  BY <1>1, Started
<1>3. Grown(workers, workers')
  <2>1. \A v \in 1 .. Len(workers') : v > Len(workers) => v = Len(workers) + 1
    BY <1>2
  <2> QED BY <1>2, <2>1 DEF Grown
<1>4. Others
  BY <1>2, <1>3, SameContexts DEF SendSync, counts, Others
<1>5. Depth > 0 /\ ~Unrefs(Top.todo)
  BY <1>1, StepFacts
<1>6. Len(workers) + 1 \in 0 .. MaxSends /\ Len(workers) + 1 \in 1 .. Len(workers')
  BY <1>2, XhrAssumption
<1>7. stack' = Push(Below, "none", <<"perform">>, Len(workers) + 1, TRUE)
  BY DEF SendSync
<1>8. GoesOn("none", <<"perform">>, Len(workers) + 1, TRUE)
  BY <1>2, <1>5, <1>6, <1>7, WriteCalls DEF GoesOn, Event
<1> QED BY <1>4, <1>8, GoesOnKeeps

(* The transfer's reference is counted as long as it has to report. *)
LEMMA SendAsyncKeeps ==
  ASSUME Inv, SendAsync
  PROVE  Inv'
<1> DEFINE n == Len(workers) + 1
<1>1. StartTransfer /\ async /\ Step("send")
  BY DEF SendAsync
<1>2. /\ workers' \in Seq(Worker) /\ Len(workers') <= MaxSends
      /\ Len(workers') = Len(workers) + 1 /\ Len(workers) \in Nat
      /\ workers'[n].async /\ workers'[n].thread = "starting"
      /\ \A v \in 1 .. Len(workers) : workers'[v] = workers[v]
      /\ Longer(workers, workers')
  BY <1>1, Started
<1>3. /\ curl' = curl /\ request' = request /\ async' = async /\ owned' = owned
      /\ refs' = refs + 1 /\ tasks' = tasks
      /\ stack' = Push(Below, "none", Rest, Top.w, Top.wrote)
  BY DEF SendAsync, Continue
<1>4. /\ Depth > 0 /\ Top.todo # <<>> /\ Top.todo[1] # "unref" /\ ~Unrefs(Top.todo)
  BY <1>1, StepFacts
<1>5. /\ stack \in Seq(Call) /\ stack # <<>> /\ FramesOK(stack, workers)
      /\ tasks \in Seq(Task) /\ QueueOK(tasks, workers)
      /\ Top.todo \in Seq(Labels) /\ Top.w \in 0 .. MaxSends /\ Top.wrote \in BOOLEAN
      /\ Performs(Top.todo) => Top.w \in 1 .. Len(workers) /\ ~workers[Top.w].async
  BY <1>4, TopFacts DEF Inv, Typed
<1>6. /\ Rest \in Seq(Labels)
      /\ Performs(Rest) => Performs(Top.todo)
      /\ ~Unrefs(Rest)
  BY <1>4, <1>5, RestKeeps DEF Rest
<1>7. /\ stack' \in Seq(Call) /\ FramesOK(stack', workers')
      /\ UnrefsAtLast(stack') <=> UnrefsAtLast(stack)
  <2>1. PICK s, ws, ws2 : s = stack /\ ws = workers /\ ws2 = workers'
    OBVIOUS
  <2>2. PICK t, w, wrote : t = Rest /\ w = Top.w /\ wrote = Top.wrote
    OBVIOUS
  <2>3. /\ t \in Seq(Labels) /\ w \in 0 .. MaxSends /\ wrote \in BOOLEAN /\ ~Unrefs(t)
    BY <1>5, <1>6, <2>2
  <2>4. ~Unrefs(s[Len(s)].todo)
    BY <1>4, <2>1 DEF Top, Depth
  <2>5. Performs(t) => w \in 1 .. Len(ws) /\ ~ws[w].async
    BY <1>5, <1>6, <2>1, <2>2
  <2>6. Longer(ws, ws2)
    BY <1>2, <2>1
  <2>7. Performs(t) => w \in 1 .. Len(ws2) /\ ~ws2[w].async
    BY <2>5, <2>6 DEF Longer
  <2>8. /\ Push(SubSeq(s, 1, Len(s) - 1), "none", t, w, wrote) \in Seq(Call)
        /\ FramesOK(Push(SubSeq(s, 1, Len(s) - 1), "none", t, w, wrote), ws2)
        /\ UnrefsAtLast(Push(SubSeq(s, 1, Len(s) - 1), "none", t, w, wrote)) <=> UnrefsAtLast(s)
    BY <1>5, <2>1, <2>3, <2>4, <2>6, <2>7, GoOnFrames DEF Event
  <2>9. stack' = Push(SubSeq(s, 1, Len(s) - 1), "none", t, w, wrote)
    BY <1>3, <2>1, <2>2 DEF Below, Depth
  <2> QED BY <2>1, <2>8, <2>9
<1>8. \A v \in 1 .. Len(workers) : Goes(workers', v) <=> Goes(workers, v)
  BY <1>2 DEF Goes
<1>9. QueueOK(tasks', workers')
  <2>1. \A v \in 1 .. Len(workers) : v \in 1 .. Len(workers') /\ workers'[v] = workers[v]
    BY <1>2
  <2> QED BY <1>3, <1>5, <1>8, <2>1 DEF QueueOK
<1>10. /\ Reporting(tasks', workers') = Reporting(tasks, workers) \cup {n}
       /\ n \notin Reporting(tasks, workers)
  <2>1. /\ n \notin 1 .. Len(workers) /\ n \in 1 .. Len(workers')
        /\ \A v \in 1 .. Len(workers') : v \in 1 .. Len(workers) \/ v = n
        /\ \A v \in 1 .. Len(workers) : v \in 1 .. Len(workers')
    BY <1>2
  <2>2. Goes(workers', n)
    BY <1>2 DEF Goes
  <2> HIDE DEF n
  <2>3. \A v \in 1 .. Len(workers) :
          v \in Reporting(tasks', workers') <=> v \in Reporting(tasks, workers)
    BY <1>2, <1>3, <1>8, <2>1 DEF Reporting
  <2>4. n \in Reporting(tasks', workers') /\ n \notin Reporting(tasks, workers)
    BY <1>2, <2>1, <2>2 DEF Reporting, n
  <2>5. /\ Reporting(tasks', workers') \subseteq 1 .. Len(workers')
        /\ Reporting(tasks, workers) \subseteq 1 .. Len(workers)
    BY DEF Reporting
  <2> QED BY <2>1, <2>3, <2>4, <2>5
<1>11. refs' = Count(Reporting(tasks', workers'), owned', UnrefsAtLast(stack'))
  <2>1. PICK r : r = Reporting(tasks, workers)
    OBVIOUS
  <2>2. IsFiniteSet(r) /\ n \notin r /\ Cardinality(r) \in Nat
    BY <1>10, <2>1, CountOf, SameContexts
  <2>3. Cardinality(r \cup {n}) = Cardinality(r) + 1
    BY <2>2, FS_AddElement
  <2> QED BY <1>3, <1>7, <1>10, <2>1, <2>2, <2>3 DEF Inv, Count
<1>12. Typed'
  BY <1>2, <1>3, <1>7 DEF Inv, Typed
<1>13. Reporting(tasks', workers') # {}
  BY <1>10
<1> QED BY <1>7, <1>9, <1>11, <1>12, <1>13 DEF Inv

-----------------------------------------------------------------------------
(* A synchronous transfer is performed. *)
LEMMA PerformFacts ==
  ASSUME Inv, Step("perform")
  PROVE  /\ Depth > 0 /\ Top.todo \in Seq(Labels) /\ Performs(Top.todo) /\ ~Unrefs(Top.todo)
         /\ Top.w \in 0 .. MaxSends /\ Top.wrote \in BOOLEAN
         /\ Top.w \in Workers /\ ~workers[Top.w].async /\ workers[Top.w] \in Worker
<1>1. Depth > 0 /\ Top.todo # <<>> /\ Top.todo[1] = "perform" /\ ~Unrefs(Top.todo)
  BY StepFacts
<1>2. /\ Top.todo \in Seq(Labels) /\ Top.w \in 0 .. MaxSends /\ Top.wrote \in BOOLEAN
      /\ Performs(Top.todo) => Top.w \in 1 .. Len(workers) /\ ~workers[Top.w].async
  BY <1>1, TopFacts
<1>3. 1 \in 1 .. Len(Top.todo)
  BY <1>1, <1>2
<1>4. Performs(Top.todo)
  BY <1>1, <1>3 DEF Performs
<1>5. Top.w \in Workers
  BY <1>2, <1>4 DEF Workers
<1> QED BY <1>1, <1>2, <1>4, <1>5, ContextOf

LEMMA Performed ==
  ASSUME Inv, Step("perform"), NEW c \in Worker, ~c.async,
         workers' = [workers EXCEPT ![Top.w] = c],
         curl' = curl, request' = request, async' = async, owned' = owned, refs' = refs,
         tasks' = tasks, NEW t \in Seq(Labels), ~Unrefs(t), NEW wrote \in BOOLEAN,
         stack' = Push(Below, "none", t, Top.w, wrote)
  PROVE  Inv'
<1>1. /\ Depth > 0 /\ ~Unrefs(Top.todo) /\ Top.w \in 0 .. MaxSends
      /\ Top.w \in Workers /\ ~workers[Top.w].async
  BY PerformFacts
<1>2. PICK w : w = Top.w
  OBVIOUS
<1>3. /\ workers' \in Seq(Worker) /\ Len(workers') = Len(workers)
      /\ Len(workers') <= MaxSends /\ workers'[w] = c
      /\ Grown(workers, workers')
  BY <1>1, <1>2, Advanced
<1>4. Others
  BY <1>3, SameContexts DEF Others
<1>5. w \in 1 .. Len(workers') /\ ~workers'[w].async
  BY <1>1, <1>2, <1>3 DEF Workers
<1>6. GoesOn("none", t, Top.w, wrote)
  BY <1>1, <1>2, <1>5 DEF GoesOn, Event
<1> QED BY <1>4, <1>6, GoesOnKeeps

LEMMA PerformSteps ==
  ASSUME Inv, PerformHeader \/ PerformBody \/ PerformEnd
  PROVE  Inv'
<1>1. Step("perform")
  BY DEF PerformHeader, PerformBody, PerformEnd
<1>2. /\ Top.todo \in Seq(Labels) /\ ~Unrefs(Top.todo) /\ Top.wrote \in BOOLEAN
      /\ Top.w \in Workers /\ ~workers[Top.w].async /\ workers[Top.w] \in Worker
  BY <1>1, PerformFacts
<1>3. /\ curl' = curl /\ request' = request /\ async' = async /\ owned' = owned
      /\ refs' = refs /\ tasks' = tasks
  BY DEF PerformHeader, PerformBody, PerformEnd, counts
<1>4. CASE PerformHeader
  <2>1. PICK fits \in BOOLEAN :
          /\ stack' = Push(Below, "none", Top.todo, Top.w, fits)
          /\ workers' = [workers EXCEPT ![Top.w].thread =
                           IF fits THEN "receiving" ELSE "failing"]
    BY <1>4 DEF PerformHeader
  <2> DEFINE c == [workers[Top.w] EXCEPT !.thread = IF fits THEN "receiving" ELSE "failing"]
  <2>2. c \in Worker /\ ~c.async
    BY <1>2 DEF Worker
  <2>3. workers' = [workers EXCEPT ![Top.w] = c]
    BY <2>1
  <2> HIDE DEF c
  <2> QED BY <1>1, <1>2, <1>3, <2>1, <2>2, <2>3, Performed
<1>5. CASE PerformBody
  <2> DEFINE c == [workers[Top.w] EXCEPT !.pieces = @ + 1]
  <2>1. c \in Worker /\ ~c.async
    <3>1. workers[Top.w].pieces \in 0 .. MaxPieces /\ MaxPieces \in Nat
      BY <1>2, XhrAssumption DEF Worker
    <3>2. workers[Top.w].pieces + 1 \in 0 .. MaxPieces
      BY <1>5, <3>1 DEF PerformBody
    <3> QED BY <1>2, <3>2 DEF Worker
  <2>2. /\ workers' = [workers EXCEPT ![Top.w] = c]
        /\ stack' = Push(Below, "none", <<"write">> \o Top.todo, Top.w, Top.wrote)
    BY <1>5 DEF PerformBody, Continue
  <2> HIDE DEF c
  <2>3. <<"write">> \o Top.todo \in Seq(Labels) /\ ~Unrefs(<<"write">> \o Top.todo)
    <3>1. "write" \in Labels \ {"unref", "perform"}
      BY DEF Labels
    <3>2. PICK t : t = Top.todo
      OBVIOUS
    <3>3. <<"write">> \o t \in Seq(Labels) /\ (Unrefs(<<"write">> \o t) <=> Unrefs(t))
      BY <1>2, <3>1, <3>2, BeforeKeeps
    <3> QED BY <1>2, <3>2, <3>3
  <2> QED BY <1>1, <1>2, <1>3, <2>1, <2>2, <2>3, Performed
<1>6. CASE PerformEnd
  <2>1. PICK d \in BOOLEAN :
          /\ workers' = [workers EXCEPT ![Top.w].thread = "ended", ![Top.w].succeeded = d]
          /\ stack' = Push(Below, "none", <<"write", "finish", "unsend">>, Top.w, Top.wrote)
    BY <1>6 DEF PerformEnd, Continue
  <2> DEFINE c == [workers[Top.w] EXCEPT !.thread = "ended", !.succeeded = d]
  <2>2. c \in Worker /\ ~c.async
    BY <1>2 DEF Worker
  <2>3. workers' = [workers EXCEPT ![Top.w] = c]
    BY <2>1
  <2> HIDE DEF c
  <2>4. /\ <<"write", "finish", "unsend">> \in Seq(Labels)
        /\ ~Unrefs(<<"write", "finish", "unsend">>)
    BY WriteCalls DEF Plain
  <2> QED BY <1>1, <1>2, <1>3, <2>1, <2>2, <2>3, <2>4, Performed
<1> QED BY <1>4, <1>5, <1>6

-----------------------------------------------------------------------------
LEMMA InitKeeps == Init => Inv
<1> SUFFICES ASSUME Init PROVE Inv
  OBVIOUS
<1>1. /\ workers = <<>> /\ tasks = <<>> /\ stack = <<>> /\ refs = 1 /\ owned = TRUE
      /\ curl = NoHandle /\ request = 0 /\ async = FALSE
  BY DEF Init
<1>2. /\ <<>> \in Seq(Worker) /\ <<>> \in Seq(Task) /\ <<>> \in Seq(Call)
      /\ Len(<<>>) = 0
  OBVIOUS
<1>3. Typed
  <2>1. 0 \in 0 .. MaxOpens /\ 0 <= MaxSends
    BY XhrAssumption
  <2>2. workers \in Seq(Worker) /\ tasks \in Seq(Task) /\ stack \in Seq(Call)
    BY <1>1, <1>2
  <2>3. Len(workers) <= MaxSends
    BY <1>1, <1>2, <2>1
  <2>4. /\ curl \in Addrs \cup {NoHandle} /\ request \in 0 .. MaxOpens
        /\ async \in BOOLEAN /\ owned \in BOOLEAN
    BY <1>1, <2>1
  <2> QED BY <2>2, <2>3, <2>4 DEF Typed
<1>4. FramesOK(stack, workers) /\ QueueOK(tasks, workers) /\ Reporting(tasks, workers) = {}
      /\ ~UnrefsAtLast(stack) /\ Len(stack) = 0
  BY <1>1, <1>2 DEF FramesOK, QueueOK, Reporting, UnrefsAtLast
<1>5. Cardinality(Reporting(tasks, workers)) = 0
  BY <1>4, FS_EmptySet
<1>6. refs = Count(Reporting(tasks, workers), owned, UnrefsAtLast(stack))
  BY <1>1, <1>4, <1>5 DEF Count
<1> QED BY <1>3, <1>4, <1>6 DEF Inv

LEMMA NextKeeps ==
  ASSUME Inv, NoDialogs, [Next]_vars
  PROVE  Inv'
<1>1. CASE ScriptCalls
  BY <1>1, ScriptKeeps, DropObjectKeeps DEF ScriptCalls
<1>2. CASE MainThread
  BY <1>2, RestSteps, SendRefusedKeeps, SendAsyncKeeps, SendSyncKeeps, HandlerReturnsKeeps,
     TaskKeeps, DoneTaskKeeps, WriteSteps, UnrefInDoneTaskKeeps, PerformSteps
     DEF MainThread
<1>3. ASSUME NEW w \in Workers,
             \/ WriteHeaderCallback(w) \/ WriteBodyCallback(w)
             \/ TrailerCallback(w) \/ WorkerDone(w)
      PROVE  Inv'
  BY <1>3, ReceiveKeeps, WorkerDoneKeeps
<1>4. CASE UNCHANGED vars
  <2>1. /\ curl' = curl /\ request' = request /\ async' = async /\ owned' = owned
        /\ refs' = refs /\ workers' = workers /\ tasks' = tasks /\ stack' = stack
    BY <1>4 DEF vars, counts
  <2>2. Typed' /\ Longer(workers, workers')
    BY <2>1 DEF Inv, Typed, Longer
  <2>3. /\ FramesOK(stack, workers)' /\ QueueOK(tasks, workers)'
        /\ Reporting(tasks, workers)' = Reporting(tasks, workers)
        /\ UnrefsAtLast(stack)' = UnrefsAtLast(stack)
    BY <2>1 DEF Inv
  <2> QED BY <2>1, <2>2, <2>3 DEF Inv
<1> QED BY <1>1, <1>2, <1>3, <1>4 DEF Next

LEMMA CountedInvariant ==
  ASSUME NoDialogs
  PROVE  Spec => []Inv
<1>1. Inv /\ [Next]_vars => Inv'
  BY NextKeeps
<1> QED BY <1>1, InitKeeps, PTL DEF Spec

(* The object outlives its transfers: when the last reference is gone no    *)
(* thread runs for it, no task of it is queued and no call of a task or of  *)
(* a synchronous transfer is on the stack (Ref and Unref of the transfers,  *)
(* curl_xml_http_request.cc:408 and 585).  A handler that shows a dialog    *)
(* would have the last DoneTask run below the call that goes on after it.   *)
THEOREM ObjectOutlivesTransfers ==
  ASSUME NoDialogs
  PROVE  Spec => []RefsCover
<1>1. Inv => RefsCover
  <2> SUFFICES ASSUME Inv, refs = 0 PROVE Pending = {}
    BY DEF RefsCover
  <2>1. Cardinality(Reporting(tasks, workers)) \in Nat
        /\ (Cardinality(Reporting(tasks, workers)) = 0 => Reporting(tasks, workers) = {})
    BY CountOf, SameContexts
  <2>2. Reporting(tasks, workers) = {} /\ ~owned /\ ~UnrefsAtLast(stack)
    BY <2>1 DEF Inv, Count
  <2>3. Len(stack) = 0 /\ Depth = 0
    <3>1. ~(Len(stack) > 0)
      BY <2>2 DEF Inv
    <3>2. Len(stack) \in Nat
      BY DEF Inv, Typed
    <3> QED BY <3>1, <3>2 DEF Depth
  <2>4. \A w \in Workers : ~Running(w)
    BY <2>2 DEF Reporting, Running, Goes, Workers
  <2>5. \A k \in 1 .. Len(tasks) : FALSE
    <3> SUFFICES ASSUME NEW k \in 1 .. Len(tasks) PROVE FALSE
      OBVIOUS
    <3>1. /\ tasks[k].w \in 1 .. Len(workers) /\ workers[tasks[k].w].async
          /\ \/ Goes(workers, tasks[k].w)
             \/ \E m \in 1 .. Len(tasks) : IsDone(tasks[m], tasks[k].w)
      BY DEF Inv, QueueOK
    <3>2. tasks[k].w \in Reporting(tasks, workers)
      BY <3>1 DEF Reporting
    <3> QED BY <2>2, <3>2
  <2>6. 1 .. Depth = {}
    BY <2>3
  <2> QED BY <2>4, <2>5, <2>6 DEF Pending
<1> QED BY <1>1, CountedInvariant, PTL
=============================================================================
