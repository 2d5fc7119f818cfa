--------------------------- MODULE MainLoop_proof ---------------------------
(***************************************************************************)
(* Proofs about MainLoop: every watch that goes away is told once, while   *)
(* nothing runs for it, and none is left that glib does not know.          *)
(***************************************************************************)
EXTENDS MainLoop, SequenceTheorems, TLAPS

OnStack(at, w) == \E i \in 1 .. Depth : stack[i].at = at /\ stack[i].w = w
Adding(w) == \E t \in Threads : adding[t] = w

(* A node is marked for a reason that is on the stack: its callback, or its *)
(* OnRemove, after which it is gone.                                        *)
WatchOK(w) ==
  /\ nodes[w].removals <= 1
  /\ nodes[w].removals = 1 => nodes[w].removing
  /\ ~nodes[w].exists => nodes[w].removals = 1
  /\ nodes[w].exists /\ nodes[w].removals = 1 => OnStack("onremove", w)
  /\ nodes[w].calling => OnStack("call", w)
  /\ nodes[w].removing /\ nodes[w].removals = 0 => OnStack("call", w)
  /\ w \in hashed \cup sources \/ Adding(w) => nodes[w].exists
  /\ nodes[w].exists => w \in hashed \/ Adding(w)
  /\ w \in hashed \/ Adding(w) => w \in sources \/ OnStack("onremove", w)

(* A frame is the only one of its watch, which waits for it. *)
FrameOK(i) ==
  /\ stack[i].at = "destroy" => stack[i].w = 0 /\ i = 1 /\ destroyed
  /\ stack[i].at # "destroy" =>
       /\ stack[i].w \in Watches /\ nodes[stack[i].w].exists
       /\ \A j \in 1 .. Depth : stack[j].w = stack[i].w => j = i
  /\ stack[i].at = "call" =>
       nodes[stack[i].w].calling /\ nodes[stack[i].w].removals = 0
  /\ stack[i].at = "return" =>
       /\ i = Depth /\ nodes[stack[i].w].removals = 0
       /\ ~nodes[stack[i].w].calling /\ ~nodes[stack[i].w].removing
  /\ stack[i].at = "onremove" => nodes[stack[i].w].removals = 1

LoopInv ==
  /\ TypeOK
  /\ \A t \in Threads : adding[t] # 0 => mutex = t
  /\ \A w \in Watches : WatchOK(w)
  /\ \A i \in 1 .. Depth : FrameOK(i)
  /\ destroyed => /\ \A t \in Threads : adding[t] = 0
                  /\ IF Depth = 0 THEN hashed = {} ELSE stack[1].at = "destroy"

-----------------------------------------------------------------------------
(* Sequences that get, lose or change one element. *)
LEMMA Pushed ==
  ASSUME NEW S, NEW s \in Seq(S), NEW f \in S
  PROVE  /\ Append(s, f) \in Seq(S) /\ Len(Append(s, f)) = Len(s) + 1
         /\ Append(s, f)[Len(s) + 1] = f
         /\ \A i \in 1 .. Len(s) : Append(s, f)[i] = s[i]
OBVIOUS

LEMMA Popped ==
  ASSUME NEW S, NEW s \in Seq(S), Len(s) > 0
  PROVE  /\ SubSeq(s, 1, Len(s) - 1) \in Seq(S)
         /\ Len(SubSeq(s, 1, Len(s) - 1)) = Len(s) - 1
         /\ \A i \in 1 .. Len(s) - 1 : SubSeq(s, 1, Len(s) - 1)[i] = s[i]
<1>1. PICK n \in Nat : n = Len(s) - 1
  OBVIOUS
<1>2. \A i \in 1 .. n : s[i] \in S
  BY <1>1
<1>3. /\ SubSeq(s, 1, n) \in Seq(S)
      /\ Len(SubSeq(s, 1, n)) = IF 1 <= n THEN n - 1 + 1 ELSE 0
      /\ \A i \in 1 .. n - 1 + 1 : SubSeq(s, 1, n)[i] = s[1 + i - 1]
  BY <1>2, SubSeqProperties
<1>4. n - 1 + 1 = n /\ (IF 1 <= n THEN n - 1 + 1 ELSE 0) = n /\ \A i \in 1 .. n : 1 + i - 1 = i
  OBVIOUS
<1> QED BY <1>1, <1>3, <1>4

LEMMA Swapped ==
  ASSUME NEW S, NEW s \in Seq(S), Len(s) > 0, NEW f \in S
  PROVE  LET r == Append(SubSeq(s, 1, Len(s) - 1), f)
         IN /\ r \in Seq(S) /\ Len(r) = Len(s) /\ r[Len(s)] = f
            /\ \A i \in 1 .. Len(s) - 1 : r[i] = s[i]
<1> DEFINE b == SubSeq(s, 1, Len(s) - 1)
<1>1. /\ b \in Seq(S) /\ Len(b) = Len(s) - 1
      /\ \A i \in 1 .. Len(s) - 1 : b[i] = s[i]
  BY Popped
<1> HIDE DEF b
<1>2. /\ Append(b, f) \in Seq(S) /\ Len(Append(b, f)) = Len(b) + 1
      /\ Append(b, f)[Len(b) + 1] = f
      /\ \A i \in 1 .. Len(b) : Append(b, f)[i] = b[i]
  BY <1>1, Pushed
<1>3. Len(b) + 1 = Len(s)
  BY <1>1
<1>4. \A i \in 1 .. Len(s) - 1 : Append(b, f)[i] = s[i]
  BY <1>1, <1>2
<1>5. /\ Append(b, f) \in Seq(S) /\ Len(Append(b, f)) = Len(s) /\ Append(b, f)[Len(s)] = f
  BY <1>2, <1>3
<1> QED BY <1>4, <1>5 DEF b

LEMMA Updated ==
  ASSUME NEW S, NEW s \in Seq(S), NEW w \in 1 .. Len(s), NEW n \in S
  PROVE  LET r == [s EXCEPT ![w] = n]
         IN /\ r \in Seq(S) /\ Len(r) = Len(s) /\ r[w] = n
            /\ \A v \in 1 .. Len(s) : v # w => r[v] = s[v]
OBVIOUS

(* A frame on the stack names a watch. *)
LEMMA FrameOf ==
  ASSUME LoopInv, NEW i \in 1 .. Depth
  PROVE  /\ stack[i] \in Frame
         /\ stack[i].at # "destroy" =>
              stack[i].w \in Watches /\ stack[i].w # 0 /\ nodes[stack[i].w].exists
<1>1. \A S : \A q \in Seq(S) : \A k \in 1 .. Len(q) : q[k] \in S
  OBVIOUS
<1>2. stack[i] \in Frame
  BY <1>1 DEF LoopInv, TypeOK, Depth
<1>3. stack[i].at # "destroy" => stack[i].w \in Watches /\ nodes[stack[i].w].exists
  BY DEF LoopInv, FrameOK
<1>4. 0 \notin Watches
  BY DEF Watches
<1> QED BY <1>2, <1>3, <1>4

(* While nobody holds the mutex, no thread is adding a watch. *)
LEMMA NobodyAdds ==
  ASSUME LoopInv, mutex = Free
  PROVE  \A t \in Threads : adding[t] = 0
BY MainLoopAssumption DEF LoopInv

LEMMA InitLoop == Init => LoopInv
<1> SUFFICES ASSUME Init PROVE LoopInv
  OBVIOUS
<1>1. nodes = <<>> /\ stack = <<>> /\ hashed = {} /\ sources = {} /\ mutex = Free /\ destroyed = FALSE
      /\ adding = [t \in Threads |-> 0]
  BY DEF Init
<1>2. Watches = {} /\ Depth = 0 /\ 1 .. Depth = {} /\ Len(nodes) = 0
  BY <1>1 DEF Watches, Depth
<1>3. TypeOK
  <2>1. <<>> \in Seq(Node) /\ <<>> \in Seq(Frame)
    OBVIOUS
  <2>2. 0 <= MaxWatches /\ 0 <= MaxDepth
    BY MainLoopAssumption
  <2>3. 0 \in 0 .. Len(nodes)
    BY <1>2
  <2> QED BY <1>1, <1>2, <2>1, <2>2, <2>3 DEF TypeOK
<1> QED BY <1>1, <1>2, <1>3 DEF LoopInv

-----------------------------------------------------------------------------
(* Steps that leave the stack alone.  A new watch. *)
LEMMA NewWatch ==
  ASSUME LoopInv, nodes' = Append(nodes, NewNode), Len(nodes) < MaxWatches
  PROVE  /\ nodes' \in Seq(Node) /\ Len(nodes') = Len(nodes) + 1 /\ Len(nodes') <= MaxWatches
         /\ nodes'[Len(nodes')] = NewNode
         /\ \A w \in Watches : nodes'[w] = nodes[w] /\ w # Len(nodes')
         /\ Watches' = Watches \cup {Len(nodes')}
         /\ Len(nodes') \in Nat \ {0}
         /\ Len(nodes') \notin hashed \cup sources /\ ~Adding(Len(nodes'))
<1>1. nodes \in Seq(Node) /\ NewNode \in Node /\ Len(nodes) \in Nat
  BY DEF LoopInv, TypeOK, Node, NewNode
<1>2. /\ nodes' \in Seq(Node) /\ Len(nodes') = Len(nodes) + 1
      /\ nodes'[Len(nodes) + 1] = NewNode
      /\ \A w \in 1 .. Len(nodes) : nodes'[w] = nodes[w]
  BY <1>1, Pushed
<1>3. /\ 1 .. Len(nodes) + 1 = (1 .. Len(nodes)) \cup {Len(nodes) + 1}
      /\ Len(nodes) + 1 \notin 0 .. Len(nodes) /\ Len(nodes) + 1 \in Nat \ {0}
      /\ 1 .. Len(nodes) \subseteq 0 .. Len(nodes)
  BY <1>1
<1>4. Len(nodes) + 1 <= MaxWatches
  BY <1>1, MainLoopAssumption
<1>5. hashed \subseteq 1 .. Len(nodes) /\ sources \subseteq 1 .. Len(nodes)
      /\ \A t \in Threads : adding[t] \in 0 .. Len(nodes)
  BY DEF LoopInv, TypeOK, Watches
<1> QED BY <1>1, <1>2, <1>3, <1>4, <1>5 DEF Watches, Adding

LEMMA AddWatchKeeps ==
  ASSUME LoopInv, AddWatch
  PROVE  LoopInv'
<1> DEFINE n == Len(nodes')
<1>1. /\ nodes' = Append(nodes, NewNode) /\ Len(nodes) < MaxWatches
      /\ hashed' = hashed \cup {n} /\ sources' = sources \cup {n}
      /\ UNCHANGED <<mutex, adding, stack, destroyed>>
      /\ ~destroyed
  BY DEF AddWatch
<1>2. /\ nodes' \in Seq(Node) /\ Len(nodes') = Len(nodes) + 1 /\ n <= MaxWatches
      /\ nodes'[n] = NewNode
      /\ \A w \in Watches : nodes'[w] = nodes[w] /\ w # n
      /\ Watches' = Watches \cup {n}
      /\ n \in Nat \ {0}
  BY <1>1, NewWatch
<1> HIDE DEF n
<1>3. TypeOK'
  <2>1. 0 .. Len(nodes) \subseteq 0 .. Len(nodes')
    BY <1>2 DEF n, LoopInv, TypeOK
  <2> QED BY <1>1, <1>2, <2>1 DEF LoopInv, TypeOK, Depth, n
<1>4. ASSUME NEW w \in Watches' PROVE WatchOK(w)'
  <2>1. CASE w = n
    <3>1. /\ nodes'[w].exists /\ ~nodes'[w].calling /\ ~nodes'[w].removing
          /\ nodes'[w].removals = 0
      BY <1>2, <2>1 DEF NewNode
    <3>2. w \in hashed' /\ w \in sources'
      BY <1>1, <2>1
    <3> QED BY <3>1, <3>2 DEF WatchOK
  <2>2. CASE w \in Watches
    <3>1. WatchOK(w) /\ nodes'[w] = nodes[w] /\ w # n
      BY <1>2, <2>2 DEF LoopInv
    <3> QED BY <1>1, <3>1 DEF WatchOK, OnStack, Adding, Depth
  <2> QED BY <1>2, <2>1, <2>2
<1>5. ASSUME NEW i \in 1 .. Depth' PROVE FrameOK(i)'
  <2>1. i \in 1 .. Depth /\ FrameOK(i)
    BY <1>1, <1>5 DEF LoopInv, Depth
  <2> QED BY <1>1, <1>2, <2>1 DEF FrameOK, Depth
<1> QED BY <1>1, <1>3, <1>4, <1>5 DEF LoopInv

LEMMA AddInThreadKeeps ==
  ASSUME LoopInv, NEW t \in Threads, AddInThread(t)
  PROVE  LoopInv'
<1> DEFINE n == Len(nodes')
<1>1. /\ nodes' = Append(nodes, NewNode) /\ Len(nodes) < MaxWatches
      /\ sources' = sources \cup {n}
      /\ adding' = [adding EXCEPT ![t] = n] /\ mutex' = t /\ mutex = Free
      /\ UNCHANGED <<hashed, stack, destroyed>>
      /\ ~destroyed
  BY DEF AddInThread
<1>2. /\ nodes' \in Seq(Node) /\ Len(nodes') = Len(nodes) + 1 /\ n <= MaxWatches
      /\ nodes'[n] = NewNode
      /\ \A w \in Watches : nodes'[w] = nodes[w] /\ w # n
      /\ Watches' = Watches \cup {n}
      /\ n \in Nat \ {0}
  BY <1>1, NewWatch
<1> HIDE DEF n
<1>3. /\ adding \in [Threads -> 0 .. Len(nodes)] /\ 0 .. Len(nodes) \subseteq 0 .. n
      /\ n \in 0 .. n
  BY <1>2 DEF n, LoopInv, TypeOK
<1>4. /\ adding' \in [Threads -> 0 .. n] /\ adding'[t] = n
      /\ \A u \in Threads : u # t => adding'[u] = adding[u] /\ adding[u] = 0
      /\ adding[t] = 0
  BY <1>1, <1>3, NobodyAdds
<1>5. TypeOK'
  BY <1>1, <1>2, <1>3, <1>4 DEF LoopInv, TypeOK, Depth, n
<1>6. ASSUME NEW w \in Watches' PROVE WatchOK(w)'
  <2>1. CASE w = n
    <3>1. /\ nodes'[w].exists /\ ~nodes'[w].calling /\ ~nodes'[w].removing
          /\ nodes'[w].removals = 0
      BY <1>2, <2>1 DEF NewNode
    <3>2. Adding(w)' /\ w \in sources'
      BY <1>1, <1>4, <2>1 DEF Adding
    <3> QED BY <3>1, <3>2 DEF WatchOK
  <2>2. CASE w \in Watches
    <3>1. WatchOK(w) /\ nodes'[w] = nodes[w] /\ w # n /\ w # 0
      BY <1>2, <2>2 DEF LoopInv, Watches
    <3>2. ~Adding(w) /\ ~Adding(w)'
      BY <1>4, <3>1 DEF Adding
    <3> QED BY <1>1, <3>1, <3>2 DEF WatchOK, OnStack, Depth
  <2> QED BY <1>2, <2>1, <2>2
<1>7. ASSUME NEW i \in 1 .. Depth' PROVE FrameOK(i)'
  <2>1. i \in 1 .. Depth /\ FrameOK(i)
    BY <1>1, <1>7 DEF LoopInv, Depth
  <2> QED BY <1>1, <1>2, <2>1 DEF FrameOK, Depth
<1> QED BY <1>1, <1>4, <1>5, <1>6, <1>7 DEF LoopInv

LEMMA AddedInThreadKeeps ==
  ASSUME LoopInv, NEW t \in Threads, AddedInThread(t)
  PROVE  LoopInv'
<1>1. /\ adding[t] # 0 /\ mutex = t
      /\ hashed' = hashed \cup {adding[t]}
      /\ adding' = [adding EXCEPT ![t] = 0] /\ mutex' = Free
      /\ UNCHANGED <<nodes, sources, stack, destroyed>>
  BY DEF AddedInThread
<1>2. /\ adding \in [Threads -> 0 .. Len(nodes)] /\ 0 \in 0 .. Len(nodes)
      /\ adding[t] \in Watches
  <2>1. adding \in [Threads -> 0 .. Len(nodes)] /\ Len(nodes) \in Nat
    BY DEF LoopInv, TypeOK
  <2> QED BY <1>1, <2>1 DEF Watches
<1>3. /\ adding' \in [Threads -> 0 .. Len(nodes)] /\ adding'[t] = 0
      /\ \A u \in Threads : u # t => adding'[u] = adding[u] /\ adding[u] = 0
  BY <1>1, <1>2 DEF LoopInv
<1>4. TypeOK'
  BY <1>1, <1>2, <1>3 DEF LoopInv, TypeOK, Depth, Watches
<1>5. ASSUME NEW w \in Watches' PROVE WatchOK(w)'
  <2>1. w \in Watches /\ WatchOK(w) /\ w # 0
    BY <1>1, <1>5 DEF LoopInv, Watches
  <2>2. Adding(w) <=> w = adding[t]
    BY <1>3, <2>1 DEF Adding
  <2>3. ~Adding(w)'
    BY <1>3, <2>1 DEF Adding
  <2> QED BY <1>1, <2>1, <2>2, <2>3 DEF WatchOK, OnStack, Depth
<1>6. ASSUME NEW i \in 1 .. Depth' PROVE FrameOK(i)'
  <2>1. i \in 1 .. Depth /\ FrameOK(i)
    BY <1>1, <1>6 DEF LoopInv, Depth
  <2> QED BY <1>1, <2>1 DEF FrameOK, Depth, Watches
<1>7. ~destroyed'
  BY <1>1 DEF LoopInv
<1> QED BY <1>1, <1>3, <1>4, <1>5, <1>6, <1>7 DEF LoopInv

-----------------------------------------------------------------------------
(* Steps on the stack.  What changes in the node of one watch.              *)
LEMMA NodeChanged ==
  ASSUME LoopInv, NEW w \in Watches, NEW n \in Node, nodes' = [nodes EXCEPT ![w] = n]
  PROVE  /\ nodes' \in Seq(Node) /\ Len(nodes') = Len(nodes) /\ Watches' = Watches
         /\ nodes'[w] = n
         /\ \A v \in Watches : v # w => nodes'[v] = nodes[v]
<1>1. nodes \in Seq(Node) /\ w \in 1 .. Len(nodes)
  BY DEF LoopInv, TypeOK, Watches
<1> QED BY <1>1, Updated DEF Watches

LEMMA WatchInFrame ==
  ASSUME LoopInv, NEW w \in Watches
  PROVE  w \in 0 .. MaxWatches
BY MainLoopAssumption DEF LoopInv, TypeOK, Watches

LEMMA RemovedNode ==
  ASSUME NEW m \in Node, m.removals = 0
  PROVE  LET n == [m EXCEPT !.removing = TRUE, !.removals = @ + 1]
         IN /\ n \in Node /\ n.exists = m.exists /\ n.calling = m.calling
            /\ n.removing /\ n.removals = 1
<1>1. m.removals + 1 = 1 /\ 1 \in Nat
  OBVIOUS
<1>2. [m EXCEPT !.removing = TRUE, !.removals = @ + 1] = [m EXCEPT !.removing = TRUE, !.removals = 1]
  BY <1>1
<1> QED BY <1>1, <1>2 DEF Node

LEMMA NodeOf ==
  ASSUME LoopInv, NEW w \in Watches
  PROVE  nodes[w] \in Node
<1>1. \A S : \A q \in Seq(S) : \A k \in 1 .. Len(q) : q[k] \in S
  OBVIOUS
<1> QED BY <1>1 DEF LoopInv, TypeOK, Watches

(* A watch that has no frame gets one: its callback, or its OnRemove.       *)
LEMMA PushKeeps ==
  ASSUME LoopInv, NEW w \in Watches, NEW n \in Node, NEW f \in Frame,
         f.w = w, f.at \in {"call", "onremove"}, nodes[w].exists,
         Depth < MaxDepth, Depth = 0 \/ Top.at # "return",
         \A i \in 1 .. Depth : stack[i].w # w,
         nodes' = [nodes EXCEPT ![w] = n], n.exists, stack' = Append(stack, f),
         f.at = "call" => n.calling /\ n.removals = 0 /\ sources' = sources,
         f.at = "onremove" =>
           n.removals = 1 /\ n.removing /\ ~n.calling /\ sources' = sources \ {w},
         UNCHANGED <<hashed, adding, destroyed>>,
         mutex' \in {Main, Free} \cup Threads, \A t \in Threads : adding[t] # 0 => mutex' = t,
         destroyed => Depth > 0
  PROVE  LoopInv'
<1>1. /\ nodes' \in Seq(Node) /\ Len(nodes') = Len(nodes) /\ Watches' = Watches
      /\ nodes'[w] = n
      /\ \A v \in Watches : v # w => nodes'[v] = nodes[v]
  BY NodeChanged
<1>2. stack \in Seq(Frame) /\ Depth \in Nat
  BY DEF LoopInv, TypeOK, Depth
<1>3. /\ stack' \in Seq(Frame) /\ Depth' = Depth + 1 /\ stack'[Depth + 1] = f
      /\ \A i \in 1 .. Depth : stack'[i] = stack[i]
  BY <1>2, Pushed DEF Depth
<1>4. /\ \A i \in 1 .. Depth + 1 : i \in 1 .. Depth \/ i = Depth + 1
      /\ \A i \in 1 .. Depth : i \in 1 .. Depth + 1 /\ i # Depth + 1
      /\ Depth + 1 \in 1 .. Depth + 1 /\ Depth + 1 <= MaxDepth
  BY <1>2, MainLoopAssumption
<1>5. TypeOK'
  BY <1>1, <1>3, <1>4 DEF LoopInv, TypeOK
<1>6. \A at, v : OnStack(at, v)' <=> OnStack(at, v) \/ (at = f.at /\ v = w)
  <2>1. ASSUME NEW at, NEW v
        PROVE  OnStack(at, v)' <=> OnStack(at, v) \/ (at = f.at /\ v = w)
    <3>1. OnStack(at, v)' <=> \E i \in 1 .. Depth + 1 : stack'[i].at = at /\ stack'[i].w = v
      BY <1>3 DEF OnStack
    <3> QED BY <1>3, <1>4, <3>1 DEF OnStack
  <2> QED BY <2>1
<1>7. ASSUME NEW v \in Watches' PROVE WatchOK(v)'
  <2>1. v \in Watches /\ WatchOK(v) /\ (Adding(v)' <=> Adding(v)) /\ hashed' = hashed
    BY <1>1, <1>7 DEF LoopInv, Adding
  <2>2. CASE v # w
    <3>1. v \in sources' <=> v \in sources
      BY <2>2
    <3> QED BY <1>1, <1>6, <2>1, <2>2, <3>1 DEF WatchOK
  <2>3. CASE v = w
    <3>1. ~OnStack("onremove", w)
      BY DEF OnStack
    <3>2. OnStack(f.at, w)'
      BY <1>6
    <3>3. n.removals <= 1 /\ (n.removals = 1 => f.at = "onremove")
      <4>1. 0 <= 1 /\ 0 # 1 /\ 1 <= 1
        OBVIOUS
      <4> QED BY <4>1
    <3>4. n.removals = 0 \/ n.calling = FALSE
      OBVIOUS
    <3> QED BY <1>1, <2>1, <2>3, <3>1, <3>2, <3>3 DEF WatchOK
  <2> QED BY <2>2, <2>3
<1>8. ASSUME NEW i \in 1 .. Depth' PROVE FrameOK(i)'
  <2>1. CASE i \in 1 .. Depth
    <3>1. FrameOK(i) /\ stack'[i] = stack[i] /\ stack[i].w # w
      BY <1>3, <2>1 DEF LoopInv
    <3>2. stack[i].at # "return"
      <4>1. stack[i].at = "return" => i = Depth /\ stack[i] = Top
        BY <3>1 DEF FrameOK, Top
      <4>2. Depth # 0
        BY <1>2, <2>1
      <4> QED BY <4>1, <4>2
    <3>3. stack[i].at # "destroy" =>
            /\ stack[i].w \in Watches /\ nodes'[stack[i].w] = nodes[stack[i].w]
            /\ \A j \in 1 .. Depth + 1 : stack'[j].w = stack[i].w => j = i
      BY <1>1, <1>3, <1>4, <3>1 DEF FrameOK
    <3> QED BY <1>1, <1>3, <3>1, <3>2, <3>3 DEF FrameOK
  <2>2. CASE i = Depth + 1
    <3>1. stack'[i] = f /\ f.at # "destroy" /\ f.at # "return"
      BY <1>3, <2>2
    <3>2. \A j \in 1 .. Depth + 1 : stack'[j].w = w => j = i
      BY <1>3, <1>4, <2>2
    <3> QED BY <1>1, <1>3, <3>1, <3>2 DEF FrameOK
  <2> QED BY <1>3, <1>4, <1>8, <2>1, <2>2
<1>9. destroyed => Depth' # 0 /\ stack'[1].at = "destroy"
  <2> SUFFICES ASSUME destroyed PROVE Depth' # 0 /\ stack'[1].at = "destroy"
    OBVIOUS
  <2>1. Depth > 0 /\ 1 \in 1 .. Depth /\ Depth # 0 /\ Depth + 1 # 0
    BY <1>2
  <2> QED BY <1>3, <2>1 DEF LoopInv
<1> QED BY <1>5, <1>7, <1>8, <1>9 DEF LoopInv

LEMMA RemoveWatchKeeps ==
  ASSUME LoopInv, NEW w \in Watches, RemoveWatch(w)
  PROVE  LoopInv'
<1>1. /\ w \in hashed /\ ~nodes[w].removing /\ ~destroyed
      /\ UNCHANGED <<hashed, mutex, adding, destroyed>>
      /\ Depth = 0 \/ Top.at \in {"call", "onremove"}
  BY DEF RemoveWatch, InProgram, TopIs
<1>2. /\ nodes[w] \in Node /\ WatchOK(w) /\ nodes[w].exists /\ nodes[w].removals = 0
  <2>1. nodes[w] \in Node /\ WatchOK(w)
    BY NodeOf DEF LoopInv
  <2>2. nodes[w].removals \in Nat /\ nodes[w].removals <= 1
    BY <2>1 DEF Node, WatchOK
  <2>3. nodes[w].removals = 0
    BY <1>1, <2>1, <2>2 DEF WatchOK
  <2> QED BY <1>1, <2>1, <2>3 DEF WatchOK
<1>3. \A i \in 1 .. Depth : stack[i].w = w => stack[i].at = "call" /\ nodes[w].calling
  <2> SUFFICES ASSUME NEW i \in 1 .. Depth, stack[i].w = w
               PROVE  stack[i].at = "call" /\ nodes[w].calling
    OBVIOUS
  <2>1. FrameOK(i) /\ stack[i] \in Frame /\ w # 0
    BY FrameOf DEF LoopInv, Watches
  <2>2. stack[i].at \in {"call", "return", "onremove", "destroy"}
    BY <2>1 DEF Frame
  <2>3. stack[i].at # "destroy" /\ stack[i].at # "onremove"
    BY <1>2, <2>1 DEF FrameOK
  <2>4. stack[i].at # "return"
    <3>1. stack[i].at = "return" => i = Depth /\ stack[i] = Top
      BY <2>1 DEF FrameOK, Top
    <3>2. Depth # 0
      BY DEF Depth
    <3> QED BY <1>1, <3>1, <3>2
  <2> QED BY <2>1, <2>2, <2>3, <2>4 DEF FrameOK
<1>4. CASE nodes[w].calling
  <2> DEFINE n == [nodes[w] EXCEPT !.removing = TRUE]
  <2>1. nodes' = [nodes EXCEPT ![w] = n] /\ sources' = sources /\ stack' = stack
    BY <1>4 DEF RemoveWatch
  <2>2. /\ n \in Node /\ n.exists /\ n.calling /\ n.removing /\ n.removals = 0
    BY <1>2, <1>4 DEF Node
  <2> HIDE DEF n
  <2>3. /\ nodes' \in Seq(Node) /\ Len(nodes') = Len(nodes) /\ Watches' = Watches
        /\ nodes'[w] = n
        /\ \A v \in Watches : v # w => nodes'[v] = nodes[v]
    BY <2>1, <2>2, NodeChanged
  <2>4. TypeOK'
    BY <1>1, <2>1, <2>3 DEF LoopInv, TypeOK, Depth
  <2>5. ASSUME NEW v \in Watches' PROVE WatchOK(v)'
    <3>1. v \in Watches /\ WatchOK(v)
      BY <2>3, <2>5 DEF LoopInv
    <3>2. CASE v = w
      BY <1>1, <1>2, <1>4, <2>1, <2>2, <2>3, <3>1, <3>2 DEF WatchOK, OnStack, Adding, Depth
    <3>3. CASE v # w
      BY <1>1, <2>1, <2>3, <3>1, <3>3 DEF WatchOK, OnStack, Adding, Depth
    <3> QED BY <3>2, <3>3
  <2>6. ASSUME NEW i \in 1 .. Depth' PROVE FrameOK(i)'
    <3>1. i \in 1 .. Depth /\ FrameOK(i)
      BY <2>1, <2>6 DEF LoopInv, Depth
    <3>2. CASE stack[i].w = w
      <4>1. stack[i].at = "call"
        BY <1>3, <3>1, <3>2
      <4> QED BY <2>1, <2>2, <2>3, <3>1, <3>2, <4>1 DEF FrameOK, Depth
    <3>3. CASE stack[i].w # w
      BY <1>1, <2>1, <2>3, <3>1, <3>3 DEF FrameOK, Depth
    <3> QED BY <3>2, <3>3
  <2> QED BY <1>1, <2>4, <2>5, <2>6 DEF LoopInv
<1>5. CASE ~nodes[w].calling
  <2> DEFINE n == [nodes[w] EXCEPT !.removing = TRUE, !.removals = @ + 1]
             f == At("onremove", "remove", w)
  <2>1. /\ nodes' = [nodes EXCEPT ![w] = n] /\ sources' = sources \ {w}
        /\ stack' = Append(stack, f) /\ Depth < MaxDepth
    BY <1>5 DEF RemoveWatch
  <2>2. /\ n \in Node /\ n.exists /\ ~n.calling /\ n.removing /\ n.removals = 1
    BY <1>2, <1>5, RemovedNode
  <2>3. f \in Frame /\ f.w = w /\ f.at = "onremove"
    BY WatchInFrame DEF At, Frame
  <2>4. \A i \in 1 .. Depth : stack[i].w # w
    BY <1>3, <1>5
  <2>5. mutex' \in {Main, Free} \cup Threads /\ \A t \in Threads : adding[t] # 0 => mutex' = t
    BY <1>1 DEF LoopInv, TypeOK
  <2> HIDE DEF n, f
  <2> QED BY <1>1, <1>2, <2>1, <2>2, <2>3, <2>4, <2>5, PushKeeps
<1> QED BY <1>4, <1>5

LEMMA CallbackKeeps ==
  ASSUME LoopInv, NEW w \in Watches, Callback(w)
  PROVE  LoopInv'
<1>1. /\ w \in sources /\ ~destroyed /\ Depth < MaxDepth
      /\ ~InCallback(w)
      /\ UNCHANGED <<hashed, mutex, adding, destroyed>>
      /\ Depth = 0 \/ Top.at = "call"
  BY DEF Callback, TopIs
<1>2. /\ nodes[w] \in Node /\ WatchOK(w) /\ nodes[w].exists
  <2>1. nodes[w] \in Node /\ WatchOK(w)
    BY NodeOf DEF LoopInv
  <2> QED BY <1>1, <2>1 DEF WatchOK
<1>3. ~OnStack("call", w)
  BY <1>1 DEF OnStack, InCallback, Frames
<1>4. CASE nodes[w].calling \/ nodes[w].removing
  <2>1. sources' = sources \ {w} /\ nodes' = nodes /\ stack' = stack
    BY <1>4 DEF Callback
  <2>2. OnStack("onremove", w)
    <3>1. nodes[w].removals \in Nat /\ nodes[w].removals <= 1 /\ nodes[w].removals # 0
      BY <1>2, <1>3, <1>4 DEF Node, WatchOK
    <3>2. nodes[w].removals = 1
      BY <3>1
    <3> QED BY <1>2, <3>2 DEF WatchOK
  <2>3. TypeOK'
    BY <1>1, <2>1 DEF LoopInv, TypeOK, Depth, Watches
  <2>4. ASSUME NEW v \in Watches' PROVE WatchOK(v)'
    <3>1. v \in Watches /\ WatchOK(v)
      BY <2>1, <2>4 DEF LoopInv, Watches
    <3>2. CASE v = w
      BY <1>1, <1>2, <2>1, <2>2, <3>1, <3>2 DEF WatchOK, OnStack, Adding, Depth
    <3>3. CASE v # w
      BY <1>1, <2>1, <3>1, <3>3 DEF WatchOK, OnStack, Adding, Depth
    <3> QED BY <3>2, <3>3
  <2>5. ASSUME NEW i \in 1 .. Depth' PROVE FrameOK(i)'
    <3>1. i \in 1 .. Depth /\ FrameOK(i)
      BY <2>1, <2>5 DEF LoopInv, Depth
    <3> QED BY <1>1, <2>1, <3>1 DEF FrameOK, Depth, Watches
  <2> QED BY <1>1, <2>3, <2>4, <2>5 DEF LoopInv
<1>5. CASE ~(nodes[w].calling \/ nodes[w].removing)
  <2> DEFINE n == [nodes[w] EXCEPT !.calling = TRUE]
             f == At("call", "loop", w)
  <2>1. /\ nodes' = [nodes EXCEPT ![w] = n] /\ sources' = sources
        /\ stack' = Append(stack, f)
    BY <1>5 DEF Callback
  <2>2. nodes[w].removals = 0
    <3>1. nodes[w].removals \in Nat /\ nodes[w].removals <= 1 /\ nodes[w].removals # 1
      BY <1>2, <1>5 DEF Node, WatchOK
    <3> QED BY <3>1
  <2>3. n \in Node /\ n.exists /\ n.calling /\ n.removals = 0
    BY <1>2, <2>2 DEF Node
  <2>4. f \in Frame /\ f.w = w /\ f.at = "call"
    BY WatchInFrame DEF At, Frame
  <2>5. ASSUME NEW i \in 1 .. Depth, stack[i].w = w PROVE FALSE
    <3>1. FrameOK(i) /\ stack[i] \in Frame /\ w # 0
      BY FrameOf DEF LoopInv, Watches
    <3>2. stack[i].at \in {"call", "return", "onremove", "destroy"}
      BY <3>1 DEF Frame
    <3>3. stack[i].at # "call"
      BY <1>3, <2>5 DEF OnStack
    <3>4. stack[i].at # "destroy" /\ stack[i].at # "onremove"
      BY <2>2, <2>5, <3>1 DEF FrameOK
    <3>5. stack[i].at = "return" => i = Depth /\ stack[i] = Top
      BY <3>1 DEF FrameOK, Top
    <3>6. Depth # 0
      BY DEF Depth
    <3> QED BY <1>1, <3>2, <3>3, <3>4, <3>5, <3>6
  <2>6. mutex' \in {Main, Free} \cup Threads /\ \A t \in Threads : adding[t] # 0 => mutex' = t
    BY <1>1 DEF LoopInv, TypeOK
  <2> HIDE DEF n, f
  <2> QED BY <1>1, <1>2, <2>1, <2>3, <2>4, <2>5, <2>6, PushKeeps
<1> QED BY <1>4, <1>5

LEMMA ForeachRemoveKeeps ==
  ASSUME LoopInv, NEW w \in Watches, ForeachRemoveCallback(w)
  PROVE  LoopInv'
<1> DEFINE n == [nodes[w] EXCEPT !.removing = TRUE, !.removals = @ + 1]
           f == At("onremove", "destroy", w)
<1>1. /\ Depth > 0 /\ Top.at = "destroy" /\ w \in hashed
      /\ nodes' = [nodes EXCEPT ![w] = n] /\ sources' = sources \ {w}
      /\ mutex' = Free /\ stack' = Append(stack, f)
      /\ UNCHANGED <<hashed, adding, destroyed>>
  BY DEF ForeachRemoveCallback, TopIs
<1>2. /\ Depth \in 1 .. Depth /\ FrameOK(Depth)
  BY <1>1 DEF LoopInv, TypeOK, Depth
<1>3. Depth = 1 /\ stack[1].at = "destroy" /\ stack[1].w = 0 /\ destroyed
  BY <1>1, <1>2 DEF FrameOK, Top
<1>4. \A i \in 1 .. Depth : i = 1
  BY <1>3
<1>5. \A at : ~OnStack(at, w)
  <2>1. w # 0
    BY DEF Watches
  <2> QED BY <1>3, <1>4, <2>1 DEF OnStack
<1>6. /\ nodes[w] \in Node /\ nodes[w].exists /\ ~nodes[w].calling
      /\ nodes[w].removals = 0
  <2>1. nodes[w] \in Node /\ WatchOK(w)
    BY NodeOf DEF LoopInv
  <2>2. nodes[w].exists /\ ~nodes[w].calling /\ nodes[w].removals # 1
    BY <1>1, <1>5, <2>1 DEF WatchOK
  <2>3. nodes[w].removals \in Nat /\ nodes[w].removals <= 1
    BY <2>1 DEF WatchOK, Node
  <2>4. nodes[w].removals = 0
    BY <2>2, <2>3
  <2> QED BY <2>1, <2>2, <2>4
<1>7. /\ n \in Node /\ n.exists /\ ~n.calling /\ n.removing /\ n.removals = 1
  BY <1>6, RemovedNode
<1>8. f \in Frame /\ f.w = w /\ f.at = "onremove"
  BY WatchInFrame DEF At, Frame
<1>9. \A i \in 1 .. Depth : stack[i].w # w
  <2>1. w # 0
    BY DEF Watches
  <2> QED BY <1>3, <1>4, <2>1
<1>10. \A t \in Threads : adding[t] = 0
  BY <1>3 DEF LoopInv
<1> HIDE DEF n, f
<1>11. Top.at # "return"
  BY <1>1
<1>12. UNCHANGED <<hashed, adding, destroyed>>
  BY <1>1
<1>13. mutex' \in {Main, Free} \cup Threads
  BY <1>1
<1>14. \A t \in Threads : adding[t] # 0 => mutex' = t
  BY <1>10
<1>15. destroyed => Depth > 0
  BY <1>1
<1>16. Depth < MaxDepth
  BY <1>3, MainLoopAssumption
<1> QED BY <1>1, <1>6, <1>7, <1>8, <1>9, <1>11, <1>12, <1>13, <1>14, <1>15, <1>16, PushKeeps

LEMMA DestroyKeeps ==
  ASSUME LoopInv, Destroy
  PROVE  LoopInv'
<1> DEFINE f == At("destroy", "destroy", 0)
<1>1. /\ Depth = 0 /\ mutex = Free /\ destroyed' = TRUE /\ mutex' = Main
      /\ stack' = <<f>> /\ UNCHANGED <<nodes, hashed, sources, adding>>
  BY DEF Destroy
<1>2. f \in Frame /\ f.at = "destroy" /\ f.w = 0
  BY MainLoopAssumption DEF At, Frame
<1> HIDE DEF f
<1>3. stack' \in Seq(Frame) /\ Depth' = 1 /\ stack'[1] = f /\ 1 <= MaxDepth
  BY <1>1, <1>2, MainLoopAssumption DEF Depth
<1>4. \A at, v : ~OnStack(at, v)
  BY <1>1 DEF OnStack
<1>5. TypeOK'
  BY <1>1, <1>3 DEF LoopInv, TypeOK, Watches
<1>6. ASSUME NEW v \in Watches' PROVE WatchOK(v)'
  <2>1. v \in Watches /\ WatchOK(v)
    BY <1>1, <1>6 DEF LoopInv, Watches
  <2> QED BY <1>1, <1>4, <2>1 DEF WatchOK, Adding
<1>7. ASSUME NEW i \in 1 .. Depth' PROVE FrameOK(i)'
  <2>1. i = 1
    BY <1>3, <1>7
  <2> QED BY <1>1, <1>2, <1>3, <2>1 DEF FrameOK
<1>8. \A t \in Threads : adding[t] = 0
  BY <1>1, NobodyAdds
<1> QED BY <1>1, <1>2, <1>3, <1>5, <1>6, <1>7, <1>8 DEF LoopInv

(* The frame on top ends. *)
LEMMA PopKeeps ==
  ASSUME LoopInv, Depth > 0, NEW w \in Watches, Top.w = w, Top.at # "destroy",
         NEW n \in Node, nodes' = [nodes EXCEPT ![w] = n], stack' = Below,
         \/ /\ Top.at = "call" /\ n.exists /\ n.removals = 0
            /\ ~n.calling /\ ~n.removing
            /\ hashed' = hashed /\ sources' = sources
         \/ /\ ~n.exists /\ n.removals = 1 /\ n.removing /\ ~n.calling
            /\ ~Adding(w)
            /\ hashed' = hashed \ {w} /\ sources' = sources \ {w},
         UNCHANGED <<adding, destroyed>>,
         mutex' \in {Main, Free} \cup Threads, \A t \in Threads : adding[t] # 0 => mutex' = t
  PROVE  LoopInv'
<1>1. /\ nodes' \in Seq(Node) /\ Len(nodes') = Len(nodes) /\ Watches' = Watches
      /\ nodes'[w] = n
      /\ \A v \in Watches : v # w => nodes'[v] = nodes[v]
  BY NodeChanged
<1>2. stack \in Seq(Frame) /\ Depth \in Nat
  BY DEF LoopInv, TypeOK, Depth
<1>3. /\ stack' \in Seq(Frame) /\ Depth' = Depth - 1
      /\ \A i \in 1 .. Depth - 1 : stack'[i] = stack[i]
  BY <1>2, Popped DEF Depth, Below
<1>4. /\ \A i \in 1 .. Depth : i \in 1 .. Depth - 1 \/ i = Depth
      /\ \A i \in 1 .. Depth - 1 : i \in 1 .. Depth /\ i # Depth
      /\ Depth \in 1 .. Depth /\ Depth - 1 \in Nat
  BY <1>2
<1>5. Depth - 1 <= MaxDepth
  <2>1. Depth <= MaxDepth
    BY DEF LoopInv, TypeOK
  <2> QED BY <1>2, <2>1, MainLoopAssumption
<1>6. TypeOK'
  BY <1>1, <1>3, <1>5 DEF LoopInv, TypeOK
<1>7. /\ stack[Depth] = Top /\ FrameOK(Depth)
      /\ \A j \in 1 .. Depth : stack[j].w = w => j = Depth
  <2>1. FrameOK(Depth)
    BY <1>4 DEF LoopInv
  <2> QED BY <2>1 DEF FrameOK, Top
<1>8. ASSUME NEW v \in Watches' PROVE WatchOK(v)'
  <2>1. v \in Watches /\ WatchOK(v) /\ (Adding(v)' <=> Adding(v))
    BY <1>1, <1>8 DEF LoopInv, Adding
  <2>2. CASE v # w
    <3>1. \A at : OnStack(at, v)' <=> OnStack(at, v)
      <4>1. ASSUME NEW at PROVE OnStack(at, v)' <=> OnStack(at, v)
        <5>1. OnStack(at, v)' <=> \E i \in 1 .. Depth - 1 : stack'[i].at = at /\ stack'[i].w = v
          BY <1>3 DEF OnStack
        <5> QED BY <1>3, <1>4, <1>7, <2>2, <5>1 DEF OnStack
      <4> QED BY <4>1
    <3>2. (v \in sources' <=> v \in sources) /\ (v \in hashed' <=> v \in hashed)
      BY <2>2
    <3> QED BY <1>1, <2>1, <2>2, <3>1, <3>2 DEF WatchOK
  <2>3. CASE v = w
    <3>1. 0 <= 1 /\ 0 # 1 /\ 1 <= 1
      OBVIOUS
    <3>2. CASE Top.at = "call" /\ n.exists
      <4>1. ~OnStack("onremove", w)
        BY <1>7, <3>2 DEF OnStack
      <4>2. nodes[w].exists
        BY <1>7 DEF FrameOK
      <4>3. w \in hashed \/ Adding(w)
        BY <2>1, <2>3, <4>2 DEF WatchOK
      <4>4. w \in sources
        BY <2>1, <2>3, <4>1, <4>3 DEF WatchOK
      <4>5. nodes'[v] = n /\ hashed' = hashed /\ sources' = sources
        BY <1>1, <2>3, <3>2
      <4>6. n.removals = 0 /\ ~n.calling /\ ~n.removing
        BY <3>2
      <4> QED BY <2>1, <2>3, <3>1, <3>2, <4>3, <4>4, <4>5, <4>6 DEF WatchOK
    <3>3. CASE ~n.exists
      <4>1. nodes'[v] = n /\ v \notin hashed' /\ v \notin sources' /\ ~Adding(v)'
        BY <1>1, <2>1, <2>3, <3>3
      <4>2. n.removals = 1 /\ ~n.calling /\ n.removing
        BY <3>3
      <4> QED BY <3>1, <3>3, <4>1, <4>2 DEF WatchOK
    <3> QED BY <3>2, <3>3
  <2> QED BY <2>2, <2>3
<1>9. ASSUME NEW i \in 1 .. Depth' PROVE FrameOK(i)'
  <2>1. /\ i \in 1 .. Depth - 1 /\ i \in 1 .. Depth /\ i # Depth /\ FrameOK(i)
        /\ stack'[i] = stack[i] /\ stack[i].w # w
    BY <1>3, <1>4, <1>7, <1>9 DEF LoopInv
  <2>2. stack[i].at # "return"
    BY <2>1 DEF FrameOK
  <2>3. stack[i].at # "destroy" =>
          /\ stack[i].w \in Watches /\ nodes'[stack[i].w] = nodes[stack[i].w]
          /\ \A j \in 1 .. Depth - 1 : stack'[j].w = stack[i].w => j = i
    BY <1>1, <1>3, <1>4, <2>1 DEF FrameOK
  <2> QED BY <1>1, <1>3, <2>1, <2>2, <2>3 DEF FrameOK
<1>10. destroyed => Depth' # 0 /\ stack'[1].at = "destroy"
  <2> SUFFICES ASSUME destroyed PROVE Depth' # 0 /\ stack'[1].at = "destroy"
    OBVIOUS
  <2>1. Depth # 0 /\ stack[1].at = "destroy"
    BY <1>2 DEF LoopInv
  <2>2. Depth # 1
    BY <1>7, <2>1
  <2>3. 1 \in 1 .. Depth - 1 /\ Depth - 1 # 0
    BY <1>2, <2>1, <2>2
  <2> QED BY <1>3, <2>1, <2>3
<1> QED BY <1>6, <1>8, <1>9, <1>10 DEF LoopInv

(* The frame on top goes on: from its callback to RemoveWatchNode, from     *)
(* there to OnRemove.                                                       *)
LEMMA SwapKeeps ==
  ASSUME LoopInv, Depth > 0, NEW w \in Watches, Top.w = w, Top.at \in {"call", "return"},
         NEW n \in Node, NEW f \in Frame, f.w = w,
         nodes' = [nodes EXCEPT ![w] = n], stack' = Append(Below, f),
         n.exists, ~n.calling,
         \/ f.at = "return" /\ n.removals = 0 /\ ~n.removing
         \/ f.at = "onremove" /\ n.removals = 1 /\ n.removing,
         UNCHANGED <<hashed, sources, mutex, adding, destroyed>>
  PROVE  LoopInv'
<1>1. /\ nodes' \in Seq(Node) /\ Len(nodes') = Len(nodes) /\ Watches' = Watches
      /\ nodes'[w] = n
      /\ \A v \in Watches : v # w => nodes'[v] = nodes[v]
  BY NodeChanged
<1>2. stack \in Seq(Frame) /\ Depth \in Nat
  BY DEF LoopInv, TypeOK, Depth
<1>3. /\ stack' \in Seq(Frame) /\ Depth' = Depth /\ stack'[Depth] = f
      /\ \A i \in 1 .. Depth - 1 : stack'[i] = stack[i]
  BY <1>2, Swapped DEF Depth, Below
<1>4. /\ \A i \in 1 .. Depth : i \in 1 .. Depth - 1 \/ i = Depth
      /\ \A i \in 1 .. Depth - 1 : i \in 1 .. Depth /\ i # Depth
      /\ Depth \in 1 .. Depth
  BY <1>2
<1>5. TypeOK'
  BY <1>1, <1>3 DEF LoopInv, TypeOK
<1>6. /\ stack[Depth] = Top /\ FrameOK(Depth)
      /\ \A j \in 1 .. Depth : stack[j].w = w => j = Depth
  <2>1. FrameOK(Depth) /\ Top.at # "destroy"
    BY <1>4 DEF LoopInv
  <2> QED BY <2>1 DEF FrameOK, Top
<1>7. ASSUME NEW v \in Watches' PROVE WatchOK(v)'
  <2>1. v \in Watches /\ WatchOK(v) /\ (Adding(v)' <=> Adding(v))
    BY <1>1, <1>7 DEF LoopInv, Adding
  <2>2. CASE v # w
    <3>1. \A at : OnStack(at, v)' <=> OnStack(at, v)
      <4>1. ASSUME NEW at PROVE OnStack(at, v)' <=> OnStack(at, v)
        <5>1. OnStack(at, v)' <=> \E i \in 1 .. Depth : stack'[i].at = at /\ stack'[i].w = v
          BY <1>3 DEF OnStack
        <5> QED BY <1>3, <1>4, <1>6, <2>2, <5>1 DEF OnStack
      <4> QED BY <4>1
    <3> QED BY <1>1, <2>1, <2>2, <3>1 DEF WatchOK
  <2>3. CASE v = w
    <3>1. ~OnStack("onremove", w)
      BY <1>6 DEF OnStack
    <3>2. OnStack(f.at, w)'
      BY <1>3, <1>4 DEF OnStack
    <3>3. 0 <= 1 /\ 0 # 1 /\ 1 <= 1
      OBVIOUS
    <3>4. w \in hashed \/ Adding(w)
      <4>1. nodes[w].exists
        BY <1>6 DEF FrameOK
      <4> QED BY <2>1, <2>3, <4>1 DEF WatchOK
    <3> QED BY <1>1, <2>1, <2>3, <3>1, <3>2, <3>3, <3>4 DEF WatchOK
  <2> QED BY <2>2, <2>3
<1>8. ASSUME NEW i \in 1 .. Depth' PROVE FrameOK(i)'
  <2>1. CASE i # Depth
    <3>1. /\ i \in 1 .. Depth - 1 /\ i \in 1 .. Depth /\ FrameOK(i)
          /\ stack'[i] = stack[i] /\ stack[i].w # w
      BY <1>3, <1>4, <1>6, <1>8, <2>1 DEF LoopInv
    <3>2. stack[i].at # "return"
      BY <2>1, <3>1 DEF FrameOK
    <3>3. stack[i].at # "destroy" =>
            /\ stack[i].w \in Watches /\ nodes'[stack[i].w] = nodes[stack[i].w]
            /\ \A j \in 1 .. Depth : stack'[j].w = stack[i].w => j = i
      <4>1. ASSUME NEW j \in 1 .. Depth, stack'[j].w = stack[i].w, stack[i].at # "destroy"
            PROVE  j = i
        <5>1. j # Depth
          BY <1>3, <3>1, <4>1
        <5>2. stack'[j] = stack[j]
          BY <1>3, <1>4, <5>1
        <5> QED BY <3>1, <4>1, <5>2 DEF FrameOK
      <4> QED BY <1>1, <3>1, <4>1 DEF FrameOK
    <3> QED BY <1>1, <1>3, <3>1, <3>2, <3>3 DEF FrameOK
  <2>2. CASE i = Depth
    <3>1. stack'[i] = f /\ f.at # "destroy" /\ f.at # "call"
      BY <1>3, <2>2
    <3>2. \A j \in 1 .. Depth : stack'[j].w = w => j = i
      BY <1>3, <1>4, <1>6, <2>2
    <3> QED BY <1>1, <1>3, <2>2, <3>1, <3>2 DEF FrameOK
  <2> QED BY <2>1, <2>2
<1>9. destroyed => Depth' # 0 /\ stack'[1].at = "destroy"
  <2> SUFFICES ASSUME destroyed PROVE Depth' # 0 /\ stack'[1].at = "destroy"
    OBVIOUS
  <2>1. Depth # 0 /\ stack[1].at = "destroy"
    BY <1>2 DEF LoopInv
  <2>2. Depth # 1
    BY <1>6, <2>1
  <2>3. 1 \in 1 .. Depth - 1
    BY <1>2, <2>1, <2>2
  <2> QED BY <1>3, <2>1, <2>3
<1> QED BY <1>5, <1>7, <1>8, <1>9 DEF LoopInv

(* What the frame on top is about. *)
LEMMA TopFrame ==
  ASSUME LoopInv, Depth > 0, Top.at # "destroy"
  PROVE  /\ Depth \in 1 .. Depth /\ stack[Depth] = Top /\ FrameOK(Depth) /\ Top \in Frame
         /\ Top.w \in Watches /\ nodes[Top.w] \in Node /\ nodes[Top.w].exists
         /\ WatchOK(Top.w)
<1>1. Depth \in 1 .. Depth
  BY DEF LoopInv, TypeOK, Depth
<1>2. stack[Depth] = Top /\ FrameOK(Depth) /\ Top \in Frame
  BY <1>1, FrameOf DEF LoopInv, Top
<1>3. Top.w \in Watches /\ nodes[Top.w].exists
  BY <1>2 DEF FrameOK
<1>4. nodes[Top.w] \in Node /\ WatchOK(Top.w)
  BY <1>3, NodeOf DEF LoopInv
<1> QED BY <1>1, <1>2, <1>3, <1>4

LEMMA CallReturnsKeeps ==
  ASSUME LoopInv, NEW ret \in BOOLEAN, CallReturns(ret)
  PROVE  LoopInv'
<1> DEFINE w == Top.w
           gone == ~ret \/ nodes[w].removing
           n == [nodes[w] EXCEPT !.calling = FALSE, !.removing = IF gone THEN FALSE ELSE @]
           f == At("return", "loop", w)
<1>1. /\ Depth > 0 /\ Top.at = "call"
      /\ UNCHANGED <<hashed, sources, mutex, adding, destroyed>>
      /\ stack' = IF gone THEN Append(Below, f) ELSE Below
  BY DEF CallReturns, TopIs
<1>2. nodes' = [nodes EXCEPT ![w] = n]
  BY DEF CallReturns
<1>3. /\ w \in Watches /\ nodes[w] \in Node /\ nodes[w].exists
      /\ nodes[w].removals = 0
  BY <1>1, TopFrame DEF FrameOK
<1>4. /\ n \in Node /\ n.exists /\ ~n.calling /\ n.removals = 0 /\ ~n.removing
  BY <1>3 DEF Node
<1>5. f \in Frame /\ f.w = w /\ f.at = "return"
  BY <1>3, WatchInFrame DEF At, Frame
<1>6. mutex' \in {Main, Free} \cup Threads /\ \A t \in Threads : adding[t] # 0 => mutex' = t
  BY <1>1 DEF LoopInv, TypeOK
<1> HIDE DEF n, f
<1>7. CASE gone
  BY <1>1, <1>2, <1>3, <1>4, <1>5, <1>7, SwapKeeps
<1>8. CASE ~gone
  BY <1>1, <1>2, <1>3, <1>4, <1>6, <1>8, PopKeeps
<1> QED BY <1>7, <1>8

LEMMA RemoveWatchNodeKeeps ==
  ASSUME LoopInv, RemoveWatchNode
  PROVE  LoopInv'
<1> DEFINE w == Top.w
           n == [nodes[w] EXCEPT !.removing = TRUE, !.removals = @ + 1]
           f == At("onremove", "loop", w)
<1>1. /\ Depth > 0 /\ Top.at = "return"
      /\ UNCHANGED <<hashed, mutex, adding, destroyed>>
  BY DEF RemoveWatchNode, TopIs
<1>2. /\ w \in Watches /\ nodes[w] \in Node /\ nodes[w].exists
      /\ nodes[w].removals = 0 /\ ~nodes[w].removing /\ ~nodes[w].calling
  BY <1>1, TopFrame DEF FrameOK
<1>3. /\ nodes' = [nodes EXCEPT ![w] = n] /\ stack' = Append(Below, f)
      /\ sources' = sources
  BY <1>2 DEF RemoveWatchNode
<1>4. /\ n \in Node /\ n.exists /\ ~n.calling /\ n.removals = 1 /\ n.removing
  BY <1>2, RemovedNode
<1>5. f \in Frame /\ f.w = w /\ f.at = "onremove"
  BY <1>2, WatchInFrame DEF At, Frame
<1> HIDE DEF n, f
<1> QED BY <1>1, <1>2, <1>3, <1>4, <1>5, SwapKeeps

LEMMA OnRemoveReturnsKeeps ==
  ASSUME LoopInv, OnRemoveReturns
  PROVE  LoopInv'
<1> DEFINE w == Top.w
           n == [nodes[w] EXCEPT !.exists = FALSE]
<1>1. /\ Depth > 0 /\ Top.at = "onremove" /\ mutex = Free
      /\ hashed' = hashed \ {w} /\ sources' = sources \ {w}
      /\ nodes' = [nodes EXCEPT ![w] = n] /\ stack' = Below
      /\ UNCHANGED <<adding, destroyed>>
      /\ mutex' = IF Top.by = "destroy" THEN Main ELSE Free
  BY DEF OnRemoveReturns, TopIs
<1>2. /\ w \in Watches /\ nodes[w] \in Node /\ nodes[w].removals = 1 /\ WatchOK(w)
      /\ Depth \in 1 .. Depth /\ stack[Depth] = Top /\ FrameOK(Depth)
  BY <1>1, TopFrame DEF FrameOK
<1>3. nodes[w].removing
  BY <1>2 DEF WatchOK
<1>4. ~nodes[w].calling
  <2> SUFFICES ASSUME nodes[w].calling PROVE FALSE
    OBVIOUS
  <2>1. PICK i \in 1 .. Depth : stack[i].at = "call" /\ stack[i].w = w
    BY <1>2 DEF WatchOK, OnStack
  <2>2. FrameOK(i)
    BY DEF LoopInv
  <2> QED BY <1>2, <2>1, <2>2 DEF FrameOK
<1>5. n \in Node /\ ~n.exists /\ n.removals = 1 /\ n.removing /\ ~n.calling
  BY <1>2, <1>3, <1>4 DEF Node
<1>6. \A t \in Threads : adding[t] = 0
  BY <1>1, NobodyAdds
<1>7. ~Adding(w)
  <2>1. w # 0
    BY <1>2 DEF Watches
  <2> QED BY <1>6, <2>1 DEF Adding
<1>8. mutex' \in {Main, Free} \cup Threads /\ \A t \in Threads : adding[t] # 0 => mutex' = t
  BY <1>1, <1>6
<1> HIDE DEF n
<1> QED BY <1>1, <1>2, <1>5, <1>7, <1>8, PopKeeps

LEMMA DestroyedKeeps ==
  ASSUME LoopInv, Destroyed
  PROVE  LoopInv'
<1>1. /\ Depth > 0 /\ Top.at = "destroy" /\ hashed = {} /\ stack' = <<>> /\ mutex' = Free
      /\ UNCHANGED <<nodes, hashed, sources, adding, destroyed>>
  BY DEF Destroyed, TopIs
<1>2. /\ Depth \in 1 .. Depth /\ FrameOK(Depth)
  BY <1>1 DEF LoopInv, TypeOK, Depth
<1>3. Depth = 1 /\ stack[1].at = "destroy" /\ destroyed
  BY <1>1, <1>2 DEF FrameOK, Top
<1>4. \A i \in 1 .. Depth : i = 1
  BY <1>3
<1>5. \A v : ~OnStack("call", v) /\ ~OnStack("onremove", v)
  BY <1>3, <1>4 DEF OnStack
<1>6. Depth' = 0 /\ 1 .. Depth' = {}
  BY <1>1 DEF Depth
<1>7. TypeOK'
  <2>1. <<>> \in Seq(Frame) /\ 0 <= MaxDepth
    BY MainLoopAssumption
  <2> QED BY <1>1, <1>6, <2>1 DEF LoopInv, TypeOK, Watches
<1>8. ASSUME NEW v \in Watches' PROVE WatchOK(v)'
  <2>1. v \in Watches /\ WatchOK(v)
    BY <1>1, <1>8 DEF LoopInv, Watches
  <2> QED BY <1>1, <1>5, <2>1 DEF WatchOK, Adding
<1>9. \A t \in Threads : adding[t] = 0
  BY <1>3 DEF LoopInv
<1> QED BY <1>1, <1>6, <1>7, <1>8, <1>9 DEF LoopInv

LEMMA NextLoop ==
  ASSUME LoopInv, [Next]_vars
  PROVE  LoopInv'
<1>1. CASE AddWatch
  BY <1>1, AddWatchKeeps
<1>2. CASE \E t \in Threads : AddInThread(t) \/ AddedInThread(t)
  BY <1>2, AddInThreadKeeps, AddedInThreadKeeps
<1>3. CASE \E w \in Watches : RemoveWatch(w) \/ Callback(w) \/ ForeachRemoveCallback(w)
  BY <1>3, RemoveWatchKeeps, CallbackKeeps, ForeachRemoveKeeps
<1>4. CASE Return
  BY <1>4, CallReturnsKeeps, RemoveWatchNodeKeeps, OnRemoveReturnsKeeps DEF Return
<1>5. CASE Destroy \/ Destroyed
  BY <1>5, DestroyKeeps, DestroyedKeeps
<1>6. CASE UNCHANGED vars
  BY <1>6 DEF vars, LoopInv, TypeOK, WatchOK, FrameOK, OnStack, Adding, Watches, Depth
<1> QED BY <1>1, <1>2, <1>3, <1>4, <1>5, <1>6 DEF Next

LEMMA LoopInvariant == Spec => []LoopInv
BY InitLoop, NextLoop, PTL DEF Spec

(* OnRemove is called at most once for a watch, exactly once before its     *)
(* node is deleted, and for every watch before the loop is gone             *)
(* (RemoveWatch, RemoveWatchNode, ~Impl).                                   *)
THEOREM EachRemovedOnce == Spec => []RemovedOnce
<1>1. LoopInv => RemovedOnce
  <2> SUFFICES ASSUME LoopInv PROVE RemovedOnce
    OBVIOUS
  <2>1. \A w \in Watches : WatchOK(w)
    BY DEF LoopInv
  <2>2. ASSUME destroyed, Depth = 0, NEW w \in Watches PROVE nodes[w].removals = 1
    <3>1. hashed = {} /\ \A t \in Threads : adding[t] = 0
      BY <2>2 DEF LoopInv
    <3>2. w # 0
      BY DEF Watches
    <3>3. ~nodes[w].exists
      BY <2>1, <3>1, <3>2 DEF WatchOK, Adding
    <3> QED BY <2>1, <3>3 DEF WatchOK
  <2> QED BY <2>1, <2>2 DEF RemovedOnce, WatchOK
<1> QED BY <1>1, LoopInvariant, PTL

(* No frame of the main thread touches a node that was deleted below it,    *)
(* and glib has no source whose node is gone (IOWatchCallback,              *)
(* TimeoutCallback, RemoveWatchNode).                                       *)
THEOREM FramesAreSafe == Spec => []NodesOutliveFrames
<1>1. LoopInv => NodesOutliveFrames
  <2> SUFFICES ASSUME LoopInv PROVE NodesOutliveFrames
    OBVIOUS
  <2>1. ASSUME NEW i \in 1 .. Depth, stack[i].w # 0
        PROVE  /\ nodes[stack[i].w].exists
               /\ stack[i].at \in {"call", "return"} => nodes[stack[i].w].removals = 0
    BY <2>1 DEF LoopInv, FrameOK
  <2>2. \A w \in sources : nodes[w].exists
    BY DEF LoopInv, TypeOK, WatchOK
  <2> QED BY <2>1, <2>2 DEF NodesOutliveFrames, Frames
<1> QED BY <1>1, LoopInvariant, PTL

(* A watch of the table has a source, or its OnRemove is under way: none is *)
(* left that would never fire nor go.                                       *)
THEOREM NoneLeft == Spec => []NothingLeft
<1>1. LoopInv => NothingLeft
  <2> SUFFICES ASSUME LoopInv, NEW w \in hashed, w \notin sources
               PROVE  \E f \in Frames : f.w = w /\ f.at = "onremove"
    BY DEF NothingLeft
  <2>1. OnStack("onremove", w)
    BY DEF LoopInv, TypeOK, WatchOK
  <2> QED BY <2>1 DEF OnStack, Frames
<1> QED BY <1>1, LoopInvariant, PTL
=============================================================================
