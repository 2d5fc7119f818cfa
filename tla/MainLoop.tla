------------------------------- MODULE MainLoop -------------------------------
(***************************************************************************)
(* The watches of the GTK main loop (ggadget/gtk/main_loop.cc).  A watch   *)
(* is a node of the table watches_ and a source of glib, which calls it.   *)
(* While its callback runs a watch is only marked, and goes away when the  *)
(* callback returns; otherwise RemoveWatch takes it at once.  The mutex is *)
(* released for OnRemove.  Worker threads add watches (the curl extension  *)
(* does); watches are called and removed on the main thread.               *)
(*                                                                         *)
(* The main thread is a stack of frames.  A callback may run the loop      *)
(* again (a dialog); glib does not call a source inside its own callback.  *)
(***************************************************************************)
EXTENDS Naturals, Sequences, FiniteSets

CONSTANTS MaxWatches,  \* bound on the watches added
          MaxDepth,    \* bound on the nesting of frames
          Threads      \* the worker threads

Main == "main"
Free == "free"
ASSUME MainLoopAssumption ==
  /\ MaxWatches \in Nat
  /\ MaxDepth \in Nat /\ MaxDepth >= 2   \* ~Impl and an OnRemove it calls
  /\ {Main, Free} \cap Threads = {}

VARIABLES
  nodes,      \* the nodes made, by watch id
  hashed,     \* the ids watches_ holds
  sources,    \* the ids of the sources glib has
  mutex,      \* who holds mutex_
  adding,     \* the watch each worker thread is adding, or 0
  stack,      \* the frames of the main thread, outermost first
  destroyed   \* destroyed_

vars == <<nodes, hashed, sources, mutex, adding, stack, destroyed>>

(* exists: the node is allocated; removals: how often OnRemove was called.  *)
Node == [exists : BOOLEAN, calling : BOOLEAN, removing : BOOLEAN, removals : Nat]
NewNode == [exists |-> TRUE, calling |-> FALSE, removing |-> FALSE, removals |-> 0]
Watches == 1 .. Len(nodes)

(* call: in the callback; return: after it, RemoveWatchNode to be called;   *)
(* onremove: in OnRemove, called by it, by RemoveWatch or by ~Impl; destroy:*)
(* in ~Impl.                                                                *)
Frame == [at : {"call", "return", "onremove", "destroy"},
          by : {"loop", "remove", "destroy"}, w : 0 .. MaxWatches]
At(at, by, w) == [at |-> at, by |-> by, w |-> w]

Depth == Len(stack)
Top == stack[Depth]
Below == SubSeq(stack, 1, Depth - 1)
Frames == {stack[i] : i \in 1 .. Depth}
TopIs(ats) == Depth > 0 /\ Top.at \in ats

(* Code of the program on the main thread: an event, a callback, OnRemove.  *)
InProgram == Depth = 0 \/ TopIs({"call", "onremove"})

Init ==
  /\ nodes = <<>> /\ hashed = {} /\ sources = {}
  /\ mutex = Free /\ adding = [t \in Threads |-> 0]
  /\ stack = <<>> /\ destroyed = FALSE

-----------------------------------------------------------------------------
(* AddIOWatch, AddTimeoutWatch: between the glib call and the next line the *)
(* source may fire already, if another thread adds it.                      *)
AddWatch ==
  /\ InProgram /\ mutex = Free /\ ~destroyed /\ Len(nodes) < MaxWatches
  /\ nodes' = Append(nodes, NewNode)
  /\ hashed' = hashed \cup {Len(nodes')} /\ sources' = sources \cup {Len(nodes')}
  /\ UNCHANGED <<mutex, adding, stack, destroyed>>

AddInThread(t) ==
  /\ adding[t] = 0 /\ mutex = Free /\ ~destroyed /\ Len(nodes) < MaxWatches
  /\ mutex' = t
  /\ nodes' = Append(nodes, NewNode)
  /\ sources' = sources \cup {Len(nodes')}
  /\ adding' = [adding EXCEPT ![t] = Len(nodes')]
  /\ UNCHANGED <<hashed, stack, destroyed>>
AddedInThread(t) ==
  /\ adding[t] # 0 /\ mutex = t
  /\ hashed' = hashed \cup {adding[t]}
  /\ adding' = [adding EXCEPT ![t] = 0] /\ mutex' = Free
  /\ UNCHANGED <<nodes, sources, stack, destroyed>>

(* RemoveWatch. *)
RemoveWatchMutant(w) ==
  /\ InProgram /\ mutex = Free
  /\ ~destroyed /\ w \in hashed /\ ~nodes[w].removing
  /\ Depth < MaxDepth
  /\ nodes' = [nodes EXCEPT ![w].removing = TRUE, ![w].removals = @ + 1]
  /\ sources' = sources \ {w}
  /\ stack' = Append(stack, At("onremove", "remove", w))
  /\ UNCHANGED <<hashed, mutex, adding, destroyed>>
RemoveWatch(w) ==
  /\ InProgram /\ mutex = Free
  /\ ~destroyed /\ w \in hashed /\ ~nodes[w].removing
  /\ IF nodes[w].calling
     THEN /\ nodes' = [nodes EXCEPT ![w].removing = TRUE]
          /\ UNCHANGED <<sources, stack>>
     ELSE /\ Depth < MaxDepth
          /\ nodes' = [nodes EXCEPT ![w].removing = TRUE, ![w].removals = @ + 1]
          /\ sources' = sources \ {w}
          /\ stack' = Append(stack, At("onremove", "remove", w))
  /\ UNCHANGED <<hashed, mutex, adding, destroyed>>

-----------------------------------------------------------------------------
(* IOWatchCallback, TimeoutCallback. *)
InCallback(w) == \E f \in Frames : f.w = w /\ f.at = "call"
Callback(w) ==
  /\ Depth = 0 \/ TopIs({"call"})
  /\ Depth < MaxDepth /\ w \in sources /\ ~InCallback(w) /\ ~destroyed
  /\ IF nodes[w].calling \/ nodes[w].removing
     THEN sources' = sources \ {w} /\ UNCHANGED <<nodes, stack>>
     ELSE /\ nodes' = [nodes EXCEPT ![w].calling = TRUE]
          /\ stack' = Append(stack, At("call", "loop", w))
          /\ UNCHANGED sources
  /\ UNCHANGED <<hashed, mutex, adding, destroyed>>

(* Call returns ret: a watch removed meanwhile, or one that is done, goes.  *)
CallReturnsMutant(ret) ==
  /\ TopIs({"call"})
  /\ LET w == Top.w
         gone == ~ret \/ nodes[w].removing
     IN /\ nodes' = [nodes EXCEPT ![w].calling = FALSE]
        /\ stack' = IF gone THEN Append(Below, At("return", "loop", w)) ELSE Below
  /\ UNCHANGED <<hashed, sources, mutex, adding, destroyed>>
CallReturns(ret) ==
  /\ TopIs({"call"})
  /\ LET w == Top.w
         gone == ~ret \/ nodes[w].removing
     IN /\ nodes' = [nodes EXCEPT ![w].calling = FALSE,
                                  ![w].removing = IF gone THEN FALSE ELSE @]
        /\ stack' = IF gone THEN Append(Below, At("return", "loop", w)) ELSE Below
  /\ UNCHANGED <<hashed, sources, mutex, adding, destroyed>>

RemoveWatchNode ==
  /\ TopIs({"return"}) /\ mutex = Free
  /\ IF nodes[Top.w].removing
     THEN /\ stack' = Below /\ sources' = sources \ {Top.w}
          /\ UNCHANGED nodes
     ELSE /\ nodes' = [nodes EXCEPT ![Top.w].removing = TRUE, ![Top.w].removals = @ + 1]
          /\ stack' = Append(Below, At("onremove", "loop", Top.w))
          /\ UNCHANGED sources
  /\ UNCHANGED <<hashed, mutex, adding, destroyed>>

(* OnRemove has returned: the node is deleted with its entry; glib drops    *)
(* the source of a callback that returns false; ~Impl goes on.              *)
OnRemoveReturns ==
  /\ TopIs({"onremove"}) /\ mutex = Free
  /\ hashed' = hashed \ {Top.w} /\ sources' = sources \ {Top.w}
  /\ nodes' = [nodes EXCEPT ![Top.w].exists = FALSE]
  /\ stack' = Below
  /\ mutex' = IF Top.by = "destroy" THEN Main ELSE Free
  /\ UNCHANGED <<adding, destroyed>>

(* ~Impl, when no callback is running. *)
Destroy ==
  /\ Depth = 0 /\ mutex = Free /\ ~destroyed
  /\ destroyed' = TRUE /\ mutex' = Main
  /\ stack' = <<At("destroy", "destroy", 0)>>
  /\ UNCHANGED <<nodes, hashed, sources, adding>>
ForeachRemoveCallbackMutant(w) ==
  /\ TopIs({"destroy"}) /\ w \in hashed
  /\ nodes' = [nodes EXCEPT ![w].removing = TRUE, ![w].exists = FALSE]
  /\ sources' = sources \ {w} /\ hashed' = hashed \ {w}
  /\ UNCHANGED <<adding, destroyed, mutex, stack>>
ForeachRemoveCallback(w) ==
  /\ TopIs({"destroy"}) /\ w \in hashed
  /\ nodes' = [nodes EXCEPT ![w].removing = TRUE, ![w].removals = @ + 1]
  /\ sources' = sources \ {w}
  /\ mutex' = Free
  /\ stack' = Append(stack, At("onremove", "destroy", w))
  /\ UNCHANGED <<hashed, adding, destroyed>>
Destroyed ==
  /\ TopIs({"destroy"}) /\ hashed = {}
  /\ stack' = <<>> /\ mutex' = Free
  /\ UNCHANGED <<nodes, hashed, sources, adding, destroyed>>

-----------------------------------------------------------------------------
Return == (\E ret \in BOOLEAN : CallReturns(ret)) \/ RemoveWatchNode \/ OnRemoveReturns
Next ==
  \/ AddWatch
  \/ \E t \in Threads : AddInThread(t) \/ AddedInThread(t)
  \/ \E w \in Watches : RemoveWatch(w) \/ Callback(w) \/ ForeachRemoveCallback(w)
  \/ Return
  \/ Destroy \/ Destroyed

Spec == Init /\ [][Next]_vars

(* A callback returns, after it ran the loop a number of times; a thread    *)
(* that holds the mutex goes on.                                            *)
FairSpec ==
  /\ Spec /\ \A d \in 1 .. MaxDepth : SF_vars(Depth = d /\ Return)
  /\ \A t \in Threads : WF_vars(AddedInThread(t))

-----------------------------------------------------------------------------
TypeOK ==
  /\ nodes \in Seq(Node) /\ Len(nodes) <= MaxWatches
  /\ hashed \subseteq Watches /\ sources \subseteq Watches
  /\ mutex \in {Main, Free} \cup Threads
  /\ adding \in [Threads -> 0 .. Len(nodes)]
  /\ stack \in Seq(Frame) /\ Depth <= MaxDepth /\ destroyed \in BOOLEAN

(* OnRemove, which deletes the callback object, is called exactly once for  *)
(* every watch that goes away, whoever removes it and however often, and    *)
(* when the loop has been deleted it has been called for all of them.       *)
RemovedOnce ==
  /\ \A w \in Watches : nodes[w].removals <= 1 /\ (~nodes[w].exists => nodes[w].removals = 1)
  /\ destroyed /\ Depth = 0 => \A w \in Watches : nodes[w].removals = 1

(* No callback is running for a watch whose OnRemove was called, no frame   *)
(* will touch a node that was deleted below it, and glib has no source      *)
(* whose node is gone.                                                      *)
NodesOutliveFrames ==
  /\ \A f \in Frames : f.w # 0 =>
       nodes[f.w].exists /\ (f.at \in {"call", "return"} => nodes[f.w].removals = 0)
  /\ \A w \in sources : nodes[w].exists

(* No watch is left without a source unless its removal is under way: it    *)
(* would never fire again, and never be removed.                            *)
NothingLeft ==
  \A w \in hashed : w \in sources \/ \E f \in Frames : f.w = w /\ f.at = "onremove"

(* A watch that was marked inside its callback goes away.                   *)
RemovalHappens ==
  \A w \in 1 .. MaxWatches :
    (w \in Watches /\ nodes[w].removing) ~> (w \in Watches /\ ~nodes[w].exists)
=============================================================================
