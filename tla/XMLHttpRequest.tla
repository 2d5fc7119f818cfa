--------------------------- MODULE XMLHttpRequest ---------------------------
(***************************************************************************)
(* One XMLHttpRequest object of the curl extension                         *)
(* (extensions/curl_xml_http_request/curl_xml_http_request.cc).  A worker  *)
(* thread performs each asynchronous transfer and posts what it receives   *)
(* as tasks to the main loop; the main thread runs the tasks and the calls *)
(* of the script, and every change of state calls the script's             *)
(* onreadystatechange handler, which may call the object again.  A task    *)
(* finds out whether its request is still the current one by comparing the *)
(* address of the curl handle.                                             *)
(*                                                                         *)
(* The main thread is a stack of calls.  A call is what it has left to do, *)
(* as names of pieces of code between two events, after the handler of an  *)
(* event that may be running.                                              *)
(***************************************************************************)
EXTENDS Naturals, Sequences, FiniteSets

CONSTANTS Addrs,         \* the addresses curl_easy_init may return
          MaxOpens,      \* bound on the requests opened
          MaxSends,      \* bound on the transfers started
          MaxPieces,     \* bound on the pieces of a body
          MaxDepth,      \* bound on the nesting of calls
          MayCall,       \* what the script does in handlers: <<event, call>>,
                         \* and <<event, "dialog">>, which runs the main loop
          Modes          \* the values of async that are passed to Open

States == {"UNSENT", "OPENED", "HEADERS_RECEIVED", "LOADING", "DONE"}
NoHandle == 0

ASSUME XhrAssumption ==
  /\ Addrs \subseteq Nat \ {NoHandle} /\ Addrs # {}
  /\ MaxOpens \in Nat /\ MaxSends \in Nat /\ MaxPieces \in Nat /\ MaxDepth \in Nat
  /\ MayCall \subseteq (States \cup {"ABORTED"}) \X {"open", "send", "abort", "dialog"}
  /\ Modes \subseteq BOOLEAN

(* No handler shows a dialog. *)
NoDialogs == \A d \in MayCall : d[2] # "dialog"

VARIABLES
  state,     \* state_
  curl,      \* curl_, an address or NoHandle
  send,      \* send_flag_
  async,     \* async_
  body,      \* the requests whose data response_body_ holds
  request,   \* the number of the request opened last
  owned,     \* whether the script still holds the object
  refs,      \* the reference count of the object
  live,      \* the curl handles allocated and not cleaned up
  workers,   \* the contexts of the transfers started
  tasks,     \* the main loop's queue
  stack      \* the calls on the main thread, outermost first

counts == <<request, owned, refs>>
vars == <<state, curl, send, async, body, request, owned, refs,
          live, workers, tasks, stack>>

Workers == 1 .. Len(workers)

(* thread: how far the transfer is; pieces: how much of the body, and of    *)
(* the trailers after it, it has.                                           *)
Worker == [addr : Addrs \cup {NoHandle}, request : 0 .. MaxOpens, async : BOOLEAN,
           thread : {"starting", "receiving", "failing", "ended"},
           pieces : 0 .. MaxPieces, succeeded : BOOLEAN]
Task == [kind : {"header", "body", "trailer", "done"}, w : 1 .. MaxSends]

(* event: the state whose handler runs, ABORTED for the DONE of Abort, or   *)
(* none; w: the transfer a task or a synchronous call works for, or 0;      *)
(* wrote: what WriteBody returned.                                          *)
Labels == {"aborted", "open", "send", "refused", "write", "loading", "loaded",
           "written", "finish", "unref", "perform", "unsend"}
Call == [event : States \cup {"ABORTED", "none"}, todo : Seq(Labels),
         w : 0 .. MaxSends, wrote : BOOLEAN]

Depth == Len(stack)
Top == stack[Depth]
Below == SubSeq(stack, 1, Depth - 1)
Rest == Tail(Top.todo)
Mine(w) == curl = workers[w].addr

Init ==
  /\ state = "UNSENT" /\ curl = NoHandle /\ send = FALSE /\ async = FALSE
  /\ body = {} /\ request = 0 /\ owned = TRUE /\ refs = 1
  /\ live = {} /\ workers = <<>> /\ tasks = <<>> /\ stack = <<>>

-----------------------------------------------------------------------------
(* The call on top goes on with todo after the event; a new call starts. *)
Push(calls, event, todo, w, wrote) ==
  IF event = "none" /\ todo = <<>> THEN calls
  ELSE Append(calls, [event |-> event, todo |-> todo, w |-> w, wrote |-> wrote])
Continue(event, todo) == stack' = Push(Below, event, todo, Top.w, Top.wrote)
Enter(event, todo, w) == stack' = Push(stack, event, todo, w, TRUE)

InHandler == Depth > 0 /\ Top.event # "none"
Step(label) == Depth > 0 /\ Top.event = "none" /\ Top.todo[1] = label

(* The main loop is entered again below a handler that shows a dialog. *)
MainLoopRuns ==
  Depth = 0 \/ (InHandler /\ Depth < MaxDepth /\ <<Top.event, "dialog">> \in MayCall)

ChangeState(new, todo) == state' = new /\ Continue(new, todo)

(* Done: a handle that no transfer uses is cleaned up here, the others when *)
(* their transfer ends.                                                     *)
Active == (state = "OPENED" /\ send) \/ state \in {"HEADERS_RECEIVED", "LOADING"}
ReleaseCleansAlways ==
  /\ curl' = NoHandle /\ send' = FALSE
  /\ live' = live \ {curl}
Release ==
  /\ curl' = NoHandle /\ send' = FALSE
  /\ live' = IF send THEN live ELSE live \ {curl}
Done(succeeded) ==
  /\ Release
  /\ body' = IF succeeded THEN body ELSE {}
  /\ state' = IF Active THEN "DONE" ELSE state
DoneEvent == IF Active THEN "DONE" ELSE "none"

(* Abort, and what follows the DONE it may dispatch. *)
Abort ==
  /\ Release
  /\ body' = {}
  /\ state' = IF Active THEN "DONE" ELSE "UNSENT"
AbortEvent == IF Active THEN "ABORTED" ELSE "none"
AfterAbort(todo) == IF Active THEN <<"aborted">> \o todo ELSE todo

Aborted ==
  /\ Step("aborted")
  /\ state' = IF state = "DONE" THEN "UNSENT" ELSE state
  /\ Continue("none", Rest)
  /\ UNCHANGED <<curl, send, async, body, counts, live, workers, tasks>>

-----------------------------------------------------------------------------
(* Calls of the script: from outside, or in a handler. *)
Script(call) ==
  /\ owned /\ Depth < MaxDepth
  /\ Depth > 0 => <<Top.event, call>> \in MayCall

CallAbort ==
  /\ Script("abort")
  /\ Abort
  /\ Enter(AbortEvent, AfterAbort(<<>>), 0)
  /\ UNCHANGED <<async, counts, workers, tasks>>

CallOpen ==
  /\ Script("open")
  /\ request < MaxOpens
  /\ Abort
  /\ Enter(AbortEvent, AfterAbort(<<"open">>), 0)
  /\ UNCHANGED <<async, counts, workers, tasks>>

Allocate == \E a \in Addrs \ live : curl' = a /\ live' = live \cup {a}

Open ==
  /\ Step("open")
  /\ request < MaxOpens
  /\ Allocate
  /\ request' = request + 1
  /\ async' \in Modes
  /\ ChangeState("OPENED", Rest)
  /\ UNCHANGED <<send, body, owned, refs, workers, tasks>>

(* A bad URL is found before curl_easy_init, a bad method after it. *)
OpenRefused ==
  /\ Step("open")
  /\ Allocate \/ UNCHANGED <<curl, live>>
  /\ Continue("none", Rest)
  /\ UNCHANGED <<state, send, async, body, counts, workers, tasks>>

CallSend ==
  /\ Script("send")
  /\ state = "OPENED" /\ ~send
  /\ Len(workers) < MaxSends
  /\ Enter("OPENED", <<"send">>, 0)
  /\ UNCHANGED <<state, curl, send, async, body, counts, live, workers, tasks>>

(* The handler has left OPENED. *)
SendOvertaken ==
  /\ Step("send")
  /\ state # "OPENED"
  /\ Continue("none", Rest)
  /\ UNCHANGED <<state, curl, send, async, body, counts, live, workers, tasks>>

(* The host is in backoff. *)
SendRefused ==
  /\ Step("send")
  /\ state = "OPENED"
  /\ Abort
  /\ Continue(AbortEvent, AfterAbort(<<"refused">>))
  /\ UNCHANGED <<async, counts, workers, tasks>>

Refused ==
  /\ Step("refused")
  /\ IF async THEN ChangeState("DONE", Rest)
     ELSE Continue("none", Rest) /\ UNCHANGED state
  /\ UNCHANGED <<curl, send, async, body, counts, live, workers, tasks>>

StartTransfer ==
  /\ Len(workers) < MaxSends
  /\ workers' = Append(workers, [addr |-> curl, request |-> request, async |-> async,
                                 thread |-> "starting", pieces |-> 0,
                                 succeeded |-> FALSE])
  /\ send' = TRUE

(* The worker holds a reference until its DoneTask. *)
SendAsyncMutant ==
  /\ Step("send")
  /\ state = "OPENED" /\ async
  /\ StartTransfer
  /\ Continue("none", Rest)
  /\ UNCHANGED <<state, curl, async, body, counts, live, tasks>>
SendAsync ==
  /\ Step("send")
  /\ state = "OPENED" /\ async
  /\ StartTransfer
  /\ refs' = refs + 1
  /\ Continue("none", Rest)
  /\ UNCHANGED <<state, curl, async, body, request, owned, live, tasks>>

(* pthread_create fails: send_flag_ is reset before Abort. *)
SendNoThread ==
  /\ Step("send")
  /\ state = "OPENED" /\ async
  /\ curl' = NoHandle /\ send' = FALSE /\ live' = live \ {curl}
  /\ body' = {} /\ state' = "UNSENT"
  /\ Continue("none", Rest)
  /\ UNCHANGED <<async, counts, workers, tasks>>

SendSync ==
  /\ Step("send")
  /\ state = "OPENED" /\ ~async
  /\ StartTransfer
  /\ stack' = Push(Below, "none", <<"perform">>, Len(workers) + 1, TRUE)
  /\ UNCHANGED <<state, curl, async, body, counts, live, tasks>>

HandlerReturns ==
  /\ InHandler
  /\ Continue("none", Top.todo)
  /\ UNCHANGED <<state, curl, send, async, body, counts, live, workers, tasks>>

(* The script lets the object go; without transfers that deletes it. *)
Unref ==
  /\ refs' = refs - 1
  /\ IF refs = 1 THEN Abort ELSE UNCHANGED <<state, curl, send, body, live>>

DropObject ==
  /\ owned /\ Depth = 0
  /\ owned' = FALSE
  /\ Unref
  /\ UNCHANGED <<async, request, workers, tasks, stack>>

-----------------------------------------------------------------------------
(* The worker thread.  It reads curl_ without a lock. *)
Running(w) == workers[w].async /\ workers[w].thread # "ended"

Receive(w, kind) ==
  /\ IF Mine(w)
     THEN /\ tasks' = Append(tasks, [kind |-> kind, w |-> w])
          /\ workers' = [workers EXCEPT
                           ![w].thread = "receiving",
                           ![w].pieces = IF kind = "header" THEN @ ELSE @ + 1]
     ELSE /\ workers' = [workers EXCEPT ![w].thread = "failing"]
          /\ UNCHANGED tasks
  /\ UNCHANGED <<state, curl, send, async, body, counts, live, stack>>

(* The lines of the header, as one task. *)
WriteHeaderCallback(w) ==
  /\ Running(w) /\ workers[w].thread = "starting"
  /\ Receive(w, "header")

WriteBodyCallback(w) ==
  /\ Running(w) /\ workers[w].thread = "receiving" /\ workers[w].pieces < MaxPieces
  /\ Receive(w, "body")

(* Trailers of a chunked body come by WriteHeaderCallback, too. *)
TrailerCallback(w) ==
  /\ Running(w) /\ workers[w].thread = "receiving" /\ workers[w].pieces \in 1 .. MaxPieces - 1
  /\ Receive(w, "trailer")

(* The transfer ends, well or not. *)
WorkerDoneMutant(w) ==
  /\ Running(w)
  /\ \E s \in BOOLEAN :
       /\ s => workers[w].thread = "receiving"
       /\ tasks' = IF s THEN Append(tasks, [kind |-> "done", w |-> w]) ELSE tasks
       /\ workers' = [workers EXCEPT ![w].thread = "ended", ![w].succeeded = s]
  /\ UNCHANGED <<state, curl, send, async, body, counts, live, stack>>
WorkerDone(w) ==
  /\ Running(w)
  /\ tasks' = Append(tasks, [kind |-> "done", w |-> w])
  /\ \E s \in BOOLEAN :
       /\ s => workers[w].thread = "receiving"
       /\ workers' = [workers EXCEPT ![w].thread = "ended", ![w].succeeded = s]
  /\ UNCHANGED <<state, curl, send, async, body, counts, live, stack>>

-----------------------------------------------------------------------------
(* Tasks, on the main thread. *)
Dispatch(kind) ==
  /\ MainLoopRuns
  /\ tasks # <<>> /\ Head(tasks).kind = kind
  /\ tasks' = Tail(tasks)

WriteHeaderTask ==
  /\ \E kind \in {"header", "trailer"} : Dispatch(kind)
  /\ UNCHANGED <<state, curl, send, async, body, counts, live, workers, stack>>

HeaderTooLong ==
  /\ \E kind \in {"header", "trailer"} : Dispatch(kind)
  /\ LET w == Head(tasks).w
     IN  Mine(w) /\ Done(FALSE) /\ Enter(DoneEvent, <<>>, w)
  /\ UNCHANGED <<async, counts, workers>>

WriteBodyTaskMutant ==
  /\ Dispatch("body")
  /\ LET w == Head(tasks).w
     IN  Enter("none", <<"write", "written">>, w)
  /\ UNCHANGED <<state, curl, send, async, body, counts, live, workers>>
WriteBodyTask ==
  /\ Dispatch("body")
  /\ LET w == Head(tasks).w
     IN  Enter("none", IF Mine(w) THEN <<"write", "written">> ELSE <<>>, w)
  /\ UNCHANGED <<state, curl, send, async, body, counts, live, workers>>

(* The handle is cleaned up before it is compared. *)
DoneTaskMutant ==
  /\ Dispatch("done")
  /\ LET w == Head(tasks).w
     IN  IF Mine(w) THEN /\ live' = live \ {workers[w].addr}
                         /\ Enter("none", <<"write", "finish", "unref">>, w)
         ELSE UNCHANGED live /\ Enter("none", <<"unref">>, w)
  /\ UNCHANGED <<state, curl, send, async, body, counts, workers>>
DoneTask ==
  /\ Dispatch("done")
  /\ LET w == Head(tasks).w
     IN  /\ live' = live \ {workers[w].addr}
         /\ Enter("none", (IF Mine(w) THEN <<"write">> ELSE <<>>)
                          \o <<"finish", "unref">>, w)
  /\ UNCHANGED <<state, curl, send, async, body, counts, workers>>

(* WriteBody: the first data after the header changes the state twice.  The *)
(* blank data of the end of a transfer adds nothing.                        *)
IsPiece == Rest[1] \in {"written", "perform"}

StoreBody ==
  /\ \E fits \in BOOLEAN :
       /\ body' = IF fits /\ IsPiece THEN body \cup {workers[Top.w].request} ELSE body
       /\ stack' = Push(Below, "none", Rest, Top.w, fits)
  /\ UNCHANGED state

WriteFails ==
  /\ stack' = Push(Below, "none", Rest, Top.w, FALSE)
  /\ UNCHANGED <<state, body>>

Write ==
  /\ Step("write")
  /\ IF state = "OPENED"
     THEN ChangeState("HEADERS_RECEIVED", <<"loading">> \o Rest) /\ UNCHANGED body
     ELSE StoreBody
  /\ UNCHANGED <<curl, send, async, counts, live, workers, tasks>>

Loading ==
  /\ Step("loading")
  /\ IF state = "HEADERS_RECEIVED"
     THEN ChangeState("LOADING", <<"loaded">> \o Rest) /\ UNCHANGED body
     ELSE WriteFails
  /\ UNCHANGED <<curl, send, async, counts, live, workers, tasks>>

Loaded ==
  /\ Step("loaded")
  /\ IF state = "LOADING" THEN StoreBody ELSE WriteFails
  /\ UNCHANGED <<curl, send, async, counts, live, workers, tasks>>

(* A piece that could not be stored ends the request. *)
Written ==
  /\ Step("written")
  /\ IF Top.wrote
     THEN Continue("none", Rest) /\ UNCHANGED <<state, curl, send, body, live>>
     ELSE Done(FALSE) /\ Continue(DoneEvent, Rest)
  /\ UNCHANGED <<async, counts, workers, tasks>>

FinishMutant ==
  /\ Step("finish")
  /\ Done(workers[Top.w].succeeded) /\ Continue(DoneEvent, Rest)
  /\ UNCHANGED <<async, counts, workers, tasks>>
Finish ==
  /\ Step("finish")
  /\ IF workers[Top.w].async => Mine(Top.w)
     THEN Done(workers[Top.w].succeeded) /\ Continue(DoneEvent, Rest)
     ELSE Continue("none", Rest) /\ UNCHANGED <<state, curl, send, body, live>>
  /\ UNCHANGED <<async, counts, workers, tasks>>

UnrefInDoneTask ==
  /\ Step("unref")
  /\ Unref
  /\ Continue("none", Rest)
  /\ UNCHANGED <<async, request, owned, workers, tasks>>

-----------------------------------------------------------------------------
(* A synchronous transfer is performed on the main thread. *)
PerformHeader ==
  /\ Step("perform") /\ Top.wrote
  /\ workers[Top.w].thread \in {"starting", "receiving"}
  /\ \E fits \in BOOLEAN :
       /\ stack' = Push(Below, "none", Top.todo, Top.w, fits)
       /\ workers' = [workers EXCEPT ![Top.w].thread =
                        IF fits THEN "receiving" ELSE "failing"]
  /\ UNCHANGED <<state, curl, send, async, body, counts, live, tasks>>

PerformBody ==
  /\ Step("perform") /\ Top.wrote
  /\ workers[Top.w].thread = "receiving" /\ workers[Top.w].pieces < MaxPieces
  /\ workers' = [workers EXCEPT ![Top.w].pieces = @ + 1]
  /\ Continue("none", <<"write">> \o Top.todo)
  /\ UNCHANGED <<state, curl, send, async, body, counts, live, tasks>>

PerformEnd ==
  /\ Step("perform")
  /\ \E s \in BOOLEAN :
       /\ s => Top.wrote /\ workers[Top.w].thread = "receiving"
       /\ workers' = [workers EXCEPT ![Top.w].thread = "ended", ![Top.w].succeeded = s]
  /\ Continue("none", <<"write", "finish", "unsend">>)
  /\ UNCHANGED <<state, curl, send, async, body, counts, live, tasks>>

SyncSendReturns ==
  /\ Step("unsend")
  /\ send' = FALSE
  /\ Continue("none", Rest)
  /\ UNCHANGED <<state, curl, async, body, counts, live, workers, tasks>>

-----------------------------------------------------------------------------
ScriptCalls == CallAbort \/ CallOpen \/ CallSend \/ DropObject

MainThread ==
  \/ Aborted \/ Open \/ OpenRefused
  \/ SendOvertaken \/ SendRefused \/ Refused \/ SendAsync \/ SendNoThread \/ SendSync
  \/ HandlerReturns
  \/ WriteHeaderTask \/ HeaderTooLong \/ WriteBodyTask \/ DoneTask
  \/ Write \/ Loading \/ Loaded \/ Written \/ Finish \/ UnrefInDoneTask
  \/ PerformHeader \/ PerformBody \/ PerformEnd \/ SyncSendReturns

Next ==
  \/ ScriptCalls
  \/ MainThread
  \/ \E w \in Workers : \/ WriteHeaderCallback(w) \/ WriteBodyCallback(w)
                         \/ TrailerCallback(w) \/ WorkerDone(w)

Spec == Init /\ [][Next]_vars

(* The main loop goes on, handlers return and transfers end. *)
FairSpec ==
  /\ Spec
  /\ WF_vars(MainThread)
  /\ \A w \in 1 .. MaxSends : WF_vars(w \in Workers /\ WorkerDone(w))

-----------------------------------------------------------------------------
TypeOK ==
  /\ state \in States
  /\ curl \in Addrs \cup {NoHandle}
  /\ send \in BOOLEAN /\ async \in BOOLEAN /\ owned \in BOOLEAN
  /\ body \subseteq 1 .. MaxOpens
  /\ request \in 0 .. MaxOpens
  /\ refs \in 0 .. MaxSends + 1
  /\ live \subseteq Addrs
  /\ workers \in Seq(Worker)
  /\ tasks \in Seq(Task)
  /\ stack \in Seq(Call)

(* Transfers whose DoneTask has not run. *)
Pending == {w \in Workers : Running(w)}
           \cup {tasks[k].w : k \in 1 .. Len(tasks)}
           \cup {stack[k].w : k \in {j \in 1 .. Depth : stack[j].w > 0}}
Unreported == {w \in Workers : workers[w].async /\
                 (Running(w) \/ \E k \in 1 .. Len(tasks) :
                                  tasks[k] = [kind |-> "done", w |-> w])}

(* A transfer uses a handle that is allocated, and no other one uses it. *)
HandlesSafe ==
  \A w \in Unreported :
    /\ workers[w].addr \in live
    /\ \A v \in Unreported : workers[v].addr = workers[w].addr => v = w

(* When nothing is under way the only handle left is that of an open request. *)
NothingLeaks == Depth = 0 /\ Pending = {} => live \subseteq {curl} \ {NoHandle}

(* A request that was sent has a transfer that will report to it. *)
SentIsServed ==
  send /\ Depth = 0 =>
    \E w \in Unreported : Mine(w) /\ workers[w].request = request

(* The response holds no data of an earlier request. *)
OwnData == body \subseteq {request}

(* What WriteHeader and WriteBody assert (ASSERT in the code), whatever     *)
(* calls the script made since the worker posted the task.  A trailer is    *)
(* left out: it comes when the state is LOADING, and WriteHeader's ASSERT   *)
(* of OPENED fails for it.                                                  *)
Asserted ==
  /\ MainLoopRuns /\ tasks # <<>> =>
       (Head(tasks).kind = "header" /\ Mine(Head(tasks).w) => state = "OPENED" /\ send)
  /\ Step("write") /\ state # "OPENED" => state = "LOADING" /\ send
  /\ Step("loaded") /\ state = "LOADING" => send

(* The object outlives its transfers and their tasks (if no handler shows   *)
(* a dialog: the main loop below it may run the last DoneTask).             *)
RefsCover == refs = 0 => Pending = {}

(* Only its own transfer, or a call of the script, ends a request. *)
EndsOwn ==
  [][ send /\ ~send' =>
        \/ CallAbort \/ CallOpen \/ DropObject \/ UnrefInDoneTask
        \/ LET w == IF HeaderTooLong THEN Head(tasks).w ELSE Top.w
           IN  w > 0 => workers[w].request = request ]_vars

(* A request that was sent is answered, or ended by the script. *)
SentEnds == send ~> ~send
=============================================================================
