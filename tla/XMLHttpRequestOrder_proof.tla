----------------------- MODULE XMLHttpRequestOrder_proof -----------------------
(* The requests of one object and their transfers, for scripts that open    *)
(* again only in handlers of OPENED and DONE, do not send in the first and  *)
(* show no dialogs in handlers: no two transfers use one handle, no handle  *)
(* is lost, a request that was sent has a transfer, and nothing of an       *)
(* earlier request reaches a later one.  The address of a handle is given   *)
(* again, but not while a call on the stack or a task in the queue still    *)
(* takes it for its own.                                                    *)
EXTENDS XMLHttpRequest_proof

(* Asynchronous requests, of scripts of the usual kind. *)
Orderly ==
  /\ NoDialogs
  /\ Modes \subseteq {TRUE}
  /\ \A e \in States \cup {"ABORTED"} : <<e, "open">> \in MayCall => e \in {"OPENED", "DONE"}
  /\ <<"OPENED", "send">> \notin MayCall

-----------------------------------------------------------------------------
(* What calls can have left to do. *)
ToAbort == <<"aborted">>
ToReopen == <<"aborted">> \o <<"open">>
ToOpen == <<"open">>
ToSend == <<"send">>
ToRefuse == <<"refused">>
ToLeave == <<"unref">>
ToTell == <<"written">>
ToFinish == <<"finish", "unref">>
ToEnd == {ToTell, ToFinish}
ToWrite == {<<"write", "written">>, <<"write">> \o ToFinish}
ToLoad == {<<"loading">> \o t : t \in ToEnd}
ToStore == {<<"loaded">> \o t : t \in ToEnd}
OfDone(todo) == todo[Len(todo)] = "unref"

(* The calls there can be, by what they do. *)
Aborting(f) == f.event \in {"ABORTED", "none"} /\ f.todo \in {ToAbort, ToReopen}
Opening(f) == f.event = "none" /\ f.todo = ToOpen
Opened(f) == f.event = "OPENED" /\ f.todo = <<>>
Sending(f) == f.event \in {"OPENED", "none"} /\ f.todo = ToSend
Refusing(f) == f.event = "none" /\ f.todo = ToRefuse
Telling(f) == f.event = "DONE" /\ f.todo \in {<<>>, ToLeave}
Leaving(f) == f.event = "none" /\ f.todo = ToLeave

(* A task at work on a piece, or on the end of its transfer. *)
Writing(f) == f.event = "none" /\ f.todo \in ToWrite
LoadingNow(f) == f.event \in {"HEADERS_RECEIVED", "none"} /\ f.todo \in ToLoad
Storing(f) == f.event \in {"LOADING", "none"} /\ f.todo \in ToStore
EndingNow(f) == f.event = "none" /\ f.todo \in ToEnd
Working(f) == Writing(f) \/ LoadingNow(f) \/ Storing(f) \/ EndingNow(f)
Known(f) ==
  \/ Aborting(f) \/ Opening(f) \/ Opened(f) \/ Sending(f) \/ Refusing(f)
  \/ Telling(f) \/ Leaving(f) \/ Working(f)

(* First and later pieces. *)
LEMMA OneToDo ==
  ASSUME NEW x
  PROVE  <<x>>[1] = x /\ Tail(<<x>>) = <<>> /\ <<x>> # <<>> /\ Len(<<x>>) = 1
OBVIOUS

LEMMA TwoToDo ==
  ASSUME NEW x, NEW y
  PROVE  /\ <<x, y>>[1] = x /\ <<x, y>>[2] = y /\ Tail(<<x, y>>) = <<y>> /\ <<x, y>> # <<>>
         /\ Len(<<x, y>>) = 2
OBVIOUS

(* A list with one more piece before it. *)
LEMMA Before ==
  ASSUME NEW t \in Seq(Labels), NEW x \in Labels
  PROVE  /\ <<x>> \o t \in Seq(Labels) /\ <<x>> \o t # <<>>
         /\ (<<x>> \o t)[1] = x /\ Tail(<<x>> \o t) = t
         /\ t # <<>> => (OfDone(<<x>> \o t) <=> OfDone(t))
<1> DEFINE r == <<x>> \o t
<1>1. /\ r \in Seq(Labels) /\ r # <<>>
      /\ Len(r) = Len(t) + 1 /\ Len(t) \in Nat
      /\ r[1] = x /\ \A j \in 1 .. Len(t) : r[j + 1] = t[j]
  <2>1. <<x>> \in Seq(Labels) /\ Len(<<x>>) = 1 /\ <<x>>[1] = x
    BY DEF Labels
  <2> QED BY <2>1
<1> HIDE DEF r
<1>2. /\ Tail(r) \in Seq(Labels) /\ Len(Tail(r)) = Len(r) - 1
      /\ \A j \in 1 .. Len(r) - 1 : Tail(r)[j] = r[j + 1]
  BY <1>1, RestOf
<1>3. Tail(r) = t
  <2>1. PICK s : s = Tail(r)
    OBVIOUS
  <2>2. /\ s \in Seq(Labels) /\ Len(s) = Len(t)
        /\ \A j \in 1 .. Len(t) : s[j] = t[j]
    BY <1>1, <1>2, <2>1
  <2>3. s = t
    BY <2>2, SeqEqual
  <2> QED BY <2>1, <2>3
<1>4. t # <<>> => r[Len(r)] = t[Len(t)]
  <2>1. ASSUME t # <<>> PROVE Len(t) \in 1 .. Len(t)
    BY <2>1
  <2> QED BY <1>1, <2>1
<1> QED BY <1>1, <1>3, <1>4 DEF r, OfDone

LEMMA Ends ==
  /\ \A t \in ToEnd : t \in Seq(Labels) /\ t # <<>>
  /\ ToTell[1] = "written" /\ Tail(ToTell) = <<>> /\ ~OfDone(ToTell)
  /\ ToFinish[1] = "finish" /\ Tail(ToFinish) = ToLeave /\ OfDone(ToFinish)
<1>1. ToTell \in Seq(Labels) /\ ToFinish \in Seq(Labels)
  BY DEF ToTell, ToFinish, Labels
<1> QED BY <1>1, OneToDo, TwoToDo DEF ToTell, ToFinish, ToEnd, ToLeave, OfDone

(* The first piece tells the calls apart. *)
LEMMA Firsts ==
  /\ \A t \in {ToAbort, ToReopen} : t # <<>> /\ t[1] = "aborted"
  /\ ToOpen # <<>> /\ ToOpen[1] = "open"
  /\ ToSend # <<>> /\ ToSend[1] = "send"
  /\ ToRefuse # <<>> /\ ToRefuse[1] = "refused"
  /\ ToLeave # <<>> /\ ToLeave[1] = "unref"
  /\ \A t \in ToWrite : t # <<>> /\ t[1] = "write"
  /\ \A t \in ToLoad : t # <<>> /\ t[1] = "loading"
  /\ \A t \in ToStore : t # <<>> /\ t[1] = "loaded"
  /\ \A t \in ToEnd : t # <<>> /\ t[1] \in {"written", "finish"}
<1>1. /\ ToOpen \in Seq(Labels) /\ ToFinish \in Seq(Labels)
      /\ {"aborted", "write", "loading", "loaded"} \subseteq Labels
  BY DEF ToOpen, ToFinish, Labels
<1>2. ToAbort # <<>> /\ ToAbort[1] = "aborted"
  BY OneToDo DEF ToAbort
<1>3. ToReopen # <<>> /\ ToReopen[1] = "aborted"
  BY <1>1, Before DEF ToReopen, ToOpen
<1>4. \A t \in ToWrite : t # <<>> /\ t[1] = "write"
  BY <1>1, Before, TwoToDo DEF ToWrite
<1>5. \A t \in ToLoad : t # <<>> /\ t[1] = "loading"
  BY <1>1, Before, Ends DEF ToLoad
<1>6. \A t \in ToStore : t # <<>> /\ t[1] = "loaded"
  BY <1>1, Before, Ends DEF ToStore
<1>7. \A t \in ToEnd : t # <<>> /\ t[1] \in {"written", "finish"}
  BY Ends DEF ToEnd
<1>8. /\ ToOpen # <<>> /\ ToOpen[1] = "open"
      /\ ToSend # <<>> /\ ToSend[1] = "send"
      /\ ToRefuse # <<>> /\ ToRefuse[1] = "refused"
      /\ ToLeave # <<>> /\ ToLeave[1] = "unref"
  BY OneToDo DEF ToOpen, ToSend, ToRefuse, ToLeave
<1> QED BY <1>2, <1>3, <1>4, <1>5, <1>6, <1>7, <1>8

LEMMA Rests ==
  /\ Tail(ToAbort) = <<>> /\ Tail(ToReopen) = ToOpen /\ ToAbort # ToReopen
  /\ Tail(ToOpen) = <<>> /\ Tail(ToSend) = <<>> /\ Tail(ToRefuse) = <<>> /\ Tail(ToLeave) = <<>>
  /\ <<"aborted">> \o <<>> = ToAbort
  /\ \A t \in ToWrite : /\ Tail(t) \in ToEnd /\ (OfDone(Tail(t)) <=> OfDone(t))
                        /\ <<"loading">> \o Tail(t) \in ToLoad
                        /\ OfDone(<<"loading">> \o Tail(t)) <=> OfDone(t)
  /\ \A t \in ToLoad : /\ Tail(t) \in ToEnd /\ (OfDone(Tail(t)) <=> OfDone(t))
                       /\ <<"loaded">> \o Tail(t) \in ToStore
                       /\ OfDone(<<"loaded">> \o Tail(t)) <=> OfDone(t)
  /\ \A t \in ToStore : Tail(t) \in ToEnd /\ (OfDone(Tail(t)) <=> OfDone(t))
<1>1. /\ ToOpen \in Seq(Labels) /\ ToFinish \in Seq(Labels)
      /\ {"aborted", "write", "loading", "loaded"} \subseteq Labels
  BY DEF ToOpen, ToFinish, Labels
<1>2. /\ Tail(ToAbort) = <<>>
      /\ Tail(ToOpen) = <<>> /\ Tail(ToSend) = <<>> /\ Tail(ToRefuse) = <<>>
      /\ Tail(ToLeave) = <<>>
  BY OneToDo DEF ToAbort, ToOpen, ToSend, ToRefuse, ToLeave
<1>3. Tail(ToReopen) = ToOpen
  BY <1>1, Before DEF ToReopen, ToOpen
<1>4. ToAbort # ToReopen
  BY <1>2, <1>3, Firsts
<1>5. <<"aborted">> \o <<>> = ToAbort
  <2>1. ToAbort \in Seq(Labels)
    BY DEF ToAbort, Labels
  <2> QED BY <2>1, ConcatEmptySeq DEF ToAbort
<1>6. \A t \in ToWrite : Tail(t) \in ToEnd /\ (OfDone(Tail(t)) <=> OfDone(t))
  <2>1. Tail(<<"write", "written">>) = ToTell /\ ~OfDone(<<"write", "written">>)
    BY TwoToDo DEF ToTell, OfDone
  <2>2. Tail(<<"write">> \o ToFinish) = ToFinish /\ OfDone(<<"write">> \o ToFinish)
    BY <1>1, Before, Ends DEF ToEnd
  <2> QED BY <2>1, <2>2, Ends DEF ToWrite, ToEnd
<1>7. \A t \in ToEnd : /\ <<"loading">> \o t \in ToLoad /\ <<"loaded">> \o t \in ToStore
                       /\ OfDone(<<"loading">> \o t) <=> OfDone(t)
                       /\ OfDone(<<"loaded">> \o t) <=> OfDone(t)
                       /\ Tail(<<"loading">> \o t) = t /\ Tail(<<"loaded">> \o t) = t
  BY <1>1, Before, Ends DEF ToLoad, ToStore
<1>8. \A t \in ToLoad : Tail(t) \in ToEnd /\ (OfDone(Tail(t)) <=> OfDone(t))
  <2> TAKE t \in ToLoad
  <2>1. PICK u \in ToEnd : t = <<"loading">> \o u
    BY DEF ToLoad
  <2>2. Tail(<<"loading">> \o u) = u /\ (OfDone(<<"loading">> \o u) <=> OfDone(u))
    BY <1>7
  <2> QED BY <2>1, <2>2
<1>9. \A t \in ToStore : Tail(t) \in ToEnd /\ (OfDone(Tail(t)) <=> OfDone(t))
  <2> TAKE t \in ToStore
  <2>1. PICK u \in ToEnd : t = <<"loaded">> \o u
    BY DEF ToStore
  <2>2. Tail(<<"loaded">> \o u) = u /\ (OfDone(<<"loaded">> \o u) <=> OfDone(u))
    BY <1>7
  <2> QED BY <2>1, <2>2
<1> QED BY <1>2, <1>3, <1>4, <1>5, <1>6, <1>7, <1>8, <1>9

LEMMA StepOf ==
  ASSUME NEW f, Known(f), f.event = "none", NEW l, f.todo[1] = l
  PROVE  /\ l \in {"aborted", "open", "send", "refused", "unref", "write", "loading", "loaded",
                   "written", "finish"}
         /\ l = "aborted" => Aborting(f)
         /\ l = "open" => Opening(f)
         /\ l = "send" => Sending(f)
         /\ l = "refused" => Refusing(f)
         /\ l = "unref" => Leaving(f)
         /\ l = "write" => Writing(f)
         /\ l = "loading" => LoadingNow(f)
         /\ l = "loaded" => Storing(f)
         /\ l \in {"written", "finish"} => EndingNow(f)
BY Firsts DEF Known, Aborting, Opening, Opened, Sending, Refusing, Telling, Leaving, Working,
   Writing, LoadingNow, Storing, EndingNow

LEMMA EventOf ==
  ASSUME NEW f, Known(f)
  PROVE  /\ f.event = "OPENED" => Opened(f) \/ Sending(f)
         /\ f.event = "DONE" => Telling(f)
         /\ f.event = "ABORTED" => Aborting(f)
         /\ f.event = "HEADERS_RECEIVED" => LoadingNow(f)
         /\ f.event = "LOADING" => Storing(f)
         /\ f.event \in {"OPENED", "DONE", "ABORTED", "HEADERS_RECEIVED", "LOADING", "none"}
         /\ Working(f) => ~Aborting(f) /\ ~Opening(f) /\ ~Refusing(f) /\ ~Sending(f)
         /\ Aborting(f) => f.event \in {"ABORTED", "none"} /\ ~Opening(f) /\ ~Refusing(f) /\ ~Sending(f)
BY Firsts DEF Known, Aborting, Opening, Opened, Sending, Refusing, Telling, Leaving, Working,
   Writing, LoadingNow, Storing, EndingNow

(* No call is of two kinds. *)
LEMMA Alone ==
  ASSUME NEW f
  PROVE  /\ Working(f) <=> Writing(f) \/ LoadingNow(f) \/ Storing(f) \/ EndingNow(f)
         /\ Aborting(f) => ~Opening(f) /\ ~Opened(f) /\ ~Sending(f) /\ ~Refusing(f) /\ ~Telling(f)
                     /\ ~Leaving(f) /\ ~Writing(f) /\ ~LoadingNow(f) /\ ~Storing(f) /\ ~EndingNow(f)
         /\ Opening(f) => ~Aborting(f) /\ ~Opened(f) /\ ~Sending(f) /\ ~Refusing(f) /\ ~Telling(f)
                     /\ ~Leaving(f) /\ ~Writing(f) /\ ~LoadingNow(f) /\ ~Storing(f) /\ ~EndingNow(f)
         /\ Opened(f) => ~Aborting(f) /\ ~Opening(f) /\ ~Sending(f) /\ ~Refusing(f) /\ ~Telling(f)
                     /\ ~Leaving(f) /\ ~Writing(f) /\ ~LoadingNow(f) /\ ~Storing(f) /\ ~EndingNow(f)
         /\ Sending(f) => ~Aborting(f) /\ ~Opening(f) /\ ~Opened(f) /\ ~Refusing(f) /\ ~Telling(f)
                     /\ ~Leaving(f) /\ ~Writing(f) /\ ~LoadingNow(f) /\ ~Storing(f) /\ ~EndingNow(f)
         /\ Refusing(f) => ~Aborting(f) /\ ~Opening(f) /\ ~Opened(f) /\ ~Sending(f) /\ ~Telling(f)
                     /\ ~Leaving(f) /\ ~Writing(f) /\ ~LoadingNow(f) /\ ~Storing(f) /\ ~EndingNow(f)
         /\ Telling(f) => ~Aborting(f) /\ ~Opening(f) /\ ~Opened(f) /\ ~Sending(f) /\ ~Refusing(f)
                     /\ ~Leaving(f) /\ ~Writing(f) /\ ~LoadingNow(f) /\ ~Storing(f) /\ ~EndingNow(f)
         /\ Leaving(f) => ~Aborting(f) /\ ~Opening(f) /\ ~Opened(f) /\ ~Sending(f) /\ ~Refusing(f)
                     /\ ~Telling(f) /\ ~Writing(f) /\ ~LoadingNow(f) /\ ~Storing(f) /\ ~EndingNow(f)
         /\ Writing(f) => ~Aborting(f) /\ ~Opening(f) /\ ~Opened(f) /\ ~Sending(f) /\ ~Refusing(f)
                     /\ ~Telling(f) /\ ~Leaving(f) /\ ~LoadingNow(f) /\ ~Storing(f) /\ ~EndingNow(f)
         /\ LoadingNow(f) => ~Aborting(f) /\ ~Opening(f) /\ ~Opened(f) /\ ~Sending(f) /\ ~Refusing(f)
                     /\ ~Telling(f) /\ ~Leaving(f) /\ ~Writing(f) /\ ~Storing(f) /\ ~EndingNow(f)
         /\ Storing(f) => ~Aborting(f) /\ ~Opening(f) /\ ~Opened(f) /\ ~Sending(f) /\ ~Refusing(f)
                     /\ ~Telling(f) /\ ~Leaving(f) /\ ~Writing(f) /\ ~LoadingNow(f) /\ ~EndingNow(f)
         /\ EndingNow(f) => ~Aborting(f) /\ ~Opening(f) /\ ~Opened(f) /\ ~Sending(f) /\ ~Refusing(f)
                     /\ ~Telling(f) /\ ~Leaving(f) /\ ~Writing(f) /\ ~LoadingNow(f) /\ ~Storing(f)
<1>1. /\ Aborting(f) => f.todo[1] = "aborted" /\ f.event \in {"ABORTED", "none"}
      /\ Opening(f) => f.todo[1] = "open" /\ f.event = "none"
      /\ Opened(f) => f.todo = <<>> /\ f.event = "OPENED"
      /\ Sending(f) => f.todo # <<>> /\ f.todo[1] = "send"
      /\ Refusing(f) => f.todo[1] = "refused" /\ f.event = "none"
      /\ Telling(f) => f.event = "DONE"
      /\ Leaving(f) => f.todo[1] = "unref" /\ f.event = "none"
      /\ Writing(f) => f.todo[1] = "write" /\ f.event = "none"
      /\ LoadingNow(f) => f.todo[1] = "loading" /\ f.event \in {"HEADERS_RECEIVED", "none"}
      /\ Storing(f) => f.todo[1] = "loaded" /\ f.event \in {"LOADING", "none"}
      /\ EndingNow(f) => f.todo[1] \in {"written", "finish"} /\ f.event = "none"
      /\ Sending(f) => f.event \in {"OPENED", "none"}
  BY Firsts DEF Aborting, Opening, Opened, Sending, Refusing, Telling, Leaving, Writing,
     LoadingNow, Storing, EndingNow
<1>2. Working(f) <=> Writing(f) \/ LoadingNow(f) \/ Storing(f) \/ EndingNow(f)
  BY DEF Working
<1>3. Aborting(f) => ~Opening(f) /\ ~Opened(f) /\ ~Sending(f) /\ ~Refusing(f) /\ ~Telling(f)
                /\ ~Leaving(f) /\ ~Writing(f) /\ ~LoadingNow(f) /\ ~Storing(f) /\ ~EndingNow(f)
  BY <1>1
<1>4. Opening(f) => ~Aborting(f) /\ ~Opened(f) /\ ~Sending(f) /\ ~Refusing(f) /\ ~Telling(f)
                /\ ~Leaving(f) /\ ~Writing(f) /\ ~LoadingNow(f) /\ ~Storing(f) /\ ~EndingNow(f)
  BY <1>1
<1>5. Opened(f) => ~Aborting(f) /\ ~Opening(f) /\ ~Sending(f) /\ ~Refusing(f) /\ ~Telling(f)
                /\ ~Leaving(f) /\ ~Writing(f) /\ ~LoadingNow(f) /\ ~Storing(f) /\ ~EndingNow(f)
  BY <1>1
<1>6. Sending(f) => ~Aborting(f) /\ ~Opening(f) /\ ~Opened(f) /\ ~Refusing(f) /\ ~Telling(f)
                /\ ~Leaving(f) /\ ~Writing(f) /\ ~LoadingNow(f) /\ ~Storing(f) /\ ~EndingNow(f)
  BY <1>1
<1>7. Refusing(f) => ~Aborting(f) /\ ~Opening(f) /\ ~Opened(f) /\ ~Sending(f) /\ ~Telling(f)
                /\ ~Leaving(f) /\ ~Writing(f) /\ ~LoadingNow(f) /\ ~Storing(f) /\ ~EndingNow(f)
  BY <1>1
<1>8. Telling(f) => ~Aborting(f) /\ ~Opening(f) /\ ~Opened(f) /\ ~Sending(f) /\ ~Refusing(f)
                /\ ~Leaving(f) /\ ~Writing(f) /\ ~LoadingNow(f) /\ ~Storing(f) /\ ~EndingNow(f)
  BY <1>1
<1>9. Leaving(f) => ~Aborting(f) /\ ~Opening(f) /\ ~Opened(f) /\ ~Sending(f) /\ ~Refusing(f)
                /\ ~Telling(f) /\ ~Writing(f) /\ ~LoadingNow(f) /\ ~Storing(f) /\ ~EndingNow(f)
  BY <1>1
<1>10. Writing(f) => ~Aborting(f) /\ ~Opening(f) /\ ~Opened(f) /\ ~Sending(f) /\ ~Refusing(f)
                /\ ~Telling(f) /\ ~Leaving(f) /\ ~LoadingNow(f) /\ ~Storing(f) /\ ~EndingNow(f)
  BY <1>1
<1>11. LoadingNow(f) => ~Aborting(f) /\ ~Opening(f) /\ ~Opened(f) /\ ~Sending(f) /\ ~Refusing(f)
                /\ ~Telling(f) /\ ~Leaving(f) /\ ~Writing(f) /\ ~Storing(f) /\ ~EndingNow(f)
  BY <1>1
<1>12. Storing(f) => ~Aborting(f) /\ ~Opening(f) /\ ~Opened(f) /\ ~Sending(f) /\ ~Refusing(f)
                /\ ~Telling(f) /\ ~Leaving(f) /\ ~Writing(f) /\ ~LoadingNow(f) /\ ~EndingNow(f)
  BY <1>1
<1>13. EndingNow(f) => ~Aborting(f) /\ ~Opening(f) /\ ~Opened(f) /\ ~Sending(f) /\ ~Refusing(f)
                /\ ~Telling(f) /\ ~Leaving(f) /\ ~Writing(f) /\ ~LoadingNow(f) /\ ~Storing(f)
  BY <1>1
<1> QED BY <1>2, <1>3, <1>4, <1>5, <1>6, <1>7, <1>8, <1>9, <1>10, <1>11, <1>12, <1>13

-----------------------------------------------------------------------------
(* The invariant.  Of the calls on the stack: what they are, and which can   *)
(* be called from which handler.                                             *)
Over(f, g) ==
  /\ f.event # "none"
  /\ ~Working(g)
  /\ Working(f) \/ Aborting(f) => Aborting(g) /\ g.todo = ToAbort
  /\ f.event = "OPENED" => Opened(g) \/ Opening(g)
Nested(s) ==
  /\ \A k \in 1 .. Len(s) : Known(s[k])
  /\ \A k \in 1 .. Len(s) - 1 : Over(s[k], s[k + 1])

(* No request is under way. *)
Settled == curl = NoHandle /\ ~send /\ state \in {"DONE", "UNSENT"}
Quiet == Settled /\ body = {}

(* The transfer w is that of the current request; past, if its DoneTask has  *)
(* cleaned the handle up.                                                    *)
Serves(w, past) ==
  /\ w \in Workers
  /\ curl = workers[w].addr /\ send /\ workers[w].request = request
  /\ \A k \in 1 .. Len(tasks) : tasks[k].kind = "header" => tasks[k].w # w
  /\ workers[w].thread # "starting"
  /\ past => curl \notin live
  /\ ~past => w \in Reporting(tasks, workers)

(* A task works for the current request, or for one given up.               *)
Current(f) ==
  /\ Serves(f.w, OfDone(f.todo))
  /\ Writing(f) => state \in {"OPENED", "LOADING"}
  /\ LoadingNow(f) => state = "HEADERS_RECEIVED"
  /\ Storing(f) \/ EndingNow(f) => state = "LOADING"
Stale(f) == EndingNow(f) /\ f.w \in Workers /\ curl # workers[f.w].addr /\ OfDone(f.todo)

(* What the call on top may rely on. *)
Relies(f) ==
  /\ Aborting(f) \/ Refusing(f) => Quiet
  /\ Opening(f) => Quiet /\ state = "UNSENT"
  /\ Opened(f) \/ Sending(f) => ~send /\ state \in {"OPENED", "UNSENT"}
  /\ Working(f) => (Quiet /\ ~Writing(f)) \/ Stale(f) \/ Current(f)

(* The handle of the current request was cleaned up by its DoneTask. *)
Dangling == Depth > 0 /\ Working(Top) /\ Current(Top) /\ OfDone(Top.todo)

StackOK == Nested(stack) /\ (Depth > 0 => Relies(Top))
StateOK ==
  /\ state \in States /\ body \subseteq {request}
  /\ \A w \in Workers : workers[w].async
  /\ state = "OPENED" => async /\ curl # NoHandle
  /\ send => state \in {"OPENED", "HEADERS_RECEIVED", "LOADING"}
  /\ state \in {"HEADERS_RECEIVED", "LOADING"} => send
  /\ state = "HEADERS_RECEIVED" => Depth > 0 /\ LoadingNow(Top) /\ Current(Top)

(* The allocated handles are those of the transfers that have to report and  *)
(* that of the request opened last.                                          *)
Using(w) == w \in Reporting(tasks, workers)
HandleOK ==
  /\ live \subseteq Addrs
  /\ \A w \in Workers : Using(w) => workers[w].addr \in live
  /\ \A v, w \in Workers : Using(v) /\ Using(w) /\ workers[v].addr = workers[w].addr => v = w
  /\ \A a \in live : a = curl \/ \E w \in Workers : Using(w) /\ workers[w].addr = a
  /\ curl \in live \cup {NoHandle} \/ Dangling
  /\ \A w \in Workers : Using(w) /\ Mine(w) => send /\ workers[w].request = request
  /\ send => Dangling \/ \E w \in Workers : Using(w) /\ Mine(w)

(* Of a queue q and contexts ws: the header comes first, and only once.      *)
Headed(q, ws) ==
  \A k \in 1 .. Len(q) :
    /\ ws[q[k].w].thread # "starting"
    /\ q[k].kind # "header" =>
         \A m \in 1 .. Len(q) : q[m].kind = "header" /\ q[m].w = q[k].w => m < k

(* The header of the current request is expected in OPENED. *)
HeaderOK ==
  /\ Headed(tasks, workers)
  /\ \A k \in 1 .. Len(tasks) :
       tasks[k].kind = "header" /\ Mine(tasks[k].w) => state = "OPENED"
  /\ \A w \in Workers : workers[w].thread = "starting" /\ Mine(w) => state = "OPENED"

Order == StackOK /\ StateOK /\ HandleOK /\ HeaderOK
OInv == Inv /\ Order

-----------------------------------------------------------------------------
(* The stack: a new call, the call on top going on, or returning. *)
Same(f, ev, t, w, wrote) == f.event = ev /\ f.todo = t /\ f.w = w /\ f.wrote = wrote

LEMMA Pushed ==
  ASSUME NEW s \in Seq(Call), NEW ev \in Event, NEW t \in Seq(Labels),
         NEW w \in 0 .. MaxSends, NEW wrote \in BOOLEAN, ~(ev = "none" /\ t = <<>>)
  PROVE  \E n \in Nat \ {0}, c \in Call, p \in Seq(Call) :
           /\ n = Len(s) + 1 /\ Same(c, ev, t, w, wrote)
           /\ p = Push(s, ev, t, w, wrote)
           /\ Len(p) = n /\ p[n] = c
           /\ \A k \in 1 .. Len(s) : p[k] = s[k]
<1> DEFINE c == [event |-> ev, todo |-> t, w |-> w, wrote |-> wrote]
<1>1. c \in Call /\ Same(c, ev, t, w, wrote)
  BY DEF Call, Event, Same
<1>2. Push(s, ev, t, w, wrote) = Append(s, c)
  BY DEF Push
<1> HIDE DEF c
<1>3. /\ Append(s, c) \in Seq(Call) /\ Len(Append(s, c)) = Len(s) + 1
      /\ \A k \in 1 .. Len(s) : Append(s, c)[k] = s[k]
      /\ Append(s, c)[Len(s) + 1] = c
  BY <1>1, AppendProperties
<1>4. Len(s) + 1 \in Nat \ {0}
  OBVIOUS
<1> QED BY <1>1, <1>2, <1>3, <1>4

(* A call of the handler that runs in the top call. *)
LEMMA Called ==
  ASSUME NEW s \in Seq(Call), Nested(s), NEW ev \in Event, NEW t \in Seq(Labels),
         NEW w \in 0 .. MaxSends, NEW wrote \in BOOLEAN, ~(ev = "none" /\ t = <<>>),
         NEW p, p = Push(s, ev, t, w, wrote),
         \A c : Same(c, ev, t, w, wrote) =>
                  Known(c) /\ (Len(s) > 0 => Over(s[Len(s)], c))
  PROVE  Nested(p) /\ Len(p) > 0 /\ Same(p[Len(p)], ev, t, w, wrote)
<1>1. PICK n \in Nat \ {0}, c \in Call, q \in Seq(Call) :
        /\ n = Len(s) + 1 /\ Same(c, ev, t, w, wrote)
        /\ q = Push(s, ev, t, w, wrote)
        /\ Len(q) = n /\ q[n] = c
        /\ \A k \in 1 .. Len(s) : q[k] = s[k]
  BY Pushed
<1>2. p = q
  BY <1>1
<1>3. Known(c) /\ (Len(s) > 0 => Over(s[Len(s)], c))
  BY <1>1
<1>4. Len(s) \in Nat
  OBVIOUS
<1>5. \A k \in 1 .. n : k \in 1 .. Len(s) \/ k = n
  BY <1>1, <1>4
<1>6. \A k \in 1 .. n : Known(q[k])
  BY <1>1, <1>3, <1>5 DEF Nested
<1>7. ASSUME NEW k \in 1 .. n - 1 PROVE Over(q[k], q[k + 1])
  <2>1. k \in 1 .. Len(s) /\ q[k] = s[k] /\ Len(s) > 0
    BY <1>1, <1>4
  <2>2. CASE k = Len(s)
    BY <1>1, <1>3, <2>1, <2>2
  <2>3. CASE k # Len(s)
    <3>1. k \in 1 .. Len(s) - 1 /\ k + 1 \in 1 .. Len(s)
      BY <1>4, <2>1, <2>3
    <3>2. Over(s[k], s[k + 1]) /\ q[k + 1] = s[k + 1]
      BY <1>1, <3>1 DEF Nested
    <3> QED BY <2>1, <3>2
  <2> QED BY <2>2, <2>3
<1>8. Nested(q)
  BY <1>1, <1>6, <1>7 DEF Nested
<1> QED BY <1>1, <1>2, <1>8

(* The top call returns: the handler of the one below goes on. *)
LEMMA Returned ==
  ASSUME NEW s \in Seq(Call), s # <<>>, Nested(s), NEW w, NEW wrote,
         NEW p, p = Push(SubSeq(s, 1, Len(s) - 1), "none", <<>>, w, wrote)
  PROVE  /\ Nested(p) /\ Len(p) = Len(s) - 1
         /\ Len(p) > 0 => Known(p[Len(p)]) /\ Over(p[Len(p)], s[Len(s)])
<1> DEFINE b == SubSeq(s, 1, Len(s) - 1)
<1>1. /\ b \in Seq(Call) /\ Len(b) = Len(s) - 1
      /\ \A k \in 1 .. Len(s) - 1 : b[k] = s[k]
  BY BelowShape
<1>2. Len(s) \in Nat /\ Len(s) > 0
  OBVIOUS
<1>3. p = b
  BY DEF Push
<1> HIDE DEF b
<1>4. \A k \in 1 .. Len(b) : k \in 1 .. Len(s) /\ b[k] = s[k]
  BY <1>1, <1>2
<1>5. \A k \in 1 .. Len(b) - 1 : k \in 1 .. Len(s) - 1 /\ b[k] = s[k] /\ b[k + 1] = s[k + 1]
  BY <1>1, <1>2
<1>6. Nested(b)
  BY <1>4, <1>5 DEF Nested
<1>7. ASSUME Len(b) > 0 PROVE Known(b[Len(b)]) /\ Over(b[Len(b)], s[Len(s)])
  <2>1. PICK m \in Nat : m = Len(b)
    BY <1>1, <1>2
  <2>2. m \in 1 .. Len(s) - 1 /\ m + 1 = Len(s) /\ m \in 1 .. Len(s) /\ b[m] = s[m]
    BY <1>1, <1>2, <1>7, <2>1
  <2>3. Known(s[m]) /\ Over(s[m], s[m + 1])
    BY <2>2 DEF Nested
  <2> QED BY <2>1, <2>2, <2>3
<1> QED BY <1>1, <1>3, <1>6, <1>7

(* The top call goes on, or returns to a handler. *)
LEMMA WentOn ==
  ASSUME NEW s \in Seq(Call), s # <<>>, Nested(s), NEW ev \in Event, NEW t \in Seq(Labels),
         NEW w \in 0 .. MaxSends, NEW wrote \in BOOLEAN, ~(ev = "none" /\ t = <<>>),
         NEW p, p = Push(SubSeq(s, 1, Len(s) - 1), ev, t, w, wrote),
         \A c : Same(c, ev, t, w, wrote) =>
                  Known(c) /\ \A f : Over(f, s[Len(s)]) => Over(f, c)
  PROVE  Nested(p) /\ Len(p) = Len(s) /\ Same(p[Len(p)], ev, t, w, wrote)
<1> DEFINE b == SubSeq(s, 1, Len(s) - 1)
<1>1. /\ b \in Seq(Call) /\ Len(b) = Len(s) - 1
      /\ \A k \in 1 .. Len(s) - 1 : b[k] = s[k]
  BY BelowShape
<1>2. Len(s) \in Nat /\ Len(s) > 0
  OBVIOUS
<1>3. PICK r : r = Push(b, "none", <<>>, w, wrote)
  OBVIOUS
<1>4. /\ Nested(r) /\ Len(r) = Len(s) - 1
      /\ Len(r) > 0 => Over(r[Len(r)], s[Len(s)])
  BY <1>3, Returned
<1>5. r = b
  BY <1>3 DEF Push
<1> HIDE DEF b
<1>6. \A c : Same(c, ev, t, w, wrote) => Known(c) /\ (Len(b) > 0 => Over(b[Len(b)], c))
  BY <1>4, <1>5
<1>7. p = Push(b, ev, t, w, wrote)
  BY DEF b
<1>8. Nested(p) /\ Len(p) > 0 /\ Same(p[Len(p)], ev, t, w, wrote)
  BY <1>1, <1>4, <1>5, <1>6, <1>7, Called
<1>9. Len(p) = Len(b) + 1
  <2>1. PICK n \in Nat \ {0}, c \in Call, q \in Seq(Call) :
          n = Len(b) + 1 /\ q = Push(b, ev, t, w, wrote) /\ Len(q) = n
    BY <1>1, Pushed
  <2> QED BY <1>7, <2>1
<1> QED BY <1>1, <1>2, <1>8, <1>9

-----------------------------------------------------------------------------
(* The same of the state's stack. *)
LEMMA Enters ==
  ASSUME Inv, Nested(stack), NEW ev \in Event, NEW t \in Seq(Labels),
         NEW w \in 0 .. MaxSends, NEW wrote \in BOOLEAN, ~(ev = "none" /\ t = <<>>),
         stack' = Push(stack, ev, t, w, wrote),
         \A c : Same(c, ev, t, w, wrote) => Known(c) /\ (Depth > 0 => Over(Top, c))
  PROVE  Nested(stack)' /\ (Depth > 0)' /\ Same(Top', ev, t, w, wrote)
<1>1. PICK s, p : s \in Seq(Call) /\ s = stack /\ p = stack'
  BY DEF Inv, Typed
<1>2. \A c : Same(c, ev, t, w, wrote) => Known(c) /\ (Len(s) > 0 => Over(s[Len(s)], c))
  BY <1>1 DEF Top, Depth
<1>3. Nested(p) /\ Len(p) > 0 /\ Same(p[Len(p)], ev, t, w, wrote)
  BY <1>1, <1>2, Called
<1> QED BY <1>1, <1>3 DEF Top, Depth

LEMMA TopReturns ==
  ASSUME Inv, Nested(stack), Depth > 0, NEW w, NEW wrote,
         stack' = Push(Below, "none", <<>>, w, wrote)
  PROVE  /\ Nested(stack)' /\ Depth' = Depth - 1
         /\ (Depth > 0)' => Known(Top') /\ Over(Top', Top)
<1>1. PICK s, p : s \in Seq(Call) /\ s = stack /\ p = stack' /\ s # <<>>
  BY TopFacts DEF Inv, Typed
<1>2. p = Push(SubSeq(s, 1, Len(s) - 1), "none", <<>>, w, wrote)
  BY <1>1 DEF Below, Depth
<1>3. /\ Nested(p) /\ Len(p) = Len(s) - 1
      /\ Len(p) > 0 => Known(p[Len(p)]) /\ Over(p[Len(p)], s[Len(s)])
  BY <1>1, <1>2, Returned
<1> QED BY <1>1, <1>3 DEF Top, Depth

LEMMA TopGoesOn ==
  ASSUME Inv, Nested(stack), Depth > 0, NEW ev \in Event, NEW t \in Seq(Labels),
         NEW wrote \in BOOLEAN, ~(ev = "none" /\ t = <<>>),
         stack' = Push(Below, ev, t, Top.w, wrote),
         \A c : Same(c, ev, t, Top.w, wrote) =>
                  Known(c) /\ \A f : Over(f, Top) => Over(f, c)
  PROVE  Nested(stack)' /\ Depth' = Depth /\ Same(Top', ev, t, Top.w, wrote)
<1>1. PICK s, p : s \in Seq(Call) /\ s = stack /\ p = stack' /\ s # <<>>
  BY TopFacts DEF Inv, Typed
<1>2. PICK w \in 0 .. MaxSends : w = Top.w
  BY TopFacts
<1>3. p = Push(SubSeq(s, 1, Len(s) - 1), ev, t, w, wrote)
  BY <1>1, <1>2 DEF Below, Depth
<1>4. \A c : Same(c, ev, t, w, wrote) => Known(c) /\ \A f : Over(f, s[Len(s)]) => Over(f, c)
  BY <1>1, <1>2 DEF Top, Depth
<1>5. Nested(p) /\ Len(p) = Len(s) /\ Same(p[Len(p)], ev, t, w, wrote)
  BY <1>1, <1>3, <1>4, WentOn
<1> QED BY <1>1, <1>2, <1>5 DEF Top, Depth

(* The call on top of a stack, and what it may rely on. *)
LEMMA TopOf ==
  ASSUME OInv, Depth > 0
  PROVE  /\ Known(Top) /\ Relies(Top) /\ Top \in Call /\ Top.todo \in Seq(Labels)
         /\ Top.w \in 0 .. MaxSends /\ Top.wrote \in BOOLEAN /\ Top.event \in Event
         /\ Nested(stack)
<1>1. Depth \in 1 .. Len(stack)
  BY TopFacts DEF OInv, Order, Inv, Typed, Depth
<1> QED BY <1>1, TopFacts DEF OInv, Order, StackOK, Nested, Top

(* A call that returns leaves the one below what it may rely on. *)
LEMMA ReturnsTo ==
  ASSUME OInv, Depth > 0, NEW w, NEW wrote,
         stack' = Push(Below, "none", <<>>, w, wrote),
         Aborting(Top) => Quiet',
         Opened(Top) \/ Opening(Top) => (~send /\ state \in {"OPENED", "UNSENT"})'
  PROVE  /\ StackOK'
         /\ Depth' = Depth - 1
<1>1. /\ Nested(stack)' /\ Depth' = Depth - 1
      /\ (Depth > 0)' => Known(Top') /\ Over(Top', Top)
  BY TopOf, TopReturns DEF OInv
<1>2. ASSUME (Depth > 0)' PROVE Relies(Top)'
  <2>1. PICK f : f = Top'
    OBVIOUS
  <2>2. Known(f) /\ Over(f, Top)
    BY <1>1, <1>2, <2>1
  <2>3. /\ f.event # "none" /\ (Working(f) \/ Aborting(f) => Aborting(Top))
        /\ f.event = "OPENED" => Opened(Top) \/ Opening(Top)
    BY <2>2 DEF Over
  <2>4. ~Opening(f) /\ ~Refusing(f) /\ ~Writing(f) /\ (Opened(f) \/ Sending(f) => f.event = "OPENED")
    BY <2>3 DEF Opening, Refusing, Writing, Opened, Sending
  <2>5. Aborting(f) \/ Working(f) => Quiet'
    BY <2>3
  <2>6. Opened(f) \/ Sending(f) => (~send /\ state \in {"OPENED", "UNSENT"})'
    BY <2>3, <2>4
  <2>7. (Relies(f))' => Relies(Top)'
    BY <2>1
  <2>8. (Relies(f))'
    BY <2>4, <2>5, <2>6 DEF Relies
  <2> QED BY <2>7, <2>8
<1> QED BY <1>1, <1>2 DEF StackOK

-----------------------------------------------------------------------------
(* The transfers that have to report. *)
LEMMA Users ==
  ASSUME OInv
  PROVE  /\ \A k \in 1 .. Len(tasks) : tasks[k].w \in Workers /\ Using(tasks[k].w)
         /\ \A w \in Workers : workers[w].thread # "ended" => Using(w)
         /\ \A w : Using(w) => w \in Workers
<1>1. QueueOK(tasks, workers) /\ \A w \in Workers : workers[w].async
  BY DEF OInv, Order, Inv, StateOK
<1>2. ASSUME NEW k \in 1 .. Len(tasks) PROVE tasks[k].w \in Workers /\ Using(tasks[k].w)
  <2>1. /\ tasks[k].w \in 1 .. Len(workers) /\ workers[tasks[k].w].async
        /\ \/ Goes(workers, tasks[k].w)
           \/ \E m \in 1 .. Len(tasks) : IsDone(tasks[m], tasks[k].w)
    BY <1>1 DEF QueueOK
  <2> QED BY <2>1 DEF Reporting, Using, Workers
<1>3. ASSUME NEW w \in Workers, workers[w].thread # "ended" PROVE Using(w)
  BY <1>1, <1>3 DEF Goes, Reporting, Using, Workers
<1>4. \A w : Using(w) => w \in Workers
  BY DEF Using, Reporting, Workers
<1> QED BY <1>2, <1>3, <1>4

LEMMA HandlesOf ==
  ASSUME OInv
  PROVE  /\ \A w \in Workers : Using(w) => workers[w].addr \in live /\ workers[w].addr # NoHandle
         /\ NoHandle \notin live
BY XhrAssumption DEF OInv, Order, HandleOK

(* Without the first task of a queue. *)
LEMMA HeadedRest ==
  ASSUME NEW q \in Seq(Task), q # <<>>, NEW ws, Headed(q, ws)
  PROVE  /\ Headed(Tail(q), ws)
         /\ \A k \in 1 .. Len(Tail(q)) : \E m \in 1 .. Len(q) : Tail(q)[k] = q[m]
         /\ Head(q).kind # "header" =>
              \A k \in 1 .. Len(Tail(q)) :
                Tail(q)[k].kind = "header" => Tail(q)[k].w # Head(q).w
         /\ Head(q) = q[1] /\ 1 \in 1 .. Len(q)
<1> DEFINE p == Tail(q)
           h == Head(q)
<1>1. /\ p \in Seq(Task) /\ h \in Task
      /\ Len(p) = Len(q) - 1 /\ Len(q) \in Nat /\ Len(q) > 0
      /\ \A k \in 1 .. Len(q) - 1 : p[k] = q[k + 1]
      /\ h = q[1]
  OBVIOUS
<1> HIDE DEF p, h
<1>2. \A k \in 1 .. Len(p) : k + 1 \in 1 .. Len(q) /\ p[k] = q[k + 1]
  BY <1>1
<1>3. 1 \in 1 .. Len(q)
  BY <1>1
<1>4. Headed(p, ws)
  <2> SUFFICES ASSUME NEW k \in 1 .. Len(p)
               PROVE  /\ ws[p[k].w].thread # "starting"
                      /\ p[k].kind # "header" =>
                           \A m \in 1 .. Len(p) : p[m].kind = "header" /\ p[m].w = p[k].w => m < k
    BY DEF Headed
  <2>1. k + 1 \in 1 .. Len(q) /\ p[k] = q[k + 1]
    BY <1>2
  <2>2. ASSUME p[k].kind # "header", NEW m \in 1 .. Len(p),
               p[m].kind = "header", p[m].w = p[k].w
        PROVE  m < k
    <3>1. m + 1 \in 1 .. Len(q) /\ p[m] = q[m + 1]
      BY <1>2
    <3>2. m + 1 < k + 1
      BY <2>1, <2>2, <3>1 DEF Headed
    <3> QED BY <3>2
  <2>3. ws[p[k].w].thread # "starting"
    BY <2>1 DEF Headed
  <2> QED BY <2>2, <2>3
<1>5. ASSUME h.kind # "header", NEW k \in 1 .. Len(p), p[k].kind = "header", p[k].w = h.w
      PROVE  FALSE
  <2>1. k + 1 \in 1 .. Len(q) /\ p[k] = q[k + 1] /\ k >= 1
    BY <1>2
  <2>2. k + 1 < 1
    BY <1>1, <1>3, <1>5, <2>1 DEF Headed
  <2> QED BY <2>1, <2>2
<1>6. \A k \in 1 .. Len(p) : \E m \in 1 .. Len(q) : p[k] = q[m]
  BY <1>2
<1> QED BY <1>1, <1>3, <1>4, <1>5, <1>6 DEF p, h

-----------------------------------------------------------------------------
(* Steps that start and end no transfer: the queue is as it was, or its      *)
(* first task has been taken.                                                *)
Fewer == tasks' = tasks \/ \E kind \in {"header", "body", "trailer"} : Dispatch(kind)

LEMMA FewerTasks ==
  ASSUME OInv, Fewer, workers' = workers
  PROVE  /\ \A w : Using(w)' <=> Using(w)
         /\ Workers' = Workers
         /\ Headed(tasks, workers)'
         /\ \A k \in 1 .. Len(tasks') : \E m \in 1 .. Len(tasks) : tasks'[k] = tasks[m]
<1>1. CASE tasks' = tasks
  BY <1>1 DEF Using, Workers, OInv, Order, HeaderOK
<1>2. ASSUME NEW kind \in {"header", "body", "trailer"}, Dispatch(kind)
      PROVE  /\ \A w : Using(w)' <=> Using(w)
             /\ Headed(tasks, workers)'
             /\ \A k \in 1 .. Len(tasks') : \E m \in 1 .. Len(tasks) : tasks'[k] = tasks[m]
  <2>1. tasks # <<>> /\ Head(tasks).kind = kind /\ kind # "done" /\ tasks' = Tail(tasks)
    BY <1>2 DEF Dispatch
  <2>2. PICK q, p, ws : q = tasks /\ p = tasks' /\ ws = workers
    OBVIOUS
  <2>3. q \in Seq(Task) /\ q # <<>> /\ QueueOK(q, ws) /\ Headed(q, ws) /\ p = Tail(q)
    BY <2>1, <2>2 DEF OInv, Order, Inv, Typed, HeaderOK
  <2>4. Reporting(Tail(q), ws) = IF Head(q).kind = "done"
                                 THEN Reporting(q, ws) \ {Head(q).w} ELSE Reporting(q, ws)
    BY <2>3, Taken
  <2>5. Reporting(p, ws) = Reporting(q, ws)
    BY <2>1, <2>2, <2>3, <2>4
  <2>6. Headed(p, ws) /\ \A k \in 1 .. Len(p) : \E m \in 1 .. Len(q) : p[k] = q[m]
    BY <2>3, HeadedRest
  <2>7. \A w : Using(w)' <=> Using(w)
    BY <2>2, <2>5 DEF Using
  <2>8. Headed(tasks, workers)'
    BY <2>2, <2>6
  <2> QED BY <2>2, <2>6, <2>7, <2>8
<1>3. Workers' = Workers
  BY DEF Workers
<1> QED BY <1>1, <1>2, <1>3 DEF Fewer

(* The handles and the transfers stay as they are. *)
Unmoved ==
  /\ curl' = curl /\ send' = send /\ live' = live /\ request' = request
  /\ workers' = workers /\ Fewer

LEMMA HandlesKept ==
  ASSUME OInv, Unmoved, Dangling => Dangling'
  PROVE  HandleOK'
<1>1. (\A w : Using(w)' <=> Using(w)) /\ Workers' = Workers
  BY FewerTasks DEF Unmoved
<1>2. /\ curl' = curl /\ send' = send /\ live' = live /\ request' = request
      /\ workers' = workers /\ HandleOK
  BY DEF OInv, Order, Unmoved
<1>3. \A w : Mine(w)' <=> Mine(w)
  BY <1>2 DEF Mine
<1> QED BY <1>1, <1>2, <1>3 DEF HandleOK

LEMMA HeadersKept ==
  ASSUME OInv, workers' = workers, Fewer,
         \/ curl' = curl /\ (state = "OPENED" => state' = "OPENED")
         \/ \A w \in Workers : Using(w) => workers[w].addr # curl'
         \/ state' = "OPENED"
  PROVE  HeaderOK'
<1>1. /\ Workers' = Workers /\ Headed(tasks, workers)'
      /\ \A k \in 1 .. Len(tasks') : \E m \in 1 .. Len(tasks) : tasks'[k] = tasks[m]
  BY FewerTasks
<1>2. ASSUME NEW k \in 1 .. Len(tasks'), tasks'[k].kind = "header",
             curl' = workers[tasks'[k].w].addr
      PROVE  state' = "OPENED"
  <2>1. PICK m \in 1 .. Len(tasks) : tasks'[k] = tasks[m]
    BY <1>1
  <2>2. PICK w : w = tasks[m].w
    OBVIOUS
  <2>3. /\ w \in Workers /\ Using(w)
        /\ curl = workers[w].addr => state = "OPENED"
    BY <1>2, <2>1, <2>2, Users DEF OInv, Order, HeaderOK, Mine
  <2>4. curl' = workers[w].addr
    BY <1>2, <2>1, <2>2
  <2> QED BY <2>3, <2>4
<1>3. ASSUME NEW w \in Workers, workers[w].thread = "starting", curl' = workers[w].addr
      PROVE  state' = "OPENED"
  <2>1. Using(w) /\ (curl = workers[w].addr => state = "OPENED")
    BY <1>3, Users DEF OInv, Order, HeaderOK, Mine
  <2> QED BY <1>3, <2>1
<1> QED BY <1>1, <1>2, <1>3 DEF HeaderOK, Mine

(* A request ends, or is given up: its handle is cleaned up or belongs to    *)
(* its transfer alone.                                                       *)
LEMMA Released ==
  ASSUME OInv, Release, request' = request, workers' = workers, Fewer,
         state' \in {"DONE", "UNSENT"}, body' \subseteq {request}
  PROVE  StateOK' /\ HandleOK' /\ HeaderOK' /\ Settled'
<1>1. (\A w : Using(w)' <=> Using(w)) /\ Workers' = Workers
  BY FewerTasks
<1>2. curl' = NoHandle /\ ~send' /\ live' = IF send THEN live ELSE live \ {curl}
  BY DEF Release
<1>3. \A w \in Workers : Using(w) => workers[w].addr \in live /\ workers[w].addr # NoHandle
  BY HandlesOf
<1>4. HeaderOK'
  BY <1>2, <1>3, HeadersKept
<1>5. HandleOK'
  <2>1. \A w \in Workers : Using(w) /\ Mine(w) => send
    BY DEF OInv, Order, HandleOK
  <2>2. \A w \in Workers : Using(w) => workers[w].addr \in live'
    BY <1>2, <1>3, <2>1 DEF Mine
  <2>3. ASSUME NEW a \in live', a # NoHandle
        PROVE  \E w \in Workers : Using(w) /\ workers[w].addr = a
    <3>1. CASE a = curl
      <4>1. send
        BY <1>2, <2>3, <3>1
      <4>2. ~Dangling
        BY <1>2, <2>3, <3>1, <4>1 DEF Dangling, Current, Serves
      <4> QED BY <3>1, <4>1, <4>2 DEF OInv, Order, HandleOK, Mine
    <3>2. CASE a # curl
      BY <1>2, <2>3, <3>2 DEF OInv, Order, HandleOK
    <3> QED BY <3>1, <3>2
  <2>4. live' \subseteq Addrs /\ NoHandle \notin live'
    BY <1>2, HandlesOf DEF OInv, Order, HandleOK
  <2>5. \A v, w \in Workers : Using(v) /\ Using(w) /\ workers[v].addr = workers[w].addr => v = w
    BY DEF OInv, Order, HandleOK
  <2>6. \A w \in Workers : Using(w)' => ~Mine(w)'
    BY <1>1, <1>2, <1>3 DEF Mine
  <2> QED BY <1>1, <1>2, <2>2, <2>3, <2>4, <2>5, <2>6 DEF HandleOK
<1>6. StateOK'
  <2>1. \A w \in Workers' : workers'[w].async
    BY <1>1 DEF OInv, Order, StateOK
  <2> QED BY <1>2, <2>1 DEF StateOK, States
<1> QED BY <1>2, <1>4, <1>5, <1>6 DEF Settled

LEMMA AbortedAll ==
  ASSUME OInv, Abort, request' = request, workers' = workers, Fewer
  PROVE  StateOK' /\ HandleOK' /\ HeaderOK' /\ Quiet'
<1>1. Release /\ state' \in {"DONE", "UNSENT"} /\ body' = {}
  BY DEF Abort
<1> QED BY <1>1, Released DEF Quiet

-----------------------------------------------------------------------------
(* Steps of the main thread: what becomes of the stack. *)
LEMMA EntersWith ==
  ASSUME OInv, NEW ev \in Event, NEW t \in Seq(Labels),
         NEW w \in 0 .. MaxSends, NEW wrote \in BOOLEAN, ~(ev = "none" /\ t = <<>>),
         stack' = Push(stack, ev, t, w, wrote),
         \A c : Same(c, ev, t, w, wrote) =>
                  Known(c) /\ (Depth > 0 => Over(Top, c)) /\ Relies(c)'
  PROVE  StackOK' /\ (Depth > 0)' /\ Same(Top', ev, t, w, wrote)
<1>1. Nested(stack)' /\ (Depth > 0)' /\ Same(Top', ev, t, w, wrote)
  BY Enters DEF OInv, Order, StackOK
<1>2. PICK c : c = Top'
  OBVIOUS
<1>3. Relies(c)'
  BY <1>1, <1>2
<1>4. Relies(c)' => Relies(Top)'
  BY <1>2
<1> QED BY <1>1, <1>3, <1>4 DEF StackOK

LEMMA GoesOnWith ==
  ASSUME OInv, Depth > 0, NEW ev \in Event, NEW t \in Seq(Labels),
         NEW wrote \in BOOLEAN, ~(ev = "none" /\ t = <<>>),
         stack' = Push(Below, ev, t, Top.w, wrote),
         \A c : Same(c, ev, t, Top.w, wrote) =>
                  Known(c) /\ (\A f : Over(f, Top) => Over(f, c)) /\ Relies(c)'
  PROVE  StackOK' /\ Depth' = Depth /\ Same(Top', ev, t, Top.w, wrote)
<1>1. Nested(stack)' /\ Depth' = Depth /\ Same(Top', ev, t, Top.w, wrote)
  BY TopGoesOn DEF OInv, Order, StackOK
<1>2. PICK c : c = Top'
  OBVIOUS
<1>3. Relies(c)'
  BY <1>1, <1>2
<1>4. Relies(c)' => Relies(Top)'
  BY <1>2
<1> QED BY <1>1, <1>3, <1>4 DEF StackOK

(* What the calls have left to do are lists of labels. *)
LEMMA Lists ==
  /\ <<>> \in Seq(Labels) /\ {ToAbort, ToReopen, ToOpen, ToSend, ToRefuse, ToLeave} \subseteq Seq(Labels)
  /\ ToWrite \subseteq Seq(Labels) /\ ToLoad \subseteq Seq(Labels)
  /\ ToStore \subseteq Seq(Labels) /\ ToEnd \subseteq Seq(Labels)
  /\ {"ABORTED", "none", "OPENED", "DONE", "HEADERS_RECEIVED", "LOADING", "UNSENT"} \subseteq Event
<1>1. /\ ToOpen \in Seq(Labels) /\ ToFinish \in Seq(Labels) /\ ToAbort \in Seq(Labels)
      /\ ToSend \in Seq(Labels) /\ ToRefuse \in Seq(Labels) /\ ToLeave \in Seq(Labels)
      /\ <<"write", "written">> \in Seq(Labels)
      /\ {"aborted", "write", "loading", "loaded"} \subseteq Labels
  BY DEF ToOpen, ToFinish, ToAbort, ToSend, ToRefuse, ToLeave, Labels
<1>2. ToReopen \in Seq(Labels)
  BY <1>1, Before DEF ToReopen, ToOpen
<1>3. ToWrite \subseteq Seq(Labels)
  BY <1>1, Before DEF ToWrite
<1>4. ToLoad \subseteq Seq(Labels)
  <2> SUFFICES ASSUME NEW t \in ToEnd PROVE <<"loading">> \o t \in Seq(Labels)
    BY DEF ToLoad
  <2> QED BY <1>1, Before, Ends
<1>5. ToStore \subseteq Seq(Labels)
  <2> SUFFICES ASSUME NEW t \in ToEnd PROVE <<"loaded">> \o t \in Seq(Labels)
    BY DEF ToStore
  <2> QED BY <1>1, Before, Ends
<1>6. ToEnd \subseteq Seq(Labels)
  BY Ends
<1>7. {"ABORTED", "none", "OPENED", "DONE", "HEADERS_RECEIVED", "LOADING", "UNSENT"} \subseteq Event
  BY DEF Event, States
<1> QED BY <1>1, <1>2, <1>3, <1>4, <1>5, <1>6, <1>7

(* Nothing that matters changes. *)
LEMMA Stays ==
  ASSUME OInv,
         UNCHANGED <<state, curl, send, async, body, request, live, workers, tasks, stack>>
  PROVE  Order'
<1>1. /\ state' = state /\ curl' = curl /\ send' = send /\ async' = async /\ body' = body
      /\ request' = request /\ live' = live /\ workers' = workers /\ tasks' = tasks
      /\ stack' = stack
  OBVIOUS
<1>2. Depth' = Depth /\ Top' = Top /\ Workers' = Workers
  BY <1>1 DEF Depth, Top, Workers
<1>3. StackOK'
  <2>1. Relies(Top)' <=> Relies(Top)
    BY <1>1, <1>2 DEF Relies, Quiet, Settled, Stale, Current, Serves
  <2> QED BY <1>1, <1>2, <2>1 DEF OInv, Order, StackOK
<1>4. Current(Top)' <=> Current(Top)
  BY <1>1, <1>2 DEF Current, Serves
<1>5. StateOK'
  BY <1>1, <1>2, <1>4 DEF OInv, Order, StateOK
<1>6. Unmoved
  BY <1>1 DEF Unmoved, Fewer
<1>7. HandleOK'
  BY <1>2, <1>4, <1>6, HandlesKept DEF Dangling
<1>8. HeaderOK'
  BY <1>1, <1>6, HeadersKept DEF Unmoved
<1> QED BY <1>3, <1>5, <1>7, <1>8 DEF Order

(* The script: a call from outside, or in a handler. *)
LEMMA CallerOf ==
  ASSUME OInv, Orderly, NEW call, Script(call), Depth > 0
  PROVE  /\ Top.event # "none" /\ Known(Top) /\ Relies(Top)
         /\ ~Opening(Top) /\ ~Refusing(Top) /\ ~Writing(Top) /\ ~EndingNow(Top)
         /\ call = "open" => Top.event \in {"OPENED", "DONE"}
         /\ call = "send" => Top.event # "OPENED"
         /\ Top.event = "OPENED" => ~send /\ state \in {"OPENED", "UNSENT"}
         /\ Working(Top) \/ Aborting(Top) => Top.event \in {"ABORTED", "HEADERS_RECEIVED", "LOADING"}
<1>1. <<Top.event, call>> \in MayCall
  BY DEF Script
<1>2. Top.event \in States \cup {"ABORTED"}
  BY <1>1, XhrAssumption
<1>3. Top.event # "none"
  BY <1>2 DEF States
<1>4. Known(Top) /\ Relies(Top)
  BY TopOf
<1>5. PICK f : f = Top
  OBVIOUS
<1>6. /\ ~Opening(f) /\ ~Refusing(f) /\ ~Writing(f) /\ ~EndingNow(f)
      /\ f.event = "OPENED" => Opened(f) \/ Sending(f)
      /\ Working(f) \/ Aborting(f) => f.event \in {"ABORTED", "HEADERS_RECEIVED", "LOADING"}
  BY <1>3, <1>4, <1>5 DEF Known, Aborting, Opening, Opened, Sending, Refusing, Telling, Leaving,
     Working, Writing, LoadingNow, Storing, EndingNow
<1>7. /\ call = "open" => Top.event \in {"OPENED", "DONE"}
      /\ call = "send" => Top.event # "OPENED"
  BY <1>1, <1>2 DEF Orderly
<1>8. Top.event = "OPENED" => ~send /\ state \in {"OPENED", "UNSENT"}
  BY <1>4, <1>5, <1>6 DEF Relies
<1> QED BY <1>3, <1>4, <1>5, <1>6, <1>7, <1>8

LEMMA CallAbortOrder ==
  ASSUME OInv, Orderly, CallAbort
  PROVE  Order'
<1>1. /\ Script("abort") /\ Abort /\ request' = request /\ workers' = workers /\ tasks' = tasks
      /\ stack' = Push(stack, AbortEvent, AfterAbort(<<>>), 0, TRUE)
  BY DEF CallAbort, Enter, counts
<1>2. StateOK' /\ HandleOK' /\ HeaderOK' /\ Quiet'
  BY <1>1, AbortedAll DEF Fewer
<1>3. CASE Active
  <2>1. stack' = Push(stack, "ABORTED", ToAbort, 0, TRUE)
    BY <1>1, <1>3, Rests DEF AbortEvent, AfterAbort
  <2>2. ASSUME NEW c, Same(c, "ABORTED", ToAbort, 0, TRUE)
        PROVE  Known(c) /\ (Depth > 0 => Over(Top, c)) /\ Relies(c)'
    <3>1. Aborting(c) /\ c.todo = ToAbort
      BY <2>2 DEF Same, Aborting
    <3>2. Known(c) /\ ~Working(c) /\ Relies(c)'
      BY <1>2, <3>1, Alone DEF Known, Relies
    <3>3. Depth > 0 => Over(Top, c)
      BY <1>1, <1>3, <3>1, <3>2, CallerOf DEF Over, Active
    <3> QED BY <3>2, <3>3
  <2>3. 0 \in 0 .. MaxSends
    BY XhrAssumption
  <2>4. StackOK'
    BY <2>1, <2>2, <2>3, EntersWith, Lists
  <2> QED BY <1>2, <2>4 DEF Order
<1>4. CASE ~Active
  <2>1. stack' = stack
    BY <1>1, <1>4 DEF AbortEvent, AfterAbort, Push
  <2>2. Depth' = Depth /\ Top' = Top /\ state' = "UNSENT"
    BY <1>1, <1>4, <2>1 DEF Depth, Top, Abort
  <2>3. Depth > 0 => Relies(Top)'
    BY <1>1, <1>2, <2>2, CallerOf DEF Relies, Quiet, Settled
  <2>4. StackOK'
    BY <2>1, <2>2, <2>3 DEF OInv, Order, StackOK
  <2> QED BY <1>2, <2>4 DEF Order
<1> QED BY <1>3, <1>4

LEMMA CallOpenOrder ==
  ASSUME OInv, Orderly, CallOpen
  PROVE  Order'
<1>1. /\ Script("open") /\ Abort /\ request' = request /\ workers' = workers /\ tasks' = tasks
      /\ stack' = Push(stack, AbortEvent, AfterAbort(<<"open">>), 0, TRUE)
  BY DEF CallOpen, Enter, counts
<1>2. StateOK' /\ HandleOK' /\ HeaderOK' /\ Quiet'
  BY <1>1, AbortedAll DEF Fewer
<1>3. 0 \in 0 .. MaxSends
  BY XhrAssumption
<1>4. Depth > 0 => /\ Top.event \in {"OPENED", "DONE"} /\ ~Working(Top) /\ ~Aborting(Top)
                   /\ Top.event = "OPENED" => ~Active
  BY <1>1, CallerOf DEF Active
<1>5. CASE Active
  <2>1. stack' = Push(stack, "ABORTED", ToReopen, 0, TRUE)
    BY <1>1, <1>5 DEF AbortEvent, AfterAbort, ToReopen
  <2>2. ASSUME NEW c, Same(c, "ABORTED", ToReopen, 0, TRUE)
        PROVE  Known(c) /\ (Depth > 0 => Over(Top, c)) /\ Relies(c)'
    <3>1. Aborting(c)
      BY <2>2 DEF Same, Aborting
    <3>2. Known(c) /\ ~Working(c) /\ Relies(c)'
      BY <1>2, <3>1, Alone DEF Known, Relies
    <3>3. Depth > 0 => Over(Top, c)
      BY <1>4, <1>5, <3>2 DEF Over
    <3> QED BY <3>2, <3>3
  <2>3. StackOK'
    BY <1>3, <2>1, <2>2, EntersWith, Lists
  <2> QED BY <1>2, <2>3 DEF Order
<1>6. CASE ~Active
  <2>1. stack' = Push(stack, "none", ToOpen, 0, TRUE) /\ state' = "UNSENT"
    BY <1>1, <1>6 DEF AbortEvent, AfterAbort, ToOpen, Abort
  <2>2. ASSUME NEW c, Same(c, "none", ToOpen, 0, TRUE)
        PROVE  Known(c) /\ (Depth > 0 => Over(Top, c)) /\ Relies(c)'
    <3>1. Opening(c)
      BY <2>2 DEF Same, Opening
    <3>2. Known(c) /\ ~Working(c) /\ Relies(c)'
      BY <1>2, <2>1, <3>1, Alone DEF Known, Relies
    <3>3. Depth > 0 => Over(Top, c)
      BY <1>4, <3>1, <3>2 DEF Over
    <3> QED BY <3>2, <3>3
  <2>3. StackOK'
    BY <1>3, <2>1, <2>2, EntersWith, Lists, Firsts
  <2> QED BY <1>2, <2>3 DEF Order
<1> QED BY <1>5, <1>6

LEMMA CallSendOrder ==
  ASSUME OInv, Orderly, CallSend
  PROVE  Order'
<1>1. /\ Script("send") /\ state = "OPENED" /\ ~send
      /\ stack' = Push(stack, "OPENED", ToSend, 0, TRUE)
      /\ state' = state /\ curl' = curl /\ send' = send /\ async' = async /\ body' = body
      /\ request' = request /\ live' = live /\ workers' = workers /\ tasks' = tasks
  BY DEF CallSend, Enter, counts, ToSend
<1>2. Depth > 0 => /\ Top.event # "none" /\ Top.event # "OPENED"
                   /\ ~Working(Top) /\ ~Aborting(Top)
  BY <1>1, CallerOf DEF Relies, Quiet, Settled, Stale, Current, Serves
<1>3. ASSUME NEW c, Same(c, "OPENED", ToSend, 0, TRUE)
      PROVE  Known(c) /\ (Depth > 0 => Over(Top, c)) /\ Relies(c)'
  <2>1. Sending(c)
    BY <1>3 DEF Same, Sending
  <2>2. Known(c) /\ ~Working(c) /\ Relies(c)'
    BY <1>1, <2>1, Alone DEF Known, Relies
  <2>3. Depth > 0 => Over(Top, c)
    BY <1>2, <2>2 DEF Over
  <2> QED BY <2>2, <2>3
<1>4. 0 \in 0 .. MaxSends
  BY XhrAssumption
<1>5. StackOK'
  BY <1>1, <1>3, <1>4, EntersWith, Lists
<1>6. Unmoved /\ ~Dangling
  BY <1>1, <1>2 DEF Unmoved, Fewer, Dangling
<1>7. HandleOK' /\ HeaderOK'
  BY <1>1, <1>6, HandlesKept, HeadersKept DEF Unmoved
<1>8. StateOK'
  <2>1. Workers' = Workers
    BY <1>1 DEF Workers
  <2> QED BY <1>1, <2>1 DEF OInv, Order, StateOK
<1> QED BY <1>5, <1>7, <1>8 DEF Order

LEMMA UnrefOrder ==
  ASSUME OInv, Unref, request' = request, workers' = workers, tasks' = tasks
  PROVE  \/ StateOK' /\ HandleOK' /\ HeaderOK' /\ Quiet'
         \/ UNCHANGED <<state, curl, send, body, live>>
BY AbortedAll DEF Unref, Fewer

LEMMA DropObjectOrder ==
  ASSUME OInv, DropObject
  PROVE  Order'
<1>1. /\ Unref /\ request' = request /\ workers' = workers /\ tasks' = tasks
      /\ async' = async /\ stack' = stack /\ Depth = 0
  BY DEF DropObject
<1>2. CASE UNCHANGED <<state, curl, send, body, live>>
  BY <1>1, <1>2, Stays
<1>3. CASE StateOK' /\ HandleOK' /\ HeaderOK' /\ Quiet'
  <2>1. Depth' = 0
    BY <1>1 DEF Depth
  <2>2. StackOK'
    BY <1>1, <2>1 DEF OInv, Order, StackOK
  <2> QED BY <1>3, <2>2 DEF Order
<1> QED BY <1>1, <1>2, <1>3, UnrefOrder

-----------------------------------------------------------------------------
(* Opening and sending. *)
LEMMA RestOfTop ==
  ASSUME OInv, NEW label, Step(label)
  PROVE  /\ Depth > 0 /\ Top.event = "none" /\ Top.todo[1] = label
         /\ label = "aborted" => Aborting(Top) /\ Rest \in {<<>>, ToOpen}
                                 /\ (Rest = ToOpen => Top.todo # ToAbort)
         /\ label = "open" => Opening(Top) /\ Rest = <<>>
         /\ label = "send" => Sending(Top) /\ Rest = <<>>
         /\ label = "refused" => Refusing(Top) /\ Rest = <<>>
         /\ label = "unref" => Leaving(Top) /\ Rest = <<>>
         /\ label = "write" => Writing(Top)
         /\ label = "loading" => LoadingNow(Top)
         /\ label = "loaded" => Storing(Top)
         /\ label = "written" => EndingNow(Top) /\ Top.todo = ToTell /\ Rest = <<>>
         /\ label = "finish" => EndingNow(Top) /\ Top.todo = ToFinish /\ Rest = ToLeave
         /\ label \notin {"perform", "unsend"}
<1>1. Depth > 0 /\ Top.event = "none" /\ Top.todo[1] = label
  BY DEF Step
<1>2. PICK f : f = Top
  OBVIOUS
<1>3. Known(f)
  BY <1>1, <1>2, TopOf
<1>4. /\ label \in {"aborted", "open", "send", "refused", "unref", "write", "loading", "loaded",
                    "written", "finish"}
      /\ label = "aborted" => Aborting(f)
      /\ label = "open" => Opening(f)
      /\ label = "send" => Sending(f)
      /\ label = "refused" => Refusing(f)
      /\ label = "unref" => Leaving(f)
      /\ label = "write" => Writing(f)
      /\ label = "loading" => LoadingNow(f)
      /\ label = "loaded" => Storing(f)
      /\ label \in {"written", "finish"} => EndingNow(f)
  BY <1>1, <1>2, <1>3, StepOf
<1>5. /\ Aborting(f) => Tail(f.todo) \in {<<>>, ToOpen}
                        /\ (Tail(f.todo) = ToOpen => f.todo # ToAbort)
      /\ Opening(f) => Tail(f.todo) = <<>>
      /\ Sending(f) => Tail(f.todo) = <<>>
      /\ Refusing(f) => Tail(f.todo) = <<>>
      /\ Leaving(f) => Tail(f.todo) = <<>>
  BY Rests, Firsts DEF Aborting, Opening, Sending, Refusing, Leaving
<1>6. /\ EndingNow(f) /\ f.todo[1] = "written" => f.todo = ToTell /\ Tail(f.todo) = <<>>
      /\ EndingNow(f) /\ f.todo[1] = "finish" => f.todo = ToFinish /\ Tail(f.todo) = ToLeave
  BY Ends DEF EndingNow, ToEnd
<1>7. Rest = Tail(f.todo)
  BY <1>2 DEF Rest
<1> QED BY <1>1, <1>2, <1>4, <1>5, <1>6, <1>7

LEMMA AbortedOrder ==
  ASSUME OInv, Aborted
  PROVE  Order'
<1>1. /\ Step("aborted") /\ state' = (IF state = "DONE" THEN "UNSENT" ELSE state)
      /\ stack' = Push(Below, "none", Rest, Top.w, Top.wrote)
      /\ curl' = curl /\ send' = send /\ async' = async /\ body' = body
      /\ request' = request /\ live' = live /\ workers' = workers /\ tasks' = tasks
  BY DEF Aborted, Continue, counts
<1>2. /\ Depth > 0 /\ Aborting(Top) /\ Rest \in {<<>>, ToOpen}
      /\ Rest = ToOpen => Top.todo # ToAbort
  BY <1>1, RestOfTop
<1>3. /\ Known(Top) /\ Relies(Top) /\ Top.w \in 0 .. MaxSends /\ Top.wrote \in BOOLEAN
      /\ ~Opening(Top) /\ ~Opened(Top) /\ ~Working(Top)
  BY <1>2, TopOf, Alone
<1>4. Quiet /\ Quiet' /\ state' = "UNSENT"
  BY <1>1, <1>2, <1>3 DEF Relies, Quiet, Settled
<1>5. Unmoved /\ ~Dangling
  BY <1>1, <1>3 DEF Unmoved, Fewer, Dangling
<1>6. HandleOK' /\ HeaderOK'
  BY <1>4, <1>5, HandlesKept, HeadersKept, HandlesOf DEF Unmoved, Quiet, Settled
<1>7. StateOK'
  BY <1>1, <1>4 DEF OInv, Order, StateOK, Quiet, Settled, States, Workers
<1>8. StackOK'
  <2>1. CASE Rest = <<>>
    BY <1>1, <1>2, <1>3, <1>4, <2>1, ReturnsTo
  <2>2. CASE Rest = ToOpen
    <3>1. ASSUME NEW c, Same(c, "none", ToOpen, Top.w, Top.wrote)
          PROVE  Known(c) /\ (\A f : Over(f, Top) => Over(f, c)) /\ Relies(c)'
      <4>1. Opening(c)
        BY <3>1 DEF Same, Opening
      <4>2. Known(c) /\ ~Working(c) /\ Relies(c)'
        BY <1>4, <4>1, Alone DEF Known, Relies
      <4>3. \A f : Over(f, Top) => Over(f, c)
        BY <1>2, <2>2, <4>1, <4>2 DEF Over
      <4> QED BY <4>2, <4>3
    <3> QED BY <1>1, <1>2, <1>3, <2>2, <3>1, GoesOnWith, Lists, Firsts
  <2> QED BY <1>2, <2>1, <2>2
<1> QED BY <1>6, <1>7, <1>8 DEF Order

(* A new handle is nobody's yet. *)
LEMMA Allocated ==
  ASSUME OInv, Allocate, ~send, send' = send, workers' = workers, tasks' = tasks,
         curl = NoHandle
  PROVE  HandleOK' /\ curl' # NoHandle /\ \A w \in Workers : Using(w) => workers[w].addr # curl'
<1>1. PICK a \in Addrs \ live : curl' = a /\ live' = live \cup {a}
  BY DEF Allocate
<1>2. \A w \in Workers : Using(w) => workers[w].addr \in live
  BY HandlesOf
<1>3. a # NoHandle
  BY XhrAssumption
<1>4. /\ \A w : Using(w)' <=> Using(w)
      /\ Workers' = Workers
  BY FewerTasks DEF Fewer
<1>5. \A w : Mine(w)' <=> a = workers[w].addr
  BY <1>1 DEF Mine
<1>6. \A x \in live : \E w \in Workers : Using(w) /\ workers[w].addr = x
  BY HandlesOf DEF OInv, Order, HandleOK
<1>7. \A v, w \in Workers : Using(v) /\ Using(w) /\ workers[v].addr = workers[w].addr => v = w
  BY DEF OInv, Order, HandleOK
<1>8. live \subseteq Addrs
  BY DEF OInv, Order, HandleOK
<1>9. HandleOK'
  BY <1>1, <1>2, <1>4, <1>5, <1>6, <1>7, <1>8 DEF HandleOK
<1> QED BY <1>1, <1>2, <1>3, <1>9

LEMMA OpenOrder ==
  ASSUME OInv, Orderly, Open
  PROVE  Order'
<1>1. /\ Step("open") /\ Allocate /\ async' = TRUE
      /\ state' = "OPENED" /\ stack' = Push(Below, "OPENED", Rest, Top.w, Top.wrote)
      /\ send' = send /\ body' = body /\ workers' = workers /\ tasks' = tasks
  BY DEF Open, ChangeState, Continue, Orderly
<1>2. Depth > 0 /\ Opening(Top) /\ Rest = <<>>
  BY <1>1, RestOfTop
<1>3. /\ Relies(Top) /\ Top.w \in 0 .. MaxSends /\ Top.wrote \in BOOLEAN
      /\ ~Aborting(Top)
  BY <1>2, TopOf, Alone
<1>4. curl = NoHandle /\ ~send /\ body = {}
  BY <1>2, <1>3 DEF Relies, Quiet, Settled
<1>5. HandleOK' /\ curl' # NoHandle
  BY <1>1, <1>4, Allocated
<1>6. HeaderOK'
  BY <1>1, HeadersKept DEF Fewer
<1>7. StateOK'
  BY <1>1, <1>4, <1>5 DEF OInv, Order, StateOK, States, Workers
<1>8. ASSUME NEW c, Same(c, "OPENED", <<>>, Top.w, Top.wrote)
      PROVE  Known(c) /\ (\A f : Over(f, Top) => Over(f, c)) /\ Relies(c)'
  <2>1. Opened(c)
    BY <1>8 DEF Same, Opened
  <2>2. Known(c) /\ ~Working(c) /\ Relies(c)'
    BY <1>1, <1>4, <2>1, Alone DEF Known, Relies
  <2>3. \A f : Over(f, Top) => Over(f, c)
    BY <1>3, <2>1, <2>2 DEF Over
  <2> QED BY <2>2, <2>3
<1>9. StackOK'
  BY <1>1, <1>2, <1>3, <1>8, GoesOnWith, Lists
<1> QED BY <1>5, <1>6, <1>7, <1>9 DEF Order

LEMMA OpenRefusedOrder ==
  ASSUME OInv, OpenRefused
  PROVE  Order'
<1>1. /\ Step("open") /\ (Allocate \/ (curl' = curl /\ live' = live))
      /\ stack' = Push(Below, "none", Rest, Top.w, Top.wrote)
      /\ state' = state /\ send' = send /\ async' = async /\ body' = body
      /\ request' = request /\ workers' = workers /\ tasks' = tasks
  <2>1. Allocate \/ (curl' = curl /\ live' = live)
    BY DEF OpenRefused
  <2> QED BY <2>1 DEF OpenRefused, Continue, counts
<1>2. Depth > 0 /\ Opening(Top) /\ Rest = <<>>
  BY <1>1, RestOfTop
<1>3. Relies(Top) /\ ~Aborting(Top) /\ ~Working(Top)
  BY <1>2, TopOf, Alone
<1>4. curl = NoHandle /\ ~send /\ state = "UNSENT"
  BY <1>2, <1>3 DEF Relies, Quiet, Settled
<1>5. HandleOK' /\ HeaderOK'
  <2>1. CASE Allocate
    BY <1>1, <1>4, <2>1, Allocated, HeadersKept DEF Fewer
  <2>2. CASE curl' = curl /\ live' = live
    <3>1. Unmoved /\ ~Dangling
      BY <1>1, <1>3, <2>2 DEF Unmoved, Fewer, Dangling
    <3> QED BY <1>1, <2>2, <3>1, HandlesKept, HeadersKept DEF Unmoved
  <2> QED BY <1>1, <2>1, <2>2
<1>6. StateOK'
  BY <1>1, <1>4 DEF OInv, Order, StateOK, Workers
<1>7. StackOK'
  BY <1>1, <1>2, <1>3, <1>4, ReturnsTo
<1> QED BY <1>5, <1>6, <1>7 DEF Order

(* In send, before the transfer. *)
LEMMA SendFacts ==
  ASSUME OInv, Step("send")
  PROVE  /\ Depth > 0 /\ Sending(Top) /\ Top.event = "none" /\ Rest = <<>>
         /\ ~send /\ state \in {"OPENED", "UNSENT"} /\ ~Active
         /\ ~Aborting(Top) /\ ~Opening(Top) /\ ~Opened(Top) /\ ~Working(Top) /\ ~Dangling
         /\ Top.w \in 0 .. MaxSends /\ Top.wrote \in BOOLEAN
<1>1. Depth > 0 /\ Sending(Top) /\ Top.event = "none" /\ Rest = <<>>
  BY RestOfTop
<1>2. /\ Relies(Top) /\ Top.w \in 0 .. MaxSends /\ Top.wrote \in BOOLEAN
      /\ ~Aborting(Top) /\ ~Opening(Top) /\ ~Opened(Top) /\ ~Working(Top)
  BY <1>1, TopOf, Alone
<1> QED BY <1>1, <1>2 DEF Relies, Active, Dangling

LEMMA SendOvertakenOrder ==
  ASSUME OInv, SendOvertaken
  PROVE  Order'
<1>1. /\ Step("send") /\ stack' = Push(Below, "none", Rest, Top.w, Top.wrote)
      /\ state' = state /\ curl' = curl /\ send' = send /\ async' = async /\ body' = body
      /\ request' = request /\ live' = live /\ workers' = workers /\ tasks' = tasks
  BY DEF SendOvertaken, Continue, counts
<1>2. StackOK'
  BY <1>1, SendFacts, ReturnsTo
<1>3. HandleOK' /\ HeaderOK'
  BY <1>1, SendFacts, HandlesKept, HeadersKept DEF Unmoved, Fewer
<1>4. StateOK'
  BY <1>1, SendFacts DEF OInv, Order, StateOK, Workers
<1> QED BY <1>2, <1>3, <1>4 DEF Order

LEMMA SendRefusedOrder ==
  ASSUME OInv, SendRefused
  PROVE  Order'
<1>1. /\ Step("send") /\ Abort /\ request' = request /\ workers' = workers /\ tasks' = tasks
      /\ stack' = Push(Below, "none", ToRefuse, Top.w, Top.wrote)
  BY SendFacts DEF SendRefused, Continue, counts, AbortEvent, AfterAbort, ToRefuse
<1>2. StateOK' /\ HandleOK' /\ HeaderOK' /\ Quiet'
  BY <1>1, AbortedAll DEF Fewer
<1>3. ASSUME NEW c, Same(c, "none", ToRefuse, Top.w, Top.wrote)
      PROVE  Known(c) /\ (\A f : Over(f, Top) => Over(f, c)) /\ Relies(c)'
  <2>1. Refusing(c)
    BY <1>3 DEF Same, Refusing
  <2>2. Known(c) /\ ~Working(c) /\ Relies(c)'
    BY <1>2, <2>1, Alone DEF Known, Relies
  <2>3. \A f : Over(f, Top) => Over(f, c)
    BY <1>1, <2>2, SendFacts DEF Over
  <2> QED BY <2>2, <2>3
<1>4. StackOK'
  BY <1>1, <1>3, SendFacts, GoesOnWith, Lists, Firsts
<1> QED BY <1>2, <1>4 DEF Order

LEMMA RefusedOrder ==
  ASSUME OInv, Refused
  PROVE  Order'
<1>1. /\ Step("refused")
      /\ \/ state' = "DONE" /\ stack' = Push(Below, "DONE", Rest, Top.w, Top.wrote)
         \/ state' = state /\ stack' = Push(Below, "none", Rest, Top.w, Top.wrote)
      /\ curl' = curl /\ send' = send /\ async' = async /\ body' = body
      /\ request' = request /\ live' = live /\ workers' = workers /\ tasks' = tasks
  BY DEF Refused, ChangeState, Continue, counts
<1>2. Depth > 0 /\ Refusing(Top) /\ Rest = <<>>
  BY <1>1, RestOfTop
<1>3. /\ Relies(Top) /\ Top.w \in 0 .. MaxSends /\ Top.wrote \in BOOLEAN
      /\ ~Aborting(Top) /\ ~Opening(Top) /\ ~Opened(Top) /\ ~Working(Top)
  BY <1>2, TopOf, Alone
<1>4. Quiet /\ Quiet'
  BY <1>1, <1>2, <1>3 DEF Relies, Quiet, Settled
<1>5. Unmoved /\ ~Dangling
  BY <1>1, <1>3 DEF Unmoved, Fewer, Dangling
<1>6. HandleOK' /\ HeaderOK'
  BY <1>4, <1>5, HandlesKept, HeadersKept, HandlesOf DEF Unmoved, Quiet, Settled
<1>7. StateOK'
  BY <1>1, <1>4 DEF OInv, Order, StateOK, Quiet, Settled, States, Workers
<1>8. StackOK'
  <2>1. CASE stack' = Push(Below, "none", Rest, Top.w, Top.wrote)
    BY <1>2, <1>3, <2>1, ReturnsTo
  <2>2. CASE stack' = Push(Below, "DONE", Rest, Top.w, Top.wrote)
    <3>1. ASSUME NEW c, Same(c, "DONE", <<>>, Top.w, Top.wrote)
          PROVE  Known(c) /\ (\A f : Over(f, Top) => Over(f, c)) /\ Relies(c)'
      <4>1. Telling(c)
        BY <3>1 DEF Same, Telling
      <4>2. Known(c) /\ ~Working(c) /\ Relies(c)'
        BY <4>1, Alone DEF Known, Relies
      <4>3. \A f : Over(f, Top) => Over(f, c)
        BY <1>3, <4>2 DEF Over
      <4> QED BY <4>2, <4>3
    <3> QED BY <1>2, <1>3, <2>2, <3>1, GoesOnWith, Lists
  <2> QED BY <1>1, <2>1, <2>2
<1> QED BY <1>6, <1>7, <1>8 DEF Order

LEMMA SendNoThreadOrder ==
  ASSUME OInv, SendNoThread
  PROVE  Order'
<1>1. /\ Step("send") /\ stack' = Push(Below, "none", Rest, Top.w, Top.wrote)
      /\ curl' = NoHandle /\ send' = FALSE /\ live' = live \ {curl}
      /\ body' = {} /\ state' = "UNSENT"
      /\ request' = request /\ workers' = workers /\ tasks' = tasks
  BY DEF SendNoThread, Continue, counts
<1>2. StateOK' /\ HandleOK' /\ HeaderOK'
  BY <1>1, SendFacts, Released DEF Release, Fewer
<1>3. StackOK'
  BY <1>1, SendFacts, ReturnsTo
<1> QED BY <1>2, <1>3 DEF Order

(* A request that was opened asynchronous is sent so. *)
LEMMA NoSendSync ==
  ASSUME OInv
  PROVE  ~SendSync
BY DEF OInv, Order, StateOK, SendSync

(* The new transfer reports to its request. *)
LEMMA SendAsyncOrder ==
  ASSUME OInv, SendAsync
  PROVE  Order'
<1>0. PICK n : n = Len(workers) + 1
  OBVIOUS
<1>1. /\ Step("send") /\ StartTransfer /\ state = "OPENED" /\ async /\ send'
      /\ stack' = Push(Below, "none", Rest, Top.w, Top.wrote)
      /\ state' = state /\ curl' = curl /\ async' = async /\ body' = body
      /\ request' = request /\ live' = live /\ tasks' = tasks
  BY DEF SendAsync, Continue, StartTransfer
<1>2. StackOK'
  BY <1>1, SendFacts, ReturnsTo
<1>3. /\ Len(workers') = Len(workers) + 1 /\ Len(workers) \in Nat
      /\ workers'[n].async /\ workers'[n].thread = "starting"
      /\ \A v \in 1 .. Len(workers) : workers'[v] = workers[v]
  BY <1>0, <1>1, Started DEF OInv
<1>4. workers'[n].addr = curl /\ workers'[n].request = request
  <2>1. PICK c : /\ workers' = Append(workers, c) /\ c.addr = curl /\ c.request = request
    BY <1>1 DEF StartTransfer
  <2>2. workers \in Seq(Worker)
    BY DEF OInv, Inv, Typed
  <2>3. workers'[n] = c
    BY <1>0, <2>1, <2>2
  <2> QED BY <2>1, <2>3
<1>5. /\ n \notin Workers /\ n \in Workers' /\ \A w \in Workers' : w \in Workers \/ w = n
      /\ \A w \in Workers : w \in Workers' /\ workers'[w] = workers[w]
  BY <1>0, <1>3 DEF Workers
<1>6. \A w \in Workers : Using(w)' <=> Using(w)
  <2>1. \A w \in Workers : Goes(workers', w) <=> Goes(workers, w)
    BY <1>5 DEF Goes
  <2> QED BY <1>1, <1>5, <2>1 DEF Using, Reporting, Workers
<1>7. Using(n)'
  BY <1>3, <1>5 DEF Using, Reporting, Workers, Goes
<1>8. ~send /\ ~Dangling /\ curl # NoHandle
  BY <1>1, SendFacts DEF OInv, Order, StateOK
<1>9. curl \in live /\ \A w \in Workers : Using(w) => workers[w].addr # curl
  BY <1>8 DEF OInv, Order, HandleOK, Mine
<1>10. HandleOK'
  <2>1. \A w \in Workers' : Using(w)' => workers'[w].addr \in live
    BY <1>4, <1>5, <1>6, <1>9, HandlesOf
  <2>2. ASSUME NEW v \in Workers', NEW w \in Workers', Using(v)', Using(w)',
               workers'[v].addr = workers'[w].addr
        PROVE  v = w
    BY <1>4, <1>5, <1>6, <1>9, <2>2 DEF OInv, Order, HandleOK
  <2>3. \A a \in live : a = curl \/ \E w \in Workers' : Using(w)' /\ workers'[w].addr = a
    BY <1>5, <1>6 DEF OInv, Order, HandleOK
  <2>4. \A w \in Workers' : Using(w)' /\ Mine(w)' => workers'[w].request = request
    BY <1>1, <1>4, <1>5, <1>6, <1>9 DEF Mine
  <2>5. Using(n)' /\ Mine(n)'
    BY <1>1, <1>4, <1>7 DEF Mine
  <2>6. live \subseteq Addrs
    BY DEF OInv, Order, HandleOK
  <2> QED BY <1>1, <1>5, <1>9, <2>1, <2>2, <2>3, <2>4, <2>5, <2>6 DEF HandleOK
<1>11. HeaderOK'
  <2>1. \A k \in 1 .. Len(tasks) : tasks[k].w \in Workers
    BY Users
  <2>2. Headed(tasks, workers)'
    BY <1>1, <1>5, <2>1 DEF OInv, Order, HeaderOK, Headed
  <2> QED BY <1>1, <2>2 DEF HeaderOK
<1>12. StateOK'
  BY <1>1, <1>3, <1>5, <1>8 DEF OInv, Order, StateOK
<1> QED BY <1>2, <1>10, <1>11, <1>12 DEF Order

-----------------------------------------------------------------------------
(* A transfer that serves the request goes on doing so. *)
LEMMA ServesOn ==
  ASSUME Unmoved, tasks' = tasks, NEW w, NEW past, Serves(w, past)
  PROVE  Serves(w, past)'
BY DEF Unmoved, Serves, Workers

LEMMA WorkFacts ==
  ASSUME OInv, Depth > 0, Working(Top)
  PROVE  /\ (Quiet /\ ~Writing(Top)) \/ Stale(Top) \/ Current(Top)
         /\ \A f : ~Over(f, Top)
         /\ ~Aborting(Top) /\ ~Opening(Top) /\ ~Opened(Top) /\ Known(Top)
         /\ Top.w \in 0 .. MaxSends /\ Top.wrote \in BOOLEAN
<1>1. Relies(Top) /\ Known(Top) /\ Top.w \in 0 .. MaxSends /\ Top.wrote \in BOOLEAN
  BY TopOf
<1>2. ~Aborting(Top) /\ ~Opening(Top) /\ ~Opened(Top)
  BY Alone
<1>3. \A f : ~Over(f, Top)
  BY DEF Over
<1> QED BY <1>1, <1>2, <1>3 DEF Relies

LEMMA HandlerReturnsOrder ==
  ASSUME OInv, HandlerReturns
  PROVE  Order'
<1>1. /\ Depth > 0 /\ Top.event # "none"
      /\ stack' = Push(Below, "none", Top.todo, Top.w, Top.wrote)
      /\ state' = state /\ curl' = curl /\ send' = send /\ async' = async /\ body' = body
      /\ request' = request /\ live' = live /\ workers' = workers /\ tasks' = tasks
  BY DEF HandlerReturns, InHandler, Continue, counts
<1>2. /\ Known(Top) /\ Relies(Top) /\ Top.w \in 0 .. MaxSends /\ Top.wrote \in BOOLEAN
      /\ Top.todo \in Seq(Labels)
  BY <1>1, TopOf
<1>3. Unmoved
  BY <1>1 DEF Unmoved, Fewer
<1>4. HeaderOK'
  BY <1>1, <1>3, HeadersKept DEF Unmoved
<1>5. CASE Top.todo = <<>>
  <2>1. ~Working(Top) /\ ~Aborting(Top) /\ ~Opening(Top)
    BY <1>5, Firsts DEF Working, Writing, LoadingNow, Storing, EndingNow, Aborting, Opening
  <2>2. Opened(Top) => ~send /\ state \in {"OPENED", "UNSENT"}
    BY <1>2 DEF Relies
  <2>3. StackOK'
    BY <1>1, <1>5, <2>1, <2>2, ReturnsTo
  <2>4. state # "HEADERS_RECEIVED"
    BY <2>1 DEF OInv, Order, StateOK, Working
  <2>5. HandleOK'
    BY <1>3, <2>1, HandlesKept DEF Dangling
  <2>6. StateOK'
    BY <1>1, <2>4 DEF OInv, Order, StateOK, Workers
  <2> QED BY <1>4, <2>3, <2>5, <2>6 DEF Order
<1>6. CASE Top.todo # <<>>
  <2>1. ASSUME NEW c, Same(c, "none", Top.todo, Top.w, Top.wrote)
        PROVE  /\ Known(c) /\ c.w = Top.w /\ c.todo = Top.todo
               /\ Aborting(c) <=> Aborting(Top)
               /\ Sending(c) <=> Sending(Top)
               /\ LoadingNow(c) <=> LoadingNow(Top)
               /\ Storing(c) <=> Storing(Top)
               /\ Working(c) <=> Working(Top)
               /\ ~Opening(c) /\ ~Opened(c) /\ ~Refusing(c) /\ ~Writing(c) /\ ~EndingNow(c)
               /\ ~Opening(Top) /\ ~Opened(Top) /\ ~Refusing(Top) /\ ~Writing(Top)
               /\ ~EndingNow(Top)
    <3>1. PICK f : f = Top
      OBVIOUS
    <3>2. /\ Known(f) /\ f.event # "none" /\ f.todo # <<>>
          /\ c.event = "none" /\ c.todo = f.todo /\ c.w = f.w
      BY <1>1, <1>2, <1>6, <2>1, <3>1 DEF Same
    <3>3. /\ Aborting(f) \/ Sending(f) \/ Telling(f) \/ LoadingNow(f) \/ Storing(f)
          /\ ~Opening(f) /\ ~Opened(f) /\ ~Refusing(f) /\ ~Writing(f) /\ ~EndingNow(f)
      BY <3>2 DEF Known, Aborting, Opening, Opened, Sending, Refusing, Telling, Leaving,
         Working, Writing, LoadingNow, Storing, EndingNow
    <3>4. /\ Aborting(f) => Aborting(c)
          /\ Sending(f) => Sending(c)
          /\ Telling(f) => Leaving(c)
          /\ LoadingNow(f) => LoadingNow(c)
          /\ Storing(f) => Storing(c)
      BY <3>2 DEF Aborting, Sending, Telling, Leaving, LoadingNow, Storing
    <3>5. Known(c)
      BY <3>3, <3>4 DEF Known, Working
    <3>6. /\ Aborting(c) <=> Aborting(f)
          /\ Sending(c) <=> Sending(f)
          /\ LoadingNow(c) <=> LoadingNow(f)
          /\ Storing(c) <=> Storing(f)
          /\ Working(c) <=> Working(f)
          /\ ~Opening(c) /\ ~Opened(c) /\ ~Refusing(c) /\ ~Writing(c) /\ ~EndingNow(c)
      BY <3>3, <3>4, Alone
    <3> QED BY <3>1, <3>2, <3>3, <3>5, <3>6
  <2>2. ASSUME NEW c, Same(c, "none", Top.todo, Top.w, Top.wrote), Current(Top)
        PROVE  Current(c)'
    <3>1. PICK w, past : w = Top.w /\ past = OfDone(Top.todo)
      OBVIOUS
    <3>2. Serves(w, past)
      BY <2>2, <3>1 DEF Current
    <3>3. Serves(w, past)'
      BY <1>1, <1>3, <3>2, ServesOn
    <3>4. c.w = w /\ OfDone(c.todo) = past
      BY <2>1, <2>2, <3>1
    <3>5. Serves(c.w, OfDone(c.todo))'
      BY <3>3, <3>4
    <3> QED BY <1>1, <2>1, <2>2, <3>5 DEF Current
  <2>3. ASSUME NEW c, Same(c, "none", Top.todo, Top.w, Top.wrote)
        PROVE  Known(c) /\ (\A f : Over(f, Top) => Over(f, c)) /\ Relies(c)'
    <3>1. Quiet' <=> Quiet
      BY <1>1 DEF Quiet, Settled
    <3>2. Relies(c)'
      BY <1>1, <1>2, <2>1, <2>2, <2>3, <3>1 DEF Relies, Stale
    <3>3. \A f : Over(f, Top) => Over(f, c)
      BY <2>1, <2>3 DEF Over
    <3> QED BY <2>1, <2>3, <3>2, <3>3
  <2>4. StackOK' /\ Depth' = Depth /\ Same(Top', "none", Top.todo, Top.w, Top.wrote)
    BY <1>1, <1>2, <1>6, <2>3, GoesOnWith, Lists
  <2>5. PICK c : c = Top'
    OBVIOUS
  <2>6. (Current(Top) => Current(Top)') /\ (Working(Top) <=> Working(Top)')
        /\ (LoadingNow(Top) <=> LoadingNow(Top)') /\ Top'.todo = Top.todo
    <3>1. (Current(Top) => Current(c)') /\ (Working(Top) <=> Working(c))
          /\ (LoadingNow(Top) <=> LoadingNow(c)) /\ c.todo = Top.todo
      BY <2>1, <2>2, <2>4, <2>5
    <3>2. (Current(c)' <=> Current(Top)') /\ (Working(c) <=> Working(Top)')
          /\ (LoadingNow(c) <=> LoadingNow(Top)')
      BY <2>5
    <3> QED BY <2>5, <3>1, <3>2
  <2>7. HandleOK'
    BY <1>1, <1>3, <2>4, <2>6, HandlesKept DEF Dangling
  <2>8. StateOK'
    BY <1>1, <2>4, <2>6 DEF OInv, Order, StateOK, Workers
  <2> QED BY <1>4, <2>4, <2>7, <2>8 DEF Order
<1> QED BY <1>5, <1>6

-----------------------------------------------------------------------------
(* Tasks. *)
LEMMA HeadFacts ==
  ASSUME OInv, NoDialogs, NEW kind, Dispatch(kind)
  PROVE  /\ Depth = 0 /\ tasks # <<>> /\ Head(tasks).kind = kind /\ tasks' = Tail(tasks)
         /\ Head(tasks).w \in Workers /\ Head(tasks).w \in 0 .. MaxSends /\ Using(Head(tasks).w)
         /\ workers[Head(tasks).w].thread # "starting"
         /\ Mine(Head(tasks).w) =>
              /\ send /\ workers[Head(tasks).w].request = request
              /\ state \in {"OPENED", "LOADING"}
              /\ kind = "header" => state = "OPENED"
         /\ kind # "header" =>
              \A k \in 1 .. Len(tasks') : tasks'[k].kind = "header" => tasks'[k].w # Head(tasks).w
<1>1. Depth = 0 /\ tasks # <<>> /\ Head(tasks).kind = kind /\ tasks' = Tail(tasks)
  BY Outermost DEF Dispatch
<1>2. PICK q, ws : q = tasks /\ ws = workers
  OBVIOUS
<1>3. q \in Seq(Task) /\ q # <<>> /\ Headed(q, ws)
  BY <1>1, <1>2 DEF OInv, Inv, Typed, Order, HeaderOK
<1>4. /\ Head(q).kind # "header" =>
           \A k \in 1 .. Len(Tail(q)) :
             Tail(q)[k].kind = "header" => Tail(q)[k].w # Head(q).w
      /\ Head(q) = q[1] /\ 1 \in 1 .. Len(q)
  BY <1>3, HeadedRest
<1>5. Head(tasks) = tasks[1] /\ 1 \in 1 .. Len(tasks)
  BY <1>2, <1>4
<1>6. tasks[1].w \in Workers /\ Using(tasks[1].w)
  BY <1>5, Users
<1>7. tasks[1].w \in 0 .. MaxSends
  BY <1>6, ContextOf DEF OInv
<1>8. /\ workers[tasks[1].w].thread # "starting"
      /\ tasks[1].kind = "header" /\ Mine(tasks[1].w) => state = "OPENED"
  BY <1>5 DEF OInv, Order, HeaderOK, Headed
<1>9. Mine(tasks[1].w) => send /\ workers[tasks[1].w].request = request
  BY <1>6 DEF OInv, Order, HandleOK
<1>10. send => state \in {"OPENED", "LOADING"}
  BY <1>1 DEF OInv, Order, StateOK
<1> QED BY <1>1, <1>2, <1>4, <1>5, <1>6, <1>7, <1>8, <1>9, <1>10

LEMMA WriteHeaderTaskOrder ==
  ASSUME OInv, NoDialogs, WriteHeaderTask
  PROVE  Order'
<1>1. /\ (\E kind \in {"header", "trailer"} : Dispatch(kind)) /\ stack' = stack
      /\ state' = state /\ curl' = curl /\ send' = send /\ async' = async /\ body' = body
      /\ request' = request /\ live' = live /\ workers' = workers
  BY DEF WriteHeaderTask, counts
<1>2. Depth = 0 /\ Depth' = 0
  BY <1>1, HeadFacts DEF Depth
<1>3. Unmoved /\ ~Dangling
  BY <1>1, <1>2 DEF Unmoved, Fewer, Dangling
<1>4. HandleOK' /\ HeaderOK'
  BY <1>1, <1>3, HandlesKept, HeadersKept DEF Unmoved
<1>5. StateOK' /\ StackOK'
  BY <1>1, <1>2 DEF OInv, Order, StateOK, StackOK, Workers
<1> QED BY <1>4, <1>5 DEF Order

LEMMA HeaderTooLongOrder ==
  ASSUME OInv, NoDialogs, HeaderTooLong
  PROVE  Order'
<1>1. PICK w : w = Head(tasks).w
  OBVIOUS
<1>2. /\ (\E kind \in {"header", "trailer"} : Dispatch(kind)) /\ Mine(w) /\ Done(FALSE)
      /\ stack' = Push(stack, DoneEvent, <<>>, w, TRUE)
      /\ request' = request /\ workers' = workers
  BY <1>1 DEF HeaderTooLong, Enter, counts
<1>3. w \in 0 .. MaxSends /\ send /\ state \in {"OPENED", "LOADING"} /\ Depth = 0
  BY <1>1, <1>2, HeadFacts
<1>4. Release /\ body' = {} /\ state' = "DONE" /\ stack' = Push(stack, "DONE", <<>>, w, TRUE)
  BY <1>2, <1>3 DEF Done, DoneEvent, Active
<1>5. StateOK' /\ HandleOK' /\ HeaderOK'
  BY <1>2, <1>4, Released DEF Fewer
<1>6. ASSUME NEW c, Same(c, "DONE", <<>>, w, TRUE)
      PROVE  Known(c) /\ (Depth > 0 => Over(Top, c)) /\ Relies(c)'
  <2>1. Telling(c)
    BY <1>6 DEF Same, Telling
  <2>2. Known(c) /\ Relies(c)'
    BY <2>1, Alone DEF Known, Relies
  <2> QED BY <1>3, <2>2
<1>7. StackOK'
  BY <1>3, <1>4, <1>6, EntersWith, Lists
<1> QED BY <1>5, <1>7 DEF Order

LEMMA WriteBodyTaskOrder ==
  ASSUME OInv, NoDialogs, WriteBodyTask
  PROVE  Order'
<1>1. PICK w : w = Head(tasks).w
  OBVIOUS
<1>2. /\ Dispatch("body")
      /\ stack' = Push(stack, "none", IF Mine(w) THEN <<"write", "written">> ELSE <<>>, w, TRUE)
      /\ state' = state /\ curl' = curl /\ send' = send /\ async' = async /\ body' = body
      /\ request' = request /\ live' = live /\ workers' = workers
  BY <1>1 DEF WriteBodyTask, Enter, counts
<1>3. /\ Depth = 0 /\ w \in Workers /\ w \in 0 .. MaxSends /\ Using(w)
      /\ workers[w].thread # "starting"
      /\ Mine(w) => send /\ workers[w].request = request /\ state \in {"OPENED", "LOADING"}
      /\ \A k \in 1 .. Len(tasks') : tasks'[k].kind = "header" => tasks'[k].w # w
  BY <1>1, <1>2, HeadFacts
<1>4. Unmoved /\ ~Dangling
  BY <1>2, <1>3 DEF Unmoved, Fewer, Dangling
<1>5. HandleOK' /\ HeaderOK'
  BY <1>2, <1>4, HandlesKept, HeadersKept DEF Unmoved
<1>6. StateOK'
  BY <1>2, <1>3 DEF OInv, Order, StateOK, Workers
<1>7. CASE ~Mine(w)
  <2>1. stack' = stack /\ Depth' = 0
    BY <1>2, <1>3, <1>7 DEF Push, Depth
  <2>2. StackOK'
    BY <2>1 DEF OInv, Order, StackOK
  <2> QED BY <1>5, <1>6, <2>2 DEF Order
<1>8. CASE Mine(w)
  <2>1. stack' = Push(stack, "none", <<"write", "written">>, w, TRUE)
    BY <1>2, <1>8
  <2>2. <<"write", "written">> \in ToWrite /\ ~OfDone(<<"write", "written">>)
    BY TwoToDo DEF ToWrite, OfDone
  <2>3. Serves(w, FALSE)'
    <3>1. Using(w)' /\ Workers' = Workers
      BY <1>2, <1>3, <1>4, FewerTasks DEF Unmoved
    <3> QED BY <1>2, <1>3, <1>8, <3>1 DEF Serves, Mine, Using
  <2>4. ASSUME NEW c, Same(c, "none", <<"write", "written">>, w, TRUE)
        PROVE  Known(c) /\ (Depth > 0 => Over(Top, c)) /\ Relies(c)'
    <3>1. Writing(c) /\ c.w = w /\ OfDone(c.todo) = FALSE
      BY <2>2, <2>4 DEF Same, Writing
    <3>2. Serves(c.w, OfDone(c.todo))'
      BY <2>3, <3>1
    <3>3. Current(c)'
      BY <1>2, <1>3, <1>8, <3>1, <3>2, Alone DEF Current
    <3>4. Known(c) /\ Relies(c)'
      BY <3>1, <3>3, Alone DEF Known, Relies
    <3> QED BY <1>3, <3>4
  <2>5. StackOK'
    BY <1>3, <2>1, <2>2, <2>4, EntersWith, Lists, Firsts
  <2> QED BY <1>5, <1>6, <2>5 DEF Order
<1> QED BY <1>7, <1>8

(* The transfer has nothing to report any more; its handle is cleaned up.   *)
LEMMA DoneTaskOrder ==
  ASSUME OInv, NoDialogs, DoneTask
  PROVE  Order'
<1>1. PICK w : w = Head(tasks).w
  OBVIOUS
<1>2. /\ Dispatch("done") /\ live' = live \ {workers[w].addr}
      /\ stack' = Push(stack, "none", (IF Mine(w) THEN <<"write">> ELSE <<>>)
                                        \o <<"finish", "unref">>, w, TRUE)
      /\ state' = state /\ curl' = curl /\ send' = send /\ async' = async /\ body' = body
      /\ request' = request /\ workers' = workers
  BY <1>1 DEF DoneTask, Enter, counts
<1>3. /\ Depth = 0 /\ w \in Workers /\ w \in 0 .. MaxSends /\ Using(w)
      /\ workers[w].thread # "starting" /\ tasks # <<>> /\ tasks' = Tail(tasks)
      /\ Head(tasks).kind = "done"
      /\ Mine(w) => send /\ workers[w].request = request /\ state \in {"OPENED", "LOADING"}
      /\ \A k \in 1 .. Len(tasks') : tasks'[k].kind = "header" => tasks'[k].w # w
  BY <1>1, <1>2, HeadFacts
<1>4. PICK q, p, ws : q = tasks /\ p = tasks' /\ ws = workers
  OBVIOUS
<1>5. q \in Seq(Task) /\ q # <<>> /\ QueueOK(q, ws) /\ Headed(q, ws) /\ p = Tail(q)
  BY <1>3, <1>4 DEF OInv, Inv, Typed, Order, HeaderOK
<1>6. Reporting(p, ws) = Reporting(q, ws) \ {w}
  BY <1>1, <1>3, <1>4, <1>5, Taken
<1>7. (\A v : Using(v)' <=> Using(v) /\ v # w) /\ Workers' = Workers
  BY <1>2, <1>4, <1>6 DEF Using, Workers
<1>8. Headed(p, ws) /\ \A k \in 1 .. Len(p) : \E m \in 1 .. Len(q) : p[k] = q[m]
  BY <1>5, HeadedRest
<1>9. HeaderOK'
  <2>1. Headed(tasks, workers)'
    BY <1>2, <1>4, <1>8
  <2>2. \A k \in 1 .. Len(tasks') : \E m \in 1 .. Len(tasks) : tasks'[k] = tasks[m]
    BY <1>4, <1>8
  <2> QED BY <1>2, <1>7, <2>1, <2>2 DEF OInv, Order, HeaderOK, Mine
<1>10. StateOK'
  BY <1>2, <1>3, <1>7 DEF OInv, Order, StateOK
<1>11. ~Dangling
  BY <1>3 DEF Dangling
<1>12. \A v \in Workers : Using(v) /\ v # w => workers[v].addr \in live'
  BY <1>2, <1>3 DEF OInv, Order, HandleOK
<1>13. \A v : Mine(v)' <=> Mine(v)
  BY <1>2 DEF Mine
<1>14. /\ live' \subseteq Addrs
       /\ \A v, u \in Workers : Using(v) /\ Using(u) /\ workers[v].addr = workers[u].addr => v = u
       /\ \A v \in Workers : Using(v) /\ Mine(v) => send /\ workers[v].request = request
       /\ \A a \in live' : a = curl \/ \E v \in Workers : Using(v) /\ v # w /\ workers[v].addr = a
  BY <1>2 DEF OInv, Order, HandleOK
<1>15. CASE ~Mine(w)
  <2>1. <<>> \o <<"finish", "unref">> = ToFinish /\ OfDone(ToFinish) /\ ToFinish \in ToEnd
    <3>1. PICK s : s = <<"finish", "unref">>
      OBVIOUS
    <3>2. s \in Seq(Labels)
      BY <3>1, Lists DEF ToEnd, ToFinish
    <3>3. <<>> \o s = s
      BY <3>2, ConcatEmptySeq
    <3> QED BY <3>1, <3>3, Ends DEF ToFinish, ToEnd
  <2>2. stack' = Push(stack, "none", ToFinish, w, TRUE)
    BY <1>2, <1>15, <2>1
  <2>3. ASSUME NEW c, Same(c, "none", ToFinish, w, TRUE)
        PROVE  Known(c) /\ (Depth > 0 => Over(Top, c)) /\ Relies(c)'
    <3>1. EndingNow(c) /\ c.w = w /\ OfDone(c.todo)
      BY <2>1, <2>3 DEF Same, EndingNow
    <3>2. Stale(c)'
      BY <1>2, <1>3, <1>7, <1>15, <3>1 DEF Stale, Mine
    <3>3. Known(c) /\ Relies(c)'
      BY <3>1, <3>2, Alone DEF Known, Relies
    <3> QED BY <1>3, <3>3
  <2>4. StackOK'
    BY <1>3, <2>1, <2>2, <2>3, EntersWith, Lists, Ends
  <2>5. HandleOK'
    <3>1. curl \in live' \cup {NoHandle}
      BY <1>2, <1>11, <1>15 DEF OInv, Order, HandleOK, Mine
    <3>2. send => \E v \in Workers : Using(v) /\ v # w /\ Mine(v)
      BY <1>11, <1>15 DEF OInv, Order, HandleOK
    <3> QED BY <1>2, <1>7, <1>12, <1>13, <1>14, <3>1, <3>2 DEF HandleOK
  <2> QED BY <1>9, <1>10, <2>4, <2>5 DEF Order
<1>16. CASE Mine(w)
  <2>1. stack' = Push(stack, "none", <<"write">> \o ToFinish, w, TRUE)
    BY <1>2, <1>16 DEF ToFinish
  <2>2. <<"write">> \o ToFinish \in ToWrite /\ OfDone(<<"write">> \o ToFinish)
    <3>1. ToFinish \in Seq(Labels) /\ ToFinish # <<>> /\ "write" \in Labels
      BY Ends DEF ToEnd, Labels
    <3> QED BY <3>1, Before, Ends DEF ToWrite
  <2>3. Serves(w, TRUE)'
    BY <1>2, <1>3, <1>7, <1>16 DEF Serves, Mine
  <2>4. ASSUME NEW c, Same(c, "none", <<"write">> \o ToFinish, w, TRUE)
        PROVE  /\ Known(c) /\ (Depth > 0 => Over(Top, c)) /\ Relies(c)'
               /\ Working(c) /\ OfDone(c.todo) /\ Current(c)'
    <3>1. Writing(c) /\ c.w = w /\ OfDone(c.todo) = TRUE
      <4>1. c.event = "none" /\ c.todo = <<"write">> \o ToFinish /\ c.w = w
        BY <2>4 DEF Same
      <4>2. OfDone(c.todo)
        BY <2>2, <4>1
      <4>3. OfDone(c.todo) = TRUE
        BY <4>2 DEF OfDone
      <4> QED BY <2>2, <4>1, <4>3 DEF Writing
    <3>2. Serves(c.w, OfDone(c.todo))'
      BY <2>3, <3>1
    <3>3. Current(c)'
      BY <1>2, <1>3, <1>16, <3>1, <3>2, Alone DEF Current
    <3>4. Known(c) /\ Relies(c)' /\ Working(c)
      BY <3>1, <3>3, Alone DEF Known, Relies
    <3> QED BY <1>3, <3>1, <3>3, <3>4
  <2>5. StackOK' /\ (Depth > 0)' /\ Same(Top', "none", <<"write">> \o ToFinish, w, TRUE)
    BY <1>3, <2>1, <2>2, <2>4, EntersWith, Lists, Firsts
  <2>6. Dangling'
    <3>1. PICK c : c = Top'
      OBVIOUS
    <3>2. Working(c) /\ OfDone(c.todo) /\ Current(c)'
      BY <2>4, <2>5, <3>1
    <3>3. (Current(c)' <=> Current(Top)') /\ (Working(c) <=> Working(Top)')
          /\ (OfDone(c.todo) <=> OfDone(Top.todo)')
      BY <3>1
    <3> QED BY <2>5, <3>2, <3>3 DEF Dangling
  <2>7. HandleOK'
    BY <1>2, <1>7, <1>12, <1>13, <1>14, <2>6 DEF HandleOK
  <2> QED BY <1>9, <1>10, <2>5, <2>7 DEF Order
<1> QED BY <1>15, <1>16

-----------------------------------------------------------------------------
(* WriteBody and the end of a transfer. *)
Untouched ==
  /\ curl' = curl /\ send' = send /\ async' = async /\ request' = request
  /\ live' = live /\ workers' = workers /\ tasks' = tasks

(* No header of the current request is left when its body is being written. *)
LEMMA NoHeaderLeft ==
  ASSUME OInv, NEW w, NEW past, Serves(w, past)
  PROVE  /\ \A k \in 1 .. Len(tasks) : ~(tasks[k].kind = "header" /\ Mine(tasks[k].w))
         /\ \A v \in Workers : ~(workers[v].thread = "starting" /\ Mine(v))
<1>1. /\ w \in Workers /\ curl = workers[w].addr
      /\ \A k \in 1 .. Len(tasks) : tasks[k].kind = "header" => tasks[k].w # w
      /\ workers[w].thread # "starting"
      /\ past => curl \notin live
      /\ ~past => Using(w)
  BY DEF Serves, Using
<1>2. ASSUME NEW v \in Workers, Using(v), Mine(v) PROVE v = w
  <2>1. curl \in live
    BY <1>2, HandlesOf DEF Mine
  <2>2. Using(w)
    BY <1>1, <2>1
  <2> QED BY <1>1, <1>2, <2>2 DEF OInv, Order, HandleOK, Mine
<1>3. ASSUME NEW k \in 1 .. Len(tasks), tasks[k].kind = "header", Mine(tasks[k].w)
      PROVE  FALSE
  <2>1. tasks[k].w \in Workers /\ Using(tasks[k].w)
    BY Users
  <2>2. tasks[k].w = w
    BY <1>2, <1>3, <2>1
  <2> QED BY <1>1, <1>3, <2>2
<1>4. ASSUME NEW v \in Workers, workers[v].thread = "starting", Mine(v)
      PROVE  FALSE
  <2>1. Using(v)
    BY <1>4, Users
  <2>2. v = w
    BY <1>2, <1>4, <2>1
  <2> QED BY <1>1, <1>4, <2>2
<1> QED BY <1>3, <1>4

(* A task at work goes on, for the current request or in vain. *)
LEMMA WorkGoesOn ==
  ASSUME OInv, Depth > 0, Working(Top), Untouched,
         NEW ev \in Event, NEW t \in Seq(Labels), NEW wrote \in BOOLEAN, t # <<>>,
         stack' = Push(Below, ev, t, Top.w, wrote),
         OfDone(t) <=> OfDone(Top.todo),
         state' \in States, body' \subseteq {request},
         \A c : Same(c, ev, t, Top.w, wrote) => Working(c) /\ ~Writing(c),
         \/ Quiet /\ Quiet'
         \/ /\ Current(Top) /\ state' \in {"HEADERS_RECEIVED", "LOADING"}
            /\ \A c : Same(c, ev, t, Top.w, wrote) =>
                 /\ LoadingNow(c) => state' = "HEADERS_RECEIVED"
                 /\ Storing(c) \/ EndingNow(c) => state' = "LOADING"
                 /\ state' = "HEADERS_RECEIVED" => LoadingNow(c)
  PROVE  Order'
<1>0. Current(Top) => ~Quiet
  BY DEF Current, Serves, Quiet, Settled
<1>1. /\ Top.w \in 0 .. MaxSends /\ Top.wrote \in BOOLEAN
      /\ \A f : ~Over(f, Top)
  BY WorkFacts
<1>2. Unmoved /\ tasks' = tasks
  BY DEF Unmoved, Untouched, Fewer
<1>3. PICK w, past : w = Top.w /\ past = OfDone(Top.todo)
  OBVIOUS
<1>4. Current(Top) => Serves(w, past) /\ Serves(w, past)'
  BY <1>2, <1>3, ServesOn DEF Current
<1>5. ASSUME NEW c, Same(c, ev, t, Top.w, wrote), Current(Top), ~Quiet PROVE Current(c)'
  <2>1. c.w = w /\ OfDone(c.todo) = past
    <3>1. c.w = w /\ c.todo = t
      BY <1>3, <1>5 DEF Same
    <3>2. OfDone(t) = OfDone(Top.todo)
      BY DEF OfDone
    <3> QED BY <1>3, <3>1, <3>2
  <2>2. Serves(c.w, OfDone(c.todo))'
    BY <1>4, <1>5, <2>1
  <2> QED BY <1>5, <2>2 DEF Current
<1>6. ASSUME NEW c, Same(c, ev, t, Top.w, wrote)
      PROVE  Known(c) /\ (\A f : Over(f, Top) => Over(f, c)) /\ Relies(c)'
  <2>1. Known(c) /\ Working(c) /\ ~Writing(c)
    BY <1>6 DEF Known
  <2>2. ~Aborting(c) /\ ~Opening(c) /\ ~Opened(c) /\ ~Sending(c) /\ ~Refusing(c)
    BY <2>1, Alone
  <2>3. Quiet' \/ Current(c)'
    BY <1>0, <1>5, <1>6
  <2> QED BY <1>1, <2>1, <2>2, <2>3 DEF Relies
<1>7. StackOK' /\ Depth' = Depth /\ Same(Top', ev, t, Top.w, wrote)
  BY <1>6, GoesOnWith
<1>8. PICK c : c = Top'
  OBVIOUS
<1>9. /\ (Current(c)' <=> Current(Top)') /\ (Working(c) <=> Working(Top)')
      /\ (OfDone(c.todo) <=> OfDone(Top.todo)') /\ (LoadingNow(c) <=> LoadingNow(Top)')
  BY <1>8
<1>10. Same(c, ev, t, Top.w, wrote) /\ Working(c)
  BY <1>7, <1>8
<1>11. CASE Quiet /\ Quiet'
  <2>1. ~Dangling
    BY <1>11 DEF Dangling, Current, Serves, Quiet, Settled
  <2>2. HandleOK'
    BY <1>2, <2>1, HandlesKept
  <2>3. HeaderOK'
    BY <1>2, <1>11, HandlesOf, HeadersKept DEF Unmoved, Quiet, Settled
  <2>4. StateOK'
    BY <1>11 DEF OInv, Order, StateOK, Quiet, Settled, Workers, Untouched
  <2> QED BY <1>7, <2>2, <2>3, <2>4 DEF Order
<1>12. CASE ~Quiet
  <2>1. /\ Current(Top) /\ state' \in {"HEADERS_RECEIVED", "LOADING"}
        /\ state' = "HEADERS_RECEIVED" => LoadingNow(c)
    BY <1>10, <1>12
  <2>2. Current(c)' /\ send
    BY <1>4, <1>5, <1>10, <1>12, <2>1 DEF Serves
  <2>3. OfDone(c.todo) <=> OfDone(Top.todo)
    BY <1>10 DEF Same
  <2>4. HandleOK'
    BY <1>2, <1>7, <1>9, <1>10, <2>2, <2>3, HandlesKept DEF Dangling
  <2>5. HeaderOK'
    <3>1. /\ \A k \in 1 .. Len(tasks) : ~(tasks[k].kind = "header" /\ Mine(tasks[k].w))
          /\ \A v \in Workers : ~(workers[v].thread = "starting" /\ Mine(v))
      BY <1>4, <2>1, NoHeaderLeft
    <3> QED BY <3>1 DEF OInv, Order, HeaderOK, Mine, Untouched, Workers
  <2>6. StateOK'
    BY <1>7, <1>9, <2>1, <2>2 DEF OInv, Order, StateOK, Workers, Untouched
  <2> QED BY <1>7, <2>4, <2>5, <2>6 DEF Order
<1> QED BY <1>0, <1>11, <1>12

(* What StoreBody and WriteFails do. *)
LEMMA StoreFacts ==
  ASSUME OInv, Depth > 0, Working(Top), StoreBody \/ WriteFails,
         StoreBody => Current(Top), Tail(Top.todo) = Rest
  PROVE  /\ \E wrote \in BOOLEAN : stack' = Push(Below, "none", Rest, Top.w, wrote)
         /\ body' \subseteq {request} /\ (WriteFails => body' = body) /\ state' = state
<1>1. body \subseteq {request}
  BY DEF OInv, Order, StateOK
<1>2. CASE StoreBody
  <2>1. workers[Top.w].request = request
    BY <1>2 DEF Current, Serves
  <2> QED BY <1>1, <1>2, <2>1 DEF StoreBody, WriteFails
<1>3. CASE WriteFails
  BY <1>1, <1>3 DEF WriteFails
<1> QED BY <1>2, <1>3

LEMMA StoresOrder ==
  ASSUME OInv, Depth > 0, Untouched, StoreBody \/ WriteFails,
         Writing(Top) \/ LoadingNow(Top) \/ Storing(Top),
         \/ Current(Top) /\ state = "LOADING"
         \/ Quiet /\ WriteFails
  PROVE  Order'
<1>1. Working(Top)
  BY DEF Working
<1>2. Rest \in ToEnd /\ (OfDone(Rest) <=> OfDone(Top.todo))
  BY Rests DEF Writing, LoadingNow, Storing, Rest
<1>3. /\ \E wrote \in BOOLEAN : stack' = Push(Below, "none", Rest, Top.w, wrote)
      /\ body' \subseteq {request} /\ (WriteFails => body' = body) /\ state' = state
  <2>1. CASE WriteFails
    BY <1>1, <2>1 DEF WriteFails, OInv, Order, StateOK
  <2>2. CASE StoreBody /\ ~WriteFails
    BY <1>1, <2>2, StoreFacts DEF Rest
  <2> QED BY <2>1, <2>2
<1>4. PICK wrote \in BOOLEAN : stack' = Push(Below, "none", Rest, Top.w, wrote)
  BY <1>3
<1>5. PICK t : t = Rest
  OBVIOUS
<1>6. t \in Seq(Labels) /\ t # <<>> /\ t \in ToEnd
  BY <1>2, <1>5, Ends
<1>7. ASSUME NEW c, Same(c, "none", t, Top.w, wrote)
      PROVE  EndingNow(c) /\ Working(c) /\ ~Writing(c) /\ ~LoadingNow(c)
  <2>1. EndingNow(c)
    BY <1>6, <1>7 DEF Same, EndingNow
  <2> QED BY <2>1, Alone
<1>8. state \in States
  BY DEF OInv, Order, StateOK
<1>9. \/ Quiet /\ Quiet'
      \/ Current(Top) /\ state' = "LOADING"
  BY <1>3 DEF Quiet, Settled, Untouched
<1>10. "none" \in Event
  BY Lists
<1>11. stack' = Push(Below, "none", t, Top.w, wrote) /\ (OfDone(t) <=> OfDone(Top.todo))
  BY <1>2, <1>4, <1>5
<1>12. state' \in States /\ body' \subseteq {request}
  BY <1>3, <1>8
<1> QED BY <1>1, <1>6, <1>7, <1>9, <1>10, <1>11, <1>12, WorkGoesOn

LEMMA WriteOrder ==
  ASSUME OInv, Write
  PROVE  Order'
<1>1. Step("write") /\ Untouched
  BY DEF Write, Untouched, counts
<1>2. Depth > 0 /\ Writing(Top)
  BY <1>1, RestOfTop
<1>3. Working(Top) /\ ~EndingNow(Top)
  BY <1>2, Alone
<1>4. Current(Top) /\ state \in {"OPENED", "LOADING"}
  BY <1>2, <1>3, WorkFacts DEF Stale, Current
<1>5. CASE state = "LOADING"
  <2>1. StoreBody
    BY <1>5 DEF Write
  <2> QED BY <1>1, <1>2, <1>4, <1>5, <2>1, StoresOrder
<1>6. CASE state = "OPENED"
  <2>1. /\ state' = "HEADERS_RECEIVED" /\ body' = body
        /\ stack' = Push(Below, "HEADERS_RECEIVED", <<"loading">> \o Rest, Top.w, Top.wrote)
    BY <1>6 DEF Write, ChangeState, Continue
  <2>2. PICK t : t = <<"loading">> \o Rest
    OBVIOUS
  <2>3. t \in ToLoad /\ (OfDone(t) <=> OfDone(Top.todo))
    BY <1>2, <2>2, Rests DEF Writing, Rest
  <2>4. t \in Seq(Labels) /\ t # <<>>
    BY <2>3, Lists, Firsts
  <2>5. ASSUME NEW c, Same(c, "HEADERS_RECEIVED", t, Top.w, Top.wrote)
        PROVE  /\ LoadingNow(c) /\ Working(c) /\ ~Writing(c) /\ ~Storing(c) /\ ~EndingNow(c)
    <3>1. LoadingNow(c)
      BY <2>3, <2>5 DEF Same, LoadingNow
    <3> QED BY <3>1, Alone
  <2>6. PICK wrote \in BOOLEAN : wrote = Top.wrote
    BY <1>2, TopOf
  <2>7. "HEADERS_RECEIVED" \in Event /\ "HEADERS_RECEIVED" \in States
    BY Lists DEF States
  <2>8. body \subseteq {request}
    BY DEF OInv, Order, StateOK
  <2>9. stack' = Push(Below, "HEADERS_RECEIVED", t, Top.w, wrote)
    BY <2>1, <2>2, <2>6
  <2>10. body' \subseteq {request} /\ state' \in States
    BY <2>1, <2>7, <2>8
  <2>11. \A c : Same(c, "HEADERS_RECEIVED", t, Top.w, wrote) =>
                  LoadingNow(c) /\ Working(c) /\ ~Writing(c) /\ ~Storing(c) /\ ~EndingNow(c)
    BY <2>5, <2>6
  <2> QED BY <1>1, <1>2, <1>3, <1>4, <2>1, <2>3, <2>4, <2>7, <2>9, <2>10, <2>11, WorkGoesOn
<1> QED BY <1>4, <1>5, <1>6

LEMMA LoadingOrder ==
  ASSUME OInv, Loading
  PROVE  Order'
<1>1. Step("loading") /\ Untouched
  BY DEF Loading, Untouched, counts
<1>2. Depth > 0 /\ LoadingNow(Top)
  BY <1>1, RestOfTop
<1>3. Working(Top) /\ ~EndingNow(Top)
  BY <1>2, Alone
<1>4. CASE state # "HEADERS_RECEIVED"
  <2>1. WriteFails
    BY <1>4 DEF Loading
  <2>2. Quiet
    BY <1>2, <1>3, <1>4, WorkFacts DEF Stale, Current
  <2> QED BY <1>1, <1>2, <2>1, <2>2, StoresOrder
<1>5. CASE state = "HEADERS_RECEIVED"
  <2>1. /\ state' = "LOADING" /\ body' = body
        /\ stack' = Push(Below, "LOADING", <<"loaded">> \o Rest, Top.w, Top.wrote)
    BY <1>5 DEF Loading, ChangeState, Continue
  <2>2. PICK t : t = <<"loaded">> \o Rest
    OBVIOUS
  <2>3. t \in ToStore /\ (OfDone(t) <=> OfDone(Top.todo))
    BY <1>2, <2>2, Rests DEF LoadingNow, Rest
  <2>4. t \in Seq(Labels) /\ t # <<>>
    BY <2>3, Lists, Firsts
  <2>5. ASSUME NEW c, Same(c, "LOADING", t, Top.w, Top.wrote)
        PROVE  /\ Storing(c) /\ Working(c) /\ ~Writing(c) /\ ~LoadingNow(c)
    <3>1. Storing(c)
      BY <2>3, <2>5 DEF Same, Storing
    <3> QED BY <3>1, Alone
  <2>6. PICK wrote \in BOOLEAN : wrote = Top.wrote
    BY <1>2, TopOf
  <2>7. "LOADING" \in Event /\ "LOADING" \in States
    BY Lists DEF States
  <2>8. Current(Top) /\ body \subseteq {request}
    BY <1>5 DEF OInv, Order, StateOK
  <2>9. stack' = Push(Below, "LOADING", t, Top.w, wrote)
    BY <2>1, <2>2, <2>6
  <2>10. body' \subseteq {request} /\ state' \in States
    BY <2>1, <2>7, <2>8
  <2>11. \A c : Same(c, "LOADING", t, Top.w, wrote) =>
                  Storing(c) /\ Working(c) /\ ~Writing(c) /\ ~LoadingNow(c)
    BY <2>5, <2>6
  <2> QED BY <1>1, <1>2, <1>3, <2>1, <2>3, <2>4, <2>7, <2>8, <2>9, <2>10, <2>11, WorkGoesOn
<1> QED BY <1>4, <1>5

LEMMA LoadedOrder ==
  ASSUME OInv, Loaded
  PROVE  Order'
<1>1. Step("loaded") /\ Untouched
  BY DEF Loaded, Untouched, counts
<1>2. Depth > 0 /\ Storing(Top)
  BY <1>1, RestOfTop
<1>3. Working(Top) /\ ~EndingNow(Top)
  BY <1>2, Alone
<1>4. Quiet \/ (Current(Top) /\ state = "LOADING")
  BY <1>2, <1>3, WorkFacts DEF Stale, Current
<1>5. Quiet => state # "LOADING"
  BY DEF Quiet, Settled
<1>6. (state = "LOADING" => StoreBody) /\ (state # "LOADING" => WriteFails)
  BY DEF Loaded
<1> QED BY <1>1, <1>2, <1>4, <1>5, <1>6, StoresOrder

-----------------------------------------------------------------------------
(* A transfer's task ends its request. *)
LEMMA DoneFacts ==
  ASSUME OInv, Depth > 0, EndingNow(Top), NEW succeeded, Done(succeeded),
         Quiet \/ Current(Top), request' = request, workers' = workers, tasks' = tasks
  PROVE  StateOK' /\ HandleOK' /\ HeaderOK'
<1>1. Release /\ body' \subseteq body
  BY DEF Done
<1>2. body \subseteq {request}
  BY DEF OInv, Order, StateOK
<1>3. state' \in {"DONE", "UNSENT"}
  BY DEF Done, Active, Quiet, Settled, Current
<1> QED BY <1>1, <1>2, <1>3, Released DEF Fewer

LEMMA EndsWith ==
  ASSUME OInv, Depth > 0, Working(Top), NEW ev \in {"DONE", "none"}, NEW t \in {<<>>, ToLeave},
         NEW wrote \in BOOLEAN, stack' = Push(Below, ev, t, Top.w, wrote)
  PROVE  StackOK'
<1>1. /\ Top.w \in 0 .. MaxSends /\ \A f : ~Over(f, Top)
      /\ ~Aborting(Top) /\ ~Opening(Top) /\ ~Opened(Top)
  BY WorkFacts
<1>2. CASE ev = "none" /\ t = <<>>
  BY <1>1, <1>2, ReturnsTo
<1>3. CASE ~(ev = "none" /\ t = <<>>)
  <2>1. ASSUME NEW c, Same(c, ev, t, Top.w, wrote)
        PROVE  Known(c) /\ (\A f : Over(f, Top) => Over(f, c)) /\ Relies(c)'
    <3>1. Telling(c) \/ Leaving(c)
      BY <1>3, <2>1 DEF Same, Telling, Leaving
    <3>2. Known(c) /\ Relies(c)'
      BY <3>1, Alone DEF Known, Relies
    <3> QED BY <1>1, <3>2
  <2>2. ev \in Event /\ t \in Seq(Labels)
    BY Lists
  <2> QED BY <1>3, <2>1, <2>2, GoesOnWith
<1> QED BY <1>2, <1>3

LEMMA WrittenOrder ==
  ASSUME OInv, Written
  PROVE  Order'
<1>1. Step("written") /\ request' = request /\ async' = async /\ workers' = workers /\ tasks' = tasks
  BY DEF Written, counts
<1>2. Depth > 0 /\ EndingNow(Top) /\ Top.todo = ToTell /\ Rest = <<>>
  BY <1>1, RestOfTop
<1>3. /\ Working(Top) /\ ~LoadingNow(Top) /\ ~OfDone(Top.todo)
      /\ Top.wrote \in BOOLEAN
  BY <1>2, Alone, Ends, TopOf
<1>4. Quiet \/ Current(Top)
  BY <1>2, <1>3, WorkFacts DEF Stale
<1>5. CASE Top.wrote
  <2>1. /\ stack' = Push(Below, "none", Rest, Top.w, Top.wrote)
        /\ state' = state /\ curl' = curl /\ send' = send /\ body' = body /\ live' = live
    BY <1>5 DEF Written, Continue
  <2>2. Unmoved /\ ~Dangling
    BY <1>1, <1>3, <2>1 DEF Unmoved, Fewer, Dangling
  <2>3. HandleOK' /\ HeaderOK'
    BY <1>1, <2>1, <2>2, HandlesKept, HeadersKept DEF Unmoved
  <2>4. StateOK'
    BY <1>1, <1>3, <2>1 DEF OInv, Order, StateOK, Workers
  <2>5. StackOK'
    BY <1>2, <1>3, <2>1, EndsWith
  <2> QED BY <2>3, <2>4, <2>5 DEF Order
<1>6. CASE ~Top.wrote
  <2>1. Done(FALSE) /\ stack' = Push(Below, DoneEvent, Rest, Top.w, Top.wrote)
    BY <1>6 DEF Written, Continue
  <2>2. StateOK' /\ HandleOK' /\ HeaderOK'
    BY <1>1, <1>2, <1>4, <2>1, DoneFacts
  <2>3. DoneEvent \in {"DONE", "none"}
    BY DEF DoneEvent
  <2>4. StackOK'
    BY <1>2, <1>3, <2>1, <2>3, EndsWith
  <2> QED BY <2>2, <2>4 DEF Order
<1> QED BY <1>5, <1>6

LEMMA FinishOrder ==
  ASSUME OInv, Finish
  PROVE  Order'
<1>1. Step("finish") /\ request' = request /\ async' = async /\ workers' = workers /\ tasks' = tasks
  BY DEF Finish, counts
<1>2. Depth > 0 /\ EndingNow(Top) /\ Rest = ToLeave
  BY <1>1, RestOfTop
<1>3. Working(Top) /\ ~LoadingNow(Top) /\ Top.wrote \in BOOLEAN
  BY <1>2, Alone, TopOf
<1>4. Quiet \/ Current(Top) \/ Stale(Top)
  BY <1>2, <1>3, WorkFacts
<1>5. Top.w \in Workers => workers[Top.w].async
  BY DEF OInv, Order, StateOK
<1>6. CASE /\ stack' = Push(Below, "none", Rest, Top.w, Top.wrote)
           /\ state' = state /\ curl' = curl /\ send' = send /\ body' = body /\ live' = live
           /\ ~(workers[Top.w].async => Mine(Top.w))
  <2>1. Unmoved /\ ~Dangling
    BY <1>1, <1>6 DEF Unmoved, Fewer, Dangling, Current, Serves, Mine
  <2>2. HandleOK' /\ HeaderOK'
    BY <1>1, <1>6, <2>1, HandlesKept, HeadersKept DEF Unmoved
  <2>3. StateOK'
    BY <1>1, <1>3, <1>6 DEF OInv, Order, StateOK, Workers
  <2>4. StackOK'
    BY <1>2, <1>3, <1>6, EndsWith
  <2> QED BY <2>2, <2>3, <2>4 DEF Order
<1>7. CASE /\ Done(workers[Top.w].succeeded)
           /\ stack' = Push(Below, DoneEvent, Rest, Top.w, Top.wrote)
           /\ workers[Top.w].async => Mine(Top.w)
  <2>1. Quiet \/ Current(Top)
    BY <1>4, <1>5, <1>7 DEF Stale, Mine
  <2>2. StateOK' /\ HandleOK' /\ HeaderOK'
    BY <1>1, <1>2, <1>7, <2>1, DoneFacts
  <2>3. DoneEvent \in {"DONE", "none"}
    BY DEF DoneEvent
  <2>4. StackOK'
    BY <1>2, <1>3, <1>7, <2>3, EndsWith
  <2> QED BY <2>2, <2>4 DEF Order
<1> QED BY <1>6, <1>7 DEF Finish, Continue

LEMMA UnrefInDoneTaskOrder ==
  ASSUME OInv, UnrefInDoneTask
  PROVE  Order'
<1>1. /\ Step("unref") /\ Unref /\ request' = request /\ async' = async
      /\ workers' = workers /\ tasks' = tasks
      /\ stack' = Push(Below, "none", Rest, Top.w, Top.wrote)
  BY DEF UnrefInDoneTask, Continue
<1>2. Depth > 0 /\ Leaving(Top) /\ Rest = <<>>
  BY <1>1, RestOfTop
<1>3. ~Working(Top) /\ ~Aborting(Top) /\ ~Opened(Top) /\ ~Opening(Top) /\ ~LoadingNow(Top)
  BY <1>2, Alone
<1>4. StackOK'
  BY <1>1, <1>2, <1>3, ReturnsTo
<1>5. CASE UNCHANGED <<state, curl, send, body, live>>
  <2>1. Unmoved /\ ~Dangling
    BY <1>1, <1>3, <1>5 DEF Unmoved, Fewer, Dangling
  <2>2. HandleOK' /\ HeaderOK'
    BY <1>1, <1>5, <2>1, HandlesKept, HeadersKept DEF Unmoved
  <2>3. StateOK'
    BY <1>1, <1>3, <1>5 DEF OInv, Order, StateOK, Workers
  <2> QED BY <1>4, <2>2, <2>3 DEF Order
<1> QED BY <1>1, <1>4, <1>5, UnrefOrder DEF Order

-----------------------------------------------------------------------------
(* The worker threads. *)

(* Transfer w goes on: its context keeps what it says of the request, and at *)
(* most one task is posted, a header only by a transfer that has just begun. *)
Moves(w) ==
  /\ w \in Workers /\ Workers' = Workers
  /\ \A v \in Workers : /\ workers'[v].addr = workers[v].addr
                        /\ workers'[v].request = workers[v].request
                        /\ workers'[v].async = workers[v].async
                        /\ v # w => workers'[v].thread = workers[v].thread
  /\ workers'[w].thread # "starting"
  /\ \/ tasks' = tasks
     \/ \E task \in Task :
          /\ tasks' = Append(tasks, task) /\ task.w = w
          /\ task.kind = "header" => workers[w].thread = "starting" /\ Mine(w)
  /\ Reporting(tasks', workers') = Reporting(tasks, workers)
  /\ UNCHANGED <<state, curl, send, async, body, request, live, stack>>

LEMMA ReceiveMoves ==
  ASSUME OInv, NEW w \in Workers,
         WriteHeaderCallback(w) \/ WriteBodyCallback(w) \/ TrailerCallback(w)
  PROVE  Moves(w)
<1>1. /\ workers[w] \in Worker /\ w \in 1 .. Len(workers) /\ w \in 1 .. MaxSends
      /\ workers \in Seq(Worker)
  BY ContextOf DEF OInv, Inv, Typed
<1>2. Reporting(tasks', workers') = Reporting(tasks, workers)
  BY ReceiveKeeps DEF OInv
<1>3. PICK kind \in {"header", "body", "trailer"} :
        Receive(w, kind) /\ (kind = "header" => workers[w].thread = "starting")
  BY DEF WriteHeaderCallback, WriteBodyCallback, TrailerCallback
<1>4. UNCHANGED <<state, curl, send, async, body, request, live, stack>>
  BY <1>3 DEF Receive, counts
<1>5. PICK c : /\ c.addr = workers[w].addr /\ c.request = workers[w].request
               /\ c.async = workers[w].async /\ c.thread # "starting"
               /\ workers' = [workers EXCEPT ![w] = c]
  <2>1. CASE Mine(w)
    <3> DEFINE c == [workers[w] EXCEPT !.thread = "receiving",
                                       !.pieces = IF kind = "header" THEN @ ELSE @ + 1]
    <3>1. workers' = [workers EXCEPT ![w] = c]
      BY <1>3, <2>1 DEF Receive
    <3>2. /\ c.addr = workers[w].addr /\ c.request = workers[w].request
          /\ c.async = workers[w].async /\ c.thread # "starting"
      BY <1>1 DEF Worker
    <3> QED BY <3>1, <3>2
  <2>2. CASE ~Mine(w)
    <3> DEFINE c == [workers[w] EXCEPT !.thread = "failing"]
    <3>1. workers' = [workers EXCEPT ![w] = c]
      BY <1>3, <2>2 DEF Receive
    <3>2. /\ c.addr = workers[w].addr /\ c.request = workers[w].request
          /\ c.async = workers[w].async /\ c.thread # "starting"
      BY <1>1 DEF Worker
    <3> QED BY <3>1, <3>2
  <2> QED BY <2>1, <2>2
<1>6. /\ Len(workers') = Len(workers) /\ workers'[w] = c
      /\ \A v \in 1 .. Len(workers) : v # w => workers'[v] = workers[v]
  BY <1>1, <1>5
<1>7. CASE tasks' = tasks
  BY <1>2, <1>4, <1>5, <1>6, <1>7 DEF Moves, Workers
<1>8. CASE tasks' = Append(tasks, [kind |-> kind, w |-> w]) /\ Mine(w)
  <2> DEFINE task == [kind |-> kind, w |-> w]
  <2>1. /\ task \in Task /\ task.w = w
        /\ task.kind = "header" => workers[w].thread = "starting" /\ Mine(w)
    BY <1>1, <1>3, <1>8 DEF Task
  <2>2. tasks' = Append(tasks, task)
    BY <1>8
  <2> HIDE DEF task
  <2> QED BY <1>2, <1>4, <1>5, <1>6, <2>1, <2>2 DEF Moves, Workers
<1> QED BY <1>3, <1>7, <1>8 DEF Receive

LEMMA WorkerDoneMoves ==
  ASSUME OInv, NEW w \in Workers, WorkerDone(w)
  PROVE  Moves(w)
<1>1. /\ workers[w] \in Worker /\ w \in 1 .. Len(workers) /\ w \in 1 .. MaxSends
      /\ workers \in Seq(Worker)
  BY ContextOf DEF OInv, Inv, Typed
<1>2. Reporting(tasks', workers') = Reporting(tasks, workers)
  BY WorkerDoneKeeps DEF OInv
<1>3. UNCHANGED <<state, curl, send, async, body, request, live, stack>>
  BY DEF WorkerDone, counts
<1>4. PICK c : /\ c.addr = workers[w].addr /\ c.request = workers[w].request
               /\ c.async = workers[w].async /\ c.thread # "starting"
               /\ workers' = [workers EXCEPT ![w] = c]
  <2>1. PICK d \in BOOLEAN :
          workers' = [workers EXCEPT ![w].thread = "ended", ![w].succeeded = d]
    BY DEF WorkerDone
  <2> DEFINE c == [workers[w] EXCEPT !.thread = "ended", !.succeeded = d]
  <2>2. workers' = [workers EXCEPT ![w] = c]
    BY <2>1
  <2>3. /\ c.addr = workers[w].addr /\ c.request = workers[w].request
        /\ c.async = workers[w].async /\ c.thread # "starting"
    BY <1>1 DEF Worker
  <2> QED BY <2>2, <2>3
<1>5. /\ Len(workers') = Len(workers) /\ workers'[w] = c
      /\ \A v \in 1 .. Len(workers) : v # w => workers'[v] = workers[v]
  BY <1>1, <1>4
<1> DEFINE task == [kind |-> "done", w |-> w]
<1>6. task \in Task /\ task.w = w /\ task.kind # "header"
  BY <1>1 DEF Task
<1>7. tasks' = Append(tasks, task)
  BY DEF WorkerDone
<1> HIDE DEF task
<1> QED BY <1>2, <1>3, <1>4, <1>5, <1>6, <1>7 DEF Moves, Workers

(* With a task more at the end of the queue. *)
LEMMA HeadedMore ==
  ASSUME NEW q \in Seq(Task), NEW task \in Task, NEW ws, Headed(q, ws),
         ws[task.w].thread # "starting",
         task.kind = "header" => \A k \in 1 .. Len(q) : q[k].w # task.w
  PROVE  /\ Headed(Append(q, task), ws)
         /\ \A k \in 1 .. Len(Append(q, task)) :
              Append(q, task)[k] = task \/ \E m \in 1 .. Len(q) : Append(q, task)[k] = q[m]
<1> DEFINE p == Append(q, task)
<1>1. /\ Len(p) = Len(q) + 1 /\ Len(q) \in Nat
      /\ \A k \in 1 .. Len(q) : p[k] = q[k]
      /\ p[Len(q) + 1] = task
  OBVIOUS
<1> HIDE DEF p
<1>2. \A k \in 1 .. Len(p) : k \in 1 .. Len(q) \/ k = Len(q) + 1
  BY <1>1
<1>3. ASSUME NEW k \in 1 .. Len(p)
      PROVE  /\ ws[p[k].w].thread # "starting"
             /\ p[k].kind # "header" =>
                  \A m \in 1 .. Len(p) : p[m].kind = "header" /\ p[m].w = p[k].w => m < k
  <2>1. CASE k = Len(q) + 1
    <3>1. p[k] = task
      BY <1>1, <2>1
    <3>2. ASSUME task.kind # "header", NEW m \in 1 .. Len(p), p[m].kind = "header"
          PROVE  m < k
      <4>1. m # Len(q) + 1
        BY <1>1, <3>2
      <4>2. m \in 1 .. Len(q)
        BY <1>2, <4>1
      <4> QED BY <1>1, <2>1, <4>2
    <3> QED BY <3>1, <3>2
  <2>2. CASE k \in 1 .. Len(q)
    <3>1. p[k] = q[k] /\ ws[q[k].w].thread # "starting"
      BY <1>1, <2>2 DEF Headed
    <3>2. ASSUME q[k].kind # "header", NEW m \in 1 .. Len(p), p[m].kind = "header",
                 p[m].w = q[k].w
          PROVE  m < k
      <4>1. m # Len(q) + 1
        BY <1>1, <2>2, <3>2
      <4>2. m \in 1 .. Len(q) /\ p[m] = q[m]
        BY <1>1, <1>2, <4>1
      <4> QED BY <2>2, <3>2, <4>2 DEF Headed
    <3> QED BY <3>1, <3>2
  <2> QED BY <1>2, <2>1, <2>2
<1>4. Headed(p, ws)
  BY <1>3 DEF Headed
<1>5. \A k \in 1 .. Len(p) : p[k] = task \/ \E m \in 1 .. Len(q) : p[k] = q[m]
  BY <1>1, <1>2
<1> QED BY <1>4, <1>5 DEF p

LEMMA MovesOrder ==
  ASSUME OInv, NEW w, Moves(w)
  PROVE  Order'
<1>1. /\ w \in Workers /\ Workers' = Workers
      /\ \A v \in Workers : /\ workers'[v].addr = workers[v].addr
                            /\ workers'[v].request = workers[v].request
                            /\ workers'[v].async = workers[v].async
                            /\ v # w => workers'[v].thread = workers[v].thread
      /\ workers'[w].thread # "starting"
      /\ Reporting(tasks', workers') = Reporting(tasks, workers)
      /\ state' = state /\ curl' = curl /\ send' = send /\ async' = async /\ body' = body
      /\ request' = request /\ live' = live /\ stack' = stack
  BY DEF Moves
<1>2. \A k \in 1 .. Len(tasks) : tasks[k].w \in Workers /\ workers[tasks[k].w].thread # "starting"
  BY Users DEF OInv, Order, HeaderOK, Headed
<1>3. /\ Headed(tasks, workers)'
      /\ \A k \in 1 .. Len(tasks') :
           \/ \E m \in 1 .. Len(tasks) : tasks'[k] = tasks[m]
           \/ /\ tasks'[k].w = w
              /\ tasks'[k].kind = "header" => workers[w].thread = "starting" /\ Mine(w)
  <2>1. PICK q, ws, ws2 : q = tasks /\ ws = workers /\ ws2 = workers'
    OBVIOUS
  <2>2. q \in Seq(Task) /\ Headed(q, ws)
    BY <2>1 DEF OInv, Inv, Typed, Order, HeaderOK
  <2>3. \A k \in 1 .. Len(q) : ws2[q[k].w].thread # "starting"
    BY <1>1, <1>2, <2>1
  <2>4. Headed(q, ws2)
    BY <2>2, <2>3 DEF Headed
  <2>5. CASE tasks' = tasks
    BY <2>1, <2>4, <2>5
  <2>6. ASSUME NEW task \in Task, tasks' = Append(tasks, task), task.w = w,
               task.kind = "header" => workers[w].thread = "starting" /\ Mine(w)
        PROVE  /\ Headed(tasks, workers)'
               /\ \A k \in 1 .. Len(tasks') :
                    tasks'[k] = task \/ \E m \in 1 .. Len(tasks) : tasks'[k] = tasks[m]
    <3>1. task.kind = "header" => \A k \in 1 .. Len(q) : q[k].w # task.w
      BY <1>2, <2>1, <2>6
    <3>2. ws2[task.w].thread # "starting"
      BY <1>1, <2>1, <2>6
    <3>3. /\ Headed(Append(q, task), ws2)
          /\ \A k \in 1 .. Len(Append(q, task)) :
               Append(q, task)[k] = task \/ \E m \in 1 .. Len(q) : Append(q, task)[k] = q[m]
      BY <2>2, <2>4, <3>1, <3>2, HeadedMore
    <3> QED BY <2>1, <2>6, <3>3
  <2> QED BY <2>5, <2>6 DEF Moves
<1>4. \A v : Using(v)' <=> Using(v)
  BY <1>1 DEF Using
<1>5. \A v \in Workers : Mine(v)' <=> Mine(v)
  BY <1>1 DEF Mine
<1>6. HeaderOK'
  <2>1. ASSUME NEW k \in 1 .. Len(tasks'), tasks'[k].kind = "header",
               curl' = workers'[tasks'[k].w].addr
        PROVE  state = "OPENED"
    <3>1. CASE \E m \in 1 .. Len(tasks) : tasks'[k] = tasks[m]
      <4>1. PICK m \in 1 .. Len(tasks) : tasks'[k] = tasks[m]
        BY <3>1
      <4>2. PICK u \in Workers : u = tasks[m].w
        BY <1>2
      <4>3. curl = workers[u].addr
        BY <1>1, <2>1, <4>1, <4>2
      <4>4. tasks[m].kind = "header" /\ Mine(tasks[m].w)
        BY <2>1, <4>1, <4>2, <4>3 DEF Mine
      <4> QED BY <4>4 DEF OInv, Order, HeaderOK
    <3>2. CASE workers[w].thread = "starting" /\ Mine(w)
      BY <1>1, <3>2 DEF OInv, Order, HeaderOK
    <3> QED BY <1>3, <2>1, <3>1, <3>2
  <2>2. ASSUME NEW v \in Workers, workers'[v].thread = "starting", curl' = workers'[v].addr
        PROVE  state = "OPENED"
    <3>1. v # w /\ workers[v].thread = "starting" /\ Mine(v)
      BY <1>1, <2>2 DEF Mine
    <3> QED BY <3>1 DEF OInv, Order, HeaderOK
  <2>3. /\ \A k \in 1 .. Len(tasks') :
             tasks'[k].kind = "header" /\ curl' = workers'[tasks'[k].w].addr => state' = "OPENED"
        /\ \A v \in Workers' :
             workers'[v].thread = "starting" /\ curl' = workers'[v].addr => state' = "OPENED"
    BY <1>1, <2>1, <2>2
  <2> QED BY <1>3, <2>3 DEF HeaderOK, Mine
<1>7. ASSUME NEW v, NEW past, Serves(v, past) PROVE Serves(v, past)'
  <2>1. /\ v \in Workers /\ curl = workers[v].addr /\ send /\ workers[v].request = request
        /\ \A k \in 1 .. Len(tasks) : tasks[k].kind = "header" => tasks[k].w # v
        /\ workers[v].thread # "starting"
        /\ past => curl \notin live
        /\ ~past => v \in Reporting(tasks, workers)
    BY <1>7 DEF Serves
  <2>2. workers'[v].thread # "starting"
    BY <1>1, <2>1
  <2>3. ASSUME NEW k \in 1 .. Len(tasks'), tasks'[k].kind = "header" PROVE tasks'[k].w # v
    BY <1>3, <2>1, <2>3
  <2> QED BY <1>1, <2>1, <2>2, <2>3 DEF Serves
<1>8. Depth' = Depth /\ Top' = Top
  BY <1>1 DEF Depth, Top
<1>9. PICK f : f = Top
  OBVIOUS
<1>10. Current(f) => Current(f)'
  <2>1. PICK v, past : v = f.w /\ past = OfDone(f.todo)
    OBVIOUS
  <2> QED BY <1>1, <1>7, <2>1 DEF Current
<1>11. Relies(f) => Relies(f)'
  BY <1>1, <1>10 DEF Relies, Quiet, Settled, Stale
<1>12. StackOK'
  <2>1. Nested(stack) /\ (Depth > 0 => Relies(f))
    BY <1>9 DEF OInv, Order, StackOK
  <2>2. Relies(f)' => Relies(Top)'
    BY <1>8, <1>9
  <2> QED BY <1>1, <1>8, <1>11, <2>1, <2>2 DEF StackOK
<1>13. (Current(Top) => Current(Top)') /\ (LoadingNow(Top)' <=> LoadingNow(Top))
       /\ (Working(Top)' <=> Working(Top)) /\ (OfDone(Top.todo)' <=> OfDone(Top.todo))
  <2>1. Current(f)' <=> Current(Top)'
    BY <1>8, <1>9
  <2> QED BY <1>8, <1>9, <1>10, <2>1
<1>14. Dangling => Dangling'
  BY <1>8, <1>13 DEF Dangling
<1>15. StateOK'
  BY <1>1, <1>8, <1>13 DEF OInv, Order, StateOK
<1>16. HandleOK'
  BY <1>1, <1>4, <1>5, <1>14 DEF OInv, Order, HandleOK
<1> QED BY <1>6, <1>12, <1>15, <1>16 DEF Order

-----------------------------------------------------------------------------
LEMMA InitOrder == Init => OInv
<1> SUFFICES ASSUME Init PROVE OInv
  OBVIOUS
<1>1. /\ Inv /\ state = "UNSENT" /\ curl = NoHandle /\ ~send /\ body = {} /\ live = {}
      /\ workers = <<>> /\ tasks = <<>> /\ stack = <<>>
  BY InitKeeps DEF Init
<1>2. Workers = {} /\ 1 .. Len(tasks) = {} /\ Depth = 0 /\ Len(stack) = 0
  BY <1>1 DEF Workers, Depth
<1>3. 1 .. Len(stack) = {} /\ 1 .. Len(stack) - 1 = {}
  BY <1>2
<1>4. StackOK
  BY <1>2, <1>3 DEF StackOK, Nested
<1>5. StateOK
  BY <1>1, <1>2 DEF StateOK, States
<1>6. HandleOK
  BY <1>1, <1>2 DEF HandleOK
<1>7. HeaderOK
  BY <1>2 DEF HeaderOK, Headed
<1> QED BY <1>1, <1>4, <1>5, <1>6, <1>7 DEF OInv, Order

LEMMA NextOrder ==
  ASSUME Orderly, OInv, [Next]_vars
  PROVE  OInv'
<1>1. Inv'
  BY NextKeeps DEF OInv, Orderly
<1>2. CASE ScriptCalls
  BY <1>1, <1>2, CallAbortOrder, CallOpenOrder, CallSendOrder, DropObjectOrder
     DEF ScriptCalls, OInv
<1>3. CASE MainThread
  <2>1. ~SendSync /\ ~PerformHeader /\ ~PerformBody /\ ~PerformEnd /\ ~SyncSendReturns
    BY NoSendSync, RestOfTop DEF PerformHeader, PerformBody, PerformEnd, SyncSendReturns
  <2>2. CASE Aborted \/ Open \/ OpenRefused \/ SendOvertaken \/ SendRefused \/ Refused
             \/ SendAsync \/ SendNoThread \/ HandlerReturns
    BY <1>1, <2>2, AbortedOrder, OpenOrder, OpenRefusedOrder, SendOvertakenOrder,
       SendRefusedOrder, RefusedOrder, SendAsyncOrder, SendNoThreadOrder, HandlerReturnsOrder
       DEF OInv
  <2>3. CASE WriteHeaderTask \/ HeaderTooLong \/ WriteBodyTask \/ DoneTask
    BY <1>1, <2>3, WriteHeaderTaskOrder, HeaderTooLongOrder, WriteBodyTaskOrder, DoneTaskOrder
       DEF OInv, Orderly
  <2>4. CASE Write \/ Loading \/ Loaded \/ Written \/ Finish \/ UnrefInDoneTask
    BY <1>1, <2>4, WriteOrder, LoadingOrder, LoadedOrder, WrittenOrder, FinishOrder,
       UnrefInDoneTaskOrder DEF OInv
  <2> QED BY <1>3, <2>1, <2>2, <2>3, <2>4 DEF MainThread
<1>4. ASSUME NEW w \in Workers,
             \/ WriteHeaderCallback(w) \/ WriteBodyCallback(w)
             \/ TrailerCallback(w) \/ WorkerDone(w)
      PROVE  OInv'
  BY <1>1, <1>4, ReceiveMoves, WorkerDoneMoves, MovesOrder DEF OInv
<1>5. CASE UNCHANGED vars
  BY <1>1, <1>5, Stays DEF OInv, vars, counts
<1> QED BY <1>2, <1>3, <1>4, <1>5 DEF Next

LEMMA OrderInvariant ==
  ASSUME Orderly
  PROVE  Spec => []OInv
<1>1. OInv /\ [Next]_vars => OInv'
  BY NextOrder
<1> QED BY <1>1, InitOrder, PTL DEF Spec

-----------------------------------------------------------------------------
LEMMA UsingIs ==
  ASSUME Inv
  PROVE  Reporting(tasks, workers) = Unreported
<1>1. tasks \in Seq(Task)
  BY DEF Inv, Typed
<1>2. ASSUME NEW k \in 1 .. Len(tasks), NEW w
      PROVE  IsDone(tasks[k], w) <=> tasks[k] = [kind |-> "done", w |-> w]
  <2>1. PICK task \in Task : task = tasks[k]
    BY <1>1
  <2>2. task.kind = "done" /\ task.w = w <=> task = [kind |-> "done", w |-> w]
    BY DEF Task
  <2> QED BY <2>1, <2>2 DEF IsDone
<1> QED BY <1>2 DEF Reporting, Unreported, Goes, Running, Workers

-----------------------------------------------------------------------------
(* A transfer whose DoneTask has not begun has its handle for itself: it is *)
(* allocated, and no other one that has still to report was given the same  *)
(* address (curl_easy_cleanup in Done and DoneTask,                         *)
(* curl_xml_http_request.cc:721 and 571).                                   *)
THEOREM HandlesAreSafe ==
  ASSUME Orderly
  PROVE  Spec => []HandlesSafe
<1>1. OInv => HandlesSafe
  <2> SUFFICES ASSUME OInv PROVE HandlesSafe
    OBVIOUS
  <2>1. \A w : w \in Unreported <=> Using(w)
    BY UsingIs DEF OInv, Using
  <2>2. \A w : Using(w) => w \in Workers
    BY Users
  <2> QED BY <2>1, <2>2 DEF HandlesSafe, OInv, Order, HandleOK
<1> QED BY <1>1, OrderInvariant, PTL

(* No handle is lost: once every transfer has reported and every call has   *)
(* returned, only the handle of the request that is open is allocated.      *)
THEOREM NoHandleLeaks ==
  ASSUME Orderly
  PROVE  Spec => []NothingLeaks
<1>1. OInv => NothingLeaks
  <2> SUFFICES ASSUME OInv, Depth = 0, Pending = {} PROVE live \subseteq {curl} \ {NoHandle}
    BY DEF NothingLeaks
  <2>1. ASSUME NEW w \in Workers, Using(w) PROVE FALSE
    <3>1. \/ Running(w)
          \/ \E k \in 1 .. Len(tasks) : tasks[k].w = w
      BY <2>1 DEF Using, Reporting, Goes, Running, IsDone
    <3> QED BY <2>1, <3>1 DEF Pending
  <2>2. NoHandle \notin live
    BY HandlesOf
  <2> QED BY <2>1, <2>2 DEF OInv, Order, HandleOK
<1> QED BY <1>1, OrderInvariant, PTL

(* While send_flag_ is set and no call is running there is a transfer of    *)
(* the current request that will run its DoneTask: a request is never left  *)
(* waiting for nobody.                                                      *)
THEOREM SentRequestIsServed ==
  ASSUME Orderly
  PROVE  Spec => []SentIsServed
<1>1. OInv => SentIsServed
  <2> SUFFICES ASSUME OInv, send, Depth = 0
               PROVE  \E w \in Unreported : Mine(w) /\ workers[w].request = request
    BY DEF SentIsServed
  <2>1. \A w : w \in Unreported <=> Using(w)
    BY UsingIs DEF OInv, Using
  <2>2. ~Dangling
    BY DEF Dangling
  <2> QED BY <2>1, <2>2 DEF OInv, Order, HandleOK
<1> QED BY <1>1, OrderInvariant, PTL

(* response_body_ never holds data of an earlier request, although a new    *)
(* request may be given the address by which the tasks of the earlier one   *)
(* are recognised (WriteBodyTask and DoneTask,                              *)
(* curl_xml_http_request.cc:548 and 581).                                   *)
THEOREM DataIsOwn ==
  ASSUME Orderly
  PROVE  Spec => []OwnData
<1>1. OInv => OwnData
  BY DEF OInv, Order, StateOK, OwnData
<1> QED BY <1>1, OrderInvariant, PTL

(* What WriteHeader and WriteBody assert of the state and of send_flag_     *)
(* holds whenever a task or the code after a handler comes to them, but for *)
(* trailers (curl_xml_http_request.cc:633 and 694).                         *)
THEOREM AssertionsHold ==
  ASSUME Orderly
  PROVE  Spec => []Asserted
<1>1. OInv => Asserted
  <2> SUFFICES ASSUME OInv PROVE Asserted
    OBVIOUS
  <2>1. ASSUME tasks # <<>>, Head(tasks).kind = "header", Mine(Head(tasks).w)
        PROVE  state = "OPENED" /\ send
    <3>1. tasks \in Seq(Task)
      BY DEF OInv, Inv, Typed
    <3>2. 1 \in 1 .. Len(tasks) /\ Head(tasks) = tasks[1]
      BY <2>1, <3>1
    <3>3. tasks[1].w \in Workers /\ Using(tasks[1].w)
      BY <3>2, Users
    <3> QED BY <2>1, <3>2, <3>3 DEF OInv, Order, HandleOK, HeaderOK
  <2>2. ASSUME Step("write"), state # "OPENED"
        PROVE  state = "LOADING" /\ send
    <3>1. Depth > 0 /\ Writing(Top)
      BY <2>2, RestOfTop
    <3>2. Working(Top) /\ ~EndingNow(Top)
      BY <3>1, Alone
    <3>3. Current(Top)
      BY <3>1, <3>2, WorkFacts DEF Stale
    <3> QED BY <2>2, <3>1, <3>3 DEF Current, Serves
  <2>3. state = "LOADING" => send
    BY DEF OInv, Order, StateOK
  <2> QED BY <2>1, <2>2, <2>3 DEF Asserted
<1> QED BY <1>1, OrderInvariant, PTL

-----------------------------------------------------------------------------
(* The steps that may end a request. *)
Ended ==
  \/ CallAbort \/ CallOpen \/ DropObject \/ UnrefInDoneTask
  \/ LET w == IF HeaderTooLong THEN Head(tasks).w ELSE Top.w
     IN  w > 0 => workers[w].request = request

LEMMA OwnEnd ==
  ASSUME OInv, Depth > 0, Current(Top), ~HeaderTooLong
  PROVE  Ended
BY DEF Current, Serves, Ended

LEMMA MainEnds ==
  ASSUME OInv, NoDialogs, MainThread, send, ~send'
  PROVE  Ended
<1>1. CASE SendOvertaken \/ SendRefused \/ SendAsync \/ SendNoThread \/ SendSync
  BY <1>1, SendFacts DEF SendOvertaken, SendRefused, SendAsync, SendNoThread, SendSync
<1>2. CASE HeaderTooLong
  <2>1. /\ (\E kind \in {"header", "trailer"} : Dispatch(kind)) /\ Mine(Head(tasks).w)
    BY <1>2 DEF HeaderTooLong
  <2>2. workers[Head(tasks).w].request = request
    BY <2>1, HeadFacts
  <2> QED BY <1>2, <2>2 DEF Ended
<1>3. CASE Written \/ Finish
  <2>1. Depth > 0 /\ EndingNow(Top)
    BY <1>3, RestOfTop DEF Written, Finish
  <2>2. Working(Top)
    BY <2>1, Alone
  <2>3. (Stale(Top) /\ ~Written) \/ Current(Top)
    <3>1. Quiet \/ Stale(Top) \/ Current(Top)
      BY <2>1, <2>2, WorkFacts
    <3>2. Stale(Top) => ~Step("written")
      BY RestOfTop, Ends DEF Stale
    <3> QED BY <3>1, <3>2 DEF Quiet, Settled, Written
  <2>4. Stale(Top) => ~Finish
    <3>1. Stale(Top) => Top.w \in Workers /\ ~Mine(Top.w) /\ workers[Top.w].async
      BY DEF Stale, Mine, OInv, Order, StateOK
    <3> QED BY <3>1 DEF Finish
  <2>5. ~HeaderTooLong
    <3>1. HeaderTooLong => Depth = 0
      BY HeadFacts DEF HeaderTooLong
    <3> QED BY <2>1, <3>1
  <2> QED BY <1>3, <2>1, <2>3, <2>4, <2>5, OwnEnd
<1>4. CASE UnrefInDoneTask
  BY <1>4 DEF Ended
<1>5. CASE PerformHeader \/ PerformBody \/ PerformEnd \/ SyncSendReturns
  BY <1>5, RestOfTop DEF PerformHeader, PerformBody, PerformEnd, SyncSendReturns
<1>6. CASE Aborted \/ Open \/ OpenRefused \/ Refused \/ HandlerReturns \/ WriteHeaderTask
           \/ WriteBodyTask \/ DoneTask \/ Write \/ Loading \/ Loaded
  BY <1>6 DEF Aborted, Open, OpenRefused, Refused, HandlerReturns, WriteHeaderTask,
     WriteBodyTask, DoneTask, Write, Loading, Loaded
<1> QED BY <1>1, <1>2, <1>3, <1>4, <1>5, <1>6 DEF MainThread

(* send_flag_ is reset by a call of the script, by the last Unref, or while *)
(* the main thread works for a transfer of that same request: a late task   *)
(* of an earlier transfer never ends a later request.                       *)
THEOREM OnlyItsOwnEnd ==
  ASSUME Orderly
  PROVE  Spec => EndsOwn
<1>1. OInv /\ [Next]_vars =>
        [send /\ ~send' =>
           \/ CallAbort \/ CallOpen \/ DropObject \/ UnrefInDoneTask
           \/ LET w == IF HeaderTooLong THEN Head(tasks).w ELSE Top.w
              IN  w > 0 => workers[w].request = request]_vars
  <2> SUFFICES ASSUME OInv, Next, send, ~send' PROVE Ended
    BY DEF Ended
  <2>1. CASE ScriptCalls
    BY <2>1 DEF ScriptCalls, CallSend, Ended
  <2>2. CASE MainThread
    BY <2>2, MainEnds DEF Orderly
  <2>3. ASSUME NEW w \in Workers,
               \/ WriteHeaderCallback(w) \/ WriteBodyCallback(w)
               \/ TrailerCallback(w) \/ WorkerDone(w)
        PROVE  FALSE
    BY <2>3 DEF WriteHeaderCallback, WriteBodyCallback, TrailerCallback, Receive, WorkerDone
  <2> QED BY <2>1, <2>2, <2>3 DEF Next
<1> QED BY <1>1, OrderInvariant, PTL DEF Spec, EndsOwn
=====
