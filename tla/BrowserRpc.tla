------------------------------ MODULE BrowserRpc ------------------------------
(***************************************************************************)
(* The remote calls between the host of browser elements (class            *)
(* BrowserController, extensions/gtkmoz_browser_element/browser_element.cc)*)
(* and the child process that runs the pages (browser_child.cc).  Each     *)
(* side writes its messages to a pipe and waits for the reply, and serves  *)
(* the calls of the other side while it waits.  A reply carries nothing    *)
(* that names its call: it is taken by whoever waits innermost.            *)
(*                                                                         *)
(* Each side is a stack of frames.  A message is a number, a reply is the  *)
(* number of what it answers; both are written and read whole.             *)
(***************************************************************************)
EXTENDS Naturals, Sequences

CONSTANTS MaxBrowsers,  \* bound on the browsers opened
          MaxMessages,  \* bound on the commands, feedbacks and pings
          MaxStarts,    \* bound on the child processes
          Habits        \* the habits of pages and gadgets, of which one is had

(* A page calls the host while it serves a command (calls), or when its     *)
(* user or the network does something (events); the gadget's handlers send  *)
(* commands (answers); the ping timer of the child fires (pings); events    *)
(* and pings come also while the child waits for a reply (nested); a handler *)
(* opens a browser after its child was stopped (revives).                   *)
Habit == SUBSET {"calls", "events", "answers", "pings", "nested", "revives"}
ASSUME BrowserRpcAssumption ==
  /\ MaxBrowsers \in Nat /\ MaxMessages \in Nat /\ MaxStarts \in Nat
  /\ Habits \subseteq Habit

None == 0
Ack == MaxMessages + 1    \* the reply "R ACK"
Browsers == 1 .. MaxBrowsers

VARIABLES
  habit,
  sent,         \* the number of messages so far
  down, up,     \* the pipes
  up_buffer,    \* up_buffer_: messages the host has read
  host,         \* the frames of the host, outermost first
  seq,          \* browser_seq_
  elements,     \* browser_elements_
  forced,       \* command_start_time_ = 0: all recursions are to break
  running,      \* child_pid_: the host has a child ...
  alive,        \* ... which lives
  starts,       \* the number of children so far
  down_buffer,  \* g_down_buffer
  child,        \* the frames of the child
  reply,        \* g_reply
  pages         \* g_browsers

process == <<running, alive, starts>>
childvars == <<down_buffer, child, reply, pages>>
hostvars == <<up_buffer, host, seq, elements, forced, running, starts>>
vars == <<habit, sent, down, up, hostvars, alive, childvars>>

Message == [kind : {"new", "close", "call", "feedback", "ping", "reply"},
            n : 0 .. Ack, b : 0 .. MaxBrowsers]
Reply(n) == [kind |-> "reply", n |-> n, b |-> None]

(* wait: for the reply to message n; read: in the loop over what was read   *)
(* from the pipe, for the frame below or the main loop, with the reply got; *)
(* serve: message n of the other side is processed.  of: the child.         *)
Frame == [at : {"wait", "read", "serve"}, n : 0 .. Ack, b : 0 .. MaxBrowsers,
          got : 0 .. Ack, of : 0 .. MaxStarts]
At(at, n, b) == [at |-> at, n |-> n, b |-> b, got |-> None, of |-> starts]

Last(s) == s[Len(s)]
Front(s) == SubSeq(s, 1, Len(s) - 1)
HostAt(at) == host # <<>> /\ Last(host).at = at
ChildAt(at) == alive /\ child # <<>> /\ Last(child).at = at
Waiting(frames) == {i \in 1 .. Len(frames) : frames[i].at = "wait"}

Init ==
  /\ habit \in Habits /\ sent = 0
  /\ down = <<>> /\ up = <<>> /\ up_buffer = <<>>
  /\ host = <<>> /\ seq = 0 /\ elements = {} /\ forced = FALSE
  /\ running = FALSE /\ alive = FALSE /\ starts = 0
  /\ down_buffer = <<>> /\ child = <<>> /\ reply = None /\ pages = {}

-----------------------------------------------------------------------------
(* The host. *)

(* StopChild, DestroyAllBrowsers: the process is killed, the pipes closed.  *)
StopChildMutant ==
  /\ running' = FALSE /\ alive' = FALSE /\ UNCHANGED elements
  /\ up_buffer' = <<>> /\ down' = <<>> /\ up' = <<>>
  /\ down_buffer' = <<>> /\ child' = <<>> /\ reply' = None /\ pages' = {}
StopChild ==
  /\ running' = FALSE /\ alive' = FALSE /\ elements' = {}
  /\ up_buffer' = <<>> /\ down' = <<>> /\ up' = <<>>
  /\ down_buffer' = <<>> /\ child' = <<>> /\ reply' = None /\ pages' = {}
Unstopped == UNCHANGED <<running, alive, up_buffer, down, up, childvars>>

(* Write: to a child that is gone it fails, which stops it; els is what     *)
(* browser_elements_ becomes.                                               *)
Write(m, els) ==
  CASE ~running -> elements' = els /\ Unstopped
    [] running /\ ~alive -> StopChild
    [] running /\ alive -> /\ down' = Append(down, m) /\ elements' = els
                           /\ UNCHANGED <<running, alive, up_buffer, up, childvars>>

(* SendCommandBuffer, up to the poll. *)
HostMayCall ==
  /\ sent < MaxMessages
  /\ host = <<>> \/ (HostAt("serve") /\ "answers" \in habit)
SendCommand(kind, b, els) ==
  /\ sent' = sent + 1
  /\ Write([kind |-> kind, n |-> sent', b |-> b], els)
  /\ host' = Append(host, [At("wait", sent', b) EXCEPT !.of = starts'])
  /\ forced' = (forced /\ Waiting(host) # {})

(* EnsureBrowser, AddBrowserElement: a child is started if there is none.   *)
StartChild ==
  /\ HostMayCall /\ seq < MaxBrowsers /\ ~running /\ starts < MaxStarts
  /\ host = <<>> \/ "revives" \in habit
  /\ starts' = starts + 1 /\ running' = TRUE /\ alive' = TRUE
  /\ seq' = seq + 1 /\ elements' = elements \cup {seq'}
  /\ sent' = sent + 1
  /\ down' = <<[kind |-> "new", n |-> sent', b |-> seq']>>
  /\ host' = Append(host, [At("wait", sent', seq') EXCEPT !.of = starts'])
  /\ forced' = (forced /\ Waiting(host) # {})
  /\ UNCHANGED <<habit, up, up_buffer, childvars>>
NewBrowser ==
  /\ HostMayCall /\ seq < MaxBrowsers /\ running
  /\ seq' = seq + 1 /\ starts' = starts
  /\ SendCommand("new", seq', elements \cup {seq'})
  /\ UNCHANGED habit

(* A method of the element, or of an object of its page. *)
CallBrowser(b) ==
  /\ HostMayCall /\ b \in elements /\ running /\ starts' = starts
  /\ SendCommand("call", b, elements)
  /\ UNCHANGED <<habit, seq>>

CloseBrowser(b) ==
  /\ HostMayCall /\ b \in elements /\ running /\ starts' = starts
  /\ SendCommand("close", b, elements \ {b})
  /\ UNCHANGED <<habit, seq>>

(* ReadUpPipe, called when the pipe is ready: by the main loop, or by the   *)
(* poll of the innermost command.                                           *)
MayRead == (host = <<>> \/ HostAt("wait")) /\ running
ReadUpPipe(j) ==
  /\ MayRead /\ j \in 1 .. Len(up)
  /\ up_buffer' = up_buffer \o SubSeq(up, 1, j)
  /\ up' = SubSeq(up, j + 1, Len(up))
  /\ host' = Append(host, At("read", None, None))
  /\ UNCHANGED <<habit, sent, down, seq, elements, forced, process, childvars>>
ReadFails ==
  /\ MayRead /\ up = <<>> /\ ~alive
  /\ StopChild
  /\ UNCHANGED <<habit, sent, host, seq, forced, starts>>

(* The loop over the buffer, ProcessFeedback. *)
TakeUp ==
  /\ HostAt("read") /\ up_buffer # <<>>
  /\ LET m == Head(up_buffer)
     IN \/ /\ m.kind = "reply"
           /\ host' = Append(Front(host), [Last(host) EXCEPT !.got = m.n])
           /\ up_buffer' = Tail(up_buffer)
           /\ UNCHANGED <<elements, running, alive, down, up, childvars>>
        \/ /\ m.kind = "ping" /\ host' = host
           /\ IF alive
              THEN /\ down' = Append(down, Reply(Ack)) /\ up_buffer' = Tail(up_buffer)
                   /\ UNCHANGED <<elements, running, alive, up, childvars>>
              ELSE StopChild
        \/ /\ m.kind = "feedback"
           /\ host' = IF m.b \in elements THEN Append(host, At("serve", m.n, m.b)) ELSE host
           /\ up_buffer' = Tail(up_buffer)
           /\ UNCHANGED <<elements, running, alive, down, up, childvars>>
  /\ UNCHANGED <<habit, sent, seq, forced, starts>>
HostAnswersMutant ==
  /\ HostAt("serve") /\ host' = Front(host)
  /\ UNCHANGED <<habit, sent, down, up, up_buffer, seq, elements, forced, process, childvars>>
HostAnswers ==
  /\ HostAt("serve") /\ host' = Front(host)
  /\ Write(Reply(Last(host).n), elements)
  /\ UNCHANGED <<habit, sent, seq, forced, starts>>

(* A command ends without a reply: all recursions are to break; at the      *)
(* outermost this stops the child.                                          *)
NoReply(frames) ==
  /\ host' = frames /\ forced' = TRUE
  /\ IF Waiting(frames) = {} /\ running THEN StopChild
     ELSE Unstopped /\ UNCHANGED elements

(* The buffer is empty: the command whose poll it was has its reply, polls  *)
(* again, or has waited too long; replies are of no use to the main loop.   *)
ReadEnds ==
  /\ HostAt("read") /\ up_buffer = <<>>
  /\ LET polling == Front(host)
     IN IF polling = <<>>
        THEN host' = <<>> /\ UNCHANGED <<forced, elements>> /\ Unstopped
        ELSE \/ /\ Last(host).got # None /\ host' = Front(polling)
                /\ UNCHANGED <<forced, elements>> /\ Unstopped
             \/ /\ Last(host).got = None /\ ~forced /\ host' = polling
                /\ UNCHANGED <<forced, elements>> /\ Unstopped
             \/ Last(host).got = None /\ NoReply(Front(polling))
  /\ UNCHANGED <<habit, sent, seq, starts>>

(* There is no child any more to poll; or the child takes too long.         *)
GiveUp ==
  /\ HostAt("wait") /\ (~running \/ Last(host).of # starts)
  /\ NoReply(Front(host))
  /\ UNCHANGED <<habit, sent, seq, starts>>
TimesOut ==
  /\ HostAt("wait") /\ running /\ up = <<>>
  /\ NoReply(Front(host))
  /\ UNCHANGED <<habit, sent, seq, starts>>

(* PingTimerCallback, when there is no element, or no ping came. *)
PingTimerCallback ==
  /\ host = <<>> /\ running /\ (elements = {} \/ ~alive)
  /\ StopChild
  /\ UNCHANGED <<habit, sent, host, seq, forced, starts>>

-----------------------------------------------------------------------------
(* The child. *)

(* SendFeedbackBuffer: it runs the main loop until there is a reply.        *)
MainLoopRuns == alive /\ (child = <<>> \/ (ChildAt("wait") /\ reply = None))
Feedback(kind, n, b) ==
  /\ sent < MaxMessages /\ sent' = sent + 1
  /\ up' = Append(up, [kind |-> kind, n |-> n, b |-> b])
  /\ child' = Append(child, At("wait", n, b)) /\ reply' = None
  /\ UNCHANGED <<habit, down, hostvars, alive, down_buffer, pages>>
FeedbackOfScript ==
  /\ "calls" \in habit /\ ChildAt("serve") /\ Last(child).b \in pages
  /\ Feedback("feedback", sent + 1, Last(child).b)
SourceFires == MainLoopRuns /\ (child = <<>> \/ "nested" \in habit)
FeedbackOfEvent(b) ==
  /\ "events" \in habit /\ SourceFires /\ b \in pages
  /\ Feedback("feedback", sent + 1, b)
CheckController ==
  /\ "pings" \in habit /\ SourceFires
  /\ Feedback("ping", Ack, None)

FeedbackReturnsMutant ==
  /\ ChildAt("wait") /\ reply # None
  /\ child' = Front(child) /\ UNCHANGED reply
  /\ alive' = (Last(child).n = Ack => reply = Ack)
  /\ UNCHANGED <<habit, sent, down, up, hostvars, down_buffer, pages>>
FeedbackReturns ==
  /\ ChildAt("wait") /\ reply # None
  /\ child' = Front(child) /\ reply' = None
  /\ alive' = (Last(child).n = Ack => reply = Ack)      \* ForceQuit
  /\ UNCHANGED <<habit, sent, down, up, hostvars, down_buffer, pages>>

(* OnDownFDReady, ProcessCommand. *)
OnDownFDReady(j) ==
  /\ MainLoopRuns /\ j \in 1 .. Len(down)
  /\ down_buffer' = down_buffer \o SubSeq(down, 1, j)
  /\ down' = SubSeq(down, j + 1, Len(down))
  /\ child' = Append(child, At("read", None, None))
  /\ UNCHANGED <<habit, sent, up, hostvars, alive, reply, pages>>
TakeDown ==
  /\ ChildAt("read") /\ down_buffer # <<>> /\ down_buffer' = Tail(down_buffer)
  /\ LET m == Head(down_buffer)
     IN IF m.kind = "reply"
        THEN reply' = m.n /\ UNCHANGED <<child, pages>>
        ELSE /\ child' = Append(child, At("serve", m.n, m.b))
             /\ pages' = CASE m.kind = "new" -> pages \cup {m.b}
                           [] m.kind = "close" -> pages \ {m.b}
                           [] OTHER -> pages
             /\ UNCHANGED reply
  /\ UNCHANGED <<habit, sent, down, up, hostvars, alive>>
ChildAnswersTwice ==
  /\ ChildAt("serve") /\ child' = Front(child)
  /\ up' = up \o [i \in 1 .. IF Last(child).b \in pages THEN 1 ELSE 2 |-> Reply(Last(child).n)]
  /\ UNCHANGED <<habit, sent, down, hostvars, alive, down_buffer, reply, pages>>
ChildAnswers ==
  /\ ChildAt("serve") /\ child' = Front(child)
  /\ up' = Append(up, Reply(Last(child).n))
  /\ UNCHANGED <<habit, sent, down, hostvars, alive, down_buffer, reply, pages>>
ChildReadEnds ==
  /\ ChildAt("read") /\ down_buffer = <<>> /\ child' = Front(child)
  /\ UNCHANGED <<habit, sent, down, up, hostvars, alive, down_buffer, reply, pages>>

Crash ==
  /\ alive /\ starts < MaxStarts
  /\ alive' = FALSE /\ child' = <<>> /\ down_buffer' = <<>> /\ reply' = None /\ pages' = {}
  /\ UNCHANGED <<habit, sent, down, up, hostvars>>

-----------------------------------------------------------------------------
HostWorks ==
  \/ \E j \in 1 .. MaxMessages : ReadUpPipe(j)
  \/ ReadFails \/ TakeUp \/ HostAnswers \/ ReadEnds \/ GiveUp
HostCalls ==
  StartChild \/ NewBrowser \/ \E b \in Browsers : CallBrowser(b) \/ CloseBrowser(b)
ChildWorks ==
  \/ \E j \in 1 .. MaxMessages : OnDownFDReady(j)
  \/ TakeDown \/ ChildAnswers \/ ChildReadEnds \/ FeedbackReturns
ChildCalls ==
  FeedbackOfScript \/ CheckController \/ \E b \in Browsers : FeedbackOfEvent(b)

Next ==
  \/ HostWorks \/ HostCalls \/ TimesOut \/ PingTimerCallback
  \/ ChildWorks \/ ChildCalls \/ Crash
Spec == Init /\ [][Next]_vars
FairSpec == Spec /\ WF_vars(HostWorks) /\ WF_vars(ChildWorks)

-----------------------------------------------------------------------------
TypeOK ==
  /\ habit \in Habits /\ sent \in 0 .. MaxMessages /\ seq \in 0 .. MaxBrowsers
  /\ {down, up, up_buffer, down_buffer} \subseteq Seq(Message)
  /\ host \in Seq(Frame) /\ child \in Seq(Frame)
  /\ elements \subseteq 1 .. seq /\ pages \subseteq 1 .. seq
  /\ {forced, running, alive} \subseteq BOOLEAN /\ starts \in 0 .. MaxStarts
  /\ reply \in 0 .. Ack

(* A command that gets a reply gets its own, and no reply is read by the    *)
(* main loop, which has no use for it, unless all recursions are to break.  *)
CommandGetsOwn ==
  \A i \in 1 .. Len(host) : host[i].got # None /\ ~forced =>
    i > 1 /\ host[i - 1].at = "wait" /\ host[i - 1].n = host[i].got

(* A feedback gets the reply of the host to it, unless a command has taken  *)
(* too long, after which the host stops the child.                          *)
FeedbackGetsOwn ==
  ChildAt("wait") /\ reply # None /\ ~forced => reply = Last(child).n

(* The child "periodically pings the controller to check if the controller  *)
(* died" (browser_child.h:301-302): it does not take a controller that      *)
(* answered another call of its for a dead one (CheckController quits).     *)
PingTellsDeath ==
  ChildAt("wait") /\ Last(child).n = Ack /\ reply # None => reply = Ack

(* No side waits for a reply that is not on its way: neither both for each  *)
(* other, nor the child for a host that has nothing to do.                  *)
Silent == down = <<>> /\ up = <<>> /\ up_buffer = <<>> /\ down_buffer = <<>>
NoMutualWait ==
  /\ ~ /\ alive /\ Silent /\ HostAt("wait") /\ Last(host).of = starts /\ ~forced
       /\ child = <<>> \/ (ChildAt("wait") /\ reply = None)
  /\ ~ /\ alive /\ Silent /\ host = <<>>
       /\ ChildAt("wait") /\ reply = None /\ Last(child).b \in elements \cup {None}

(* When nothing is under way the child shows exactly the browsers that the  *)
(* elements think they have.                                                *)
PagesOfElements ==
  host = <<>> /\ child = <<>> /\ Silent => pages = elements \/ (running /\ ~alive)

(* What pages and gadgets do while all of this holds: either nothing happens *)
(* in a page of its own accord and no ping is due, so that every call of one *)
(* side but the first is made while it serves a call of the other; or no     *)
(* page calls the host from a command or while it waits for it, and a gadget *)
(* whose handlers call pages has pages that do not call it.                  *)
Nests(h) == h \cap {"events", "pings"} = {}
Crosses(h) == h \cap {"calls", "nested"} = {} /\ ~({"events", "answers"} \subseteq h)
OneCalls == \A h \in Habits : Nests(h) \/ Crosses(h)

(* Every call of the host ends: the gadget does not hang. *)
CommandsEnd == HostAt("wait") ~> host = <<>>
=============================================================================
