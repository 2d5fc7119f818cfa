# A verification project for Google Gadgets for MeeGo

Google Gadgets for Linux (here the MeeGo branch) runs small script programs,
the gadgets, in windows or in a sidebar.  This directory holds TLA+ models of
the parts whose difficulty lies in order, nesting and concurrency, the TLC
configurations that check them on small instances, and TLAPS proofs for every
size of instance.  All source paths below are relative to `src/`.

## 1. Inventory

One thread, that of the main loop, runs almost everything: scripts, handlers,
timers, I/O watches.  The difficulty is less in threads than in *nesting*:
signals call handlers, handlers call back into the object that called them, and
a handler that shows a dialog runs the main loop inside itself.  Real threads
exist in the HTTP requests of the curl extension; a real second process exists
behind the GTK/Mozilla browser element.

| component | state it keeps | operations | talks to |
|---|---|---|---|
| gadget manager `extensions/google_gadget_manager/google_gadget_manager.cc` | `instance_statuses_` (none, active, inactive with an expiration score), the options `inst_status.i`, `inst_gadget_id.i`, `max_inst_id`, `active_gadgets_`, one options file per instance, downloaded gadget files | new, remove, update, enumerate instances, save a downloaded gadget, start from the stored options | host (signals for new, removed, updated instance), options, metadata |
| gadget host `hosts/gtk/simple_gtk_host.cc`, `ggadget/gadget.cc` | a live `Gadget` per instance, timers for a delayed removal | load an instance (may ask the user), remove, `RemoveMe` | manager, views |
| options `extensions/default_options/default_options.cc`, `ggadget/memory_options.cc` | values by name, a dirty flag, one object per file | put, remove, flush, delete storage | file manager |
| metadata `extensions/google_gadget_manager/gadgets_metadata.cc` | catalogue, time of the latest plug-in, the request under way | update from the server, parse, save | HTTP requests, manager's update timer |
| signals `ggadget/signals.cc` | vector of connections with NULL holes, default connection, death flag pointer | connect, reconnect, disconnect, set the default slot, emit, delete | every component |
| HTTP requests `extensions/curl_xml_http_request/curl_xml_http_request.cc` (also `soup_`, `qt_`) | state, handle, send flag, response, references | open, send, abort; header, body and done callbacks | scripts, main loop, worker threads |
| backoff `ggadget/backoff.cc`, `ggadget/xml_http_request_utils.cc` | failures and next try per host, stored in options | may request, report result, store, read | HTTP requests |
| main loop `ggadget/gtk/main_loop.cc` (also Qt, Clutter) | watch nodes with calling and removing flags, a mutex | add, remove and call watches | glib, every timer |
| browser controller `extensions/gtkmoz_browser_element/` | pipes, a buffer, nesting depth, elements by id | send command and wait, process a request of the child, stop the child, ping | child process |
| run once `ggadget/run_once.cc` | a socket path, sessions | become server or client, send a message | another process |
| image cache `ggadget/image_cache.cc` | images by key with reference counts | load, release | views |
| script objects `ggadget/scriptable_helper.cc`, script runtimes `extensions/*_script_runtime` | reference counts, wrappers in both directions | ref, unref, wrap, collect | scripts |
| views `ggadget/view.cc`, `basic_element.cc`, `elements.cc` | the element with the focus, under the mouse, that grabbed it, under a drag, in holders a deletion resets | focus, key, mouse and drag events to elements | scripts, host window |
| element types, decorators, sidebar, hosts, toolkit backends, frameworks, media, D-Bus, XML and text utilities, file managers, extension loading, permissions, bundled gadgets | listed in `PROJECT.json` with the reason each is left out or planned | | |

What makes them hard, and what correctness means:

* **Manager.** Long sequences of legal calls, nested in one another, with
  failures in the middle; two copies of the truth (`instance_statuses_` and
  `active_gadgets_`, the array size and `max_inst_id`); two kinds of storage
  written at different times; a crash at any point.  Correct: a gadget's
  inactive instance is its only one, the copies agree, no running instance is
  lost at a restart, no file of a running gadget is deleted, a veto removes the
  instance it was about.
* **Signals.** Slots change the vector that calls them or delete the signal.
  Correct: an emission calls exactly the connections that were there when it
  began and still are, in order, and never touches a deleted signal.
* **Requests.** Worker threads, a task queue, handlers that abort or reuse the
  object, recycled handle addresses.  Correct: no handle is freed twice, leaked
  or used by two transfers, no data of an old request reaches a new one, the
  object outlives its transfers, every request ends.
* **Metadata.** An update by differences rests on dates that survive frees,
  damaged files and half-parsed answers; the timer, the attempt noted in the
  options and the retry interval survive restarts.  Correct: no gap between the
  catalogue and the next differences, always something that starts the next
  update, retries neither too early nor too late, the server's news arrive.
* **Main loop.** A watch is removed while it is called, in a callback nested in
  it, by another thread's source or with the loop.  Correct: `OnRemove` once
  for every watch, no frame touches a deleted node, no watch without a source.
* **Browser controller.** Replies that name nothing, calls in both directions
  nested in each other, late answers after timeouts, a child that dies.
  Correct: each call gets its own reply, no side waits for ever, pages and
  elements agree.
* **Views.** Handlers, which are scripts, run in the middle of a change of focus,
  hover or drag and remove, disable or hide elements, or run the main loop.
  Correct: between two events only the focused, hovered or dragged-over element
  was last told that it is.
* **Not modelled yet.** Two servers (run once), shared keys (image cache), the
  backoff of requests, the options' files.

Every hazard, at its line, is in `PROJECT.json` with the properties that cover
it or the reason none does yet.

## 2. Modules

| module | what it is |
|---|---|
| `GadgetRegistry` | what the manager promises: running gadgets, kept settings, what is on disk |
| `GadgetManager` | the instance table, its options and files, the host, nested calls, restarts |
| `MCGadgetManager` | for TLC |
| `GadgetManager_proof` | type correctness, four invariants, an action property and the refinement of `GadgetRegistry`, for every instance; whose file, whose pending call, which instances run |
| `Multicast` | what a signal promises: each emission has a list of connections yet to call |
| `Erasing` | the erase-remove idiom, for both |
| `Signals` | the vector with holes, the nested loops, the shared death flag |
| `MCSignals` | for TLC |
| `Signals_proof` | type correctness, three invariants and the refinement of `Multicast`, for every instance |
| `XMLHttpRequest` | one request object of the curl extension with its threads, tasks and handlers |
| `MCXMLHttpRequest` | for TLC: which calls a script makes in which handler |
| `XMLHttpRequest_proof` | the object outlives its transfers, for every such choice of calls |
| `XMLHttpRequestOrder_proof` | handles, data, assertions and ends of requests, for orderly scripts |
| `MetadataUpdate` | the catalogue, its updates by differences, their schedule, the server, restarts |
| `MCMetadataUpdate` | for TLC |
| `MetadataUpdate_proof` | the invariants of the schedule and of the data |
| `MainLoop` | watches, nested callbacks, worker threads, the end of the loop |
| `MCMainLoop` | for TLC |
| `MainLoop_proof` | its three invariants |
| `BrowserRpc` | host and child of the browser elements with their two pipes |
| `MCBrowserRpc` | for TLC: which habits pages and gadgets have |
| `BrowserRpc_proof` | types, own replies, no mutual wait, the same pages, for nested and for crossing calls |
| `ViewEvents` | a view, its holders, and handlers that run in the middle of events |
| `MCViewEvents` | for TLC: what handlers do in which event |
| `ViewEvents_proof` | hover, drag and focus, for every set of elements and habits |

### GadgetManager

Variables: `status` is `instance_statuses_` together with the options
`inst_status.i`, which every write of the array writes too; beyond `size` it is
`None`, which is also what the loops that keep an old size read there.  `gid`
and `maxId` are the other options of the manager, `active` is
`active_gadgets_`, `owner[i]` the gadget an instance's options file belongs to,
`files` the downloaded gadgets, `loaded` the instances with a live `Gadget`,
`saved` the options last flushed.  `calls` is the stack of calls that wait for
a handler or are in a loop; the handler may run the main loop (the host asks
the user in a dialog), so other operations run on top.

| action | code |
|---|---|
| `NewGadgetInstance` (`Reuse`, `Create`) | `NewGadgetInstance` up to `new_instance_signal_`, with `InitInstanceOptions` succeeding or failing and the growth of the array |
| `Accept`, `Veto`, `VetoIgnored` | the handler's answer and the rest of the call that waits for it |
| `RemoveGadget` | the host's removal: `RemoveGadgetInstanceInternal` with ageing, expiry, trimming and the host's part |
| `DiscardOptions` | `Gadget::RemoveMe`, which deletes the options first |
| `UpdateNext`, `EnumNext` and their starts | one round of `UpdateGadgetInstances`, of `EnumerateGadgetInstances` |
| `SaveGadget` | a downloaded gadget file is written |
| `Flush`, `Restart` | the options are flushed; the program ends at any point and `Init` reads them back |

Left out: the gadget browser instance, run counts and added times (nothing
decides on them), downloads and, as a module of its own, metadata.  File names of downloaded gadgets are
taken as distinct for distinct gadget ids.

### Signals

`frames` is the stack of `Emit` calls with loop index, length read once, the
frame whose `death_flag` the call looks at, and the connection it is calling.
`Connect`, `Reconnect`, `Disconnect`, `SetDefaultSlot`, `Destroy` and `Emit`
are enabled outside any emission and inside a slot of the innermost one.
A connection without a slot is a blocked one.  Connections are numbered in the
order they are made.  No caller in the repository keeps the connection
`SetDefaultSlot` returns, so it is never disconnected (the code would keep a
dangling `default_connection_`).

### XMLHttpRequest

The object: `state`, `curl` (an address), `send`, `async`, `body` (the requests
whose data `response_body_` holds), `refs`, `owned`.  The rest: `live` (handles
allocated), `workers` (one `WorkerContext` per transfer and how far its thread
is), `tasks` (the main loop's queue), `stack` (calls on the main thread: the
event whose handler may be running and the pieces of code left after it).
Every `ChangeState` ends an action; `HandlerReturns` lets the call go on, and in
between the script may call the object (`MayCall`, by event).

| action | code |
|---|---|
| `CallAbort`, `CallOpen`, `Open`, `OpenRefused`, `Aborted` | `Abort`, `Open`, and what `Done` does after its event |
| `CallSend`, `SendOvertaken`, `SendRefused`, `Refused`, `SendAsync`, `SendNoThread`, `SendSync`, `SyncSendReturns` | the branches of `Send` |
| `WriteHeaderCallback`, `WriteBodyCallback`, `TrailerCallback`, `WorkerDone` | the worker thread; trailers come by the callback of the header, after the body |
| `WriteHeaderTask`, `HeaderTooLong`, `WriteBodyTask`, `DoneTask`, `Write`, `Loading`, `Loaded`, `Written`, `Finish`, `UnrefInDoneTask` | the tasks, with `WriteBody` split at its events |
| `PerformHeader`, `PerformBody`, `PerformEnd` | a synchronous transfer inside `Send` |
| `DropObject` | the script lets go of the object; the destructor aborts |

Tasks run while no call is on the stack, or below a handler that shows a dialog
(`MainLoopRuns`; `MayCall` says in which handlers, and what else the script may
call while they run).

Abstractions: the lines of a header are one task; a response is the set of
requests its data came from; data that does not fit is a choice; the queue is
first in first out, because `AddTimeoutWatch(0, ...)` makes idle sources of one
priority; the worker's unlocked read of `curl_` sees the old or the new value;
which address `curl_easy_init` returns is a choice among the free ones, so
addresses are reused as soon as they can be.

### MetadataUpdate

`mem` is `plugins_` with `latest_plugin_time_` and whether the built-in gadgets
are loaded (an empty map means the catalogue must be read again); `file` is
`plugins.xml`, which a failed write may leave damaged; `opt` and `disk` are the
manager's options about updates in memory and as last flushed; `retry`, `timer`
and `updating` are `retry_timeout_`, what `update_timer_` waits for, and
`updating_metadata_`; `request` and `full` are `request_` and `full_download_`.
`releases`, `listed` and `day` are the server, which is outside the repository:
it is modelled from the query (`GetQueryDate`) and from what
`ParsePluginsXML` expects of an answer.  A record is the number of a release.

| action | code |
|---|---|
| `OnUpdateTimer`, `UpdateGadgetsMetadata` | `OnUpdateTimer`, `UpdateGadgetsMetadata`, `UpdateFromServer` with a request that is sent, refused by its backoff, or never calls back |
| `ScheduleMetaDataUpdate` | `scheduleMetaDataUpdate(0)` of the gadget browser (1068-1069, `gadget_control/main.js:736`) |
| `ChecksumMismatch` | `SaveGadget` finds a wrong checksum and asks for a full update |
| `UpdateSucceeds`, `ParsingFails`, `RequestFails` | `OnRequestReadyStateChange`, `ParsePluginsXML`, `SavePluginsXMLFile` and `OnUpdateDone` of both classes |
| `FreeMemory`, `GetAllGadgetInfo` | `OnFreeMemoryTimer`, and the accessors that read the catalogue again |
| `Flush`, `Restart` | the options are flushed; the program ends and `Init` of the manager schedules from what was stored |
| `ServerChanges`, `ServerAnswers` | the server |

Days replace times; times of day, the week's length and what a record contains
are left out.  `Randomize` keeps the code's integer arithmetic.

### MainLoop

`nodes` holds the `WatchNode`s ever made with their `calling_` and `removing_`
flags, whether they are still allocated and how often `OnRemove` was called;
`hashed` is the table `watches_`, `sources` what glib has, `mutex` its holder.
`stack` is the main thread: a callback, the code after it, an `OnRemove`, the
destructor.

| action | code |
|---|---|
| `AddWatch`, `AddInThread`, `AddedInThread` | `AddIOWatch`, `AddTimeoutWatch`: on a worker thread the source may fire before the node is in the table |
| `RemoveWatch` | marks a watch that is being called, removes any other |
| `Callback`, `CallReturns`, `RemoveWatchNode`, `OnRemoveReturns` | `IOWatchCallback`, `TimeoutCallback`, `RemoveWatchNode` |
| `Destroy`, `ForeachRemoveCallback`, `Destroyed` | `~Impl` |

The loop is deleted when no callback runs, which is what the hosts do.

### BrowserRpc

`host` and `child` are the call stacks of the two processes, `down` and `up` the
pipes, `up_buffer`, `down_buffer` what was read and not processed, `elements`
and `pages` the browsers each side thinks there are, `forced` is
`command_start_time_ == 0` (all recursions are to break), `reply` is `g_reply`.
A message is a number and a reply carries the number of what it answers, which
the code's replies do not: the properties compare it, no action looks at it.

| action | code |
|---|---|
| `StartChild`, `NewBrowser`, `CallBrowser`, `CloseBrowser` | `EnsureBrowser`, `StartChild`, `AddBrowserElement`, `CloseBrowser`, `SendCommandBuffer` up to its poll |
| `ReadUpPipe`, `ReadFails`, `TakeUp`, `HostAnswers`, `ReadEnds` | `ReadUpPipe`, `ProcessFeedback`, the loop of `SendCommandBuffer` |
| `GiveUp`, `TimesOut`, `PingTimerCallback` | a command without reply, `StopChild` |
| `OnDownFDReady`, `TakeDown`, `ChildAnswers`, `ChildReadEnds` | `OnDownFDReady`, `ProcessCommand` in the child |
| `FeedbackOfScript`, `FeedbackOfEvent`, `CheckController`, `FeedbackReturns` | `SendFeedbackBuffer`, `CheckController` |
| `Crash` | the child dies |

A message is written and read whole (`ReadUpPipe(j)` takes any number of them);
what the calls carry, XEmbed and the engine are left out.

### ViewEvents

`focused`, `mouseover`, `grab` and `dragover` are the `ElementHolder`s of the
view; `status[e]` says whether an element is enabled, disabled, hidden or
deleted; `has`, `hovered` and `dragged` record what elements' handlers were last
told.  `targets` is the set of elements with `drop_target_`; only they are told
of drags (`TellDrag`), and `dragged` forgets an element that stops being one.
`stack` has a frame for every method that waits for a handler, with the
elements it holds in holders of its own; each frame goes on in an action named
after the place (`SetFocus.out` in `SetFocusLeft`, and so on).

| action | code |
|---|---|
| `SetFocus`, `SetFocusLeft`, `SetFocusEntered`, `SetFocusIsBack` | `View::Impl::SetFocus` at each handler it calls |
| `ViewFocusIn`, `ViewFocusedIn`, `ViewFocusOut`, `ViewOpen`, `ViewOpened` | `OnOtherEvent` |
| `KeyEvent`, `KeyToElement`, `KeyDropsFocus`, `KeyTab` | `OnKeyEvent`, the tab keys |
| `MouseEvent`, `MouseEntered`, `MouseToGrab`, `MouseGrabbed`, `MouseCanceled`, `MouseLeavesView`, `MouseLeftView` | `OnMouseEvent` of the view |
| `MouseToChildren`, `MousePressed`, `MouseFired`, `MouseLeft` | `SendMouseEventToChildren`, `BasicElement::OnMouseEvent`, `Elements::OnMouseEvent` |
| `DragMotion`, `DragLeft`, `DragOutOrDrop`, `DragGone`, `TellDrag` | `OnDragEvent` of the view and of an element |
| `RemoveElement`, `SetStatus`, `SetDropTarget`, `ScriptSetsFocus`, `HandlerReturns` | what a handler's script does |

Elements lie side by side: containers, popup and tooltip elements are left out,
and so is an element that is hidden and disabled at once.  Host windows tell
FOCUS_IN and FOCUS_OUT in turn.  A deleted element's address does not return.

## 3. Runs

| run | asks | bounds |
|---|---|---|
| `manager` | do table, options, files and registry stay consistent without a restart? | 2 gadgets (1 with a file, 1 local), 3 slots, scores below 4, 3 nested calls |
| `manager_restart` | and when the program ends at any point? Do the host's gadgets match the active instances, and does a late veto hit its own? | 2 slots, local gadgets, options files that initialise |
| `manager_veto_ignored` | is a handler's refusal obeyed when an instance is updated? (no) | 2 slots, 2 nested calls |
| `signals` | does the vector implement the multicast? | 4 connections, 3 nested emissions |
| `xhr` | asynchronous requests | 3 requests and transfers on 2 addresses, 2 pieces of body or trailers, 3 nested calls |
| `xhr_sync` | synchronous and asynchronous requests: does every request end? | 2 requests on 2 addresses, handlers that show dialogs |
| `metadata` | is the catalogue without gaps and the next update always on its way? | 2 plug-ins, 3 releases, 3 days, retries of 5 to 10 units, 2 starts |
| `metadata_fair` | do the server's news arrive? | 1 plug-in, 2 releases |
| `main_loop` | is every watch removed once, and in the end? | 4 watches, 4 frames, 2 worker threads |
| `browser` | does each call get its own reply, and end? | 2 browsers, 6 messages, 2 children |
| `browser_ping` | does a ping tell a dead controller from a busy one? (no) | the same |
| `view` | do focus, hover and drag match what elements were told? | 3 elements, all drop targets at first, 3 frames below a handler that calls the view |

Why the bounds are enough.  *Manager:* two slots are needed for "another
instance of the same gadget", three for a middle one that is freed and reused
while the last one keeps the array long; a threshold of 4 (64 in the code) has
one score between the first and the last, which is all the comparisons tell
apart; three nested calls let a call nest in a nested one.  *Signals:* four
connections let one before, the current one, one after and one new connection
take part at once; three emissions give an outermost, a middle and an innermost
one.  *Requests:* three requests on two addresses force an address to return
while tasks of its earlier owner are still queued; two pieces of body allow one
before and one after the state changes; a depth of three allows a handler inside
a handler's call.  *Metadata:* two plug-ins, one of which may be changed, withdrawn
or listed again while the other is not; releases on the day of the latest one
and on the next; a base interval of 5 is the least whose 20% is not zero, and
doubling it reaches the maximum.  *Main loop:* four watches are a callback, one
nested in it, the one it removes, and one that a thread adds meanwhile.
*Browser:* six messages are a command, a feedback in it, a command in that, a
timeout, a late answer and one more; two children let one start after the other
was stopped.  *View:* the old element, the new one and one that a handler acts
on.

`CHECK_DEADLOCK FALSE` is said where the system really may stop: a deleted
signal, a dropped request object and a deleted main loop do nothing any more, a
view whose elements are all gone may have nothing to do, and the numbers of
requests, days, starts and messages are bounded.

**What the habits leave out.**  Several modules have a constant that says what
scripts and pages do, because the code does not withstand everything.

* *Requests* (`Usual`): abort in any handler; open, send and abort when the
  request is done.  In `xhr` no handler shows a dialog: with one, `RefsCover` and
  `Asserted` are false of the code, see below.  `xhr_sync` has them (`Dialogs`).
  The script lets go of the object (`DropObject`) only when no call is running:
  a handler that runs has it as `this`.
* *Browser* (`Orderly`): either calls nested in each other, or one side that acts
  on its own while nothing is nested.  When both cross, replies are swapped: see
  `browser_ping` and below.
* *Views* (`Orderly`): handlers remove, hide and disable elements, make them drop
  targets or not, move the focus, cancel, show dialogs, except that handlers of
  FOCUS_IN and FOCUS_OUT do not move the focus or remove their own element, none
  cancels the MOUSE_OUT of the view, and dialogs are shown in handlers of clicks
  and keys only.

**What two runs disagree about.**  `manager_veto_ignored`:
`UpdateGadgetInstances` drops the answer of the handler, so an updated gadget
that the host refuses to load stays active.  `browser_ping`: a command that
arrives while the child's ping waits is served inside the wait; if its page
calls the host, the acknowledgement of the ping ends that call and the ping
takes the call's reply for a sign that the controller is dead.

**Fairness.**

* `xhr_sync`: weak fairness of the main thread as a whole (the main loop
  dispatches every idle source in turn and handlers return) and of the end of
  each transfer (`curl_easy_perform` returns: a connect timeout is set, and a
  server that sends for ever is outside what the code can promise).  No fairness
  of the script, nor of the arrival of data.
* `metadata_fair`: the timer fires (weak); time and again the backoff lets a
  request through, the server answers, and its answer parses (strong, since
  failures and restarts come in between).  `NewsArrive` leaves out the case
  `Lost`, see below.
* `main_loop`: at every depth of nesting a callback returns in the end, although
  it may run the loop any number of times before (strong, by depth); a thread
  inside the mutex goes on (weak).
* `browser`: each side processes what it has (weak, per side).  A timeout is
  never forced, so `CommandsEnd` does not rest on it: without a crash every
  command ends because its answer comes.

**Observed while modelling and not kept as runs.**

*Manager.*  `TrimInstanceStatuses` leaves an array of empty slots alone and stores
a size where the header speaks of an id.  `SaveGadget` while a call for a new
instance waits for its handler reloads that instance, so that the veto may hit
an instance that was loaded again.

*Signals.*  `GetConnectionCount` counts the holes of an emission under way.

*Requests* (`curl_xml_http_request.cc`).  `send()` in the handler of `send()`
(line 350): two transfers on one handle, cleaned up twice.  A handler that
restarts the request when the headers are there (552): the task that called it
then ends the new request.  A handler that opens and sends when an `open()`
aborted its request (197): that request never ends and the object cannot send
any more.  A synchronous request's handle is not cleaned up (716).  A handler
that shows a dialog: the main loop inside it runs the last task, which deletes
the object below its own method (585), if the script has let it go; and a body
task that runs inside the handler of HEADERS_RECEIVED comes to the assertion of
LOADING in `WriteBody` (694).  Trailers of a chunked body come by
`WriteHeaderCallback` after the body, when the assertion of OPENED in
`WriteHeader` fails (633); `Asserted` speaks of the header before the body.  A
synchronous request that is aborted in a handler goes on into the assertion of
`WriteBody`.  `send_flag_` is reset after a synchronous send even when its last
handler started an asynchronous one.

*Metadata.*  `latest_plugin_time_` advances while an answer is parsed that later
fails (`gadgets_metadata.cc:301`), and a plug-in that was withdrawn and is
listed again comes as a partial record that only a full update can complete:
`NoGap` therefore speaks of plug-ins of which the client has a record, and of
what a full update leaves.  A request whose `Open` or `Send` fails at once stays
in `request_` and never calls back (`gadgets_metadata.cc:421-427`):
`updating_metadata_` then stays set, nothing arms the timer again and the
catalogue is never freed until the program is started anew.  `Lost` names that
state; `Awaited` and `NewsArrive` promise nothing in it.

*Browser.*  Frames of a stopped child's commands give up only when they are on
top, and an answer of a child started meanwhile can end them.  A late answer is
taken by the next nested command while all recursions are to break; the
outermost stops the child afterwards.  A feedback about a browser that is
closed gets no reply.  Of two replies that are read together the last is kept.
A browser beyond `kMaxBrowsers` is refused without an error.

*Views.*  An element that removes itself in its `onfocusin` or `onfocusout` is
touched afterwards (`basic_element.cc:1061`, `1067`; a press holds it, 899-903).
An element whose `dropTarget` a handler clears while something is dragged over it
is never told that the drag left or dropped (`basic_element.cc:969`): `DragTold`
speaks of the elements that have been drop targets since they were told.
A `SetFocus` in an `onfocusout` leaves an element that is never told FOCUS_OUT;
an `onfocusin` that moves the focus and cancels gives it to the old element
again; falling back to a disabled old element tells it nothing.  Cancelling the
view's MOUSE_OUT leaves an element hovered.  A dialog in a handler of MOUSE_OUT
or of a drop leaves hover and drag as they were.  `SetFocus` sends FOCUS_OUT also
in a view without focus.  Shift-Tab from the first child skips a container that
could take the focus itself.  A nested `Alert` resets `safe_to_destroy_` for the
outer one (`view.cc:2170`).

*Main loop.*  The branch of `RemoveWatchNode` for a watch already marked is not
reached: every caller resets the mark or makes it itself.

## 4. Proofs

All proofs are for every value of the constants, under the named assumptions
`ConstantsAssumption`, `SignalAssumption`, `MetadataAssumption`,
`XhrAssumption`, `MainLoopAssumption`, `BrowserRpcAssumption`, `ViewAssumption` and `HabitAssumption`.  All but the last
only bound the constants to the kinds of values the code has (`MaxDepth >= 2` of
the main loop: an `OnRemove` inside the destructor has a frame).

* `GadgetManager_proof`.  `IInv` is `TypeOK`, the shape of the table
  (`TableOK`: gadget ids exactly where a slot is used, an inactive instance
  alone with its gadget) for the table in memory *and* for the one last flushed,
  `ActiveSetExact` and `MaxIdCovers`.  The flushed table has to be in it because
  a restart reads it back; the shape because ageing and reuse look for "the"
  inactive instance.  One lemma per operation, `Invariance` joins them, and four
  theorems follow: `TypeCorrect`, `InactiveInstanceIsOnly`, `ActiveSetIsExact`,
  `StoredMaxCovers`.
  From the same invariant: `RefinesRegistry`, every step
  of the manager is a registry step or a stutter (`RemoveInternal` is `Remove`,
  whose lost gadgets are those of the expiring instances; `Reuse` and `Create`
  are `Add`; all handler and loop steps but `Veto` stutter).  The invariant is
  needed because the registry keeps settings per gadget and the table per slot:
  only since an inactive instance is alone with its gadget does a slot that
  changes take exactly one gadget with it.  `IdsAreOfUsedSlots` and
  `FilesOfActiveAreKept` (an expiring gadget has no active instance) follow too.
  Between manager and host: `OptionsFilesAreOwned` is proved for runs without a restart:
  the files are written at once and the table later, so a crash between the two
  breaks it.  `PendingCallsAreOwn` rests on `Held`, which says of the whole stack
  of calls, not only of its top, which instance each waits for, that it is not
  loaded, and that no two calls wait for the same one; `ActiveInstancesAreLoaded`
  on `Reached`, which says which active instances a call on the stack has still
  to load.  Both assume that every gadget is local, because an update in place
  reloads an instance whose first handler has not answered, and ignores a veto
  (`manager_veto_ignored`); the second also assumes that options files
  initialise, because the code leaves a reused instance active when they do not.
* `Signals_proof`.  `IInv` is `TypeOK`, `IndexInside`, `FlagOfOutermost` and
  `Shape` (frames within the bound, the vector no longer than the connections
  made, no holes when no emission is under way).  The facts about `Erase`, a
  recursive function over the vector, are proved by the least counterexample
  (`LeastNat`, from the well-foundedness of the naturals).  Theorems:
  `TypeCorrect`, `NeverPastTheVector`, `DeletionIsSeen`, `HolesAreSwept`, and the
  refinement `RefinesMulticast`.  That one needs `MadeOK` (connections are
  numbered as they are made, so a new one is in no vector and has no slot) and
  what erasing does to a part of the vector: it works part by part
  (`EraseConcat`), two erasures commute, and the holes of a disconnected
  element, once left out, leave what erasing the element would (`EraseHollowed`).
  Every action is an action of `Multicast` of the same name, except that a round
  of the loop over a hole and the sweep at the end are not seen.
* `MetadataUpdate_proof`. Two invariants. `Schedule` says what `retry_timeout_`
  and the two stored options can be together, also those last flushed, which a
  restart reads, and which stages of a request go with `updating_metadata_`; the
  arithmetic of `Randomize` is a lemma of its own. It gives `AlwaysAwaited`,
  `RetriesBounded` and `AttemptsRemembered`. `Data` says that where a record of
  the client's, in memory, in the file or in an answer, is not the newest one, the
  newest is as late as any day the client knows of, so that the next query, which
  goes one day back, asks for it again; and that the partial records of an answer
  under way are ones the client has. It gives `NoGaps` and `MergesAreServed`, the
  claim that an update by differences leaves what the server had.
* `XMLHttpRequest_proof`.  `Inv` counts the references: one of the script, one of
  each asynchronous transfer whose DoneTask has not begun, and one of the DoneTask
  that is running.  That needs the order of the queue (`QueueOK`: nothing of a
  transfer follows its DoneTask, and no task is without one to come) and the shape
  of the stack (`FramesOK`: only the outermost call is a DoneTask's, and it lets go
  of its reference last; a call that performs a transfer works for a synchronous
  one).  It holds whatever the script calls in its handlers, if none of them shows a
  dialog (`NoDialogs`): then tasks run only when no call is on the stack
  (`Outermost`).  Theorem: `ObjectOutlivesTransfers`.
* `XMLHttpRequestOrder_proof`. `OInv` adds to `Inv` what ties the handles, the
  queue and the stack together. `StackOK`: which calls there can be (each as what
  it has left to do), which of them may run in whose handler, and what the one on
  top may rely on: a task in the middle of its work (`Working`) finds the request
  given up (`Quiet`), or open again under another address (`Stale`, which the
  comparison in `DoneTask` sees), or still its own (`Current`). `HandleOK`: the
  allocated handles are those of the transfers that have to report, each its own,
  and the current one; the one address that is in use and yet free is that of a
  request whose DoneTask is running (`Dangling`), and nothing opens before it
  ends. `HeaderOK`: the header comes first and only once (trailers are tasks of
  another kind), and is expected in OPENED. `StateOK`: what `state_`, `send_flag_`
  and the data can be together. Theorems: `HandlesAreSafe`, `NoHandleLeaks`,
  `SentRequestIsServed`, `DataIsOwn`, `AssertionsHold`, and the action property
  `OnlyItsOwnEnd`. They assume `Orderly`: requests are asynchronous, no handler
  shows a dialog, and a script opens again only in handlers of OPENED and DONE and
  does not send in the handler of the first. None of this can be dropped: with an
  `open` in a handler of HEADERS_RECEIVED, of LOADING or of the DONE of an abort,
  or a `send` in one of OPENED, TLC finds `HandlesSafe` violated (two transfers
  share a handle, or one is sent that was cleaned up), and with synchronous
  requests, or with dialogs, `Asserted`.
* `MainLoop_proof`.  `LoopInv` has one part per watch (a node is marked for a reason
  that is on the stack; it has a source and an entry, or a frame that will take
  them away) and one per frame (it is the only one of its watch, which is still
  there).  Lemmas for pushing,
  popping and exchanging a frame carry it through the actions.  Theorems:
  `EachRemovedOnce`, `FramesAreSafe`, `NoneLeft`.
* `ViewEvents_proof`.  `ViewInv` says that a method that takes up the telling of
  elements where it left off (`Tells`) has nothing above it but changes of focus
  and handlers that cannot run the main loop, and what elements were told in the
  meantime.  That no other event comes in between is `HabitAssumption`: dialogs
  in handlers of clicks and keys only, and the view's MOUSE_OUT is not cancelled.
  Theorems: `HoverIsTold`, `DragIsTold`.

  `FocusInv` says that the stack is in one of four shapes, all but the top of it
  frames that have nothing to do with the focus: `AtRest`, and then `has` is what
  the view holds; the handler of the view's own FOCUS_OUT (`ViewParts`); a method
  that changes the focus with the handler it called (`HandlerTold`), or alone
  after that (`MethodTold`), with what the method relies on: while an element is
  left, nobody has the focus and the frame remembers who did; while one is
  entered, it is the only one told and still the focused one, unless it was
  deleted.  Theorem: `FocusIsTold`, under `FocusHabits`: handlers of FOCUS_IN and
  FOCUS_OUT do not move the focus, and either no handler disables an element, or
  none cancels FOCUS_IN and no handler of FOCUS_OUT hides or disables one (then
  SetFocus never has to go back to an element that may have been disabled
  meanwhile, which takes no FOCUS_IN yet stays `focused_element_`).  TLC finds
  `FocusTold` violated when any one of these is dropped.  The run's habits fulfil
  `FocusHabits` (`OrderlyAssumption`, which TLC evaluates).  A handler that
  deletes its own element is allowed in the theorem, but `OnOtherEvent` of the
  code then touches the deleted element (see the hazards).

* `BrowserRpc_proof`.  A reply names no call, so who gets which is a fact about
  both stacks, both pipes and both buffers at once.  `CallsInv` has a part for
  each of two kinds of habits.  If calls nest (`Nests`: nothing happens in a page
  of its own accord and no ping is due), the two stacks below the innermost call
  are `Linked`, the least relation that holds of two empty stacks and is closed
  under pushing a served command with its feedback on the one and the same
  feedback, served, on the other; and the innermost call is in one of six phases
  (`Phase`: none, its message under way, served, called back, the reply to that,
  its own reply), each of which says what the pipes, the buffers, `reply` and the
  pages are.  If calls cross (`Crosses`: no page calls the host while the host
  waits for it, nothing happens in a child that waits, and not both events come
  and their handlers call), at most one command and one message of the child are
  under way, each as exactly one of message, frame, reply or result (`Asked`,
  `Told`), and what is in the pipes are these, in some order (`Holds`).  In both
  cases the invariant goes on over a child that dies, that is stopped under a
  waiting command (`Stopped`, `Abandoned`: nothing is left of it, `Empty`), and
  over a timeout, after which all recursions are to break (`Doomed`: until the
  outermost command has ended anything may be in the pipes, but that one reads
  no reply).  Theorems, without a hypothesis: `BrowserCallsInvariant` and, with
  it, `TypeCorrect` (a message that opens a page has a number that was given); from
  it `CommandRepliesAreOwn`, `FeedbackRepliesAreOwn`, `BrowserNeverDeadlocks` and
  `BrowserPagesMatch` under `OneCalls`: every habit is of one of the two kinds.
  The run's are (`OrderlyAssumption`, which TLC evaluates).  The hypothesis
  cannot be weakened: a habit is of neither kind only if it has one of five pairs,
  and for each of them TLC finds a violation within the run's bounds: events or pings with pages that
  call the host, or events that come while the child waits (`FeedbackGetsOwn`);
  pings that come while it waits (`NoMutualWait`); events with handlers that call
  (`CommandGetsOwn`).  The second of them is the finding `browser_ping`.

Every invariant and action property that a passing run checks is a theorem.
Out of the prover's reach and left to TLC: liveness under fairness (`SentEnds`,
`NewsArrive`, `RemovalHappens`, `CommandsEnd`).

## 5. Not modelled, and plan

The repository is large, and most of it is conversion (XML, strings, locales,
numbers), drawing and layout for three toolkits, bindings of four script engines
and bundled gadgets in JavaScript.  These parts are sequential, or their hard
part is a foreign library, and the repository's unit tests reach them.  The
project concentrates on the parts whose difficulty is order and nesting.

Next, in this order:

1. `Options` - dirty flag, flush, deletion, the object shared by name, and the
   quota of the memory options; composed with `GadgetManager` in place of
   `Flush`.
2. `Backoff` - failures and next tries per host, stored and read back, in place of
   the choice in `MetadataUpdate`.
3. `ImageCache`, `RunOnce` - small modules with one invariant each.
4. Containers in `ViewEvents`.

Five hazards have no property yet and say why in `PROJECT.json`: the options
file that fails in a reused instance and the file that is deleted before the
table is flushed (the properties that state them are checked without those
faults, since the code does not survive them), an element that deletes itself in
its focus handler, the socket of `run_once.cc`, and the shared empty key of
`image_cache.cc`.

Not planned: layout, drawing and toolkits, script engines and their garbage
collectors, media, D-Bus services, pure data conversion, and the bundled gadgets.
