------------------------------ MODULE ViewEvents ------------------------------
(***************************************************************************)
(* How a view hands events to its elements (ggadget/view.cc,               *)
(* basic_element.cc, elements.cc), and what the elements' handlers, which  *)
(* are scripts, do in between: remove, disable or hide elements, make them *)
(* drop targets or not, move the focus, cancel the event.  The view holds  *)
(* the element that has the focus, the one under the mouse, the one that   *)
(* grabbed the mouse and the one under a drag in ElementHolders, which a   *)
(* deletion resets.                                                        *)
(*                                                                         *)
(* The main thread is a stack of frames: a handler on top may run script;  *)
(* another frame goes on when what it called has returned.  Elements lie   *)
(* side by side (containers, popup and tooltip are left out); where the    *)
(* mouse is, is a choice of the element it hits.                           *)
(***************************************************************************)
EXTENDS Naturals, Sequences

CONSTANTS Elements,
          None,      \* no element
          Droppable, \* the sets of elements that may be drop targets at first
          MaxDepth,  \* bound on the frames below a handler that calls the view
          Habits     \* what handlers do in one behaviour: sets of <<event, deed>>

ASSUME ViewAssumption ==
  None \notin Elements /\ MaxDepth \in Nat /\ Droppable \subseteq SUBSET Elements

(* No handler of a change of hover shows a dialog, and none cancels the     *)
(* event that tells the view that the mouse has left it.                    *)
ASSUME HabitAssumption ==
  \A h \in Habits : \A d \in h :
    /\ d[2] = "dialog" => d[1] \in {"mouse", "key"}
    /\ d[2] = "cancel" => d[1] # "viewout"

VARIABLES
  status,       \* of each element: "on", "off" (disabled), "hidden", "gone"
  focused,      \* focused_element_
  targets,      \* the elements with drop_target_
  viewFocused,  \* view_focused_
  mouseOver,    \* mouse_over_
  mouseover,    \* mouseover_element_
  grab,         \* grabmouse_element_
  dragover,     \* dragover_element_
  has,          \* the elements last told that they got the focus,
  hovered,      \* that the mouse is over them,
  dragged,      \* that something is dragged over them (drop targets since)
  stack,        \* the frames, outermost first
  ret,          \* whether the handler that returned last canceled its event
  habit         \* the habits of this behaviour

held == <<focused, mouseover, grab, dragover>>
told == <<has, hovered, dragged>>
vars == <<status, targets, viewFocused, mouseOver, held, told, stack, ret, habit>>

Holdable == Elements \cup {None}
ReallyEnabled(e) == status[e] = "on"
Enabled(e) == status[e] \in {"on", "hidden"}
Exists(e) == e # None /\ status[e] # "gone"

Mouse == {"over", "move", "drag", "down", "up", "click", "out"}

(* e and old are the elements a frame holds; src is a mere pointer: to the  *)
(* element whose code it is, or that had the focus when a key was pressed.  *)
At(at, ev) == [at |-> at, ev |-> ev, e |-> None, old |-> None, src |-> None]
Holding(at, ev, e) == [At(at, ev) EXCEPT !.e = e]
Handler(ev, e) == [At("handler", ev) EXCEPT !.src = e]

Depth == Len(stack)
Top == stack[Depth]
Below == SubSeq(stack, 1, Depth - 1)
Resumes(at) == Depth > 0 /\ Top.at = at
May(deed) == <<Top.ev, deed>> \in habit

Init ==
  /\ status = [e \in Elements |-> "on"] /\ targets \in Droppable
  /\ focused = None /\ mouseover = None /\ grab = None /\ dragover = None
  /\ viewFocused = FALSE /\ mouseOver = FALSE
  /\ has = {} /\ hovered = {} /\ dragged = {}
  /\ stack = <<>> /\ ret = FALSE /\ habit \in Habits

-----------------------------------------------------------------------------
(* OnOtherEvent, OnMouseEvent of an element: its handler is called, and s   *)
(* is what goes on when it returns.                                         *)
Fire(ev, e, s) ==
  /\ stack' = Append(s, Handler(ev, e))
  /\ has' = CASE ev = "focusin"  -> has \cup {e}
              [] ev = "focusout" -> has \ {e}
              [] OTHER           -> has
  /\ hovered' = CASE ev = "over" -> hovered \cup {e}
                  [] ev = "out"  -> hovered \ {e}
                  [] OTHER       -> hovered
  /\ dragged' = CASE ev = "dragover"              -> dragged \cup {e}
                  [] ev \in {"dragout", "dragdrop"} -> dragged \ {e}
                  [] OTHER                        -> dragged
  /\ UNCHANGED <<ret>>
Return(s) == stack' = s /\ UNCHANGED <<told, ret>>

(* OnDragEvent, a direct message: only drop targets have their handlers     *)
(* called.                                                                  *)
TellDrag(ev, e, s) == IF e \in targets THEN Fire(ev, e, s) ELSE Return(s)

(* A disabled element takes no FOCUS_IN, and does not cancel it. *)
FireFocusIn(e, resume, s) ==
  IF Enabled(e) THEN Fire("focusin", e, Append(s, resume)) ELSE Return(s)

-----------------------------------------------------------------------------
(* SetFocus, called by a frame that goes on with s.                         *)

(* The new element is gone, disabled, or has canceled its FOCUS_IN. *)
BackToMutant(old, s) == focused' = old /\ Return(s)
BackTo(old, s) ==
  /\ focused' = old
  /\ IF old = None THEN Return(s) ELSE FireFocusIn(old, At("SetFocus.back", "focus"), s)

Enter(e, old, s) ==
  IF viewFocused /\ e # None /\ ~ReallyEnabled(e)
  THEN BackTo(old, s)
  ELSE /\ focused' = e
       /\ IF viewFocused /\ e # None
          THEN Fire("focusin", e, Append(s, Holding("SetFocus.in", "focus", old)))
          ELSE Return(s)

SetFocus(e, s) ==
  IF e = focused \/ (e # None /\ ~ReallyEnabled(e))
  THEN Return(s) /\ UNCHANGED focused
  ELSE IF focused = None
  THEN Enter(e, None, s)
  ELSE /\ Fire("focusout", focused,
               Append(s, [Holding("SetFocus.out", "focus", e) EXCEPT
                            !.old = IF focused \in has THEN focused ELSE None]))
       /\ UNCHANGED focused

SetFocusLeft ==
  /\ Resumes("SetFocus.out")
  /\ IF ret
     THEN /\ stack' = Below /\ UNCHANGED <<focused, hovered, dragged, ret>>
          /\ has' = has \cup ({Top.old} \ {None})
     ELSE Enter(Top.e, focused, Below)
  /\ UNCHANGED <<status, viewFocused, mouseOver, mouseover, grab, dragover, targets, habit>>
SetFocusEntered ==
  /\ Resumes("SetFocus.in")
  /\ IF ret THEN BackTo(Top.e, Below) ELSE Return(Below) /\ UNCHANGED focused
  /\ UNCHANGED <<status, viewFocused, mouseOver, mouseover, grab, dragover, targets, habit>>
SetFocusIsBack ==
  /\ Resumes("SetFocus.back")
  /\ focused' = IF ret THEN None ELSE focused
  /\ Return(Below)
  /\ UNCHANGED <<status, viewFocused, mouseOver, mouseover, grab, dragover, targets, habit>>

-----------------------------------------------------------------------------
(* The script of a handler. *)
InHandler == Resumes("handler")
(* The main loop, also that of a dialog a handler shows (View::Alert). *)
MainLoopRuns == Depth = 0 \/ (InHandler /\ May("dialog") /\ Depth < MaxDepth)
SetStatus(e, to) ==
  /\ InHandler /\ Exists(e) /\ status[e] # to
  /\ \/ May("hide") /\ {to, status[e]} = {"on", "hidden"}
     \/ May("disable") /\ {to, status[e]} = {"on", "off"}
  /\ status' = [status EXCEPT ![e] = to]
  /\ UNCHANGED <<viewFocused, mouseOver, held, told, stack, ret, targets, habit>>

(* SetDropTarget; what an element was told of a drag before it was one is   *)
(* not counted.                                                             *)
SetDropTarget(e) ==
  /\ InHandler /\ Exists(e) /\ May("retarget")
  /\ targets' = IF e \in targets THEN targets \ {e} ELSE targets \cup {e}
  /\ dragged' = dragged \cap targets'
  /\ UNCHANGED <<status, viewFocused, mouseOver, held, has, hovered, stack, ret, habit>>

(* RemoveElement: the destructor resets every ElementHolder. *)
Without(e, h) == IF h = e THEN None ELSE h
RemoveElement(e) ==
  /\ InHandler /\ Exists(e)
  /\ May("remove") /\ (e = Top.src => May("removeSelf"))
  /\ status' = [status EXCEPT ![e] = "gone"]
  /\ focused' = Without(e, focused) /\ mouseover' = Without(e, mouseover)
  /\ grab' = Without(e, grab) /\ dragover' = Without(e, dragover)
  /\ has' = has \ {e} /\ hovered' = hovered \ {e} /\ dragged' = dragged \ {e}
  /\ stack' = [i \in 1 .. Depth |->
                 [stack[i] EXCEPT !.e = Without(e, @), !.old = Without(e, @)]]
  /\ UNCHANGED <<viewFocused, mouseOver, ret, targets, habit>>

(* Focus, KillFocus. *)
ScriptSetsFocus(e) ==
  /\ InHandler /\ May("focus") /\ Depth < MaxDepth /\ (e # None => Exists(e))
  /\ SetFocus(e, stack)
  /\ UNCHANGED <<status, viewFocused, mouseOver, mouseover, grab, dragover, targets, habit>>

HandlerReturns(canceled) ==
  /\ InHandler /\ (canceled => May("cancel"))
  /\ stack' = Below /\ ret' = canceled
  /\ has' = IF Top.ev = "focusin" /\ canceled THEN has \ {Top.src} ELSE has
  /\ UNCHANGED <<status, viewFocused, mouseOver, held, hovered, dragged, targets, habit>>

Script ==
  \/ \E e \in Elements : RemoveElement(e) \/ SetDropTarget(e)
  \/ \E e \in Elements, to \in {"on", "off", "hidden"} : SetStatus(e, to)
  \/ \E e \in Holdable : ScriptSetsFocus(e)
  \/ \E c \in BOOLEAN : HandlerReturns(c)

-----------------------------------------------------------------------------
(* OnOtherEvent of the view: FOCUS_IN and FOCUS_OUT. *)
ViewFocusIn ==
  /\ MainLoopRuns /\ ~viewFocused /\ viewFocused' = TRUE
  /\ IF focused # None /\ ReallyEnabled(focused)
     THEN /\ Fire("focusin", focused, Append(stack, At("View.focusin", "focus")))
          /\ UNCHANGED focused
     ELSE focused' = None /\ Return(stack)
  /\ UNCHANGED <<status, mouseOver, mouseover, grab, dragover, targets, habit>>
ViewFocusedIn ==
  /\ Resumes("View.focusin")
  /\ focused' = IF ret THEN None ELSE focused
  /\ Return(Below)
  /\ UNCHANGED <<status, viewFocused, mouseOver, mouseover, grab, dragover, targets, habit>>
ViewFocusOut ==
  /\ MainLoopRuns /\ viewFocused /\ viewFocused' = FALSE
  /\ IF focused # None THEN Fire("focusout", focused, stack) ELSE Return(stack)
  /\ UNCHANGED <<status, mouseOver, held, targets, habit>>

(* EVENT_OPEN: the first element that can have the focus gets it, if any.   *)
ViewOpen ==
  /\ MainLoopRuns
  /\ \E e \in {None} \cup {f \in Elements : ReallyEnabled(f)} :
       SetFocus(e, Append(stack, At("View.opened", "open")))
  /\ UNCHANGED <<status, viewFocused, mouseOver, mouseover, grab, dragover, targets, habit>>
ViewOpened ==
  /\ Resumes("View.opened")
  /\ Fire("viewopen", None, Below)
  /\ UNCHANGED <<status, viewFocused, mouseOver, held, targets, habit>>

(* OnKeyEvent; what MoveFocusForward and MoveFocusBackward find is a choice *)
(* of the elements.                                                         *)
KeyEvent ==
  /\ MainLoopRuns
  /\ Fire("viewkey", None, Append(stack, [At("Key.view", "key") EXCEPT !.src = focused]))
  /\ UNCHANGED <<status, viewFocused, mouseOver, held, targets, habit>>
KeyToElement ==
  /\ Resumes("Key.view")
  /\ IF ret \/ focused = None THEN Return(Below)
     ELSE IF ~ReallyEnabled(focused)
     THEN Fire("focusout", focused, Append(Below, At("Key.out", "key")))
     ELSE Fire("key", focused, Append(Below, [Top EXCEPT !.at = "Key.element"]))
  /\ UNCHANGED <<status, viewFocused, mouseOver, held, targets, habit>>
KeyDropsFocus ==
  /\ Resumes("Key.out")
  /\ focused' = None /\ Return(Below)
  /\ UNCHANGED <<status, viewFocused, mouseOver, mouseover, grab, dragover, targets, habit>>
KeyTab ==
  /\ Resumes("Key.element")
  /\ \/ Return(Below) /\ UNCHANGED focused
     \/ /\ ~ret /\ Top.src = focused
        /\ \E e \in Elements \ {focused} : ReallyEnabled(e) /\ SetFocus(e, Below)
  /\ UNCHANGED <<status, viewFocused, mouseOver, mouseover, grab, dragover, targets, habit>>

-----------------------------------------------------------------------------
(* OnMouseEvent of the view.  "move" has no button down, "drag" the left    *)
(* one; entering the view is first told as a move of its own.               *)
ToView(ev, s) ==
  Fire(IF ev = "out" THEN "viewout" ELSE "viewmouse", None, Append(s, At("Mouse.view", ev)))
MouseEvent(ev) ==
  /\ MainLoopRuns
  /\ ev = "out" => mouseOver
  /\ ev = "over" => ~mouseOver
  /\ mouseOver' = (ev # "out")
  /\ IF mouseOver THEN ToView(ev, stack)
     ELSE IF ev = "over" THEN ToView("move", stack)
     ELSE ToView("move", Append(stack, At("Mouse.first", ev)))
  /\ UNCHANGED <<status, viewFocused, held, targets, habit>>
MouseEntered ==
  /\ Resumes("Mouse.first")
  /\ ToView(Top.ev, Below)
  /\ UNCHANGED <<status, viewFocused, mouseOver, held, targets, habit>>

(* SendMouseEventToChildren. *)
GrabTakes(ev) ==
  grab # None /\ (Enabled(grab) \/ ev = "up") /\ ev \in {"drag", "up", "click"}
MouseToGrab ==
  /\ Resumes("Mouse.view") /\ ~ret /\ GrabTakes(Top.ev)
  /\ Fire("mouse", grab, Append(Below, [Top EXCEPT !.at = "Mouse.grabbed"]))
  /\ UNCHANGED <<status, viewFocused, mouseOver, held, targets, habit>>
MouseGrabbed ==
  /\ Resumes("Mouse.grabbed")
  /\ grab' = IF Top.ev = "click" THEN None ELSE grab
  /\ Return(Below)
  /\ UNCHANGED <<status, viewFocused, mouseOver, focused, mouseover, dragover, targets, habit>>
MouseCanceled ==
  /\ Resumes("Mouse.view") /\ ret
  /\ Return(Below)
  /\ UNCHANGED <<status, viewFocused, mouseOver, held, targets, habit>>
MouseLeavesView ==
  /\ Resumes("Mouse.view") /\ ~ret /\ Top.ev = "out"
  /\ grab' = None
  /\ IF mouseover = None THEN Return(Below)
     ELSE Fire("out", mouseover, Append(Below, [Top EXCEPT !.at = "Mouse.out"]))
  /\ UNCHANGED <<status, viewFocused, mouseOver, focused, mouseover, dragover, targets, habit>>
MouseLeftView ==
  /\ Resumes("Mouse.out")
  /\ mouseover' = None /\ Return(Below)
  /\ UNCHANGED <<status, viewFocused, mouseOver, focused, grab, dragover, targets, habit>>

(* OnMouseEvent of the elements, the topmost first: the first that is       *)
(* enabled takes the event; a press gives it the focus before.              *)
MouseToChildren ==
  /\ Resumes("Mouse.view") /\ ~ret /\ Top.ev # "out" /\ ~GrabTakes(Top.ev)
  /\ grab' = None
  /\ \E e \in {None} \cup {f \in Elements : ReallyEnabled(f)} :
       LET fired == Append(Below, Holding("Mouse.fired", Top.ev, e))
           pressed == Append(Below, Holding("Mouse.pressed", Top.ev, e))
       IN CASE e = None                     -> Return(fired) /\ UNCHANGED focused
            [] e # None /\ Top.ev = "down" -> SetFocus(e, pressed)
            [] OTHER                        -> Fire("mouse", e, fired) /\ UNCHANGED focused
  /\ UNCHANGED <<status, viewFocused, mouseOver, mouseover, dragover, targets, habit>>
MousePressed ==
  /\ Resumes("Mouse.pressed")
  /\ LET fired == Append(Below, [Top EXCEPT !.at = "Mouse.fired"])
     IN IF Top.e = None THEN Return(fired) ELSE Fire("mouse", Top.e, fired)
  /\ UNCHANGED <<status, viewFocused, mouseOver, held, targets, habit>>

(* The element that took the event is the one under the mouse now; a press  *)
(* of the left button makes it grab the mouse, one of another does not.     *)
FireOver(e, s) == IF e # None /\ Enabled(e) THEN Fire("over", e, s) ELSE Return(s)
MouseFiredMutant ==
  /\ Resumes("Mouse.fired")
  /\ LET fired == Top.e
     IN /\ grab' \in {grab} \cup IF Top.ev = "down" /\ fired # None THEN {fired} ELSE {}
        /\ mouseover' = fired
        /\ CASE fired = mouseover -> Return(Below)
             [] fired # mouseover /\ mouseover # None ->
                  Fire("out", mouseover, Append(Below, [Top EXCEPT !.at = "Mouse.left"]))
             [] OTHER -> FireOver(fired, Below)
  /\ UNCHANGED <<status, viewFocused, mouseOver, focused, dragover, targets, habit>>
MouseFired ==
  /\ Resumes("Mouse.fired")
  /\ LET fired == Top.e
     IN IF ~mouseOver
        THEN Return(Below) /\ UNCHANGED <<grab, mouseover>>
        ELSE /\ grab' \in {grab} \cup IF Top.ev = "down" /\ fired # None THEN {fired} ELSE {}
             /\ mouseover' = fired
             /\ CASE fired = mouseover -> Return(Below)
                  [] fired # mouseover /\ mouseover # None ->
                       Fire("out", mouseover, Append(Below, [Top EXCEPT !.at = "Mouse.left"]))
                  [] OTHER -> FireOver(fired, Below)
  /\ UNCHANGED <<status, viewFocused, mouseOver, focused, dragover, targets, habit>>
MouseLeft ==
  /\ Resumes("Mouse.left")
  /\ FireOver(mouseover, Below)
  /\ UNCHANGED <<status, viewFocused, mouseOver, held, targets, habit>>

-----------------------------------------------------------------------------
(* OnDragEvent of the view; a motion finds a visible drop target. *)
Visible(e) == status[e] \in {"on", "off"}
DragMotionMutant ==
  /\ MainLoopRuns
  /\ \E e \in {f \in targets : Visible(f)} :
       /\ e # dragover /\ dragover' = e
       /\ TellDrag("dragover", e, stack)
  /\ UNCHANGED <<status, viewFocused, mouseOver, focused, mouseover, grab, targets, habit>>
DragMotion ==
  /\ MainLoopRuns
  /\ \E e \in {None} \cup {f \in targets : Visible(f)} :
       /\ e # dragover /\ dragover' = e
       /\ IF dragover # None
          THEN TellDrag("dragout", dragover, Append(stack, At("Drag.left", "motion")))
          ELSE TellDrag("dragover", e, stack)
  /\ UNCHANGED <<status, viewFocused, mouseOver, focused, mouseover, grab, targets, habit>>
DragLeft ==
  /\ Resumes("Drag.left")
  /\ IF dragover # None /\ Visible(dragover)
     THEN TellDrag("dragover", dragover, Below) /\ UNCHANGED dragover
     ELSE Return(Below) /\ dragover' = None
  /\ UNCHANGED <<status, viewFocused, mouseOver, focused, mouseover, grab, targets, habit>>
DragOutOrDrop ==
  /\ MainLoopRuns /\ dragover # None
  /\ \E ev \in {"dragout", "dragdrop"} :
       TellDrag(ev, dragover, Append(stack, At("Drag.out", ev)))
  /\ UNCHANGED <<status, viewFocused, mouseOver, held, targets, habit>>
DragGone ==
  /\ Resumes("Drag.out")
  /\ dragover' = None /\ Return(Below)
  /\ UNCHANGED <<status, viewFocused, mouseOver, focused, mouseover, grab, targets, habit>>

-----------------------------------------------------------------------------
ViewMethods ==
  \/ SetFocusLeft \/ SetFocusEntered \/ SetFocusIsBack
  \/ ViewFocusedIn \/ ViewOpened \/ KeyToElement \/ KeyDropsFocus \/ KeyTab
  \/ MouseEntered \/ MouseToGrab \/ MouseGrabbed \/ MouseCanceled
  \/ MouseLeavesView \/ MouseLeftView \/ MouseToChildren \/ MousePressed
  \/ MouseFired \/ MouseLeft
  \/ DragLeft \/ DragGone
Events ==
  \/ ViewFocusIn \/ ViewFocusOut \/ ViewOpen \/ KeyEvent
  \/ \E ev \in Mouse : MouseEvent(ev)
  \/ DragMotion \/ DragOutOrDrop
Next == Script \/ ViewMethods \/ Events
Spec == Init /\ [][Next]_vars

-----------------------------------------------------------------------------
TypeOK ==
  /\ status \in [Elements -> {"on", "off", "hidden", "gone"}] /\ targets \subseteq Elements
  /\ {focused, mouseover, grab, dragover} \subseteq Holdable
  /\ viewFocused \in BOOLEAN /\ mouseOver \in BOOLEAN /\ ret \in BOOLEAN
  /\ has \cup hovered \cup dragged \subseteq Elements

(* The habits under which the focus is told: a handler of FOCUS_IN or of    *)
(* FOCUS_OUT does not move the focus, and either no handler disables an     *)
(* element, or none cancels FOCUS_IN and none of FOCUS_OUT hides or         *)
(* disables an element.                                                     *)
FocusEvs == {"focusin", "focusout"}
Lasting(h) == \A d \in h : d[2] # "disable"
Firm(h) == h \cap {<<"focusin", "cancel">>, <<"focusout", "hide">>, <<"focusout", "disable">>} = {}
Polite(h) ==
  /\ \A d \in h : d[1] \in FocusEvs => d[2] # "focus"
  /\ Lasting(h) \/ Firm(h)
FocusHabits == \A h \in Habits : Polite(h)

(* Between two events, no element but the focused one was last told that it *)
(* has the focus (two would both show a caret), and the focused element of  *)
(* a focused view was told so.                                              *)
FocusTold ==
  Depth = 0 =>
    /\ has \subseteq {focused}
    /\ viewFocused /\ focused # None /\ ReallyEnabled(focused) => focused \in has

(* Between two events, no element but the one under the mouse was last told *)
(* that the mouse is over it, and none once the mouse has left the view.    *)
HoverTold ==
  Depth = 0 => hovered \subseteq {mouseover} /\ (~mouseOver => hovered = {})

(* Between two events, no element but the one under a drag was last told    *)
(* that something is dragged over it, among those that have been drop       *)
(* targets ever since.  (An element whose dropTarget is cleared after it    *)
(* was told is never told that the drag is over.)                           *)
DragTold == Depth = 0 => dragged \subseteq {dragover}
=============================================================================
