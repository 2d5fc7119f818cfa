---------------------------- MODULE MCViewEvents ----------------------------
(* Three elements, drop targets at first.  Handlers remove, hide and        *)
(* disable elements, make them drop targets or not, move the focus, cancel  *)
(* events and show dialogs, except for what the code does not withstand     *)
(* (see the README): a handler of FOCUS_IN or FOCUS_OUT that moves the      *)
(* focus or removes its own element, one that cancels the view's MOUSE_OUT, *)
(* a dialog in a handler of anything but a click or a key.                  *)
EXTENDS ViewEvents, TLC

Commands == {"mouse", "key", "viewkey", "viewmouse", "viewopen", "dragdrop"}
Hovers == {"over", "out", "viewout", "dragover", "dragout"}
Deeds ==
  (FocusEvs \X {"remove"}) \cup (Hovers \X {"focus", "remove", "removeSelf"})
  \cup (Commands \X {"focus", "removeSelf", "cancel"})
Cancels == (FocusEvs \X {"hide", "cancel"}) \cup ({"mouse", "viewkey"} \X {"hide"})
Disables == {"mouse", "viewkey", "over", "out"} \X {"disable"}
Dialogs == ({"mouse", "key"} \X {"dialog", "focus", "removeSelf"}) \cup Cancels
Retargets == {"dragover", "dragout", "dragdrop"} \X {"retarget"}
Drags ==
  Retargets \cup {<<"mouse", "retarget">>}
  \cup ({"dragover", "dragout", "dragdrop"} \X {"hide", "remove", "removeSelf"})
Orderly ==
  {Deeds \cup Cancels, Deeds \cup Disables, Dialogs, Drags, Retargets \cup {<<"mouse", "dialog">>}}
ASSUME OrderlyAssumption == FocusHabits
AllDroppable == {Elements}
Symmetry == Permutations(Elements)
=============================================================================
