-------------------------- MODULE ViewEvents_proof --------------------------
(***************************************************************************)
(* Proofs about ViewEvents: what elements were told of the mouse, of a     *)
(* drag and of the focus agrees with what the view holds.                  *)
(***************************************************************************)
EXTENDS ViewEvents, SequenceTheorems, TLAPS

Ats ==
  {"handler", "SetFocus.out", "SetFocus.in", "SetFocus.back", "View.focusin", "View.opened",
   "Key.view", "Key.out", "Key.element", "Mouse.first", "Mouse.view", "Mouse.grabbed",
   "Mouse.out", "Mouse.pressed", "Mouse.fired", "Mouse.left", "Drag.left", "Drag.out"}
Evs ==
  Mouse \cup {"open", "viewopen", "focus", "focusin", "focusout", "key", "viewkey", "mouse", "viewmouse", "viewout",
              "motion", "dragover", "dragout", "dragdrop"}
Frame == [at : Ats, ev : Evs, e : Holdable, old : Holdable, src : Holdable]

(* A frame that takes up the telling of an element where it left off: until *)
(* then only handlers without dialogs, and changes of the focus, run.       *)
TellsOut(f) == f.at = "Mouse.view" /\ f.ev = "out"
Tells(f) == f.at \in {"Drag.left", "Drag.out", "Mouse.left", "Mouse.out"} \/ TellsOut(f)
Quiet(f) ==
  \/ f.at \in {"SetFocus.out", "SetFocus.in", "SetFocus.back"}
  \/ f.at = "handler" /\ f.ev \notin {"mouse", "key"}

Stacked(s) ==
  \A i \in 1 .. Len(s) :
    /\ Tells(s[i]) => \A j \in i + 1 .. Len(s) : Quiet(s[j])
    /\ TellsOut(s[i]) /\ i < Len(s) => s[i + 1].at = "handler" /\ s[i + 1].ev = "viewout"
    /\ s[i].at = "Mouse.first" => s[i].ev # "out"
Calm(s) == \A i \in 1 .. Len(s) : ~Tells(s[i])
Came(s, t) ==
  \A i \in 1 .. Len(t) : Tells(t[i]) =>
    \E j \in 1 .. Len(s) : t[i].at = s[j].at /\ t[i].ev = s[j].ev
LastTellsOut(s) == Len(s) > 0 /\ TellsOut(s[Len(s)])

Typed ==
  /\ stack \in Seq(Frame) /\ habit \in Habits
  /\ focused \in Holdable /\ mouseover \in Holdable
  /\ grab \in Holdable /\ dragover \in Holdable
  /\ targets \subseteq Elements
Matched ==
  /\ hovered \subseteq {mouseover} \ {None}
  /\ dragged \subseteq {dragover} \ {None} /\ dragged \subseteq targets
TellingOK(f) ==
  /\ f.at \in {"Drag.left", "Drag.out"} => dragged = {}
  /\ f.at \in {"Mouse.left", "Mouse.out"} => hovered = {}
  /\ f.at = "Mouse.left" => mouseOver

ViewInv ==
  /\ Typed /\ Stacked(stack) /\ Matched
  /\ \A i \in 1 .. Depth : TellingOK(stack[i])
  /\ ~mouseOver => hovered = {} \/ \E i \in 1 .. Depth : TellsOut(stack[i])
  /\ LastTellsOut(stack) => ~ret

-----------------------------------------------------------------------------
(* Frames, and stacks that get or lose one. *)
LEMMA AtIn ==
  ASSUME NEW at \in Ats, NEW ev \in Evs
  PROVE  At(at, ev) \in Frame /\ At(at, ev).at = at /\ At(at, ev).ev = ev
<1>1. None \in Holdable
  BY DEF Holdable
<1> QED BY <1>1 DEF At, Frame

LEMMA HoldingIn ==
  ASSUME NEW at \in Ats, NEW ev \in Evs, NEW e \in Holdable
  PROVE  /\ Holding(at, ev, e) \in Frame
         /\ Holding(at, ev, e).at = at /\ Holding(at, ev, e).ev = ev
<1>1. None \in Holdable
  BY DEF Holdable
<1> QED BY <1>1 DEF At, Holding, Frame

LEMMA HandlerIn ==
  ASSUME NEW ev \in Evs, NEW e \in Holdable
  PROVE  /\ Handler(ev, e) \in Frame
         /\ Handler(ev, e).at = "handler" /\ Handler(ev, e).ev = ev
<1>1. None \in Holdable /\ "handler" \in Ats
  BY DEF Holdable, Ats
<1>2. At("handler", ev) \in Frame /\ At("handler", ev).at = "handler" /\ At("handler", ev).ev = ev
  BY <1>1, AtIn
<1> QED BY <1>2 DEF Handler, Frame

LEMMA Resourced ==
  ASSUME NEW f \in Frame, NEW o \in Holdable
  PROVE  /\ [f EXCEPT !.old = o] \in Frame
         /\ [f EXCEPT !.old = o].at = f.at /\ [f EXCEPT !.old = o].ev = f.ev
         /\ [f EXCEPT !.src = o] \in Frame
         /\ [f EXCEPT !.src = o].at = f.at /\ [f EXCEPT !.src = o].ev = f.ev
BY DEF Frame

LEMMA Renamed ==
  ASSUME NEW f \in Frame, NEW at \in Ats
  PROVE  /\ [f EXCEPT !.at = at] \in Frame
         /\ [f EXCEPT !.at = at].at = at /\ [f EXCEPT !.at = at].ev = f.ev
BY DEF Frame

LEMMA Pushed ==
  ASSUME NEW s \in Seq(Frame), NEW f \in Frame
  PROVE  /\ Append(s, f) \in Seq(Frame) /\ Len(Append(s, f)) = Len(s) + 1
         /\ Append(s, f)[Len(s) + 1] = f
         /\ \A i \in 1 .. Len(s) : Append(s, f)[i] = s[i]
OBVIOUS

LEMMA CameTwice ==
  ASSUME NEW s, NEW t, NEW u, Came(s, t), Came(t, u)
  PROVE  Came(s, u)
<1> SUFFICES ASSUME NEW i \in 1 .. Len(u), Tells(u[i])
             PROVE  \E k \in 1 .. Len(s) : u[i].at = s[k].at /\ u[i].ev = s[k].ev
  BY DEF Came
<1>1. PICK j \in 1 .. Len(t) : u[i].at = t[j].at /\ u[i].ev = t[j].ev
  BY DEF Came
<1>2. Tells(t[j])
  BY <1>1 DEF Tells, TellsOut
<1>3. PICK k \in 1 .. Len(s) : t[j].at = s[k].at /\ t[j].ev = s[k].ev
  BY <1>2 DEF Came
<1> QED BY <1>1, <1>3

(* A frame that tells nothing is pushed. *)
LEMMA PushFree ==
  ASSUME NEW s \in Seq(Frame), Stacked(s), NEW f \in Frame, ~Tells(f),
         f.at = "Mouse.first" => f.ev # "out",
         Quiet(f) \/ Calm(s),
         LastTellsOut(s) => f.at = "handler" /\ f.ev = "viewout"
  PROVE  /\ Append(s, f) \in Seq(Frame) /\ Stacked(Append(s, f))
         /\ Came(s, Append(s, f)) /\ Came(Append(s, f), s)
         /\ ~LastTellsOut(Append(s, f))
         /\ Calm(s) => Calm(Append(s, f))
<1> DEFINE t == Append(s, f)
<1>1. PICK n \in Nat : n = Len(s)
  OBVIOUS
<1>2. /\ t \in Seq(Frame) /\ Len(t) = n + 1 /\ t[n + 1] = f
      /\ \A i \in 1 .. n : t[i] = s[i]
  BY <1>1, Pushed
<1> HIDE DEF t
<1>3. Stacked(t)
  <2> SUFFICES ASSUME NEW i \in 1 .. n + 1
               PROVE  /\ Tells(t[i]) => \A j \in i + 1 .. n + 1 : Quiet(t[j])
                      /\ TellsOut(t[i]) /\ i < n + 1 =>
                           t[i + 1].at = "handler" /\ t[i + 1].ev = "viewout"
                      /\ t[i].at = "Mouse.first" => t[i].ev # "out"
    BY <1>2 DEF Stacked
  <2>1. CASE i = n + 1
    BY <1>2, <2>1 DEF Tells
  <2>2. CASE i \in 1 .. n
    <3>1. /\ Tells(s[i]) => \A j \in i + 1 .. n : Quiet(s[j])
          /\ TellsOut(s[i]) /\ i < n => s[i + 1].at = "handler" /\ s[i + 1].ev = "viewout"
          /\ s[i].at = "Mouse.first" => s[i].ev # "out"
      BY <1>1, <2>2 DEF Stacked
    <3>2. t[i] = s[i] /\ (i < n => t[i + 1] = s[i + 1])
      BY <1>2, <2>2
    <3>3. Tells(s[i]) => Quiet(f)
      BY <1>1, <2>2 DEF Calm
    <3>4. ASSUME Tells(t[i]), NEW j \in i + 1 .. n + 1 PROVE Quiet(t[j])
      <4>1. CASE j = n + 1
        BY <1>2, <3>2, <3>3, <3>4, <4>1
      <4>2. CASE j # n + 1
        <5>1. j \in i + 1 .. n /\ j \in 1 .. n
          BY <2>2, <4>2
        <5> QED BY <1>2, <3>1, <3>2, <3>4, <5>1
      <4> QED BY <4>1, <4>2
    <3>5. ASSUME TellsOut(t[i]), i = n PROVE t[i + 1].at = "handler" /\ t[i + 1].ev = "viewout"
      <4>1. LastTellsOut(s)
        BY <1>1, <2>2, <3>2, <3>5 DEF LastTellsOut
      <4> QED BY <1>2, <3>5, <4>1
    <3> QED BY <2>2, <3>1, <3>2, <3>4, <3>5
  <2> QED BY <2>1, <2>2
<1>4. \A i \in 1 .. n + 1 : Tells(t[i]) => i \in 1 .. n
  BY <1>2
<1>5. Came(s, t)
  BY <1>1, <1>2, <1>4 DEF Came
<1>6. Came(t, s)
  BY <1>1, <1>2 DEF Came
<1>7. ~LastTellsOut(t)
  BY <1>2 DEF LastTellsOut, Tells
<1>8. Calm(s) => Calm(t)
  BY <1>1, <1>2, <1>4 DEF Calm
<1> QED BY <1>2, <1>3, <1>5, <1>6, <1>7, <1>8 DEF t

(* A frame that tells is pushed: it is the only one. *)
LEMMA PushTelling ==
  ASSUME NEW s \in Seq(Frame), Stacked(s), Calm(s), NEW f \in Frame, Tells(f)
  PROVE  /\ Append(s, f) \in Seq(Frame) /\ Stacked(Append(s, f))
         /\ \A i \in 1 .. Len(Append(s, f)) : Tells(Append(s, f)[i]) => Append(s, f)[i] = f
         /\ Len(Append(s, f)) > 0 /\ Append(s, f)[Len(Append(s, f))] = f
<1> DEFINE t == Append(s, f)
<1>1. PICK n \in Nat : n = Len(s)
  OBVIOUS
<1>2. /\ t \in Seq(Frame) /\ Len(t) = n + 1 /\ t[n + 1] = f
      /\ \A i \in 1 .. n : t[i] = s[i]
  BY <1>1, Pushed
<1> HIDE DEF t
<1>3. \A i \in 1 .. n : ~Tells(t[i])
  BY <1>1, <1>2 DEF Calm
<1>4. \A i \in 1 .. n + 1 : i \notin 1 .. n => i = n + 1
  OBVIOUS
<1>5. \A i \in 1 .. n : t[i].at = "Mouse.first" => t[i].ev # "out"
  BY <1>1, <1>2 DEF Stacked
<1>6. f.at # "Mouse.first"
  BY DEF Tells, TellsOut
<1>7. Stacked(t)
  <2> SUFFICES ASSUME NEW i \in 1 .. n + 1
               PROVE  /\ Tells(t[i]) => \A j \in i + 1 .. n + 1 : Quiet(t[j])
                      /\ TellsOut(t[i]) /\ i < n + 1 =>
                           t[i + 1].at = "handler" /\ t[i + 1].ev = "viewout"
                      /\ t[i].at = "Mouse.first" => t[i].ev # "out"
    BY <1>2 DEF Stacked
  <2>1. CASE i = n + 1
    BY <1>2, <1>6, <2>1
  <2>2. CASE i \in 1 .. n
    BY <1>3, <1>5, <2>2 DEF Tells
  <2> QED BY <1>4, <2>1, <2>2
<1> QED BY <1>2, <1>3, <1>4, <1>7 DEF t

LEMMA Popped ==
  ASSUME Typed, Stacked(stack), Depth > 0
  PROVE  /\ Below \in Seq(Frame) /\ Stacked(Below) /\ Top \in Frame
         /\ Came(stack, Below)
         /\ ~Tells(Top) => Came(Below, stack)
         /\ ~Quiet(Top) => Calm(Below)
         /\ ~Quiet(Top) /\ ~Tells(Top) => Calm(stack)
         /\ LastTellsOut(Below) => Top.at = "handler" /\ Top.ev = "viewout"
         /\ Top.at = "Mouse.first" => Top.ev # "out"
<1>0. Depth \in Nat
  BY DEF Typed, Depth
<1>1. PICK n \in Nat : n = Depth - 1
  BY <1>0
<1>2. Depth = n + 1 /\ Depth \in Nat /\ n + 1 - 1 = n
  BY <1>0, <1>1
<1>3. \A S : \A q \in Seq(S) : \A k \in 1 .. Len(q) : q[k] \in S
  OBVIOUS
<1>4. \A i \in 1 .. n : stack[i] \in Frame
  BY <1>2, <1>3 DEF Typed, Depth
<1>5. Top \in Frame /\ Top = stack[n + 1]
  BY <1>2, <1>3 DEF Typed, Depth, Top
<1>6. /\ Below \in Seq(Frame) /\ Len(Below) = n
      /\ \A i \in 1 .. n : Below[i] = stack[i]
  <2>1. /\ SubSeq(stack, 1, n) \in Seq(Frame)
        /\ Len(SubSeq(stack, 1, n)) = IF 1 <= n THEN n - 1 + 1 ELSE 0
        /\ \A i \in 1 .. n - 1 + 1 : SubSeq(stack, 1, n)[i] = stack[1 + i - 1]
    BY <1>4, SubSeqProperties
  <2>2. n - 1 + 1 = n /\ (IF 1 <= n THEN n - 1 + 1 ELSE 0) = n /\ \A i \in 1 .. n : 1 + i - 1 = i
    OBVIOUS
  <2> QED BY <1>1, <2>1, <2>2 DEF Below
<1>7. \A i \in 1 .. n + 1 :
        /\ Tells(stack[i]) => \A j \in i + 1 .. n + 1 : Quiet(stack[j])
        /\ TellsOut(stack[i]) /\ i < n + 1 =>
             stack[i + 1].at = "handler" /\ stack[i + 1].ev = "viewout"
        /\ stack[i].at = "Mouse.first" => stack[i].ev # "out"
  BY <1>2 DEF Stacked, Depth
<1>8. Stacked(Below)
  <2> SUFFICES ASSUME NEW i \in 1 .. n
               PROVE  /\ Tells(Below[i]) => \A j \in i + 1 .. n : Quiet(Below[j])
                      /\ TellsOut(Below[i]) /\ i < n =>
                           Below[i + 1].at = "handler" /\ Below[i + 1].ev = "viewout"
                      /\ Below[i].at = "Mouse.first" => Below[i].ev # "out"
    BY <1>6 DEF Stacked
  <2>1. i \in 1 .. n + 1 /\ \A j \in i + 1 .. n : j \in i + 1 .. n + 1 /\ j \in 1 .. n
    OBVIOUS
  <2>2. i < n => i < n + 1 /\ i + 1 \in 1 .. n
    OBVIOUS
  <2> QED BY <1>6, <1>7, <2>1, <2>2
<1>9. \A i \in 1 .. n : i \in 1 .. n + 1 /\ n + 1 \in i + 1 .. n + 1
  OBVIOUS
<1>10. \A i \in 1 .. n + 1 : i \in 1 .. n \/ i = n + 1
  OBVIOUS
<1>11. Came(stack, Below)
  BY <1>2, <1>6, <1>9 DEF Came, Depth
<1>12. ~Tells(Top) => Came(Below, stack)
  <2> SUFFICES ASSUME ~Tells(Top), NEW i \in 1 .. n + 1, Tells(stack[i])
               PROVE  \E j \in 1 .. n : stack[i].at = Below[j].at /\ stack[i].ev = Below[j].ev
    BY <1>2, <1>6 DEF Came, Depth
  <2>1. i \in 1 .. n
    BY <1>5, <1>10
  <2> QED BY <1>6, <2>1
<1>13. \A i \in 1 .. n : Tells(stack[i]) => Quiet(Top)
  BY <1>5, <1>7, <1>9
<1>14. ~Quiet(Top) => Calm(Below)
  BY <1>6, <1>13 DEF Calm
<1>15. ~Quiet(Top) /\ ~Tells(Top) => Calm(stack)
  BY <1>2, <1>5, <1>10, <1>13 DEF Calm, Depth
<1>16. LastTellsOut(Below) => Top.at = "handler" /\ Top.ev = "viewout"
  <2> SUFFICES ASSUME n > 0, TellsOut(Below[n]) PROVE Top.at = "handler" /\ Top.ev = "viewout"
    BY <1>6 DEF LastTellsOut
  <2>1. n \in 1 .. n + 1 /\ n < n + 1 /\ n \in 1 .. n
    OBVIOUS
  <2> QED BY <1>5, <1>6, <1>7, <2>1
<1>17. Top.at = "Mouse.first" => Top.ev # "out"
  <2>1. n + 1 \in 1 .. n + 1
    OBVIOUS
  <2> QED BY <1>5, <1>7, <2>1
<1> QED BY <1>5, <1>6, <1>8, <1>11, <1>12, <1>14, <1>15, <1>16, <1>17

-----------------------------------------------------------------------------
(* The invariant after a step: either no telling was begun or ended, ...    *)
LEMMA Kept ==
  ASSUME ViewInv, Typed', Stacked(stack'), Came(stack, stack'), Came(stack', stack),
         mouseOver' = mouseOver, Matched', hovered' \subseteq hovered, dragged' \subseteq dragged,
         LastTellsOut(stack') => ~ret'
  PROVE  ViewInv'
<1>1. ASSUME NEW i \in 1 .. Len(stack') PROVE TellingOK(stack[i])'
  <2>1. CASE ~Tells(stack'[i])
    BY <2>1 DEF TellingOK, Tells
  <2>2. CASE Tells(stack'[i])
    <3>1. PICK j \in 1 .. Len(stack) : stack'[i].at = stack[j].at
      BY <2>2 DEF Came
    <3>2. TellingOK(stack[j])
      BY DEF ViewInv, Depth
    <3> QED BY <3>1, <3>2 DEF TellingOK
  <2> QED BY <2>1, <2>2
<1>2. ASSUME ~mouseOver' PROVE hovered' = {} \/ \E i \in 1 .. Len(stack') : TellsOut(stack'[i])
  <2>1. CASE hovered = {}
    BY <2>1
  <2>2. CASE hovered # {}
    <3>1. PICK i \in 1 .. Len(stack) : TellsOut(stack[i])
      BY <1>2, <2>2 DEF ViewInv, Depth
    <3>2. \E j \in 1 .. Len(stack') : stack[i].at = stack'[j].at /\ stack[i].ev = stack'[j].ev
      BY <3>1 DEF Came, Tells
    <3> QED BY <3>1, <3>2 DEF TellsOut
  <2> QED BY <2>1, <2>2
<1> QED BY <1>1, <1>2 DEF ViewInv, Depth

(* ... or none is under way, ... *)
LEMMA Calmed ==
  ASSUME Typed', Stacked(stack'), Calm(stack'), Matched', ~mouseOver' => hovered' = {}
  PROVE  ViewInv'
<1>1. ASSUME NEW i \in 1 .. Len(stack') PROVE TellingOK(stack[i])'
  BY DEF Calm, Tells, TellingOK
<1>2. ~LastTellsOut(stack')
  <2> SUFFICES ASSUME Len(stack') > 0, TellsOut(stack'[Len(stack')]) PROVE FALSE
    BY DEF LastTellsOut
  <2>1. Len(stack') \in Nat
    BY DEF Typed
  <2>2. Len(stack') \in 1 .. Len(stack')
    BY <2>1
  <2> QED BY <2>2 DEF Calm, Tells
<1> QED BY <1>1, <1>2 DEF ViewInv, Depth

(* ... or one was begun: the frame f and its handler were pushed. *)
LEMMA Begun ==
  ASSUME Typed, NEW s \in Seq(Frame), Stacked(s), Calm(s),
         NEW f \in Frame, Tells(f), NEW h \in Frame, Quiet(h),
         TellsOut(f) => h.at = "handler" /\ h.ev = "viewout",
         stack' = Append(Append(s, f), h), h.at = "handler",
         Matched', TellingOK(f)',
         mouseOver' \/ hovered' = {} \/ TellsOut(f)
  PROVE  /\ stack' \in Seq(Frame)
         /\ Typed' => ViewInv'
<1> DEFINE t == Append(s, f)
<1>1. /\ t \in Seq(Frame) /\ Stacked(t)
      /\ \A i \in 1 .. Len(t) : Tells(t[i]) => t[i] = f
      /\ Len(t) > 0 /\ t[Len(t)] = f
  BY PushTelling
<1> HIDE DEF t
<1>2. LastTellsOut(t) => h.at = "handler" /\ h.ev = "viewout"
  BY <1>1 DEF LastTellsOut
<1>3. ~Tells(h) /\ h.at # "Mouse.first"
  BY DEF Tells, TellsOut
<1>4. /\ Append(t, h) \in Seq(Frame) /\ Stacked(Append(t, h))
      /\ Came(t, Append(t, h)) /\ Came(Append(t, h), t) /\ ~LastTellsOut(Append(t, h))
  BY <1>1, <1>2, <1>3, PushFree
<1>5. stack' = Append(t, h)
  BY DEF t
<1>6. ASSUME NEW i \in 1 .. Len(stack') PROVE TellingOK(stack[i])'
  <2>1. CASE ~Tells(stack'[i])
    BY <2>1 DEF TellingOK, Tells
  <2>2. CASE Tells(stack'[i])
    <3>1. PICK j \in 1 .. Len(t) : stack'[i].at = t[j].at /\ stack'[i].ev = t[j].ev
      BY <1>4, <1>5, <2>2 DEF Came
    <3>2. t[j] = f
      BY <1>1, <2>2, <3>1 DEF Tells, TellsOut
    <3> QED BY <3>1, <3>2 DEF TellingOK
  <2> QED BY <2>1, <2>2
<1>7. TellsOut(f) => \E i \in 1 .. Len(stack') : TellsOut(stack'[i])
  <2> SUFFICES ASSUME TellsOut(f) PROVE \E i \in 1 .. Len(stack') : TellsOut(stack'[i])
    OBVIOUS
  <2>1. Len(t) \in Nat
    BY <1>1
  <2>2. Len(t) \in 1 .. Len(t)
    BY <1>1, <2>1
  <2>3. \E j \in 1 .. Len(stack') : f.at = stack'[j].at /\ f.ev = stack'[j].ev
    BY <1>1, <1>4, <1>5, <2>2 DEF Came, Tells
  <2> QED BY <2>3 DEF TellsOut
<1> QED BY <1>4, <1>5, <1>6, <1>7 DEF ViewInv, Depth

(* ... or f was pushed, and the element it tells has no handler called. *)
LEMMA BegunSilently ==
  ASSUME Typed, NEW s \in Seq(Frame), Stacked(s), Calm(s),
         NEW f \in Frame, Tells(f), ~TellsOut(f), stack' = Append(s, f),
         Matched', TellingOK(f)', mouseOver' \/ hovered' = {}
  PROVE  /\ stack' \in Seq(Frame)
         /\ Typed' => ViewInv'
<1>1. /\ stack' \in Seq(Frame) /\ Stacked(stack')
      /\ \A i \in 1 .. Len(stack') : Tells(stack'[i]) => stack'[i] = f
      /\ Len(stack') > 0 /\ stack'[Len(stack')] = f
  BY PushTelling
<1>2. ~LastTellsOut(stack')
  BY <1>1 DEF LastTellsOut
<1>3. ASSUME NEW i \in 1 .. Len(stack') PROVE TellingOK(stack[i])'
  <2>1. CASE ~Tells(stack'[i])
    BY <2>1 DEF TellingOK, Tells
  <2>2. CASE Tells(stack'[i])
    BY <1>1, <2>2 DEF TellingOK
  <2> QED BY <2>1, <2>2
<1> QED BY <1>1, <1>2, <1>3 DEF ViewInv, Depth

(* While the main loop runs no telling is under way. *)
LEMMA CalmInLoop ==
  ASSUME ViewInv, MainLoopRuns
  PROVE  Calm(stack) /\ ~LastTellsOut(stack) /\ (~mouseOver => hovered = {})
<1>1. Calm(stack)
  <2>1. CASE Depth = 0
    BY <2>1 DEF Calm, Depth
  <2>2. CASE Depth # 0
    <3>1. Depth > 0 /\ Top.at = "handler" /\ <<Top.ev, "dialog">> \in habit
      BY <2>2 DEF MainLoopRuns, InHandler, Resumes, May
    <3>2. Top.ev \in {"mouse", "key"}
      <4>1. \A d \in habit : d[2] = "dialog" => d[1] \in {"mouse", "key"}
        BY HabitAssumption DEF ViewInv, Typed
      <4>2. <<Top.ev, "dialog">>[2] = "dialog" /\ <<Top.ev, "dialog">>[1] = Top.ev
        OBVIOUS
      <4> QED BY <3>1, <4>1, <4>2
    <3>3. ~Quiet(Top) /\ ~Tells(Top)
      BY <3>1, <3>2 DEF Quiet, Tells, TellsOut
    <3> QED BY <3>1, <3>3, Popped DEF ViewInv
  <2> QED BY <2>1, <2>2
<1>2. \A i \in 1 .. Depth : ~TellsOut(stack[i])
  BY <1>1 DEF Calm, Tells, Depth
<1>3. ~LastTellsOut(stack)
  <2>1. Depth \in Nat
    BY DEF ViewInv, Typed, Depth
  <2>2. Depth > 0 => Depth \in 1 .. Depth
    BY <2>1
  <2> QED BY <1>2, <2>2 DEF LastTellsOut, Depth
<1> QED BY <1>1, <1>2, <1>3 DEF ViewInv

(* A view method that tells nothing goes on. *)
LEMMA CalmBelow ==
  ASSUME ViewInv, Depth > 0, ~Quiet(Top), ~Tells(Top)
  PROVE  /\ Below \in Seq(Frame) /\ Stacked(Below) /\ Calm(Below) /\ ~LastTellsOut(Below)
         /\ Top \in Frame /\ (~mouseOver => hovered = {})
<1>1. /\ Below \in Seq(Frame) /\ Stacked(Below) /\ Calm(Below) /\ Calm(stack) /\ Top \in Frame
      /\ LastTellsOut(Below) => Top.at = "handler" /\ Top.ev = "viewout"
  BY Popped DEF ViewInv
<1>2. ~LastTellsOut(Below)
  BY <1>1 DEF Quiet
<1>3. \A i \in 1 .. Depth : ~TellsOut(stack[i])
  BY <1>1 DEF Calm, Tells, Depth
<1> QED BY <1>1, <1>2, <1>3 DEF ViewInv

-----------------------------------------------------------------------------
(* SetFocus, called with s: its frames are quiet. *)
LEMMA FireFocus ==
  ASSUME NEW s \in Seq(Frame), Stacked(s), ~LastTellsOut(s),
         NEW f \in Frame, f.at \in {"SetFocus.out", "SetFocus.in", "SetFocus.back"},
         NEW e \in Holdable, NEW ev \in {"focusin", "focusout"},
         Fire(ev, e, Append(s, f))
  PROVE  /\ stack' \in Seq(Frame) /\ Stacked(stack') /\ ~LastTellsOut(stack')
         /\ Came(s, stack') /\ Came(stack', s)
         /\ UNCHANGED <<hovered, dragged, ret>>
<1> DEFINE t == Append(s, f)
           h == Handler(ev, e)
<1>1. /\ t \in Seq(Frame) /\ Stacked(t) /\ Came(s, t) /\ Came(t, s) /\ ~LastTellsOut(t)
  <2>1. ~Tells(f) /\ f.at # "Mouse.first" /\ Quiet(f)
    BY DEF Tells, TellsOut, Quiet
  <2> QED BY <2>1, PushFree
<1>2. h \in Frame /\ h.at = "handler" /\ h.ev = ev
  <2>1. ev \in Evs /\ "handler" \in Ats
    BY DEF Evs, Ats
  <2> QED BY <2>1, HandlerIn
<1>3. ~Tells(h) /\ Quiet(h) /\ h.at # "Mouse.first"
  BY <1>2 DEF Tells, TellsOut, Quiet
<1>4. stack' = Append(t, h) /\ UNCHANGED <<hovered, dragged, ret>>
  BY DEF Fire
<1> HIDE DEF t, h
<1>5. /\ stack' \in Seq(Frame) /\ Stacked(stack') /\ Came(t, stack') /\ Came(stack', t)
      /\ ~LastTellsOut(stack')
  BY <1>1, <1>2, <1>3, <1>4, PushFree
<1>6. Came(s, stack') /\ Came(stack', s)
  BY <1>1, <1>5, CameTwice
<1> QED BY <1>4, <1>5, <1>6

(* What a change of the focus, called with s, does to the stack. *)
FocusChanged(s, t) ==
  /\ t \in Seq(Frame) /\ Stacked(t) /\ ~LastTellsOut(t) /\ Came(s, t) /\ Came(t, s)

LEMMA Unmoved ==
  ASSUME NEW s \in Seq(Frame), Stacked(s), ~LastTellsOut(s)
  PROVE  FocusChanged(s, s)
BY DEF FocusChanged, Came

LEMMA BackToQuiet ==
  ASSUME NEW s \in Seq(Frame), Stacked(s), ~LastTellsOut(s),
         NEW o \in Holdable, BackTo(o, s)
  PROVE  /\ FocusChanged(s, stack') /\ focused' \in Holdable
         /\ UNCHANGED <<hovered, dragged, ret>>
<1>1. focused' = o
  BY DEF BackTo
<1>2. CASE Return(s)
  BY <1>1, <1>2, Unmoved DEF Return, told
<1>3. CASE ~Return(s)
  <2>1. Fire("focusin", o, Append(s, At("SetFocus.back", "focus")))
    BY <1>3 DEF BackTo, FireFocusIn
  <2>2. /\ At("SetFocus.back", "focus") \in Frame
        /\ At("SetFocus.back", "focus").at = "SetFocus.back"
    <3>1. "SetFocus.back" \in Ats /\ "focus" \in Evs
      BY DEF Ats, Evs
    <3> QED BY <3>1, AtIn
  <2>3. PICK f \in Frame : f = At("SetFocus.back", "focus")
    BY <2>2
  <2> QED BY <1>1, <2>1, <2>2, <2>3, FireFocus DEF FocusChanged
<1> QED BY <1>2, <1>3

LEMMA EnterQuiet ==
  ASSUME NEW s \in Seq(Frame), Stacked(s), ~LastTellsOut(s),
         NEW e \in Holdable, NEW o \in Holdable, Enter(e, o, s)
  PROVE  /\ FocusChanged(s, stack') /\ focused' \in Holdable
         /\ UNCHANGED <<hovered, dragged, ret>>
<1>1. CASE BackTo(o, s)
  BY <1>1, BackToQuiet
<1>2. CASE ~BackTo(o, s)
  <2>1. /\ focused' = e
        /\ \/ Return(s)
           \/ Fire("focusin", e, Append(s, Holding("SetFocus.in", "focus", o)))
    BY <1>2 DEF Enter
  <2>2. CASE Return(s)
    BY <2>1, <2>2, Unmoved DEF Return, told
  <2>3. CASE ~Return(s)
    <3>1. "SetFocus.in" \in Ats /\ "focus" \in Evs
      BY DEF Ats, Evs
    <3>2. /\ Holding("SetFocus.in", "focus", o) \in Frame
          /\ Holding("SetFocus.in", "focus", o).at = "SetFocus.in"
      BY <3>1, HoldingIn
    <3>3. PICK f \in Frame : f = Holding("SetFocus.in", "focus", o)
      BY <3>2
    <3> QED BY <2>1, <2>3, <3>2, <3>3, FireFocus DEF FocusChanged
  <2> QED BY <2>2, <2>3
<1> QED BY <1>1, <1>2

LEMMA SetFocusQuiet ==
  ASSUME NEW s \in Seq(Frame), Stacked(s), ~LastTellsOut(s), focused \in Holdable,
         NEW e \in Holdable, SetFocus(e, s)
  PROVE  /\ FocusChanged(s, stack') /\ focused' \in Holdable
         /\ UNCHANGED <<hovered, dragged, ret>>
<1>0. None \in Holdable
  BY DEF Holdable
<1>1. CASE e = focused \/ (e # None /\ ~ReallyEnabled(e))
  <2>1. Return(s) /\ UNCHANGED focused
    BY <1>1 DEF SetFocus
  <2> QED BY <2>1, Unmoved DEF Return, told
<1>2. CASE ~(e = focused \/ (e # None /\ ~ReallyEnabled(e))) /\ focused = None
  <2>1. Enter(e, None, s)
    BY <1>2 DEF SetFocus
  <2> QED BY <1>0, <2>1, EnterQuiet
<1>3. CASE ~(e = focused \/ (e # None /\ ~ReallyEnabled(e))) /\ focused # None
  <2>1. PICK o \in Holdable :
          /\ Fire("focusout", focused,
                  Append(s, [Holding("SetFocus.out", "focus", e) EXCEPT !.old = o]))
          /\ UNCHANGED focused
    BY <1>0, <1>3 DEF SetFocus
  <2>2. "SetFocus.out" \in Ats /\ "focus" \in Evs
    BY DEF Ats, Evs
  <2>3. /\ [Holding("SetFocus.out", "focus", e) EXCEPT !.old = o] \in Frame
        /\ [Holding("SetFocus.out", "focus", e) EXCEPT !.old = o].at = "SetFocus.out"
    <3>1. /\ Holding("SetFocus.out", "focus", e) \in Frame
          /\ Holding("SetFocus.out", "focus", e).at = "SetFocus.out"
      BY <2>2, HoldingIn
    <3> QED BY <3>1, Resourced
  <2>4. PICK f \in Frame : f = [Holding("SetFocus.out", "focus", e) EXCEPT !.old = o]
    BY <2>3
  <2>5. PICK d \in Holdable : d = focused
    OBVIOUS
  <2> QED BY <2>1, <2>3, <2>4, <2>5, FireFocus DEF FocusChanged
<1> QED BY <1>1, <1>2, <1>3

(* The focus changes, called with a stack that comes from the one before.   *)
LEMMA FocusKeeps ==
  ASSUME ViewInv, NEW s \in Seq(Frame), Came(stack, s), Came(s, stack),
         FocusChanged(s, stack'), focused' \in Holdable,
         UNCHANGED <<hovered, dragged, mouseOver, mouseover, grab, dragover, targets, habit>>
  PROVE  ViewInv'
<1>1. Typed' /\ Matched'
  BY DEF ViewInv, Typed, Matched, FocusChanged
<1>2. Came(stack, stack') /\ Came(stack', stack)
  BY CameTwice DEF FocusChanged
<1> QED BY <1>1, <1>2, Kept DEF FocusChanged

-----------------------------------------------------------------------------
(* The script of a handler. *)
LEMMA Same ==
  ASSUME ViewInv, UNCHANGED <<stack, held, hovered, dragged, mouseOver, ret, targets, habit>>
  PROVE  ViewInv'
BY DEF ViewInv, held, Typed, Matched, TellingOK, Depth, Stacked, LastTellsOut

LEMMA RemoveElementKeeps ==
  ASSUME ViewInv, NEW e \in Elements, RemoveElement(e)
  PROVE  ViewInv'
<1>1. /\ focused' = Without(e, focused) /\ mouseover' = Without(e, mouseover)
      /\ grab' = Without(e, grab) /\ dragover' = Without(e, dragover)
      /\ hovered' = hovered \ {e} /\ dragged' = dragged \ {e}
      /\ stack' = [i \in 1 .. Depth |->
                     [stack[i] EXCEPT !.e = Without(e, @), !.old = Without(e, @)]]
      /\ UNCHANGED <<mouseOver, ret, targets, habit>>
  BY DEF RemoveElement
<1>2. \A h \in Holdable : Without(e, h) \in Holdable
  BY DEF Without, Holdable
<1>3. PICK n \in Nat : n = Depth
  BY DEF ViewInv, Typed, Depth
<1>4. \A S : \A q \in Seq(S) : \A k \in 1 .. Len(q) : q[k] \in S
  OBVIOUS
<1>5. \A i \in 1 .. n : stack[i] \in Frame
  BY <1>3, <1>4 DEF ViewInv, Typed, Depth
<1>6. \A i \in 1 .. n :
        /\ stack'[i] \in Frame
        /\ stack'[i].at = stack[i].at /\ stack'[i].ev = stack[i].ev
  <2> SUFFICES ASSUME NEW i \in 1 .. n
               PROVE  /\ stack'[i] \in Frame
                      /\ stack'[i].at = stack[i].at /\ stack'[i].ev = stack[i].ev
    OBVIOUS
  <2>1. stack'[i] = [stack[i] EXCEPT !.e = Without(e, @), !.old = Without(e, @)]
    BY <1>1, <1>3
  <2>2. PICK f \in Frame : f = stack[i]
    BY <1>5
  <2>3. Without(e, f.e) \in Holdable /\ Without(e, f.old) \in Holdable
    BY <1>2 DEF Frame
  <2> QED BY <2>1, <2>2, <2>3 DEF Frame
<1>7. stack' \in Seq(Frame) /\ Len(stack') = n
  <2>1. stack' \in [1 .. n -> Frame]
    BY <1>1, <1>3, <1>6
  <2>2. \A q \in [1 .. n -> Frame] : q \in Seq(Frame) /\ Len(q) = n
    OBVIOUS
  <2> QED BY <2>1, <2>2
<1>8. Stacked(stack')
  <2>1. \A i \in 1 .. n : (i < n => i + 1 \in 1 .. n) /\ \A j \in i + 1 .. n : j \in 1 .. n
    OBVIOUS
  <2>2. \A i \in 1 .. n :
          /\ Tells(stack[i]) => \A j \in i + 1 .. n : Quiet(stack[j])
          /\ TellsOut(stack[i]) /\ i < n => stack[i + 1].at = "handler" /\ stack[i + 1].ev = "viewout"
          /\ stack[i].at = "Mouse.first" => stack[i].ev # "out"
    BY <1>3 DEF ViewInv, Stacked, Depth
  <2>3. \A i \in 1 .. n : /\ Tells(stack'[i]) <=> Tells(stack[i])
                          /\ TellsOut(stack'[i]) <=> TellsOut(stack[i])
                          /\ Quiet(stack'[i]) <=> Quiet(stack[i])
    BY <1>6 DEF Tells, TellsOut, Quiet
  <2> QED BY <1>6, <1>7, <2>1, <2>2, <2>3 DEF Stacked
<1>9. Came(stack, stack') /\ Came(stack', stack)
  BY <1>3, <1>6, <1>7 DEF Came, Depth
<1>10. LastTellsOut(stack') => ~ret'
  <2>1. n > 0 => n \in 1 .. n
    OBVIOUS
  <2>2. LastTellsOut(stack') => LastTellsOut(stack)
    BY <1>3, <1>6, <1>7, <2>1 DEF LastTellsOut, TellsOut, Depth
  <2> QED BY <1>1, <2>2 DEF ViewInv
<1>11. Matched'
  BY <1>1 DEF ViewInv, Matched, Without
<1>12. Typed'
  BY <1>1, <1>2, <1>7 DEF ViewInv, Typed
<1> QED BY <1>1, <1>8, <1>9, <1>10, <1>11, <1>12, Kept

LEMMA HandlerReturnsKeeps ==
  ASSUME ViewInv, NEW c \in BOOLEAN, HandlerReturns(c)
  PROVE  ViewInv'
<1>1. /\ Depth > 0 /\ Top.at = "handler" /\ (c => <<Top.ev, "cancel">> \in habit)
      /\ stack' = Below /\ ret' = c
      /\ UNCHANGED <<mouseOver, held, hovered, dragged, targets, habit>>
  BY DEF HandlerReturns, InHandler, Resumes, May
<1>2. ~Tells(Top)
  BY <1>1 DEF Tells, TellsOut
<1>3. /\ Below \in Seq(Frame) /\ Stacked(Below) /\ Came(stack, Below) /\ Came(Below, stack)
      /\ LastTellsOut(Below) => Top.ev = "viewout"
  BY <1>1, <1>2, Popped DEF ViewInv
<1>4. Top.ev = "viewout" => ~c
  <2>1. \A d \in habit : d[2] = "cancel" => d[1] # "viewout"
    BY HabitAssumption DEF ViewInv, Typed
  <2>2. <<Top.ev, "cancel">>[2] = "cancel" /\ <<Top.ev, "cancel">>[1] = Top.ev
    OBVIOUS
  <2> QED BY <1>1, <2>1, <2>2
<1>5. Typed' /\ Matched'
  BY <1>1, <1>3 DEF ViewInv, Typed, Matched, held
<1> QED BY <1>1, <1>3, <1>4, <1>5, Kept

LEMMA SetDropTargetKeeps ==
  ASSUME ViewInv, NEW e \in Elements, SetDropTarget(e)
  PROVE  ViewInv'
<1>1. /\ UNCHANGED <<stack, held, hovered, mouseOver, ret, habit>>
      /\ dragged' = dragged \cap targets'
  BY DEF SetDropTarget
<1>2. Typed' /\ Matched'
  BY <1>1 DEF ViewInv, Typed, Matched, held, SetDropTarget
<1>3. Came(stack, stack') /\ Came(stack', stack)
  BY <1>1 DEF Came
<1>4. Stacked(stack') /\ (LastTellsOut(stack') => ~ret') /\ dragged' \subseteq dragged
  BY <1>1 DEF ViewInv
<1> QED BY <1>1, <1>2, <1>3, <1>4, Kept

LEMMA ScriptKeeps ==
  ASSUME ViewInv, Script
  PROVE  ViewInv'
<1>1. ASSUME NEW e \in Elements, NEW to \in {"on", "off", "hidden"}, SetStatus(e, to)
      PROVE  ViewInv'
  BY <1>1, Same DEF SetStatus, told
<1>2. ASSUME NEW e \in Holdable, ScriptSetsFocus(e) PROVE ViewInv'
  <2>1. /\ Depth > 0 /\ Top.at = "handler" /\ SetFocus(e, stack)
        /\ UNCHANGED <<mouseOver, mouseover, grab, dragover, targets, habit>>
    BY <1>2 DEF ScriptSetsFocus, InHandler, Resumes
  <2>2. stack \in Seq(Frame) /\ Stacked(stack) /\ focused \in Holdable
    BY DEF ViewInv, Typed
  <2>3. ~LastTellsOut(stack)
    BY <2>1 DEF LastTellsOut, Top, Depth, TellsOut
  <2>4. Came(stack, stack)
    BY DEF Came
  <2>5. /\ FocusChanged(stack, stack') /\ focused' \in Holdable
        /\ UNCHANGED <<hovered, dragged, ret>>
    BY <2>1, <2>2, <2>3, SetFocusQuiet
  <2> QED BY <2>1, <2>2, <2>4, <2>5, FocusKeeps
<1>3. ASSUME NEW e \in Elements, RemoveElement(e) PROVE ViewInv'
  BY <1>3, RemoveElementKeeps
<1>4. ASSUME NEW c \in BOOLEAN, HandlerReturns(c) PROVE ViewInv'
  BY <1>4, HandlerReturnsKeeps
<1>5. ASSUME NEW e \in Elements, SetDropTarget(e) PROVE ViewInv'
  BY <1>5, SetDropTargetKeeps
<1> QED BY <1>1, <1>2, <1>3, <1>4, <1>5 DEF Script

-----------------------------------------------------------------------------
(* SetFocus goes on. *)
LEMMA SetFocusKeeps ==
  ASSUME ViewInv, SetFocusLeft \/ SetFocusEntered \/ SetFocusIsBack
  PROVE  ViewInv'
<1>1. /\ Depth > 0 /\ Top.at \in {"SetFocus.out", "SetFocus.in", "SetFocus.back"}
      /\ UNCHANGED <<mouseOver, mouseover, grab, dragover, targets, habit>>
  BY DEF SetFocusLeft, SetFocusEntered, SetFocusIsBack, Resumes
<1>2. ~Tells(Top)
  BY <1>1 DEF Tells, TellsOut
<1>3. /\ Below \in Seq(Frame) /\ Stacked(Below) /\ Came(stack, Below) /\ Came(Below, stack)
      /\ ~LastTellsOut(Below) /\ Top \in Frame
  BY <1>1, <1>2, Popped DEF ViewInv
<1>4. PICK o \in Holdable : o = focused
  BY DEF ViewInv, Typed
<1>5. PICK e \in Holdable : e = Top.e
  BY <1>3 DEF Frame
<1>6. None \in Holdable
  BY DEF Holdable
<1>7. \/ stack' = Below /\ focused' \in {o, None} /\ UNCHANGED <<hovered, dragged>>
      \/ Enter(e, o, Below)
      \/ BackTo(e, Below)
  BY <1>4, <1>5 DEF SetFocusLeft, SetFocusEntered, SetFocusIsBack, Return, told
<1>8. FocusChanged(Below, stack') /\ focused' \in Holdable /\ UNCHANGED <<hovered, dragged>>
  BY <1>3, <1>6, <1>7, Unmoved, EnterQuiet, BackToQuiet
<1> QED BY <1>1, <1>3, <1>8, FocusKeeps

-----------------------------------------------------------------------------
(* Steps that leave what is told of mouse and drag alone. *)
LEMMA CalmPush ==
  ASSUME NEW s \in Seq(Frame), Stacked(s), Calm(s), NEW f \in Frame, ~Tells(f),
         f.at = "Mouse.first" => f.ev # "out"
  PROVE  Append(s, f) \in Seq(Frame) /\ Stacked(Append(s, f)) /\ Calm(Append(s, f))
<1>1. ~LastTellsOut(s)
  <2> SUFFICES ASSUME Len(s) > 0, TellsOut(s[Len(s)]) PROVE FALSE
    BY DEF LastTellsOut
  <2>1. Len(s) \in Nat
    OBVIOUS
  <2>2. Len(s) \in 1 .. Len(s)
    BY <2>1
  <2> QED BY <2>2 DEF Calm, Tells
<1> QED BY <1>1, PushFree

LEMMA CalmFire ==
  ASSUME NEW s \in Seq(Frame), Stacked(s), Calm(s), NEW ev \in Evs, NEW e \in Holdable,
         Fire(ev, e, s)
  PROVE  stack' \in Seq(Frame) /\ Stacked(stack') /\ Calm(stack')
<1>1. Handler(ev, e) \in Frame /\ Handler(ev, e).at = "handler"
  BY HandlerIn
<1>2. ~Tells(Handler(ev, e)) /\ Handler(ev, e).at # "Mouse.first"
  BY <1>1 DEF Tells, TellsOut
<1>3. PICK h \in Frame : h = Handler(ev, e)
  BY <1>1
<1>4. stack' = Append(s, h)
  BY <1>3 DEF Fire
<1> QED BY <1>2, <1>3, <1>4, CalmPush

Plain == Evs \ {"over", "out", "dragover", "dragout", "dragdrop"}
LEMMA PlainFire ==
  ASSUME NEW s \in Seq(Frame), Stacked(s), Calm(s), NEW ev \in Plain, NEW e \in Holdable,
         Fire(ev, e, s)
  PROVE  /\ stack' \in Seq(Frame) /\ Stacked(stack') /\ Calm(stack')
         /\ UNCHANGED <<hovered, dragged>>
<1>1. ev \in Evs
  BY DEF Plain
<1>2. stack' \in Seq(Frame) /\ Stacked(stack') /\ Calm(stack')
  BY <1>1, CalmFire
<1>3. UNCHANGED <<hovered, dragged>>
  BY DEF Fire, Plain
<1> QED BY <1>2, <1>3

(* A frame f is pushed for a method of the view, and a handler called. *)
LEMMA PlainCall ==
  ASSUME NEW s \in Seq(Frame), Stacked(s), Calm(s), NEW f \in Frame, ~Tells(f),
         f.at = "Mouse.first" => f.ev # "out", NEW ev \in Plain, NEW e \in Holdable,
         Fire(ev, e, Append(s, f))
  PROVE  /\ stack' \in Seq(Frame) /\ Stacked(stack') /\ Calm(stack')
         /\ UNCHANGED <<hovered, dragged>>
<1>0. Append(s, f) \in Seq(Frame) /\ Stacked(Append(s, f)) /\ Calm(Append(s, f))
  BY CalmPush
<1>1. PICK t \in Seq(Frame) : t = Append(s, f)
  BY <1>0
<1>2. Stacked(t) /\ Calm(t)
  BY <1>0, <1>1
<1>3. Fire(ev, e, t)
  BY <1>1
<1> QED BY <1>2, <1>3, PlainFire

LEMMA PlainStep ==
  ASSUME ViewInv, ~mouseOver => hovered = {},
         stack' \in Seq(Frame), Stacked(stack'), Calm(stack'),
         UNCHANGED <<hovered, dragged, mouseover, dragover, targets, habit>>,
         mouseOver' \/ mouseOver' = mouseOver,
         focused' \in Holdable, grab' \in Holdable
  PROVE  ViewInv'
<1>1. Typed' /\ Matched'
  BY DEF ViewInv, Typed, Matched
<1>2. ~mouseOver' => hovered' = {}
  OBVIOUS
<1> QED BY <1>1, <1>2, Calmed

LEMMA CalmChange ==
  ASSUME NEW s, Calm(s), FocusChanged(s, stack')
  PROVE  Calm(stack')
BY DEF Calm, FocusChanged, Came, Tells, TellsOut

(* Keys, and FOCUS_IN and FOCUS_OUT of the view. *)
LEMMA FocusEventKeeps ==
  ASSUME ViewInv, ViewFocusIn \/ ViewFocusOut \/ KeyEvent
  PROVE  ViewInv'
<1>1. /\ MainLoopRuns /\ UNCHANGED <<mouseOver, mouseover, grab, dragover, targets, habit>>
      /\ focused' \in {focused, None}
  BY DEF ViewFocusIn, ViewFocusOut, KeyEvent, held
<1>2. /\ Calm(stack) /\ (~mouseOver => hovered = {})
      /\ stack \in Seq(Frame) /\ Stacked(stack)
  BY <1>1, CalmInLoop DEF ViewInv, Typed
<1>3. PICK o \in Holdable : o = focused
  BY DEF ViewInv, Typed
<1>4. None \in Holdable
  BY DEF Holdable
<1>5. {"focusin", "focusout", "viewkey"} \subseteq Plain /\ {"focus", "key"} \subseteq Evs
      /\ {"View.focusin", "Key.view"} \subseteq Ats
  BY DEF Plain, Evs, Ats, Mouse
<1>6. PICK f \in Frame : f = At("View.focusin", "focus") /\ f.at = "View.focusin"
  BY <1>5, AtIn
<1>7. PICK g \in Frame : g = [At("Key.view", "key") EXCEPT !.src = o] /\ g.at = "Key.view"
  <2>1. PICK k \in Frame : k = At("Key.view", "key") /\ k.at = "Key.view"
    BY <1>5, AtIn
  <2>2. [k EXCEPT !.src = o] \in Frame /\ [k EXCEPT !.src = o].at = "Key.view"
    BY <2>1, Resourced
  <2> QED BY <2>1, <2>2
<1>8. ~Tells(f) /\ ~Tells(g)
  BY <1>6, <1>7 DEF Tells, TellsOut
<1>9. \/ stack' = stack /\ UNCHANGED <<hovered, dragged>>
      \/ Fire("focusin", o, Append(stack, f))
      \/ Fire("focusout", o, stack)
      \/ Fire("viewkey", None, Append(stack, g))
  BY <1>3, <1>6, <1>7 DEF ViewFocusIn, ViewFocusOut, KeyEvent, Return, told
<1>10. /\ stack' \in Seq(Frame) /\ Stacked(stack') /\ Calm(stack')
       /\ UNCHANGED <<hovered, dragged>>
  <2>1. CASE Fire("focusin", o, Append(stack, f))
    BY <1>2, <1>5, <1>6, <1>8, <2>1, PlainCall
  <2>2. CASE Fire("viewkey", None, Append(stack, g))
    BY <1>2, <1>4, <1>5, <1>7, <1>8, <2>2, PlainCall
  <2>3. CASE Fire("focusout", o, stack)
    BY <1>2, <1>5, <2>3, PlainFire
  <2> QED BY <1>2, <1>9, <2>1, <2>2, <2>3
<1>11. focused' \in Holdable /\ grab' \in Holdable
  BY <1>1, <1>3, <1>4 DEF ViewInv, Typed
<1> QED BY <1>1, <1>2, <1>10, <1>11, PlainStep

(* EVENT_OPEN. *)
LEMMA ViewOpenKeeps ==
  ASSUME ViewInv, ViewOpen \/ ViewOpened
  PROVE  ViewInv'
<1>1. UNCHANGED <<mouseOver, mouseover, grab, dragover, targets, habit>>
  BY DEF ViewOpen, ViewOpened, held
<1>2. /\ "View.opened" \in Ats /\ "open" \in Evs /\ "viewopen" \in Plain
      /\ None \in Holdable /\ Elements \subseteq Holdable
  BY DEF Ats, Evs, Plain, Mouse, Holdable
<1>3. PICK o \in Holdable, g \in Holdable : o = focused /\ g = grab
  BY DEF ViewInv, Typed
<1> DEFINE Done == /\ ~mouseOver => hovered = {}
                   /\ stack' \in Seq(Frame) /\ Stacked(stack') /\ Calm(stack')
                   /\ UNCHANGED <<hovered, dragged>> /\ focused' \in Holdable
<1>4. ASSUME ViewOpen PROVE Done
  <2>1. /\ Calm(stack) /\ ~LastTellsOut(stack) /\ (~mouseOver => hovered = {})
        /\ stack \in Seq(Frame) /\ Stacked(stack)
    BY <1>4, CalmInLoop DEF ViewOpen, ViewInv, Typed
  <2>2. PICK f \in Frame : f = At("View.opened", "open") /\ f.at = "View.opened"
    BY <1>2, AtIn
  <2>3. ~Tells(f)
    BY <2>2 DEF Tells, TellsOut
  <2>4. /\ Append(stack, f) \in Seq(Frame) /\ Stacked(Append(stack, f))
        /\ Calm(Append(stack, f)) /\ ~LastTellsOut(Append(stack, f))
    BY <2>1, <2>2, <2>3, PushFree
  <2>5. PICK t \in Seq(Frame) : t = Append(stack, f)
    BY <2>4
  <2>6. PICK e \in Holdable : SetFocus(e, t)
    BY <1>2, <1>4, <2>2, <2>5 DEF ViewOpen
  <2>7. FocusChanged(t, stack') /\ focused' \in Holdable /\ UNCHANGED <<hovered, dragged>>
    BY <1>3, <2>4, <2>5, <2>6, SetFocusQuiet
  <2> QED BY <2>1, <2>4, <2>5, <2>7, CalmChange DEF FocusChanged
<1>5. ASSUME ViewOpened PROVE Done
  <2>1. Depth > 0 /\ Top.at = "View.opened"
    BY <1>5 DEF ViewOpened, Resumes
  <2>2. ~Quiet(Top) /\ ~Tells(Top)
    BY <2>1 DEF Quiet, Tells, TellsOut
  <2>3. Below \in Seq(Frame) /\ Stacked(Below) /\ Calm(Below) /\ (~mouseOver => hovered = {})
    BY <2>1, <2>2, CalmBelow
  <2>4. PICK b \in Seq(Frame) : b = Below
    BY <2>3
  <2>5. Fire("viewopen", None, b) /\ focused' = o
    BY <1>3, <1>5, <2>4 DEF ViewOpened, held
  <2> QED BY <1>2, <2>3, <2>4, <2>5, PlainFire
<1>6. Done
  BY <1>4, <1>5
<1>7. grab' \in Holdable
  BY <1>1, <1>3
<1> QED BY <1>1, <1>6, <1>7, PlainStep

LEMMA KeyKeeps ==
  ASSUME ViewInv, ViewFocusedIn \/ KeyToElement \/ KeyDropsFocus \/ KeyTab
  PROVE  ViewInv'
<1>1. /\ Depth > 0 /\ Top.at \in {"View.focusin", "Key.view", "Key.out", "Key.element"}
      /\ UNCHANGED <<mouseOver, mouseover, grab, dragover, targets, habit>>
  BY DEF ViewFocusedIn, KeyToElement, KeyDropsFocus, KeyTab, Resumes, held
<1>2. ~Quiet(Top) /\ ~Tells(Top)
  BY <1>1 DEF Quiet, Tells, TellsOut
<1>3. /\ Below \in Seq(Frame) /\ Stacked(Below) /\ Calm(Below) /\ ~LastTellsOut(Below)
      /\ Top \in Frame /\ (~mouseOver => hovered = {})
  BY <1>1, <1>2, CalmBelow
<1>4. PICK o \in Holdable : o = focused
  BY DEF ViewInv, Typed
<1>5. None \in Holdable /\ Elements \subseteq Holdable
  BY DEF Holdable
<1>6. {"focusout", "key"} \subseteq Plain /\ "key" \in Evs /\ {"Key.out", "Key.element"} \subseteq Ats
  BY DEF Plain, Evs, Ats, Mouse
<1>7. PICK f \in Frame : f = At("Key.out", "key") /\ f.at = "Key.out"
  BY <1>6, AtIn
<1>8. PICK g \in Frame : g = [Top EXCEPT !.at = "Key.element"] /\ g.at = "Key.element"
  <2>1. PICK k \in Frame : k = Top
    BY <1>3
  <2>2. [k EXCEPT !.at = "Key.element"] \in Frame /\ [k EXCEPT !.at = "Key.element"].at = "Key.element"
    BY <1>6, Renamed
  <2> QED BY <2>1, <2>2
<1>9. ~Tells(f) /\ ~Tells(g)
  BY <1>7, <1>8 DEF Tells, TellsOut
<1>10. \/ /\ stack' = Below /\ UNCHANGED <<hovered, dragged>> /\ focused' \in {o, None}
       \/ Fire("focusout", o, Append(Below, f)) /\ focused' = o
       \/ Fire("key", o, Append(Below, g)) /\ focused' = o
       \/ \E e \in Elements : SetFocus(e, Below)
  BY <1>4, <1>7, <1>8
     DEF ViewFocusedIn, KeyToElement, KeyDropsFocus, KeyTab, Return, told, held
<1>11. /\ stack' \in Seq(Frame) /\ Stacked(stack') /\ Calm(stack')
       /\ UNCHANGED <<hovered, dragged>> /\ focused' \in Holdable
  <2>1. CASE Fire("focusout", o, Append(Below, f)) /\ focused' = o
    BY <1>3, <1>6, <1>7, <1>9, <2>1, PlainCall
  <2>2. CASE Fire("key", o, Append(Below, g)) /\ focused' = o
    BY <1>3, <1>6, <1>8, <1>9, <2>2, PlainCall
  <2>3. ASSUME NEW e \in Elements, SetFocus(e, Below)
        PROVE  /\ stack' \in Seq(Frame) /\ Stacked(stack') /\ Calm(stack')
               /\ UNCHANGED <<hovered, dragged>> /\ focused' \in Holdable
    <3>1. e \in Holdable /\ focused \in Holdable
      BY <1>4, <1>5
    <3>2. FocusChanged(Below, stack') /\ focused' \in Holdable /\ UNCHANGED <<hovered, dragged>>
      BY <1>3, <2>3, <3>1, SetFocusQuiet
    <3> QED BY <1>3, <3>2, CalmChange DEF FocusChanged
  <2> QED BY <1>3, <1>5, <1>10, <2>1, <2>2, <2>3
<1>12. grab' \in Holdable
  BY <1>1 DEF ViewInv, Typed
<1> QED BY <1>1, <1>3, <1>11, <1>12, PlainStep

-----------------------------------------------------------------------------
(* The mouse. *)
LEMMA ViewTold ==
  ASSUME NEW s \in Seq(Frame), Stacked(s), Calm(s), NEW ev \in Mouse, ev # "out", ToView(ev, s)
  PROVE  /\ stack' \in Seq(Frame) /\ Stacked(stack') /\ Calm(stack')
         /\ UNCHANGED <<hovered, dragged>>
<1>1. "Mouse.view" \in Ats /\ ev \in Evs /\ "viewmouse" \in Plain /\ None \in Holdable
  BY DEF Ats, Evs, Plain, Mouse, Holdable
<1>2. PICK f \in Frame : f = At("Mouse.view", ev) /\ f.at = "Mouse.view" /\ f.ev = ev
  BY <1>1, AtIn
<1>3. ~Tells(f)
  BY <1>2 DEF Tells, TellsOut
<1>4. Fire("viewmouse", None, Append(s, f))
  BY <1>2 DEF ToView
<1> QED BY <1>1, <1>2, <1>3, <1>4, PlainCall

LEMMA MouseEventKeeps ==
  ASSUME ViewInv, NEW ev \in Mouse, MouseEvent(ev)
  PROVE  ViewInv'
<1>1. /\ MainLoopRuns /\ (ev = "out" => mouseOver) /\ mouseOver' = (ev # "out")
      /\ UNCHANGED <<focused, mouseover, grab, dragover, targets, habit>>
  BY DEF MouseEvent, held
<1>2. /\ Calm(stack) /\ stack \in Seq(Frame) /\ Stacked(stack)
      /\ (~mouseOver => hovered = {})
  BY <1>1, CalmInLoop DEF ViewInv, Typed
<1>3. {"move"} \subseteq Mouse /\ {"Mouse.first", "Mouse.view"} \subseteq Ats /\ Mouse \subseteq Evs
  BY DEF Mouse, Ats, Evs
<1>4. CASE ev # "out"
  <2>1. PICK f \in Frame : f = At("Mouse.first", ev) /\ f.at = "Mouse.first" /\ f.ev = ev
    BY <1>3, AtIn
  <2>2. ~Tells(f)
    BY <2>1 DEF Tells, TellsOut
  <2>3. Append(stack, f) \in Seq(Frame) /\ Stacked(Append(stack, f)) /\ Calm(Append(stack, f))
    BY <1>2, <1>4, <2>1, <2>2, CalmPush
  <2>4. \/ ToView(ev, stack) \/ ToView("move", stack) \/ ToView("move", Append(stack, f))
    BY <2>1 DEF MouseEvent
  <2>5. CASE ToView(ev, stack)
    <3>1. /\ stack' \in Seq(Frame) /\ Stacked(stack') /\ Calm(stack')
          /\ UNCHANGED <<hovered, dragged>>
      BY <1>2, <1>4, <2>5, ViewTold
    <3> QED BY <1>1, <1>2, <1>4, <3>1, PlainStep DEF ViewInv, Typed
  <2>6. CASE ToView("move", stack)
    <3>1. /\ stack' \in Seq(Frame) /\ Stacked(stack') /\ Calm(stack')
          /\ UNCHANGED <<hovered, dragged>>
      BY <1>2, <1>3, <2>6, ViewTold
    <3> QED BY <1>1, <1>2, <1>4, <3>1, PlainStep DEF ViewInv, Typed
  <2>7. CASE ToView("move", Append(stack, f))
    <3>1. PICK t \in Seq(Frame) : t = Append(stack, f)
      BY <2>3
    <3>2. /\ stack' \in Seq(Frame) /\ Stacked(stack') /\ Calm(stack')
          /\ UNCHANGED <<hovered, dragged>>
      BY <1>3, <2>3, <2>7, <3>1, ViewTold
    <3> QED BY <1>1, <1>2, <1>4, <3>2, PlainStep DEF ViewInv, Typed
  <2> QED BY <2>4, <2>5, <2>6, <2>7
<1>5. CASE ev = "out"
  <2>1. ToView("out", stack)
    BY <1>1, <1>5 DEF MouseEvent
  <2>2. "out" \in Evs /\ "viewout" \in Evs /\ None \in Holdable
    BY DEF Evs, Mouse, Holdable
  <2>3. PICK f \in Frame : f = At("Mouse.view", "out") /\ f.at = "Mouse.view" /\ f.ev = "out"
    BY <1>3, <2>2, AtIn
  <2>4. PICK h \in Frame : h = Handler("viewout", None) /\ h.at = "handler" /\ h.ev = "viewout"
    BY <2>2, HandlerIn
  <2>5. stack' = Append(Append(stack, f), h) /\ UNCHANGED <<hovered, dragged>>
    BY <2>1, <2>3, <2>4 DEF ToView, Fire
  <2>6. TellsOut(f) /\ Tells(f) /\ Quiet(h)
    BY <2>3, <2>4 DEF Tells, TellsOut, Quiet
  <2>7. Matched'
    BY <1>1, <2>5 DEF ViewInv, Matched
  <2>8. TellingOK(f)'
    BY <2>3 DEF TellingOK
  <2>9. stack' \in Seq(Frame) /\ (Typed' => ViewInv')
    BY <1>2, <2>4, <2>5, <2>6, <2>7, <2>8, Begun DEF ViewInv
  <2> QED BY <1>1, <2>9 DEF ViewInv, Typed
<1> QED BY <1>4, <1>5

(* A mouse event reaches the grabbing element, or one of the others. *)
LEMMA MouseToKeeps ==
  ASSUME ViewInv,
         \/ MouseEntered \/ MouseToGrab \/ MouseGrabbed
         \/ MouseCanceled \/ MouseToChildren \/ MousePressed
  PROVE  ViewInv'
<1>1. /\ Depth > 0 /\ UNCHANGED <<mouseOver, mouseover, dragover, targets, habit>>
      /\ Top.at \in {"Mouse.first", "Mouse.view", "Mouse.grabbed", "Mouse.pressed"}
  BY DEF MouseEntered, MouseToGrab, MouseGrabbed, MouseCanceled, MouseToChildren, MousePressed,
         Resumes, held
<1>2. Top \in Frame /\ (Top.at = "Mouse.first" => Top.ev # "out")
  BY <1>1, Popped DEF ViewInv
<1>3. ~TellsOut(Top)
  <2>1. CASE MouseToChildren
    BY <2>1 DEF MouseToChildren, TellsOut
  <2>2. CASE MouseToGrab
    BY <2>2 DEF MouseToGrab, GrabTakes, TellsOut
  <2>3. CASE MouseCanceled
    <3>1. ret
      BY <2>3 DEF MouseCanceled
    <3> QED BY <1>1, <3>1 DEF ViewInv, LastTellsOut, Top, Depth
  <2>4. CASE MouseEntered \/ MouseGrabbed \/ MousePressed
    BY <2>4 DEF MouseEntered, MouseGrabbed, MousePressed, Resumes, TellsOut
  <2> QED BY <2>1, <2>2, <2>3, <2>4
<1>4. ~Quiet(Top) /\ ~Tells(Top)
  BY <1>1, <1>3 DEF Quiet, Tells
<1>5. /\ Below \in Seq(Frame) /\ Stacked(Below) /\ Calm(Below) /\ ~LastTellsOut(Below)
      /\ (~mouseOver => hovered = {})
  BY <1>1, <1>4, CalmBelow
<1>6. PICK top \in Frame : top = Top
  BY <1>2
<1>7. None \in Holdable /\ Elements \subseteq Holdable
  BY DEF Holdable
<1>8. PICK o \in Holdable, g \in Holdable : o = focused /\ g = grab
  BY DEF ViewInv, Typed
<1>9. PICK b \in Seq(Frame) : b = Below
  BY <1>5
<1>10. /\ {"Mouse.grabbed", "Mouse.fired", "Mouse.pressed"} \subseteq Ats /\ "mouse" \in Plain
  BY DEF Ats, Plain, Evs, Mouse
<1> DEFINE Done == /\ stack' \in Seq(Frame) /\ Stacked(stack') /\ Calm(stack')
                   /\ UNCHANGED <<hovered, dragged>> /\ focused' \in Holdable /\ grab' \in Holdable
<1>11. ASSUME MouseEntered PROVE Done
  <2>1. ToView(top.ev, b) /\ focused' = o /\ grab' = g /\ top.ev # "out"
    BY <1>2, <1>6, <1>8, <1>9, <1>11 DEF MouseEntered, Resumes, held
  <2>2. CASE top.ev \in Mouse
    BY <1>5, <1>8, <1>9, <2>1, <2>2, ViewTold
  <2>3. CASE top.ev \notin Mouse
    <3>1. top.ev \in Evs /\ "Mouse.view" \in Ats /\ "viewmouse" \in Plain
      BY DEF Frame, Ats, Plain, Evs, Mouse
    <3>2. PICK f \in Frame : f = At("Mouse.view", top.ev) /\ f.at = "Mouse.view" /\ f.ev = top.ev
      BY <3>1, AtIn
    <3>3. ~Tells(f)
      BY <2>1, <3>2 DEF Tells, TellsOut
    <3>4. Fire("viewmouse", None, Append(b, f))
      BY <2>1, <3>2 DEF ToView
    <3> QED BY <1>5, <1>7, <1>8, <1>9, <2>1, <3>1, <3>2, <3>3, <3>4, PlainCall
  <2> QED BY <2>2, <2>3
<1>12. ASSUME MouseToGrab PROVE Done
  <2>1. PICK f \in Frame : f = [top EXCEPT !.at = "Mouse.grabbed"] /\ f.at = "Mouse.grabbed"
    BY <1>10, Renamed
  <2>2. Fire("mouse", g, Append(b, f)) /\ focused' = o /\ grab' = g
    BY <1>6, <1>8, <1>9, <1>12, <2>1 DEF MouseToGrab, held
  <2>3. ~Tells(f)
    BY <2>1 DEF Tells, TellsOut
  <2> QED BY <1>5, <1>8, <1>9, <1>10, <2>1, <2>2, <2>3, PlainCall
<1>13. ASSUME MouseGrabbed \/ MouseCanceled PROVE Done
  BY <1>5, <1>7, <1>8, <1>13 DEF MouseGrabbed, MouseCanceled, Return, held, told
<1>14. ASSUME MouseToChildren PROVE Done
  <2>1. PICK e \in Holdable :
          \/ Return(Append(b, Holding("Mouse.fired", top.ev, e))) /\ focused' = o
          \/ SetFocus(e, Append(b, Holding("Mouse.pressed", top.ev, e)))
          \/ Fire("mouse", e, Append(b, Holding("Mouse.fired", top.ev, e))) /\ focused' = o
    BY <1>6, <1>7, <1>8, <1>9, <1>14 DEF MouseToChildren
  <2>2. top.ev \in Evs
    BY DEF Frame
  <2>3. PICK f \in Frame : f = Holding("Mouse.fired", top.ev, e) /\ f.at = "Mouse.fired"
    BY <1>10, <2>2, HoldingIn
  <2>4. PICK p \in Frame : p = Holding("Mouse.pressed", top.ev, e) /\ p.at = "Mouse.pressed"
    BY <1>10, <2>2, HoldingIn
  <2>5. ~Tells(f) /\ ~Tells(p)
    BY <2>3, <2>4 DEF Tells, TellsOut
  <2>6. grab' = None
    BY <1>14 DEF MouseToChildren
  <2>7. CASE Return(Append(b, f)) /\ focused' = o
    BY <1>5, <1>7, <1>8, <1>9, <2>3, <2>5, <2>6, <2>7, CalmPush DEF Return, told
  <2>8. CASE Fire("mouse", e, Append(b, f)) /\ focused' = o
    BY <1>5, <1>7, <1>8, <1>9, <1>10, <2>3, <2>5, <2>6, <2>8, PlainCall
  <2>9. CASE SetFocus(e, Append(b, p))
    <3>1. /\ Append(b, p) \in Seq(Frame) /\ Stacked(Append(b, p)) /\ Calm(Append(b, p))
          /\ ~LastTellsOut(Append(b, p))
      BY <1>5, <1>9, <2>4, <2>5, PushFree
    <3>2. PICK t \in Seq(Frame) : t = Append(b, p)
      BY <3>1
    <3>3. FocusChanged(t, stack') /\ focused' \in Holdable /\ UNCHANGED <<hovered, dragged>>
      BY <1>8, <2>9, <3>1, <3>2, SetFocusQuiet
    <3> QED BY <1>7, <2>6, <3>1, <3>2, <3>3, CalmChange DEF FocusChanged
  <2> QED BY <2>1, <2>3, <2>4, <2>7, <2>8, <2>9
<1>15. ASSUME MousePressed PROVE Done
  <2>1. PICK f \in Frame : f = [top EXCEPT !.at = "Mouse.fired"] /\ f.at = "Mouse.fired"
    BY <1>10, Renamed
  <2>2. PICK e \in Holdable : e = top.e
    BY DEF Frame
  <2>3. /\ Return(Append(b, f)) \/ Fire("mouse", e, Append(b, f))
        /\ focused' = o /\ grab' = g
    BY <1>6, <1>8, <1>9, <1>15, <2>1, <2>2 DEF MousePressed, held
  <2>4. ~Tells(f)
    BY <2>1 DEF Tells, TellsOut
  <2>5. CASE Return(Append(b, f))
    BY <1>5, <1>8, <1>9, <2>1, <2>3, <2>4, <2>5, CalmPush DEF Return, told
  <2>6. CASE Fire("mouse", e, Append(b, f))
    BY <1>5, <1>8, <1>9, <1>10, <2>1, <2>3, <2>4, <2>6, PlainCall
  <2> QED BY <2>3, <2>5, <2>6
<1>16. Done
  BY <1>11, <1>12, <1>13, <1>14, <1>15
<1> QED BY <1>1, <1>5, <1>16, PlainStep
(* A method that tells ends with Below, or goes on from it. *)
LEMMA TellingTop ==
  ASSUME ViewInv, Depth > 0, Tells(Top)
  PROVE  /\ Below \in Seq(Frame) /\ Stacked(Below) /\ Calm(Below)
         /\ Top \in Frame /\ TellingOK(Top)
         /\ (~mouseOver /\ ~TellsOut(Top) => hovered = {})
<1>1. ~Quiet(Top)
  BY DEF Tells, TellsOut, Quiet
<1>2. /\ Below \in Seq(Frame) /\ Stacked(Below) /\ Calm(Below) /\ Top \in Frame
  BY <1>1, Popped DEF ViewInv
<1>3. Depth \in Nat
  BY DEF ViewInv, Typed, Depth
<1>4. Depth \in 1 .. Depth /\ Top = stack[Depth]
  BY <1>3 DEF Top
<1>5. TellingOK(Top)
  BY <1>4 DEF ViewInv
<1>6. ASSUME ~TellsOut(Top), NEW i \in 1 .. Depth PROVE ~TellsOut(stack[i])
  <2>1. CASE i = Depth
    BY <1>4, <1>6, <2>1
  <2>2. CASE i # Depth
    <3>1. Depth \in i + 1 .. Depth
      BY <1>3, <2>2
    <3>2. ~Tells(stack[i])
      BY <1>1, <1>4, <3>1 DEF ViewInv, Stacked, Depth
    <3> QED BY <3>2 DEF Tells
  <2> QED BY <2>1, <2>2
<1> QED BY <1>2, <1>5, <1>6 DEF ViewInv

(* An element is told that the mouse is over it. *)
LEMMA FireOverKeeps ==
  ASSUME ViewInv, NEW s \in Seq(Frame), Stacked(s), Calm(s), NEW e \in Holdable,
         FireOver(e, s), hovered = {}, mouseOver, mouseover' = e,
         UNCHANGED <<mouseOver, dragover, targets, habit>>, focused' \in Holdable, grab' \in Holdable
  PROVE  ViewInv'
<1>1. CASE Return(s)
  BY <1>1, Calmed DEF ViewInv, Typed, Matched, Return, told
<1>2. CASE ~Return(s)
  <2>1. Fire("over", e, s) /\ e # None
    BY <1>2 DEF FireOver
  <2>2. "over" \in Evs
    BY DEF Evs, Mouse
  <2>3. stack' \in Seq(Frame) /\ Stacked(stack') /\ Calm(stack')
    BY <2>1, <2>2, CalmFire
  <2>4. hovered' = {e} /\ dragged' = dragged
    BY <2>1 DEF Fire
  <2> QED BY <2>1, <2>3, <2>4, Calmed DEF ViewInv, Typed, Matched
<1> QED BY <1>1, <1>2

(* The element m under the mouse, which may be another one by now, is told  *)
(* that the mouse has left it, and f goes on.                               *)
LEMMA FireOutKeeps ==
  ASSUME ViewInv, NEW s \in Seq(Frame), Stacked(s), Calm(s),
         NEW f \in Frame, f.at \in {"Mouse.left", "Mouse.out"}, f.at = "Mouse.left" => mouseOver,
         Fire("out", mouseover, Append(s, f)),
         UNCHANGED <<mouseOver, dragover, targets, habit>>,
         mouseover' \in Holdable, focused' \in Holdable, grab' \in Holdable
  PROVE  ViewInv'
<1>1. PICK m \in Holdable : m = mouseover
  BY DEF ViewInv, Typed
<1>2. PICK h \in Frame : h = Handler("out", m) /\ h.at = "handler" /\ h.ev = "out"
  <2>1. "out" \in Evs
    BY DEF Evs, Mouse
  <2> QED BY <2>1, HandlerIn
<1>3. stack' = Append(Append(s, f), h) /\ hovered' = hovered \ {m} /\ dragged' = dragged
  BY <1>1, <1>2 DEF Fire
<1>4. hovered' = {} /\ Matched'
  BY <1>1, <1>3 DEF ViewInv, Matched
<1>5. TellingOK(f)'
  BY <1>4 DEF TellingOK
<1>6. Tells(f) /\ ~TellsOut(f) /\ Quiet(h)
  BY <1>2 DEF Tells, TellsOut, Quiet
<1>7. stack' \in Seq(Frame) /\ (Typed' => ViewInv')
  BY <1>2, <1>3, <1>4, <1>5, <1>6, Begun DEF ViewInv
<1> QED BY <1>7 DEF ViewInv, Typed

LEMMA MouseFiredKeeps ==
  ASSUME ViewInv, MouseFired
  PROVE  ViewInv'
<1>1. /\ Depth > 0 /\ Top.at = "Mouse.fired"
      /\ UNCHANGED <<mouseOver, focused, dragover, targets, habit>>
  BY DEF MouseFired, Resumes
<1>2. ~Quiet(Top) /\ ~Tells(Top)
  BY <1>1 DEF Quiet, Tells, TellsOut
<1>3. /\ Below \in Seq(Frame) /\ Stacked(Below) /\ Calm(Below)
      /\ Top \in Frame /\ (~mouseOver => hovered = {})
  BY <1>1, <1>2, CalmBelow
<1>4. PICK e \in Holdable, m \in Holdable, g \in Holdable :
        e = Top.e /\ m = mouseover /\ g = grab
  BY <1>3 DEF ViewInv, Typed, Frame
<1>5. PICK b \in Seq(Frame) : b = Below
  BY <1>3
<1>6. PICK top \in Frame : top = Top
  BY <1>3
<1>7. focused' \in Holdable /\ grab' \in Holdable
  BY <1>1, <1>4 DEF ViewInv, Typed, MouseFired
<1>8. CASE ~mouseOver \/ e = m
  <2>1. Return(b) /\ mouseover' = m
    BY <1>4, <1>5, <1>8 DEF MouseFired
  <2> QED BY <1>1, <1>3, <1>4, <1>5, <1>7, <2>1, PlainStep DEF Return, told
<1>9. CASE mouseOver /\ e # m /\ m # None
  <2>1. "Mouse.left" \in Ats
    BY DEF Ats
  <2>2. PICK f \in Frame : f = [top EXCEPT !.at = "Mouse.left"] /\ f.at = "Mouse.left"
    BY <2>1, Renamed
  <2>3. Fire("out", mouseover, Append(b, f)) /\ mouseover' = e
    BY <1>4, <1>5, <1>6, <1>9, <2>2 DEF MouseFired
  <2> QED BY <1>1, <1>3, <1>5, <1>7, <1>9, <2>2, <2>3, FireOutKeeps
<1>10. CASE mouseOver /\ e # m /\ m = None
  <2>1. FireOver(e, b) /\ mouseover' = e
    BY <1>4, <1>5, <1>10 DEF MouseFired
  <2>2. hovered = {}
    BY <1>4, <1>10 DEF ViewInv, Matched
  <2> QED BY <1>1, <1>3, <1>5, <1>7, <1>10, <2>1, <2>2, FireOverKeeps
<1> QED BY <1>8, <1>9, <1>10

LEMMA MouseLeavesKeeps ==
  ASSUME ViewInv, MouseLeavesView \/ MouseLeftView \/ MouseLeft
  PROVE  ViewInv'
<1>1. /\ Depth > 0 /\ UNCHANGED <<mouseOver, focused, dragover, targets, habit>>
      /\ Tells(Top)
  BY DEF MouseLeavesView, MouseLeftView, MouseLeft, Resumes, held, Tells, TellsOut
<1>2. /\ Below \in Seq(Frame) /\ Stacked(Below) /\ Calm(Below)
      /\ Top \in Frame /\ TellingOK(Top)
  BY <1>1, TellingTop
<1>3. PICK m \in Holdable, g \in Holdable : m = mouseover /\ g = grab
  BY DEF ViewInv, Typed
<1>4. PICK b \in Seq(Frame) : b = Below
  BY <1>2
<1>5. PICK top \in Frame : top = Top
  BY <1>2
<1>6. None \in Holdable
  BY DEF Holdable
<1>7. focused' \in Holdable /\ grab' \in Holdable
  BY <1>1, <1>3, <1>6 DEF ViewInv, Typed, MouseLeavesView, MouseLeftView, MouseLeft, held
<1>8. CASE MouseLeavesView /\ m = None
  <2>1. hovered = {}
    BY <1>3, <1>8 DEF ViewInv, Matched
  <2>2. Return(b) /\ mouseover' = m
    BY <1>3, <1>4, <1>8 DEF MouseLeavesView
  <2> QED BY <1>1, <1>2, <1>3, <1>4, <1>7, <2>1, <2>2, PlainStep DEF Return, told
<1>9. CASE MouseLeavesView /\ m # None
  <2>1. "Mouse.out" \in Ats
    BY DEF Ats
  <2>2. PICK f \in Frame : f = [top EXCEPT !.at = "Mouse.out"] /\ f.at = "Mouse.out"
    BY <2>1, Renamed
  <2>3. Fire("out", mouseover, Append(b, f)) /\ mouseover' = m
    BY <1>3, <1>4, <1>5, <1>9, <2>2 DEF MouseLeavesView
  <2> QED BY <1>1, <1>2, <1>4, <1>7, <2>2, <2>3, FireOutKeeps
<1>10. CASE MouseLeftView
  <2>1. /\ stack' = b /\ mouseover' = None /\ UNCHANGED <<hovered, dragged>>
    BY <1>4, <1>10 DEF MouseLeftView, Return, told
  <2>2. hovered = {}
    BY <1>2, <1>10 DEF MouseLeftView, Resumes, TellingOK
  <2>3. Typed' /\ Matched'
    BY <1>1, <1>6, <1>7, <2>1, <2>2 DEF ViewInv, Typed, Matched
  <2> QED BY <1>2, <1>4, <2>1, <2>2, <2>3, Calmed
<1>11. CASE MouseLeft
  <2>1. FireOver(m, b) /\ mouseover' = m
    BY <1>3, <1>4, <1>11 DEF MouseLeft, held
  <2>2. hovered = {} /\ mouseOver
    BY <1>2, <1>11 DEF MouseLeft, Resumes, TellingOK
  <2> QED BY <1>1, <1>2, <1>4, <1>7, <2>1, <2>2, FireOverKeeps
<1> QED BY <1>8, <1>9, <1>10, <1>11

-----------------------------------------------------------------------------
(* Drags. *)
LEMMA DragOutKeeps ==
  ASSUME ViewInv, MainLoopRuns, NEW f \in Frame, f.at \in {"Drag.left", "Drag.out"},
         NEW ev \in {"dragout", "dragdrop"}, TellDrag(ev, dragover, Append(stack, f)),
         UNCHANGED <<mouseOver, mouseover, focused, grab, targets, habit>>, dragover' \in Holdable
  PROVE  ViewInv'
<1>1. /\ Calm(stack) /\ stack \in Seq(Frame) /\ Stacked(stack)
      /\ (~mouseOver => hovered = {})
  BY CalmInLoop DEF ViewInv, Typed
<1>2. PICK d \in Holdable : d = dragover
  BY DEF ViewInv, Typed
<1>3. PICK h \in Frame : h = Handler(ev, d) /\ h.at = "handler" /\ h.ev = ev
  <2>1. ev \in Evs
    BY DEF Evs
  <2> QED BY <2>1, HandlerIn
<1>4. Tells(f) /\ ~TellsOut(f) /\ Quiet(h)
  BY <1>3 DEF Tells, TellsOut, Quiet
<1>5. CASE Fire(ev, d, Append(stack, f))
  <2>1. stack' = Append(Append(stack, f), h) /\ dragged' = dragged \ {d} /\ hovered' = hovered
    BY <1>3, <1>5 DEF Fire
  <2>2. dragged' = {} /\ Matched'
    BY <1>2, <2>1 DEF ViewInv, Matched
  <2>3. TellingOK(f)'
    BY <2>2 DEF TellingOK
  <2>4. mouseOver' \/ hovered' = {}
    BY <1>1, <2>1
  <2>5. stack' \in Seq(Frame) /\ (Typed' => ViewInv')
    BY <1>1, <1>3, <1>4, <2>1, <2>2, <2>3, <2>4, Begun DEF ViewInv
  <2> QED BY <2>5 DEF ViewInv, Typed
<1>6. CASE d \notin targets /\ Return(Append(stack, f))
  <2>1. stack' = Append(stack, f) /\ UNCHANGED <<hovered, dragged>>
    BY <1>6 DEF Return, told
  <2>2. dragged' = {} /\ Matched'
    BY <1>2, <1>6, <2>1 DEF ViewInv, Matched
  <2>3. TellingOK(f)'
    BY <2>2 DEF TellingOK
  <2>4. mouseOver' \/ hovered' = {}
    BY <1>1, <2>1
  <2>5. stack' \in Seq(Frame) /\ (Typed' => ViewInv')
    BY <1>1, <1>4, <2>1, <2>2, <2>3, <2>4, BegunSilently DEF ViewInv
  <2> QED BY <2>5 DEF ViewInv, Typed
<1> QED BY <1>2, <1>5, <1>6 DEF TellDrag

LEMMA DragOverKeeps ==
  ASSUME ViewInv, NEW s \in Seq(Frame), Stacked(s), Calm(s), NEW e \in Holdable, e # None,
         TellDrag("dragover", e, s), dragged = {}, dragover' = e,
         ~mouseOver => hovered = {},
         UNCHANGED <<mouseOver, mouseover, focused, grab, targets, habit>>
  PROVE  ViewInv'
<1>1. "dragover" \in Evs
  BY DEF Evs
<1>2. CASE e \in targets
  <2>1. Fire("dragover", e, s)
    BY <1>2 DEF TellDrag
  <2>2. stack' \in Seq(Frame) /\ Stacked(stack') /\ Calm(stack')
    BY <1>1, <2>1, CalmFire
  <2>3. dragged' = {e} /\ hovered' = hovered
    BY <2>1 DEF Fire
  <2>4. Typed' /\ Matched'
    BY <1>2, <2>2, <2>3 DEF ViewInv, Typed, Matched
  <2> QED BY <2>2, <2>3, <2>4, Calmed
<1>3. CASE e \notin targets
  <2>1. stack' = s /\ UNCHANGED <<hovered, dragged>>
    BY <1>3 DEF TellDrag, Return, told
  <2>2. Typed' /\ Matched'
    BY <2>1 DEF ViewInv, Typed, Matched
  <2> QED BY <2>1, <2>2, Calmed
<1> QED BY <1>2, <1>3

LEMMA DragMotionKeeps ==
  ASSUME ViewInv, DragMotion
  PROVE  ViewInv'
<1>1. PICK e \in Holdable :
        /\ e # dragover /\ dragover' = e
        /\ IF dragover # None
           THEN TellDrag("dragout", dragover, Append(stack, At("Drag.left", "motion")))
           ELSE TellDrag("dragover", e, stack)
  <2>1. {None} \cup {g \in targets : Visible(g)} \subseteq Holdable
    BY DEF ViewInv, Typed, Holdable
  <2> QED BY <2>1 DEF DragMotion
<1>2. MainLoopRuns /\ UNCHANGED <<mouseOver, mouseover, focused, grab, targets, habit>>
  BY DEF DragMotion
<1>3. /\ Calm(stack) /\ stack \in Seq(Frame) /\ Stacked(stack)
      /\ (~mouseOver => hovered = {})
  BY <1>2, CalmInLoop DEF ViewInv, Typed
<1>4. CASE dragover # None
  <2>1. "Drag.left" \in Ats /\ "motion" \in Evs
    BY DEF Ats, Evs
  <2>2. PICK f \in Frame : f = At("Drag.left", "motion") /\ f.at = "Drag.left"
    BY <2>1, AtIn
  <2>3. TellDrag("dragout", dragover, Append(stack, f))
    BY <1>1, <1>4, <2>2
  <2> QED BY <1>1, <1>2, <2>2, <2>3, DragOutKeeps
<1>5. CASE dragover = None
  <2>1. dragged = {}
    BY <1>5 DEF ViewInv, Matched
  <2> QED BY <1>1, <1>2, <1>3, <1>5, <2>1, DragOverKeeps
<1> QED BY <1>4, <1>5

LEMMA DragOutOrDropKeeps ==
  ASSUME ViewInv, DragOutOrDrop
  PROVE  ViewInv'
<1>1. PICK ev \in {"dragout", "dragdrop"} :
        TellDrag(ev, dragover, Append(stack, At("Drag.out", ev)))
  BY DEF DragOutOrDrop
<1>2. MainLoopRuns /\ UNCHANGED <<mouseOver, mouseover, focused, grab, dragover, targets, habit>>
  BY DEF DragOutOrDrop, held
<1>3. "Drag.out" \in Ats /\ ev \in Evs
  BY DEF Ats, Evs
<1>4. PICK f \in Frame : f = At("Drag.out", ev) /\ f.at = "Drag.out"
  BY <1>3, AtIn
<1>5. dragover' \in Holdable
  BY <1>2 DEF ViewInv, Typed
<1> QED BY <1>1, <1>2, <1>4, <1>5, DragOutKeeps

LEMMA DragEndsKeeps ==
  ASSUME ViewInv, DragLeft \/ DragGone
  PROVE  ViewInv'
<1>1. /\ Depth > 0 /\ UNCHANGED <<mouseOver, mouseover, focused, grab, targets, habit>>
      /\ Top.at \in {"Drag.left", "Drag.out"}
  BY DEF DragLeft, DragGone, Resumes
<1>2. Tells(Top) /\ ~TellsOut(Top)
  BY <1>1 DEF Tells, TellsOut
<1>3. /\ Below \in Seq(Frame) /\ Stacked(Below) /\ Calm(Below) /\ TellingOK(Top)
      /\ (~mouseOver => hovered = {})
  BY <1>1, <1>2, TellingTop
<1>4. dragged = {}
  BY <1>1, <1>3 DEF TellingOK
<1>5. PICK b \in Seq(Frame) : b = Below
  BY <1>3
<1>6. PICK d \in Holdable : d = dragover
  BY DEF ViewInv, Typed
<1>7. \/ Return(b) /\ dragover' = None
      \/ TellDrag("dragover", d, b) /\ dragover' = d /\ d # None
  BY <1>5, <1>6 DEF DragLeft, DragGone
<1>8. CASE Return(b) /\ dragover' = None
  <2>1. stack' = b /\ UNCHANGED <<hovered, dragged>>
    BY <1>8 DEF Return, told
  <2>2. Typed' /\ Matched'
    BY <1>1, <1>4, <1>8, <2>1 DEF ViewInv, Typed, Matched, Holdable
  <2> QED BY <1>1, <1>3, <1>5, <2>1, <2>2, Calmed
<1>9. CASE TellDrag("dragover", d, b) /\ dragover' = d /\ d # None
  BY <1>1, <1>3, <1>4, <1>5, <1>9, DragOverKeeps
<1> QED BY <1>7, <1>8, <1>9

-----------------------------------------------------------------------------
LEMMA InitView == Init => ViewInv
<1> SUFFICES ASSUME Init PROVE ViewInv
  OBVIOUS
<1>1. /\ stack = <<>> /\ hovered = {} /\ dragged = {} /\ ret = FALSE /\ habit \in Habits
      /\ focused = None /\ mouseover = None /\ grab = None /\ dragover = None
      /\ targets \subseteq Elements
  BY ViewAssumption DEF Init
<1>2. stack \in Seq(Frame) /\ Len(stack) = 0 /\ 1 .. 0 = {}
  BY <1>1
<1> QED BY <1>1, <1>2 DEF ViewInv, Typed, Stacked, Matched, LastTellsOut, Depth, Holdable

LEMMA StepKeeps == ViewInv /\ [Next]_vars => ViewInv'
<1> SUFFICES ASSUME ViewInv, [Next]_vars PROVE ViewInv'
  OBVIOUS
<1>1. CASE Script
  BY <1>1, ScriptKeeps
<1>2. CASE ViewMethods
  BY <1>2, SetFocusKeeps, ViewOpenKeeps, KeyKeeps, MouseToKeeps, MouseFiredKeeps, MouseLeavesKeeps,
     DragEndsKeeps DEF ViewMethods
<1>3. CASE Events
  BY <1>3, FocusEventKeeps, ViewOpenKeeps, MouseEventKeeps, DragMotionKeeps, DragOutOrDropKeeps DEF Events
<1>4. CASE UNCHANGED vars
  BY <1>4, Same DEF vars, told, held
<1> QED BY <1>1, <1>2, <1>3, <1>4 DEF Next

THEOREM Invariance == Spec => []ViewInv
BY InitView, StepKeeps, PTL DEF Spec

(* Between two events of the main loop no element but the one under the     *)
(* mouse thinks that the mouse is over it, and none when the mouse has left *)
(* the view, whatever the handlers removed, disabled, hid or focused.       *)
THEOREM HoverIsTold == Spec => []HoverTold
<1>1. ViewInv => HoverTold
  <2> SUFFICES ASSUME ViewInv, Depth = 0
               PROVE  hovered \subseteq {mouseover} /\ (~mouseOver => hovered = {})
    BY DEF HoverTold
  <2>1. \A i \in 1 .. Depth : FALSE
    OBVIOUS
  <2> QED BY <2>1 DEF ViewInv, Matched
<1> QED BY <1>1, Invariance, PTL

(* Between two events no element but the one under a drag, among those that *)
(* have been drop targets ever since they were told, thinks that something  *)
(* is dragged over it, whatever the handlers removed, hid, disabled or made *)
(* a drop target or not (OnDragEvent of the view and of the elements).      *)
THEOREM DragIsTold == Spec => []DragTold
<1>1. ViewInv => DragTold
  BY DEF ViewInv, Matched, DragTold
<1> QED BY <1>1, Invariance, PTL

-----------------------------------------------------------------------------
(* The focus.  An element is told of it between two frames of the stack: a  *)
(* method that changes the focus, and the handler it calls.                 *)
Entering == {"SetFocus.in", "SetFocus.back", "View.focusin"}
FocusAts == Entering \cup {"SetFocus.out", "Key.out"}
FreeFrame == {f \in Frame : f.at \notin FocusAts /\ ~(f.at = "handler" /\ f.ev \in FocusEvs)}
Told == IF viewFocused THEN {focused} \ {None} ELSE {}

Alive(e) == e = None \/ status[e] # "gone"
Lively ==
  /\ status \in [Elements -> {"on", "off", "hidden", "gone"}]
  /\ Alive(focused) /\ Polite(habit)
  /\ Lasting(habit) => \A e \in Elements : status[e] # "off"

(* What a frame f that changes the focus knows: SetFocus before it enters   *)
(* f.e, while the handler h runs and when it has returned.                  *)
Leaving(f) ==
  /\ has = {} /\ f.old = (IF viewFocused THEN focused ELSE None)
  /\ Firm(habit) => f.e = None \/ ReallyEnabled(f.e)
Telling(f, h) ==
  /\ Alive(f.e) /\ Alive(f.old) /\ h.at = "handler"
  /\ f.at = "SetFocus.out" => h.ev = "focusout" /\ Leaving(f)
  /\ f.at = "Key.out" => h.ev = "focusout" /\ has = {}
  /\ f.at \in Entering =>
       /\ h.ev = "focusin" /\ viewFocused
       /\ has = {focused} \ {None} /\ focused \in {None, h.src}
Answered(f) ==
  /\ Alive(f.e) /\ Alive(f.old)
  /\ f.at = "SetFocus.out" => Leaving(f)
  /\ f.at = "Key.out" => has = {}
  /\ f.at \in Entering =>
       /\ viewFocused /\ has = (IF ret THEN {} ELSE {focused} \ {None})
       /\ Firm(habit) => ~ret

AtRest == stack \in Seq(FreeFrame) /\ has = Told
ViewParts ==
  /\ ~viewFocused /\ has = {}
  /\ \E s \in Seq(FreeFrame), h \in Frame :
       stack = Append(s, h) /\ h.at = "handler" /\ h.ev = "focusout"
HandlerTold ==
  \E s \in Seq(FreeFrame), f \in Frame, h \in Frame :
    stack = Append(Append(s, f), h) /\ f.at \in FocusAts /\ Telling(f, h)
MethodTold ==
  \E s \in Seq(FreeFrame), f \in Frame :
    stack = Append(s, f) /\ f.at \in FocusAts /\ Answered(f)

FocusInv == Lively /\ (AtRest \/ ViewParts \/ HandlerTold \/ MethodTold)

-----------------------------------------------------------------------------
(* Stacks of such frames. *)
LEMMA FreeFrames ==
  ASSUME NEW s \in Seq(FreeFrame)
  PROVE  /\ s \in Seq(Frame)
         /\ \A f \in FreeFrame : Append(s, f) \in Seq(FreeFrame)
<1>1. FreeFrame \subseteq Frame
  BY DEF FreeFrame
<1>2. s \in Seq(Frame)
  BY <1>1, SeqMonotonic
<1>3. \A S : \A q \in Seq(S) : \A f \in S : Append(q, f) \in Seq(S)
  OBVIOUS
<1> QED BY <1>2, <1>3

LEMMA TopOfPushed ==
  ASSUME NEW s \in Seq(Frame), NEW f \in Frame, stack = Append(s, f)
  PROVE  Depth > 0 /\ Top = f /\ Below = s
<1>1. PICK n \in Nat : n = Len(s)
  OBVIOUS
<1>2. /\ stack \in Seq(Frame) /\ Len(stack) = n + 1 /\ stack[n + 1] = f
      /\ \A i \in 1 .. n : stack[i] = s[i]
  BY <1>1, Pushed
<1>3. Depth = n + 1 /\ Depth - 1 = n /\ Depth > 0
  BY <1>2 DEF Depth
<1>4. SubSeq(Append(s, f), 1, n) = s
  BY <1>1, AppendProperties, SubSeqProperties
<1> QED BY <1>2, <1>3, <1>4 DEF Top, Below

LEMMA FreePopped ==
  ASSUME stack \in Seq(FreeFrame), Depth > 0
  PROVE  Below \in Seq(FreeFrame) /\ Top \in FreeFrame
<1>1. PICK n \in Nat : n = Depth - 1
  BY DEF Depth
<1>2. Depth = n + 1 /\ Depth \in Nat
  BY <1>1 DEF Depth
<1>3. \A S : \A q \in Seq(S) : \A k \in 1 .. Len(q) : q[k] \in S
  OBVIOUS
<1>4. \A i \in 1 .. n + 1 : stack[i] \in FreeFrame
  BY <1>2, <1>3 DEF Depth
<1>5. \A i \in 1 .. n : stack[i] \in FreeFrame
  BY <1>4
<1>6. SubSeq(stack, 1, n) \in Seq(FreeFrame)
  BY <1>5, SubSeqProperties
<1>7. n + 1 \in 1 .. n + 1
  OBVIOUS
<1> QED BY <1>1, <1>2, <1>4, <1>6, <1>7 DEF Below, Top

(* Frames in full. *)
LEMMA Fields ==
  ASSUME NEW at \in Ats, NEW ev \in Evs, NEW e \in Holdable, NEW o \in Holdable
  PROVE  /\ At(at, ev).e = None /\ At(at, ev).old = None
         /\ Holding(at, ev, e).e = e /\ Holding(at, ev, e).old = None
         /\ [Holding(at, ev, e) EXCEPT !.old = o].e = e
         /\ [Holding(at, ev, e) EXCEPT !.old = o].old = o
         /\ Handler(ev, e).src = e
BY DEF At, Holding, Handler

LEMMA Fired ==
  ASSUME NEW ev \in Evs, NEW e \in Holdable, NEW s, Fire(ev, e, s)
  PROVE  /\ \E h \in Frame :
              stack' = Append(s, h) /\ h.at = "handler" /\ h.ev = ev /\ h.src = e
         /\ ev = "focusin" => has' = has \cup {e}
         /\ ev = "focusout" => has' = has \ {e}
         /\ ev \notin FocusEvs => has' = has
<1>1. "handler" \in Ats
  BY DEF Ats
<1>2. PICK h \in Frame : h = Handler(ev, e) /\ h.at = "handler" /\ h.ev = ev /\ h.src = e
  BY <1>1, HandlerIn, Fields
<1>3. stack' = Append(s, h)
  BY <1>2 DEF Fire
<1>4. /\ ev = "focusin" => has' = has \cup {e}
      /\ ev = "focusout" => has' = has \ {e}
      /\ ev \notin FocusEvs => has' = has
  BY DEF Fire, FocusEvs
<1> QED BY <1>2, <1>3, <1>4

LEMMA StaysLively ==
  ASSUME Lively, UNCHANGED <<status, targets, habit>>, Alive(focused')
  PROVE  Lively'
BY DEF Lively, Alive

LEMMA CanBeTold ==
  ASSUME Lively, Lasting(habit), NEW e \in Holdable, Alive(e), e # None
  PROVE  Enabled(e)
<1>1. e \in Elements /\ status[e] \in {"on", "off", "hidden", "gone"}
  BY DEF Holdable, Lively
<1> QED BY <1>1 DEF Lively, Alive, Enabled

-----------------------------------------------------------------------------
(* SetFocus, called with s. *)
LEMMA TellingStarts ==
  ASSUME NEW s \in Seq(FreeFrame), NEW f \in Frame, f.at \in FocusAts,
         NEW ev \in FocusEvs, NEW e \in Holdable, Fire(ev, e, Append(s, f)), Lively',
         \A h \in Frame : h.at = "handler" /\ h.ev = ev /\ h.src = e => Telling(f, h)'
  PROVE  FocusInv'
<1>1. ev \in Evs
  BY DEF FocusEvs, Evs
<1>2. PICK h \in Frame :
        stack' = Append(Append(s, f), h) /\ h.at = "handler" /\ h.ev = ev /\ h.src = e
  <2>1. PICK t : t = Append(s, f)
    OBVIOUS
  <2>2. Fire(ev, e, t)
    BY <2>1
  <2>3. \E h \in Frame : stack' = Append(t, h) /\ h.at = "handler" /\ h.ev = ev /\ h.src = e
    BY <1>1, <2>2, Fired
  <2> QED BY <2>1, <2>3
<1>3. Telling(f, h)'
  BY <1>2
<1>4. HandlerTold'
  BY <1>2, <1>3 DEF HandlerTold
<1> QED BY <1>4 DEF FocusInv

LEMMA TellingIn ==
  ASSUME NEW s \in Seq(FreeFrame), NEW f \in Frame, f.at \in Entering,
         NEW e \in Elements, Fire("focusin", e, Append(s, f)), has = {}, focused' = e,
         viewFocused', Lively', Alive(f.e)', Alive(f.old)'
  PROVE  FocusInv'
<1>1. f.at \in FocusAts /\ f.at # "SetFocus.out" /\ f.at # "Key.out"
  BY DEF FocusAts, Entering
<1>2. "focusin" \in FocusEvs /\ "focusin" \in Evs /\ e \in Holdable /\ e # None
  BY ViewAssumption DEF FocusEvs, Evs, Holdable
<1>3. has' = {e}
  BY <1>2, Fired
<1>4. ASSUME NEW h \in Frame, h.at = "handler", h.ev = "focusin", h.src = e
      PROVE  Telling(f, h)'
  BY <1>1, <1>2, <1>3, <1>4 DEF Telling
<1> QED BY <1>1, <1>2, <1>4, TellingStarts

LEMMA BackToTells ==
  ASSUME Lively, NEW s \in Seq(FreeFrame), NEW o \in Holdable, Alive(o), viewFocused,
         Lasting(habit), has = {}, BackTo(o, s), UNCHANGED <<status, viewFocused, targets, habit>>
  PROVE  FocusInv'
<1>1. focused' = o
  BY DEF BackTo
<1>2. Lively' /\ Alive(o)'
  BY <1>1, StaysLively DEF Alive
<1>3. CASE o = None
  <2>1. stack' = s /\ has' = {} /\ Told' = {}
    BY <1>1, <1>3 DEF BackTo, Return, told, Told
  <2> QED BY <1>2, <2>1 DEF FocusInv, AtRest
<1>4. CASE o # None
  <2>1. Enabled(o) /\ o \in Elements
    BY <1>4, CanBeTold DEF Holdable
  <2>2. "SetFocus.back" \in Ats /\ "focus" \in Evs
    BY DEF Ats, Evs
  <2>3. None \in Holdable
    BY DEF Holdable
  <2>4. PICK f \in Frame : /\ f = At("SetFocus.back", "focus") /\ f.at = "SetFocus.back"
                           /\ f.e = None /\ f.old = None
    BY <2>2, <2>3, AtIn, Fields
  <2>5. Fire("focusin", o, Append(s, f))
    BY <1>4, <2>1, <2>4 DEF BackTo, FireFocusIn
  <2>6. f.at \in Entering /\ Alive(f.e)' /\ Alive(f.old)'
    BY <2>4 DEF Entering, Alive
  <2> QED BY <1>1, <1>2, <2>1, <2>5, <2>6, TellingIn
<1> QED BY <1>3, <1>4

LEMMA EnterTells ==
  ASSUME Lively, NEW s \in Seq(FreeFrame), NEW e \in Holdable, NEW o \in Holdable,
         Alive(e), Alive(o), Firm(habit) => e = None \/ ReallyEnabled(e),
         has = {}, Enter(e, o, s), UNCHANGED <<status, viewFocused, targets, habit>>
  PROVE  FocusInv'
<1>1. CASE viewFocused /\ e # None /\ ~ReallyEnabled(e)
  <2>1. BackTo(o, s)
    BY <1>1 DEF Enter
  <2>2. Lasting(habit)
    BY <1>1 DEF Lively, Polite
  <2> QED BY <1>1, <2>1, <2>2, BackToTells
<1>2. CASE ~(viewFocused /\ e # None /\ ~ReallyEnabled(e))
  <2>1. focused' = e
    BY <1>2 DEF Enter
  <2>2. Lively' /\ Alive(o)'
    BY <2>1, StaysLively DEF Alive
  <2>3. CASE viewFocused /\ e # None
    <3>1. "SetFocus.in" \in Ats /\ "focus" \in Evs /\ e \in Elements
      BY <2>3 DEF Ats, Evs, Holdable
    <3>2. PICK f \in Frame : /\ f = Holding("SetFocus.in", "focus", o) /\ f.at = "SetFocus.in"
                             /\ f.e = o /\ f.old = None
      BY <3>1, HoldingIn, Fields
    <3>3. Fire("focusin", e, Append(s, f))
      BY <1>2, <2>3, <3>2 DEF Enter
    <3>4. f.at \in Entering /\ Alive(f.e)' /\ Alive(f.old)'
      BY <2>2, <3>2 DEF Entering, Alive
    <3> QED BY <2>1, <2>2, <2>3, <3>1, <3>3, <3>4, TellingIn
  <2>4. CASE ~(viewFocused /\ e # None)
    <3>1. stack' = s /\ has' = {}
      BY <1>2, <2>4 DEF Enter, Return, told
    <3>2. Told' = {}
      BY <2>1, <2>4 DEF Told
    <3> QED BY <2>2, <3>1, <3>2 DEF FocusInv, AtRest
  <2> QED BY <2>3, <2>4
<1> QED BY <1>1, <1>2

LEMMA SetFocusTells ==
  ASSUME Lively, NEW s \in Seq(FreeFrame), NEW e \in Holdable, focused \in Holdable,
         has = Told, SetFocus(e, s), UNCHANGED <<status, viewFocused, targets, habit>>
  PROVE  FocusInv'
<1>0. None \in Holdable /\ Alive(None)
  BY DEF Holdable, Alive
<1>1. CASE e = focused \/ (e # None /\ ~ReallyEnabled(e))
  <2>1. stack' = s /\ has' = has /\ focused' = focused
    BY <1>1 DEF SetFocus, Return, told
  <2>2. Lively' /\ Told' = Told
    BY <2>1, StaysLively DEF Lively, Told
  <2> QED BY <2>1, <2>2 DEF FocusInv, AtRest
<1>2. CASE ~(e = focused \/ (e # None /\ ~ReallyEnabled(e)))
  <2>1. Alive(e) /\ (e = None \/ ReallyEnabled(e))
    BY <1>2 DEF Alive, ReallyEnabled
  <2>2. CASE focused = None
    <3>1. Enter(e, None, s) /\ has = {}
      BY <1>2, <2>2 DEF SetFocus, Told
    <3> QED BY <1>0, <2>1, <3>1, EnterTells
  <2>3. CASE focused # None
    <3>1. PICK o \in Holdable : o = IF focused \in has THEN focused ELSE None
      BY <1>0
    <3>2. PICK d \in Elements : d = focused
      BY <2>3 DEF Holdable
    <3>3. "SetFocus.out" \in Ats /\ "focus" \in Evs /\ "focusout" \in FocusEvs
          /\ "focusout" \in Evs /\ d \in Holdable
      BY DEF Ats, Evs, FocusEvs, Holdable
    <3>4. PICK f \in Frame :
            /\ f = [Holding("SetFocus.out", "focus", e) EXCEPT !.old = o]
            /\ f.at = "SetFocus.out" /\ f.e = e /\ f.old = o
      <4>1. PICK k \in Frame : k = Holding("SetFocus.out", "focus", e) /\ k.at = "SetFocus.out"
        BY <3>3, HoldingIn
      <4>2. [k EXCEPT !.old = o] \in Frame /\ [k EXCEPT !.old = o].at = "SetFocus.out"
        BY <4>1, Resourced
      <4>3. [k EXCEPT !.old = o].e = e /\ [k EXCEPT !.old = o].old = o
        BY <3>3, <4>1, Fields
      <4> QED BY <4>1, <4>2, <4>3
    <3>5. Fire("focusout", d, Append(s, f)) /\ focused' = d
      BY <1>2, <2>3, <3>1, <3>2, <3>4 DEF SetFocus
    <3>6. has' = {} /\ o = (IF viewFocused THEN d ELSE None)
      <4>1. has' = has \ {d}
        BY <3>3, <3>5, Fired
      <4> QED BY <2>3, <3>1, <3>2, <4>1 DEF Told
    <3>7. Lively' /\ Alive(e)' /\ Alive(o)'
      BY <2>1, <3>1, <3>2, <3>5, StaysLively DEF Lively, Alive
    <3>8. ReallyEnabled(e)' <=> ReallyEnabled(e)
      BY DEF ReallyEnabled
    <3>9. f.at \in FocusAts /\ f.at \notin Entering /\ f.at # "Key.out"
      BY <3>4 DEF FocusAts, Entering
    <3>10. ASSUME NEW h \in Frame, h.at = "handler", h.ev = "focusout", h.src = d
           PROVE  Telling(f, h)'
      BY <2>1, <3>4, <3>5, <3>6, <3>7, <3>8, <3>9, <3>10 DEF Telling, Leaving
    <3> QED BY <3>3, <3>5, <3>7, <3>9, <3>10, TellingStarts
  <2> QED BY <2>2, <2>3
<1> QED BY <1>1, <1>2

(* The methods that the focus handlers return to. *)
LEMMA FocusMethodKeeps ==
  ASSUME Lively, MethodTold, focused \in Holdable, ViewMethods
  PROVE  FocusInv'
<1>1. PICK s \in Seq(FreeFrame), f \in Frame :
        stack = Append(s, f) /\ f.at \in FocusAts /\ Answered(f)
  BY DEF MethodTold
<1>2. Depth > 0 /\ Top = f /\ Below = s
  BY <1>1, FreeFrames, TopOfPushed
<1>3. PICK e \in Holdable, o \in Holdable : e = f.e /\ o = f.old
  BY DEF Frame
<1>4. Alive(e) /\ Alive(o) /\ Alive(focused) /\ Alive(None)
  BY <1>1, <1>3 DEF Answered, Lively, Alive
<1>5. SetFocusLeft \/ SetFocusEntered \/ SetFocusIsBack \/ ViewFocusedIn \/ KeyDropsFocus
  BY <1>1, <1>2 DEF ViewMethods, ViewOpened, KeyToElement, KeyTab, MouseEntered, MouseToGrab,
     MouseGrabbed, MouseCanceled, MouseLeavesView, MouseLeftView, MouseToChildren, MousePressed,
     MouseFired, MouseLeft, DragLeft, DragGone, Resumes, FocusAts, Entering
<1>6. UNCHANGED <<status, viewFocused, targets, habit>>
  BY <1>5 DEF SetFocusLeft, SetFocusEntered, SetFocusIsBack, ViewFocusedIn, KeyDropsFocus
<1>7. ASSUME stack' = s, Alive(focused'), has' = (IF viewFocused THEN {focused'} \ {None} ELSE {})
      PROVE  FocusInv'
  <2>1. Lively'
    BY <1>6, <1>7, StaysLively
  <2> QED BY <1>6, <1>7, <2>1 DEF FocusInv, AtRest, Told
<1>8. CASE SetFocusLeft
  <2>1. f.at = "SetFocus.out" /\ Leaving(f)
    BY <1>1, <1>2, <1>8 DEF SetFocusLeft, Resumes, Answered
  <2>2. CASE ret
    <3>1. stack' = s /\ focused' = focused /\ has' = {o} \ {None}
      BY <1>2, <1>3, <1>8, <2>1, <2>2 DEF SetFocusLeft, Leaving
    <3> QED BY <1>3, <1>4, <1>7, <2>1, <3>1 DEF Leaving
  <2>3. CASE ~ret
    <3>1. PICK d \in Holdable : d = focused
      OBVIOUS
    <3>2. Enter(e, d, s)
      BY <1>2, <1>3, <1>8, <2>3, <3>1 DEF SetFocusLeft
    <3>3. has = {} /\ (Firm(habit) => e = None \/ ReallyEnabled(e))
      BY <1>3, <2>1 DEF Leaving
    <3> QED BY <1>4, <1>6, <3>1, <3>2, <3>3, EnterTells
  <2> QED BY <2>2, <2>3
<1>9. CASE SetFocusEntered \/ SetFocusIsBack \/ ViewFocusedIn
  <2>1. f.at \in Entering
    BY <1>2, <1>9 DEF SetFocusEntered, SetFocusIsBack, ViewFocusedIn, Resumes, Entering
  <2>2. /\ viewFocused /\ has = (IF ret THEN {} ELSE {focused} \ {None})
        /\ Firm(habit) => ~ret
    BY <1>1, <2>1 DEF Answered
  <2>3. CASE SetFocusEntered /\ ret
    <3>1. BackTo(e, s) /\ Lasting(habit) /\ has = {}
      BY <1>2, <1>3, <2>2, <2>3 DEF SetFocusEntered, Lively, Polite
    <3> QED BY <1>4, <1>6, <2>2, <3>1, BackToTells
  <2>4. CASE ~(SetFocusEntered /\ ret)
    <3>1. stack' = s /\ has' = has /\ focused' = IF ret THEN None ELSE focused
      BY <1>2, <1>9, <2>4 DEF SetFocusEntered, SetFocusIsBack, ViewFocusedIn, Return, told
    <3> QED BY <1>4, <1>7, <2>2, <3>1
  <2> QED BY <2>3, <2>4
<1>10. CASE KeyDropsFocus
  <2>1. f.at = "Key.out" /\ stack' = s /\ has' = has /\ focused' = None
    BY <1>2, <1>10 DEF KeyDropsFocus, Resumes, Return, told
  <2>2. has = {}
    BY <1>1, <2>1 DEF Answered
  <2> QED BY <1>4, <1>7, <2>1, <2>2
<1> QED BY <1>5, <1>8, <1>9, <1>10

-----------------------------------------------------------------------------
(* RemoveElement takes the element out of every frame. *)
Less(x, f) == [f EXCEPT !.e = Without(x, @), !.old = Without(x, @)]
Lost(x, s) == [i \in 1 .. Len(s) |-> Less(x, s[i])]

LEMMA LessIn ==
  ASSUME NEW x \in Elements, NEW f \in Frame
  PROVE  /\ Less(x, f) \in Frame
         /\ Less(x, f).at = f.at /\ Less(x, f).ev = f.ev /\ Less(x, f).src = f.src
         /\ Less(x, f).e = Without(x, f.e) /\ Less(x, f).old = Without(x, f.old)
<1>1. Without(x, f.e) \in Holdable /\ Without(x, f.old) \in Holdable
  BY DEF Frame, Without, Holdable
<1> QED BY <1>1 DEF Less, Frame

LEMMA LostFree ==
  ASSUME NEW x \in Elements, NEW s \in Seq(FreeFrame)
  PROVE  Lost(x, s) \in Seq(FreeFrame)
<1>1. PICK n \in Nat : n = Len(s)
  OBVIOUS
<1>2. \A S : \A q \in Seq(S) : \A k \in 1 .. Len(q) : q[k] \in S
  OBVIOUS
<1>3. ASSUME NEW i \in 1 .. n PROVE Less(x, s[i]) \in FreeFrame
  <2>1. PICK f \in FreeFrame : f = s[i]
    BY <1>1, <1>2
  <2>2. Less(x, f) \in Frame /\ Less(x, f).at = f.at /\ Less(x, f).ev = f.ev
    BY LessIn DEF FreeFrame
  <2> QED BY <2>1, <2>2 DEF FreeFrame
<1>4. Lost(x, s) \in [1 .. n -> FreeFrame]
  BY <1>1, <1>3 DEF Lost
<1> QED BY <1>4

LEMMA LostPushed ==
  ASSUME NEW x \in Elements, NEW s \in Seq(Frame), NEW f \in Frame
  PROVE  Lost(x, s) \in Seq(Frame) /\ Lost(x, Append(s, f)) = Append(Lost(x, s), Less(x, f))
<1>1. PICK n \in Nat : n = Len(s)
  OBVIOUS
<1>2. PICK t \in Seq(Frame) : t = Append(s, f)
  BY Pushed
<1>3. /\ Len(t) = n + 1 /\ t[n + 1] = f
      /\ \A i \in 1 .. n : t[i] = s[i]
  BY <1>1, <1>2, Pushed
<1>4. \A S : \A q \in Seq(S) : \A k \in 1 .. Len(q) : q[k] \in S
  OBVIOUS
<1>5. ASSUME NEW q \in Seq(Frame)
      PROVE  /\ Lost(x, q) \in Seq(Frame) /\ Len(Lost(x, q)) = Len(q)
             /\ \A i \in 1 .. Len(q) : Lost(x, q)[i] = Less(x, q[i])
  <2>1. PICK m \in Nat : m = Len(q)
    OBVIOUS
  <2>2. \A i \in 1 .. m : Less(x, q[i]) \in Frame
    BY <1>4, <2>1, LessIn
  <2>3. Lost(x, q) \in [1 .. m -> Frame] /\ \A i \in 1 .. m : Lost(x, q)[i] = Less(x, q[i])
    BY <2>1, <2>2 DEF Lost
  <2> QED BY <2>1, <2>3
<1>6. PICK u \in Seq(Frame) : u = Lost(x, s)
  BY <1>5
<1>7. PICK g \in Frame : g = Less(x, f)
  BY LessIn
<1>8. PICK v \in Seq(Frame) : v = Lost(x, t)
  BY <1>5
<1>9. Len(u) = n /\ \A i \in 1 .. n : u[i] = Less(x, s[i])
  BY <1>1, <1>5, <1>6
<1>10. Len(v) = n + 1 /\ \A i \in 1 .. n + 1 : v[i] = Less(x, t[i])
  BY <1>3, <1>5, <1>8
<1>11. PICK w \in Seq(Frame) : w = Append(u, g)
  BY Pushed
<1>12. Len(w) = n + 1 /\ w[n + 1] = g /\ \A i \in 1 .. n : w[i] = u[i]
  BY <1>9, <1>11, Pushed
<1>13. \A i \in 1 .. n + 1 : i \in 1 .. n \/ i = n + 1
  OBVIOUS
<1>14. \A i \in 1 .. n + 1 : v[i] = w[i]
  BY <1>3, <1>7, <1>9, <1>10, <1>12, <1>13
<1>15. v = w
  BY <1>10, <1>12, <1>14, SeqEqual
<1> QED BY <1>2, <1>6, <1>7, <1>8, <1>11, <1>15

(* What is on top of the stack while the focus is told. *)
LEMMA TellingTops ==
  ASSUME NEW s \in Seq(FreeFrame), NEW f \in Frame, NEW h \in Frame,
         stack = Append(Append(s, f), h)
  PROVE  Depth > 0 /\ Top = h /\ Below = Append(s, f)
<1>1. Append(s, f) \in Seq(Frame)
  BY FreeFrames, Pushed
<1>2. PICK t \in Seq(Frame) : t = Append(s, f)
  BY <1>1
<1> QED BY <1>2, TopOfPushed

LEMMA FocusHandlerRuns ==
  ASSUME Lively, ViewParts \/ HandlerTold
  PROVE  Depth > 0 /\ Top \in Frame /\ Top.at = "handler" /\ Top.ev \in FocusEvs
<1>1. CASE ViewParts
  <2>1. PICK s \in Seq(FreeFrame), h \in Frame :
          stack = Append(s, h) /\ h.at = "handler" /\ h.ev = "focusout"
    BY <1>1 DEF ViewParts
  <2>2. Depth > 0 /\ Top = h
    BY <2>1, FreeFrames, TopOfPushed
  <2> QED BY <2>1, <2>2 DEF FocusEvs
<1>2. CASE HandlerTold
  <2>1. PICK s \in Seq(FreeFrame), f \in Frame, h \in Frame :
          stack = Append(Append(s, f), h) /\ f.at \in FocusAts /\ Telling(f, h)
    BY <1>2 DEF HandlerTold
  <2>2. Depth > 0 /\ Top = h
    BY <2>1, TellingTops
  <2>3. h.at = "handler" /\ h.ev \in FocusEvs
    BY <2>1 DEF Telling, FocusAts, FocusEvs
  <2> QED BY <2>2, <2>3
<1> QED BY <1>1, <1>2

(* A handler changes the status of an element, ... *)
LEMMA SetStatusLively ==
  ASSUME Lively, NEW x \in Elements, NEW to \in {"on", "off", "hidden"}, SetStatus(x, to)
  PROVE  Lively' /\ \A e : Alive(e) => Alive(e)'
<1>1. /\ status' = [status EXCEPT ![x] = to] /\ UNCHANGED <<focused, targets, habit>>
      /\ \/ <<Top.ev, "hide">> \in habit /\ {to, status[x]} = {"on", "hidden"}
         \/ <<Top.ev, "disable">> \in habit
  BY DEF SetStatus, May, held
<1>2. status' \in [Elements -> {"on", "off", "hidden", "gone"}]
  BY <1>1 DEF Lively
<1>3. \A e : Alive(e) => Alive(e)'
  <2> SUFFICES ASSUME NEW e, Alive(e) PROVE Alive(e)'
    OBVIOUS
  <2>1. CASE e = x
    BY <1>1, <2>1 DEF Lively, Alive
  <2>2. CASE e # x
    BY <1>1, <2>2 DEF Lively, Alive
  <2> QED BY <2>1, <2>2
<1>4. ASSUME Lasting(habit) PROVE \A e \in Elements : status'[e] # "off"
  <2>1. <<Top.ev, "disable">> \notin habit
    BY <1>4 DEF Lasting
  <2>2. to # "off"
    BY <1>1, <2>1
  <2> QED BY <1>1, <1>4, <2>2 DEF Lively
<1> QED BY <1>1, <1>2, <1>3, <1>4 DEF Lively, Alive

LEMMA SetStatusTells ==
  ASSUME FocusInv, NEW x \in Elements, NEW to \in {"on", "off", "hidden"}, SetStatus(x, to)
  PROVE  FocusInv'
<1>1. /\ Lively' /\ \A e : Alive(e) => Alive(e)'
      /\ UNCHANGED <<focused, viewFocused, has, stack, ret, targets, habit>>
      /\ Depth > 0 /\ Top.at = "handler"
      /\ <<Top.ev, "hide">> \in habit \/ <<Top.ev, "disable">> \in habit
  BY SetStatusLively DEF FocusInv, SetStatus, held, told, InHandler, Resumes, May
<1>2. CASE AtRest \/ ViewParts
  BY <1>1, <1>2 DEF FocusInv, AtRest, Told, ViewParts
<1>3. CASE HandlerTold
  <2>1. PICK s \in Seq(FreeFrame), f \in Frame, h \in Frame :
          stack = Append(Append(s, f), h) /\ f.at \in FocusAts /\ Telling(f, h)
    BY <1>3 DEF HandlerTold
  <2>2. Top = h
    BY <2>1, TellingTops
  <2>3. h.ev = "focusout" => ~Firm(habit)
    BY <1>1, <2>2 DEF Firm
  <2>4. Telling(f, h)'
    BY <1>1, <2>1, <2>3 DEF Telling, Leaving
  <2>5. HandlerTold'
    BY <1>1, <2>1, <2>4 DEF HandlerTold
  <2> QED BY <1>1, <2>5 DEF FocusInv
<1>4. CASE MethodTold
  <2>1. PICK s \in Seq(FreeFrame), f \in Frame : stack = Append(s, f) /\ f.at \in FocusAts
    BY <1>4 DEF MethodTold
  <2>2. Top = f
    BY <2>1, FreeFrames, TopOfPushed
  <2> QED BY <1>1, <2>1, <2>2 DEF FocusAts, Entering
<1> QED BY <1>2, <1>3, <1>4 DEF FocusInv

(* ... removes one, ... *)
LEMMA RemoveElementTells ==
  ASSUME FocusInv, Typed, NEW x \in Elements, RemoveElement(x)
  PROVE  FocusInv'
<1>1. /\ status' = [status EXCEPT ![x] = "gone"]
      /\ focused' = Without(x, focused) /\ has' = has \ {x} /\ stack' = Lost(x, stack)
      /\ UNCHANGED <<viewFocused, ret, targets, habit>> /\ Top.at = "handler"
  BY DEF RemoveElement, Lost, Less, Depth, InHandler, Resumes
<1>2. Lively
  BY DEF FocusInv
<1>3. \A e \in Elements : status'[e] = IF e = x THEN "gone" ELSE status[e]
  BY <1>1, <1>2 DEF Lively
<1>4. \A e \in Holdable : Alive(e) => Alive(Without(x, e))'
  BY <1>3 DEF Alive, Without, Holdable
<1>5. Lively'
  <2>1. Alive(focused)'
    BY <1>1, <1>2, <1>4 DEF Typed, Lively
  <2> QED BY <1>1, <1>2, <1>3, <2>1 DEF Lively
<1>6. CASE AtRest
  <2>1. stack' \in Seq(FreeFrame)
    BY <1>1, <1>6, LostFree DEF AtRest
  <2>2. has' = Told'
    BY <1>1, <1>6 DEF AtRest, Told, Without
  <2> QED BY <1>5, <2>1, <2>2 DEF FocusInv, AtRest
<1>7. CASE ViewParts
  <2>1. PICK s \in Seq(FreeFrame), h \in Frame :
          stack = Append(s, h) /\ h.at = "handler" /\ h.ev = "focusout"
    BY <1>7 DEF ViewParts
  <2>2. PICK g \in Frame : g = Less(x, h) /\ g.at = "handler" /\ g.ev = "focusout"
    BY <2>1, LessIn
  <2>3. stack' = Append(Lost(x, s), g) /\ Lost(x, s) \in Seq(FreeFrame)
    BY <1>1, <2>1, <2>2, FreeFrames, LostPushed, LostFree
  <2>4. ViewParts'
    BY <1>1, <1>7, <2>2, <2>3 DEF ViewParts
  <2> QED BY <1>5, <2>4 DEF FocusInv
<1>8. CASE HandlerTold
  <2>1. PICK s \in Seq(FreeFrame), f \in Frame, h \in Frame :
          stack = Append(Append(s, f), h) /\ f.at \in FocusAts /\ Telling(f, h)
    BY <1>8 DEF HandlerTold
  <2>2. PICK g \in Frame : /\ g = Less(x, h) /\ g.at = h.at /\ g.ev = h.ev /\ g.src = h.src
    BY LessIn
  <2>3. PICK k \in Frame : /\ k = Less(x, f) /\ k.at = f.at
                           /\ k.e = Without(x, f.e) /\ k.old = Without(x, f.old)
    BY LessIn
  <2>4. PICK t \in Seq(Frame) : t = Append(s, f)
    BY FreeFrames, Pushed
  <2>5. PICK r \in Seq(FreeFrame) : r = Lost(x, s)
    BY LostFree
  <2>6. Lost(x, t) = Append(r, k)
    BY <2>3, <2>4, <2>5, FreeFrames, LostPushed
  <2>7. stack' = Append(Append(r, k), g)
    BY <1>1, <2>1, <2>2, <2>4, <2>6, LostPushed
  <2>8. f.e \in Holdable /\ f.old \in Holdable
    BY DEF Frame
  <2>9. Alive(k.e)' /\ Alive(k.old)'
    BY <1>4, <2>1, <2>3, <2>8 DEF Telling
  <2>10. Leaving(f) => Leaving(k)'
    <3>1. f.e = None \/ ReallyEnabled(f.e) => k.e = None \/ ReallyEnabled(k.e)'
      BY <1>3, <2>3, <2>8 DEF Without, ReallyEnabled, Holdable
    <3> QED BY <1>1, <2>3, <3>1 DEF Leaving, Without
  <2>11. /\ has = {} => has' = {}
         /\ has = {focused} \ {None} => has' = {focused'} \ {None}
         /\ focused \in {None, h.src} => focused' \in {None, h.src}
    BY <1>1 DEF Without
  <2>12. Telling(k, g)'
    BY <1>1, <2>1, <2>2, <2>3, <2>9, <2>10, <2>11 DEF Telling
  <2>13. HandlerTold'
    BY <2>1, <2>3, <2>7, <2>12 DEF HandlerTold
  <2> QED BY <1>5, <2>13 DEF FocusInv
<1>9. CASE MethodTold
  <2>1. PICK s \in Seq(FreeFrame), f \in Frame : stack = Append(s, f) /\ f.at \in FocusAts
    BY <1>9 DEF MethodTold
  <2>2. Top = f
    BY <2>1, FreeFrames, TopOfPushed
  <2> QED BY <1>1, <2>1, <2>2 DEF FocusAts, Entering
<1> QED BY <1>6, <1>7, <1>8, <1>9 DEF FocusInv

(* ... or returns. *)
LEMMA HandlerReturnsTells ==
  ASSUME FocusInv, NEW c \in BOOLEAN, HandlerReturns(c)
  PROVE  FocusInv'
<1>1. /\ Depth > 0 /\ Top.at = "handler" /\ (c => <<Top.ev, "cancel">> \in habit)
      /\ stack' = Below /\ ret' = c
      /\ has' = (IF Top.ev = "focusin" /\ c THEN has \ {Top.src} ELSE has)
      /\ UNCHANGED <<status, viewFocused, focused, targets, habit>>
  BY DEF HandlerReturns, InHandler, Resumes, May, held
<1>2. Lively' /\ Told' = Told /\ \A e : Alive(e)' <=> Alive(e)
  BY <1>1, StaysLively DEF FocusInv, Lively, Told, Alive
<1>3. CASE AtRest
  <2>1. Below \in Seq(FreeFrame) /\ Top \in FreeFrame
    BY <1>1, <1>3, FreePopped DEF AtRest
  <2>2. Top.ev # "focusin"
    BY <1>1, <2>1 DEF FreeFrame, FocusEvs
  <2> QED BY <1>1, <1>2, <1>3, <2>1, <2>2 DEF FocusInv, AtRest
<1>4. CASE ViewParts
  <2>1. PICK s \in Seq(FreeFrame), h \in Frame :
          stack = Append(s, h) /\ h.at = "handler" /\ h.ev = "focusout"
    BY <1>4 DEF ViewParts
  <2>2. Top = h /\ Below = s
    BY <2>1, FreeFrames, TopOfPushed
  <2>3. stack' = s /\ has' = {} /\ Told' = {}
    BY <1>1, <1>4, <2>1, <2>2 DEF ViewParts, Told
  <2> QED BY <1>2, <2>3 DEF FocusInv, AtRest
<1>5. CASE HandlerTold
  <2>1. PICK s \in Seq(FreeFrame), f \in Frame, h \in Frame :
          stack = Append(Append(s, f), h) /\ f.at \in FocusAts /\ Telling(f, h)
    BY <1>5 DEF HandlerTold
  <2>2. Top = h /\ Below = Append(s, f)
    BY <2>1, TellingTops
  <2>3. ReallyEnabled(f.e)' <=> ReallyEnabled(f.e)
    BY <1>1 DEF ReallyEnabled
  <2>4. CASE f.at \notin Entering
    <3>1. f.at \in {"SetFocus.out", "Key.out"} /\ h.ev = "focusout"
      BY <2>1, <2>4 DEF FocusAts, Telling
    <3>2. has' = has
      BY <1>1, <2>2, <3>1
    <3>3. Answered(f)'
      BY <1>1, <1>2, <2>1, <2>3, <2>4, <3>2 DEF Telling, Answered, Leaving
    <3> QED BY <1>1, <1>2, <2>1, <2>2, <3>3 DEF FocusInv, MethodTold
  <2>5. CASE f.at \in Entering
    <3>1. /\ h.ev = "focusin" /\ viewFocused
          /\ has = {focused} \ {None} /\ focused \in {None, h.src}
      BY <2>1, <2>5 DEF Telling
    <3>2. has' = IF c THEN {} ELSE {focused} \ {None}
      BY <1>1, <2>2, <3>1
    <3>3. Firm(habit) => ~c
      BY <1>1, <2>2, <3>1 DEF Firm
    <3>4. f.at # "SetFocus.out" /\ f.at # "Key.out"
      BY <2>5 DEF Entering
    <3>5. Answered(f)'
      BY <1>1, <1>2, <2>1, <3>1, <3>2, <3>3, <3>4 DEF Telling, Answered
    <3> QED BY <1>1, <1>2, <2>1, <2>2, <3>5 DEF FocusInv, MethodTold
  <2> QED BY <2>4, <2>5
<1>6. CASE MethodTold
  <2>1. PICK s \in Seq(FreeFrame), f \in Frame : stack = Append(s, f) /\ f.at \in FocusAts
    BY <1>6 DEF MethodTold
  <2>2. Top = f
    BY <2>1, FreeFrames, TopOfPushed
  <2> QED BY <1>1, <2>1, <2>2 DEF FocusAts, Entering
<1> QED BY <1>3, <1>4, <1>5, <1>6 DEF FocusInv

(* What the focus is told does not depend on anything else. *)
LEMMA SameFocus ==
  ASSUME FocusInv, UNCHANGED <<status, viewFocused, focused, has, stack, ret, habit>>
  PROVE  FocusInv'
BY DEF FocusInv, Lively, Alive, AtRest, Told, ViewParts, HandlerTold, MethodTold, Telling,
   Answered, Leaving, ReallyEnabled

LEMMA ScriptTells ==
  ASSUME FocusInv, Typed, Script
  PROVE  FocusInv'
<1>1. ASSUME NEW e \in Holdable, ScriptSetsFocus(e) PROVE FocusInv'
  <2>1. /\ Depth > 0 /\ Top.at = "handler" /\ <<Top.ev, "focus">> \in habit
        /\ SetFocus(e, stack) /\ UNCHANGED <<status, viewFocused, targets, habit>>
    BY <1>1 DEF ScriptSetsFocus, InHandler, Resumes, May
  <2>2. Lively
    BY DEF FocusInv
  <2>3. Top.ev \notin FocusEvs
    <3>1. <<Top.ev, "focus">>[1] = Top.ev /\ <<Top.ev, "focus">>[2] = "focus"
      OBVIOUS
    <3> QED BY <2>1, <2>2, <3>1 DEF Lively, Polite
  <2>4. ~ViewParts /\ ~HandlerTold
    BY <2>2, <2>3, FocusHandlerRuns
  <2>5. ~MethodTold
    <3> SUFFICES ASSUME NEW s \in Seq(FreeFrame), NEW f \in Frame,
                        stack = Append(s, f), f.at \in FocusAts
                 PROVE  FALSE
      BY DEF MethodTold
    <3>1. Top = f
      BY FreeFrames, TopOfPushed
    <3> QED BY <2>1, <3>1 DEF FocusAts, Entering
  <2>6. AtRest
    BY <2>4, <2>5 DEF FocusInv
  <2> QED BY <2>1, <2>2, <2>6, SetFocusTells DEF AtRest, Typed
<1>2. ASSUME NEW e \in Elements, SetDropTarget(e) PROVE FocusInv'
  BY <1>2, SameFocus DEF SetDropTarget, held
<1> QED BY <1>1, <1>2, SetStatusTells, RemoveElementTells, HandlerReturnsTells DEF Script

-----------------------------------------------------------------------------
(* At rest. *)
LEMMA RestingMove ==
  ASSUME Lively, AtRest, stack' \in Seq(FreeFrame),
         UNCHANGED <<status, viewFocused, focused, has, targets, habit>>
  PROVE  FocusInv'
<1>1. Lively' /\ Told' = Told
  BY StaysLively DEF Lively, Told
<1> QED BY <1>1 DEF FocusInv, AtRest

LEMMA FreeHandler ==
  ASSUME NEW s \in Seq(FreeFrame), NEW ev \in Evs, ev \notin FocusEvs, NEW e \in Holdable,
         Fire(ev, e, s)
  PROVE  stack' \in Seq(FreeFrame) /\ has' = has
<1>1. PICK h \in Frame : stack' = Append(s, h) /\ h.at = "handler" /\ h.ev = ev
  BY Fired
<1>2. h \in FreeFrame
  BY <1>1 DEF FreeFrame, FocusAts, Entering
<1>3. has' = has
  BY Fired
<1> QED BY <1>1, <1>2, <1>3, FreeFrames

LEMMA FreeCall ==
  ASSUME NEW s \in Seq(FreeFrame), NEW f \in FreeFrame,
         NEW ev \in Evs, ev \notin FocusEvs, NEW e \in Holdable, Fire(ev, e, Append(s, f))
  PROVE  stack' \in Seq(FreeFrame) /\ has' = has
<1>1. PICK t \in Seq(FreeFrame) : t = Append(s, f)
  BY FreeFrames
<1>2. Fire(ev, e, t)
  BY <1>1
<1> QED BY <1>2, FreeHandler

(* Frames of the methods that do not change the focus. *)
FreeAts == Ats \ (FocusAts \cup {"handler"})
LEMMA FreeIn ==
  ASSUME NEW at \in FreeAts
  PROVE  /\ \A ev \in Evs : At(at, ev) \in FreeFrame
         /\ \A ev \in Evs, e \in Holdable : Holding(at, ev, e) \in FreeFrame
         /\ \A f \in Frame : [f EXCEPT !.at = at] \in FreeFrame
         /\ \A ev \in Evs, e \in Holdable : [At(at, ev) EXCEPT !.src = e] \in FreeFrame
<1>1. at \in Ats /\ at \notin FocusAts /\ at # "handler"
  BY DEF FreeAts
<1>2. \A f \in Frame : f.at = at => f \in FreeFrame
  BY <1>1 DEF FreeFrame
<1>3. \A ev \in Evs : At(at, ev) \in FreeFrame
  BY <1>1, <1>2, AtIn
<1>4. \A ev \in Evs, e \in Holdable : Holding(at, ev, e) \in FreeFrame
  BY <1>1, <1>2, HoldingIn
<1>5. \A f \in Frame : [f EXCEPT !.at = at] \in FreeFrame
  BY <1>1, <1>2, Renamed
<1>6. ASSUME NEW ev \in Evs, NEW e \in Holdable PROVE [At(at, ev) EXCEPT !.src = e] \in FreeFrame
  <2>1. PICK k \in Frame : k = At(at, ev) /\ k.at = at
    BY <1>1, AtIn
  <2>2. [k EXCEPT !.src = e] \in Frame /\ [k EXCEPT !.src = e].at = at
    BY <2>1, Resourced
  <2> QED BY <1>2, <2>1, <2>2
<1> QED BY <1>3, <1>4, <1>5, <1>6

LEMMA RestingMethod ==
  ASSUME FocusInv, Depth > 0, Top.at \in FreeAts
  PROVE  Lively /\ AtRest /\ Below \in Seq(FreeFrame) /\ Top \in Frame
<1>1. Lively /\ Top.at # "handler" /\ Top.at \notin FocusAts
  BY DEF FocusInv, FreeAts
<1>2. ~ViewParts /\ ~HandlerTold
  BY <1>1, FocusHandlerRuns
<1>3. ~MethodTold
  <2> SUFFICES ASSUME NEW s \in Seq(FreeFrame), NEW f \in Frame,
                      stack = Append(s, f), f.at \in FocusAts
               PROVE  FALSE
    BY DEF MethodTold
  <2>1. Top = f
    BY FreeFrames, TopOfPushed
  <2> QED BY <1>1, <2>1
<1>4. AtRest
  BY <1>2, <1>3 DEF FocusInv
<1> QED BY <1>1, <1>4, FreePopped DEF AtRest, FreeFrame

LEMMA RestingLoop ==
  ASSUME FocusInv, Typed, MainLoopRuns
  PROVE  Lively /\ AtRest
<1>1. ~(Depth > 0) \/ (Top.at = "handler" /\ Top.ev \in {"mouse", "key"})
  <2>1. CASE Depth = 0
    BY <2>1
  <2>2. CASE Depth # 0
    <3>1. Top.at = "handler" /\ <<Top.ev, "dialog">> \in habit
      BY <2>2 DEF MainLoopRuns, InHandler, Resumes, May
    <3>2. \A d \in habit : d[2] = "dialog" => d[1] \in {"mouse", "key"}
      BY HabitAssumption DEF Typed
    <3>3. <<Top.ev, "dialog">>[2] = "dialog" /\ <<Top.ev, "dialog">>[1] = Top.ev
      OBVIOUS
    <3> QED BY <3>1, <3>2, <3>3
  <2> QED BY <2>1, <2>2
<1>2. ~ViewParts /\ ~HandlerTold
  <2>1. Lively
    BY DEF FocusInv
  <2> QED BY <1>1, <2>1, FocusHandlerRuns DEF FocusEvs
<1>3. ~MethodTold
  <2> SUFFICES ASSUME NEW s \in Seq(FreeFrame), NEW f \in Frame,
                      stack = Append(s, f), f.at \in FocusAts
               PROVE  FALSE
    BY DEF MethodTold
  <2>1. Depth > 0 /\ Top = f
    BY FreeFrames, TopOfPushed
  <2> QED BY <1>1, <2>1 DEF FocusAts, Entering
<1> QED BY <1>2, <1>3 DEF FocusInv

(* FOCUS_IN and FOCUS_OUT of the view. *)
LEMMA ViewFocusInTells ==
  ASSUME FocusInv, Typed, ViewFocusIn
  PROVE  FocusInv'
<1>1. /\ Lively /\ stack \in Seq(FreeFrame) /\ has = {}
      /\ viewFocused' /\ UNCHANGED <<status, targets, habit>>
  BY RestingLoop DEF ViewFocusIn, AtRest, Told
<1>2. CASE focused # None /\ ReallyEnabled(focused)
  <2>1. PICK e \in Elements : e = focused
    BY <1>2 DEF Typed, Holdable
  <2>2. "View.focusin" \in Ats /\ "focus" \in Evs /\ None \in Holdable
    BY DEF Ats, Evs, Holdable
  <2>3. PICK f \in Frame : /\ f = At("View.focusin", "focus") /\ f.at = "View.focusin"
                           /\ f.e = None /\ f.old = None
    BY <2>2, AtIn, Fields
  <2>4. Fire("focusin", e, Append(stack, f)) /\ focused' = e
    BY <1>2, <2>1, <2>3 DEF ViewFocusIn
  <2>5. Lively'
    BY <1>1, <2>1, <2>4, StaysLively DEF Lively
  <2>6. f.at \in Entering /\ Alive(f.e)' /\ Alive(f.old)'
    BY <2>3 DEF Entering, Alive
  <2> QED BY <1>1, <2>4, <2>5, <2>6, TellingIn
<1>3. CASE ~(focused # None /\ ReallyEnabled(focused))
  <2>1. focused' = None /\ stack' = stack /\ has' = {}
    BY <1>1, <1>3 DEF ViewFocusIn, Return, told
  <2>2. Lively' /\ Told' = {}
    BY <1>1, <2>1, StaysLively DEF Alive, Told
  <2> QED BY <1>1, <2>1, <2>2 DEF FocusInv, AtRest
<1> QED BY <1>2, <1>3

LEMMA ViewFocusOutTells ==
  ASSUME FocusInv, Typed, ViewFocusOut
  PROVE  FocusInv'
<1>1. /\ Lively /\ stack \in Seq(FreeFrame) /\ has = {focused} \ {None}
      /\ ~viewFocused' /\ UNCHANGED <<status, focused, targets, habit>>
  BY RestingLoop DEF ViewFocusOut, AtRest, Told, held
<1>2. Lively'
  BY <1>1, StaysLively DEF Lively
<1>3. CASE focused # None
  <2>1. PICK e \in Holdable : e = focused
    BY DEF Typed
  <2>2. Fire("focusout", e, stack) /\ "focusout" \in Evs
    BY <1>3, <2>1 DEF ViewFocusOut, Evs
  <2>3. has' = {}
    BY <1>1, <2>1, <2>2, Fired
  <2>4. \E h \in Frame : stack' = Append(stack, h) /\ h.at = "handler" /\ h.ev = "focusout"
    BY <2>2, Fired
  <2>5. ViewParts'
    BY <1>1, <2>3, <2>4 DEF ViewParts
  <2> QED BY <1>2, <2>5 DEF FocusInv
<1>4. CASE focused = None
  <2>1. stack' = stack /\ has' = {} /\ Told' = {}
    BY <1>1, <1>4 DEF ViewFocusOut, Return, told, Told
  <2> QED BY <1>1, <1>2, <2>1 DEF FocusInv, AtRest
<1> QED BY <1>3, <1>4

(* EVENT_OPEN. *)
LEMMA ViewOpenTells ==
  ASSUME FocusInv, Typed, ViewOpen \/ ViewOpened
  PROVE  FocusInv'
<1>1. /\ "View.opened" \in FreeAts /\ {"open", "viewopen"} \subseteq Evs
      /\ "viewopen" \notin FocusEvs /\ None \in Holdable /\ Elements \subseteq Holdable
  BY DEF FreeAts, Ats, FocusAts, Entering, Evs, FocusEvs, Holdable
<1>2. UNCHANGED <<status, viewFocused, targets, habit>>
  BY DEF ViewOpen, ViewOpened
<1>3. CASE ViewOpen
  <2>1. Lively /\ AtRest
    BY <1>3, RestingLoop DEF ViewOpen
  <2>2. PICK f \in FreeFrame : f = At("View.opened", "open")
    BY <1>1, FreeIn
  <2>3. PICK t \in Seq(FreeFrame) : t = Append(stack, f)
    BY <2>1, FreeFrames DEF AtRest
  <2>4. PICK e \in Holdable : SetFocus(e, t)
    BY <1>1, <1>3, <2>2, <2>3 DEF ViewOpen
  <2> QED BY <1>2, <2>1, <2>4, SetFocusTells DEF AtRest, Typed
<1>4. CASE ViewOpened
  <2>1. Depth > 0 /\ Top.at \in FreeAts /\ UNCHANGED focused
    BY <1>1, <1>4 DEF ViewOpened, Resumes, held
  <2>2. Lively /\ AtRest /\ Below \in Seq(FreeFrame)
    BY <2>1, RestingMethod
  <2>3. PICK b \in Seq(FreeFrame) : b = Below
    BY <2>2
  <2>4. Fire("viewopen", None, b)
    BY <1>4, <2>3 DEF ViewOpened
  <2>5. stack' \in Seq(FreeFrame) /\ has' = has
    BY <1>1, <2>4, FreeHandler
  <2> QED BY <1>2, <2>1, <2>2, <2>5, RestingMove
<1> QED BY <1>3, <1>4

(* Keys. *)
LEMMA KeyTells ==
  ASSUME FocusInv, Typed, KeyEvent \/ KeyToElement \/ KeyTab
  PROVE  FocusInv'
<1>1. PICK o \in Holdable : o = focused
  BY DEF Typed
<1>2. {"Key.view", "Key.element"} \subseteq FreeAts /\ "Key.out" \in Ats
      /\ {"key", "viewkey", "focusout"} \subseteq Evs /\ None \in Holdable
      /\ "key" \notin FocusEvs /\ "viewkey" \notin FocusEvs /\ "focusout" \in FocusEvs
  BY DEF FreeAts, Ats, FocusAts, Entering, Evs, Mouse, Holdable, FocusEvs
<1>3. CASE KeyEvent
  <2>1. Lively /\ AtRest /\ UNCHANGED <<status, viewFocused, focused, targets, habit>>
    BY <1>3, RestingLoop DEF KeyEvent, held
  <2>2. PICK f \in FreeFrame : f = [At("Key.view", "key") EXCEPT !.src = o]
    BY <1>2, FreeIn
  <2>3. Fire("viewkey", None, Append(stack, f))
    BY <1>1, <1>3, <2>2 DEF KeyEvent
  <2>4. stack' \in Seq(FreeFrame) /\ has' = has
    BY <1>2, <2>1, <2>3, FreeCall DEF AtRest
  <2> QED BY <2>1, <2>4, RestingMove
<1>4. ASSUME KeyToElement \/ KeyTab
      PROVE  /\ Lively /\ AtRest /\ Below \in Seq(FreeFrame) /\ Top \in Frame
             /\ UNCHANGED <<status, viewFocused, targets, habit>>
  <2>1. Depth > 0 /\ Top.at \in FreeAts /\ UNCHANGED <<status, viewFocused, targets, habit>>
    BY <1>2, <1>4 DEF KeyToElement, KeyTab, Resumes
  <2> QED BY <2>1, RestingMethod
<1>5. CASE KeyToElement
  <2>1. PICK b \in Seq(FreeFrame), top \in Frame : b = Below /\ top = Top
    BY <1>4, <1>5
  <2>2. PICK f \in Frame : /\ f = At("Key.out", "key") /\ f.at = "Key.out"
                           /\ f.e = None /\ f.old = None
    BY <1>2, AtIn, Fields
  <2>3. PICK g \in FreeFrame : g = [top EXCEPT !.at = "Key.element"]
    BY <1>2, FreeIn
  <2>4. focused' = o
    BY <1>1, <1>5 DEF KeyToElement, held
  <2>5. \/ Return(b)
        \/ Fire("focusout", o, Append(b, f))
        \/ Fire("key", o, Append(b, g))
    BY <1>1, <1>5, <2>1, <2>2, <2>3 DEF KeyToElement
  <2>6. CASE Return(b)
    BY <1>1, <1>4, <1>5, <2>4, <2>6, RestingMove DEF Return, told
  <2>7. CASE Fire("focusout", o, Append(b, f))
    <3>1. has' = {}
      <4>1. has' = has \ {o}
        BY <1>2, <2>7, Fired
      <4> QED BY <1>1, <1>4, <1>5, <4>1 DEF AtRest, Told
    <3>2. Lively'
      BY <1>1, <1>4, <1>5, <2>4, StaysLively DEF Lively
    <3>3. f.at \in FocusAts /\ f.at \notin Entering /\ f.at # "SetFocus.out"
      BY <2>2 DEF FocusAts, Entering
    <3>4. ASSUME NEW h \in Frame, h.at = "handler", h.ev = "focusout", h.src = o
          PROVE  Telling(f, h)'
      BY <2>2, <3>1, <3>3, <3>4 DEF Telling, Alive
    <3> QED BY <1>2, <2>7, <3>2, <3>3, <3>4, TellingStarts
  <2>8. CASE Fire("key", o, Append(b, g))
    <3>1. stack' \in Seq(FreeFrame) /\ has' = has
      BY <1>2, <2>8, FreeCall
    <3> QED BY <1>1, <1>4, <1>5, <2>4, <3>1, RestingMove
  <2> QED BY <2>5, <2>6, <2>7, <2>8
<1>6. CASE KeyTab
  <2>1. PICK b \in Seq(FreeFrame) : b = Below
    BY <1>4, <1>6
  <2>2. CASE Return(b) /\ UNCHANGED focused
    BY <1>4, <1>6, <2>2, RestingMove DEF Return, told
  <2>3. CASE \E e \in Elements : SetFocus(e, b)
    BY <1>1, <1>4, <1>6, <2>3, SetFocusTells DEF AtRest, Holdable
  <2> QED BY <1>6, <2>1, <2>2, <2>3 DEF KeyTab
<1> QED BY <1>3, <1>5, <1>6

(* Mouse and drags: what they call changes no focus, but for a press. *)
FreeEvs == {"mouse", "viewmouse", "viewout", "over", "out", "dragover", "dragout", "dragdrop"}
LEMMA FreeEvents == FreeEvs \subseteq Evs /\ \A ev \in FreeEvs : ev \notin FocusEvs
BY DEF FreeEvs, Evs, Mouse, FocusEvs

LEMMA ViewCalled ==
  ASSUME NEW s \in Seq(FreeFrame), NEW ev \in Evs, ToView(ev, s)
  PROVE  stack' \in Seq(FreeFrame) /\ has' = has
<1>1. "Mouse.view" \in FreeAts /\ None \in Holdable
      /\ {"viewmouse", "viewout"} \subseteq FreeEvs
  BY DEF FreeAts, Ats, FocusAts, Entering, FreeEvs, Holdable
<1>2. PICK f \in FreeFrame : f = At("Mouse.view", ev)
  BY <1>1, FreeIn
<1>3. PICK to \in FreeEvs : Fire(to, None, Append(s, f))
  BY <1>1, <1>2 DEF ToView
<1>4. to \in Evs /\ to \notin FocusEvs
  BY FreeEvents
<1> QED BY <1>1, <1>3, <1>4, FreeCall

LEMMA MouseEventTells ==
  ASSUME FocusInv, Typed, NEW ev \in Mouse, MouseEvent(ev)
  PROVE  FocusInv'
<1>1. Lively /\ AtRest /\ UNCHANGED <<status, viewFocused, focused, targets, habit>>
  BY RestingLoop DEF MouseEvent, held
<1>2. ev \in Evs /\ "move" \in Evs /\ "Mouse.first" \in FreeAts
  BY DEF Evs, Mouse, FreeAts, Ats, FocusAts, Entering
<1>3. PICK s \in Seq(FreeFrame) : s = Append(stack, At("Mouse.first", ev))
  BY <1>1, <1>2, FreeIn, FreeFrames DEF AtRest
<1>4. ToView(ev, stack) \/ ToView("move", stack) \/ ToView("move", s)
  BY <1>3 DEF MouseEvent
<1>5. stack' \in Seq(FreeFrame) /\ has' = has
  BY <1>1, <1>2, <1>4, ViewCalled DEF AtRest
<1> QED BY <1>1, <1>5, RestingMove

LEMMA DragEventTells ==
  ASSUME FocusInv, Typed, DragMotion \/ DragOutOrDrop
  PROVE  FocusInv'
<1>1. Lively /\ AtRest /\ UNCHANGED <<status, viewFocused, focused, targets, habit>>
  BY RestingLoop DEF DragMotion, DragOutOrDrop, held
<1>2. {"motion", "dragout", "dragdrop"} \subseteq Evs /\ {"Drag.left", "Drag.out"} \subseteq FreeAts
      /\ {"dragover", "dragout", "dragdrop"} \subseteq FreeEvs
  BY DEF Evs, FreeAts, Ats, FocusAts, Entering, FreeEvs
<1>3. PICK d \in Holdable : d = dragover
  BY DEF Typed
<1>4. \/ \E e \in Holdable : TellDrag("dragover", e, stack)
      \/ \E ev \in FreeEvs, f \in FreeFrame : TellDrag(ev, d, Append(stack, f))
  <2>1. CASE DragMotion
    <3>1. PICK f \in FreeFrame : f = At("Drag.left", "motion")
      BY <1>2, FreeIn
    <3>2. {None} \cup {g \in targets : Visible(g)} \subseteq Holdable
      BY DEF Typed, Holdable
    <3>3. \/ TellDrag("dragout", d, Append(stack, f))
          \/ \E e \in Holdable : TellDrag("dragover", e, stack)
      BY <1>3, <2>1, <3>1, <3>2 DEF DragMotion
    <3> QED BY <1>2, <3>3
  <2>2. CASE DragOutOrDrop
    <3>1. PICK ev \in {"dragout", "dragdrop"} :
            TellDrag(ev, dragover, Append(stack, At("Drag.out", ev)))
      BY <2>2 DEF DragOutOrDrop
    <3>2. PICK f \in FreeFrame : f = At("Drag.out", ev)
      BY <1>2, FreeIn
    <3> QED BY <1>2, <1>3, <3>1, <3>2
  <2> QED BY <2>1, <2>2
<1>5. stack' \in Seq(FreeFrame) /\ has' = has
  <2>1. ASSUME NEW e \in Holdable, TellDrag("dragover", e, stack)
        PROVE  stack' \in Seq(FreeFrame) /\ has' = has
    <3>1. CASE Fire("dragover", e, stack)
      BY <1>1, <1>2, <3>1, FreeEvents, FreeHandler DEF AtRest
    <3>2. CASE Return(stack)
      BY <1>1, <3>2 DEF AtRest, Return, told
    <3> QED BY <2>1, <3>1, <3>2 DEF TellDrag
  <2>2. ASSUME NEW ev \in FreeEvs, NEW f \in FreeFrame, TellDrag(ev, d, Append(stack, f))
        PROVE  stack' \in Seq(FreeFrame) /\ has' = has
    <3>1. ev \in Evs /\ ev \notin FocusEvs
      BY FreeEvents
    <3>2. CASE Fire(ev, d, Append(stack, f))
      BY <1>1, <3>1, <3>2, FreeCall DEF AtRest
    <3>3. CASE Return(Append(stack, f))
      BY <1>1, <3>3, FreeFrames DEF AtRest, Return, told
    <3> QED BY <2>2, <3>2, <3>3 DEF TellDrag
  <2> QED BY <1>4, <2>1, <2>2
<1> QED BY <1>1, <1>5, RestingMove

(* A method goes on from b, its frame gone, or kept under another name. *)
GoesOn(b, top) ==
  \/ Return(b)
  \/ \E ev \in FreeEvs, e \in Holdable : Fire(ev, e, b)
  \/ \E at \in FreeAts : LET f == [top EXCEPT !.at = at]
     IN Return(Append(b, f)) \/ \E ev \in FreeEvs, e \in Holdable : Fire(ev, e, Append(b, f))

LEMMA GoesOnFree ==
  ASSUME NEW b \in Seq(FreeFrame), NEW top \in Frame, GoesOn(b, top)
  PROVE  stack' \in Seq(FreeFrame) /\ has' = has
<1>1. CASE Return(b)
  BY <1>1 DEF Return, told
<1>2. ASSUME NEW ev \in FreeEvs, NEW e \in Holdable, Fire(ev, e, b)
      PROVE  stack' \in Seq(FreeFrame) /\ has' = has
  <2>1. ev \in Evs /\ ev \notin FocusEvs
    BY FreeEvents
  <2> QED BY <1>2, <2>1, FreeHandler
<1>3. ASSUME NEW at \in FreeAts,
             \/ Return(Append(b, [top EXCEPT !.at = at]))
             \/ \E ev \in FreeEvs, e \in Holdable : Fire(ev, e, Append(b, [top EXCEPT !.at = at]))
      PROVE  stack' \in Seq(FreeFrame) /\ has' = has
  <2>1. PICK f \in FreeFrame : f = [top EXCEPT !.at = at]
    BY FreeIn
  <2>2. CASE Return(Append(b, f))
    BY <2>2, FreeFrames DEF Return, told
  <2>3. ASSUME NEW ev \in FreeEvs, NEW e \in Holdable, Fire(ev, e, Append(b, f))
        PROVE  stack' \in Seq(FreeFrame) /\ has' = has
    <3>1. ev \in Evs /\ ev \notin FocusEvs
      BY FreeEvents
    <3> QED BY <2>3, <3>1, FreeCall
  <2> QED BY <1>3, <2>1, <2>2, <2>3
<1> QED BY <1>1, <1>2, <1>3 DEF GoesOn

LEMMA MouseMethodTells ==
  ASSUME FocusInv, Typed,
         \/ MouseToGrab \/ MouseGrabbed \/ MouseCanceled \/ MouseLeavesView \/ MouseLeftView
         \/ MousePressed \/ MouseFired \/ MouseLeft \/ DragLeft \/ DragGone
  PROVE  FocusInv'
<1>1. /\ Depth > 0 /\ UNCHANGED <<status, viewFocused, focused, targets, habit>>
      /\ Top.at \in {"Mouse.view", "Mouse.grabbed", "Mouse.out", "Mouse.pressed", "Mouse.fired",
                     "Mouse.left", "Drag.left", "Drag.out"}
  BY DEF MouseToGrab, MouseGrabbed, MouseCanceled, MouseLeavesView, MouseLeftView,
     MousePressed, MouseFired, MouseLeft, DragLeft, DragGone, Resumes, held
<1>2. Top.at \in FreeAts /\ {"Mouse.grabbed", "Mouse.out", "Mouse.fired", "Mouse.left"} \subseteq FreeAts
      /\ {"mouse", "over", "out", "dragover"} \subseteq FreeEvs
  BY <1>1 DEF FreeAts, Ats, FocusAts, Entering, FreeEvs
<1>3. Lively /\ AtRest /\ Below \in Seq(FreeFrame) /\ Top \in Frame
  BY <1>1, <1>2, RestingMethod
<1>4. PICK b \in Seq(FreeFrame), top \in Frame : b = Below /\ top = Top
  BY <1>3
<1>5. PICK e \in Holdable, m \in Holdable, g \in Holdable, d \in Holdable :
        e = top.e /\ m = mouseover /\ g = grab /\ d = dragover
  BY DEF Typed, Frame
<1>6. ASSUME NEW x \in Holdable, FireOver(x, b) PROVE GoesOn(b, top)
  BY <1>2, <1>6 DEF FireOver, GoesOn
<1>7. ASSUME MouseGrabbed \/ MouseCanceled \/ MouseLeftView \/ DragGone PROVE GoesOn(b, top)
  BY <1>4, <1>7 DEF MouseGrabbed, MouseCanceled, MouseLeftView, DragGone, GoesOn
<1>8. ASSUME MouseToGrab PROVE GoesOn(b, top)
  BY <1>2, <1>4, <1>5, <1>8 DEF MouseToGrab, GoesOn
<1>9. ASSUME MouseLeavesView PROVE GoesOn(b, top)
  BY <1>2, <1>4, <1>5, <1>9 DEF MouseLeavesView, GoesOn
<1>10. ASSUME MousePressed PROVE GoesOn(b, top)
  BY <1>2, <1>4, <1>5, <1>10 DEF MousePressed, GoesOn
<1>11. ASSUME MouseFired PROVE GoesOn(b, top)
  <2>1. Return(b) \/ FireOver(e, b) \/ Fire("out", m, Append(b, [top EXCEPT !.at = "Mouse.left"]))
    BY <1>4, <1>5, <1>11 DEF MouseFired
  <2> QED BY <1>2, <1>6, <2>1 DEF GoesOn
<1>12. ASSUME MouseLeft PROVE GoesOn(b, top)
  BY <1>4, <1>5, <1>6, <1>12 DEF MouseLeft
<1>13. ASSUME DragLeft PROVE GoesOn(b, top)
  BY <1>2, <1>4, <1>5, <1>13 DEF DragLeft, TellDrag, GoesOn
<1> QED
  BY <1>1, <1>3, <1>7, <1>8, <1>9, <1>10, <1>11, <1>12, <1>13, GoesOnFree, RestingMove

LEMMA MouseEntersTells ==
  ASSUME FocusInv, Typed, MouseEntered \/ MouseToChildren
  PROVE  FocusInv'
<1>1. /\ Depth > 0 /\ UNCHANGED <<status, viewFocused, targets, habit>>
      /\ Top.at \in {"Mouse.first", "Mouse.view"}
  BY DEF MouseEntered, MouseToChildren, Resumes
<1>2. Top.at \in FreeAts /\ {"Mouse.fired", "Mouse.pressed"} \subseteq FreeAts /\ "mouse" \in FreeEvs
  BY <1>1 DEF FreeAts, Ats, FocusAts, Entering, FreeEvs
<1>3. Lively /\ AtRest /\ Below \in Seq(FreeFrame) /\ Top \in Frame
  BY <1>1, <1>2, RestingMethod
<1>4. PICK b \in Seq(FreeFrame), top \in Frame : b = Below /\ top = Top
  BY <1>3
<1>5. top.ev \in Evs
  BY DEF Frame
<1>6. CASE MouseEntered
  <2>1. ToView(top.ev, b) /\ UNCHANGED focused
    BY <1>4, <1>6 DEF MouseEntered, held
  <2> QED BY <1>1, <1>3, <1>5, <2>1, ViewCalled, RestingMove
<1>7. CASE MouseToChildren
  <2>1. PICK e \in Holdable :
          \/ Return(Append(b, Holding("Mouse.fired", top.ev, e))) /\ UNCHANGED focused
          \/ SetFocus(e, Append(b, Holding("Mouse.pressed", top.ev, e)))
          \/ Fire("mouse", e, Append(b, Holding("Mouse.fired", top.ev, e))) /\ UNCHANGED focused
    BY <1>4, <1>7 DEF MouseToChildren, Holdable
  <2>2. PICK f \in FreeFrame, p \in FreeFrame :
          f = Holding("Mouse.fired", top.ev, e) /\ p = Holding("Mouse.pressed", top.ev, e)
    BY <1>2, <1>5, FreeIn
  <2>3. PICK s \in Seq(FreeFrame), t \in Seq(FreeFrame) : s = Append(b, f) /\ t = Append(b, p)
    BY FreeFrames
  <2>4. \/ Return(s) /\ UNCHANGED focused
        \/ SetFocus(e, t)
        \/ Fire("mouse", e, s) /\ UNCHANGED focused
    BY <2>1, <2>2, <2>3
  <2>5. CASE Return(s) /\ UNCHANGED focused
    BY <1>1, <1>3, <2>5, RestingMove DEF Return, told
  <2>6. CASE SetFocus(e, t)
    BY <1>1, <1>3, <2>6, SetFocusTells DEF AtRest, Typed
  <2>7. CASE Fire("mouse", e, s) /\ UNCHANGED focused
    <3>1. "mouse" \in Evs /\ "mouse" \notin FocusEvs
      BY <1>2, FreeEvents
    <3>2. stack' \in Seq(FreeFrame) /\ has' = has
      BY <2>7, <3>1, FreeHandler
    <3> QED BY <1>1, <1>3, <2>7, <3>2, RestingMove
  <2> QED BY <2>4, <2>5, <2>6, <2>7
<1> QED BY <1>6, <1>7

-----------------------------------------------------------------------------
LEMMA FocusMethodTells ==
  ASSUME FocusInv, Typed,
         SetFocusLeft \/ SetFocusEntered \/ SetFocusIsBack \/ ViewFocusedIn \/ KeyDropsFocus
  PROVE  FocusInv'
<1>1. Depth > 0 /\ Top.at \in FocusAts
  BY DEF SetFocusLeft, SetFocusEntered, SetFocusIsBack, ViewFocusedIn, KeyDropsFocus, Resumes,
     FocusAts, Entering
<1>2. Lively /\ Top.at # "handler"
  BY <1>1 DEF FocusInv, FocusAts, Entering
<1>3. ~ViewParts /\ ~HandlerTold
  BY <1>2, FocusHandlerRuns
<1>4. ~AtRest
  <2> SUFFICES ASSUME AtRest PROVE FALSE
    OBVIOUS
  <2>1. Top \in FreeFrame
    BY <1>1, FreePopped DEF AtRest
  <2> QED BY <1>1, <2>1 DEF FreeFrame
<1>5. MethodTold
  BY <1>3, <1>4 DEF FocusInv
<1> QED BY <1>2, <1>5, FocusMethodKeeps DEF Typed, ViewMethods

LEMMA InitFocus == ASSUME FocusHabits PROVE Init => FocusInv
<1> SUFFICES ASSUME Init PROVE FocusInv
  OBVIOUS
<1>1. /\ stack = <<>> /\ has = {} /\ viewFocused = FALSE /\ focused = None
      /\ status = [e \in Elements |-> "on"] /\ habit \in Habits
  BY DEF Init
<1>2. stack \in Seq(FreeFrame)
  BY <1>1
<1>3. Lively
  BY <1>1 DEF Lively, Alive, FocusHabits
<1> QED BY <1>1, <1>2, <1>3 DEF FocusInv, AtRest, Told

LEMMA StepTells == FocusInv /\ Typed /\ [Next]_vars => FocusInv'
<1> SUFFICES ASSUME FocusInv, Typed, [Next]_vars PROVE FocusInv'
  OBVIOUS
<1>1. CASE Script
  BY <1>1, ScriptTells
<1>2. CASE ViewMethods
  BY <1>2, FocusMethodTells, ViewOpenTells, KeyTells, MouseMethodTells, MouseEntersTells DEF ViewMethods
<1>3. CASE Events
  BY <1>3, ViewFocusInTells, ViewFocusOutTells, ViewOpenTells, KeyTells, MouseEventTells, DragEventTells
     DEF Events
<1>4. CASE UNCHANGED vars
  BY <1>4, SameFocus DEF vars, told, held
<1> QED BY <1>1, <1>2, <1>3, <1>4 DEF Next

(* Between two events of the main loop no element but the focused one was   *)
(* last told that it has the focus, and the focused element of a focused    *)
(* view was told so, however handlers remove, hide and disable elements and *)
(* cancel events in between, as long as they keep to FocusHabits.           *)
THEOREM FocusIsTold ==
  ASSUME FocusHabits
  PROVE  Spec => []FocusTold
<1>1. Init => FocusInv
  BY InitFocus
<1>2. ViewInv => Typed
  BY DEF ViewInv
<1>3. FocusInv => FocusTold
  <2> SUFFICES ASSUME FocusInv, Depth = 0
               PROVE  /\ has \subseteq {focused}
                      /\ viewFocused /\ focused # None => focused \in has
    BY DEF FocusTold
  <2>1. ~(Depth > 0)
    OBVIOUS
  <2>2. ~ViewParts /\ ~HandlerTold
    <3>1. Lively
      BY DEF FocusInv
    <3> QED BY <2>1, <3>1, FocusHandlerRuns
  <2>3. ~MethodTold
    <3> SUFFICES ASSUME NEW s \in Seq(FreeFrame), NEW f \in Frame, stack = Append(s, f)
                 PROVE  FALSE
      BY DEF MethodTold
    <3> QED BY <2>1, FreeFrames, TopOfPushed
  <2>4. has = Told
    BY <2>2, <2>3 DEF FocusInv, AtRest
  <2> QED BY <2>4 DEF Told
<1> QED BY <1>1, <1>2, <1>3, Invariance, StepTells, PTL DEF Spec
=============================================================================
