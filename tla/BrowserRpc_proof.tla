-------------------------- MODULE BrowserRpc_proof --------------------------
(***************************************************************************)
(* Proofs about BrowserRpc: who gets which reply, who waits for whom, and  *)
(* which pages are shown, whatever the numbers of browsers, messages and   *)
(* children.  First for calls that nest: the stacks of both sides are      *)
(* linked, and the innermost call is in one of six phases.  Then for calls *)
(* that cross: at most one of each side is under way, in one place.        *)
(***************************************************************************)
EXTENDS BrowserRpc, SequenceTheorems, TLAPS
-----------------------------------------------------------------------------
(* Sequences. *)
LEMMA Pushed ==
  ASSUME NEW S, NEW s \in Seq(S), NEW f \in S
  PROVE  /\ Append(s, f) \in Seq(S) /\ Append(s, f) # <<>>
         /\ Last(Append(s, f)) = f /\ Front(Append(s, f)) = s
         /\ Len(Append(s, f)) = Len(s) + 1
         /\ \A i \in 1 .. Len(s) : Append(s, f)[i] = s[i]
<1>1. PICK n \in Nat : n = Len(s)
  OBVIOUS
<1>a. Append(s, f) \in Seq(S)
  BY AppendProperties
<1>2. PICK t \in Seq(S) : t = Append(s, f)
  BY <1>a
<1>3. Len(t) = n + 1 /\ t[n + 1] = f /\ \A i \in 1 .. n : t[i] = s[i]
  BY <1>1, <1>2, AppendProperties
<1>4. SubSeq(Append(s, f), 1, n) = s
  BY <1>1, AppendProperties, SubSeqProperties
<1>5. n + 1 - 1 = n /\ n + 1 # 0
  OBVIOUS
<1>6. Front(t) = s
  BY <1>2, <1>3, <1>4, <1>5 DEF Front
<1>7. Last(t) = f
  BY <1>3 DEF Last
<1>8. t # <<>>
  BY <1>3, <1>5
<1> QED BY <1>1, <1>2, <1>3, <1>6, <1>7, <1>8

LEMMA Popped ==
  ASSUME NEW S, NEW s \in Seq(S), s # <<>>
  PROVE  /\ Front(s) \in Seq(S) /\ Last(s) \in S /\ s = Append(Front(s), Last(s))
<1>1. PICK n \in Nat : Len(s) = n + 1
  <2>1. Len(s) \in Nat /\ Len(s) # 0
    BY EmptySeq
  <2>2. Len(s) - 1 \in Nat /\ Len(s) = (Len(s) - 1) + 1
    BY <2>1
  <2> QED BY <2>2
<1>2. \A i \in 1 .. n + 1 : s[i] \in S
  BY <1>1, ElementOfSeq
<1>3. \A i \in 1 .. n : i \in 1 .. n + 1 /\ 1 + i - 1 = i
  OBVIOUS
<1>4. n + 1 \in 1 .. n + 1 /\ n + 1 - 1 = n /\ n - 1 + 1 = n
      /\ (IF 1 <= n THEN n - 1 + 1 ELSE 0) = n
  OBVIOUS
<1>5. PICK t : t = SubSeq(s, 1, n)
  OBVIOUS
<1>6. t \in Seq(S) /\ Len(t) = n /\ \A i \in 1 .. n : t[i] = s[i]
  BY <1>2, <1>3, <1>4, <1>5, SubSeqProperties
<1>7. t = Front(s) /\ Last(s) = s[n + 1]
  BY <1>1, <1>4, <1>5 DEF Front, Last
<1>8. PICK f \in S : f = s[n + 1]
  BY <1>2, <1>4
<1>b. Append(t, f) \in Seq(S)
  BY <1>6, AppendProperties
<1>9. PICK u \in Seq(S) : u = Append(t, f)
  BY <1>b
<1>10. Len(u) = n + 1 /\ u[n + 1] = f /\ \A i \in 1 .. n : u[i] = t[i]
  BY <1>6, <1>9, AppendProperties
<1>11. \A i \in 1 .. n + 1 : i \in 1 .. n \/ i = n + 1
  OBVIOUS
<1>12. \A i \in 1 .. n + 1 : u[i] = s[i]
  BY <1>6, <1>8, <1>10, <1>11
<1>13. u = s
  BY <1>1, <1>10, <1>12, SeqEqual
<1> QED BY <1>6, <1>7, <1>8, <1>9, <1>13

LEMMA One ==
  ASSUME NEW S, NEW m \in S
  PROVE  /\ <<m>> \in Seq(S) /\ <<m>> # <<>> /\ Len(<<m>>) = 1 /\ <<m>>[1] = m
         /\ Head(<<m>>) = m /\ Tail(<<m>>) = <<>> /\ Append(<<>>, m) = <<m>>
OBVIOUS

(* A pipe with one message is read: *)
LEMMA ReadOne ==
  ASSUME NEW m \in Message, NEW j \in 1 .. Len(<<m>>)
  PROVE  <<>> \o SubSeq(<<m>>, 1, j) = <<m>> /\ SubSeq(<<m>>, j + 1, Len(<<m>>)) = <<>>
<1>1. j = 1 /\ Len(<<m>>) = 1
  BY One
<1>2. SubSeq(<<m>>, 1, 1) = <<m>> /\ SubSeq(<<m>>, 2, 1) = <<>>
  <2>1. \A i \in 1 .. 1 : <<m>>[i] \in Message /\ 1 + i - 1 = i
    OBVIOUS
  <2>2. PICK s : s = SubSeq(<<m>>, 1, 1)
    OBVIOUS
  <2>3. s \in Seq(Message) /\ Len(s) = 1 /\ \A i \in 1 .. 1 : s[i] = <<m>>[i]
    BY <2>1, <2>2, SubSeqProperties
  <2>4. s = <<m>>
    BY <2>3, One, SeqEqual
  <2>5. SubSeq(<<m>>, 2, 1) = <<>>
    BY SubSeqEmpty
  <2> QED BY <2>2, <2>4, <2>5
<1>3. <<>> \o <<m>> = <<m>>
  OBVIOUS
<1>4. j + 1 = 2
  BY <1>1
<1> QED BY <1>1, <1>2, <1>3, <1>4

-----------------------------------------------------------------------------
(* Types. *)
LEMMA Framed ==
  ASSUME NEW at \in {"wait", "read", "serve"}, NEW n \in 0 .. Ack, NEW b \in 0 .. MaxBrowsers,
         starts \in 0 .. MaxStarts
  PROVE  /\ At(at, n, b) \in Frame /\ At(at, n, b).at = at
         /\ At(at, n, b).n = n /\ At(at, n, b).b = b /\ At(at, n, b).got = None
         /\ \A x \in 0 .. MaxStarts : [At(at, n, b) EXCEPT !.of = x] \in Frame
         /\ \A x \in 0 .. MaxStarts : [At(at, n, b) EXCEPT !.of = x].at = at
         /\ \A x \in 0 .. MaxStarts : [At(at, n, b) EXCEPT !.of = x].n = n
         /\ \A x \in 0 .. MaxStarts : [At(at, n, b) EXCEPT !.of = x].got = None
<1>1. None \in 0 .. Ack
  BY BrowserRpcAssumption DEF None, Ack
<1> QED BY <1>1 DEF At, Frame

LEMMA Got ==
  ASSUME NEW f \in Frame, NEW n \in 0 .. Ack
  PROVE  /\ [f EXCEPT !.got = n] \in Frame /\ [f EXCEPT !.got = n].at = f.at
         /\ [f EXCEPT !.got = n].got = n
BY DEF Frame

LEMMA Replied ==
  ASSUME NEW n \in 0 .. Ack
  PROVE  Reply(n) \in Message /\ Reply(n).kind = "reply" /\ Reply(n).n = n
<1>1. None \in 0 .. MaxBrowsers
  BY BrowserRpcAssumption DEF None
<1> QED BY <1>1 DEF Reply, Message

LEMMA Numbered ==
  ASSUME sent \in 0 .. MaxMessages, sent < MaxMessages
  PROVE  sent + 1 \in 0 .. MaxMessages /\ sent + 1 \in 0 .. Ack /\ sent + 1 # None
BY BrowserRpcAssumption DEF Ack, None

-----------------------------------------------------------------------------
(* The frames of a side that serves the other are threes: of the host, the   *)
(* command that waits, what it reads, and the feedback it serves; of the     *)
(* child, what it reads, the command it serves, and the feedback that waits. *)
Stack == Seq(Frame)
Waits == {f \in Frame : f.at = "wait" /\ f.got = None /\ f.n # None}
Loops == {f \in Frame : f.at = "read"}
Reads == {f \in Loops : f.got = None}
Serves == {f \in Frame : f.at = "serve" /\ f.got = None}
Three(s, f, g, h) == Append(Append(Append(s, f), g), h)

(* The stacks of a host that serves: the least set with <<>> that is closed  *)
(* under the threes of the host, of which the outermost has no reply.        *)
Nested(P) ==
  /\ <<>> \in P
  /\ \A b \in P : \A w \in Waits, r \in Loops, s \in Serves :
       (b = <<>> => r \in Reads) => Three(b, w, r, s) \in P
Serving(hb) == \A P \in SUBSET Stack : Nested(P) => hb \in P

(* The stacks of both sides, level with each other: each serves what the     *)
(* other waits for.                                                          *)
Level(P) ==
  /\ <<<<>>, <<>>>> \in P
  /\ \A p \in P : \A w, cw \in Waits, r, cr \in Reads, s, cs \in Serves :
       cs.n = w.n /\ s.n = cw.n => <<Three(p[1], w, r, s), Three(p[2], cr, cs, cw)>> \in P
Linked(hb, cb) == \A P \in SUBSET (Stack \X Stack) : Level(P) => <<hb, cb>> \in P

LEMMA Stacked ==
  ASSUME NEW s \in Stack, NEW f \in Frame
  PROVE  /\ Append(s, f) \in Stack /\ Append(s, f) # <<>>
         /\ Last(Append(s, f)) = f /\ Front(Append(s, f)) = s
BY Pushed DEF Stack

LEMMA SameBelow ==
  ASSUME NEW s \in Stack, NEW t \in Stack, NEW f \in Frame, NEW g \in Frame,
         Append(s, f) = Append(t, g)
  PROVE  s = t
<1>1. Front(Append(s, f)) = s
  BY Stacked
<1>2. Front(Append(t, g)) = t
  BY Stacked
<1> QED BY <1>1, <1>2

LEMMA ThreeStacked ==
  ASSUME NEW s \in Stack, NEW f \in Frame, NEW g \in Frame, NEW h \in Frame
  PROVE  /\ Three(s, f, g, h) \in Stack /\ Three(s, f, g, h) # <<>>
         /\ Last(Three(s, f, g, h)) = h
         /\ Front(Three(s, f, g, h)) = Append(Append(s, f), g)
BY Stacked DEF Three

LEMMA Unstacked ==
  ASSUME NEW s \in Stack, s # <<>>
  PROVE  Front(s) \in Stack /\ Last(s) \in Frame /\ s = Append(Front(s), Last(s))
BY Popped DEF Stack

LEMMA EmptyStack == <<>> \in Stack
BY EmptySeq DEF Stack

LEMMA Kinds ==
  /\ \A f \in Waits : f \in Frame /\ f.at = "wait" /\ f.got = None /\ f.n # None
  /\ \A f \in Loops : f \in Frame /\ f.at = "read"
  /\ \A f \in Reads : f \in Loops /\ f \in Frame /\ f.at = "read" /\ f.got = None
  /\ \A f \in Serves : f \in Frame /\ f.at = "serve" /\ f.got = None
BY DEF Waits, Loops, Reads, Serves

LEMMA StacksAreNested == Nested(Stack)
BY EmptyStack, ThreeStacked, Kinds DEF Nested

LEMMA ServingStacked ==
  ASSUME NEW hb, Serving(hb)
  PROVE  hb \in Stack
BY StacksAreNested DEF Serving

LEMMA ServingNone == Serving(<<>>)
BY DEF Serving, Nested

LEMMA ServingDeeper ==
  ASSUME NEW hb, Serving(hb), NEW w \in Waits, NEW r \in Loops, NEW s \in Serves,
         hb = <<>> => r \in Reads
  PROVE  Serving(Three(hb, w, r, s))
BY DEF Serving, Nested

LEMMA ServingPops ==
  ASSUME NEW hb, Serving(hb), hb # <<>>
  PROVE  \E b \in Stack, w \in Waits, r \in Loops, s \in Serves :
           Serving(b) /\ (b = <<>> => r \in Reads) /\ hb = Three(b, w, r, s)
<1> DEFINE Some(h) == \E b \in Stack, w \in Waits, r \in Loops, s \in Serves :
                        Serving(b) /\ (b = <<>> => r \in Reads) /\ h = Three(b, w, r, s)
           P == {h \in Stack : Serving(h) /\ (h = <<>> \/ Some(h))}
<1>1. <<>> \in P
  BY EmptyStack, ServingNone
<1>2. ASSUME NEW b \in P, NEW w \in Waits, NEW r \in Loops, NEW s \in Serves,
             b = <<>> => r \in Reads
      PROVE  Three(b, w, r, s) \in P
  <2>1. b \in Stack /\ Serving(b)
    BY <1>2
  <2>2. PICK h : h = Three(b, w, r, s)
    OBVIOUS
  <2>3. Serving(h)
    BY <1>2, <2>1, <2>2, ServingDeeper
  <2>4. Some(h)
    BY <1>2, <2>1, <2>2
  <2>5. h \in Stack
    BY <2>3, ServingStacked
  <2> QED BY <2>2, <2>3, <2>4, <2>5
<1>3. P \in SUBSET Stack
  OBVIOUS
<1>4. Nested(P)
  BY <1>1, <1>2 DEF Nested
<1>5. hb \in P
  BY <1>3, <1>4 DEF Serving
<1> QED BY <1>5

LEMMA ServingTop ==
  ASSUME NEW hb, Serving(hb), hb # <<>>
  PROVE  Last(hb).at = "serve" /\ hb \in Stack
<1>1. PICK b \in Stack, w \in Waits, r \in Loops, s \in Serves : hb = Three(b, w, r, s)
  BY ServingPops
<1>2. w \in Frame /\ r \in Frame /\ s \in Frame /\ s.at = "serve"
  BY Kinds
<1>3. Three(b, w, r, s) \in Stack /\ Last(Three(b, w, r, s)) = s
  BY <1>2, ThreeStacked
<1> QED BY <1>1, <1>2, <1>3

(* Nobody has a reply in them. *)
Unanswered(h) == \A i \in 1 .. Len(h) : h[i].got = None
LEMMA UnansweredDeeper ==
  ASSUME NEW h \in Stack, Unanswered(h), NEW f \in Frame, f.got = None
  PROVE  Unanswered(Append(h, f))
<1>1. PICK n \in Nat : n = Len(h)
  BY DEF Stack
<1>2. PICK t \in Stack : t = Append(h, f)
  BY Stacked
<1>3. Len(t) = n + 1 /\ t[n + 1] = f /\ \A i \in 1 .. n : t[i] = h[i]
  BY <1>1, <1>2, AppendProperties DEF Stack
<1>4. \A i \in 1 .. n + 1 : i \in 1 .. n \/ i = n + 1
  OBVIOUS
<1>5. \A i \in 1 .. n : h[i].got = None
  BY <1>1 DEF Unanswered
<1>6. \A i \in 1 .. n + 1 : t[i].got = None
  BY <1>3, <1>4, <1>5
<1> QED BY <1>2, <1>3, <1>6 DEF Unanswered

LEMMA ServingWaits ==
  ASSUME NEW hb, Serving(hb)
  PROVE  Waiting(hb) = {} <=> hb = <<>>
<1>1. Waiting(<<>>) = {}
  BY EmptySeq DEF Waiting
<1>2. ASSUME hb # <<>> PROVE Waiting(hb) # {}
  <2>1. PICK b \in Stack, w \in Waits, r \in Loops, s \in Serves : hb = Three(b, w, r, s)
    BY <1>2, ServingPops
  <2>2. PICK n \in Nat : n = Len(b)
    BY DEF Stack
  <2>3. PICK x \in Stack : x = Append(b, w)
    BY Stacked, Kinds
  <2>4. Len(x) = n + 1 /\ x[n + 1] = w
    BY <2>2, <2>3, Kinds, AppendProperties DEF Stack
  <2>5. PICK y \in Stack : y = Append(x, r)
    BY Stacked, Kinds
  <2>6. n + 1 \in 1 .. n + 1
    OBVIOUS
  <2>7. Len(y) = n + 1 + 1 /\ y[n + 1] = w
    BY <2>4, <2>5, <2>6, Kinds, AppendProperties DEF Stack
  <2>8. n + 1 \in 1 .. n + 1 + 1 /\ n + 1 \in 1 .. n + 1 + 1 + 1
    OBVIOUS
  <2>9. hb = Append(y, s)
    BY <2>1, <2>3, <2>5 DEF Three
  <2>10. Len(hb) = n + 1 + 1 + 1 /\ hb[n + 1] = w
    BY <2>7, <2>8, <2>9, Kinds, AppendProperties DEF Stack
  <2> QED BY <2>8, <2>10, Kinds DEF Waiting
<1> QED BY <1>1, <1>2

LEMMA StacksAreLevel == Level(Stack \X Stack)
BY EmptyStack, ThreeStacked, Kinds DEF Level

LEMMA LinkedStacked ==
  ASSUME NEW hb, NEW cb, Linked(hb, cb)
  PROVE  hb \in Stack /\ cb \in Stack
BY StacksAreLevel DEF Linked

LEMMA LinkedNone == Linked(<<>>, <<>>)
BY DEF Linked, Level

LEMMA LinkedDeeper ==
  ASSUME NEW hb, NEW cb, Linked(hb, cb), NEW w \in Waits, NEW r \in Reads, NEW s \in Serves,
         NEW cr \in Reads, NEW cs \in Serves, NEW cw \in Waits, cs.n = w.n, s.n = cw.n
  PROVE  Linked(Three(hb, w, r, s), Three(cb, cr, cs, cw))
<1>1. ASSUME NEW P \in SUBSET (Stack \X Stack), Level(P)
      PROVE  <<Three(hb, w, r, s), Three(cb, cr, cs, cw)>> \in P
  <2>1. <<hb, cb>> \in P
    BY <1>1 DEF Linked
  <2>2. <<Three(<<hb, cb>>[1], w, r, s), Three(<<hb, cb>>[2], cr, cs, cw)>> \in P
    BY <1>1, <2>1 DEF Level
  <2> QED BY <2>2
<1> QED BY <1>1 DEF Linked

Linking(h, c) == \E hb, cb \in Stack, w, cw \in Waits, r, cr \in Reads, s, cs \in Serves :
                   /\ Linked(hb, cb) /\ cs.n = w.n /\ s.n = cw.n
                   /\ h = Three(hb, w, r, s) /\ c = Three(cb, cr, cs, cw)
LEMMA LinkedPops ==
  ASSUME NEW hb, NEW cb, Linked(hb, cb)
  PROVE  (hb = <<>> /\ cb = <<>>) \/ Linking(hb, cb)
<1> DEFINE P == {p \in Stack \X Stack : /\ Linked(p[1], p[2])
                                        /\ (p[1] = <<>> /\ p[2] = <<>>) \/ Linking(p[1], p[2])}
<1>1. <<<<>>, <<>>>> \in P
  BY EmptyStack, LinkedNone
<1>2. ASSUME NEW p \in P, NEW w \in Waits, NEW cw \in Waits, NEW r \in Reads, NEW cr \in Reads,
             NEW s \in Serves, NEW cs \in Serves, cs.n = w.n, s.n = cw.n
      PROVE  <<Three(p[1], w, r, s), Three(p[2], cr, cs, cw)>> \in P
  <2>1. PICK h \in Stack, c \in Stack : h = p[1] /\ c = p[2] /\ Linked(h, c)
    BY <1>2
  <2>2. PICK x, y : x = Three(h, w, r, s) /\ y = Three(c, cr, cs, cw)
    OBVIOUS
  <2>3. Linked(x, y)
    BY <1>2, <2>1, <2>2, LinkedDeeper
  <2>4. Linking(x, y)
    BY <1>2, <2>1, <2>2 DEF Linking
  <2>5. x \in Stack /\ y \in Stack
    BY <2>3, LinkedStacked
  <2>6. <<x, y>> \in P
    BY <2>3, <2>4, <2>5
  <2> QED BY <2>1, <2>2, <2>6
<1>3. P \in SUBSET (Stack \X Stack)
  OBVIOUS
<1>4. Level(P)
  BY <1>1, <1>2 DEF Level
<1>5. <<hb, cb>> \in P
  BY <1>3, <1>4 DEF Linked
<1> QED BY <1>5

LEMMA LinkedServes ==
  ASSUME NEW hb, NEW cb, Linked(hb, cb)
  PROVE  Serving(hb)
<1> DEFINE P == {p \in Stack \X Stack : Serving(p[1])}
<1>1. <<<<>>, <<>>>> \in P
  BY EmptyStack, ServingNone
<1>2. ASSUME NEW p \in P, NEW w \in Waits, NEW cw \in Waits, NEW r \in Reads, NEW cr \in Reads,
             NEW s \in Serves, NEW cs \in Serves
      PROVE  <<Three(p[1], w, r, s), Three(p[2], cr, cs, cw)>> \in P
  <2>1. PICK h \in Stack, c \in Stack : h = p[1] /\ c = p[2] /\ Serving(h)
    BY <1>2
  <2>2. Serving(Three(h, w, r, s))
    BY <1>2, <2>1, ServingDeeper, Kinds
  <2>3. Three(h, w, r, s) \in Stack /\ Three(c, cr, cs, cw) \in Stack
    BY <1>2, <2>1, ThreeStacked, Kinds
  <2> QED BY <2>1, <2>2, <2>3
<1>3. P \in SUBSET (Stack \X Stack)
  OBVIOUS
<1>4. Level(P)
  BY <1>1, <1>2 DEF Level
<1>5. <<hb, cb>> \in P
  BY <1>3, <1>4 DEF Linked
<1> QED BY <1>5

(* What they end in. *)
LEMMA LinkedTops ==
  ASSUME NEW hb, NEW cb, Linked(hb, cb)
  PROVE  /\ hb \in Stack /\ cb \in Stack /\ (hb = <<>> <=> cb = <<>>)
         /\ hb # <<>> => Last(hb).at = "serve"
         /\ cb # <<>> => Last(cb).at = "wait"
<1>1. CASE hb = <<>> /\ cb = <<>>
  BY <1>1, EmptyStack
<1>2. CASE Linking(hb, cb)
  <2>1. PICK h \in Stack, c \in Stack, w \in Waits, cw \in Waits, r \in Reads, cr \in Reads,
             s \in Serves, cs \in Serves : hb = Three(h, w, r, s) /\ cb = Three(c, cr, cs, cw)
    BY <1>2 DEF Linking
  <2>2. /\ w \in Frame /\ r \in Frame /\ s \in Frame /\ s.at = "serve"
        /\ cw \in Frame /\ cr \in Frame /\ cs \in Frame /\ cw.at = "wait"
    BY Kinds
  <2>3. Three(h, w, r, s) \in Stack /\ Three(h, w, r, s) # <<>> /\ Last(Three(h, w, r, s)) = s
    BY <2>2, ThreeStacked
  <2>4. Three(c, cr, cs, cw) \in Stack /\ Three(c, cr, cs, cw) # <<>>
        /\ Last(Three(c, cr, cs, cw)) = cw
    BY <2>2, ThreeStacked
  <2> QED BY <2>1, <2>2, <2>3, <2>4
<1> QED BY <1>1, <1>2, LinkedPops

LEMMA LinkedUnanswered ==
  ASSUME NEW hb, NEW cb, Linked(hb, cb)
  PROVE  Unanswered(hb)
<1> DEFINE P == {p \in Stack \X Stack : Unanswered(p[1])}
<1>1. <<<<>>, <<>>>> \in P
  BY EmptyStack, EmptySeq DEF Unanswered
<1>2. ASSUME NEW p \in P, NEW w \in Waits, NEW cw \in Waits, NEW r \in Reads, NEW cr \in Reads,
             NEW s \in Serves, NEW cs \in Serves
      PROVE  <<Three(p[1], w, r, s), Three(p[2], cr, cs, cw)>> \in P
  <2>1. PICK h \in Stack, c \in Stack : h = p[1] /\ c = p[2] /\ Unanswered(h)
    BY <1>2
  <2>2. PICK x \in Stack : x = Append(h, w) /\ Unanswered(x)
    BY <1>2, <2>1, Stacked, Kinds, UnansweredDeeper
  <2>3. PICK y \in Stack : y = Append(x, r) /\ Unanswered(y)
    BY <1>2, <2>2, Stacked, Kinds, UnansweredDeeper
  <2>4. PICK z \in Stack : z = Append(y, s) /\ Unanswered(z)
    BY <1>2, <2>3, Stacked, Kinds, UnansweredDeeper
  <2>5. z = Three(h, w, r, s)
    BY <2>2, <2>3, <2>4 DEF Three
  <2>6. Three(c, cr, cs, cw) \in Stack
    BY <1>2, <2>1, ThreeStacked, Kinds
  <2> QED BY <2>1, <2>4, <2>5, <2>6
<1>3. P \in SUBSET (Stack \X Stack)
  OBVIOUS
<1>4. Level(P)
  BY <1>1, <1>2 DEF Level
<1>5. <<hb, cb>> \in P
  BY <1>3, <1>4 DEF Linked
<1> QED BY <1>5

-----------------------------------------------------------------------------
(* What the pipes and the stacks hold. *)
Pipes == Seq(Message)
Typed ==
  /\ habit \in Habits /\ sent \in 0 .. MaxMessages
  /\ seq \in 0 .. MaxBrowsers /\ starts \in 0 .. MaxStarts
  /\ down \in Pipes /\ up \in Pipes /\ up_buffer \in Pipes /\ down_buffer \in Pipes
  /\ host \in Stack /\ child \in Stack /\ reply \in 0 .. Ack
  /\ forced \in BOOLEAN /\ running \in BOOLEAN /\ alive \in BOOLEAN

LEMMA Piped ==
  /\ <<>> \in Pipes
  /\ \A p \in Pipes, m \in Message : Append(p, m) \in Pipes
  /\ \A p \in Pipes : p # <<>> => Head(p) \in Message /\ Tail(p) \in Pipes
<1>1. <<>> \in Pipes
  BY EmptySeq DEF Pipes
<1>2. \A p \in Pipes, m \in Message : Append(p, m) \in Pipes
  BY AppendProperties DEF Pipes
<1>3. \A p \in Pipes : p # <<>> => Head(p) \in Message /\ Tail(p) \in Pipes
  BY HeadTailProperties DEF Pipes
<1> QED BY <1>1, <1>2, <1>3

LEMMA SeqRead ==
  ASSUME NEW S, NEW p \in Seq(S), NEW q \in Seq(S), NEW j \in 1 .. Len(p)
  PROVE  q \o SubSeq(p, 1, j) \in Seq(S) /\ SubSeq(p, j + 1, Len(p)) \in Seq(S)
<1>1. PICK n \in Nat : n = Len(p)
  OBVIOUS
<1>2. \A i \in 1 .. n : p[i] \in S
  BY <1>1, ElementOfSeq
<1>3. j \in 1 .. n /\ (\A i \in 1 .. j : i \in 1 .. n) /\ (\A i \in j + 1 .. n : i \in 1 .. n)
  BY <1>1
<1>4. \A i \in 1 .. j : p[i] \in S
  BY <1>2, <1>3
<1>5. \A i \in j + 1 .. n : p[i] \in S
  BY <1>2, <1>3
<1>6. SubSeq(p, 1, j) \in Seq(S)
  BY <1>3, <1>4, SubSeqProperties
<1>7. SubSeq(p, j + 1, n) \in Seq(S)
  BY <1>3, <1>5, SubSeqProperties
<1>8. q \o SubSeq(p, 1, j) \in Seq(S)
  BY <1>6, ConcatProperties
<1> QED BY <1>1, <1>7, <1>8

LEMMA PipeRead ==
  ASSUME NEW p \in Pipes, NEW q \in Pipes, NEW j \in 1 .. Len(p)
  PROVE  q \o SubSeq(p, 1, j) \in Pipes /\ SubSeq(p, j + 1, Len(p)) \in Pipes
BY SeqRead DEF Pipes

LEMMA StopTyped ==
  ASSUME StopChild
  PROVE  /\ up_buffer' \in Pipes /\ down' \in Pipes /\ up' \in Pipes /\ down_buffer' \in Pipes
         /\ child' \in Stack /\ reply' \in 0 .. Ack
         /\ running' = FALSE /\ alive' = FALSE
BY Piped, EmptyStack, BrowserRpcAssumption DEF StopChild, None, Ack

LEMMA WriteTyped ==
  ASSUME Typed, NEW m \in Message, NEW els, Write(m, els)
  PROVE  /\ up_buffer' \in Pipes /\ down' \in Pipes /\ up' \in Pipes /\ down_buffer' \in Pipes
         /\ child' \in Stack /\ reply' \in 0 .. Ack
         /\ running' \in BOOLEAN /\ alive' \in BOOLEAN
<1>1. CASE StopChild
  BY <1>1, StopTyped
<1>2. CASE ~StopChild
  <2>1. (running' = running /\ alive' = alive)
    BY <1>2 DEF Write, Typed, Unstopped
  <2>2. down' = down \/ down' = Append(down, m)
    BY <1>2 DEF Write, Typed, Unstopped
  <2>3. UNCHANGED <<up_buffer, up, childvars>>
    BY <1>2 DEF Write, Typed, Unstopped
  <2>4. down' \in Pipes
    BY <2>2, Piped DEF Typed
  <2> QED BY <2>1, <2>3, <2>4 DEF Typed, childvars
<1> QED BY <1>1, <1>2

LEMMA SendTyped ==
  ASSUME Typed, NEW kind \in {"new", "close", "call"}, NEW b \in 0 .. MaxBrowsers, NEW els,
         starts' = starts, HostMayCall, SendCommand(kind, b, els), seq' \in 0 .. MaxBrowsers,
         habit' = habit
  PROVE  Typed'
<1>1. sent' = sent + 1 /\ sent' \in 0 .. MaxMessages /\ sent' \in 0 .. Ack
  BY Numbered DEF Typed, HostMayCall, SendCommand
<1>2. [kind |-> kind, n |-> sent', b |-> b] \in Message
  BY <1>1 DEF Message
<1>3. PICK m \in Message : m = [kind |-> kind, n |-> sent', b |-> b]
  BY <1>2
<1>4. Write(m, els)
  BY <1>3 DEF SendCommand
<1>5. [At("wait", sent', b) EXCEPT !.of = starts'] \in Frame
  BY <1>1, Framed DEF Typed
<1>6. host' \in Stack
  BY <1>5, Stacked DEF Typed, SendCommand
<1>7. forced' \in BOOLEAN
  BY DEF SendCommand
<1> QED BY <1>1, <1>4, <1>6, <1>7, WriteTyped DEF Typed

LEMMA NoReplyTyped ==
  ASSUME Typed, NEW h \in Stack, NoReply(h), UNCHANGED <<habit, sent, seq, starts>>
  PROVE  Typed'
<1>1. host' \in Stack /\ forced' \in BOOLEAN
  BY DEF NoReply
<1>2. CASE StopChild
  BY <1>1, <1>2, StopTyped DEF Typed
<1>3. CASE Unstopped
  BY <1>1, <1>3 DEF Typed, Unstopped, childvars
<1> QED BY <1>2, <1>3 DEF NoReply

LEMMA StepTyped ==
  ASSUME Typed, [Next]_vars
  PROVE  Typed'
<1>n. None \in 0 .. Ack /\ None \in 0 .. MaxBrowsers
  BY BrowserRpcAssumption DEF None, Ack
<1>r. At("read", None, None) \in Frame
  BY <1>n, Framed DEF Typed
<1>1. ASSUME NEW j, ReadUpPipe(j) PROVE Typed'
  <2>1. j \in 1 .. Len(up) /\ up_buffer' = up_buffer \o SubSeq(up, 1, j)
        /\ up' = SubSeq(up, j + 1, Len(up))
    BY <1>1 DEF ReadUpPipe
  <2>2. up_buffer' \in Pipes /\ up' \in Pipes
    BY <2>1, PipeRead DEF Typed
  <2>3. host' \in Stack
    BY <1>1, <1>r, Stacked DEF ReadUpPipe, Typed
  <2> QED BY <1>1, <2>2, <2>3 DEF ReadUpPipe, Typed, process, childvars
<1>2. CASE ReadFails
  BY <1>2, StopTyped DEF ReadFails, Typed
<1>3. CASE TakeUp
  <2>1. host # <<>> /\ up_buffer # <<>> /\ HostAt("read")
    BY <1>3 DEF TakeUp, HostAt
  <2>2. PICK m \in Message : m = Head(up_buffer)
    BY <2>1, Piped DEF Typed
  <2>3. Tail(up_buffer) \in Pipes /\ Front(host) \in Stack /\ Last(host) \in Frame
    BY <2>1, Piped, Unstacked DEF Typed
  <2>4. m.n \in 0 .. Ack /\ m.b \in 0 .. MaxBrowsers
    BY DEF Message
  <2>5. [Last(host) EXCEPT !.got = m.n] \in Frame /\ At("serve", m.n, m.b) \in Frame
    BY <2>3, <2>4, Got, Framed DEF Typed
  <2>6. Append(Front(host), [Last(host) EXCEPT !.got = m.n]) \in Stack
    BY <2>3, <2>5, Stacked
  <2>7. Append(host, At("serve", m.n, m.b)) \in Stack
    BY <2>5, Stacked DEF Typed
  <2>8. Append(down, Reply(Ack)) \in Pipes
    <3>1. Ack \in 0 .. Ack
      BY BrowserRpcAssumption DEF Ack
    <3> QED BY <3>1, Replied, Piped DEF Typed
  <2>9. host' \in Stack
    BY <1>3, <2>2, <2>6, <2>7 DEF TakeUp, Typed
  <2>10. CASE StopChild
    BY <1>3, <2>9, <2>10, StopTyped DEF TakeUp, Typed
  <2>11. CASE ~StopChild
    <3>1. UNCHANGED <<running, alive, up, childvars>>
      BY <1>3, <2>11 DEF TakeUp
    <3>2. up_buffer' = Tail(up_buffer) /\ (down' = down \/ down' = Append(down, Reply(Ack)))
      BY <1>3, <2>11 DEF TakeUp
    <3>3. UNCHANGED <<habit, sent, seq, forced, starts>>
      BY <1>3 DEF TakeUp
    <3>4. down' \in Pipes /\ up_buffer' \in Pipes
      BY <3>2, <2>3, <2>8 DEF Typed
    <3> QED BY <3>1, <3>3, <3>4, <2>9 DEF Typed, childvars
  <2> QED BY <2>10, <2>11
<1>4. CASE HostAnswers
  <2>1. host # <<>> /\ host' = Front(host)
    BY <1>4 DEF HostAnswers, HostAt
  <2>2. PICK f \in Frame : f = Last(host)
    BY <2>1, Unstacked DEF Typed
  <2>3. host' \in Stack
    BY <2>1, Unstacked DEF Typed
  <2>4. f.n \in 0 .. Ack
    BY DEF Frame
  <2>5. PICK m \in Message : m = Reply(f.n)
    BY <2>4, Replied
  <2>6. Write(m, elements)
    BY <1>4, <2>2, <2>5 DEF HostAnswers
  <2> QED BY <1>4, <2>3, <2>6, WriteTyped DEF HostAnswers, Typed
<1>5. CASE ReadEnds
  <2>1. host # <<>>
    BY <1>5 DEF ReadEnds, HostAt
  <2>2. PICK p \in Stack : p = Front(host)
    BY <2>1, Unstacked DEF Typed
  <2>3. CASE p = <<>>
    BY <1>5, <2>2, <2>3, EmptyStack DEF ReadEnds, Typed, Unstopped, childvars
  <2>4. CASE p # <<>>
    <3>1. PICK q \in Stack : q = Front(p)
      BY <2>4, Unstacked
    <3>2. UNCHANGED <<habit, sent, seq, starts>>
      BY <1>5 DEF ReadEnds
    <3>3. \/ (host' = p \/ host' = q) /\ UNCHANGED <<forced, elements>> /\ Unstopped
          \/ NoReply(q)
      BY <1>5, <2>2, <2>4, <3>1 DEF ReadEnds
    <3>4. CASE (host' = p \/ host' = q) /\ UNCHANGED <<forced, elements>> /\ Unstopped
      BY <3>2, <3>4 DEF Typed, Unstopped, childvars
    <3> QED BY <3>2, <3>3, <3>4, NoReplyTyped
  <2> QED BY <2>3, <2>4
<1>6. CASE GiveUp \/ TimesOut
  <2>1. host # <<>> /\ NoReply(Front(host)) /\ UNCHANGED <<habit, sent, seq, starts>>
    BY <1>6 DEF GiveUp, TimesOut, HostAt
  <2>2. PICK h \in Stack : h = Front(host)
    BY <2>1, Unstacked DEF Typed
  <2> QED BY <2>1, <2>2, NoReplyTyped
<1>7. CASE StartChild
  <2>1. sent' = sent + 1 /\ sent' \in 0 .. MaxMessages /\ sent' \in 0 .. Ack
    BY <1>7, Numbered DEF Typed, HostMayCall, StartChild
  <2>2. seq' \in 0 .. MaxBrowsers /\ starts' \in 0 .. MaxStarts
    BY <1>7, BrowserRpcAssumption DEF Typed, StartChild
  <2>3. [kind |-> "new", n |-> sent', b |-> seq'] \in Message
    BY <2>1, <2>2 DEF Message
  <2>4. down' \in Pipes
    BY <1>7, <2>3, One DEF StartChild, Pipes
  <2>5. [At("wait", sent', seq') EXCEPT !.of = starts'] \in Frame
    BY <2>1, <2>2, Framed DEF Typed
  <2>6. host' \in Stack
    BY <1>7, <2>5, Stacked DEF StartChild, Typed
  <2>7. forced' \in BOOLEAN /\ running' \in BOOLEAN /\ alive' \in BOOLEAN
    BY <1>7 DEF StartChild
  <2> QED BY <1>7, <2>1, <2>2, <2>4, <2>6, <2>7 DEF StartChild, Typed, childvars
<1>8. CASE NewBrowser
  <2>1. seq' = seq + 1 /\ seq' \in 0 .. MaxBrowsers
    BY <1>8, BrowserRpcAssumption DEF NewBrowser, Typed
  <2>2. /\ starts' = starts /\ HostMayCall /\ habit' = habit
        /\ SendCommand("new", seq', elements \cup {seq'})
    BY <1>8 DEF NewBrowser
  <2> QED BY <2>1, <2>2, SendTyped
<1>9. ASSUME NEW b \in Browsers, CallBrowser(b) \/ CloseBrowser(b) PROVE Typed'
  <2>1. b \in 0 .. MaxBrowsers
    BY BrowserRpcAssumption DEF Browsers
  <2>2. /\ starts' = starts /\ HostMayCall /\ habit' = habit /\ seq' = seq
        /\ SendCommand("call", b, elements) \/ SendCommand("close", b, elements \ {b})
    BY <1>9 DEF CallBrowser, CloseBrowser
  <2> QED BY <2>1, <2>2, SendTyped DEF Typed
<1>10. CASE PingTimerCallback
  BY <1>10, StopTyped DEF PingTimerCallback, Typed
<1>11. ASSUME NEW j, OnDownFDReady(j) PROVE Typed'
  <2>1. j \in 1 .. Len(down) /\ down_buffer' = down_buffer \o SubSeq(down, 1, j)
        /\ down' = SubSeq(down, j + 1, Len(down))
    BY <1>11 DEF OnDownFDReady
  <2>2. down_buffer' \in Pipes /\ down' \in Pipes
    BY <2>1, PipeRead DEF Typed
  <2>3. child' \in Stack
    BY <1>11, <1>r, Stacked DEF OnDownFDReady, Typed
  <2> QED BY <1>11, <2>2, <2>3 DEF OnDownFDReady, Typed, hostvars
<1>12. CASE TakeDown
  <2>1. PICK m \in Message : m = Head(down_buffer)
    BY <1>12, Piped DEF Typed, TakeDown
  <2>2. down_buffer' \in Pipes
    BY <1>12, Piped DEF Typed, TakeDown
  <2>3. m.n \in 0 .. Ack /\ m.b \in 0 .. MaxBrowsers
    BY DEF Message
  <2>4. Append(child, At("serve", m.n, m.b)) \in Stack
    BY <2>3, Framed, Stacked DEF Typed
  <2>5. child' \in Stack /\ reply' \in 0 .. Ack
    BY <1>12, <2>1, <2>3, <2>4 DEF TakeDown, Typed
  <2> QED BY <1>12, <2>2, <2>5 DEF TakeDown, Typed, hostvars
<1>13. CASE ChildAnswers
  <2>1. child # <<>>
    BY <1>13 DEF ChildAnswers, ChildAt
  <2>2. PICK f \in Frame : f = Last(child)
    BY <2>1, Unstacked DEF Typed
  <2>3. child' \in Stack
    BY <1>13, <2>1, Unstacked DEF Typed, ChildAnswers
  <2>4. f.n \in 0 .. Ack
    BY DEF Frame
  <2>5. up' \in Pipes
    BY <1>13, <2>2, <2>4, Replied, Piped DEF ChildAnswers, Typed
  <2> QED BY <1>13, <2>3, <2>5 DEF ChildAnswers, Typed, hostvars
<1>14. CASE ChildReadEnds
  BY <1>14, Unstacked DEF ChildReadEnds, ChildAt, Typed, hostvars
<1>15. CASE FeedbackReturns
  <2>1. child' \in Stack /\ reply' \in 0 .. Ack
    BY <1>15, <1>n, Unstacked DEF FeedbackReturns, ChildAt, Typed
  <2>2. alive' \in BOOLEAN
    BY <1>15 DEF FeedbackReturns
  <2> QED BY <1>15, <2>1, <2>2 DEF FeedbackReturns, Typed, hostvars
<1>16. ASSUME NEW kind \in {"feedback", "ping"}, NEW n \in 0 .. Ack, NEW b \in 0 .. MaxBrowsers,
              Feedback(kind, n, b)
       PROVE  Typed'
  <2>1. sent' \in 0 .. MaxMessages
    BY <1>16, Numbered DEF Feedback, Typed
  <2>2. [kind |-> kind, n |-> n, b |-> b] \in Message
    BY <1>16 DEF Message
  <2>3. up' \in Pipes
    BY <1>16, <2>2, Piped DEF Feedback, Typed
  <2>4. child' \in Stack
    BY <1>16, Framed, Stacked DEF Feedback, Typed
  <2> QED BY <1>16, <1>n, <2>1, <2>3, <2>4 DEF Feedback, Typed, hostvars
<1>17. CASE FeedbackOfScript
  <2>1. child # <<>> /\ Feedback("feedback", sent + 1, Last(child).b)
    BY <1>17 DEF FeedbackOfScript, ChildAt
  <2>2. Last(child) \in Frame
    BY <2>1, Unstacked DEF Typed
  <2>3. Last(child).b \in 0 .. MaxBrowsers
    BY <2>2 DEF Frame
  <2>4. sent + 1 \in 0 .. Ack
    BY <2>1, Numbered DEF Feedback, Typed
  <2> QED BY <1>16, <2>1, <2>3, <2>4
<1>18. ASSUME NEW b \in Browsers, FeedbackOfEvent(b) PROVE Typed'
  <2>1. b \in 0 .. MaxBrowsers
    BY BrowserRpcAssumption DEF Browsers
  <2>2. Feedback("feedback", sent + 1, b)
    BY <1>18 DEF FeedbackOfEvent
  <2>3. sent + 1 \in 0 .. Ack
    BY <2>2, Numbered DEF Feedback, Typed
  <2> QED BY <1>16, <2>1, <2>2, <2>3
<1>19. CASE CheckController
  <2>1. Ack \in 0 .. Ack
    BY BrowserRpcAssumption DEF Ack
  <2> QED BY <1>16, <1>19, <1>n, <2>1 DEF CheckController
<1>20. CASE Crash
  BY <1>20, <1>n, Piped, EmptyStack DEF Crash, Typed, hostvars
<1>21. CASE UNCHANGED vars
  BY <1>21 DEF vars, hostvars, childvars, Typed
<1> QED
  BY <1>1, <1>2, <1>3, <1>4, <1>5, <1>6, <1>7, <1>8, <1>9, <1>10, <1>11, <1>12, <1>13, <1>14,
     <1>15, <1>17, <1>18, <1>19, <1>20, <1>21
  DEF Next, HostWorks, HostCalls, ChildWorks, ChildCalls

LEMMA InitTyped == Init => Typed
<1>1. <<>> \in Pipes /\ <<>> \in Stack
  BY Piped, EmptyStack
<1>2. 0 \in 0 .. MaxMessages /\ 0 \in 0 .. MaxBrowsers /\ 0 \in 0 .. MaxStarts
      /\ None \in 0 .. Ack
  BY BrowserRpcAssumption DEF None, Ack
<1> QED BY <1>1, <1>2 DEF Init, Typed

-----------------------------------------------------------------------------
(* The inductive invariant.  Below the call under way, if there is one, the  *)
(* stacks of both sides are linked; what is above them, and what is in the   *)
(* pipes, is one of six phases of that call.  The child's part of a phase is *)
(* that of a child that lives.                                               *)
Polls(hb, w) == host = Append(hb, w) \/ \E r \in Reads : host = Append(Append(hb, w), r)
OnTop(cb) == child = cb \/ \E r \in Reads : child = Append(cb, r)
Quiet == up = <<>> /\ up_buffer = <<>>
Calm == down = <<>> /\ down_buffer = <<>> /\ reply = None /\ pages = elements
NewPages(m) == CASE m.kind = "new" -> pages \cup {m.b}
                 [] m.kind = "close" -> pages \ {m.b}
                 [] OTHER -> pages

Rests(hb, cb) == host = hb /\ Quiet /\ (alive => OnTop(cb) /\ Calm)
Sends(hb, cb, w, m) ==
  /\ host = Append(hb, w) /\ Quiet /\ m.kind # "reply" /\ m.n = w.n
  /\ alive => /\ NewPages(m) = elements /\ reply = None
              /\ \/ down = <<m>> /\ down_buffer = <<>> /\ OnTop(cb)
                 \/ down = <<>> /\ down_buffer = <<m>> /\ \E r \in Reads : child = Append(cb, r)
IsServed(hb, cb, w, cr, cs) ==
  /\ Polls(hb, w) /\ Quiet /\ cs.n = w.n
  /\ alive => child = Append(Append(cb, cr), cs) /\ Calm
CallsBack(hb, cb, w, cr, cs, cw, m) ==
  /\ Polls(hb, w) /\ cs.n = w.n /\ m.kind = "feedback" /\ m.n = cw.n /\ m.b \in elements
  /\ \/ up = <<m>> /\ up_buffer = <<>>
     \/ up = <<>> /\ up_buffer = <<m>> /\ host # Append(hb, w)
  /\ alive => child = Three(cb, cr, cs, cw) /\ Calm
IsCalledBack(hb, cb, w, cr, cs, cw) ==
  /\ Polls(hb, w) /\ Quiet /\ cs.n = w.n
  /\ alive => /\ OnTop(Three(cb, cr, cs, cw)) /\ pages = elements
              /\ \/ down = <<Reply(cw.n)>> /\ down_buffer = <<>> /\ reply = None
                 \/ /\ down = <<>> /\ down_buffer = <<Reply(cw.n)>> /\ reply = None
                    /\ child # Three(cb, cr, cs, cw)
                 \/ down = <<>> /\ down_buffer = <<>> /\ reply = cw.n
IsAnswered(hb, cb, w) ==
  /\ \/ Polls(hb, w) /\ up = <<Reply(w.n)>> /\ up_buffer = <<>>
     \/ Polls(hb, w) /\ host # Append(hb, w) /\ up = <<>> /\ up_buffer = <<Reply(w.n)>>
     \/ /\ \E f \in Loops : f.got = w.n /\ host = Append(Append(hb, w), f)
        /\ Quiet
  /\ alive => OnTop(cb) /\ Calm

Phase(hb, cb) ==
  \/ Rests(hb, cb)
  \/ \E w \in Waits :
       \/ \E m \in Message : Sends(hb, cb, w, m)
       \/ IsAnswered(hb, cb, w)
       \/ \E cr \in Reads, cs \in Serves :
            \/ IsServed(hb, cb, w, cr, cs)
            \/ \E cw \in Waits : \/ IsCalledBack(hb, cb, w, cr, cs, cw)
                                 \/ \E m \in Message : CallsBack(hb, cb, w, cr, cs, cw, m)
Normal == running /\ \E hb, cb \in Stack : Linked(hb, cb) /\ Phase(hb, cb)

(* The child was stopped under a command of the host, which is to give up.   *)
Stopped == /\ ~running
           /\ host = <<>> \/ \E hb, cb \in Stack, w \in Waits : Linked(hb, cb) /\ Polls(hb, w)

(* A command got no reply: the outermost one will not get one either, which  *)
(* stops the child.  Until then anything may be in the pipes.                *)
Off == host = <<>> /\ ~running
Deep(hb) == \E b \in Stack, w \in Waits, r \in Loops, s \in Serves :
              Serving(b) /\ b # <<>> /\ hb = Three(b, w, r, s)
Doomed ==
  \/ /\ host # <<>> /\ Serving(host) /\ (up_buffer = <<>> \/ Deep(host))
  \/ \E hb \in Stack, w \in Waits :
       /\ hb # <<>> /\ Serving(hb) /\ host = Append(hb, w) /\ (up_buffer = <<>> \/ Deep(hb))
  \/ \E hb \in Stack, w \in Waits, f \in Loops :
       hb # <<>> /\ Serving(hb) /\ host = Append(Append(hb, w), f)
  \/ \E w \in Waits, r \in Reads : host = Append(Append(<<>>, w), r) /\ up_buffer = <<>>

Empty == /\ ~alive /\ elements = {} /\ pages = {} /\ reply = None /\ child = <<>>
         /\ down = <<>> /\ up = <<>> /\ up_buffer = <<>> /\ down_buffer = <<>>
Ordered == (forced => Off \/ Doomed) /\ (~forced => Stopped \/ Normal)
BInv == Typed /\ (~running => Empty) /\ Ordered

LEMMA Ends == ASSUME StopChild PROVE ~running' /\ Empty'
BY DEF StopChild, Empty

LEMMA StillEmpty ==
  ASSUME ~running => Empty, [Next]_vars
  PROVE  (~running => Empty)'
<1>1. CASE StopChild
  BY <1>1, Ends
<1>2. CASE running /\ ~StopChild
  <2>1. SUFFICES ASSUME [Next]_vars, running, ~StopChild PROVE running'
    BY <1>2
  <2> QED
    BY <2>1 DEF Next, HostWorks, HostCalls, ChildWorks, ChildCalls, ReadUpPipe, ReadFails, TakeUp,
      HostAnswers, Write, ReadEnds, NoReply, GiveUp, TimesOut, StartChild, NewBrowser, CallBrowser,
      CloseBrowser, SendCommand, PingTimerCallback, OnDownFDReady, TakeDown, ChildAnswers,
      ChildReadEnds, FeedbackReturns, FeedbackOfScript, FeedbackOfEvent, CheckController, Feedback,
      Crash, Unstopped, process, hostvars, vars
<1>3. CASE ~running /\ ~StopChild
  <2>1. SUFFICES ASSUME [Next]_vars, ~running, Empty, ~StopChild, ~running' PROVE Empty'
    BY <1>3
  <2>2. up_buffer = <<>> /\ ~alive
    BY <2>1 DEF Empty
  <2>3. ~ChildWorks /\ ~ChildCalls /\ ~Crash
    BY <2>2 DEF ChildWorks, ChildCalls, OnDownFDReady, MainLoopRuns, TakeDown, ChildAt,
      ChildAnswers, ChildReadEnds, FeedbackReturns, FeedbackOfScript, FeedbackOfEvent,
      SourceFires, CheckController, Crash
  <2>4. ~HostCalls
    BY <2>1 DEF HostCalls, StartChild, NewBrowser, CallBrowser, CloseBrowser
  <2>5. (HostAnswers \/ ReadEnds \/ GiveUp \/ UNCHANGED vars)
    BY <2>1, <2>2, <2>3, <2>4 DEF Next, HostWorks, ReadUpPipe, MayRead, ReadFails, TakeUp,
      TimesOut, PingTimerCallback
  <2>6. UNCHANGED <<running, alive, up_buffer, down, up, childvars, elements>>
    <3>1. CASE HostAnswers
      BY <2>1, <3>1 DEF HostAnswers, Write, Unstopped
    <3>2. CASE ReadEnds
      BY <2>1, <3>2 DEF ReadEnds, NoReply, Unstopped
    <3>3. CASE GiveUp
      BY <2>1, <3>3 DEF GiveUp, NoReply, Unstopped
    <3>4. CASE UNCHANGED vars
      BY <3>4 DEF vars, hostvars
    <3> QED BY <2>5, <3>1, <3>2, <3>3, <3>4
  <2> QED BY <2>1, <2>6 DEF Empty, childvars
<1> QED BY <1>1, <1>2, <1>3

-----------------------------------------------------------------------------
(* Tops of stacks. *)
LEMMA Polling ==
  ASSUME NEW hb \in Stack, NEW w \in Waits, Polls(hb, w)
  PROVE  /\ host # <<>> /\ ~HostAt("serve")
         /\ HostAt("wait") => host = Append(hb, w) /\ Front(host) = hb
         /\ HostAt("read") => /\ host # Append(hb, w) /\ Front(host) = Append(hb, w)
                              /\ Front(Front(host)) = hb /\ Last(host).got = None
                              /\ Front(host) # <<>>
<1>1. Append(hb, w) \in Stack /\ Append(hb, w) # <<>> /\ Last(Append(hb, w)) = w
      /\ Front(Append(hb, w)) = hb /\ w.at = "wait"
  BY Stacked, Kinds
<1>2. CASE host = Append(hb, w)
  BY <1>1, <1>2 DEF HostAt
<1>3. ASSUME NEW r \in Reads, host = Append(Append(hb, w), r)
      PROVE  /\ host # <<>> /\ Last(host) = r /\ Front(host) = Append(hb, w)
             /\ r.at = "read" /\ r.got = None
  BY <1>1, <1>3, Stacked, Kinds
<1>4. ASSUME NEW r \in Reads, host = Append(Append(hb, w), r)
      PROVE  /\ ~HostAt("serve") /\ ~HostAt("wait") /\ host # Append(hb, w)
  BY <1>1, <1>3, <1>4 DEF HostAt
<1> QED BY <1>1, <1>2, <1>3, <1>4 DEF Polls

LEMMA Reading ==
  ASSUME NEW hb \in Stack, NEW w \in Waits, NEW f \in Loops,
         host = Append(Append(hb, w), f)
  PROVE  /\ host # <<>> /\ Last(host) = f /\ Front(host) = Append(hb, w)
         /\ Front(Front(host)) = hb /\ Front(host) # <<>> /\ host \in Stack
         /\ ~HostAt("serve") /\ ~HostAt("wait") /\ HostAt("read")
<1>1. Append(hb, w) \in Stack /\ Append(hb, w) # <<>> /\ Front(Append(hb, w)) = hb
  BY Stacked, Kinds
<1>2. /\ host # <<>> /\ Last(host) = f /\ Front(host) = Append(hb, w) /\ host \in Stack
      /\ f.at = "read"
  BY <1>1, Stacked, Kinds
<1> QED BY <1>1, <1>2 DEF HostAt

LEMMA PollingChild ==
  ASSUME NEW cb \in Stack, OnTop(cb)
  PROVE  /\ ChildAt("read") => \/ child # cb /\ Front(child) = cb
                               \/ child = cb /\ cb # <<>> /\ Last(cb).at = "read"
         /\ ~ChildAt("read") /\ alive => child = cb
         /\ child # cb => ~ChildAt("wait") /\ ~ChildAt("serve") /\ child # <<>>
<1>1. CASE child = cb
  BY <1>1 DEF ChildAt
<1>2. ASSUME NEW r \in Reads, child = Append(cb, r)
      PROVE  /\ child # <<>> /\ Last(child) = r /\ Front(child) = cb /\ r.at = "read"
  BY <1>2, Stacked, Kinds
<1> QED BY <1>1, <1>2 DEF OnTop, ChildAt

-----------------------------------------------------------------------------
LEMMA WaitsFor ==
  ASSUME Typed, Typed', HostMayCall, sent' = sent + 1, NEW b \in 0 .. MaxBrowsers
  PROVE  \E w \in Waits : w = [At("wait", sent', b) EXCEPT !.of = starts'] /\ w.n = sent'
<1>1. sent' \in 0 .. Ack /\ sent' # None
  BY Numbered DEF Typed, HostMayCall
<1>2. starts' \in 0 .. MaxStarts /\ starts \in 0 .. MaxStarts
  BY DEF Typed
<1>3. PICK w : w = [At("wait", sent', b) EXCEPT !.of = starts']
  OBVIOUS
<1>4. w \in Frame /\ w.at = "wait" /\ w.n = sent' /\ w.got = None
  BY <1>1, <1>2, <1>3, Framed
<1>5. w \in Waits
  BY <1>1, <1>4 DEF Waits
<1> QED BY <1>3, <1>4, <1>5

(* A child is started for the main loop. *)
LEMMA StartsAnew ==
  ASSUME Typed, Typed', Empty, host = <<>>, StartChild
  PROVE  Ordered'
<1>1. sent' = sent + 1 /\ sent' \in 0 .. Ack /\ sent' # None
  BY Numbered DEF Typed, HostMayCall, StartChild
<1>2. seq' \in 0 .. MaxBrowsers /\ starts' \in 0 .. MaxStarts
  BY DEF Typed
<1>3. PICK m \in Message : m = [kind |-> "new", n |-> sent', b |-> seq']
  BY <1>1, <1>2 DEF Message
<1>4. PICK w \in Waits : w = [At("wait", sent', seq') EXCEPT !.of = starts'] /\ w.n = sent'
  BY <1>2, WaitsFor DEF StartChild
<1>5. m.kind # "reply" /\ m.n = w.n /\ m.kind = "new" /\ m.b = seq'
  BY <1>3, <1>4
<1>6. ~forced'
  BY ServingNone, ServingWaits DEF StartChild
<1>7. elements' = {seq'} /\ pages' = {} /\ down' = <<m>> /\ host' = Append(<<>>, w) /\ running'
  BY <1>3, <1>4 DEF StartChild, Empty, childvars
<1>8. /\ up' = <<>> /\ up_buffer' = <<>> /\ down_buffer' = <<>> /\ child' = <<>> /\ reply' = None
  BY DEF StartChild, Empty, childvars
<1>9. Sends(<<>>, <<>>, w, m)'
  BY <1>5, <1>7, <1>8 DEF Sends, Quiet, NewPages, OnTop
<1>10. Phase(<<>>, <<>>)'
  BY <1>9 DEF Phase
<1>11. Normal'
  BY <1>7, <1>10, EmptyStack, LinkedNone DEF Normal
<1> QED BY <1>6, <1>11 DEF Ordered

(* What a command leaves that gets no reply. *)
LEMMA GivesUp ==
  ASSUME NEW hb \in Stack, Serving(hb), NoReply(hb), ~running => Empty,
         up_buffer = <<>> \/ Deep(hb)
  PROVE  forced' /\ (Off \/ Doomed)'
<1>1. forced' /\ host' = hb
  BY DEF NoReply
<1>2. CASE hb = <<>>
  <2>1. Waiting(hb) = {}
    BY <1>2, ServingWaits
  <2>2. ~running'
    BY <2>1, Ends DEF NoReply, Unstopped
  <2> QED BY <1>1, <1>2, <2>2 DEF Off
<1>3. CASE hb # <<>>
  <2>1. up_buffer' = up_buffer
    BY <1>3, ServingWaits DEF NoReply, Unstopped
  <2>2. host' # <<>> /\ Serving(host') /\ (up_buffer' = <<>> \/ Deep(host'))
    BY <1>1, <1>3, <2>1
  <2> QED BY <1>1, <2>2 DEF Doomed
<1> QED BY <1>2, <1>3

LEMMA SameDoomed ==
  ASSUME Off \/ Doomed, forced, forced', host' = host,
         up_buffer' = up_buffer \/ up_buffer' = <<>>, running' = running \/ ~running'
  PROVE  Ordered'
<1>1. CASE Off
  BY <1>1 DEF Off, Ordered
<1>2. CASE Doomed
  <2>1. Doomed'
    BY <1>2 DEF Doomed, Deep
  <2> QED BY <2>1 DEF Ordered
<1> QED BY <1>1, <1>2

LEMMA ChildOfDoomed ==
  ASSUME Off \/ Doomed, forced, ChildWorks \/ ChildCalls \/ Crash \/ UNCHANGED vars
  PROVE  Ordered'
<1>1. UNCHANGED hostvars
  BY DEF ChildWorks, ChildCalls, OnDownFDReady, TakeDown, ChildAnswers, ChildReadEnds,
    FeedbackReturns, FeedbackOfScript, FeedbackOfEvent, CheckController, Feedback, Crash, vars
<1> QED BY <1>1, SameDoomed DEF hostvars

LEMMA DoomedTops ==
  ASSUME Doomed
  PROVE  /\ host # <<>>
         /\ HostAt("serve") => Serving(host) /\ (up_buffer = <<>> \/ Deep(host))
         /\ HostAt("wait") => \E hb \in Stack, w \in Waits :
                                /\ hb # <<>> /\ Serving(hb) /\ host = Append(hb, w)
                                /\ Front(host) = hb /\ (up_buffer = <<>> \/ Deep(hb))
         /\ HostAt("read") =>
              \E hb \in Stack, w \in Waits, f \in Loops :
                /\ host = Append(Append(hb, w), f) /\ Serving(hb)
                /\ hb = <<>> => f \in Reads /\ up_buffer = <<>>
<1>1. CASE host # <<>> /\ Serving(host) /\ (up_buffer = <<>> \/ Deep(host))
  BY <1>1, ServingTop DEF HostAt
<1>2. ASSUME NEW hb \in Stack, NEW w \in Waits,
             hb # <<>> /\ Serving(hb) /\ host = Append(hb, w) /\ (up_buffer = <<>> \/ Deep(hb))
      PROVE  host # <<>> /\ HostAt("wait") /\ ~HostAt("serve") /\ ~HostAt("read") /\ Front(host) = hb
  BY <1>2, Stacked, Kinds DEF HostAt
<1>3. ASSUME NEW hb \in Stack, NEW w \in Waits, NEW f \in Loops, host = Append(Append(hb, w), f)
      PROVE  host # <<>> /\ HostAt("read") /\ ~HostAt("serve") /\ ~HostAt("wait")
  BY <1>3, Reading
<1>4. CASE \E hb \in Stack, w \in Waits :
             hb # <<>> /\ Serving(hb) /\ host = Append(hb, w) /\ (up_buffer = <<>> \/ Deep(hb))
  BY <1>2, <1>4
<1>5. CASE \E hb \in Stack, w \in Waits, f \in Loops :
             hb # <<>> /\ Serving(hb) /\ host = Append(Append(hb, w), f)
  BY <1>3, <1>5
<1>6. CASE \E w \in Waits, r \in Reads : host = Append(Append(<<>>, w), r) /\ up_buffer = <<>>
  <2>1. PICK w \in Waits, r \in Reads : host = Append(Append(<<>>, w), r) /\ up_buffer = <<>>
    BY <1>6
  <2> QED BY <2>1, <1>3, EmptyStack, ServingNone, Kinds
<1> QED BY <1>1, <1>4, <1>5, <1>6 DEF Doomed

LEMMA DoomedReads ==
  ASSUME NEW hb \in Stack, NEW w \in Waits, NEW f \in Loops, Serving(hb),
         host' = Append(Append(hb, w), f), hb = <<>> => f \in Reads /\ up_buffer' = <<>>, forced'
  PROVE  Ordered'
<1>1. Doomed'
  <2>1. CASE hb = <<>>
    BY <2>1 DEF Doomed
  <2>2. CASE hb # <<>>
    BY <2>2 DEF Doomed
  <2> QED BY <2>1, <2>2
<1> QED BY <1>1 DEF Ordered

LEMMA DoomedCalls ==
  ASSUME Typed, Doomed, forced, HostMayCall, NEW w \in Waits, host' = Append(host, w),
         up_buffer' = up_buffer \/ up_buffer' = <<>>, forced' = (forced /\ Waiting(host) # {})
  PROVE  Ordered'
<1>1. host # <<>> /\ Serving(host) /\ (up_buffer = <<>> \/ Deep(host))
  BY DoomedTops DEF HostMayCall
<1>2. forced'
  BY <1>1, ServingWaits
<1>3. PICK hb \in Stack : hb = host
  BY DEF Typed
<1>4. hb # <<>> /\ Serving(hb) /\ host' = Append(hb, w) /\ (up_buffer' = <<>> \/ Deep(hb))
  BY <1>1, <1>3
<1>5. Doomed'
  BY <1>4 DEF Doomed
<1> QED BY <1>2, <1>5 DEF Ordered

LEMMA Written ==
  ASSUME NEW m, NEW els, Write(m, els)
  PROVE  /\ up_buffer' = up_buffer \/ up_buffer' = <<>>
         /\ running' = running \/ ~running'
BY DEF Write, StopChild, Unstopped

LEMMA HostCallIs ==
  ASSUME Typed, Typed', HostCalls
  PROVE  /\ HostMayCall
         /\ \/ StartChild
            \/ /\ running /\ starts' = starts
               /\ \/ seq' \in 0 .. MaxBrowsers /\ SendCommand("new", seq', elements \cup {seq'})
                  \/ \E b \in 0 .. MaxBrowsers : \/ SendCommand("call", b, elements)
                                                \/ SendCommand("close", b, elements \ {b})
<1>1. \A b \in Browsers : b \in 0 .. MaxBrowsers
  BY BrowserRpcAssumption DEF Browsers
<1>2. ASSUME NEW b \in Browsers, CallBrowser(b) \/ CloseBrowser(b)
      PROVE  /\ HostMayCall /\ running /\ starts' = starts
             /\ SendCommand("call", b, elements) \/ SendCommand("close", b, elements \ {b})
  BY <1>2 DEF CallBrowser, CloseBrowser
<1>3. CASE StartChild
  BY <1>3 DEF StartChild
<1>4. CASE NewBrowser
  BY <1>4 DEF NewBrowser, Typed
<1>5. CASE \E b \in Browsers : CallBrowser(b) \/ CloseBrowser(b)
  BY <1>1, <1>2, <1>5
<1> QED BY <1>3, <1>4, <1>5 DEF HostCalls

LEMMA DoomedStep ==
  ASSUME Typed, Typed', ~running => Empty, forced, Doomed, [Next]_vars
  PROVE  Ordered'
<1>1. host # <<>>
  BY DoomedTops
<1>2. ASSUME NEW j, ReadUpPipe(j) PROVE Ordered'
  <2>1. PICK hb \in Stack, w \in Waits : hb # <<>> /\ Serving(hb) /\ host = Append(hb, w)
    BY <1>1, <1>2, DoomedTops DEF ReadUpPipe, MayRead
  <2>2. At("read", None, None) \in Loops
    <3>1. None \in 0 .. Ack /\ None \in 0 .. MaxBrowsers
      BY BrowserRpcAssumption DEF None, Ack
    <3> QED BY <3>1, Framed DEF Loops, Typed
  <2>3. host' = Append(Append(hb, w), At("read", None, None)) /\ forced'
    BY <1>2, <2>1 DEF ReadUpPipe
  <2> QED BY <2>1, <2>2, <2>3, DoomedReads
<1>3. CASE ReadFails
  BY <1>3, SameDoomed DEF ReadFails, StopChild
<1>4. CASE TakeUp
  <2>1. HostAt("read") /\ up_buffer # <<>> /\ forced'
    BY <1>4 DEF TakeUp
  <2>2. PICK hb \in Stack, w \in Waits, f \in Loops :
          host = Append(Append(hb, w), f) /\ Serving(hb) /\ hb # <<>>
    BY <2>1, DoomedTops
  <2>3. PICK m \in Message : m = Head(up_buffer)
    BY <2>1, Piped DEF Typed
  <2>4. Front(host) = Append(hb, w) /\ Last(host) = f
    BY <2>2, Reading
  <2>5. CASE host' = host
    BY <2>1, <2>2, <2>5, DoomedReads
  <2>6. CASE host' = Append(Front(host), [Last(host) EXCEPT !.got = m.n])
    <3>1. m.n \in 0 .. Ack
      BY DEF Message
    <3>2. [f EXCEPT !.got = m.n] \in Loops
      BY <3>1, Got, Kinds DEF Loops
    <3>3. host' = Append(Append(hb, w), [f EXCEPT !.got = m.n])
      BY <2>4, <2>6
    <3> QED BY <2>1, <2>2, <3>2, <3>3, DoomedReads
  <2>7. CASE host' = Append(host, At("serve", m.n, m.b))
    <3>1. m.n \in 0 .. Ack /\ m.b \in 0 .. MaxBrowsers
      BY DEF Message
    <3>2. PICK s \in Serves : s = At("serve", m.n, m.b)
      BY <3>1, Framed DEF Serves, Typed
    <3>3. PICK h : h = Three(hb, w, f, s)
      OBVIOUS
    <3>4. host' = h
      BY <2>2, <2>7, <3>2, <3>3 DEF Three
    <3>5. Serving(h) /\ Deep(h)
      BY <2>2, <3>3, ServingDeeper DEF Deep
    <3>6. h # <<>>
      BY <3>3, ThreeStacked, Kinds
    <3>7. Doomed'
      BY <3>4, <3>5, <3>6 DEF Doomed
    <3> QED BY <2>1, <3>7 DEF Ordered
  <2> QED BY <1>4, <2>3, <2>5, <2>6, <2>7 DEF TakeUp
<1>5. CASE HostAnswers
  <2>1. HostAt("serve") /\ host' = Front(host) /\ Write(Reply(Last(host).n), elements) /\ forced'
    BY <1>5 DEF HostAnswers
  <2>2. Serving(host) /\ (up_buffer = <<>> \/ Deep(host))
    BY <2>1, DoomedTops
  <2>3. PICK hb \in Stack, w \in Waits, r \in Loops, s \in Serves :
          Serving(hb) /\ (hb = <<>> => r \in Reads) /\ host = Three(hb, w, r, s)
    BY <1>1, <2>2, ServingPops
  <2>4. Front(host) = Append(Append(hb, w), r)
    BY <2>3, ThreeStacked, Kinds
  <2>5. ASSUME Deep(host) PROVE hb # <<>>
    <3>1. PICK b \in Stack, v \in Waits, q \in Loops, t \in Serves :
            b # <<>> /\ host = Three(b, v, q, t)
      BY <2>5 DEF Deep
    <3>2. v \in Frame /\ q \in Frame /\ t \in Frame /\ w \in Frame /\ r \in Frame
      BY Kinds
    <3>3. PICK x \in Stack, y \in Stack : x = Append(hb, w) /\ y = Append(b, v)
      BY <3>2, Stacked
    <3>4. Append(x, r) = Append(y, q)
      <4>1. Front(Append(Append(y, q), t)) = Append(y, q)
        <5>1. Append(y, q) \in Stack
          BY <3>2, Stacked
        <5> QED BY <3>2, <5>1, Stacked
      <4> QED BY <2>4, <3>1, <3>3, <4>1 DEF Three
    <3>5. x = y
      BY <3>2, <3>4, SameBelow
    <3>6. hb = b
      BY <3>2, <3>3, <3>5, SameBelow
    <3> QED BY <3>1, <3>6
  <2>6. hb = <<>> => r \in Reads /\ up_buffer' = <<>>
    BY <2>1, <2>2, <2>3, <2>5, Written
  <2> QED BY <2>1, <2>3, <2>4, <2>6, DoomedReads
<1>6. CASE ReadEnds
  <2>1. HostAt("read") /\ up_buffer = <<>>
    BY <1>6 DEF ReadEnds
  <2>2. PICK hb \in Stack, w \in Waits, f \in Loops :
          host = Append(Append(hb, w), f) /\ Serving(hb) /\ (hb = <<>> => f \in Reads)
    BY <2>1, DoomedTops
  <2>3. Front(host) # <<>> /\ Front(Front(host)) = hb /\ Last(host) = f
    BY <2>2, Reading
  <2>4. \/ f.got # None /\ host' = hb /\ UNCHANGED <<forced, elements>> /\ Unstopped
        \/ NoReply(hb)
    BY <1>6, <2>3 DEF ReadEnds
  <2>5. CASE f.got # None /\ host' = hb /\ UNCHANGED <<forced, elements>> /\ Unstopped
    <3>1. hb # <<>>
      BY <2>2, <2>5, Kinds
    <3>2. up_buffer' = <<>> /\ forced'
      BY <2>1, <2>5 DEF Unstopped
    <3>3. Doomed'
      BY <2>2, <2>5, <3>1, <3>2 DEF Doomed
    <3> QED BY <3>2, <3>3 DEF Ordered
  <2>6. CASE NoReply(hb)
    BY <2>1, <2>2, <2>6, GivesUp DEF Ordered
  <2> QED BY <2>4, <2>5, <2>6
<1>7. CASE GiveUp \/ TimesOut
  <2>1. HostAt("wait") /\ NoReply(Front(host))
    BY <1>7 DEF GiveUp, TimesOut
  <2>2. PICK hb \in Stack : Serving(hb) /\ Front(host) = hb /\ (up_buffer = <<>> \/ Deep(hb))
    BY <2>1, DoomedTops
  <2> QED BY <2>1, <2>2, GivesUp DEF Ordered
<1>8. CASE HostCalls
  <2>1. HostMayCall
    BY <1>8, HostCallIs
  <2>2. ASSUME NEW kind, NEW b \in 0 .. MaxBrowsers, NEW els, SendCommand(kind, b, els)
        PROVE  Ordered'
    <3>1. PICK w \in Waits : w = [At("wait", sent', b) EXCEPT !.of = starts']
      BY <2>1, <2>2, WaitsFor DEF SendCommand
    <3>2. host' = Append(host, w) /\ forced' = (forced /\ Waiting(host) # {})
      BY <2>2, <3>1 DEF SendCommand
    <3>3. up_buffer' = up_buffer \/ up_buffer' = <<>>
      BY <2>2, Written DEF SendCommand
    <3> QED BY <2>1, <3>2, <3>3, DoomedCalls
  <2>3. CASE StartChild
    <3>1. PICK w \in Waits : w = [At("wait", sent', seq') EXCEPT !.of = starts']
      BY <2>1, <2>3, WaitsFor DEF StartChild, Typed
    <3>2. host' = Append(host, w) /\ forced' = (forced /\ Waiting(host) # {})
          /\ up_buffer' = up_buffer
      BY <2>3, <3>1 DEF StartChild
    <3> QED BY <2>1, <3>2, DoomedCalls
  <2> QED BY <1>8, <2>2, <2>3, HostCallIs
<1>9. CASE PingTimerCallback
  BY <1>1, <1>9 DEF PingTimerCallback
<1> QED BY <1>2, <1>3, <1>4, <1>5, <1>6, <1>7, <1>8, <1>9, ChildOfDoomed DEF Next, HostWorks

LEMMA DeadChild ==
  ASSUME Empty
  PROVE  ~ChildWorks /\ ~ChildCalls /\ ~Crash
BY DEF Empty, ChildWorks, ChildCalls, OnDownFDReady, MainLoopRuns, TakeDown, ChildAt,
  ChildAnswers, ChildReadEnds, FeedbackReturns, FeedbackOfScript, FeedbackOfEvent, SourceFires,
  CheckController, Crash

LEMMA OffStep ==
  ASSUME Typed, Typed', Empty, ~running, host = <<>>, [Next]_vars, forced \/ ~forced
  PROVE  Ordered' \/ UNCHANGED vars
<1>1. ~HostWorks /\ ~TimesOut /\ ~PingTimerCallback
  BY DEF HostWorks, ReadUpPipe, MayRead, ReadFails, TakeUp, HostAnswers, ReadEnds, GiveUp,
    TimesOut, HostAt, PingTimerCallback
<1>2. HostCalls => StartChild
  BY HostCallIs
<1> QED BY <1>1, <1>2, DeadChild, StartsAnew DEF Next

LEMMA StoppedStep ==
  ASSUME Typed, Typed', Empty, ~forced, Stopped, host # <<>>, [Next]_vars
  PROVE  Ordered'
<1>1. PICK hb \in Stack, cb \in Stack, w \in Waits :
        Linked(hb, cb) /\ Serving(hb) /\ Polls(hb, w)
  BY LinkedServes DEF Stopped
<1>2. ~HostAt("serve") /\ ~running /\ up_buffer = <<>>
  BY <1>1, Polling DEF Stopped, Empty
<1>3. ~HostMayCall
  BY <1>2 DEF HostMayCall
<1>4. ReadEnds \/ GiveUp \/ UNCHANGED vars
  BY <1>2, <1>3, DeadChild, HostCallIs DEF Next, HostWorks, ReadUpPipe, MayRead, ReadFails, TakeUp,
    HostAnswers, TimesOut, PingTimerCallback
<1>5. CASE ReadEnds
  <2>1. HostAt("read")
    BY <1>5 DEF ReadEnds
  <2>2. /\ Front(host) = Append(hb, w) /\ Front(Front(host)) = hb /\ Last(host).got = None
        /\ Front(host) # <<>>
    BY <1>1, <2>1, Polling
  <2>3. \/ host' = Append(hb, w) /\ forced' = forced /\ Unstopped
        \/ NoReply(hb)
    BY <1>5, <2>2 DEF ReadEnds
  <2>4. CASE host' = Append(hb, w) /\ forced' = forced /\ Unstopped
    <3>1. Stopped'
      BY <1>1, <1>2, <2>4 DEF Stopped, Polls, Unstopped
    <3> QED BY <2>4, <3>1 DEF Ordered
  <2>5. CASE NoReply(hb)
    BY <1>1, <1>2, <2>5, GivesUp DEF Ordered
  <2> QED BY <2>3, <2>4, <2>5
<1>6. CASE GiveUp
  <2>1. HostAt("wait") /\ NoReply(Front(host))
    BY <1>6 DEF GiveUp
  <2>2. NoReply(hb)
    BY <1>1, <2>1, Polling
  <2> QED BY <1>1, <1>2, <2>2, GivesUp DEF Ordered
<1>7. CASE UNCHANGED vars
  BY <1>7 DEF vars, hostvars, Ordered, Stopped, Polls
<1> QED BY <1>4, <1>5, <1>6, <1>7

-----------------------------------------------------------------------------
(* The phases of a call. *)
LEMMA Again ==
  ASSUME NEW hb \in Stack, NEW cb \in Stack, Linked(hb, cb), Phase(hb, cb)', running', ~forced'
  PROVE  Ordered'
BY DEF Ordered, Normal

LEMMA PhaseOfHost ==
  ASSUME NEW hb \in Stack, NEW cb \in Stack, Phase(hb, cb)
  PROVE  \/ Rests(hb, cb)
         \/ \E w \in Waits : host = Append(hb, w)
         \/ \E w \in Waits, f \in Loops :
              /\ host = Append(Append(hb, w), f)
              /\ f.got = None \/ (f.got = w.n /\ up_buffer = <<>> /\ IsAnswered(hb, cb, w))
<1>1. ASSUME NEW w \in Waits, Polls(hb, w)
      PROVE  \/ host = Append(hb, w)
             \/ \E f \in Loops : host = Append(Append(hb, w), f) /\ f.got = None
  BY <1>1, Kinds DEF Polls
<1>2. ASSUME NEW w \in Waits, IsAnswered(hb, cb, w)
      PROVE  \/ Polls(hb, w)
             \/ \E f \in Loops : f.got = w.n /\ host = Append(Append(hb, w), f) /\ up_buffer = <<>>
  BY <1>2 DEF IsAnswered, Quiet
<1>3. ASSUME NEW w \in Waits,
             \/ \E m \in Message : Sends(hb, cb, w, m)
             \/ \E cr \in Reads, cs \in Serves :
                  \/ IsServed(hb, cb, w, cr, cs)
                  \/ \E cw \in Waits : \/ IsCalledBack(hb, cb, w, cr, cs, cw)
                                       \/ \E m \in Message : CallsBack(hb, cb, w, cr, cs, cw, m)
      PROVE  Polls(hb, w)
  BY <1>3 DEF Polls, Sends, IsServed, IsCalledBack, CallsBack
<1> QED BY <1>1, <1>2, <1>3 DEF Phase

LEMMA OfHost ==
  ASSUME NEW hb \in Stack, NEW cb \in Stack, Linked(hb, cb), Phase(hb, cb)
  PROVE  /\ HostAt("serve") \/ host = <<>> => Rests(hb, cb)
         /\ HostAt("wait") => \E w \in Waits : host = Append(hb, w) /\ Front(host) = hb
         /\ HostAt("read") =>
              \E w \in Waits, f \in Loops :
                /\ host = Append(Append(hb, w), f) /\ Front(host) = Append(hb, w)
                /\ Front(Front(host)) = hb /\ Front(host) # <<>> /\ Last(host) = f
                /\ f.got = None \/ (f.got = w.n /\ up_buffer = <<>> /\ IsAnswered(hb, cb, w))
<1>1. ASSUME Rests(hb, cb) PROVE ~HostAt("wait") /\ ~HostAt("read")
  BY <1>1, LinkedTops DEF Rests, HostAt
<1>2. ASSUME NEW w \in Waits, host = Append(hb, w)
      PROVE  host # <<>> /\ Front(host) = hb /\ HostAt("wait") /\ ~HostAt("read") /\ ~HostAt("serve")
  BY <1>2, Stacked, Kinds DEF HostAt
<1>3. ASSUME NEW w \in Waits, NEW f \in Loops, host = Append(Append(hb, w), f)
      PROVE  /\ host # <<>> /\ Last(host) = f /\ Front(host) = Append(hb, w)
             /\ Front(Front(host)) = hb /\ Front(host) # <<>>
             /\ ~HostAt("serve") /\ ~HostAt("wait")
  BY <1>3, Reading
<1>4. CASE Rests(hb, cb)
  BY <1>1, <1>4
<1>5. CASE \E w \in Waits : host = Append(hb, w)
  BY <1>2, <1>5
<1>6. CASE \E w \in Waits, f \in Loops :
             /\ host = Append(Append(hb, w), f)
             /\ f.got = None \/ (f.got = w.n /\ up_buffer = <<>> /\ IsAnswered(hb, cb, w))
  BY <1>3, <1>6
<1> QED BY <1>4, <1>5, <1>6, PhaseOfHost

(* What is in the pipe of the host. *)
LEMMA OfUp ==
  ASSUME NEW hb \in Stack, NEW cb \in Stack, Phase(hb, cb), ~Quiet
  PROVE  \E w \in Waits :
           \/ IsAnswered(hb, cb, w)
           \/ \E cr \in Reads, cs \in Serves, cw \in Waits, m \in Message :
                CallsBack(hb, cb, w, cr, cs, cw, m)
BY DEF Phase, Rests, Sends, IsServed, IsCalledBack

LEMMA HostReadsOn ==
  ASSUME Typed, NEW hb \in Stack, NEW cb \in Stack, Linked(hb, cb), Phase(hb, cb), running, ~forced,
         NEW j, ReadUpPipe(j)
  PROVE  Ordered'
<1>1. /\ j \in 1 .. Len(up) /\ up_buffer' = up_buffer \o SubSeq(up, 1, j)
      /\ up' = SubSeq(up, j + 1, Len(up)) /\ host' = Append(host, At("read", None, None))
      /\ UNCHANGED <<down, elements, forced, running, alive, childvars>>
      /\ host = <<>> \/ HostAt("wait")
  BY DEF ReadUpPipe, MayRead, process
<1>2. up # <<>>
  BY <1>1, EmptySeq
<1>3. PICK v \in Waits : host = Append(hb, v)
  BY <1>1, <1>2, OfHost DEF Rests, Quiet
<1>4. PICK r \in Reads : r = At("read", None, None)
  <2>1. None \in 0 .. Ack /\ None \in 0 .. MaxBrowsers
    BY BrowserRpcAssumption DEF None, Ack
  <2> QED BY <2>1, Framed DEF Reads, Loops, Typed
<1>5. ASSUME NEW w \in Waits, Polls(hb, w)
      PROVE  host = Append(hb, w) /\ (Polls(hb, w) /\ host # Append(hb, w))'
  <2>1. host = Append(hb, w)
    BY <1>1, <1>2, <1>3, <1>5, Polling, Stacked, Kinds DEF HostAt
  <2>2. host' = Append(Append(hb, w), r)
    BY <1>1, <1>4, <2>1
  <2>3. Append(Append(hb, w), r) # Append(hb, w)
    <3>1. PICK x \in Stack : x = Append(hb, w)
      BY Stacked, Kinds
    <3>2. Last(x) = w /\ Last(Append(x, r)) = r
      BY <3>1, Stacked, Kinds
    <3> QED BY <3>1, <3>2, Kinds
  <2> QED BY <2>1, <2>2, <2>3 DEF Polls
<1>6. ASSUME NEW m \in Message, up = <<m>>, up_buffer = <<>>
      PROVE  up' = <<>> /\ up_buffer' = <<m>>
  BY <1>1, <1>6, ReadOne
<1>7. CASE \E w \in Waits : IsAnswered(hb, cb, w)
  <2>1. PICK w \in Waits : IsAnswered(hb, cb, w)
    BY <1>7
  <2>2. PICK m \in Message : m = Reply(w.n)
    BY Kinds, Replied DEF Frame
  <2>3. Polls(hb, w) /\ up = <<m>> /\ up_buffer = <<>>
    BY <1>2, <2>1, <2>2 DEF IsAnswered, Quiet
  <2>4. up' = <<>> /\ up_buffer' = <<m>> /\ (Polls(hb, w) /\ host # Append(hb, w))'
    BY <1>5, <1>6, <2>3
  <2>5. (alive => OnTop(cb) /\ Calm)'
    BY <1>1, <2>1 DEF IsAnswered, OnTop, Calm, childvars
  <2>6. IsAnswered(hb, cb, w)'
    BY <2>2, <2>4, <2>5 DEF IsAnswered
  <2>7. Phase(hb, cb)'
    BY <2>6 DEF Phase
  <2> QED BY <1>1, <2>7, Again
<1>8. CASE \E w \in Waits, cr \in Reads, cs \in Serves, cw \in Waits, m \in Message :
             CallsBack(hb, cb, w, cr, cs, cw, m)
  <2>1. PICK w \in Waits, cr \in Reads, cs \in Serves, cw \in Waits, m \in Message :
          CallsBack(hb, cb, w, cr, cs, cw, m)
    BY <1>8
  <2>2. Polls(hb, w) /\ up = <<m>> /\ up_buffer = <<>>
    BY <1>2, <2>1 DEF CallsBack
  <2>3. up' = <<>> /\ up_buffer' = <<m>> /\ (Polls(hb, w) /\ host # Append(hb, w))'
    BY <1>5, <1>6, <2>2
  <2>4. CallsBack(hb, cb, w, cr, cs, cw, m)'
    BY <1>1, <2>1, <2>3 DEF CallsBack, Calm, childvars
  <2>5. Phase(hb, cb)'
    BY <2>4 DEF Phase
  <2> QED BY <1>1, <2>5, Again
<1> QED BY <1>2, <1>7, <1>8, OfUp DEF Quiet

LEMMA HostTakes ==
  ASSUME Typed, NEW hb \in Stack, NEW cb \in Stack, Linked(hb, cb), Phase(hb, cb), running, ~forced,
         TakeUp
  PROVE  Ordered'
<1>1. HostAt("read") /\ up_buffer # <<>> /\ UNCHANGED <<habit, sent, seq, forced, starts>>
  BY DEF TakeUp
<1>2. PICK v \in Waits, f \in Loops :
        /\ host = Append(Append(hb, v), f) /\ Front(host) = Append(hb, v) /\ Last(host) = f
        /\ f.got = None
  BY <1>1, OfHost
<1>3. ASSUME NEW w \in Waits, Polls(hb, w)
      PROVE  w = v
  <2>1. Front(host) = Append(hb, w)
    BY <1>1, <1>3, Polling
  <2>2. Last(Append(hb, w)) = w /\ Last(Append(hb, v)) = v
    BY Stacked, Kinds
  <2> QED BY <1>2, <2>1, <2>2
<1>4. CASE \E w \in Waits : IsAnswered(hb, cb, w)
  <2>1. PICK w \in Waits : IsAnswered(hb, cb, w)
    BY <1>4
  <2>2. PICK m \in Message : m = Reply(w.n) /\ m.kind = "reply" /\ m.n = w.n
    BY Kinds, Replied DEF Frame
  <2>3. Polls(hb, w) /\ up = <<>> /\ up_buffer = <<m>>
    BY <1>1, <2>1, <2>2 DEF IsAnswered, Quiet
  <2>4. Head(up_buffer) = m /\ Tail(up_buffer) = <<>>
    BY <2>3, One
  <2>5. /\ host' = Append(Front(host), [Last(host) EXCEPT !.got = m.n]) /\ up_buffer' = <<>>
        /\ UNCHANGED <<elements, running, alive, down, up, childvars>>
    BY <2>2, <2>4 DEF TakeUp
  <2>6. PICK g \in Loops : g = [f EXCEPT !.got = w.n] /\ g.got = w.n
    <3>1. w.n \in 0 .. Ack /\ f \in Frame /\ f.at = "read"
      BY Kinds DEF Frame
    <3>2. PICK g : g = [f EXCEPT !.got = w.n]
      OBVIOUS
    <3>3. g \in Frame /\ g.at = "read" /\ g.got = w.n
      BY <3>1, <3>2, Got
    <3> QED BY <3>2, <3>3 DEF Loops
  <2>7. host' = Append(Append(hb, w), g)
    BY <1>2, <1>3, <2>2, <2>3, <2>5, <2>6
  <2>8. (alive => OnTop(cb) /\ Calm)'
    BY <2>1, <2>5 DEF IsAnswered, OnTop, Calm, childvars
  <2>9. IsAnswered(hb, cb, w)'
    BY <2>3, <2>5, <2>6, <2>7, <2>8 DEF IsAnswered, Quiet
  <2>10. Phase(hb, cb)'
    BY <2>9 DEF Phase
  <2> QED BY <1>1, <2>5, <2>10, Again
<1>5. CASE \E w \in Waits, cr \in Reads, cs \in Serves, cw \in Waits, m \in Message :
             CallsBack(hb, cb, w, cr, cs, cw, m)
  <2>1. PICK w \in Waits, cr \in Reads, cs \in Serves, cw \in Waits, m \in Message :
          CallsBack(hb, cb, w, cr, cs, cw, m)
    BY <1>5
  <2>2. Polls(hb, w) /\ up = <<>> /\ up_buffer = <<m>> /\ m.kind = "feedback" /\ m.b \in elements
        /\ m.n = cw.n /\ cs.n = w.n
    BY <1>1, <2>1 DEF CallsBack
  <2>3. Head(up_buffer) = m /\ Tail(up_buffer) = <<>>
    BY <2>2, One
  <2>4. /\ host' = Append(host, At("serve", m.n, m.b)) /\ up_buffer' = <<>>
        /\ UNCHANGED <<elements, running, alive, down, up, childvars>>
    BY <2>2, <2>3 DEF TakeUp
  <2>5. PICK s \in Serves : s = At("serve", m.n, m.b) /\ s.n = m.n
    <3>1. m.n \in 0 .. Ack /\ m.b \in 0 .. MaxBrowsers
      BY DEF Message
    <3> QED BY <3>1, Framed DEF Serves, Typed
  <2>6. f \in Reads /\ v = w
    BY <1>2, <1>3, <2>2 DEF Reads
  <2>7. PICK h : h = Three(hb, w, f, s)
    OBVIOUS
  <2>8. PICK c : c = Three(cb, cr, cs, cw)
    OBVIOUS
  <2>9. host' = h
    BY <1>2, <2>4, <2>5, <2>6, <2>7 DEF Three
  <2>10. Linked(h, c)
    BY <2>2, <2>5, <2>6, <2>7, <2>8, LinkedDeeper
  <2>11. h \in Stack /\ c \in Stack
    BY <2>10, LinkedStacked
  <2>12. (alive => OnTop(c) /\ Calm)'
    BY <2>1, <2>4, <2>8 DEF CallsBack, OnTop, Calm, childvars
  <2>13. Rests(h, c)'
    BY <2>2, <2>4, <2>9, <2>12 DEF Rests, Quiet
  <2>14. Phase(h, c)'
    BY <2>13 DEF Phase
  <2> QED BY <1>1, <2>4, <2>10, <2>11, <2>14, Again
<1> QED BY <1>1, <1>4, <1>5, OfUp DEF Quiet

LEMMA HostReturns ==
  ASSUME Typed, NEW hb \in Stack, NEW cb \in Stack, Linked(hb, cb), Phase(hb, cb), running, ~forced,
         HostAnswers
  PROVE  Ordered'
<1>1. /\ HostAt("serve") /\ host' = Front(host) /\ Write(Reply(Last(host).n), elements)
      /\ UNCHANGED <<habit, sent, seq, forced, starts>>
  BY DEF HostAnswers
<1>2. Rests(hb, cb) /\ hb # <<>> /\ host = hb
  BY <1>1, OfHost DEF Rests, HostAt
<1>3. PICK h \in Stack, c \in Stack, w \in Waits, cw \in Waits, r \in Reads, cr \in Reads,
           s \in Serves, cs \in Serves :
        /\ Linked(h, c) /\ cs.n = w.n /\ s.n = cw.n
        /\ hb = Three(h, w, r, s) /\ cb = Three(c, cr, cs, cw)
  BY <1>2, LinkedPops DEF Linking
<1>4. Front(host) = Append(Append(h, w), r) /\ Last(host) = s
  <2>1. w \in Frame /\ r \in Frame /\ s \in Frame
    BY Kinds
  <2>2. Front(Three(h, w, r, s)) = Append(Append(h, w), r) /\ Last(Three(h, w, r, s)) = s
    BY <2>1, ThreeStacked
  <2> QED BY <1>2, <1>3, <2>2
<1>5. Polls(h, w)'
  BY <1>1, <1>4 DEF Polls
<1>6. Write(Reply(cw.n), elements)
  BY <1>1, <1>3, <1>4
<1>7. CASE alive
  <2>1. /\ down' = Append(down, Reply(cw.n)) /\ elements' = elements
        /\ UNCHANGED <<running, alive, up_buffer, up, childvars>>
    BY <1>6, <1>7 DEF Write
  <2>2. OnTop(cb) /\ Calm /\ Quiet
    BY <1>2, <1>7 DEF Rests
  <2>3. down' = <<Reply(cw.n)>>
    <3>1. PICK m \in Message : m = Reply(cw.n)
      BY Kinds, Replied DEF Frame
    <3>2. Append(<<>>, m) = <<m>>
      BY One
    <3> QED BY <2>1, <2>2, <3>1, <3>2 DEF Calm
  <2>4. OnTop(Three(c, cr, cs, cw))'
    BY <1>3, <2>1, <2>2 DEF OnTop, childvars
  <2>5. IsCalledBack(h, c, w, cr, cs, cw)'
    BY <1>3, <1>5, <2>1, <2>2, <2>3, <2>4 DEF IsCalledBack, Calm, Quiet, childvars
  <2>6. Phase(h, c)'
    BY <2>5 DEF Phase
  <2> QED BY <1>1, <1>3, <2>1, <2>6, Again
<1>8. CASE ~alive
  <2>1. StopChild
    BY <1>6, <1>8 DEF Write
  <2>2. Stopped'
    BY <1>3, <1>5, <2>1, Ends DEF Stopped
  <2> QED BY <1>1, <2>2 DEF Ordered
<1> QED BY <1>7, <1>8

LEMMA HostPollsAgain ==
  ASSUME Typed, NEW hb \in Stack, NEW cb \in Stack, Linked(hb, cb), Phase(hb, cb), running, ~forced,
         NEW v \in Waits, NEW f \in Loops, host = Append(Append(hb, v), f), f.got = None,
         up_buffer = <<>>, host' = Append(hb, v),
         UNCHANGED <<elements, forced, running, alive, up_buffer, down, up, childvars>>
  PROVE  Ordered'
<1>1. HostAt("read") /\ Front(host) = Append(hb, v) /\ Last(host) = f /\ ~HostAt("wait")
  BY Reading
<1>2. ASSUME NEW w \in Waits, Polls(hb, w)
      PROVE  Polls(hb, w)'
  <2>1. Front(host) = Append(hb, w)
    BY <1>1, <1>2, Polling
  <2> QED BY <1>1, <2>1 DEF Polls
<1>3. (OnTop(cb) <=> OnTop(cb)') /\ (Calm <=> Calm') /\ (Quiet <=> Quiet')
  BY DEF OnTop, Calm, Quiet, childvars
<1>4. ~Rests(hb, cb)
  BY <1>1, LinkedTops DEF Rests, HostAt
<1>5. ASSUME NEW w \in Waits, NEW m \in Message PROVE ~Sends(hb, cb, w, m)
  BY <1>1, Stacked, Kinds DEF Sends, HostAt
<1>6. ASSUME NEW w \in Waits, IsAnswered(hb, cb, w) PROVE IsAnswered(hb, cb, w)'
  <2>1. ASSUME NEW g \in Loops, g.got = w.n, host = Append(Append(hb, w), g) PROVE FALSE
    BY <1>1, <2>1, Reading, Kinds
  <2>2. Polls(hb, w) /\ up = <<Reply(w.n)>>
    BY <1>6, <2>1 DEF IsAnswered
  <2> QED BY <1>2, <1>3, <1>6, <2>2 DEF IsAnswered
<1>7. ASSUME NEW w \in Waits, NEW cr \in Reads, NEW cs \in Serves, IsServed(hb, cb, w, cr, cs)
      PROVE  IsServed(hb, cb, w, cr, cs)'
  BY <1>2, <1>3, <1>7 DEF IsServed, childvars
<1>8. ASSUME NEW w \in Waits, NEW cr \in Reads, NEW cs \in Serves, NEW cw \in Waits,
             IsCalledBack(hb, cb, w, cr, cs, cw)
      PROVE  IsCalledBack(hb, cb, w, cr, cs, cw)'
  BY <1>2, <1>3, <1>8 DEF IsCalledBack, OnTop, childvars
<1>9. ASSUME NEW w \in Waits, NEW cr \in Reads, NEW cs \in Serves, NEW cw \in Waits, NEW m \in Message,
             CallsBack(hb, cb, w, cr, cs, cw, m)
      PROVE  CallsBack(hb, cb, w, cr, cs, cw, m)'
  BY <1>2, <1>3, <1>9 DEF CallsBack, childvars
<1>10. Phase(hb, cb)'
  BY <1>4, <1>5, <1>6, <1>7, <1>8, <1>9 DEF Phase
<1> QED BY <1>10, Again

LEMMA HostStopsReading ==
  ASSUME Typed, NEW hb \in Stack, NEW cb \in Stack, Linked(hb, cb), Phase(hb, cb), running, ~forced,
         ReadEnds
  PROVE  Ordered'
<1>1. HostAt("read") /\ up_buffer = <<>> /\ UNCHANGED <<habit, sent, seq, starts>>
  BY DEF ReadEnds
<1>2. PICK w \in Waits, f \in Loops :
        /\ host = Append(Append(hb, w), f) /\ Front(host) = Append(hb, w)
        /\ Front(Front(host)) = hb /\ Front(host) # <<>> /\ Last(host) = f
        /\ f.got = None \/ (f.got = w.n /\ IsAnswered(hb, cb, w))
  BY <1>1, OfHost
<1>3. \/ f.got # None /\ host' = hb /\ UNCHANGED <<forced, elements>> /\ Unstopped
      \/ f.got = None /\ host' = Append(hb, w) /\ UNCHANGED <<forced, elements>> /\ Unstopped
      \/ NoReply(hb)
  BY <1>2 DEF ReadEnds
<1>4. CASE f.got # None /\ host' = hb /\ UNCHANGED <<forced, elements>> /\ Unstopped
  <2>1. IsAnswered(hb, cb, w)
    BY <1>2, <1>4
  <2>2. Quiet
    <3>1. ~Polls(hb, w)
      BY <1>1, <1>2, <1>4, Polling
    <3> QED BY <2>1, <3>1 DEF IsAnswered
  <2>3. Rests(hb, cb)'
    BY <1>4, <2>1, <2>2 DEF IsAnswered, Rests, Unstopped, OnTop, Calm, Quiet, childvars
  <2>4. Phase(hb, cb)'
    BY <2>3 DEF Phase
  <2> QED BY <1>4, <2>4, Again DEF Unstopped
<1>5. CASE f.got = None /\ host' = Append(hb, w) /\ UNCHANGED <<forced, elements>> /\ Unstopped
  BY <1>1, <1>2, <1>5, HostPollsAgain DEF Unstopped
<1>6. CASE NoReply(hb)
  BY <1>1, <1>6, GivesUp, LinkedServes DEF Ordered
<1> QED BY <1>3, <1>4, <1>5, <1>6

LEMMA HostGivesUp ==
  ASSUME Typed, NEW hb \in Stack, NEW cb \in Stack, Linked(hb, cb), Phase(hb, cb), running, ~forced,
         GiveUp \/ TimesOut
  PROVE  Ordered'
<1>1. HostAt("wait") /\ NoReply(Front(host))
  BY DEF GiveUp, TimesOut
<1>2. PICK v \in Waits : host = Append(hb, v) /\ Front(host) = hb
  BY <1>1, OfHost
<1>3. up_buffer = <<>>
  <2>1. ASSUME NEW w \in Waits, Polls(hb, w) PROVE host = Append(hb, w)
    BY <1>1, <2>1, Polling
  <2>2. ASSUME NEW w \in Waits, IsAnswered(hb, cb, w) PROVE up_buffer = <<>>
    BY <2>1, <2>2 DEF IsAnswered, Quiet
  <2>3. ASSUME NEW w \in Waits, NEW cr \in Reads, NEW cs \in Serves, NEW cw \in Waits,
               NEW m \in Message, CallsBack(hb, cb, w, cr, cs, cw, m)
        PROVE  up_buffer = <<>>
    BY <2>1, <2>3 DEF CallsBack
  <2> QED BY <2>2, <2>3, OfUp DEF Quiet
<1> QED BY <1>1, <1>2, <1>3, GivesUp, LinkedServes DEF Ordered

LEMMA HostSends ==
  ASSUME Typed, Typed', NEW hb \in Stack, NEW cb \in Stack, Linked(hb, cb), Phase(hb, cb), running,
         ~forced, HostMayCall, NEW kind, NEW b \in 0 .. MaxBrowsers, NEW els,
         SendCommand(kind, b, els), starts' = starts,
         \/ kind = "new" /\ els = elements \cup {b}
         \/ kind = "call" /\ els = elements
         \/ kind = "close" /\ els = elements \ {b}
  PROVE  Ordered'
<1>1. Rests(hb, cb) /\ host = hb
  BY OfHost DEF HostMayCall, Rests
<1>2. PICK w \in Waits : w = [At("wait", sent', b) EXCEPT !.of = starts'] /\ w.n = sent'
  BY WaitsFor DEF SendCommand
<1>3. host' = Append(hb, w) /\ ~forced'
  BY <1>1, <1>2 DEF SendCommand
<1>4. PICK m \in Message : m = [kind |-> kind, n |-> sent', b |-> b]
  <2>1. sent' \in 0 .. Ack
    BY <1>2, Kinds DEF Frame
  <2> QED BY <2>1 DEF Message
<1>5. m.kind = kind /\ m.n = w.n /\ m.b = b /\ m.kind # "reply"
  BY <1>2, <1>4
<1>6. Write(m, els)
  BY <1>4 DEF SendCommand
<1>7. CASE alive
  <2>1. /\ down' = Append(down, m) /\ elements' = els
        /\ UNCHANGED <<running, alive, up_buffer, up, childvars>>
    BY <1>6, <1>7 DEF Write
  <2>2. OnTop(cb) /\ Calm /\ Quiet
    BY <1>1, <1>7 DEF Rests
  <2>3. down' = <<m>>
    BY <2>1, <2>2, One DEF Calm
  <2>4. NewPages(m) = els
    BY <1>5, <2>2 DEF NewPages, Calm
  <2>5. (NewPages(m) = elements)'
    BY <2>1, <2>4 DEF NewPages, childvars
  <2>6. Sends(hb, cb, w, m)'
    BY <1>3, <1>5, <2>1, <2>2, <2>3, <2>5 DEF Sends, Calm, Quiet, OnTop, childvars
  <2>7. Phase(hb, cb)'
    BY <2>6 DEF Phase
  <2> QED BY <1>3, <2>1, <2>7, Again
<1>8. CASE ~alive
  <2>1. StopChild
    BY <1>6, <1>8 DEF Write
  <2>2. Stopped'
    BY <1>3, <2>1, Ends DEF Stopped, Polls
  <2> QED BY <1>3, <2>2 DEF Ordered
<1> QED BY <1>7, <1>8

LEMMA ChildIsLost ==
  ASSUME NEW hb \in Stack, NEW cb \in Stack, Linked(hb, cb), Phase(hb, cb), ~forced, ~forced',
         host' = host, StopChild, host = <<>> \/ HostAt("wait")
  PROVE  Ordered'
<1>1. CASE host = <<>>
  BY <1>1, Ends DEF Ordered, Stopped
<1>2. CASE HostAt("wait")
  <2>1. PICK w \in Waits : host = Append(hb, w)
    BY <1>2, OfHost
  <2>2. Polls(hb, w)'
    BY <2>1 DEF Polls
  <2>3. Stopped'
    BY <2>2, Ends DEF Stopped
  <2> QED BY <2>3 DEF Ordered
<1> QED BY <1>1, <1>2

-----------------------------------------------------------------------------
(* The child's steps of a call. *)
LEMMA OfChild ==
  ASSUME NEW x \in Stack, x # <<>> => Last(x).at = "wait", alive, OnTop(x)
  PROVE  /\ ~ChildAt("serve") /\ (ChildAt("read") <=> child # x)
         /\ ChildAt("read") => Front(child) = x
<1>1. CASE child = x
  BY <1>1 DEF ChildAt
<1>2. ASSUME NEW r \in Reads, child = Append(x, r)
      PROVE  child # <<>> /\ Last(child) = r /\ r.at = "read" /\ Front(child) = x
  BY <1>2, Stacked, Kinds
<1>3. ASSUME NEW r \in Reads, child = Append(x, r)
      PROVE  child # x /\ ~ChildAt("serve") /\ ChildAt("read") /\ Front(child) = x
  BY <1>2, <1>3 DEF ChildAt
<1> QED BY <1>1, <1>3 DEF OnTop

LEMMA OfThree ==
  ASSUME NEW cb \in Stack, NEW cr \in Reads, NEW cs \in Serves, NEW cw \in Waits
  PROVE  /\ Three(cb, cr, cs, cw) \in Stack /\ Three(cb, cr, cs, cw) # <<>>
         /\ Last(Three(cb, cr, cs, cw)) = cw /\ cw.at = "wait"
         /\ Front(Three(cb, cr, cs, cw)) = Append(Append(cb, cr), cs)
         /\ Append(Append(cb, cr), cs) # <<>> /\ Last(Append(Append(cb, cr), cs)) = cs
         /\ cs.at = "serve" /\ Front(Append(Append(cb, cr), cs)) = Append(cb, cr)
<1>1. cr \in Frame /\ cs \in Frame /\ cw \in Frame /\ cs.at = "serve" /\ cw.at = "wait"
  BY Kinds
<1>2. PICK y \in Stack : y = Append(cb, cr)
  BY <1>1, Stacked
<1>3. Append(y, cs) # <<>> /\ Last(Append(y, cs)) = cs /\ Front(Append(y, cs)) = y
  BY <1>1, Stacked
<1>4. /\ Three(cb, cr, cs, cw) \in Stack /\ Three(cb, cr, cs, cw) # <<>>
      /\ Last(Three(cb, cr, cs, cw)) = cw
      /\ Front(Three(cb, cr, cs, cw)) = Append(Append(cb, cr), cs)
  BY <1>1, ThreeStacked
<1> QED BY <1>1, <1>2, <1>3, <1>4

LEMMA ChildReadsOn ==
  ASSUME Typed, NEW hb \in Stack, NEW cb \in Stack, Linked(hb, cb), Phase(hb, cb), running, ~forced,
         NEW j, OnDownFDReady(j)
  PROVE  Ordered'
<1>1. /\ j \in 1 .. Len(down) /\ down_buffer' = down_buffer \o SubSeq(down, 1, j)
      /\ down' = SubSeq(down, j + 1, Len(down)) /\ child' = Append(child, At("read", None, None))
      /\ UNCHANGED <<up, up_buffer, host, elements, forced, running, alive, reply, pages>>
      /\ alive /\ (child = <<>> \/ ChildAt("wait"))
  BY DEF OnDownFDReady, MainLoopRuns, hostvars
<1>2. down # <<>>
  BY <1>1, EmptySeq
<1>3. PICK r \in Reads : r = At("read", None, None)
  <2>1. None \in 0 .. Ack /\ None \in 0 .. MaxBrowsers
    BY BrowserRpcAssumption DEF None, Ack
  <2> QED BY <2>1, Framed DEF Reads, Loops, Typed
<1>4. ASSUME NEW x \in Stack, x # <<>> => Last(x).at = "wait", OnTop(x)
      PROVE  child = x /\ child' = Append(x, r) /\ OnTop(x)' /\ child' # x
  <2>1. ~ChildAt("read")
    BY <1>1 DEF ChildAt
  <2>2. child = x
    BY <1>1, <1>4, <2>1, OfChild
  <2>3. Last(Append(x, r)) = r /\ Append(x, r) # <<>> /\ r.at = "read"
    BY Stacked, Kinds
  <2> QED BY <1>1, <1>3, <1>4, <2>2, <2>3 DEF OnTop
<1>5. ASSUME NEW m \in Message, down = <<m>>, down_buffer = <<>>
      PROVE  down' = <<>> /\ down_buffer' = <<m>>
  BY <1>1, <1>5, ReadOne
<1>7. ASSUME NEW w \in Waits, NEW m \in Message, Sends(hb, cb, w, m) PROVE Ordered'
  <2>1. down = <<m>> /\ down_buffer = <<>> /\ OnTop(cb) /\ reply = None /\ NewPages(m) = elements
    BY <1>1, <1>2, <1>7 DEF Sends
  <2>2. down' = <<>> /\ down_buffer' = <<m>> /\ child' = Append(cb, r)
    BY <1>4, <1>5, <2>1, LinkedTops
  <2>3. (NewPages(m) = elements)'
    BY <1>1, <2>1 DEF NewPages
  <2>4. Sends(hb, cb, w, m)'
    BY <1>1, <1>7, <2>1, <2>2, <2>3 DEF Sends, Quiet
  <2>5. Phase(hb, cb)'
    BY <2>4 DEF Phase
  <2> QED BY <1>1, <2>5, Again
<1>8. ASSUME NEW w \in Waits, NEW cr \in Reads, NEW cs \in Serves, NEW cw \in Waits,
             IsCalledBack(hb, cb, w, cr, cs, cw)
      PROVE  Ordered'
  <2>1. PICK m \in Message : m = Reply(cw.n)
    BY Kinds, Replied DEF Frame
  <2>2. PICK x \in Stack : x = Three(cb, cr, cs, cw) /\ (x # <<>> => Last(x).at = "wait")
    <3>1. PICK x : x = Three(cb, cr, cs, cw)
      OBVIOUS
    <3>2. x \in Stack /\ Last(x) = cw /\ cw.at = "wait"
      BY <3>1, OfThree
    <3> QED BY <3>1, <3>2
  <2>3. down = <<m>> /\ down_buffer = <<>> /\ OnTop(x) /\ reply = None /\ pages = elements
    BY <1>1, <1>2, <1>8, <2>1, <2>2 DEF IsCalledBack
  <2>4. down' = <<>> /\ down_buffer' = <<m>> /\ OnTop(x)' /\ child' # x
    BY <1>4, <1>5, <2>2, <2>3
  <2>5. IsCalledBack(hb, cb, w, cr, cs, cw)'
    BY <1>1, <1>8, <2>1, <2>2, <2>3, <2>4 DEF IsCalledBack, Quiet, Polls
  <2>6. Phase(hb, cb)'
    BY <2>5 DEF Phase
  <2> QED BY <1>1, <2>6, Again
<1> QED
  BY <1>1, <1>2, <1>7, <1>8 DEF Phase, Rests, IsAnswered, IsServed, CallsBack, Calm

LEMMA ChildTakes ==
  ASSUME Typed, NEW hb \in Stack, NEW cb \in Stack, Linked(hb, cb), Phase(hb, cb), running, ~forced,
         TakeDown
  PROVE  Ordered'
<1>1. /\ ChildAt("read") /\ down_buffer # <<>> /\ down_buffer' = Tail(down_buffer) /\ alive
      /\ UNCHANGED <<up, up_buffer, host, elements, forced, running, alive, down>>
  BY DEF TakeDown, ChildAt, hostvars
<1>2. ASSUME NEW w \in Waits, NEW m \in Message, Sends(hb, cb, w, m) PROVE Ordered'
  <2>1. down = <<>> /\ down_buffer = <<m>> /\ m.kind # "reply" /\ reply = None /\ NewPages(m) = elements
    BY <1>1, <1>2 DEF Sends
  <2>2. PICK r \in Reads : child = Append(cb, r)
    BY <1>1, <1>2 DEF Sends
  <2>3. Head(down_buffer) = m /\ Tail(down_buffer) = <<>>
    BY <2>1, One
  <2>4. child' = Append(child, At("serve", m.n, m.b)) /\ pages' = NewPages(m) /\ reply' = reply
    BY <2>1, <2>3 DEF TakeDown, NewPages
  <2>5. PICK cs \in Serves : cs = At("serve", m.n, m.b) /\ cs.n = m.n
    <3>1. m.n \in 0 .. Ack /\ m.b \in 0 .. MaxBrowsers
      BY DEF Message
    <3> QED BY <3>1, Framed DEF Serves, Typed
  <2>6. child' = Append(Append(cb, r), cs)
    BY <2>2, <2>4, <2>5
  <2>7. host = Append(hb, w) /\ m.n = w.n /\ Quiet
    BY <1>2 DEF Sends
  <2>8. IsServed(hb, cb, w, r, cs)'
    BY <1>1, <2>1, <2>3, <2>4, <2>5, <2>6, <2>7 DEF IsServed, Polls, Quiet, Calm
  <2>9. Phase(hb, cb)'
    BY <2>8 DEF Phase
  <2> QED BY <1>1, <2>9, Again
<1>3. ASSUME NEW w \in Waits, NEW cr \in Reads, NEW cs \in Serves, NEW cw \in Waits,
             IsCalledBack(hb, cb, w, cr, cs, cw)
      PROVE  Ordered'
  <2>1. PICK m \in Message : m = Reply(cw.n) /\ m.kind = "reply" /\ m.n = cw.n
    BY Kinds, Replied DEF Frame
  <2>2. down = <<>> /\ down_buffer = <<m>> /\ OnTop(Three(cb, cr, cs, cw)) /\ pages = elements
    BY <1>1, <1>3, <2>1 DEF IsCalledBack
  <2>3. Head(down_buffer) = m /\ Tail(down_buffer) = <<>>
    BY <2>2, One
  <2>4. reply' = cw.n /\ child' = child /\ pages' = pages
    BY <2>1, <2>3 DEF TakeDown
  <2>5. IsCalledBack(hb, cb, w, cr, cs, cw)'
    BY <1>1, <1>3, <2>2, <2>3, <2>4 DEF IsCalledBack, Quiet, Polls, OnTop
  <2>6. Phase(hb, cb)'
    BY <2>5 DEF Phase
  <2> QED BY <1>1, <2>6, Again
<1> QED BY <1>1, <1>2, <1>3 DEF Phase, Rests, IsAnswered, IsServed, CallsBack, Calm

LEMMA ServesCalls ==
  ASSUME NEW hb \in Stack, NEW cb \in Stack, Linked(hb, cb), Phase(hb, cb), ChildAt("serve")
  PROVE  \E w \in Waits, cr \in Reads, cs \in Serves : IsServed(hb, cb, w, cr, cs)
<1>1. alive /\ ~OnTop(cb)
  BY LinkedTops, OfChild DEF ChildAt
<1>2. ASSUME NEW cr \in Reads, NEW cs \in Serves, NEW cw \in Waits
      PROVE  ~OnTop(Three(cb, cr, cs, cw))
  BY <1>1, OfThree, OfChild
<1>3. ASSUME NEW w \in Waits, NEW m \in Message PROVE ~Sends(hb, cb, w, m)
  BY <1>1 DEF Sends, OnTop
<1> QED
  BY <1>1, <1>2, <1>3 DEF Phase, Rests, IsAnswered, IsCalledBack, CallsBack, OnTop

LEMMA ChildReturns ==
  ASSUME Typed, NEW hb \in Stack, NEW cb \in Stack, Linked(hb, cb), Phase(hb, cb), running, ~forced,
         ChildAnswers
  PROVE  Ordered'
<1>1. /\ ChildAt("serve") /\ child' = Front(child) /\ up' = Append(up, Reply(Last(child).n)) /\ alive
      /\ UNCHANGED <<up_buffer, host, elements, forced, running, alive, down, down_buffer, reply, pages>>
  BY DEF ChildAnswers, ChildAt, hostvars
<1>2. PICK w \in Waits, cr \in Reads, cs \in Serves : IsServed(hb, cb, w, cr, cs)
  BY <1>1, ServesCalls
<1>3. Polls(hb, w) /\ Quiet /\ cs.n = w.n /\ child = Append(Append(cb, cr), cs) /\ Calm
  BY <1>1, <1>2 DEF IsServed
<1>4. Last(child) = cs /\ Front(child) = Append(cb, cr)
  BY <1>3, OfThree
<1>5. PICK m \in Message : m = Reply(w.n)
  BY Kinds, Replied DEF Frame
<1>6. up' = <<Reply(w.n)>>
  BY <1>1, <1>3, <1>4, <1>5, One DEF Quiet
<1>7. OnTop(cb)'
  BY <1>1, <1>4 DEF OnTop
<1>8. IsAnswered(hb, cb, w)'
  BY <1>1, <1>3, <1>6, <1>7 DEF IsAnswered, Quiet, Polls, Calm
<1>9. Phase(hb, cb)'
  BY <1>8 DEF Phase
<1> QED BY <1>1, <1>9, Again

LEMMA ChildCallsBack ==
  ASSUME Typed, Typed', NEW hb \in Stack, NEW cb \in Stack, Linked(hb, cb), Phase(hb, cb), running,
         ~forced, FeedbackOfScript
  PROVE  Ordered'
<1>1. /\ ChildAt("serve") /\ Last(child).b \in pages /\ alive
      /\ sent < MaxMessages /\ sent' = sent + 1 /\ reply' = None
      /\ up' = Append(up, [kind |-> "feedback", n |-> sent + 1, b |-> Last(child).b])
      /\ child' = Append(child, At("wait", sent + 1, Last(child).b))
      /\ UNCHANGED <<up_buffer, host, elements, forced, running, alive, down, down_buffer, pages>>
  BY DEF FeedbackOfScript, Feedback, ChildAt, hostvars
<1>2. PICK w \in Waits, cr \in Reads, cs \in Serves : IsServed(hb, cb, w, cr, cs)
  BY <1>1, ServesCalls
<1>3. Polls(hb, w) /\ Quiet /\ cs.n = w.n /\ child = Append(Append(cb, cr), cs) /\ Calm
  BY <1>1, <1>2 DEF IsServed
<1>4. Last(child) = cs /\ cs.b \in 0 .. MaxBrowsers
  BY <1>3, OfThree, Kinds DEF Frame
<1>5. sent + 1 \in 0 .. Ack /\ sent + 1 # None
  BY <1>1, Numbered DEF Typed
<1>6. PICK m \in Message : m = [kind |-> "feedback", n |-> sent + 1, b |-> cs.b]
  BY <1>4, <1>5 DEF Message
<1>7. PICK cw : cw = At("wait", sent + 1, cs.b)
  OBVIOUS
<1>8. cw \in Waits /\ cw.n = sent + 1
  BY <1>4, <1>5, <1>7, Framed DEF Waits, Typed
<1>9. up' = <<m>>
  BY <1>1, <1>3, <1>4, <1>6, One DEF Quiet
<1>10. child' = Three(cb, cr, cs, cw)
  BY <1>1, <1>3, <1>4, <1>7 DEF Three
<1>11. m.kind = "feedback" /\ m.n = cw.n /\ m.b \in elements
  BY <1>1, <1>3, <1>4, <1>6, <1>8 DEF Calm
<1>12. CallsBack(hb, cb, w, cr, cs, cw, m)'
  BY <1>1, <1>3, <1>9, <1>10, <1>11 DEF CallsBack, Quiet, Polls, Calm
<1>13. Phase(hb, cb)'
  BY <1>8, <1>12 DEF Phase
<1> QED BY <1>1, <1>13, Again

LEMMA CalledBackWaits ==
  ASSUME NEW hb \in Stack, NEW cb \in Stack, Phase(hb, cb), alive, reply # None
  PROVE  \E w \in Waits, cr \in Reads, cs \in Serves, cw \in Waits :
           /\ IsCalledBack(hb, cb, w, cr, cs, cw)
           /\ down = <<>> /\ down_buffer = <<>> /\ reply = cw.n /\ OnTop(Three(cb, cr, cs, cw))
BY DEF Phase, Rests, Sends, IsAnswered, IsServed, CallsBack, IsCalledBack, Calm

LEMMA ChildIsCalledBack ==
  ASSUME Typed, NEW hb \in Stack, NEW cb \in Stack, Linked(hb, cb), Phase(hb, cb), running, ~forced,
         FeedbackReturns
  PROVE  Ordered'
<1>1. /\ ChildAt("wait") /\ reply # None /\ child' = Front(child) /\ reply' = None /\ alive
      /\ alive' = (Last(child).n = Ack => reply = Ack)
      /\ UNCHANGED <<up, up_buffer, host, elements, forced, running, down, down_buffer, pages>>
  BY DEF FeedbackReturns, ChildAt, hostvars
<1>2. PICK w \in Waits, cr \in Reads, cs \in Serves, cw \in Waits :
        /\ IsCalledBack(hb, cb, w, cr, cs, cw)
        /\ down = <<>> /\ down_buffer = <<>> /\ reply = cw.n /\ OnTop(Three(cb, cr, cs, cw))
  BY <1>1, CalledBackWaits
<1>3. child = Three(cb, cr, cs, cw)
  <2>1. PICK x : x = Three(cb, cr, cs, cw)
    OBVIOUS
  <2>2. x \in Stack /\ Last(x) = cw /\ cw.at = "wait"
    BY <2>1, OfThree
  <2>3. ~ChildAt("read") /\ OnTop(x)
    BY <1>1, <1>2, <2>1 DEF ChildAt
  <2> QED BY <1>1, <2>1, <2>2, <2>3, OfChild
<1>4. Last(child) = cw /\ Front(child) = Append(Append(cb, cr), cs)
  BY <1>3, OfThree
<1>5. alive'
  BY <1>1, <1>2, <1>4
<1>6. IsServed(hb, cb, w, cr, cs)'
  BY <1>1, <1>2, <1>4, <1>5 DEF IsCalledBack, IsServed, Quiet, Polls, Calm
<1>7. Phase(hb, cb)'
  BY <1>6 DEF Phase
<1> QED BY <1>1, <1>7, Again

LEMMA ChildStopsReading ==
  ASSUME Typed, NEW hb \in Stack, NEW cb \in Stack, Linked(hb, cb), Phase(hb, cb), running, ~forced,
         ChildReadEnds
  PROVE  Ordered'
<1>1. /\ ChildAt("read") /\ down_buffer = <<>> /\ child' = Front(child) /\ alive
      /\ UNCHANGED <<up, up_buffer, host, elements, forced, running, alive, down, down_buffer, reply,
                     pages>>
  BY DEF ChildReadEnds, ChildAt, hostvars
<1>2. ASSUME NEW x \in Stack, x # <<>> => Last(x).at = "wait", OnTop(x)
      PROVE  OnTop(x)' /\ child # x
  BY <1>1, <1>2, OfChild DEF OnTop
<1>3. OnTop(cb) => OnTop(cb)'
  BY <1>2, LinkedTops
<1>4. ASSUME NEW cr \in Reads, NEW cs \in Serves, NEW cw \in Waits, OnTop(Three(cb, cr, cs, cw))
      PROVE  OnTop(Three(cb, cr, cs, cw))'
  BY <1>2, <1>4, OfThree
<1>5. ASSUME NEW cr \in Reads, NEW cs \in Serves, NEW cw \in Waits
      PROVE  child # Three(cb, cr, cs, cw)
  <2>1. PICK x : x = Three(cb, cr, cs, cw)
    OBVIOUS
  <2>2. Last(x) = cw /\ cw.at = "wait"
    BY <2>1, OfThree
  <2> QED BY <1>1, <2>1, <2>2 DEF ChildAt
<1>6. (Calm <=> Calm') /\ (Quiet <=> Quiet') /\ \A w : Polls(hb, w) <=> Polls(hb, w)'
  BY <1>1 DEF Calm, Quiet, Polls
<1>7. Rests(hb, cb) => Rests(hb, cb)'
  BY <1>1, <1>3, <1>6 DEF Rests
<1>8. ASSUME NEW w \in Waits, NEW m \in Message, Sends(hb, cb, w, m) PROVE Sends(hb, cb, w, m)'
  BY <1>1, <1>3, <1>6, <1>8 DEF Sends, NewPages
<1>9. ASSUME NEW w \in Waits, IsAnswered(hb, cb, w) PROVE IsAnswered(hb, cb, w)'
  BY <1>1, <1>3, <1>6, <1>9 DEF IsAnswered
<1>10. ASSUME NEW w \in Waits, NEW cr \in Reads, NEW cs \in Serves
       PROVE  ~IsServed(hb, cb, w, cr, cs)
  <2>1. child # Append(Append(cb, cr), cs)
    <3>1. PICK x : x = Append(Append(cb, cr), cs)
      OBVIOUS
    <3>2. PICK y \in Stack : y = Append(cb, cr)
      BY Stacked, Kinds
    <3>3. Last(x) = cs /\ cs.at = "serve"
      BY <3>1, <3>2, Stacked, Kinds
    <3> QED BY <1>1, <3>1, <3>3 DEF ChildAt
  <2> QED BY <1>1, <2>1 DEF IsServed
<1>11. ASSUME NEW w \in Waits, NEW cr \in Reads, NEW cs \in Serves, NEW cw \in Waits
       PROVE  /\ \A m \in Message : ~CallsBack(hb, cb, w, cr, cs, cw, m)
              /\ IsCalledBack(hb, cb, w, cr, cs, cw) => IsCalledBack(hb, cb, w, cr, cs, cw)'
  BY <1>1, <1>4, <1>5, <1>6 DEF IsCalledBack, CallsBack
<1>12. Phase(hb, cb)'
  BY <1>7, <1>8, <1>9, <1>10, <1>11 DEF Phase
<1> QED BY <1>1, <1>12, Again

LEMMA ChildDies ==
  ASSUME NEW hb \in Stack, NEW cb \in Stack, Linked(hb, cb), Phase(hb, cb), running, ~forced, Crash
  PROVE  Ordered'
<1>1. ~alive' /\ UNCHANGED <<up, up_buffer, host, elements, forced, running>>
  BY DEF Crash, hostvars
<1>2. (Quiet <=> Quiet') /\ \A w : Polls(hb, w) <=> Polls(hb, w)'
  BY <1>1 DEF Quiet, Polls
<1>3. Phase(hb, cb)'
  BY <1>1, <1>2 DEF Phase, Rests, Sends, IsAnswered, IsServed, IsCalledBack, CallsBack
<1> QED BY <1>1, <1>3, Again

-----------------------------------------------------------------------------
(* The invariant. *)
LEMMA NormalStep ==
  ASSUME Nests(habit), Typed, Typed', ~forced, Normal, [Next]_vars
  PROVE  Ordered'
<1>1. PICK hb \in Stack, cb \in Stack : Linked(hb, cb) /\ Phase(hb, cb)
  BY DEF Normal
<1>2. running
  BY DEF Normal
<1>3. ASSUME NEW j, ReadUpPipe(j) PROVE Ordered'
  BY <1>1, <1>2, <1>3, HostReadsOn
<1>4. CASE ReadFails
  BY <1>1, <1>4, ChildIsLost DEF ReadFails, MayRead
<1>5. CASE TakeUp
  BY <1>1, <1>2, <1>5, HostTakes
<1>6. CASE HostAnswers
  BY <1>1, <1>2, <1>6, HostReturns
<1>7. CASE ReadEnds
  BY <1>1, <1>2, <1>7, HostStopsReading
<1>8. CASE GiveUp \/ TimesOut
  BY <1>1, <1>2, <1>8, HostGivesUp
<1>9. CASE HostCalls
  <2>1. HostMayCall /\ starts' = starts
    BY <1>2, <1>9, HostCallIs DEF StartChild
  <2>2. CASE seq' \in 0 .. MaxBrowsers /\ SendCommand("new", seq', elements \cup {seq'})
    BY <1>1, <1>2, <2>1, <2>2, HostSends
  <2>3. ASSUME NEW b \in 0 .. MaxBrowsers,
               SendCommand("call", b, elements) \/ SendCommand("close", b, elements \ {b})
        PROVE  Ordered'
    BY <1>1, <1>2, <2>1, <2>3, HostSends
  <2> QED BY <1>2, <1>9, <2>2, <2>3, HostCallIs DEF StartChild
<1>10. CASE PingTimerCallback
  BY <1>1, <1>10, ChildIsLost DEF PingTimerCallback
<1>11. ASSUME NEW j, OnDownFDReady(j) PROVE Ordered'
  BY <1>1, <1>2, <1>11, ChildReadsOn
<1>12. CASE TakeDown
  BY <1>1, <1>2, <1>12, ChildTakes
<1>13. CASE ChildAnswers
  BY <1>1, <1>2, <1>13, ChildReturns
<1>14. CASE ChildReadEnds
  BY <1>1, <1>2, <1>14, ChildStopsReading
<1>15. CASE FeedbackReturns
  BY <1>1, <1>2, <1>15, ChildIsCalledBack
<1>16. CASE ChildCalls
  <2>1. "events" \notin habit /\ "pings" \notin habit
    BY DEF Nests
  <2>2. FeedbackOfScript
    BY <1>16, <2>1 DEF ChildCalls, CheckController, FeedbackOfEvent
  <2> QED BY <1>1, <1>2, <2>2, ChildCallsBack
<1>17. CASE Crash
  BY <1>1, <1>2, <1>17, ChildDies
<1>18. CASE UNCHANGED vars
  <2>1. UNCHANGED <<up, up_buffer, host, elements, forced, running, alive, down, down_buffer, reply,
                    pages, child>>
    BY <1>18 DEF vars, hostvars, childvars
  <2>2. (OnTop(cb) <=> OnTop(cb)') /\ (Calm <=> Calm') /\ (Quiet <=> Quiet')
    BY <2>1 DEF OnTop, Calm, Quiet
  <2>3. \A w : Polls(hb, w) <=> Polls(hb, w)'
    BY <2>1 DEF Polls
  <2>4. \A x : OnTop(x) <=> OnTop(x)'
    BY <2>1 DEF OnTop
  <2>5. Rests(hb, cb) => Rests(hb, cb)'
    BY <2>1, <2>2 DEF Rests
  <2>6. \A w \in Waits, m \in Message : Sends(hb, cb, w, m) => Sends(hb, cb, w, m)'
    BY <2>1, <2>2 DEF Sends, NewPages
  <2>7. \A w \in Waits : IsAnswered(hb, cb, w) => IsAnswered(hb, cb, w)'
    BY <2>1, <2>2, <2>3 DEF IsAnswered
  <2>8. ASSUME NEW w \in Waits, NEW cr \in Reads, NEW cs \in Serves
        PROVE  /\ IsServed(hb, cb, w, cr, cs) => IsServed(hb, cb, w, cr, cs)'
               /\ \A cw \in Waits : IsCalledBack(hb, cb, w, cr, cs, cw)
                                     => IsCalledBack(hb, cb, w, cr, cs, cw)'
               /\ \A cw \in Waits, m \in Message : CallsBack(hb, cb, w, cr, cs, cw, m)
                                                   => CallsBack(hb, cb, w, cr, cs, cw, m)'
    BY <2>1, <2>2, <2>3, <2>4 DEF IsServed, IsCalledBack, CallsBack
  <2>9. Phase(hb, cb)'
    BY <1>1, <2>5, <2>6, <2>7, <2>8 DEF Phase
  <2> QED BY <1>1, <1>2, <2>1, <2>9, Again
<1> QED
  BY <1>3, <1>4, <1>5, <1>6, <1>7, <1>8, <1>9, <1>10, <1>11, <1>12, <1>13, <1>14, <1>15, <1>16,
     <1>17, <1>18 DEF Next, HostWorks, ChildWorks

LEMMA OrderedStep ==
  ASSUME Nests(habit), BInv, Typed', [Next]_vars
  PROVE  Ordered'
<1>1. CASE forced /\ Doomed
  BY <1>1, DoomedStep DEF BInv
<1>2. CASE ~forced /\ Normal
  BY <1>2, NormalStep DEF BInv
<1>3. CASE ~forced /\ Stopped /\ host # <<>>
  BY <1>3, StoppedStep DEF BInv, Stopped
<1>4. CASE ~running /\ host = <<>>
  <2>1. CASE UNCHANGED vars
    BY <1>4, <2>1 DEF vars, hostvars, Ordered, Off, Stopped
  <2> QED BY <1>4, <2>1, OffStep DEF BInv
<1> QED BY <1>1, <1>2, <1>3, <1>4 DEF BInv, Ordered, Off, Stopped, Normal

-----------------------------------------------------------------------------
(* What follows from it. *)
LEMMA NormalOrStopped ==
  ASSUME BInv, ~forced
  PROVE  \/ ~running /\ ~alive
         \/ Normal
BY DEF BInv, Ordered, Stopped, Empty

LEMMA OwnReply ==
  ASSUME BInv
  PROVE  CommandGetsOwn
<1>1. SUFFICES ASSUME ~forced, NEW i \in 1 .. Len(host), host[i].got # None
               PROVE  i > 1 /\ host[i - 1].at = "wait" /\ host[i - 1].n = host[i].got
  BY DEF CommandGetsOwn
<1>2. ~Unanswered(host)
  BY <1>1 DEF Unanswered
<1>3. CASE Normal
  <2>1. PICK hb \in Stack, cb \in Stack : Linked(hb, cb) /\ Phase(hb, cb)
    BY <1>3 DEF Normal
  <2>2. Unanswered(hb)
    BY <2>1, LinkedUnanswered
  <2>3. ASSUME NEW w \in Waits PROVE Unanswered(Append(hb, w)) /\ Append(hb, w) \in Stack
    BY <2>2, UnansweredDeeper, Stacked, Kinds
  <2>4. ASSUME NEW w \in Waits, NEW r \in Reads PROVE Unanswered(Append(Append(hb, w), r))
    BY <2>3, UnansweredDeeper, Kinds
  <2>5. ~Rests(hb, cb) /\ \A w \in Waits : host # Append(hb, w)
    BY <1>2, <2>2, <2>3 DEF Rests
  <2>6. PICK w \in Waits, f \in Loops : host = Append(Append(hb, w), f) /\ (f.got = None \/ f.got = w.n)
    BY <2>1, <2>5, PhaseOfHost
  <2>7. PICK h \in Stack : h = Append(hb, w) /\ Unanswered(h)
    BY <2>3
  <2>8. PICK n \in Nat : n = Len(hb)
    BY DEF Stack
  <2>9. Len(h) = n + 1 /\ h[n + 1] = w
    BY <2>7, <2>8, Kinds, AppendProperties DEF Stack
  <2>10. host = Append(h, f)
    BY <2>6, <2>7
  <2>11. Len(host) = n + 1 + 1 /\ host[n + 1 + 1] = f /\ \A k \in 1 .. n + 1 : host[k] = h[k]
    BY <2>9, <2>10, Kinds, AppendProperties DEF Stack
  <2>12. i \in 1 .. n + 1 \/ i = n + 1 + 1
    BY <2>11
  <2>13. ASSUME i \in 1 .. n + 1 PROVE FALSE
    BY <1>1, <2>7, <2>9, <2>11, <2>13 DEF Unanswered
  <2>14. i = n + 1 + 1 /\ i > 1 /\ i - 1 = n + 1 /\ n + 1 \in 1 .. n + 1
    BY <2>12, <2>13
  <2>15. host[i] = f /\ host[i - 1] = w
    BY <2>9, <2>11, <2>14
  <2> QED BY <1>1, <2>6, <2>14, <2>15, Kinds
<1>4. CASE Stopped
  <2>1. Unanswered(<<>>)
    BY EmptySeq DEF Unanswered
  <2>2. PICK hb \in Stack, cb \in Stack, w \in Waits : Linked(hb, cb) /\ Polls(hb, w)
    BY <1>2, <1>4, <2>1 DEF Stopped
  <2>3. PICK h \in Stack : h = Append(hb, w) /\ Unanswered(h)
    BY <2>2, LinkedUnanswered, UnansweredDeeper, Stacked, Kinds
  <2>4. ASSUME NEW r \in Reads PROVE Unanswered(Append(h, r))
    BY <2>3, UnansweredDeeper, Kinds
  <2> QED BY <1>2, <2>2, <2>3, <2>4 DEF Polls
<1> QED BY <1>1, <1>3, <1>4 DEF BInv, Ordered

LEMMA OwnAnswer ==
  ASSUME BInv
  PROVE  FeedbackGetsOwn
<1>1. SUFFICES ASSUME ChildAt("wait"), reply # None, ~forced PROVE reply = Last(child).n
  BY DEF FeedbackGetsOwn
<1>2. alive /\ Normal
  BY <1>1, NormalOrStopped DEF ChildAt
<1>3. PICK hb \in Stack, cb \in Stack : Linked(hb, cb) /\ Phase(hb, cb)
  BY <1>2 DEF Normal
<1>4. PICK w \in Waits, cr \in Reads, cs \in Serves, cw \in Waits :
        reply = cw.n /\ OnTop(Three(cb, cr, cs, cw))
  BY <1>1, <1>2, <1>3, CalledBackWaits
<1>5. PICK x : x = Three(cb, cr, cs, cw)
  OBVIOUS
<1>6. x \in Stack /\ Last(x) = cw /\ cw.at = "wait"
  BY <1>5, OfThree
<1>7. child = x
  BY <1>1, <1>2, <1>4, <1>5, <1>6, OfChild DEF ChildAt
<1> QED BY <1>4, <1>6, <1>7

(* Between the phases nothing is silent but a call that is served. *)
LEMMA SilentPhase ==
  ASSUME NEW hb \in Stack, NEW cb \in Stack, Linked(hb, cb), Phase(hb, cb), alive, Silent, reply = None,
         child = <<>> \/ ChildAt("wait")
  PROVE  (Rests(hb, cb) /\ child = cb) \/ HostAt("read")
<1>1. Quiet /\ down = <<>> /\ down_buffer = <<>>
  BY DEF Silent, Quiet
<1>2. PICK n : n = None
  OBVIOUS
<1>3. OnTop(cb) => child = cb
  BY LinkedTops, OfChild DEF ChildAt
<1>4. ASSUME NEW w \in Waits, NEW m \in Message PROVE ~Sends(hb, cb, w, m)
  BY <1>1, One DEF Sends
<1>5. ASSUME NEW w \in Waits, NEW cr \in Reads, NEW cs \in Serves
      PROVE  ~IsServed(hb, cb, w, cr, cs)
  <2>1. PICK x : x = Append(Append(cb, cr), cs)
    OBVIOUS
  <2>2. x # <<>> /\ Last(x) = cs /\ cs.at = "serve"
    BY <2>1, OfThree
  <2> QED BY <2>1, <2>2 DEF IsServed, ChildAt
<1>6. ASSUME NEW w \in Waits, NEW cr \in Reads, NEW cs \in Serves, NEW cw \in Waits
      PROVE  /\ ~IsCalledBack(hb, cb, w, cr, cs, cw)
             /\ \A m \in Message : ~CallsBack(hb, cb, w, cr, cs, cw, m)
  <2>1. cw.n # None /\ \A m \in Message : <<m>> # <<>>
    BY Kinds, One
  <2>2. PICK m \in Message : m = Reply(cw.n)
    BY Kinds, Replied DEF Frame
  <2> QED BY <1>1, <2>1, <2>2 DEF IsCalledBack, CallsBack, Quiet
<1>7. ASSUME NEW w \in Waits, IsAnswered(hb, cb, w) PROVE HostAt("read")
  <2>1. PICK m \in Message : m = Reply(w.n)
    BY Kinds, Replied DEF Frame
  <2>2. <<m>> # <<>>
    BY One
  <2>3. PICK f \in Loops : host = Append(Append(hb, w), f)
    BY <1>1, <1>7, <2>1, <2>2 DEF IsAnswered, Quiet
  <2> QED BY <2>3, Reading
<1>8. CASE Rests(hb, cb)
  BY <1>3, <1>8 DEF Rests
<1> QED BY <1>4, <1>5, <1>6, <1>7, <1>8 DEF Phase

LEMMA NoneWaits ==
  ASSUME BInv
  PROVE  NoMutualWait
<1>1. ASSUME alive, Silent, HostAt("wait"), ~forced, child = <<>> \/ (ChildAt("wait") /\ reply = None)
      PROVE  FALSE
  <2>1. Normal
    BY <1>1, NormalOrStopped
  <2>2. PICK hb \in Stack, cb \in Stack : Linked(hb, cb) /\ Phase(hb, cb)
    BY <2>1 DEF Normal
  <2>3. ~HostAt("read")
    BY <1>1 DEF HostAt
  <2>4. reply = None
    <3>1. SUFFICES ASSUME reply # None PROVE child # <<>> /\ ~ChildAt("wait") /\ FALSE
      BY <1>1
    <3>2. PICK w \in Waits, cr \in Reads, cs \in Serves, cw \in Waits : OnTop(Three(cb, cr, cs, cw))
      BY <1>1, <2>2, <3>1, CalledBackWaits
    <3>3. PICK x : x = Three(cb, cr, cs, cw)
      OBVIOUS
    <3>4. x \in Stack /\ x # <<>> /\ Last(x).at = "wait"
      BY <3>3, OfThree
    <3>5. child # <<>>
      BY <3>2, <3>3, <3>4, Stacked, Kinds DEF OnTop
    <3> QED BY <1>1, <3>1, <3>5
  <2>5. Rests(hb, cb)
    BY <1>1, <2>2, <2>3, <2>4, SilentPhase
  <2>6. HostAt("wait") => FALSE
    BY <2>2, <2>5, LinkedTops DEF Rests, HostAt
  <2> QED BY <1>1, <2>6
<1>2. ASSUME alive, Silent, host = <<>>, ChildAt("wait"), reply = None
      PROVE  FALSE
  <2>1. running /\ ~Doomed
    BY <1>2, DoomedTops DEF BInv, Empty
  <2>2. Normal
    BY <1>2, <2>1 DEF BInv, Ordered, Off, Stopped
  <2>3. PICK hb \in Stack, cb \in Stack : Linked(hb, cb) /\ Phase(hb, cb)
    BY <2>2 DEF Normal
  <2>4. Rests(hb, cb) /\ child = cb
    BY <1>2, <2>3, SilentPhase DEF HostAt
  <2>5. cb = <<>>
    BY <1>2, <2>3, <2>4, LinkedTops DEF Rests
  <2> QED BY <1>2, <2>4, <2>5 DEF ChildAt
<1> QED BY <1>1, <1>2 DEF NoMutualWait

LEMMA SamePages ==
  ASSUME BInv
  PROVE  PagesOfElements
<1>1. SUFFICES ASSUME host = <<>>, child = <<>>, Silent, alive \/ ~running PROVE pages = elements
  BY DEF PagesOfElements, BInv
<1>2. CASE ~running
  BY <1>2 DEF BInv, Empty
<1>3. CASE running
  <2>1. alive /\ ~Doomed
    BY <1>1, <1>3, DoomedTops
  <2>2. Normal
    BY <1>1, <1>3, <2>1 DEF BInv, Ordered, Off, Stopped
  <2>3. PICK hb \in Stack, cb \in Stack : Linked(hb, cb) /\ Phase(hb, cb)
    BY <2>2 DEF Normal
  <2>4. Rests(hb, cb)
    BY <1>1, <2>3, OfHost
  <2> QED BY <2>1, <2>4 DEF Rests, Calm
<1> QED BY <1>2, <1>3 DEF BInv, Typed

-----------------------------------------------------------------------------
(* What is on its way: each message of a set once, in some order. *)
Holds(p, S) ==
  /\ \A m : m \in S <=> \E i \in 1 .. Len(p) : p[i] = m
  /\ \A i, j \in 1 .. Len(p) : p[i] = p[j] => i = j

LEMMA HoldsNothing ==
  ASSUME NEW p \in Pipes
  PROVE  Holds(p, {}) <=> p = <<>>
<1>1. Holds(<<>>, {})
  BY EmptySeq DEF Holds
<1>2. ASSUME Holds(p, {}), p # <<>> PROVE FALSE
  <2>1. PICK n \in Nat : n = Len(p) /\ n # 0
    BY <1>2, EmptySeq DEF Pipes
  <2>2. 1 \in 1 .. n
    BY <2>1
  <2> QED BY <1>2, <2>1, <2>2 DEF Holds
<1> QED BY <1>1, <1>2

LEMMA HoldsOneMore ==
  ASSUME NEW p \in Pipes, NEW S, Holds(p, S), NEW m \in Message, m \notin S
  PROVE  Holds(Append(p, m), S \cup {m})
<1>1. PICK n \in Nat : n = Len(p)
  BY DEF Pipes
<1>2. PICK q \in Pipes : q = Append(p, m)
  BY Piped
<1>3. Len(q) = n + 1 /\ q[n + 1] = m /\ \A i \in 1 .. n : q[i] = p[i]
  BY <1>1, <1>2, AppendProperties DEF Pipes
<1>4. \A i \in 1 .. n + 1 : i \in 1 .. n \/ i = n + 1
  OBVIOUS
<1>5. \A i \in 1 .. n : i \in 1 .. n + 1
  OBVIOUS
<1>6. n + 1 \in 1 .. n + 1
  OBVIOUS
<1>7. \A x : x \in S <=> \E i \in 1 .. n : p[i] = x
  BY <1>1 DEF Holds
<1>8. \A i, j \in 1 .. n : p[i] = p[j] => i = j
  BY <1>1 DEF Holds
<1>9. \A x : x \in S \cup {m} <=> \E i \in 1 .. n + 1 : q[i] = x
  BY <1>3, <1>4, <1>5, <1>6, <1>7
<1>10. \A i \in 1 .. n : q[i] # m
  BY <1>3, <1>7
<1>11. \A i, j \in 1 .. n + 1 : q[i] = q[j] => i = j
  BY <1>3, <1>4, <1>8, <1>10
<1> QED BY <1>2, <1>3, <1>9, <1>11 DEF Holds

LEMMA HoldsOneLess ==
  ASSUME NEW p \in Pipes, p # <<>>, NEW S, Holds(p, S)
  PROVE  Head(p) \in S /\ Head(p) \in Message /\ Holds(Tail(p), S \ {Head(p)})
<1>1. PICK n \in Nat : Len(p) = n + 1
  <2>1. Len(p) \in Nat /\ Len(p) # 0
    BY EmptySeq DEF Pipes
  <2>2. Len(p) - 1 \in Nat /\ Len(p) = (Len(p) - 1) + 1
    BY <2>1
  <2> QED BY <2>2
<1>2. PICK h \in Message : h = Head(p)
  BY Piped
<1>3. h = p[1]
  BY <1>2
<1>4. PICK q \in Pipes : q = Tail(p)
  BY Piped
<1>5. Len(q) = n /\ \A i \in 1 .. n : q[i] = p[i + 1]
  <2>1. Len(q) = Len(p) - 1 /\ n + 1 - 1 = n
    BY <1>4, HeadTailProperties DEF Pipes
  <2>2. \A i \in 1 .. Len(q) : q[i] = p[i + 1]
    BY <1>4, HeadTailProperties DEF Pipes
  <2> QED BY <1>1, <2>1, <2>2
<1>6. \A x : x \in S <=> \E i \in 1 .. n + 1 : p[i] = x
  BY <1>1 DEF Holds
<1>7. \A i, j \in 1 .. n + 1 : p[i] = p[j] => i = j
  BY <1>1 DEF Holds
<1>8. 1 \in 1 .. n + 1 /\ \A i \in 1 .. n : i + 1 \in 1 .. n + 1 /\ i + 1 # 1
  OBVIOUS
<1>9. \A i \in 1 .. n + 1 : i = 1 \/ (i - 1 \in 1 .. n /\ (i - 1) + 1 = i)
  OBVIOUS
<1>10. \A i, j \in 1 .. n : i + 1 = j + 1 => i = j
  OBVIOUS
<1>11. h \in S
  BY <1>3, <1>6, <1>8
<1>12. ASSUME NEW x PROVE x \in S \ {h} <=> \E i \in 1 .. n : q[i] = x
  <2>1. ASSUME x \in S, x # h PROVE \E i \in 1 .. n : q[i] = x
    <3>1. PICK i \in 1 .. n + 1 : p[i] = x
      BY <1>6, <2>1
    <3>2. i # 1
      BY <1>3, <2>1, <3>1
    <3>3. PICK k \in 1 .. n : k + 1 = i
      BY <1>9, <3>2
    <3>4. q[k] = p[i]
      BY <1>5, <3>3
    <3> QED BY <3>1, <3>3, <3>4
  <2>2. ASSUME NEW i \in 1 .. n, q[i] = x PROVE x \in S /\ x # h
    <3>1. PICK k \in 1 .. n + 1 : k = i + 1 /\ k # 1
      BY <1>8
    <3>2. p[k] = x
      BY <1>5, <2>2, <3>1
    <3> QED BY <1>3, <1>6, <1>7, <1>8, <3>1, <3>2
  <2> QED BY <2>1, <2>2
<1>13. ASSUME NEW i \in 1 .. n, NEW j \in 1 .. n, q[i] = q[j] PROVE i = j
  <2>1. PICK k \in 1 .. n + 1, l \in 1 .. n + 1 : k = i + 1 /\ l = j + 1
    BY <1>8
  <2>2. p[k] = p[l]
    BY <1>5, <1>13, <2>1
  <2>3. k = l
    BY <1>7, <2>2
  <2> QED BY <1>10, <2>1, <2>3
<1> QED BY <1>2, <1>4, <1>5, <1>11, <1>12, <1>13 DEF Holds

(* A pipe and what is read from it. *)
LEMMA PipedOn ==
  ASSUME NEW q \in Pipes, NEW p \in Pipes
  PROVE  /\ q \o p \in Pipes
         /\ q \o p = <<>> <=> q = <<>> /\ p = <<>>
         /\ \A m \in Message : Append(q \o p, m) = q \o Append(p, m)
<1>1. q \o p \in Pipes
  BY ConcatProperties DEF Pipes
<1>2. q \o p = <<>> <=> q = <<>> /\ p = <<>>
  BY ConcatEqualIffEmpty DEF Pipes
<1>3. ASSUME NEW m \in Message PROVE Append(q \o p, m) = q \o Append(p, m)
  <2>1. <<m>> \in Pipes
    BY One DEF Pipes
  <2>2. Append(q \o p, m) = (q \o p) \o <<m>>
    BY <1>1, AppendIsConcat DEF Pipes
  <2>3. Append(p, m) = p \o <<m>>
    BY AppendIsConcat DEF Pipes
  <2>4. (q \o p) \o <<m>> = q \o (p \o <<m>>)
    BY <2>1, ConcatAssociative DEF Pipes
  <2> QED BY <2>2, <2>3, <2>4
<1> QED BY <1>1, <1>2, <1>3

LEMMA PipedHead ==
  ASSUME NEW q \in Pipes, NEW p \in Pipes, q # <<>>
  PROVE  Head(q \o p) = Head(q) /\ Tail(q \o p) = Tail(q) \o p /\ q \o p # <<>>
<1>1. PICK h \in Message : h = Head(q)
  BY Piped
<1>2. PICK t \in Pipes : t = Tail(q)
  BY Piped
<1>3. q = <<h>> \o t
  <2>1. 1 \in 1 .. Len(q) /\ Len(q) \in 1 .. Len(q) /\ 1 + 1 = 2
    <3>1. Len(q) \in Nat /\ Len(q) # 0
      BY EmptySeq DEF Pipes
    <3> QED BY <3>1
  <2>2. SubSeq(q, 1, Len(q)) = <<q[1]>> \o SubSeq(q, 1 + 1, Len(q))
    BY <2>1, SubSeqRecursiveFirst DEF Pipes
  <2>3. SubSeq(q, 1, Len(q)) = q
    BY SubSeqFull DEF Pipes
  <2>4. t = SubSeq(q, 2, Len(q))
    BY <1>2, TailIsSubSeq DEF Pipes
  <2>5. h = q[1]
    BY <1>1
  <2> QED BY <2>1, <2>2, <2>3, <2>4, <2>5
<1>4. <<h>> \in Pipes /\ t \o p \in Pipes
  BY <1>2, One, PipedOn DEF Pipes
<1>5. q \o p = <<h>> \o (t \o p)
  BY <1>3, <1>4, ConcatAssociative DEF Pipes
<1>6. PICK u \in Pipes : u = t \o p
  BY <1>4
<1>7. Head(<<h>> \o u) = h /\ Tail(<<h>> \o u) = u
  <2>1. PICK n \in Nat : n = Len(u)
    BY DEF Pipes
  <2>2. PICK a \in Pipes : a = <<h>> /\ Len(a) = 1 /\ a[1] = h
    BY <1>4, One
  <2>3. a \o u \in Pipes
    BY PipedOn
  <2>4. PICK v \in Pipes : v = a \o u
    BY <2>3
  <2>5. Len(v) = 1 + n /\ \A i \in 1 .. 1 + n : v[i] = IF i <= 1 THEN a[i] ELSE u[i - 1]
    BY <2>1, <2>2, <2>4, ConcatProperties DEF Pipes
  <2>6. 1 \in 1 .. 1 + n /\ 1 + n # 0
    BY <2>1
  <2>7. v # <<>> /\ v[1] = h
    BY <2>2, <2>5, <2>6, EmptySeq DEF Pipes
  <2>8. \A i \in 1 .. n : i + 1 \in 1 .. 1 + n /\ ~(i + 1 <= 1) /\ i + 1 - 1 = i
    BY <2>1
  <2>9. \A i \in 1 .. n : v[i + 1] = u[i]
    BY <2>5, <2>8
  <2>10. PICK t2 \in Pipes : t2 = Tail(v)
    BY <2>7, Piped
  <2>11. Len(t2) = n /\ \A i \in 1 .. Len(t2) : t2[i] = v[i + 1]
    <3>1. Len(t2) = Len(v) - 1 /\ 1 + n - 1 = n
      BY <2>1, <2>7, <2>10, HeadTailProperties DEF Pipes
    <3>2. \A i \in 1 .. Len(t2) : t2[i] = v[i + 1]
      BY <2>7, <2>10, HeadTailProperties DEF Pipes
    <3> QED BY <2>5, <3>1, <3>2
  <2>12. \A i \in 1 .. n : t2[i] = u[i]
    BY <2>9, <2>11
  <2>13. t2 = u
    BY <2>1, <2>11, <2>12, SeqEqual DEF Pipes
  <2> QED BY <2>2, <2>4, <2>7, <2>10, <2>13
<1>8. q \o p # <<>>
  BY PipedOn
<1> QED BY <1>1, <1>2, <1>5, <1>6, <1>7, <1>8

LEMMA PipedMove ==
  ASSUME NEW q \in Pipes, NEW p \in Pipes, NEW j \in 1 .. Len(p)
  PROVE  (q \o SubSeq(p, 1, j)) \o SubSeq(p, j + 1, Len(p)) = q \o p
<1>1. PICK n \in Nat : n = Len(p)
  BY DEF Pipes
<1>2. j \in 1 .. n
  BY <1>1
<1>3. 1 \in 1 .. n + 1 /\ j \in 1 - 1 .. n /\ n \in j .. n
  BY <1>2
<1>4. SubSeq(p, 1, j) \o SubSeq(p, j + 1, n) = p
  BY <1>1, <1>3, ConcatAdjacentSubSeq, SubSeqFull DEF Pipes
<1>5. <<>> \o SubSeq(p, 1, j) \in Pipes /\ SubSeq(p, j + 1, n) \in Pipes
  BY <1>1, Piped, PipeRead
<1>6. \A i \in 1 .. j : i \in 1 .. n
  BY <1>2
<1>7. \A i \in 1 .. j : p[i] \in Message
  BY <1>1, <1>6, ElementOfSeq DEF Pipes
<1>8. SubSeq(p, 1, j) \in Pipes
  BY <1>2, <1>7, SubSeqProperties DEF Pipes
<1>9. PICK a \in Pipes, c \in Pipes : a = SubSeq(p, 1, j) /\ c = SubSeq(p, j + 1, n)
  BY <1>5, <1>8
<1>10. (q \o a) \o c = q \o (a \o c)
  BY ConcatAssociative DEF Pipes
<1> QED BY <1>1, <1>4, <1>9, <1>10

LEMMA StillHolds ==
  ASSUME NEW q \in Pipes, NEW p \in Pipes, NEW S, Holds(q \o p, S)
  PROVE  /\ \A j \in 1 .. Len(p) : Holds((q \o SubSeq(p, 1, j)) \o SubSeq(p, j + 1, Len(p)), S)
         /\ \A m \in Message : m \notin S => Holds(q \o Append(p, m), S \cup {m})
         /\ q # <<>> => /\ Head(q) \in S /\ Head(q) \in Message
                        /\ Holds(Tail(q) \o p, S \ {Head(q)})
         /\ q = <<>> /\ p = <<>> => S = {}
<1>1. q \o p \in Pipes
  BY PipedOn
<1>2. ASSUME NEW j \in 1 .. Len(p)
      PROVE  Holds((q \o SubSeq(p, 1, j)) \o SubSeq(p, j + 1, Len(p)), S)
  BY PipedMove
<1>3. ASSUME NEW m \in Message, m \notin S PROVE Holds(q \o Append(p, m), S \cup {m})
  <2>0. \A n \in Message : Append(q \o p, n) = q \o Append(p, n)
    BY PipedOn
  <2>1. Append(q \o p, m) = q \o Append(p, m)
    BY <2>0, Zenon
  <2>2. Holds(Append(q \o p, m), S \cup {m})
    BY <1>1, <1>3, HoldsOneMore
  <2> QED BY <2>1, <2>2
<1>4. ASSUME q # <<>>
      PROVE  Head(q) \in S /\ Head(q) \in Message /\ Holds(Tail(q) \o p, S \ {Head(q)})
  <2>1. Head(q \o p) = Head(q) /\ Tail(q \o p) = Tail(q) \o p /\ q \o p # <<>>
    BY <1>4, PipedHead
  <2>2. Head(q \o p) \in S /\ Holds(Tail(q \o p), S \ {Head(q \o p)})
    BY <1>1, <2>1, HoldsOneLess
  <2>3. Head(q) \in Message
    BY <1>4, Piped
  <2> QED BY <2>1, <2>2, <2>3
<1>5. ASSUME q = <<>>, p = <<>> PROVE S = {}
  <2>1. q \o p = <<>>
    BY <1>5, PipedOn
  <2>2. Holds(<<>>, S)
    BY <2>1
  <2> QED BY <2>2, EmptySeq DEF Holds
<1> QED BY <1>2, <1>3, <1>4, <1>5

-----------------------------------------------------------------------------
(* The invariant when one side at a time acts of its own accord while no     *)
(* page calls the host from a command: at most one command of the host and   *)
(* one message of the child are under way, each in one place.                *)
InUp(S) == Holds(up_buffer \o up, S)
InDown(S) == Holds(down_buffer \o down, S)
HostOver(hb, got, S) ==
  \/ host = hb /\ got = None /\ S = {}
  \/ \E g \in Loops : g.got = got /\ host = Append(hb, g) /\ S = {}
  \/ \E g \in Loops, s \in Serves : g.got = got /\ host = Append(Append(hb, g), s) /\ S = {s}
ChildOver(cb, S) ==
  \/ child = cb /\ S = {}
  \/ \E r \in Reads : child = Append(cb, r) /\ S = {}
  \/ \E r \in Reads, s \in Serves : child = Append(Append(cb, r), s) /\ S = {s}

(* The command: on its way, served, answered, or with its reply. *)
Asked(hb, got, C, Sc, A) ==
  \/ hb = <<>> /\ got = None /\ C = {} /\ Sc = {} /\ A = {}
  \/ \E w \in Waits :
       /\ hb = Append(<<>>, w)
       /\ \/ /\ got = None /\ Sc = {} /\ A = {}
             /\ \E m \in Message : m.kind # "reply" /\ m.n = w.n /\ C = {m}
          \/ got = None /\ C = {} /\ A = {} /\ \E s \in Serves : s.n = w.n /\ Sc = {s}
          \/ got = None /\ C = {} /\ Sc = {} /\ A = {Reply(w.n)}
          \/ got = w.n /\ C = {} /\ Sc = {} /\ A = {}
(* The feedback or ping: on its way, served, answered, with its reply; or of *)
(* an element that is gone.                                                  *)
Told(cb, Q, Sh, R, y) ==
  \/ cb = <<>> /\ Q = {} /\ Sh = {} /\ R = {} /\ y = None
  \/ \E f \in Waits :
       /\ cb = Append(<<>>, f) /\ f.b \in 0 .. seq
       /\ \/ /\ R = {} /\ Sh = {} /\ y = None
             /\ \E q \in Message :
                  /\ Q = {q} /\ q.n = f.n
                  /\ \/ q.kind = "feedback" /\ "events" \in habit /\ q.b = f.b /\ f.b # None
                     \/ q.kind = "ping" /\ f.n = Ack
          \/ /\ Q = {} /\ R = {} /\ y = None /\ "events" \in habit
             /\ \E s \in Serves : s.n = f.n /\ Sh = {s}
          \/ Q = {} /\ Sh = {} /\ R = {Reply(f.n)} /\ y = None
          \/ Q = {} /\ Sh = {} /\ R = {} /\ y = f.n
          \/ Q = {} /\ Sh = {} /\ R = {} /\ y = None /\ f.b # None /\ f.b \notin elements
Shown(C) == (C = {} /\ pages = elements) \/ \E m \in Message : C = {m} /\ NewPages(m) = elements

Exchange(hb, cb, got, y, Sh, Sc, C, A, Q, R) ==
  /\ HostOver(hb, got, Sh) /\ InUp(A \cup Q) /\ elements \subseteq 1 .. seq
  /\ Asked(hb, got, C, Sc, A) /\ Told(cb, Q, Sh, R, y)
  /\ alive => /\ ChildOver(cb, Sc) /\ InDown(C \cup R) /\ reply = y /\ Shown(C)
              /\ pages \subseteq 1 .. seq
Exchanging == running /\ \E hb, cb, got, y, Sh, Sc, C, A, Q, R :
                           Exchange(hb, cb, got, y, Sh, Sc, C, A, Q, R)
Abandoned ==
  /\ ~running
  /\ \E hb, got : /\ HostOver(hb, got, {})
                  /\ \/ hb = <<>> /\ got = None
                     \/ \E w \in Waits : hb = Append(<<>>, w) /\ got \in {None, w.n}
Settled == (forced => Off) /\ (~forced => Abandoned \/ Exchanging)
CInv == Typed /\ (~running => Empty) /\ Settled

LEMMA Bases ==
  ASSUME NEW hb, hb = <<>> \/ \E w \in Waits : hb = Append(<<>>, w)
  PROVE  /\ hb \in Stack
         /\ hb # <<>> => Last(hb).at = "wait" /\ Last(hb) \in Waits /\ Front(hb) = <<>>
<1>1. CASE hb = <<>>
  BY <1>1, EmptyStack
<1>2. ASSUME NEW w \in Waits, hb = Append(<<>>, w)
      PROVE  hb \in Stack /\ Last(hb) = w /\ w.at = "wait" /\ Front(hb) = <<>>
  BY <1>2, EmptyStack, Stacked, Kinds
<1> QED BY <1>1, <1>2

LEMMA HostBase ==
  ASSUME NEW hb, NEW cb, NEW got, NEW y, NEW Sh, NEW Sc, NEW C, NEW A, NEW Q, NEW R,
         Exchange(hb, cb, got, y, Sh, Sc, C, A, Q, R)
  PROVE  /\ hb = <<>> \/ \E w \in Waits : hb = Append(<<>>, w)
         /\ cb = <<>> \/ \E w \in Waits : cb = Append(<<>>, w)
BY DEF Exchange, Asked, Told

(* What is on top of the frames of the host, and of the child. *)
LEMMA TopOfHost ==
  ASSUME NEW hb, hb = <<>> \/ \E w \in Waits : hb = Append(<<>>, w), NEW got, NEW S,
         HostOver(hb, got, S)
  PROVE  /\ host = <<>> \/ HostAt("wait") => host = hb /\ got = None /\ S = {}
         /\ HostAt("read") => /\ Front(host) = hb /\ Last(host).got = got /\ S = {}
                              /\ Last(host) \in Loops /\ host = Append(hb, Last(host))
         /\ HostAt("serve") => \E g \in Loops : /\ g.got = got /\ Front(host) = Append(hb, g)
                                                /\ S = {Last(host)} /\ Last(host) \in Serves
<1>1. hb \in Stack /\ (hb # <<>> => Last(hb).at = "wait")
  BY Bases
<1>2. CASE host = hb /\ got = None /\ S = {}
  BY <1>1, <1>2 DEF HostAt
<1>3. ASSUME NEW g \in Loops, g.got = got, host = Append(hb, g), S = {}
      PROVE  /\ host # <<>> /\ Front(host) = hb /\ Last(host) = g
             /\ ~HostAt("wait") /\ ~HostAt("serve")
  <2>1. g \in Frame /\ g.at = "read"
    BY Kinds
  <2>2. host # <<>> /\ Front(host) = hb /\ Last(host) = g
    BY <1>1, <1>3, <2>1, Stacked
  <2> QED BY <2>1, <2>2 DEF HostAt
<1>4. ASSUME NEW g \in Loops, NEW s \in Serves, g.got = got, host = Append(Append(hb, g), s), S = {s}
      PROVE  /\ host # <<>> /\ Front(host) = Append(hb, g) /\ Last(host) = s
             /\ ~HostAt("wait") /\ ~HostAt("read")
  <2>1. g \in Frame /\ s \in Frame /\ s.at = "serve"
    BY Kinds
  <2>2. PICK x \in Stack : x = Append(hb, g)
    BY <1>1, <2>1, Stacked
  <2>3. host # <<>> /\ Front(host) = x /\ Last(host) = s
    BY <1>4, <2>1, <2>2, Stacked
  <2> QED BY <2>1, <2>2, <2>3 DEF HostAt
<1>5. CASE \E g \in Loops : g.got = got /\ host = Append(hb, g) /\ S = {}
  BY <1>3, <1>5
<1>6. CASE \E g \in Loops, s \in Serves : g.got = got /\ host = Append(Append(hb, g), s) /\ S = {s}
  BY <1>4, <1>6
<1> QED BY <1>2, <1>5, <1>6 DEF HostOver

LEMMA TopOfChild ==
  ASSUME NEW cb, cb = <<>> \/ \E w \in Waits : cb = Append(<<>>, w), NEW S, ChildOver(cb, S), alive
  PROVE  /\ child = <<>> \/ ChildAt("wait") => child = cb /\ S = {}
         /\ ChildAt("read") => Front(child) = cb /\ S = {} /\ Last(child) \in Reads
                               /\ child = Append(cb, Last(child))
         /\ ChildAt("serve") => \E r \in Reads : /\ Front(child) = Append(cb, r)
                                                 /\ S = {Last(child)} /\ Last(child) \in Serves
<1>1. cb \in Stack /\ (cb # <<>> => Last(cb).at = "wait")
  BY Bases
<1>2. CASE child = cb /\ S = {}
  BY <1>1, <1>2 DEF ChildAt
<1>3. ASSUME NEW g \in Reads, child = Append(cb, g), S = {}
      PROVE  /\ child # <<>> /\ Front(child) = cb /\ Last(child) = g
             /\ ~ChildAt("wait") /\ ~ChildAt("serve")
  <2>1. g \in Frame /\ g.at = "read"
    BY Kinds
  <2>2. child # <<>> /\ Front(child) = cb /\ Last(child) = g
    BY <1>1, <1>3, <2>1, Stacked
  <2> QED BY <2>1, <2>2 DEF ChildAt
<1>4. ASSUME NEW g \in Reads, NEW s \in Serves, child = Append(Append(cb, g), s), S = {s}
      PROVE  /\ child # <<>> /\ Front(child) = Append(cb, g) /\ Last(child) = s
             /\ ~ChildAt("wait") /\ ~ChildAt("read")
  <2>1. g \in Frame /\ s \in Frame /\ s.at = "serve"
    BY Kinds
  <2>2. PICK x \in Stack : x = Append(cb, g)
    BY <1>1, <2>1, Stacked
  <2>3. child # <<>> /\ Front(child) = x /\ Last(child) = s
    BY <1>4, <2>1, <2>2, Stacked
  <2> QED BY <2>1, <2>2, <2>3 DEF ChildAt
<1>5. CASE \E r \in Reads : child = Append(cb, r) /\ S = {}
  BY <1>3, <1>5
<1>6. CASE \E r \in Reads, s \in Serves : child = Append(Append(cb, r), s) /\ S = {s}
  BY <1>4, <1>6
<1> QED BY <1>2, <1>5, <1>6 DEF ChildOver

LEMMA Loop ==
  ASSUME Typed
  PROVE  /\ At("read", None, None) \in Reads /\ At("read", None, None) \in Loops
         /\ At("read", None, None).got = None
<1>1. None \in 0 .. Ack /\ None \in 0 .. MaxBrowsers
  BY BrowserRpcAssumption DEF None, Ack
<1>2. PICK r : r = At("read", None, None)
  OBVIOUS
<1>3. r \in Frame /\ r.at = "read" /\ r.got = None
  BY <1>1, <1>2, Framed DEF Typed
<1> QED BY <1>2, <1>3 DEF Reads, Loops

LEMMA ServeFrame ==
  ASSUME Typed, NEW m \in Message
  PROVE  At("serve", m.n, m.b) \in Serves /\ At("serve", m.n, m.b).n = m.n
<1>1. m.n \in 0 .. Ack /\ m.b \in 0 .. MaxBrowsers
  BY DEF Message
<1>2. PICK s : s = At("serve", m.n, m.b)
  OBVIOUS
<1>3. s \in Frame /\ s.at = "serve" /\ s.got = None /\ s.n = m.n
  BY <1>1, <1>2, Framed DEF Typed
<1> QED BY <1>2, <1>3 DEF Serves

(* The kinds of what is on its way. *)
LEMMA KindsOnTheWay ==
  ASSUME NEW hb, NEW cb, NEW got, NEW y, NEW Sh, NEW Sc, NEW C, NEW A, NEW Q, NEW R,
         Asked(hb, got, C, Sc, A), Told(cb, Q, Sh, R, y)
  PROVE  /\ \A m \in A \cup R : m \in Message /\ m.kind = "reply"
         /\ \A m \in C \cup Q : m \in Message /\ m.kind # "reply"
         /\ A # {} => \E w \in Waits : hb = Append(<<>>, w) /\ got = None /\ C = {} /\ Sc = {}
                                       /\ A = {Reply(w.n)} /\ Reply(w.n).n = w.n
         /\ R # {} => \E f \in Waits : /\ cb = Append(<<>>, f) /\ f.b \in 0 .. seq /\ Q = {} /\ Sh = {}
                                       /\ R = {Reply(f.n)} /\ Reply(f.n).n = f.n
<1>1. \A w \in Waits : Reply(w.n) \in Message /\ Reply(w.n).kind = "reply" /\ Reply(w.n).n = w.n
  BY Kinds, Replied DEF Frame
<1>2. (\A m \in A : m \in Message /\ m.kind = "reply") /\ (\A m \in C : m \in Message /\ m.kind # "reply")
  BY <1>1 DEF Asked
<1>3. (\A m \in R : m \in Message /\ m.kind = "reply") /\ (\A m \in Q : m \in Message /\ m.kind # "reply")
  BY <1>1 DEF Told
<1>4. A # {} => \E w \in Waits : hb = Append(<<>>, w) /\ got = None /\ C = {} /\ Sc = {}
                                 /\ A = {Reply(w.n)} /\ Reply(w.n).n = w.n
  BY <1>1 DEF Asked
<1>5. R # {} => \E f \in Waits : /\ cb = Append(<<>>, f) /\ f.b \in 0 .. seq /\ Q = {} /\ Sh = {}
                                 /\ R = {Reply(f.n)} /\ Reply(f.n).n = f.n
  BY <1>1 DEF Told
<1> QED BY <1>2, <1>3, <1>4, <1>5

LEMMA ExchangeAgain ==
  ASSUME NEW hb, NEW cb, NEW got, NEW y, NEW Sh, NEW Sc, NEW C, NEW A, NEW Q, NEW R,
         Exchange(hb, cb, got, y, Sh, Sc, C, A, Q, R)', running', ~forced'
  PROVE  Settled'
BY DEF Settled, Exchanging

(* The child is stopped under the host. *)
LEMMA Abandons ==
  ASSUME NEW hb, NEW got, HostOver(hb, got, {})', ~running', ~forced',
         \/ hb = <<>> /\ got = None
         \/ \E w \in Waits : hb = Append(<<>>, w) /\ got \in {None, w.n}
  PROVE  Settled'
BY DEF Settled, Abandoned

LEMMA GotOf ==
  ASSUME NEW hb, NEW got, NEW C, NEW Sc, NEW A, Asked(hb, got, C, Sc, A)
  PROVE  \/ hb = <<>> /\ got = None
         \/ \E w \in Waits : hb = Append(<<>>, w) /\ got \in {None, w.n}
BY DEF Asked

(* The only command gets no reply. *)
LEMMA GivesUpAll ==
  ASSUME NEW hb, hb = <<>> \/ \E w \in Waits : hb = Append(<<>>, w), hb # <<>>, NoReply(Front(hb))
  PROVE  Settled'
<1>1. Front(hb) = <<>>
  BY Bases
<1>2. NoReply(<<>>) /\ Waiting(<<>>) = {}
  BY <1>1, ServingNone, ServingWaits
<1>3. host' = <<>> /\ forced' /\ ~running'
  BY <1>2, Ends DEF NoReply, Unstopped
<1> QED BY <1>3 DEF Settled, Off

LEMMA HostOfExchange ==
  ASSUME Typed, Typed', Crosses(habit), running, ~forced,
         NEW hb, NEW cb, NEW got, NEW y, NEW Sh, NEW Sc, NEW C, NEW A, NEW Q, NEW R,
         Exchange(hb, cb, got, y, Sh, Sc, C, A, Q, R),
         HostWorks \/ TimesOut \/ PingTimerCallback
  PROVE  Settled'
<1>1. /\ HostOver(hb, got, Sh) /\ InUp(A \cup Q) /\ elements \subseteq 1 .. seq
      /\ Asked(hb, got, C, Sc, A) /\ Told(cb, Q, Sh, R, y)
      /\ alive => /\ ChildOver(cb, Sc) /\ InDown(C \cup R) /\ reply = y /\ Shown(C)
                  /\ pages \subseteq 1 .. seq
  BY DEF Exchange
<1>2. (hb = <<>> \/ \E w \in Waits : hb = Append(<<>>, w)) /\ hb \in Stack
  BY HostBase, Bases
<1>3. /\ \A m \in A \cup R : m \in Message /\ m.kind = "reply"
      /\ \A m \in C \cup Q : m \in Message /\ m.kind # "reply"
  BY <1>1, KindsOnTheWay
<1>4. /\ host = <<>> \/ HostAt("wait") => host = hb /\ got = None /\ Sh = {}
      /\ HostAt("read") => /\ Front(host) = hb /\ Last(host).got = got /\ Sh = {}
                           /\ Last(host) \in Loops /\ host = Append(hb, Last(host))
      /\ HostAt("serve") => \E g \in Loops : /\ g.got = got /\ Front(host) = Append(hb, g)
                                             /\ Sh = {Last(host)} /\ Last(host) \in Serves
  BY <1>1, <1>2, TopOfHost
<1>5. up_buffer \in Pipes /\ up \in Pipes /\ down \in Pipes /\ down_buffer \in Pipes
  BY DEF Typed
<1>6. ASSUME NEW j, ReadUpPipe(j) PROVE Settled'
  <2>1. /\ j \in 1 .. Len(up) /\ up_buffer' = up_buffer \o SubSeq(up, 1, j)
        /\ up' = SubSeq(up, j + 1, Len(up)) /\ host' = Append(host, At("read", None, None))
        /\ UNCHANGED <<habit, seq, down, elements, forced, running, alive, childvars>>
        /\ host = <<>> \/ HostAt("wait")
    BY <1>6 DEF ReadUpPipe, MayRead, process
  <2>2. Holds((up_buffer \o SubSeq(up, 1, j)) \o SubSeq(up, j + 1, Len(up)), A \cup Q)
    BY <1>1, <1>5, <2>1, StillHolds DEF InUp
  <2>3. InUp(A \cup Q)'
    BY <2>1, <2>2 DEF InUp
  <2>4. HostOver(hb, got, Sh)'
    BY <1>4, <2>1, Loop DEF HostOver
  <2>5. Told(cb, Q, Sh, R, y)'
    BY <1>1, <2>1 DEF Told
  <2>6. (alive => /\ ChildOver(cb, Sc) /\ InDown(C \cup R) /\ reply = y /\ Shown(C)
                  /\ pages \subseteq 1 .. seq)'
    BY <1>1, <2>1 DEF ChildOver, InDown, Shown, NewPages, childvars
  <2>7. Exchange(hb, cb, got, y, Sh, Sc, C, A, Q, R)'
    BY <1>1, <2>1, <2>3, <2>4, <2>5, <2>6 DEF Exchange
  <2> QED BY <2>1, <2>7, ExchangeAgain
<1>7. CASE StopChild /\ host' = host /\ ~forced' /\ Sh = {}
  <2>1. HostOver(hb, got, {})'
    BY <1>1, <1>7 DEF HostOver
  <2>2. ~running'
    BY <1>7, Ends
  <2> QED BY <1>1, <1>7, <2>1, <2>2, GotOf, Abandons
<1>8. CASE ReadFails \/ PingTimerCallback
  <2>1. StopChild /\ host' = host /\ ~forced' /\ (host = <<>> \/ HostAt("wait"))
    BY <1>8 DEF ReadFails, MayRead, PingTimerCallback
  <2> QED BY <1>4, <1>7, <2>1
<1>9. CASE TakeUp
  <2>1. HostAt("read") /\ up_buffer # <<>> /\ UNCHANGED <<habit, sent, seq, forced, starts>>
    BY <1>9 DEF TakeUp
  <2>2. PICK m \in Message : /\ m = Head(up_buffer) /\ m \in A \cup Q
                             /\ Holds(Tail(up_buffer) \o up, (A \cup Q) \ {m})
    BY <1>1, <1>5, <2>1, StillHolds DEF InUp
  <2>3. PICK g \in Loops : g = Last(host) /\ g.got = got /\ host = Append(hb, g) /\ Front(host) = hb
    BY <1>4, <2>1
  <2>4. Sh = {}
    BY <1>4, <2>1
  <2>5. CASE m.kind = "reply"
    <3>1. /\ host' = Append(Front(host), [Last(host) EXCEPT !.got = m.n])
          /\ up_buffer' = Tail(up_buffer) /\ UNCHANGED <<elements, running, alive, down, up, childvars>>
      BY <1>9, <2>2, <2>5 DEF TakeUp
    <3>2. m \in A
      BY <1>3, <2>2, <2>5
    <3>3. PICK w \in Waits : /\ hb = Append(<<>>, w) /\ got = None /\ C = {} /\ Sc = {}
                             /\ A = {Reply(w.n)} /\ Reply(w.n).n = w.n
      BY <1>1, <3>2, KindsOnTheWay
    <3>4. m.n = w.n /\ (A \cup Q) \ {m} = {} \cup Q
      BY <1>3, <3>2, <3>3
    <3>5. InUp({} \cup Q)'
      BY <2>2, <3>1, <3>4 DEF InUp
    <3>6. PICK h : h = [g EXCEPT !.got = w.n]
      OBVIOUS
    <3>7. h \in Loops /\ h.got = w.n
      <4>1. g \in Frame /\ g.at = "read" /\ w.n \in 0 .. Ack
        BY Kinds DEF Frame
      <4>2. h \in Frame /\ h.at = "read" /\ h.got = w.n
        BY <3>6, <4>1, Got
      <4> QED BY <4>2 DEF Loops
    <3>8. host' = Append(hb, h)
      BY <2>3, <3>1, <3>4, <3>6
    <3>9. HostOver(hb, w.n, {})'
      BY <3>7, <3>8 DEF HostOver
    <3>10. Asked(hb, w.n, {}, {}, {})
      BY <3>3 DEF Asked
    <3>11. Told(cb, Q, {}, R, y)'
      BY <1>1, <2>1, <2>4, <3>1 DEF Told
    <3>12. (alive => /\ ChildOver(cb, {}) /\ InDown({} \cup R) /\ reply = y /\ Shown({})
                     /\ pages \subseteq 1 .. seq)'
      BY <1>1, <2>1, <3>1, <3>3 DEF ChildOver, InDown, Shown, NewPages, childvars
    <3>13. Exchange(hb, cb, w.n, y, {}, {}, {}, {}, Q, R)'
      BY <1>1, <2>1, <3>1, <3>5, <3>9, <3>10, <3>11, <3>12 DEF Exchange
    <3> QED BY <2>1, <3>1, <3>13, ExchangeAgain
  <2>6. ASSUME m.kind # "reply" PROVE m \in Q /\ (A \cup Q) \ {m} = A \cup {}
    <3>1. m \in Q /\ m \notin A
      BY <1>3, <2>2, <2>6
    <3>2. Q = {m}
      BY <1>1, <3>1 DEF Told
    <3> QED BY <3>1, <3>2
  <2>7. ASSUME m.kind # "reply" PROVE \E f \in Waits :
          /\ cb = Append(<<>>, f) /\ f.b \in 0 .. seq /\ R = {} /\ y = None /\ m.n = f.n
          /\ \/ m.kind = "feedback" /\ "events" \in habit /\ m.b = f.b /\ f.b # None
             \/ m.kind = "ping" /\ f.n = Ack
    <3>1. m \in Q
      BY <2>6, <2>7
    <3> QED BY <1>1, <3>1 DEF Told
  <2>8. CASE m.kind = "ping"
    <3>1. host' = host
      BY <1>9, <2>2, <2>8 DEF TakeUp
    <3>2. CASE ~alive
      <4>1. StopChild
        BY <1>9, <2>2, <2>8, <3>2 DEF TakeUp
      <4> QED BY <1>7, <2>1, <2>4, <3>1, <4>1
    <3>3. CASE alive
      <4>1. /\ down' = Append(down, Reply(Ack)) /\ up_buffer' = Tail(up_buffer)
            /\ UNCHANGED <<elements, running, alive, up, childvars>>
        BY <1>9, <2>2, <2>8, <3>3 DEF TakeUp
      <4>2. PICK f \in Waits : cb = Append(<<>>, f) /\ f.b \in 0 .. seq /\ R = {} /\ y = None /\ f.n = Ack
        BY <2>7, <2>8
      <4>3. PICK p \in Message : p = Reply(f.n) /\ p.kind = "reply"
        BY Kinds, Replied DEF Frame
      <4>4. p \notin C \cup R
        BY <1>3, <4>2, <4>3
      <4>5. Holds(down_buffer \o Append(down, p), (C \cup R) \cup {p})
        BY <1>1, <1>5, <3>3, <4>3, <4>4, StillHolds DEF InDown
      <4>6. (C \cup R) \cup {p} = C \cup {Reply(f.n)}
        BY <4>2, <4>3
      <4>7. InDown(C \cup {Reply(f.n)})'
        BY <4>1, <4>2, <4>3, <4>5, <4>6 DEF InDown, childvars
      <4>8. InUp(A \cup {})'
        BY <2>2, <2>6, <2>8, <4>1 DEF InUp
      <4>9. Told(cb, {}, {}, {Reply(f.n)}, None)'
        BY <2>1, <4>2 DEF Told
      <4>10. HostOver(hb, got, {})'
        BY <1>1, <2>4, <3>1 DEF HostOver
      <4>11. (ChildOver(cb, Sc) /\ reply = None /\ Shown(C) /\ pages \subseteq 1 .. seq)'
        BY <1>1, <2>1, <3>3, <4>1, <4>2 DEF ChildOver, Shown, NewPages, childvars
      <4>12. Exchange(hb, cb, got, None, {}, Sc, C, A, {}, {Reply(f.n)})'
        BY <1>1, <2>1, <4>1, <4>7, <4>8, <4>9, <4>10, <4>11 DEF Exchange
      <4> QED BY <2>1, <4>1, <4>12, ExchangeAgain
    <3> QED BY <3>2, <3>3
  <2>9. CASE m.kind = "feedback"
    <3>1. /\ host' = IF m.b \in elements THEN Append(host, At("serve", m.n, m.b)) ELSE host
          /\ up_buffer' = Tail(up_buffer) /\ UNCHANGED <<elements, running, alive, down, up, childvars>>
      BY <1>9, <2>2, <2>9 DEF TakeUp
    <3>2. PICK f \in Waits : /\ cb = Append(<<>>, f) /\ f.b \in 0 .. seq /\ R = {} /\ y = None
                             /\ m.n = f.n /\ "events" \in habit /\ m.b = f.b /\ f.b # None
      BY <2>7, <2>9
    <3>3. InUp(A \cup {})'
      BY <2>2, <2>6, <2>9, <3>1 DEF InUp
    <3>4. (alive => /\ ChildOver(cb, Sc) /\ InDown(C \cup R) /\ reply = y /\ Shown(C)
                    /\ pages \subseteq 1 .. seq)'
      BY <1>1, <2>1, <3>1 DEF ChildOver, InDown, Shown, NewPages, childvars
    <3>5. CASE m.b \in elements
      <4>1. PICK s \in Serves : s = At("serve", m.n, m.b) /\ s.n = f.n
        BY <3>2, ServeFrame
      <4>2. HostOver(hb, got, {s})'
        BY <2>3, <3>1, <3>5, <4>1 DEF HostOver
      <4>3. Told(cb, {}, {s}, R, y)'
        BY <2>1, <3>2, <4>1 DEF Told
      <4>4. Exchange(hb, cb, got, y, {s}, Sc, C, A, {}, R)'
        BY <1>1, <2>1, <3>1, <3>3, <3>4, <4>2, <4>3 DEF Exchange
      <4> QED BY <2>1, <3>1, <4>4, ExchangeAgain
    <3>6. CASE m.b \notin elements
      <4>1. HostOver(hb, got, {})'
        BY <1>1, <2>4, <3>1, <3>6 DEF HostOver
      <4>2. Told(cb, {}, {}, R, y)'
        BY <2>1, <3>1, <3>2, <3>6 DEF Told
      <4>3. Exchange(hb, cb, got, y, {}, Sc, C, A, {}, R)'
        BY <1>1, <2>1, <3>1, <3>3, <3>4, <4>1, <4>2 DEF Exchange
      <4> QED BY <2>1, <3>1, <4>3, ExchangeAgain
    <3> QED BY <3>5, <3>6
  <2> QED BY <1>9, <2>2, <2>5, <2>8, <2>9 DEF TakeUp
<1>10. CASE HostAnswers
  <2>1. /\ HostAt("serve") /\ host' = Front(host) /\ Write(Reply(Last(host).n), elements)
        /\ UNCHANGED <<habit, sent, seq, forced, starts>>
    BY <1>10 DEF HostAnswers
  <2>2. PICK g \in Loops, s \in Serves : /\ g.got = got /\ host' = Append(hb, g) /\ Sh = {s}
                                         /\ s = Last(host)
    BY <1>4, <2>1
  <2>3. HostOver(hb, got, {})'
    BY <2>2 DEF HostOver
  <2>4. PICK f \in Waits : cb = Append(<<>>, f) /\ f.b \in 0 .. seq /\ Q = {} /\ R = {} /\ y = None
                           /\ s.n = f.n
    BY <1>1, <2>2 DEF Told
  <2>5. CASE ~alive
    <3>1. ~running'
      BY <2>1, <2>5, Ends DEF Write
    <3> QED BY <1>1, <2>1, <2>3, <3>1, GotOf, Abandons
  <2>6. CASE alive
    <3>1. PICK p \in Message : p = Reply(f.n) /\ p.kind = "reply"
      BY Kinds, Replied DEF Frame
    <3>2. /\ down' = Append(down, p) /\ elements' = elements
          /\ UNCHANGED <<running, alive, up_buffer, up, childvars>>
      BY <2>1, <2>2, <2>4, <2>6, <3>1 DEF Write
    <3>3. p \notin C \cup R
      BY <1>3, <2>4, <3>1
    <3>4. Holds(down_buffer \o Append(down, p), (C \cup R) \cup {p})
      BY <1>1, <1>5, <2>6, <3>1, <3>3, StillHolds DEF InDown
    <3>5. (C \cup R) \cup {p} = C \cup {Reply(f.n)}
      BY <2>4, <3>1
    <3>6. InDown(C \cup {Reply(f.n)})'
      BY <3>2, <3>4, <3>5 DEF InDown, childvars
    <3>7. Told(cb, {}, {}, {Reply(f.n)}, None)'
      BY <2>1, <2>4 DEF Told
    <3>8. (ChildOver(cb, Sc) /\ reply = None /\ Shown(C) /\ pages \subseteq 1 .. seq)'
      BY <1>1, <2>1, <2>4, <2>6, <3>2 DEF ChildOver, Shown, NewPages, childvars
    <3>9. InUp(A \cup {})'
      BY <1>1, <2>4, <3>2 DEF InUp
    <3>10. Exchange(hb, cb, got, None, {}, Sc, C, A, {}, {Reply(f.n)})'
      BY <1>1, <2>1, <2>3, <3>2, <3>6, <3>7, <3>8, <3>9 DEF Exchange
    <3> QED BY <2>1, <3>2, <3>10, ExchangeAgain
  <2> QED BY <2>5, <2>6
<1>11. CASE ReadEnds
  <2>1. HostAt("read") /\ up_buffer = <<>> /\ UNCHANGED <<habit, sent, seq, starts>>
    BY <1>11 DEF ReadEnds
  <2>2. Front(host) = hb /\ Last(host).got = got /\ Sh = {}
    BY <1>4, <2>1
  <2>3. CASE /\ host' = hb /\ got = None
             /\ UNCHANGED <<forced, elements>> /\ Unstopped
    <3>1. HostOver(hb, got, Sh)'
      BY <2>2, <2>3 DEF HostOver
    <3>2. Told(cb, Q, Sh, R, y)'
      BY <1>1, <2>1, <2>3 DEF Told
    <3>3. (alive => /\ ChildOver(cb, Sc) /\ InDown(C \cup R) /\ reply = y /\ Shown(C)
                    /\ pages \subseteq 1 .. seq)'
      BY <1>1, <2>1, <2>3 DEF ChildOver, InDown, Shown, NewPages, Unstopped, childvars
    <3>4. InUp(A \cup Q)'
      BY <1>1, <2>3 DEF InUp, Unstopped
    <3>5. Exchange(hb, cb, got, y, Sh, Sc, C, A, Q, R)'
      BY <1>1, <2>1, <2>3, <3>1, <3>2, <3>3, <3>4 DEF Exchange
    <3> QED BY <2>3, <3>5, ExchangeAgain DEF Unstopped
  <2>4. CASE hb = <<>>
    <3>1. got = None
      BY <1>1, <2>4, EmptyStack, Stacked, Kinds DEF Asked
    <3> QED BY <1>11, <2>2, <2>3, <2>4, <3>1 DEF ReadEnds
  <2>5. CASE hb # <<>>
    <3>1. Front(hb) = <<>>
      BY <1>2, <2>5, Bases
    <3>2. \/ got # None /\ host' = <<>> /\ UNCHANGED <<forced, elements>> /\ Unstopped
          \/ got = None /\ host' = hb /\ UNCHANGED <<forced, elements>> /\ Unstopped
          \/ NoReply(Front(hb))
      BY <1>11, <2>2, <2>5, <3>1 DEF ReadEnds
    <3>3. CASE got # None /\ host' = <<>> /\ UNCHANGED <<forced, elements>> /\ Unstopped
      <4>1. C = {} /\ Sc = {} /\ A = {}
        BY <1>1, <3>3 DEF Asked
      <4>2. HostOver(<<>>, None, Sh)'
        BY <2>2, <3>3 DEF HostOver
      <4>3. Told(cb, Q, Sh, R, y)'
        BY <1>1, <2>1, <3>3 DEF Told
      <4>4. Asked(<<>>, None, C, Sc, A)
        BY <4>1 DEF Asked
      <4>5. (alive => /\ ChildOver(cb, Sc) /\ InDown(C \cup R) /\ reply = y /\ Shown(C)
                      /\ pages \subseteq 1 .. seq)'
        BY <1>1, <2>1, <3>3 DEF ChildOver, InDown, Shown, NewPages, Unstopped, childvars
      <4>6. InUp(A \cup Q)'
        BY <1>1, <3>3 DEF InUp, Unstopped
      <4>7. Exchange(<<>>, cb, None, y, Sh, Sc, C, A, Q, R)'
        BY <1>1, <2>1, <3>3, <4>2, <4>3, <4>4, <4>5, <4>6 DEF Exchange
      <4> QED BY <3>3, <4>7, ExchangeAgain DEF Unstopped
    <3> QED BY <1>2, <2>3, <2>5, <3>2, <3>3, GivesUpAll
  <2> QED BY <2>4, <2>5
<1>12. CASE GiveUp \/ TimesOut
  <2>1. HostAt("wait") /\ NoReply(Front(host))
    BY <1>12 DEF GiveUp, TimesOut
  <2>2. host = hb /\ hb # <<>>
    BY <1>4, <2>1 DEF HostAt
  <2> QED BY <1>2, <2>1, <2>2, GivesUpAll
<1> QED BY <1>6, <1>8, <1>9, <1>10, <1>11, <1>12 DEF HostWorks

(* What a call of the host to a running child writes. *)
LEMMA RunningCall ==
  ASSUME Typed, Typed', running, HostCalls, elements \subseteq 1 .. seq
  PROVE  /\ HostMayCall /\ habit' = habit /\ running
         /\ seq' \in 0 .. MaxBrowsers /\ seq \in Nat /\ seq' \in {seq, seq + 1}
         /\ \E kind \in {"new", "close", "call"}, b \in 0 .. MaxBrowsers, els \in SUBSET (1 .. seq') :
              /\ SendCommand(kind, b, els)
              /\ \A x \in 0 .. seq : x \in els => x \in elements
              /\ kind = "new" => els = elements \cup {b}
              /\ kind = "close" => els = elements \ {b}
              /\ kind = "call" => els = elements
<1>1. seq' \in 0 .. MaxBrowsers /\ seq \in 0 .. MaxBrowsers /\ seq \in Nat
  BY BrowserRpcAssumption DEF Typed
<1>2. \A b \in Browsers : b \in 0 .. MaxBrowsers
  BY BrowserRpcAssumption DEF Browsers
<1>3. CASE NewBrowser
  <2>1. /\ HostMayCall /\ habit' = habit /\ seq' = seq + 1
        /\ SendCommand("new", seq', elements \cup {seq'})
    BY <1>3 DEF NewBrowser
  <2>2. elements \cup {seq'} \in SUBSET (1 .. seq')
    BY <1>1, <2>1
  <2>3. \A x \in 0 .. seq : x # seq'
    BY <1>1, <2>1
  <2> QED BY <1>1, <2>1, <2>2, <2>3
<1>4. ASSUME NEW b \in Browsers, CallBrowser(b)
      PROVE  /\ HostMayCall /\ habit' = habit /\ seq' = seq /\ SendCommand("call", b, elements)
             /\ elements \in SUBSET (1 .. seq')
  BY <1>4 DEF CallBrowser
<1>5. ASSUME NEW b \in Browsers, CloseBrowser(b)
      PROVE  /\ HostMayCall /\ habit' = habit /\ seq' = seq
             /\ SendCommand("close", b, elements \ {b}) /\ elements \ {b} \in SUBSET (1 .. seq')
  BY <1>5 DEF CloseBrowser
<1>6. CASE \E b \in Browsers : CallBrowser(b)
  BY <1>1, <1>2, <1>4, <1>6
<1>7. CASE \E b \in Browsers : CloseBrowser(b)
  BY <1>1, <1>2, <1>5, <1>7
<1>8. ~StartChild
  BY DEF StartChild
<1> QED BY <1>3, <1>6, <1>7, <1>8 DEF HostCalls

(* A handler that served an event does not call the host's child. *)
LEMMA CallsOnlyFromTheLoop ==
  ASSUME Crosses(habit), HostMayCall,
         NEW hb, NEW cb, NEW got, NEW y, NEW Sh, NEW Sc, NEW C, NEW A, NEW Q, NEW R,
         Exchange(hb, cb, got, y, Sh, Sc, C, A, Q, R)
  PROVE  host = <<>> /\ hb = <<>> /\ got = None /\ Sh = {} /\ C = {} /\ Sc = {} /\ A = {}
<1>1. HostOver(hb, got, Sh) /\ Asked(hb, got, C, Sc, A) /\ Told(cb, Q, Sh, R, y)
  BY DEF Exchange
<1>2. hb = <<>> \/ \E w \in Waits : hb = Append(<<>>, w)
  BY HostBase
<1>3. ASSUME HostAt("serve"), "answers" \in habit PROVE FALSE
  <2>1. Sh # {}
    BY <1>1, <1>2, <1>3, TopOfHost
  <2>2. "events" \in habit
    BY <1>1, <2>1 DEF Told
  <2> QED BY <1>3, <2>2 DEF Crosses
<1>4. host = <<>>
  BY <1>3 DEF HostMayCall
<1>5. host = hb /\ got = None /\ Sh = {}
  BY <1>1, <1>2, <1>4, TopOfHost
<1>6. \A w \in Waits : Append(<<>>, w) # <<>>
  BY EmptyStack, Stacked, Kinds
<1> QED BY <1>1, <1>4, <1>5, <1>6 DEF Asked

LEMMA CallsOfExchange ==
  ASSUME Typed, Typed', Crosses(habit), running, ~forced,
         NEW hb, NEW cb, NEW got, NEW y, NEW Sh, NEW Sc, NEW C, NEW A, NEW Q, NEW R,
         Exchange(hb, cb, got, y, Sh, Sc, C, A, Q, R), HostCalls
  PROVE  Settled'
<1>1. /\ HostOver(hb, got, Sh) /\ InUp(A \cup Q) /\ elements \subseteq 1 .. seq
      /\ Asked(hb, got, C, Sc, A) /\ Told(cb, Q, Sh, R, y)
      /\ alive => /\ ChildOver(cb, Sc) /\ InDown(C \cup R) /\ reply = y /\ Shown(C)
                  /\ pages \subseteq 1 .. seq
  BY DEF Exchange
<1>2. PICK kind \in {"new", "close", "call"} : \E b \in 0 .. MaxBrowsers, els \in SUBSET (1 .. seq') :
        /\ SendCommand(kind, b, els)
        /\ \A x \in 0 .. seq : x \in els => x \in elements
        /\ kind = "new" => els = elements \cup {b}
        /\ kind = "close" => els = elements \ {b}
        /\ kind = "call" => els = elements
  BY <1>1, RunningCall
<1>3. PICK b \in 0 .. MaxBrowsers, els \in SUBSET (1 .. seq') :
        /\ SendCommand(kind, b, els)
        /\ \A x \in 0 .. seq : x \in els => x \in elements
        /\ kind = "new" => els = elements \cup {b}
        /\ kind = "close" => els = elements \ {b}
        /\ kind = "call" => els = elements
  BY <1>2
<1>4. HostMayCall /\ habit' = habit /\ seq \in Nat /\ seq' \in {seq, seq + 1}
  BY <1>1, RunningCall
<1>5. host = <<>> /\ hb = <<>> /\ got = None /\ Sh = {} /\ C = {} /\ Sc = {} /\ A = {}
  BY <1>4, CallsOnlyFromTheLoop
<1>6. PICK w \in Waits : w = [At("wait", sent', b) EXCEPT !.of = starts'] /\ w.n = sent'
  BY <1>3, <1>4, WaitsFor DEF SendCommand
<1>7. host' = Append(<<>>, w) /\ ~forced' /\ Write([kind |-> kind, n |-> sent', b |-> b], els)
  BY <1>3, <1>5, <1>6 DEF SendCommand
<1>8. sent' \in 0 .. Ack
  BY <1>6, Kinds DEF Frame
<1>9. PICK m \in Message : m = [kind |-> kind, n |-> sent', b |-> b]
  BY <1>8 DEF Message
<1>10. m.kind # "reply" /\ m.n = w.n /\ m.kind = kind /\ m.b = b /\ Write(m, els)
  BY <1>6, <1>7, <1>9
<1>11. HostOver(Append(<<>>, w), None, {})'
  BY <1>7 DEF HostOver
<1>12. CASE ~alive
  <2>1. ~running'
    BY <1>10, <1>12, Ends DEF Write
  <2> QED BY <1>7, <1>11, <2>1, Abandons
<1>13. CASE alive
  <2>1. down' = Append(down, m) /\ elements' = els /\ UNCHANGED <<running, alive, up_buffer, up, childvars>>
    BY <1>10, <1>13 DEF Write
  <2>2. m \notin C \cup R
    <3>1. \A r \in A \cup R : r \in Message /\ r.kind = "reply"
      BY <1>1, KindsOnTheWay
    <3> QED BY <1>5, <1>10, <3>1
  <2>3. Holds(down_buffer \o Append(down, m), (C \cup R) \cup {m})
    <3>1. down \in Pipes /\ down_buffer \in Pipes
      BY DEF Typed
    <3> QED BY <1>1, <1>13, <2>2, <3>1, StillHolds DEF InDown
  <2>4. (C \cup R) \cup {m} = {m} \cup R
    BY <1>5
  <2>5. InDown({m} \cup R)'
    BY <2>1, <2>3, <2>4 DEF InDown, childvars
  <2>6. pages = elements
    BY <1>1, <1>5, <1>13 DEF Shown
  <2>7. Shown({m})'
    <3>1. (NewPages(m) = els)'
      BY <1>3, <1>10, <2>1, <2>6 DEF NewPages, childvars
    <3> QED BY <2>1, <3>1 DEF Shown
  <2>8. (\A x \in 0 .. seq : x \in 0 .. seq') /\ (\A x \in 1 .. seq : x \in 1 .. seq')
    BY <1>4
  <2>9. Told(cb, Q, {}, R, y)'
    <3>1. ASSUME NEW x \in 0 .. seq, x \notin elements PROVE x \notin elements'
      BY <1>3, <2>1, <3>1
    <3>2. CASE cb = <<>> /\ Q = {} /\ Sh = {} /\ R = {} /\ y = None
      BY <1>5, <3>2 DEF Told
    <3>3. CASE ~(cb = <<>> /\ Q = {} /\ Sh = {} /\ R = {} /\ y = None)
      <4>1. PICK f \in Waits :
              /\ cb = Append(<<>>, f) /\ f.b \in 0 .. seq
              /\ \/ /\ R = {} /\ Sh = {} /\ y = None
                    /\ \E q \in Message :
                         /\ Q = {q} /\ q.n = f.n
                         /\ \/ q.kind = "feedback" /\ "events" \in habit /\ q.b = f.b /\ f.b # None
                            \/ q.kind = "ping" /\ f.n = Ack
                 \/ /\ Q = {} /\ R = {} /\ y = None /\ "events" \in habit
                    /\ \E s \in Serves : s.n = f.n /\ Sh = {s}
                 \/ Q = {} /\ Sh = {} /\ R = {Reply(f.n)} /\ y = None
                 \/ Q = {} /\ Sh = {} /\ R = {} /\ y = f.n
                 \/ Q = {} /\ Sh = {} /\ R = {} /\ y = None /\ f.b # None /\ f.b \notin elements
        BY <1>1, <3>3 DEF Told
      <4>2. f.b \in 0 .. seq' /\ (f.b \notin elements => f.b \notin elements')
        BY <2>8, <3>1, <4>1
      <4> QED BY <1>4, <1>5, <4>1, <4>2 DEF Told
    <3> QED BY <3>2, <3>3
  <2>10. Asked(Append(<<>>, w), None, {m}, {}, {})
    BY <1>10 DEF Asked
  <2>11. InUp({} \cup Q)'
    BY <1>1, <1>5, <2>1 DEF InUp
  <2>12. elements' \subseteq 1 .. seq'
    BY <1>3, <2>1
  <2>13. (ChildOver(cb, {}) /\ reply = y /\ pages \subseteq 1 .. seq)'
    BY <1>1, <1>5, <1>13, <2>1, <2>8 DEF ChildOver, childvars
  <2>14. Exchange(Append(<<>>, w), cb, None, y, {}, {}, {m}, {}, Q, R)'
    BY <1>11, <2>5, <2>7, <2>9, <2>10, <2>11, <2>12, <2>13 DEF Exchange
  <2> QED BY <1>7, <2>1, <2>14, ExchangeAgain
<1> QED BY <1>12, <1>13

-----------------------------------------------------------------------------
LEMMA ChildOfExchange ==
  ASSUME Typed, Typed', Crosses(habit), running, ~forced,
         NEW hb, NEW cb, NEW got, NEW y, NEW Sh, NEW Sc, NEW C, NEW A, NEW Q, NEW R,
         Exchange(hb, cb, got, y, Sh, Sc, C, A, Q, R),
         ChildWorks \/ ChildCalls \/ Crash \/ UNCHANGED vars
  PROVE  Settled'
<1>1. /\ HostOver(hb, got, Sh) /\ InUp(A \cup Q) /\ elements \subseteq 1 .. seq
      /\ Asked(hb, got, C, Sc, A) /\ Told(cb, Q, Sh, R, y)
      /\ alive => /\ ChildOver(cb, Sc) /\ InDown(C \cup R) /\ reply = y /\ Shown(C)
                  /\ pages \subseteq 1 .. seq
  BY DEF Exchange
<1>2. (cb = <<>> \/ \E w \in Waits : cb = Append(<<>>, w)) /\ cb \in Stack
      /\ (cb # <<>> => Last(cb).at = "wait" /\ Last(cb) \in Waits /\ Front(cb) = <<>>)
  BY HostBase, Bases
<1>3. /\ \A m \in A \cup R : m \in Message /\ m.kind = "reply"
      /\ \A m \in C \cup Q : m \in Message /\ m.kind # "reply"
  BY <1>1, KindsOnTheWay
<1>4. ASSUME alive
      PROVE  /\ child = <<>> \/ ChildAt("wait") => child = cb /\ Sc = {}
             /\ ChildAt("read") => Front(child) = cb /\ Sc = {} /\ Last(child) \in Reads
                                   /\ child = Append(cb, Last(child))
             /\ ChildAt("serve") => \E r \in Reads : /\ Front(child) = Append(cb, r)
                                                     /\ Sc = {Last(child)} /\ Last(child) \in Serves
  BY <1>1, <1>2, <1>4, TopOfChild
<1>5. up_buffer \in Pipes /\ up \in Pipes /\ down \in Pipes /\ down_buffer \in Pipes
  BY DEF Typed
<1>6. UNCHANGED <<habit, hostvars>>
  BY DEF ChildWorks, ChildCalls, OnDownFDReady, TakeDown, ChildAnswers, ChildReadEnds,
    FeedbackReturns, FeedbackOfScript, FeedbackOfEvent, CheckController, Feedback, Crash, vars
<1>7. UNCHANGED <<habit, up_buffer, host, seq, elements, forced, running>>
  BY <1>6 DEF hostvars
<1>8. HostOver(hb, got, Sh)'
  BY <1>1, <1>7 DEF HostOver
<1>9. ASSUME NEW c, NEW q, NEW s, NEW r, NEW z, Told(c, q, s, r, z) PROVE Told(c, q, s, r, z)'
  BY <1>7, <1>9 DEF Told
<1>10. ASSUME UNCHANGED up PROVE InUp(A \cup Q)'
  BY <1>1, <1>7, <1>10 DEF InUp
<1>11. ASSUME NEW j, OnDownFDReady(j) PROVE Settled'
  <2>1. /\ j \in 1 .. Len(down) /\ down_buffer' = down_buffer \o SubSeq(down, 1, j)
        /\ down' = SubSeq(down, j + 1, Len(down)) /\ child' = Append(child, At("read", None, None))
        /\ alive /\ UNCHANGED <<up, alive, reply, pages>> /\ (child = <<>> \/ ChildAt("wait"))
    BY <1>11 DEF OnDownFDReady, MainLoopRuns
  <2>2. child = cb /\ Sc = {}
    BY <1>4, <2>1
  <2>3. Holds((down_buffer \o SubSeq(down, 1, j)) \o SubSeq(down, j + 1, Len(down)), C \cup R)
    BY <1>1, <1>5, <2>1, StillHolds DEF InDown
  <2>4. InDown(C \cup R)'
    BY <2>1, <2>3 DEF InDown
  <2>5. ChildOver(cb, Sc)'
    BY <2>1, <2>2, Loop DEF ChildOver
  <2>6. (reply = y /\ Shown(C) /\ pages \subseteq 1 .. seq)'
    BY <1>1, <1>7, <2>1 DEF Shown, NewPages
  <2>7. Exchange(hb, cb, got, y, Sh, Sc, C, A, Q, R)'
    BY <1>1, <1>7, <1>8, <1>9, <1>10, <2>1, <2>4, <2>5, <2>6 DEF Exchange
  <2> QED BY <1>7, <2>7, ExchangeAgain
<1>12. CASE TakeDown
  <2>1. /\ ChildAt("read") /\ down_buffer # <<>> /\ down_buffer' = Tail(down_buffer) /\ alive
        /\ UNCHANGED <<up, down, alive>>
    BY <1>12 DEF TakeDown, ChildAt
  <2>2. PICK m \in Message : /\ m = Head(down_buffer) /\ m \in C \cup R
                             /\ Holds(Tail(down_buffer) \o down, (C \cup R) \ {m})
    BY <1>1, <1>5, <2>1, StillHolds DEF InDown
  <2>3. PICK r \in Reads : child = Append(cb, r)
    BY <1>4, <2>1
  <2>4. Sc = {}
    BY <1>4, <2>1
  <2>5. CASE m.kind = "reply"
    <3>1. reply' = m.n /\ UNCHANGED <<child, pages>>
      BY <1>12, <2>2, <2>5 DEF TakeDown
    <3>2. m \in R
      BY <1>3, <2>2, <2>5
    <3>3. PICK f \in Waits : /\ cb = Append(<<>>, f) /\ f.b \in 0 .. seq /\ Q = {} /\ Sh = {}
                             /\ R = {Reply(f.n)} /\ Reply(f.n).n = f.n
      BY <1>1, <3>2, KindsOnTheWay
    <3>4. m.n = f.n /\ (C \cup R) \ {m} = C \cup {}
      BY <1>3, <3>2, <3>3
    <3>5. InDown(C \cup {})'
      BY <2>1, <2>2, <3>4 DEF InDown
    <3>6. Told(cb, {}, {}, {}, f.n)
      BY <3>3 DEF Told
    <3>7. (ChildOver(cb, Sc) /\ reply = f.n /\ Shown(C) /\ pages \subseteq 1 .. seq)'
      BY <1>1, <1>7, <2>1, <3>1, <3>4 DEF ChildOver, Shown, NewPages
    <3>8. HostOver(hb, got, {})'
      BY <1>8, <3>3
    <3>9. InUp(A \cup {})'
      BY <1>10, <2>1, <3>3
    <3>10. Exchange(hb, cb, got, f.n, {}, Sc, C, A, {}, {})'
      BY <1>1, <1>7, <1>9, <3>5, <3>6, <3>7, <3>8, <3>9 DEF Exchange
    <3> QED BY <1>7, <3>10, ExchangeAgain
  <2>6. CASE m.kind # "reply"
    <3>1. child' = Append(child, At("serve", m.n, m.b)) /\ pages' = NewPages(m) /\ reply' = reply
      BY <1>12, <2>2, <2>6 DEF TakeDown, NewPages
    <3>2. m \in C /\ m \notin R
      BY <1>3, <2>2, <2>6
    <3>3. PICK w \in Waits : /\ hb = Append(<<>>, w) /\ got = None /\ A = {}
                             /\ m.n = w.n /\ C = {m}
      BY <1>1, <3>2 DEF Asked
    <3>4. PICK s \in Serves : s = At("serve", m.n, m.b) /\ s.n = m.n
      BY ServeFrame
    <3>5. (C \cup R) \ {m} = {} \cup R
      BY <3>2, <3>3
    <3>6. InDown({} \cup R)'
      BY <2>1, <2>2, <3>5 DEF InDown
    <3>7. Asked(hb, got, {}, {s}, {})
      BY <3>3, <3>4 DEF Asked
    <3>8. child' = Append(Append(cb, r), s)
      BY <2>3, <3>1, <3>4
    <3>9. ChildOver(cb, {s})'
      BY <3>8 DEF ChildOver
    <3>10. NewPages(m) = elements
      <4>1. C # {}
        BY <3>2
      <4> QED BY <1>1, <2>1, <3>3, <4>1 DEF Shown
    <3>11. (reply = y /\ Shown({}) /\ pages \subseteq 1 .. seq)'
      BY <1>1, <1>7, <2>1, <3>1, <3>10 DEF Shown
    <3>12. InUp({} \cup Q)'
      BY <1>10, <2>1, <3>3
    <3>13. Exchange(hb, cb, got, y, Sh, {s}, {}, {}, Q, R)'
      BY <1>1, <1>7, <1>8, <1>9, <3>6, <3>7, <3>9, <3>11, <3>12 DEF Exchange
    <3> QED BY <1>7, <3>13, ExchangeAgain
  <2> QED BY <2>5, <2>6
<1>13. CASE ChildAnswers
  <2>1. /\ ChildAt("serve") /\ child' = Front(child) /\ up' = Append(up, Reply(Last(child).n)) /\ alive
        /\ UNCHANGED <<down, alive, down_buffer, reply, pages>>
    BY <1>13 DEF ChildAnswers, ChildAt
  <2>2. PICK r \in Reads, s \in Serves : s = Last(child) /\ child' = Append(cb, r) /\ Sc = {s}
    BY <1>4, <2>1
  <2>3. PICK w \in Waits : hb = Append(<<>>, w) /\ got = None /\ C = {} /\ A = {} /\ s.n = w.n
    BY <1>1, <2>2 DEF Asked
  <2>4. PICK p \in Message : p = Reply(w.n) /\ p.kind = "reply"
    BY Kinds, Replied DEF Frame
  <2>5. p \notin A \cup Q
    BY <1>3, <2>3, <2>4
  <2>6. Holds(up_buffer \o Append(up, p), (A \cup Q) \cup {p})
    BY <1>1, <1>5, <2>4, <2>5, StillHolds DEF InUp
  <2>7. (A \cup Q) \cup {p} = {Reply(w.n)} \cup Q
    BY <2>3, <2>4
  <2>8. InUp({Reply(w.n)} \cup Q)'
    BY <1>7, <2>1, <2>2, <2>3, <2>4, <2>6, <2>7 DEF InUp
  <2>9. Asked(hb, got, {}, {}, {Reply(w.n)})
    BY <2>3 DEF Asked
  <2>10. (ChildOver(cb, {}) /\ InDown({} \cup R) /\ reply = y /\ Shown({}) /\ pages \subseteq 1 .. seq)'
    BY <1>1, <1>7, <2>1, <2>2, <2>3 DEF ChildOver, InDown, Shown
  <2>11. Exchange(hb, cb, got, y, Sh, {}, {}, {Reply(w.n)}, Q, R)'
    BY <1>1, <1>7, <1>8, <1>9, <2>8, <2>9, <2>10 DEF Exchange
  <2> QED BY <1>7, <2>11, ExchangeAgain
<1>14. CASE ChildReadEnds
  <2>1. /\ ChildAt("read") /\ child' = Front(child) /\ alive
        /\ UNCHANGED <<up, down, alive, down_buffer, reply, pages>>
    BY <1>14 DEF ChildReadEnds, ChildAt
  <2>2. child' = cb /\ Sc = {}
    BY <1>4, <2>1
  <2>3. (ChildOver(cb, Sc) /\ InDown(C \cup R) /\ reply = y /\ Shown(C) /\ pages \subseteq 1 .. seq)'
    BY <1>1, <1>7, <2>1, <2>2 DEF ChildOver, InDown, Shown, NewPages
  <2>4. Exchange(hb, cb, got, y, Sh, Sc, C, A, Q, R)'
    BY <1>1, <1>7, <1>8, <1>9, <1>10, <2>1, <2>3 DEF Exchange
  <2> QED BY <1>7, <2>4, ExchangeAgain
<1>15. CASE FeedbackReturns
  <2>1. /\ ChildAt("wait") /\ reply # None /\ child' = Front(child) /\ reply' = None /\ alive
        /\ UNCHANGED <<up, down, down_buffer, pages>>
    BY <1>15 DEF FeedbackReturns, ChildAt
  <2>2. child = cb /\ Sc = {} /\ y # None
    BY <1>1, <1>4, <2>1
  <2>3. cb # <<>> /\ Front(cb) = <<>>
    BY <1>2, <2>1, <2>2 DEF ChildAt
  <2>4. Q = {} /\ Sh = {} /\ R = {}
    BY <1>1, <2>2 DEF Told
  <2>5. Told(<<>>, {}, {}, {}, None)
    BY DEF Told
  <2>6. (ChildOver(<<>>, Sc) /\ InDown(C \cup R) /\ reply = None /\ Shown(C) /\ pages \subseteq 1 .. seq)'
    BY <1>1, <1>7, <2>1, <2>2, <2>3 DEF ChildOver, InDown, Shown, NewPages
  <2>7. Told(<<>>, Q, Sh, R, None)'
    BY <1>9, <2>4, <2>5
  <2>8. Exchange(hb, <<>>, got, None, Sh, Sc, C, A, Q, R)'
    BY <1>1, <1>7, <1>8, <1>10, <2>1, <2>6, <2>7 DEF Exchange
  <2> QED BY <1>7, <2>8, ExchangeAgain
<1>16. CASE ChildCalls
  <2>1. ~FeedbackOfScript
    BY DEF FeedbackOfScript, Crosses
  <2>2. SourceFires => alive /\ child = <<>>
    BY DEF SourceFires, MainLoopRuns, Crosses
  <2>3. ASSUME NEW kind, NEW n, NEW b, Feedback(kind, n, b), alive, child = <<>>,
               b \in 0 .. seq, n \in 0 .. Ack, n # None,
               \/ kind = "feedback" /\ "events" \in habit /\ b # None
               \/ kind = "ping" /\ n = Ack
        PROVE  Settled'
    <3>1. /\ up' = Append(up, [kind |-> kind, n |-> n, b |-> b])
          /\ child' = Append(<<>>, At("wait", n, b)) /\ reply' = None
          /\ UNCHANGED <<down, alive, down_buffer, pages>>
      BY <2>3 DEF Feedback
    <3>2. child = cb /\ Sc = {}
      BY <1>4, <2>3
    <3>3. \A f \in Waits : Append(<<>>, f) # <<>>
      BY EmptyStack, Stacked, Kinds
    <3>4. Q = {} /\ Sh = {} /\ R = {} /\ y = None /\ cb = <<>>
      BY <1>1, <2>3, <3>2, <3>3 DEF Told
    <3>5. b \in 0 .. MaxBrowsers
      BY <2>3, BrowserRpcAssumption DEF Typed
    <3>6. PICK m \in Message : m = [kind |-> kind, n |-> n, b |-> b]
      BY <2>3, <3>5 DEF Message
    <3>7. m.kind = kind /\ m.n = n /\ m.b = b /\ kind # "reply"
      BY <2>3, <3>6
    <3>8. PICK f \in Waits : f = At("wait", n, b) /\ f.n = n /\ f.b = b
      <4>1. PICK f : f = At("wait", n, b)
        OBVIOUS
      <4>2. f \in Frame /\ f.at = "wait" /\ f.n = n /\ f.b = b /\ f.got = None
        BY <2>3, <3>5, <4>1, Framed DEF Typed
      <4> QED BY <2>3, <4>1, <4>2 DEF Waits
    <3>9. m \notin A \cup Q
      BY <1>3, <3>4, <3>7
    <3>10. Holds(up_buffer \o Append(up, m), (A \cup Q) \cup {m})
      BY <1>1, <1>5, <3>9, StillHolds DEF InUp
    <3>11. (A \cup Q) \cup {m} = A \cup {m}
      BY <3>4
    <3>12. InUp(A \cup {m})'
      BY <1>7, <3>1, <3>6, <3>10, <3>11 DEF InUp
    <3>13. Told(Append(<<>>, f), {m}, {}, {}, None)
      BY <2>3, <3>7, <3>8 DEF Told
    <3>14. HostOver(hb, got, {})'
      BY <1>8, <3>4
    <3>15. (ChildOver(Append(<<>>, f), Sc) /\ reply = None /\ Shown(C) /\ pages \subseteq 1 .. seq)'
      BY <1>1, <1>7, <2>3, <3>1, <3>2, <3>8 DEF ChildOver, Shown, NewPages
    <3>16. InDown(C \cup {})'
      BY <1>1, <2>3, <3>1, <3>4 DEF InDown
    <3>17. Exchange(hb, Append(<<>>, f), got, None, {}, Sc, C, A, {m}, {})'
      BY <1>1, <1>7, <1>9, <3>12, <3>13, <3>14, <3>15, <3>16 DEF Exchange
    <3> QED BY <1>7, <3>17, ExchangeAgain
  <2>4. ASSUME NEW b \in Browsers, FeedbackOfEvent(b) PROVE Settled'
    <3>1. /\ "events" \in habit /\ alive /\ child = <<>> /\ b \in pages
          /\ Feedback("feedback", sent + 1, b)
      BY <2>2, <2>4 DEF FeedbackOfEvent
    <3>2. sent + 1 \in 0 .. Ack /\ sent + 1 # None
      BY <3>1, Numbered DEF Feedback, Typed
    <3>3. b \in 0 .. seq /\ b # None
      BY <1>1, <3>1 DEF None
    <3> QED BY <2>3, <3>1, <3>2, <3>3
  <2>5. CASE CheckController
    <3>1. alive /\ child = <<>> /\ Feedback("ping", Ack, None)
      BY <2>2, <2>5 DEF CheckController
    <3>2. None \in 0 .. seq /\ Ack \in 0 .. Ack /\ Ack # None
      BY BrowserRpcAssumption DEF Typed, None, Ack
    <3> QED BY <2>3, <3>1, <3>2
  <2> QED BY <1>16, <2>1, <2>4, <2>5 DEF ChildCalls
<1>17. CASE Crash
  <2>1. ~alive' /\ up' = up
    BY <1>17 DEF Crash
  <2>2. Exchange(hb, cb, got, y, Sh, Sc, C, A, Q, R)'
    BY <1>1, <1>7, <1>8, <1>9, <1>10, <2>1 DEF Exchange
  <2> QED BY <1>7, <2>2, ExchangeAgain
<1>18. CASE UNCHANGED vars
  <2>1. UNCHANGED <<up, down, alive, down_buffer, child, reply, pages>>
    BY <1>18 DEF vars, childvars
  <2>2. (alive => /\ ChildOver(cb, Sc) /\ InDown(C \cup R) /\ reply = y /\ Shown(C)
                  /\ pages \subseteq 1 .. seq)'
    BY <1>1, <1>7, <2>1 DEF ChildOver, InDown, Shown, NewPages
  <2>3. Exchange(hb, cb, got, y, Sh, Sc, C, A, Q, R)'
    BY <1>1, <1>7, <1>8, <1>9, <1>10, <2>1, <2>2 DEF Exchange
  <2> QED BY <1>7, <2>3, ExchangeAgain
<1> QED BY <1>11, <1>12, <1>13, <1>14, <1>15, <1>16, <1>17, <1>18 DEF ChildWorks

(* A child is started for the main loop, the first or after the last stopped. *)
LEMMA ExchangeBegins ==
  ASSUME Typed, Typed', Empty, host = <<>>, StartChild
  PROVE  Settled'
<1>1. sent' = sent + 1 /\ sent' \in 0 .. Ack /\ sent' # None
  BY Numbered DEF Typed, HostMayCall, StartChild
<1>2. seq' \in 0 .. MaxBrowsers /\ starts' \in 0 .. MaxStarts /\ seq' \in 1 .. seq'
  BY BrowserRpcAssumption DEF Typed, StartChild
<1>3. PICK m \in Message : m = [kind |-> "new", n |-> sent', b |-> seq']
  BY <1>1, <1>2 DEF Message
<1>4. PICK w \in Waits : w = [At("wait", sent', seq') EXCEPT !.of = starts'] /\ w.n = sent'
  BY <1>2, WaitsFor DEF StartChild
<1>5. m.kind # "reply" /\ m.n = w.n /\ m.kind = "new" /\ m.b = seq'
  BY <1>3, <1>4
<1>6. ~forced'
  BY ServingNone, ServingWaits DEF StartChild
<1>7. /\ elements' = {seq'} /\ pages' = {} /\ down' = <<m>> /\ host' = Append(<<>>, w) /\ running'
      /\ up' = <<>> /\ up_buffer' = <<>> /\ down_buffer' = <<>> /\ child' = <<>> /\ reply' = None
  BY <1>3, <1>4 DEF StartChild, Empty, childvars
<1>8. Holds(<<>> \o <<>>, {} \cup {})
  <2>1. <<>> \in Pipes
    BY Piped
  <2>2. <<>> \o <<>> = <<>>
    BY <2>1, PipedOn
  <2> QED BY <2>1, <2>2, HoldsNothing
<1>9. Holds(<<>> \o <<m>>, {m} \cup {})
  <2>1. <<>> \in Pipes /\ Append(<<>>, m) = <<m>>
    BY Piped, One
  <2>2. Holds(<<>> \o Append(<<>>, m), ({} \cup {}) \cup {m})
    BY <1>8, <2>1, StillHolds
  <2> QED BY <2>1, <2>2
<1>10. InUp({} \cup {})' /\ InDown({m} \cup {})'
  BY <1>7, <1>8, <1>9 DEF InUp, InDown
<1>11. HostOver(Append(<<>>, w), None, {})' /\ ChildOver(<<>>, {})'
  BY <1>7 DEF HostOver, ChildOver
<1>12. Asked(Append(<<>>, w), None, {m}, {}, {}) /\ Told(<<>>, {}, {}, {}, None)'
  BY <1>5 DEF Asked, Told
<1>13. Shown({m})'
  BY <1>5, <1>7 DEF Shown, NewPages
<1>14. elements' \subseteq 1 .. seq' /\ pages' \subseteq 1 .. seq' /\ reply' = None
  BY <1>2, <1>7
<1>15. Exchange(Append(<<>>, w), <<>>, None, None, {}, {}, {m}, {}, {}, {})'
  BY <1>10, <1>11, <1>12, <1>13, <1>14 DEF Exchange
<1> QED BY <1>6, <1>7, <1>15, ExchangeAgain

(* The host of a child that was stopped. *)
LEMMA AbandonedStep ==
  ASSUME Typed, Typed', Empty, Abandoned, ~forced, [Next]_vars
  PROVE  Settled'
<1>1. PICK hb, got : /\ HostOver(hb, got, {})
                     /\ \/ hb = <<>> /\ got = None
                        \/ \E w \in Waits : hb = Append(<<>>, w) /\ got \in {None, w.n}
  BY DEF Abandoned
<1>2. (hb = <<>> \/ \E w \in Waits : hb = Append(<<>>, w)) /\ ~running
  BY <1>1 DEF Abandoned
<1>3. hb \in Stack /\ (hb # <<>> => Front(hb) = <<>>)
  BY <1>2, Bases
<1>4. /\ host = <<>> \/ HostAt("wait") => host = hb /\ got = None
      /\ HostAt("read") => /\ Front(host) = hb /\ Last(host).got = got
      /\ ~HostAt("serve")
  BY <1>1, <1>2, TopOfHost
<1>5. HostCalls => StartChild /\ host = <<>>
  BY <1>2, <1>4, HostCallIs DEF HostMayCall
<1>6. (StartChild /\ host = <<>>) \/ ReadEnds \/ GiveUp \/ UNCHANGED vars
  BY <1>2, <1>4, <1>5, DeadChild DEF Empty, Next, HostWorks, ReadUpPipe, MayRead, ReadFails, TakeUp,
    HostAnswers, TimesOut, PingTimerCallback
<1>7. CASE ReadEnds
  <2>1. HostAt("read")
    BY <1>7 DEF ReadEnds
  <2>2. Front(host) = hb /\ Last(host).got = got
    BY <1>4, <2>1
  <2>3. CASE host' = hb /\ got = None /\ UNCHANGED forced /\ Unstopped
    <3>1. HostOver(hb, got, {})'
      BY <2>3 DEF HostOver
    <3>2. ~running'
      BY <1>2, <2>3 DEF Unstopped
    <3> QED BY <1>1, <2>3, <3>1, <3>2, Abandons
  <2>4. CASE hb = <<>>
    <3>1. got = None
      BY <1>1, <2>4, EmptyStack, Stacked, Kinds
    <3> QED BY <1>7, <2>2, <2>3, <2>4, <3>1 DEF ReadEnds
  <2>5. CASE hb # <<>>
    <3>1. \/ got # None /\ host' = <<>> /\ UNCHANGED <<forced, elements>> /\ Unstopped
          \/ got = None /\ host' = hb /\ UNCHANGED <<forced, elements>> /\ Unstopped
          \/ NoReply(Front(hb))
      BY <1>3, <1>7, <2>2, <2>5 DEF ReadEnds
    <3>2. CASE got # None /\ host' = <<>> /\ UNCHANGED <<forced, elements>> /\ Unstopped
      <4>1. HostOver(<<>>, None, {})' /\ ~running'
        BY <1>2, <3>2 DEF HostOver, Unstopped
      <4> QED BY <3>2, <4>1, Abandons
    <3> QED BY <1>2, <2>3, <2>5, <3>1, <3>2, GivesUpAll
  <2> QED BY <2>4, <2>5
<1>8. CASE GiveUp
  <2>1. HostAt("wait") /\ NoReply(Front(host))
    BY <1>8 DEF GiveUp
  <2>2. host = hb /\ hb # <<>>
    BY <1>4, <2>1 DEF HostAt
  <2> QED BY <1>2, <2>1, <2>2, GivesUpAll
<1>9. CASE UNCHANGED vars
  <2>1. UNCHANGED <<host, running, forced>>
    BY <1>9 DEF vars, hostvars
  <2>2. HostOver(hb, got, {})'
    BY <1>1, <2>1 DEF HostOver
  <2> QED BY <1>1, <1>2, <2>1, <2>2, Abandons
<1> QED BY <1>6, <1>7, <1>8, <1>9, ExchangeBegins

LEMMA SettledStep ==
  ASSUME Typed, Typed', Crosses(habit), ~running => Empty, Settled, [Next]_vars
  PROVE  Settled'
<1>1. CASE forced
  <2>1. Off /\ Empty
    BY <1>1 DEF Settled, Off
  <2>2. ~HostWorks /\ ~TimesOut /\ ~PingTimerCallback
    BY <2>1 DEF Off, HostWorks, ReadUpPipe, MayRead, ReadFails, TakeUp, HostAnswers, ReadEnds, GiveUp,
      TimesOut, HostAt, PingTimerCallback
  <2>3. HostCalls => StartChild
    BY <2>1, HostCallIs DEF Off
  <2>4. StartChild \/ UNCHANGED vars
    BY <2>1, <2>2, <2>3, DeadChild DEF Next
  <2>5. CASE UNCHANGED vars
    BY <1>1, <2>1, <2>5 DEF Settled, Off, vars, hostvars
  <2> QED BY <2>1, <2>4, <2>5, ExchangeBegins DEF Off
<1>2. CASE ~forced /\ Abandoned
  BY <1>2, AbandonedStep DEF Abandoned
<1>3. CASE ~forced /\ Exchanging
  <2>1. PICK hb, cb, got, y, Sh, Sc, C, A, Q, R : Exchange(hb, cb, got, y, Sh, Sc, C, A, Q, R)
    BY <1>3 DEF Exchanging
  <2>2. running
    BY <1>3 DEF Exchanging
  <2>3. CASE HostWorks \/ TimesOut \/ PingTimerCallback
    BY <1>3, <2>1, <2>2, <2>3, HostOfExchange
  <2>4. CASE HostCalls
    BY <1>3, <2>1, <2>2, <2>4, CallsOfExchange
  <2>5. CASE ChildWorks \/ ChildCalls \/ Crash \/ UNCHANGED vars
    BY <1>3, <2>1, <2>2, <2>5, ChildOfExchange
  <2> QED BY <2>3, <2>4, <2>5 DEF Next
<1> QED BY <1>1, <1>2, <1>3 DEF Settled

-----------------------------------------------------------------------------
(* What follows from it. *)
LEMMA Between ==
  ASSUME CInv, alive
  PROVE  ~forced /\ Exchanging
BY DEF CInv, Settled, Off, Abandoned, Empty

LEMMA OwnReplyToo ==
  ASSUME CInv
  PROVE  CommandGetsOwn
<1>1. SUFFICES ASSUME ~forced, NEW i \in 1 .. Len(host), host[i].got # None
               PROVE  i > 1 /\ host[i - 1].at = "wait" /\ host[i - 1].n = host[i].got
  BY DEF CommandGetsOwn
<1>2. PICK hb, got, S : /\ HostOver(hb, got, S)
                        /\ \/ hb = <<>> /\ got = None
                           \/ \E w \in Waits : hb = Append(<<>>, w) /\ got \in {None, w.n}
  <2>1. CASE Abandoned
    BY <2>1 DEF Abandoned
  <2>2. CASE Exchanging
    <3>1. PICK hb, cb, got, y, Sh, Sc, C, A, Q, R : Exchange(hb, cb, got, y, Sh, Sc, C, A, Q, R)
      BY <2>2 DEF Exchanging
    <3>2. HostOver(hb, got, Sh) /\ Asked(hb, got, C, Sc, A)
      BY <3>1 DEF Exchange
    <3> QED BY <3>2, GotOf
  <2> QED BY <1>1, <2>1, <2>2 DEF CInv, Settled
<1>3. Len(<<>>) = 0 /\ \A f \in Frame : Append(<<>>, f) \in Stack
                                        /\ Len(Append(<<>>, f)) = 1 /\ Append(<<>>, f)[1] = f
  <2>1. ASSUME NEW f \in Frame
        PROVE  Append(<<>>, f) \in Stack /\ Len(Append(<<>>, f)) = 1 /\ Append(<<>>, f)[1] = f
    BY One DEF Stack
  <2> QED BY <2>1, EmptySeq
<1>4. ASSUME NEW s \in Stack, NEW f \in Frame
      PROVE  /\ Append(s, f) \in Stack /\ Len(Append(s, f)) = Len(s) + 1 /\ Append(s, f)[Len(s) + 1] = f
             /\ \A k \in 1 .. Len(s) : Append(s, f)[k] = s[k]
  BY <1>4, AppendProperties DEF Stack
<1>5. PICK b : b = hb
  OBVIOUS
<1>6. b \in Stack /\ Len(b) \in {0, 1} /\ \A k \in 1 .. Len(b) : b[k].got = None
  <2>1. CASE b = <<>>
    BY <1>3, <2>1, EmptyStack
  <2>2. ASSUME NEW w \in Waits, b = Append(<<>>, w)
        PROVE  b \in Stack /\ Len(b) = 1 /\ b[1].got = None
    BY <1>3, <2>2, Kinds
  <2> QED BY <1>2, <1>5, <2>1, <2>2
<1>7. ASSUME NEW g \in Loops, g.got = got, NEW x, x = Append(b, g), x[i].got # None, i \in 1 .. Len(x)
      PROVE  i = 2 /\ x[1].at = "wait" /\ x[1].n = x[2].got /\ Len(x) = 2
  <2>1. /\ Len(x) = Len(b) + 1 /\ x[Len(b) + 1] = g
        /\ \A k \in 1 .. Len(b) : x[k] = b[k]
    BY <1>4, <1>6, <1>7, Kinds
  <2>2. CASE hb = <<>> /\ got = None
    <3>1. Len(b) = 0
      BY <1>3, <1>5, <2>2
    <3>2. i = 1 /\ x[1] = g
      BY <1>7, <2>1, <3>1
    <3> QED BY <1>7, <2>2, <3>2
  <2>3. ASSUME NEW w \in Waits, hb = Append(<<>>, w), got \in {None, w.n}
        PROVE  i = 2 /\ x[1].at = "wait" /\ x[1].n = x[2].got /\ Len(x) = 2
    <3>1. Len(b) = 1 /\ b[1] = w /\ w.at = "wait" /\ w.got = None
      BY <1>3, <1>5, <2>3, Kinds
    <3>2. Len(x) = 2 /\ x[2] = g /\ x[1] = w
      BY <2>1, <3>1
    <3>3. i = 1 \/ i = 2
      BY <1>7, <3>2
    <3> QED BY <1>7, <2>3, <3>1, <3>2, <3>3
  <2> QED BY <1>2, <2>2, <2>3
<1>8. CASE host = hb
  BY <1>1, <1>5, <1>6, <1>8
<1>9. ASSUME NEW g \in Loops, g.got = got, host = Append(hb, g)
      PROVE  i > 1 /\ host[i - 1].at = "wait" /\ host[i - 1].n = host[i].got
  <2>1. i = 2 /\ host[1].at = "wait" /\ host[1].n = host[2].got
    BY <1>1, <1>5, <1>7, <1>9
  <2>2. 2 > 1 /\ 2 - 1 = 1
    OBVIOUS
  <2> QED BY <2>1, <2>2
<1>10. ASSUME NEW g \in Loops, NEW s \in Serves, g.got = got, host = Append(Append(hb, g), s)
       PROVE  i > 1 /\ host[i - 1].at = "wait" /\ host[i - 1].n = host[i].got
  <2>1. PICK x \in Stack : x = Append(b, g)
    BY <1>6, Stacked, Kinds
  <2>2. PICK n \in Nat : n = Len(x)
    BY DEF Stack
  <2>3. /\ Len(host) = n + 1 /\ host[n + 1] = s /\ s.got = None
        /\ \A k \in 1 .. n : host[k] = x[k]
    BY <1>4, <1>5, <1>10, <2>1, <2>2, Kinds
  <2>4. i \in 1 .. n
    BY <1>1, <2>2, <2>3
  <2>5. i = 2 /\ x[1].at = "wait" /\ x[1].n = x[2].got /\ n = 2
    BY <1>1, <1>7, <1>10, <2>1, <2>2, <2>3, <2>4
  <2>6. 1 \in 1 .. 2 /\ 2 \in 1 .. 2 /\ 2 > 1 /\ 2 - 1 = 1
    OBVIOUS
  <2>7. host[1] = x[1] /\ host[2] = x[2]
    BY <2>3, <2>5, <2>6
  <2> QED BY <2>5, <2>6, <2>7
<1> QED BY <1>2, <1>8, <1>9, <1>10 DEF HostOver

LEMMA OwnAnswerToo ==
  ASSUME CInv
  PROVE  FeedbackGetsOwn
<1>1. SUFFICES ASSUME ChildAt("wait"), reply # None PROVE reply = Last(child).n
  BY DEF FeedbackGetsOwn
<1>2. alive
  BY <1>1 DEF ChildAt
<1>3. PICK hb, cb, got, y, Sh, Sc, C, A, Q, R : Exchange(hb, cb, got, y, Sh, Sc, C, A, Q, R)
  BY <1>2, Between DEF Exchanging
<1>4. ChildOver(cb, Sc) /\ reply = y /\ Told(cb, Q, Sh, R, y)
  BY <1>2, <1>3 DEF Exchange
<1>5. child = cb
  BY <1>1, <1>2, <1>3, <1>4, HostBase, TopOfChild
<1>6. PICK f \in Waits : cb = Append(<<>>, f) /\ y = f.n
  BY <1>1, <1>4 DEF Told
<1> QED BY <1>4, <1>5, <1>6, EmptyStack, Stacked, Kinds

(* Nothing is on its way, so that nothing but what is served is asked. *)
LEMMA SilentExchange ==
  ASSUME Typed, alive, Silent,
         NEW hb, NEW cb, NEW got, NEW y, NEW Sh, NEW Sc, NEW C, NEW A, NEW Q, NEW R,
         Exchange(hb, cb, got, y, Sh, Sc, C, A, Q, R)
  PROVE  A = {} /\ Q = {} /\ C = {} /\ R = {}
<1>1. up_buffer \in Pipes /\ up \in Pipes /\ down \in Pipes /\ down_buffer \in Pipes
  BY DEF Typed
<1>2. up_buffer = <<>> /\ up = <<>> /\ down = <<>> /\ down_buffer = <<>>
  BY DEF Silent
<1>3. Holds(up_buffer \o up, A \cup Q) /\ Holds(down_buffer \o down, C \cup R)
  BY DEF Exchange, InUp, InDown
<1>4. A \cup Q = {}
  BY <1>1, <1>2, <1>3, StillHolds
<1>5. C \cup R = {}
  BY <1>1, <1>2, <1>3, StillHolds
<1> QED BY <1>4, <1>5

LEMMA NoneWaitsEither ==
  ASSUME CInv
  PROVE  NoMutualWait
<1>1. SUFFICES ASSUME alive, Silent,
                      \/ HostAt("wait") /\ (child = <<>> \/ (ChildAt("wait") /\ reply = None))
                      \/ host = <<>> /\ ChildAt("wait") /\ reply = None
                         /\ Last(child).b \in elements \cup {None}
               PROVE  FALSE
  BY DEF NoMutualWait
<1>2. PICK hb, cb, got, y, Sh, Sc, C, A, Q, R : Exchange(hb, cb, got, y, Sh, Sc, C, A, Q, R)
  BY <1>1, Between DEF Exchanging
<1>3. /\ HostOver(hb, got, Sh) /\ Asked(hb, got, C, Sc, A) /\ Told(cb, Q, Sh, R, y)
      /\ ChildOver(cb, Sc) /\ reply = y
  BY <1>1, <1>2 DEF Exchange
<1>4. A = {} /\ Q = {} /\ C = {} /\ R = {}
  BY <1>1, <1>2, SilentExchange DEF CInv
<1>5. host = hb /\ got = None /\ Sh = {}
  BY <1>1, <1>2, <1>3, HostBase, TopOfHost
<1>6. child = cb /\ Sc = {}
  BY <1>1, <1>2, <1>3, HostBase, TopOfChild
<1>7. CASE HostAt("wait")
  <2>1. hb # <<>>
    BY <1>5, <1>7 DEF HostAt
  <2> QED BY <1>3, <1>4, <1>5, <1>6, <2>1, Kinds DEF Asked
<1>8. CASE ChildAt("wait") /\ reply = None /\ Last(child).b \in elements \cup {None}
  <2>1. cb # <<>>
    BY <1>6, <1>8 DEF ChildAt
  <2>2. PICK f \in Waits : cb = Append(<<>>, f) /\ f.b # None /\ f.b \notin elements
    BY <1>3, <1>4, <1>5, <1>8, <2>1, Kinds DEF Told
  <2>3. Last(cb) = f
    BY <2>2, EmptyStack, Stacked, Kinds
  <2> QED BY <1>6, <1>8, <2>2, <2>3
<1> QED BY <1>1, <1>7, <1>8

LEMMA SamePagesToo ==
  ASSUME CInv
  PROVE  PagesOfElements
<1>1. SUFFICES ASSUME Silent, alive \/ ~running PROVE pages = elements
  BY DEF PagesOfElements, CInv
<1>2. CASE ~running
  BY <1>2 DEF CInv, Empty
<1>3. CASE alive
  <2>1. PICK hb, cb, got, y, Sh, Sc, C, A, Q, R : Exchange(hb, cb, got, y, Sh, Sc, C, A, Q, R)
    BY <1>3, Between DEF Exchanging
  <2>2. C = {}
    BY <1>1, <1>3, <2>1, SilentExchange DEF CInv
  <2> QED BY <1>3, <2>1, <2>2 DEF Exchange, Shown
<1> QED BY <1>1, <1>2, <1>3

-----------------------------------------------------------------------------
(* The invariant of every habit: nested calls are in a phase, crossing ones  *)
(* in an exchange; about others it says nothing but their types, and that    *)
(* nothing is left of a child that is stopped.                               *)
CallsInv ==
  /\ Typed /\ (~running => Empty)
  /\ Nests(habit) => Ordered
  /\ Crosses(habit) => Settled

LEMMA SameHabit == ASSUME [Next]_vars PROVE habit' = habit
BY DEF Next, HostWorks, HostCalls, ChildWorks, ChildCalls, ReadUpPipe, ReadFails, TakeUp,
  HostAnswers, ReadEnds, GiveUp, TimesOut, StartChild, NewBrowser, CallBrowser, CloseBrowser,
  PingTimerCallback, OnDownFDReady, TakeDown, ChildAnswers, ChildReadEnds, FeedbackReturns,
  FeedbackOfScript, FeedbackOfEvent, CheckController, Feedback, Crash, vars

LEMMA NothingAsked ==
  ASSUME Init
  PROVE  Abandoned
<1>1. HostOver(<<>>, None, {})
  BY DEF Init, HostOver
<1> QED BY <1>1 DEF Init, Abandoned

(* In every state reached, whatever the pages and gadgets do: see CallsInv. *)
(* The code: SendCommandBuffer and ReadUpPipe of the host, SendFeedback and *)
(* OnDownFDReady of the child, each with the loop that serves the other.    *)
THEOREM BrowserCallsInvariant == Spec => []CallsInv
<1>1. Init => CallsInv
  BY InitTyped, NothingAsked DEF Init, CallsInv, Empty, Ordered, Stopped, Settled
<1>2. CallsInv /\ [Next]_vars => CallsInv'
  <2>1. SUFFICES ASSUME CallsInv, [Next]_vars PROVE CallsInv'
    OBVIOUS
  <2>2. Typed'
    BY <2>1, StepTyped DEF CallsInv
  <2>3. (~running => Empty)'
    BY <2>1, StillEmpty DEF CallsInv
  <2>4. habit' = habit
    BY <2>1, SameHabit
  <2>5. ASSUME Nests(habit) PROVE Ordered'
    BY <2>1, <2>2, <2>5, OrderedStep DEF CallsInv, BInv
  <2>6. ASSUME Crosses(habit) PROVE Settled'
    BY <2>1, <2>2, <2>6, SettledStep DEF CallsInv
  <2>7. (Nests(habit) <=> Nests(habit')) /\ (Crosses(habit) <=> Crosses(habit'))
    BY <2>4
  <2> QED BY <2>2, <2>3, <2>5, <2>6, <2>7 DEF CallsInv
<1> QED BY <1>1, <1>2, PTL DEF Spec

LEMMA OneOfBoth ==
  ASSUME OneCalls, CallsInv
  PROVE  BInv \/ CInv
BY DEF OneCalls, CallsInv, BInv, CInv, Typed

(* A command that gets a reply gets its own, and the main loop reads none,   *)
(* unless all recursions are to break: ReadUpPipe hands a reply, which names *)
(* no call, to whoever waits innermost.  Whatever the numbers of browsers,   *)
(* messages and children, if one side calls (OneCalls).                      *)
THEOREM CommandRepliesAreOwn == ASSUME OneCalls PROVE Spec => []CommandGetsOwn
<1>1. CallsInv => CommandGetsOwn
  BY OneOfBoth, OwnReply, OwnReplyToo
<1> QED BY <1>1, BrowserCallsInvariant, PTL

(* The same of the feedbacks and pings of the child, to which OnDownFDReady  *)
(* hands replies, unless a command has taken too long.                       *)
THEOREM FeedbackRepliesAreOwn == ASSUME OneCalls PROVE Spec => []FeedbackGetsOwn
<1>1. CallsInv => FeedbackGetsOwn
  BY OneOfBoth, OwnAnswer, OwnAnswerToo
<1> QED BY <1>1, BrowserCallsInvariant, PTL

(* The host in SendCommandBuffer and the child in SendFeedbackBuffer do not  *)
(* wait for each other with nothing on its way, nor the child for a host     *)
(* that has nothing to do, if one side calls (OneCalls).                     *)
THEOREM BrowserNeverDeadlocks == ASSUME OneCalls PROVE Spec => []NoMutualWait
<1>1. CallsInv => NoMutualWait
  BY OneOfBoth, NoneWaits, NoneWaitsEither
<1> QED BY <1>1, BrowserCallsInvariant, PTL

(* When nothing is under way, g_browsers of a child that lives are exactly   *)
(* the browser_elements_ of the host, if one side calls (OneCalls).          *)
THEOREM BrowserPagesMatch == ASSUME OneCalls PROVE Spec => []PagesOfElements
<1>1. CallsInv => PagesOfElements
  BY OneOfBoth, SamePages, SamePagesToo
<1> QED BY <1>1, BrowserCallsInvariant, PTL

-----------------------------------------------------------------------------
(* Only browsers that were opened are known to either side: a message that   *)
(* opens one in the child has a number that was given.                       *)
Dated(n) == {m \in Message : m.kind = "new" => m.b \in 1 .. n}
Opened ==
  /\ elements \subseteq 1 .. seq /\ pages \subseteq 1 .. seq
  /\ down \in Seq(Dated(seq)) /\ down_buffer \in Seq(Dated(seq))

LEMMA Later ==
  ASSUME seq \in Nat, seq' \in {seq, seq + 1}
  PROVE  /\ \A x \in 1 .. seq : x \in 1 .. seq'
         /\ \A p \in Seq(Dated(seq)) : p \in Seq(Dated(seq'))
<1>1. \A x \in 1 .. seq : x \in 1 .. seq'
  OBVIOUS
<1>2. Dated(seq) \subseteq Dated(seq')
  BY <1>1 DEF Dated
<1> QED BY <1>1, <1>2, SeqMonotonic

LEMMA NothingOpened ==
  ASSUME NEW n
  PROVE  <<>> \in Seq(Dated(n))
BY EmptySeq

LEMMA OpenedStays ==
  ASSUME Opened, UNCHANGED <<seq, down_buffer, pages>>, elements' \subseteq elements,
         \/ down' = down
         \/ \E n \in 0 .. Ack : down' = Append(down, Reply(n))
  PROVE  Opened'
<1>1. ASSUME NEW n \in 0 .. Ack PROVE Append(down, Reply(n)) \in Seq(Dated(seq))
  <2>1. PICK m \in Dated(seq) : m = Reply(n)
    BY Replied DEF Dated
  <2> QED BY <2>1, AppendProperties DEF Opened
<1>2. down' \in Seq(Dated(seq))
  BY <1>1 DEF Opened
<1> QED BY <1>2 DEF Opened

LEMMA OpenedStopped ==
  ASSUME StopChild
  PROVE  Opened'
BY NothingOpened DEF StopChild, Opened

LEMMA OpenedByCalls ==
  ASSUME Typed, Typed', Opened, HostCalls
  PROVE  Opened'
<1>1. seq \in Nat
  BY BrowserRpcAssumption DEF Typed
<1>2. CASE running
  <2>1. seq' \in {seq, seq + 1} /\ HostMayCall
    BY <1>2, RunningCall DEF Opened
  <2>2. PICK kind \in {"new", "close", "call"} : \E b \in 0 .. MaxBrowsers, els \in SUBSET (1 .. seq') :
          SendCommand(kind, b, els) /\ (kind = "new" => els = elements \cup {b})
    BY <1>2, RunningCall DEF Opened
  <2>3. PICK b \in 0 .. MaxBrowsers, els \in SUBSET (1 .. seq') :
          SendCommand(kind, b, els) /\ (kind = "new" => els = elements \cup {b})
    BY <2>2
  <2>4. sent' \in 0 .. Ack
    BY <2>1, <2>3, Numbered DEF SendCommand, HostMayCall, Typed
  <2>5. PICK m : m = [kind |-> kind, n |-> sent', b |-> b]
    OBVIOUS
  <2>6. m \in Dated(seq')
    BY <2>3, <2>4, <2>5 DEF Dated, Message
  <2>7. Write(m, els)
    BY <2>3, <2>5 DEF SendCommand
  <2>8. CASE StopChild
    BY <2>8, OpenedStopped
  <2>9. CASE ~StopChild
    <3>1. elements' = els /\ down' = Append(down, m) /\ UNCHANGED <<down_buffer, pages>>
      BY <1>2, <2>7, <2>9 DEF Write, childvars, Typed
    <3>2. down \in Seq(Dated(seq')) /\ down_buffer \in Seq(Dated(seq'))
          /\ pages \subseteq 1 .. seq'
      BY <1>1, <2>1, Later DEF Opened
    <3>3. down' \in Seq(Dated(seq'))
      BY <2>6, <3>1, <3>2, AppendProperties
    <3> QED BY <3>1, <3>2, <3>3 DEF Opened
  <2> QED BY <2>8, <2>9
<1>3. CASE StartChild
  <2>1. seq' = seq + 1 /\ elements' = elements \cup {seq'} /\ UNCHANGED <<down_buffer, pages>>
        /\ down' = <<[kind |-> "new", n |-> sent', b |-> seq']>> /\ HostMayCall /\ sent' = sent + 1
    BY <1>3 DEF StartChild, childvars
  <2>2. sent' \in 0 .. Ack /\ seq' \in 0 .. MaxBrowsers /\ seq' \in 1 .. seq'
    BY <1>1, <2>1, Numbered DEF HostMayCall, Typed
  <2>3. PICK m : m = [kind |-> "new", n |-> sent', b |-> seq']
    OBVIOUS
  <2>4. m \in Dated(seq')
    BY <2>2, <2>3 DEF Dated, Message
  <2>5. down' \in Seq(Dated(seq'))
    BY <2>1, <2>3, <2>4, One
  <2>6. down_buffer \in Seq(Dated(seq')) /\ pages \subseteq 1 .. seq' /\ elements \subseteq 1 .. seq'
    BY <1>1, <2>1, Later DEF Opened
  <2> QED BY <2>1, <2>2, <2>5, <2>6 DEF Opened
<1>4. running \/ StartChild
  BY DEF HostCalls, NewBrowser, CallBrowser, CloseBrowser
<1> QED BY <1>2, <1>3, <1>4

LEMMA OpenedStep ==
  ASSUME Typed, Typed', Opened, ~running => Empty, [Next]_vars
  PROVE  Opened'
<1>1. CASE StopChild
  BY <1>1, OpenedStopped
<1>2. ASSUME NEW j, ReadUpPipe(j) PROVE Opened'
  BY <1>2, OpenedStays DEF ReadUpPipe, childvars
<1>3. CASE ReadFails \/ PingTimerCallback
  BY <1>1, <1>3 DEF ReadFails, PingTimerCallback
<1>4. CASE TakeUp /\ ~StopChild
  <2>1. Ack \in 0 .. Ack
    BY BrowserRpcAssumption DEF Ack
  <2>2. UNCHANGED <<seq, elements, down_buffer, pages>> /\ (down' = down \/ down' = Append(down, Reply(Ack)))
    BY <1>4 DEF TakeUp, childvars
  <2> QED BY <2>1, <2>2, OpenedStays
<1>5. CASE HostAnswers /\ ~StopChild
  <2>1. Last(host).n \in 0 .. Ack
    BY <1>5, Unstacked DEF HostAnswers, HostAt, Typed, Frame
  <2>2. PICK n \in 0 .. Ack : n = Last(host).n
    BY <2>1
  <2>3. /\ UNCHANGED <<seq, down_buffer, pages>> /\ elements' = elements
        /\ (down' = down \/ down' = Append(down, Reply(n)))
    BY <1>5, <2>2 DEF HostAnswers, Write, Unstopped, childvars, Typed
  <2> QED BY <2>3, OpenedStays
<1>6. ASSUME NEW h, NoReply(h), ~StopChild, seq' = seq PROVE Opened'
  BY <1>6, OpenedStays DEF NoReply, Unstopped, childvars
<1>7. CASE (ReadEnds \/ GiveUp \/ TimesOut) /\ ~StopChild
  <2>1. CASE ReadEnds
    <3>1. \/ UNCHANGED elements /\ Unstopped
          \/ NoReply(Front(Front(host)))
      BY <2>1 DEF ReadEnds
    <3>2. seq' = seq
      BY <2>1 DEF ReadEnds
    <3> QED BY <1>6, <1>7, <3>1, <3>2, OpenedStays DEF Unstopped, childvars
  <2>2. CASE GiveUp \/ TimesOut
    BY <1>6, <1>7, <2>2 DEF GiveUp, TimesOut
  <2> QED BY <1>7, <2>1, <2>2
<1>8. CASE HostCalls
  BY <1>8, OpenedByCalls
<1>9. ASSUME NEW j, OnDownFDReady(j) PROVE Opened'
  <2>1. /\ j \in 1 .. Len(down) /\ down_buffer' = down_buffer \o SubSeq(down, 1, j)
        /\ down' = SubSeq(down, j + 1, Len(down)) /\ UNCHANGED <<seq, elements, pages>>
    BY <1>9 DEF OnDownFDReady, hostvars
  <2>2. down_buffer' \in Seq(Dated(seq)) /\ down' \in Seq(Dated(seq))
    BY <2>1, SeqRead DEF Opened
  <2> QED BY <2>1, <2>2 DEF Opened
<1>10. CASE TakeDown
  <2>1. /\ down_buffer # <<>> /\ down_buffer' = Tail(down_buffer) /\ UNCHANGED <<seq, elements, down>>
        /\ \/ pages' = pages
           \/ /\ Head(down_buffer).kind = "new"
              /\ pages' = pages \cup {Head(down_buffer).b}
           \/ pages' = pages \ {Head(down_buffer).b}
    BY <1>10 DEF TakeDown, hostvars
  <2>2. Head(down_buffer) \in Dated(seq) /\ Tail(down_buffer) \in Seq(Dated(seq))
    BY <2>1, HeadTailProperties DEF Opened
  <2>3. pages' \subseteq 1 .. seq
    BY <2>1, <2>2 DEF Dated, Opened
  <2> QED BY <2>1, <2>2, <2>3 DEF Opened
<1>11. CASE ChildAnswers \/ ChildReadEnds \/ FeedbackReturns \/ ChildCalls \/ UNCHANGED vars
  <2>1. UNCHANGED <<seq, elements, down, down_buffer, pages>>
    BY <1>11 DEF ChildAnswers, ChildReadEnds, FeedbackReturns, ChildCalls, FeedbackOfScript,
      FeedbackOfEvent, CheckController, Feedback, vars, hostvars, childvars
  <2> QED BY <2>1, OpenedStays
<1>12. CASE Crash
  BY <1>12, NothingOpened DEF Crash, hostvars, Opened
<1> QED
  BY <1>1, <1>2, <1>3, <1>4, <1>5, <1>7, <1>8, <1>9, <1>10, <1>11, <1>12
  DEF Next, HostWorks, ChildWorks

(* Every variable has its type; neither side knows a browser that was not    *)
(* opened (EnsureBrowser numbers them by browser_seq_), whatever pages and   *)
(* gadgets do.                                                               *)
THEOREM TypeCorrect == Spec => []TypeOK
<1>1. Init => Opened
  BY NothingOpened DEF Init, Opened
<1>2. CallsInv /\ CallsInv' /\ Opened /\ [Next]_vars => Opened'
  BY OpenedStep DEF CallsInv
<1>3. CallsInv /\ Opened => TypeOK
  BY DEF CallsInv, Typed, Opened, TypeOK, Pipes, Stack
<1> QED BY <1>1, <1>2, <1>3, BrowserCallsInvariant, PTL DEF Spec
=============================================================================
