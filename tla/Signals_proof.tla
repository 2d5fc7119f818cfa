--------------------------- MODULE Signals_proof ---------------------------
(***************************************************************************)
(* Proofs about Signals: whatever slots do, no Emit indexes past the       *)
(* vector, none of them touches a deleted signal, and together they call   *)
(* what Multicast promises.                                                *)
(***************************************************************************)
EXTENDS Signals, SequenceTheorems, WellFoundedInduction, TLAPS

(* A set of naturals has a least element: induction by least counterexample. *)
LEMMA LeastNat ==
  ASSUME NEW T \in SUBSET Nat, T # {}
  PROVE  \E x \in T : \A y \in T : x <= y
<1> DEFINE R == {ss \in Nat \X Nat : ss[1] < ss[2]}
<1>1. IsWellFoundedOn(R, Nat)
  BY NatLessThanWellFounded DEF OpToRel
<1>2. PICK x \in T : \A y \in T : ~(<<y, x>> \in R)
  <2> HIDE DEF R
  <2> QED BY <1>1, WFMin
<1>3. ASSUME NEW y \in T PROVE x <= y
  <2>1. x \in Nat /\ y \in Nat
    OBVIOUS
  <2>2. ~(y < x)
    BY <1>2, <2>1
  <2> QED BY <2>1, <2>2
<1> QED BY <1>3

(* Induction over an initial segment, with a set for the predicate. *)
LEMMA SegmentInduction ==
  ASSUME NEW n \in Nat, NEW A,
         0 \in A,
         \A k \in 1 .. n : k - 1 \in A => k \in A
  PROVE  0 .. n \subseteq A
<1> SUFFICES ASSUME ~(0 .. n \subseteq A) PROVE FALSE
  OBVIOUS
<1> DEFINE T == (0 .. n) \ A
<1>1. PICK x \in T : \A y \in T : x <= y
  <2>1. T \in SUBSET Nat /\ T # {}
    OBVIOUS
  <2> QED BY <2>1, LeastNat
<1>2. x \in 1 .. n
  OBVIOUS
<1>3. x - 1 \in 0 .. n /\ ~(x <= x - 1)
  BY <1>2
<1>4. x - 1 \in A
  BY <1>1, <1>3
<1> QED BY <1>2, <1>4

(* g counts up what Erase keeps of the first elements of s. *)
Keeps(s, c, g) ==
  \A k \in 0 .. Len(s) : g[k] = IF k = 0 THEN <<>>
                                ELSE IF s[k] = c THEN g[k - 1]
                                ELSE Append(g[k - 1], s[k])

(* Erase is what its recursion says. *)
LEMMA EraseSteps ==
  ASSUME NEW S, NEW s \in Seq(S), NEW c
  PROVE  \E g \in [0 .. Len(s) -> Seq(S \ {c})] : Keeps(s, c, g) /\ Erase(s, c) = g[Len(s)]
<1> DEFINE n == Len(s)
           Step(g, k) == IF k = 0 THEN <<>>
                         ELSE IF s[k] = c THEN g[k - 1]
                         ELSE Append(g[k - 1], s[k])
           upTo == CHOOSE g : g = [k \in 0 .. n |-> Step(g, k)]
           Ok(g, m) == \A k \in 0 .. m : g[k] = Step(g, k)
           A == {m \in 0 .. n : \E g \in [0 .. m -> Seq(S \ {c})] : Ok(g, m)}
<1>1. n \in Nat /\ \A k \in 1 .. n : s[k] \in S
  OBVIOUS
<1>2. 0 \in A
  <2> DEFINE g == [k \in 0 .. 0 |-> <<>>]
  <2>1. g \in [0 .. 0 -> Seq(S \ {c})] /\ Ok(g, 0)
    OBVIOUS
  <2>2. 0 \in 0 .. n
    BY <1>1
  <2> HIDE DEF g, Ok
  <2> QED BY <2>1, <2>2
<1>3. ASSUME NEW m \in 1 .. n, m - 1 \in A PROVE m \in A
  <2>1. PICK g \in [0 .. m - 1 -> Seq(S \ {c})] : Ok(g, m - 1)
    BY <1>3
  <2> DEFINE h == [k \in 0 .. m |-> IF k = m THEN Step(g, m) ELSE g[k]]
  <2>2. m \in Nat /\ m # 0 /\ m - 1 \in 0 .. m - 1 /\ g[m - 1] \in Seq(S \ {c}) /\ s[m] \in S
    BY <1>1
  <2>3. Step(g, m) \in Seq(S \ {c})
    BY <2>2
  <2>4. h \in [0 .. m -> Seq(S \ {c})]
    <3> HIDE DEF Step
    <3> QED BY <2>2, <2>3
  <2>5. ASSUME NEW k \in 0 .. m PROVE h[k] = Step(h, k)
    <3>1. k # 0 => /\ k - 1 \in 0 .. m /\ k - 1 # m /\ h[k - 1] = g[k - 1]
      BY <2>2
    <3>2. Step(h, k) = Step(g, k)
      <4> HIDE DEF h
      <4> QED BY <3>1
    <3>3. k # m => k \in 0 .. m - 1 /\ g[k] = Step(g, k)
      <4>1. k # m => k \in 0 .. m - 1
        BY <2>2
      <4> HIDE DEF Step
      <4> QED BY <2>1, <4>1
    <3>4. h[k] = IF k = m THEN Step(g, m) ELSE g[k]
      OBVIOUS
    <3> HIDE DEF h, Step
    <3> QED BY <3>2, <3>3, <3>4
  <2>6. m \in 0 .. n
    BY <1>1
  <2>7. Ok(h, m)
    <3> HIDE DEF h, Step
    <3> QED BY <2>5
  <2> HIDE DEF h, Ok
  <2> QED BY <2>4, <2>6, <2>7
<1>4. n \in A
  <2> HIDE DEF A
  <2>1. 0 .. n \subseteq A
    BY <1>1, <1>2, <1>3, SegmentInduction
  <2> QED BY <2>1, <1>1
<1>5. PICK g \in [0 .. n -> Seq(S \ {c})] : Ok(g, n)
  BY <1>4
<1>6. g = [k \in 0 .. n |-> Step(g, k)]
  <2> HIDE DEF Step
  <2> QED BY <1>5
<1>7. upTo = [k \in 0 .. n |-> Step(upTo, k)]
  <2> HIDE DEF Step, n
  <2> QED BY <1>6
<1> DEFINE B == {k \in 0 .. n : upTo[k] = g[k]}
<1>8. 0 .. n \subseteq B
  <2>1. \A k \in 0 .. n : upTo[k] = Step(upTo, k) /\ g[k] = Step(g, k)
    <3> HIDE DEF upTo, Step
    <3> QED BY <1>5, <1>7
  <2>2. 0 \in B
    <3> HIDE DEF upTo, n
    <3> QED BY <2>1, <1>1
  <2>3. ASSUME NEW k \in 1 .. n, k - 1 \in B PROVE k \in B
    <3>1. k \in 0 .. n /\ k # 0
      BY <1>1
    <3>2. upTo[k - 1] = g[k - 1]
      BY <2>3
    <3> HIDE DEF upTo, n
    <3> QED BY <2>1, <3>1, <3>2
  <2> HIDE DEF B
  <2> QED BY <2>2, <2>3, <1>1, SegmentInduction
<1>9. upTo[n] = g[n]
  <2> HIDE DEF upTo, n
  <2> QED BY <1>1, <1>8
<1>10. Erase(s, c) = upTo[n]
  BY DEF Erase
<1>11. Keeps(s, c, g)
  BY <1>5 DEF Keeps
<1> HIDE DEF upTo
<1> QED BY <1>5, <1>9, <1>10, <1>11

(* Erase returns a sequence of the other elements, no longer than s. *)
LEMMA EraseType ==
  ASSUME NEW S, NEW s \in Seq(S), NEW c
  PROVE  Erase(s, c) \in Seq(S \ {c}) /\ Len(Erase(s, c)) <= Len(s)
<1>1. PICK g \in [0 .. Len(s) -> Seq(S \ {c})] : Keeps(s, c, g) /\ Erase(s, c) = g[Len(s)]
  BY EraseSteps
<1>2. PICK n \in Nat : n = Len(s)
  OBVIOUS
<1> DEFINE B == {k \in 0 .. n : Len(g[k]) <= k}
<1>3. 0 \in B
  BY <1>1, <1>2 DEF Keeps
<1>4. ASSUME NEW k \in 1 .. n, k - 1 \in B PROVE k \in B
  <2>1. /\ Len(g[k - 1]) <= k - 1 /\ g[k - 1] \in Seq(S \ {c})
        /\ k \in 0 .. n /\ k # 0 /\ s[k] \in S
    BY <1>2, <1>4
  <2>2. g[k] = IF s[k] = c THEN g[k - 1] ELSE Append(g[k - 1], s[k])
    BY <1>1, <1>2, <2>1 DEF Keeps
  <2>3. Len(g[k]) <= k
    BY <2>1, <2>2
  <2> QED BY <2>1, <2>3
<1>5. 0 .. n \subseteq B
  <2> HIDE DEF B
  <2> QED BY <1>3, <1>4, SegmentInduction
<1>6. n \in B /\ n \in 0 .. n
  BY <1>5
<1> QED BY <1>1, <1>2, <1>6

(* There is nothing to erase from the empty sequence. *)
LEMMA EraseEmpty ==
  ASSUME NEW c
  PROVE  Erase(<<>>, c) = <<>>
<1>1. PICK e : e = <<>>
  OBVIOUS
<1>2. e \in Seq({}) /\ Len(e) = 0
  BY <1>1, EmptySeq
<1>3. PICK g \in [0 .. Len(e) -> Seq({} \ {c})] : Keeps(e, c, g) /\ Erase(e, c) = g[Len(e)]
  BY <1>2, EraseSteps
<1>4. 0 \in 0 .. Len(e)
  BY <1>2
<1>5. g[0] = <<>>
  BY <1>3, <1>4 DEF Keeps
<1> QED BY <1>1, <1>2, <1>3, <1>5

(* Erase works element by element. *)
LEMMA EraseAppend ==
  ASSUME NEW S, NEW s \in Seq(S), NEW x \in S, NEW c
  PROVE  Erase(Append(s, x), c) = IF x = c THEN Erase(s, c) ELSE Append(Erase(s, c), x)
<1>1. PICK n, t : n = Len(s) /\ t = Append(s, x)
  OBVIOUS
<1>0. n \in Nat /\ t \in Seq(S)
  BY <1>1
<1>2. Len(t) = n + 1 /\ t[n + 1] = x /\ \A k \in 1 .. n : t[k] = s[k]
  BY <1>1, <1>0
<1>3. PICK g \in [0 .. n -> Seq(S \ {c})] : Keeps(s, c, g) /\ Erase(s, c) = g[n]
  BY <1>0, <1>1, EraseSteps
<1>4. PICK h \in [0 .. n + 1 -> Seq(S \ {c})] : Keeps(t, c, h) /\ Erase(t, c) = h[n + 1]
  <2>1. PICK h \in [0 .. Len(t) -> Seq(S \ {c})] : Keeps(t, c, h) /\ Erase(t, c) = h[Len(t)]
    BY <1>0, EraseSteps
  <2> QED BY <1>2, <2>1
<1> DEFINE B == {k \in 0 .. n : g[k] = h[k]}
<1>5. 0 \in B
  <2>1. 0 \in 0 .. n /\ 0 \in 0 .. n + 1
    BY <1>0
  <2>2. g[0] = <<>> /\ h[0] = <<>>
    BY <1>1, <1>2, <1>3, <1>4, <2>1 DEF Keeps
  <2> QED BY <2>1, <2>2
<1>6. ASSUME NEW k \in 1 .. n, k - 1 \in B PROVE k \in B
  <2>1. k \in 0 .. n /\ k \in 0 .. n + 1 /\ k # 0 /\ t[k] = s[k]
    BY <1>0, <1>2
  <2>2. g[k - 1] = h[k - 1]
    BY <1>6
  <2>3. g[k] = IF s[k] = c THEN g[k - 1] ELSE Append(g[k - 1], s[k])
    BY <1>1, <1>3, <2>1 DEF Keeps
  <2>4. h[k] = IF t[k] = c THEN h[k - 1] ELSE Append(h[k - 1], t[k])
    BY <1>2, <1>4, <2>1 DEF Keeps
  <2> QED BY <2>1, <2>2, <2>3, <2>4
<1>7. 0 .. n \subseteq B
  <2> HIDE DEF B
  <2> QED BY <1>0, <1>5, <1>6, SegmentInduction
<1>8. n \in 0 .. n /\ n + 1 \in 0 .. n + 1 /\ n + 1 # 0 /\ n + 1 - 1 = n
  BY <1>0
<1>9. g[n] = h[n]
  BY <1>7, <1>8
<1>10. h[n + 1] = IF t[n + 1] = c THEN h[n] ELSE Append(h[n], t[n + 1])
  <2>1. PICK m : m = n + 1
    OBVIOUS
  <2>2. m \in 0 .. Len(t) /\ m # 0 /\ m - 1 = n
    BY <1>2, <1>8, <2>1
  <2>3. h[m] = IF t[m] = c THEN h[m - 1] ELSE Append(h[m - 1], t[m])
    BY <1>4, <2>2 DEF Keeps
  <2> QED BY <2>1, <2>2, <2>3
<1> QED BY <1>1, <1>2, <1>3, <1>4, <1>9, <1>10

(* What holds of the empty sequence, and of a sequence with one more        *)
(* element, holds of all: G are the sequences of which it holds.            *)
LEMMA SeqInduction ==
  ASSUME NEW S, NEW s \in Seq(S), NEW G,
         <<>> \in G,
         \A t \in Seq(S), x \in S : t \in G => Append(t, x) \in G
  PROVE  s \in G
<1>1. PICK n \in Nat : n = Len(s)
  OBVIOUS
<1> DEFINE A == {k \in 0 .. n : SubSeq(s, 1, k) \in G}
<1>2. 0 \in A
  <2>1. SubSeq(s, 1, 0) = <<>> /\ 0 \in 0 .. n
    OBVIOUS
  <2> QED BY <2>1
<1>3. ASSUME NEW k \in 1 .. n, k - 1 \in A PROVE k \in A
  <2>1. /\ SubSeq(s, 1, k - 1) \in Seq(S) /\ s[k] \in S
        /\ SubSeq(s, 1, k) = Append(SubSeq(s, 1, k - 1), s[k])
    BY <1>1
  <2>2. SubSeq(s, 1, k - 1) \in G /\ k \in 0 .. n
    BY <1>3
  <2> QED BY <2>1, <2>2
<1>4. 0 .. n \subseteq A
  <2> HIDE DEF A
  <2> QED BY <1>2, <1>3, SegmentInduction
<1>5. n \in A /\ SubSeq(s, 1, n) = s
  <2>1. n \in 0 .. n
    OBVIOUS
  <2> HIDE DEF A
  <2> QED BY <1>1, <1>4, <2>1, SubSeqFull
<1> QED BY <1>5

(* Erase works part by part. *)
LEMMA EraseConcat ==
  ASSUME NEW S, NEW s \in Seq(S), NEW t \in Seq(S), NEW c
  PROVE  Erase(s \o t, c) = Erase(s, c) \o Erase(t, c)
<1> DEFINE G == {u \in Seq(S) : Erase(s \o u, c) = Erase(s, c) \o Erase(u, c)}
<1>1. Erase(s, c) \in Seq(S \ {c})
  BY EraseType
<1>2. <<>> \in G
  <2>1. s \o <<>> = s /\ <<>> \in Seq(S)
    OBVIOUS
  <2>2. Erase(s, c) \o <<>> = Erase(s, c)
    BY <1>1, ConcatEmptySeq
  <2> QED BY <2>1, <2>2, EraseEmpty
<1>3. ASSUME NEW u \in Seq(S), NEW x \in S, u \in G PROVE Append(u, x) \in G
  <2>1. s \o Append(u, x) = Append(s \o u, x) /\ s \o u \in Seq(S) /\ Append(u, x) \in Seq(S)
    OBVIOUS
  <2>2. Erase(s \o Append(u, x), c) =
          IF x = c THEN Erase(s \o u, c) ELSE Append(Erase(s \o u, c), x)
    <3>1. PICK p \in Seq(S) : p = s \o u
      BY <2>1
    <3>2. Erase(Append(p, x), c) = IF x = c THEN Erase(p, c) ELSE Append(Erase(p, c), x)
      BY EraseAppend
    <3> QED BY <2>1, <3>1, <3>2
  <2>3. Erase(Append(u, x), c) = IF x = c THEN Erase(u, c) ELSE Append(Erase(u, c), x)
    BY EraseAppend
  <2>4. Erase(u, c) \in Seq(S \ {c})
    BY EraseType
  <2>5. Erase(s \o u, c) = Erase(s, c) \o Erase(u, c)
    BY <1>3
  <2>6. x # c => Append(Erase(s, c) \o Erase(u, c), x) = Erase(s, c) \o Append(Erase(u, c), x)
    <3>1. PICK p \in Seq(S), q \in Seq(S) : p = Erase(s, c) /\ q = Erase(u, c)
      <4>1. S \ {c} \subseteq S
        OBVIOUS
      <4>2. Erase(s, c) \in Seq(S)
        BY <1>1, <4>1, SeqMonotonic
      <4>3. Erase(u, c) \in Seq(S)
        BY <2>4, <4>1, SeqMonotonic
      <4> QED BY <4>2, <4>3
    <3>3. p \o Append(q, x) = Append(p \o q, x)
      OBVIOUS
    <3> QED BY <3>1, <3>3
  <2> QED BY <2>1, <2>2, <2>3, <2>5, <2>6
<1>4. t \in G
  <2> HIDE DEF G
  <2> QED BY <1>2, <1>3, SeqInduction
<1> QED BY <1>4

(* What is erased is not there any more. *)
LEMMA EraseAbsent ==
  ASSUME NEW S, NEW c, NEW s \in Seq(S \ {c})
  PROVE  Erase(s, c) = s
<1> DEFINE G == {u \in Seq(S \ {c}) : Erase(u, c) = u}
<1>1. <<>> \in G
  BY EraseEmpty
<1>2. ASSUME NEW u \in Seq(S \ {c}), NEW x \in S \ {c}, u \in G PROVE Append(u, x) \in G
  BY <1>2, EraseAppend
<1>3. s \in G
  <2> HIDE DEF G
  <2> QED BY <1>1, <1>2, SeqInduction
<1> QED BY <1>3

(* The order of two erasures does not matter. *)
LEMMA EraseCommutes ==
  ASSUME NEW S, NEW s \in Seq(S), NEW c, NEW d
  PROVE  Erase(Erase(s, c), d) = Erase(Erase(s, d), c)
<1> DEFINE G == {u \in Seq(S) : Erase(Erase(u, c), d) = Erase(Erase(u, d), c)}
<1>1. <<>> \in G
  BY EraseEmpty
<1>2. ASSUME NEW u \in Seq(S), NEW x \in S, u \in G PROVE Append(u, x) \in G
  <2>1. /\ Erase(u, c) \in Seq(S \ {c}) /\ Erase(u, d) \in Seq(S \ {d})
        /\ Erase(Append(u, x), c) = IF x = c THEN Erase(u, c) ELSE Append(Erase(u, c), x)
        /\ Erase(Append(u, x), d) = IF x = d THEN Erase(u, d) ELSE Append(Erase(u, d), x)
    BY EraseType, EraseAppend
  <2>2. x # c => Erase(Append(Erase(u, c), x), d) =
                   IF x = d THEN Erase(Erase(u, c), d) ELSE Append(Erase(Erase(u, c), d), x)
    <3>1. PICK p \in Seq(S \ {c}) : p = Erase(u, c)
      BY <2>1
    <3>2. x # c => Erase(Append(p, x), d) =
                     IF x = d THEN Erase(p, d) ELSE Append(Erase(p, d), x)
      <4>1. \A y \in S \ {c} : Erase(Append(p, y), d) =
                                  IF y = d THEN Erase(p, d) ELSE Append(Erase(p, d), y)
        BY EraseAppend
      <4> QED BY <4>1
    <3> QED BY <3>1, <3>2
  <2>3. x # d => Erase(Append(Erase(u, d), x), c) =
                   IF x = c THEN Erase(Erase(u, d), c) ELSE Append(Erase(Erase(u, d), c), x)
    <3>1. PICK p \in Seq(S \ {d}) : p = Erase(u, d)
      BY <2>1
    <3>2. x # d => Erase(Append(p, x), c) =
                     IF x = c THEN Erase(p, c) ELSE Append(Erase(p, c), x)
      <4>1. \A y \in S \ {d} : Erase(Append(p, y), c) =
                                  IF y = c THEN Erase(p, c) ELSE Append(Erase(p, c), y)
        BY EraseAppend
      <4> QED BY <4>1
    <3> QED BY <3>1, <3>2
  <2>4. Erase(Erase(u, c), d) = Erase(Erase(u, d), c) /\ Append(u, x) \in Seq(S)
    BY <1>2
  <2> QED BY <2>1, <2>2, <2>3, <2>4
<1>3. s \in G
  <2> HIDE DEF G
  <2> QED BY <1>1, <1>2, SeqInduction
<1> QED BY <1>3

(* A connection that leaves a hole is gone from what is left of a loop. *)
Hollowed(s, c) == [k \in DOMAIN s |-> IF s[k] = c THEN Null ELSE s[k]]
LEMMA EraseHollowed ==
  ASSUME NEW S, Null \in S, NEW s \in Seq(S), NEW c
  PROVE  /\ Hollowed(s, c) \in Seq(S)
         /\ Erase(Hollowed(s, c), Null) = Erase(Erase(s, Null), c)
<1> DEFINE G == {u \in Seq(S) : Erase(Hollowed(u, c), Null) = Erase(Erase(u, Null), c)}
<1>0. ASSUME NEW u \in Seq(S) PROVE Hollowed(u, c) \in Seq(S) /\ Len(Hollowed(u, c)) = Len(u)
  BY DEF Hollowed
<1>1. <<>> \in G
  <2>1. Hollowed(<<>>, c) = <<>>
    <3>1. PICK e : e = <<>>
      OBVIOUS
    <3>4. e \in Seq(S) /\ Len(e) = 0
      BY <3>1, EmptySeq
    <3>5. PICK h \in Seq(S) : h = Hollowed(e, c)
      BY <1>0, <3>4
    <3>2. Len(h) = 0
      BY <1>0, <3>4, <3>5
    <3>3. h = e
      BY <3>1, <3>2, EmptySeq
    <3> QED BY <3>1, <3>3, <3>5
  <2> QED BY <2>1, EraseEmpty
<1>2. ASSUME NEW u \in Seq(S), NEW x \in S, u \in G PROVE Append(u, x) \in G
  <2> DEFINE y == IF x = c THEN Null ELSE x
  <2>1. Hollowed(Append(u, x), c) = Append(Hollowed(u, c), y)
    <3>1. PICK n \in Nat : n = Len(u)
      OBVIOUS
    <3>2. PICK h \in Seq(S) : h = Hollowed(u, c)
      BY <1>0
    <3>3. Len(h) = n /\ \A k \in 1 .. n : h[k] = IF u[k] = c THEN Null ELSE u[k]
      BY <3>1, <3>2 DEF Hollowed
    <3>0. Append(u, x) \in Seq(S)
      OBVIOUS
    <3>4. PICK t \in Seq(S) : t = Append(u, x)
      BY <3>0
    <3>5. Len(t) = n + 1 /\ t[n + 1] = x /\ \A k \in 1 .. n : t[k] = u[k]
      BY <3>1, <3>4
    <3>6. PICK p \in Seq(S) : p = Hollowed(t, c)
      BY <1>0
    <3>7. Len(p) = n + 1 /\ \A k \in 1 .. n + 1 : p[k] = IF t[k] = c THEN Null ELSE t[k]
      BY <3>5, <3>6 DEF Hollowed
    <3>8. y \in S
      OBVIOUS
    <3> HIDE DEF y
    <3>13. Append(h, y) \in Seq(S)
      BY <3>8
    <3>9. PICK q \in Seq(S) : q = Append(h, y)
      BY <3>13
    <3>10. Len(q) = n + 1 /\ q[n + 1] = y /\ \A k \in 1 .. n : q[k] = h[k]
      BY <3>3, <3>8, <3>9
    <3>11. \A k \in 1 .. n + 1 : p[k] = q[k]
      <4> SUFFICES ASSUME NEW k \in 1 .. n + 1 PROVE p[k] = q[k]
        OBVIOUS
      <4>1. CASE k = n + 1
        BY <4>1, <3>5, <3>7, <3>10 DEF y
      <4>2. CASE k # n + 1
        <5>1. k \in 1 .. n
          BY <4>2
        <5> QED BY <5>1, <3>3, <3>5, <3>7, <3>10
      <4> QED BY <4>1, <4>2
    <3>12. p = q
      BY <3>7, <3>10, <3>11, SeqEqual
    <3> QED BY <3>2, <3>4, <3>6, <3>9, <3>12
  <2>2. y \in S /\ Hollowed(u, c) \in Seq(S)
    BY <1>0
  <2>3. Erase(Append(Hollowed(u, c), y), Null) =
          IF y = Null THEN Erase(Hollowed(u, c), Null)
          ELSE Append(Erase(Hollowed(u, c), Null), y)
    BY <2>2, EraseAppend
  <2>4. Erase(Append(u, x), Null) = IF x = Null THEN Erase(u, Null) ELSE Append(Erase(u, Null), x)
    BY EraseAppend
  <2>5. Erase(u, Null) \in Seq(S \ {Null})
    BY EraseType
  <2>6. x # Null => Erase(Append(Erase(u, Null), x), c) =
                      IF x = c THEN Erase(Erase(u, Null), c)
                      ELSE Append(Erase(Erase(u, Null), c), x)
    <3>1. PICK p \in Seq(S \ {Null}) : p = Erase(u, Null)
      BY <2>5
    <3>2. x # Null => Erase(Append(p, x), c) =
                        IF x = c THEN Erase(p, c) ELSE Append(Erase(p, c), x)
      <4>1. \A z \in S \ {Null} : Erase(Append(p, z), c) =
                                     IF z = c THEN Erase(p, c) ELSE Append(Erase(p, c), z)
        BY EraseAppend
      <4> QED BY <4>1
    <3> QED BY <3>1, <3>2
  <2>7. Erase(Hollowed(u, c), Null) = Erase(Erase(u, Null), c) /\ Append(u, x) \in Seq(S)
    BY <1>2
  <2> QED BY <2>1, <2>3, <2>4, <2>6, <2>7
<1>3. s \in G
  <2> HIDE DEF G
  <2> QED BY <1>1, <1>2, SeqInduction
<1> QED BY <1>0, <1>3

-----------------------------------------------------------------------------
(* What the steps need besides the properties: the nesting and the vector   *)
(* stay within bounds, a deleted signal keeps no connection, and there are  *)
(* no holes outside emissions.                                              *)
Shape ==
  /\ Depth <= MaxDepth
  /\ Len(connections) <= made
  /\ destroyed => connections = <<>>
  /\ Depth = 0 => connections \in Seq(Conns)

IInv == TypeOK /\ Shape /\ IndexInside /\ FlagOfOutermost

(* It holds at the start. *)
LEMMA InitIInv == Init => IInv
<1> USE SignalAssumption
<1> SUFFICES ASSUME Init PROVE IInv
  OBVIOUS
<1>1. /\ connections = <<>> /\ made = 0 /\ open = {} /\ default = 0
      /\ deathFlag = 0 /\ destroyed = FALSE /\ frames = <<>>
  BY DEF Init, Null
<1>2. TypeOK
  <2>1. destroyed \in BOOLEAN
    BY <1>1
  <2>2. 0 \in 0 .. MaxConns /\ 0 \in 0 .. MaxDepth
    OBVIOUS
  <2>3. connections \in Seq(0 .. MaxConns) /\ frames \in Seq(Frame)
    BY <1>1
  <2> QED BY <1>1, <2>1, <2>2, <2>3 DEF TypeOK
<1>3. Shape
  BY <1>1 DEF Shape, Depth
<1>4. IndexInside
  BY <1>1 DEF IndexInside, Depth
<1>5. FlagOfOutermost
  BY <1>1 DEF FlagOfOutermost, Depth
<1> QED
  BY <1>2, <1>3, <1>4, <1>5 DEF IInv

LEMMA FrameFields ==
  ASSUME NEW r \in Frame
  PROVE  /\ r.i \in 0 .. MaxConns /\ r.n \in 0 .. MaxConns
         /\ r.i \in Nat /\ r.n \in Nat
<1>1. r.i \in 0 .. MaxConns /\ r.n \in 0 .. MaxConns
  BY DEF Frame
<1> QED BY <1>1, SignalAssumption

(* The frames but the innermost. *)
LEMMA FrontFrames ==
  ASSUME NEW S, NEW s \in Seq(S), Len(s) > 0
  PROVE  /\ Front(s) \in Seq(S) /\ Len(Front(s)) = Len(s) - 1
         /\ \A k \in 1 .. Len(Front(s)) : Front(s)[k] = s[k]
<1> DEFINE n == Len(s) - 1
<1>1. Front(s) = SubSeq(s, 1, n)
  BY DEF Front
<1>2. n \in Nat /\ \A i \in 1 .. n : s[i] \in S
  OBVIOUS
<1>3. n = Len(s) - 1
  OBVIOUS
<1> HIDE DEF n
<1>4. /\ SubSeq(s, 1, n) \in Seq(S)
      /\ Len(SubSeq(s, 1, n)) = IF 1 <= n THEN n - 1 + 1 ELSE 0
      /\ \A i \in 1 .. n - 1 + 1 : SubSeq(s, 1, n)[i] = s[1 + i - 1]
  <2>1. 1 \in Int /\ n \in Int
    BY <1>2
  <2> QED BY <1>2, <2>1, SubSeqProperties
<1>5. (IF 1 <= n THEN n - 1 + 1 ELSE 0) = n /\ n - 1 + 1 = n
  BY <1>2
<1>6. \A i \in 1 .. n : 1 + i - 1 = i
  BY <1>2
<1> QED BY <1>1, <1>3, <1>4, <1>5, <1>6

(* Without keeps the length during an emission and otherwise leaves no hole. *)
LEMMA WithoutKeeps ==
  ASSUME IInv, NEW c \in Conns
  PROVE  /\ Without(c) \in Seq(0 .. MaxConns)
         /\ Len(Without(c)) <= Len(connections)
         /\ deathFlag # 0 => Len(Without(c)) = Len(connections)
         /\ deathFlag = 0 /\ connections \in Seq(Conns) => Without(c) \in Seq(Conns)
<1> USE SignalAssumption
<1>1. connections \in Seq(0 .. MaxConns) /\ Null \in 0 .. MaxConns
  BY DEF IInv, TypeOK, Null
<1>2. CASE deathFlag # 0
  BY <1>1, <1>2 DEF Without
<1>3. CASE deathFlag = 0
  <2>1. Without(c) = Erase(connections, c)
    BY <1>3 DEF Without
  <2>2. Erase(connections, c) \in Seq((0 .. MaxConns) \ {c})
        /\ Len(Erase(connections, c)) <= Len(connections)
    BY <1>1, EraseType
  <2>3. connections \in Seq(Conns) => Erase(connections, c) \in Seq(Conns \ {c})
    BY EraseType
  <2> QED BY <1>3, <2>1, <2>2, <2>3
<1> QED BY <1>2, <1>3

(* Every step keeps it. *)
LEMMA NextIInv == IInv /\ [Next]_vars => IInv'
<1> SUFFICES ASSUME IInv, [Next]_vars PROVE IInv'
  OBVIOUS
<1> USE SignalAssumption DEF IInv, Depth
<1>a. /\ connections \in Seq(0 .. MaxConns) /\ frames \in Seq(Frame)
      /\ Len(connections) \in Nat /\ Len(frames) \in Nat
      /\ made \in 0 .. MaxConns
  BY DEF TypeOK
<1>1. ASSUME NEW b \in BOOLEAN, NewConnection(b), UserCode,
             UNCHANGED <<deathFlag, destroyed, frames>>, default' \in 0 .. MaxConns
      PROVE  IInv'
  <2>1. /\ made + 1 \in Conns /\ made + 1 \in 0 .. MaxConns
        /\ connections' = Append(connections, made + 1)
        /\ made' = made + 1
    BY <1>1, <1>a DEF NewConnection, Conns
  <2>2. connections' \in Seq(0 .. MaxConns) /\ Len(connections') = Len(connections) + 1
    BY <1>a, <2>1
  <2>3. TypeOK'
    BY <1>1, <2>1, <2>2 DEF TypeOK, NewConnection
  <2>4. Shape'
    BY <1>1, <1>a, <2>1, <2>2 DEF Shape, UserCode
  <2>5. IndexInside'
    <3> SUFFICES ASSUME ~destroyed, NEW f \in 1 .. Len(frames)
                 PROVE  frames[f].n <= Len(connections')
      BY <1>1 DEF IndexInside
    <3>1. frames[f].n <= Len(connections)
      BY <1>1 DEF IndexInside, UserCode
    <3>2. frames[f].n \in Nat
      BY <1>a, FrameFields
    <3> QED BY <3>1, <3>2, <2>2, <1>a
  <2>6. FlagOfOutermost'
    BY <1>1 DEF FlagOfOutermost
  <2> QED BY <2>3, <2>4, <2>5, <2>6
<1>2. ASSUME open' \subseteq Conns,
             UNCHANGED <<connections, made, default, deathFlag, destroyed, frames>>
      PROVE  IInv'
  BY <1>2 DEF TypeOK, Shape, IndexInside, FlagOfOutermost
<1>3. ASSUME NEW b \in BOOLEAN, Connect(b) PROVE IInv'
  BY <1>1, <1>3 DEF Connect, TypeOK
<1>4. ASSUME NEW b \in BOOLEAN, SetDefaultSlot(b) PROVE IInv'
  <2>1. CASE default # Null
    <3>1. default \in Conns
      BY <2>1 DEF TypeOK, Conns, Null
    <3> QED BY <1>2, <1>4, <2>1, <3>1 DEF SetDefaultSlot, TypeOK
  <2>2. CASE default = Null
    <3>1. NewConnection(b) /\ default' = made + 1 /\ UserCode
      BY <1>4, <2>2 DEF SetDefaultSlot
    <3>2. default' \in 0 .. MaxConns
      BY <3>1, <1>a DEF NewConnection
    <3> QED BY <1>1, <1>4, <3>1, <3>2 DEF SetDefaultSlot
  <2> QED BY <2>1, <2>2
<1>5. ASSUME NEW c \in Conns, NEW b \in BOOLEAN, Reconnect(c, b) PROVE IInv'
  BY <1>2, <1>5 DEF Reconnect, TypeOK
<1>6. ASSUME NEW c \in Conns, Disconnect(c) PROVE IInv'
  <2>1. /\ connections' = Without(c) /\ open' = open \ {c}
        /\ UNCHANGED <<made, default, deathFlag, destroyed, frames>>
        /\ ~destroyed
    BY <1>6 DEF Disconnect, UserCode
  <2>2. /\ connections' \in Seq(0 .. MaxConns)
        /\ Len(connections') \in Nat /\ Len(connections') <= Len(connections)
        /\ deathFlag # 0 => Len(connections') = Len(connections)
        /\ deathFlag = 0 /\ connections \in Seq(Conns) => connections' \in Seq(Conns)
    BY <2>1, WithoutKeeps
  <2>3. deathFlag = 0 <=> Len(frames) = 0
    BY <2>1, <1>a DEF FlagOfOutermost
  <2>4. TypeOK'
    BY <2>1, <2>2 DEF TypeOK
  <2>5. Shape'
    BY <1>a, <2>1, <2>2, <2>3 DEF Shape
  <2>6. IndexInside'
    <3> SUFFICES ASSUME NEW f \in 1 .. Len(frames)
                 PROVE  frames[f].n <= Len(connections')
      BY <2>1 DEF IndexInside
    <3>1. Len(connections') = Len(connections)
      BY <1>a, <2>2, <2>3
    <3> QED BY <2>1, <3>1 DEF IndexInside
  <2>7. FlagOfOutermost'
    BY <2>1 DEF FlagOfOutermost
  <2> QED BY <2>4, <2>5, <2>6, <2>7
<1>7. ASSUME Destroy PROVE IInv'
  <2>1. /\ destroyed' /\ connections' = <<>> /\ open' = {} /\ default' = 0
        /\ deathFlag' = 0 /\ made' = made /\ ~destroyed
        /\ frames' = IF deathFlag # 0 THEN [frames EXCEPT ![deathFlag].dead = TRUE]
                     ELSE frames
    BY <1>7 DEF Destroy, UserCode, Null
  <2>2. /\ deathFlag = IF Len(frames) > 0 THEN 1 ELSE 0
        /\ \A f \in 1 .. Len(frames) : frames[f].flag = 1
    BY <2>1 DEF FlagOfOutermost
  <2>3. /\ frames' \in Seq(Frame) /\ Len(frames') = Len(frames)
        /\ \A f \in 1 .. Len(frames) : frames'[f].flag = 1
        /\ Len(frames) > 0 => frames'[1].dead
    <3>1. CASE Len(frames) = 0
      BY <2>1, <2>2, <3>1, <1>a
    <3>2. CASE Len(frames) > 0
      <4>1. frames' = [frames EXCEPT ![1] = [@ EXCEPT !.dead = TRUE]]
        BY <2>1, <2>2, <3>2
      <4>2. 1 \in 1 .. Len(frames) /\ frames[1] \in Frame
        BY <3>2, <1>a
      <4>3. [frames[1] EXCEPT !.dead = TRUE] \in Frame
        BY <4>2 DEF Frame
      <4>4. [frames[1] EXCEPT !.dead = TRUE].flag = frames[1].flag
            /\ [frames[1] EXCEPT !.dead = TRUE].dead
        BY <4>2 DEF Frame
      <4> QED BY <2>2, <4>1, <4>2, <4>3, <4>4, <1>a
    <3> QED BY <3>1, <3>2, <1>a
  <2>4. TypeOK'
    BY <2>1, <2>3 DEF TypeOK
  <2>5. Shape'
    BY <2>1, <2>3, <1>a DEF Shape
  <2>6. IndexInside'
    BY <2>1 DEF IndexInside
  <2>7. FlagOfOutermost'
    BY <2>1, <2>3 DEF FlagOfOutermost
  <2> QED BY <2>4, <2>5, <2>6, <2>7
<1>8. ASSUME Emit PROVE IInv'
  <2> DEFINE r == [i |-> 0, n |-> Len(connections), flag |-> deathFlag',
                   dead |-> FALSE, calling |-> Null]
  <2>1. /\ frames' = Append(frames, r) /\ ~destroyed /\ Len(frames) < MaxDepth
        /\ deathFlag' = IF deathFlag = 0 THEN Len(frames) + 1 ELSE deathFlag
        /\ UNCHANGED <<connections, made, open, default, destroyed>>
    BY <1>8 DEF Emit, UserCode
  <2>2. deathFlag' = 1
    BY <2>1, <1>a DEF FlagOfOutermost
  <2>3. Len(connections) \in 0 .. MaxConns
    BY <1>a DEF Shape
  <2>4. r \in Frame /\ r.flag = 1 /\ r.dead = FALSE /\ r.n = Len(connections)
    BY <2>2, <2>3 DEF Frame, Null
  <2> HIDE DEF r
  <2>5. /\ frames' \in Seq(Frame) /\ Len(frames') = Len(frames) + 1
        /\ \A f \in 1 .. Len(frames) : frames'[f] = frames[f]
        /\ frames'[Len(frames) + 1] = r
    BY <2>1, <2>4, <1>a
  <2>6. \A f \in 1 .. Len(frames') : f \in 1 .. Len(frames) \/ frames'[f] = r
    BY <2>5, <1>a
  <2>7. TypeOK'
    <3>1. 1 \in 0 .. MaxDepth
      OBVIOUS
    <3> QED BY <2>1, <2>2, <2>5, <3>1 DEF TypeOK
  <2>8. Shape'
    BY <2>1, <2>5, <1>a DEF Shape
  <2>9. IndexInside'
    BY <2>1, <2>4, <2>5, <2>6, <1>a DEF IndexInside
  <2>10. FlagOfOutermost'
    <3>1. \A f \in 1 .. Len(frames') : frames'[f].flag = 1
      BY <2>4, <2>5, <2>6 DEF FlagOfOutermost
    <3>2. ~frames'[1].dead
      <4>1. CASE Len(frames) = 0
        BY <2>4, <2>5, <4>1
      <4>2. CASE Len(frames) > 0
        BY <2>1, <2>5, <4>2, <1>a DEF FlagOfOutermost
      <4> QED BY <4>1, <4>2, <1>a
    <3>3. Len(frames') > 0
      BY <2>5, <1>a
    <3> QED BY <2>1, <2>2, <3>1, <3>2, <3>3 DEF FlagOfOutermost
  <2> QED BY <2>7, <2>8, <2>9, <2>10
<1>9. ASSUME Len(frames) > 0, NEW r \in Frame,
             r.n = Top.n, r.flag = Top.flag, r.dead = Top.dead,
             frames' = [frames EXCEPT ![Len(frames)] = r],
             UNCHANGED <<connections, made, open, default, deathFlag, destroyed>>
      PROVE  IInv'
  <2>1. /\ frames' \in Seq(Frame) /\ Len(frames') = Len(frames)
        /\ \A f \in 1 .. Len(frames) : /\ frames'[f].n = frames[f].n
                                       /\ frames'[f].flag = frames[f].flag
                                       /\ frames'[f].dead = frames[f].dead
    BY <1>9, <1>a DEF Top
  <2>2. TypeOK'
    BY <1>9, <2>1 DEF TypeOK
  <2>3. Shape'
    BY <1>9, <2>1 DEF Shape
  <2>4. IndexInside'
    BY <1>9, <2>1 DEF IndexInside
  <2>5. FlagOfOutermost'
    <3>1. \A f \in 1 .. Len(frames') : frames'[f].flag = 1
      BY <2>1 DEF FlagOfOutermost
    <3>2. Len(frames) > 0 /\ frames'[1].dead = frames[1].dead
      <4>1. Len(frames) \in Nat /\ Len(frames) > 0
        BY <1>9, <1>a
      <4>2. 1 \in 1 .. Len(frames)
        BY <4>1
      <4> QED BY <2>1, <4>1, <4>2
    <3>3. deathFlag' = deathFlag /\ destroyed' = destroyed /\ Len(frames') = Len(frames)
      BY <1>9, <2>1
    <3> QED BY <3>1, <3>2, <3>3 DEF FlagOfOutermost
  <2> QED BY <2>2, <2>3, <2>4, <2>5
<1>10. ASSUME CallNext PROVE IInv'
  <2> DEFINE c == connections[Top.i + 1]
             r == [Top EXCEPT !.i = Top.i + 1, !.calling = IF c \in open THEN c ELSE Null]
  <2>1. /\ Len(frames) > 0 /\ Top.i < Top.n /\ ~FlagRaised
        /\ frames' = [frames EXCEPT ![Len(frames)] = r]
        /\ UNCHANGED <<connections, made, open, default, deathFlag, destroyed>>
    BY <1>10, <1>a DEF CallNext, InLoop, Top
  <2>2. Top \in Frame /\ Len(frames) \in 1 .. Len(frames)
    BY <2>1, <1>a DEF Top
  <2>3. ~destroyed
    BY <2>1, <2>2 DEF FlagRaised, FlagOfOutermost, Top
  <2>4. Top.i + 1 \in 1 .. Len(connections) /\ Top.i + 1 \in 0 .. MaxConns
    <3>1. Top.n <= Len(connections)
      BY <2>2, <2>3 DEF IndexInside, Top
    <3> QED BY <2>1, <2>2, <3>1, <1>a, FrameFields DEF Shape
  <2>5. r \in Frame /\ r.n = Top.n /\ r.flag = Top.flag /\ r.dead = Top.dead
    <3>1. c \in 0 .. MaxConns /\ Null \in 0 .. MaxConns
      BY <2>4, <1>a DEF Null
    <3> HIDE DEF c
    <3> QED BY <2>2, <2>4, <3>1 DEF Frame
  <2> HIDE DEF r
  <2> QED BY <1>9, <2>1, <2>5
<1>11. ASSUME SlotReturns PROVE IInv'
  <2> DEFINE r == [Top EXCEPT !.calling = Null]
  <2>1. /\ Len(frames) > 0
        /\ frames' = [frames EXCEPT ![Len(frames)] = r]
        /\ UNCHANGED <<connections, made, open, default, deathFlag, destroyed>>
    BY <1>11 DEF SlotReturns, Top
  <2>2. Top \in Frame
    BY <2>1, <1>a DEF Top
  <2>3. r \in Frame /\ r.n = Top.n /\ r.flag = Top.flag /\ r.dead = Top.dead
    BY <2>2 DEF Frame, Null
  <2> HIDE DEF r
  <2> QED BY <1>9, <2>1, <2>3
<1>12. ASSUME EmitEnd PROVE IInv'
  <2>1. /\ Len(frames) > 0 /\ frames' = Front(frames)
        /\ UNCHANGED <<made, open, default, destroyed>>
    BY <1>12 DEF EmitEnd, InLoop
  <2>2. /\ frames' \in Seq(Frame) /\ Len(frames') = Len(frames) - 1
        /\ \A f \in 1 .. Len(frames') : frames'[f] = frames[f]
    BY <2>1, <1>a, FrontFrames
  <2>3. Top.flag = 1 /\ (FlagRaised <=> frames[1].dead)
    BY <2>1, <1>a DEF FlagOfOutermost, FlagRaised, Top
  <2>4. CASE Sweeps
    <3>1. deathFlag' = 0 /\ connections' = Erase(connections, Null)
      BY <1>12, <2>4 DEF EmitEnd
    <3>2. Len(frames) = 1 /\ ~frames[1].dead
      BY <2>3, <2>4 DEF Sweeps
    <3>3. (0 .. MaxConns) \ {Null} = Conns
      BY DEF Null, Conns
    <3>4. connections' \in Seq(Conns) /\ Len(connections') <= Len(connections)
      BY <3>1, <3>3, <1>a, EraseType
    <3>5. connections' \in Seq(0 .. MaxConns) /\ Len(connections') \in Nat
      BY <3>4 DEF Conns
    <3>6. Len(frames') = 0
      BY <2>2, <3>2
    <3>7. TypeOK'
      BY <2>1, <2>2, <3>1, <3>5 DEF TypeOK
    <3>8. ~destroyed
      BY <3>2, <2>1 DEF FlagOfOutermost
    <3>9. Shape'
      BY <2>1, <3>4, <3>5, <3>6, <3>8, <1>a DEF Shape
    <3> QED BY <2>1, <3>1, <3>6, <3>7, <3>8, <3>9 DEF IndexInside, FlagOfOutermost
  <2>5. CASE ~Sweeps
    <3>1. UNCHANGED <<deathFlag, connections>>
      BY <1>12, <2>5 DEF EmitEnd
    <3>2. destroyed \/ Len(frames) > 1
      <4>1. FlagRaised \/ Len(frames) # 1
        BY <2>3, <2>5 DEF Sweeps
      <4>2. FlagRaised => destroyed
        BY <2>1, <2>3 DEF FlagOfOutermost
      <4>3. Len(frames) # 1 => Len(frames) > 1
        <5>1. Len(frames) \in Nat /\ Len(frames) > 0
          BY <2>1, <1>a
        <5>2. \A x \in Nat : x > 0 /\ x # 1 => x > 1
          OBVIOUS
        <5> QED BY <5>1, <5>2
      <4> QED BY <4>1, <4>2, <4>3
    <3>3. TypeOK'
      BY <2>1, <2>2, <3>1 DEF TypeOK
    <3>4. Shape'
      <4>1. Len(frames') = 0 => destroyed
        <5>1. \A x \in Nat : x > 1 => x - 1 # 0
          OBVIOUS
        <5>2. Len(frames) \in Nat /\ Len(frames') = Len(frames) - 1
          BY <1>a, <2>2
        <5> QED BY <3>2, <5>1, <5>2
      <4>2. Len(frames') <= MaxDepth
        BY <2>1, <2>2, <1>a DEF Shape
      <4>3. destroyed => connections' \in Seq(Conns)
        BY <2>1, <3>1 DEF Shape
      <4> QED BY <2>1, <2>2, <3>1, <4>1, <4>2, <4>3 DEF Shape
    <3>5. IndexInside'
      BY <2>1, <2>2, <3>1, <1>a DEF IndexInside
    <3>6. FlagOfOutermost'
      BY <2>1, <2>2, <3>1, <3>2, <1>a DEF FlagOfOutermost
    <3> QED BY <3>3, <3>4, <3>5, <3>6
  <2> QED BY <2>4, <2>5
<1>13. CASE UNCHANGED vars
  BY <1>13 DEF vars, TypeOK, Shape, IndexInside, FlagOfOutermost
<1>14. CASE Next
  BY <1>3, <1>4, <1>5, <1>6, <1>7, <1>8, <1>10, <1>11, <1>12, <1>14 DEF Next
<1> QED BY <1>13, <1>14

LEMMA Invariance == Spec => []IInv
  BY InitIInv, NextIInv, PTL DEF Spec

(* The vector, the frames and the flag of a signal keep their types, and    *)
(* neither outgrows its bound, for any number of connections and nesting.   *)
THEOREM TypeCorrect == Spec => []TypeOK
  BY Invariance, PTL DEF IInv

(* However slots disconnect and nested Emit calls end, an Emit on a live    *)
(* signal never indexes past the vector.                                    *)
THEOREM NeverPastTheVector == Spec => []IndexInside
  BY Invariance, PTL DEF IInv

(* Every Emit under way watches the flag of the outermost one, which the    *)
(* destructor raises: none of them touches a signal a slot has deleted.     *)
THEOREM DeletionIsSeen == Spec => []FlagOfOutermost
  BY Invariance, PTL DEF IInv

(* Disconnect leaves no hole in the vector once no Emit is under way.       *)
THEOREM HolesAreSwept == Spec => []NoHolesWhenIdle
<1>1. IInv => NoHolesWhenIdle
  <2> SUFFICES ASSUME IInv, Depth = 0, NEW k \in 1 .. Len(connections),
                      connections[k] = Null
               PROVE  FALSE
    BY DEF NoHolesWhenIdle, Contains
  <2>1. connections \in Seq(Conns)
    BY DEF IInv, Shape
  <2>2. connections[k] \in Conns
    BY <2>1
  <2> QED BY <2>2, SignalAssumption DEF Conns, Null
<1> QED BY <1>1, Invariance, PTL

-----------------------------------------------------------------------------
(* Connections are numbered as they are made. *)
MadeOK ==
  /\ connections \in Seq(0 .. made)
  /\ open \subseteq 1 .. made
  /\ default \in 0 .. made

(* Every step keeps the numbering. *)
LEMMA NextMade == IInv /\ MadeOK /\ [Next]_vars => MadeOK'
<1> SUFFICES ASSUME IInv, MadeOK, [Next]_vars PROVE MadeOK'
  OBVIOUS
<1>0. made \in Nat /\ Null \in 0 .. made
  BY SignalAssumption DEF IInv, TypeOK, Null
<1>1. ASSUME NEW b \in BOOLEAN, NewConnection(b), default' \in {default, made + 1}
      PROVE  MadeOK'
  <2>1. /\ made' = made + 1 /\ connections' = Append(connections, made + 1)
        /\ open' \subseteq open \cup {made + 1}
    BY <1>1 DEF NewConnection
  <2>2. /\ 0 .. made \subseteq 0 .. made + 1 /\ 1 .. made \subseteq 1 .. made + 1
        /\ made + 1 \in 0 .. made + 1 /\ made + 1 \in 1 .. made + 1
    BY <1>0
  <2>3. connections \in Seq(0 .. made + 1)
    BY <2>2, SeqMonotonic DEF MadeOK
  <2>4. connections' \in Seq(0 .. made + 1)
    BY <2>1, <2>2, <2>3
  <2>5. default' \in 0 .. made + 1
    BY <1>1, <2>2 DEF MadeOK
  <2> QED BY <2>1, <2>2, <2>4, <2>5 DEF MadeOK
<1>2. ASSUME NEW c \in 1 .. made, open' \subseteq open \cup {c},
             UNCHANGED <<connections, made, default>>
      PROVE  MadeOK'
  BY <1>2 DEF MadeOK
<1>3. ASSUME NEW b \in BOOLEAN, Connect(b) PROVE MadeOK'
  BY <1>1, <1>3 DEF Connect
<1>4. ASSUME NEW b \in BOOLEAN, SetDefaultSlot(b) PROVE MadeOK'
  <2>1. CASE default = Null
    BY <1>1, <1>4, <2>1 DEF SetDefaultSlot
  <2>2. CASE default # Null
    <3>1. default \in 1 .. made
      BY <1>0, <2>2 DEF MadeOK, Null
    <3>2. open' \subseteq open \cup {default} /\ UNCHANGED <<connections, made, default>>
      BY <1>4, <2>2 DEF SetDefaultSlot
    <3> QED BY <1>2, <3>1, <3>2
  <2> QED BY <2>1, <2>2
<1>5. ASSUME NEW c \in Conns, NEW b \in BOOLEAN, Reconnect(c, b) PROVE MadeOK'
  <2>1. PICK k \in 1 .. Len(connections) : connections[k] = c
    BY <1>5 DEF Reconnect, Contains
  <2>2. c \in 0 .. made /\ c \in 1 .. MaxConns
    <3>1. connections[k] \in 0 .. made
      BY ElementOfSeq DEF MadeOK
    <3> QED BY <2>1, <3>1 DEF Conns
  <2>3. c \in 1 .. made
    BY <1>0, <2>2, SignalAssumption
  <2>4. open' \subseteq open \cup {c} /\ UNCHANGED <<connections, made, default>>
    BY <1>5 DEF Reconnect
  <2> QED BY <1>2, <2>3, <2>4
<1>6. ASSUME NEW c \in Conns, Disconnect(c) PROVE MadeOK'
  <2>1. /\ connections' = Without(c) /\ open' \subseteq open
        /\ UNCHANGED <<made, default>>
    BY <1>6 DEF Disconnect
  <2>2. CASE deathFlag # 0
    <3>1. connections' = Hollowed(connections, c)
      BY <2>1, <2>2 DEF Without, Hollowed
    <3>2. connections' \in Seq(0 .. made)
      BY <1>0, <3>1 DEF Hollowed, MadeOK
    <3> QED BY <2>1, <3>2 DEF MadeOK
  <2>3. CASE deathFlag = 0
    <3>1. connections' = Erase(connections, c)
      BY <2>1, <2>3 DEF Without
    <3>2. connections' \in Seq((0 .. made) \ {c})
      BY <3>1, EraseType DEF MadeOK
    <3>3. (0 .. made) \ {c} \subseteq 0 .. made
      OBVIOUS
    <3>4. connections' \in Seq(0 .. made)
      BY <3>2, <3>3, SeqMonotonic
    <3> QED BY <2>1, <3>4 DEF MadeOK
  <2> QED BY <2>2, <2>3
<1>7. CASE Destroy
  BY <1>0, <1>7 DEF Destroy, MadeOK, Null
<1>8. CASE Emit \/ CallNext \/ SlotReturns \/ UNCHANGED vars
  BY <1>8 DEF Emit, CallNext, SlotReturns, vars, MadeOK
<1>9. CASE EmitEnd
  <2>1. /\ connections' = Erase(connections, Null) \/ connections' = connections
        /\ UNCHANGED <<made, open, default>>
    BY <1>9 DEF EmitEnd
  <2>2. Erase(connections, Null) \in Seq((0 .. made) \ {Null})
    BY EraseType DEF MadeOK
  <2>3. (0 .. made) \ {Null} \subseteq 0 .. made
    OBVIOUS
  <2>4. Erase(connections, Null) \in Seq(0 .. made)
    BY <2>2, <2>3, SeqMonotonic
  <2> QED BY <2>1, <2>4 DEF MadeOK
<1> QED BY <1>3, <1>4, <1>5, <1>6, <1>7, <1>8, <1>9 DEF Next

-----------------------------------------------------------------------------
(* What an abstract emission has left, and which connection it calls. *)
Lefts(s, fr, dead) ==
  [f \in 1 .. Len(fr) |-> IF dead THEN <<>> ELSE Present(SubSeq(s, fr[f].i + 1, fr[f].n))]
Calls(fr) == [f \in 1 .. Len(fr) |-> fr[f].calling]

(* Multicast's Erase is this one. *)
LEMMA SameErase == \A s, c : Promise!Erase(s, c) = Erase(s, c)
BY DEF Promise!Erase, Erase

(* Part of a sequence that gets one more element, or holes. *)
LEMMA PartOfAppend ==
  ASSUME NEW S, NEW s \in Seq(S), NEW x \in S, NEW i \in Nat, NEW n \in Nat, n <= Len(s)
  PROVE  SubSeq(Append(s, x), i + 1, n) = SubSeq(s, i + 1, n)
<1>1. PICK t : t = Append(s, x)
  OBVIOUS
<1>2. t \in Seq(S) /\ Len(t) = Len(s) + 1 /\ \A k \in 1 .. Len(s) : t[k] = s[k]
  BY <1>1
<1>3. PICK u, v : u = SubSeq(t, i + 1, n) /\ v = SubSeq(s, i + 1, n)
  OBVIOUS
<1>4. i + 1 \in Int /\ n \in Int /\ \A k \in i + 1 .. n : k \in 1 .. Len(s) /\ k \in 1 .. Len(t)
  BY <1>2
<1>5. /\ u \in Seq(S) /\ Len(u) = IF i + 1 <= n THEN n - (i + 1) + 1 ELSE 0
      /\ \A k \in 1 .. n - (i + 1) + 1 : u[k] = t[i + 1 + k - 1]
  BY <1>2, <1>3, <1>4, SubSeqProperties
<1>6. /\ v \in Seq(S) /\ Len(v) = IF i + 1 <= n THEN n - (i + 1) + 1 ELSE 0
      /\ \A k \in 1 .. n - (i + 1) + 1 : v[k] = s[i + 1 + k - 1]
  BY <1>2, <1>3, <1>4, SubSeqProperties
<1>7. \A k \in 1 .. Len(u) : u[k] = v[k]
  <2> SUFFICES ASSUME NEW k \in 1 .. Len(u) PROVE u[k] = v[k]
    OBVIOUS
  <2>1. k \in 1 .. n - (i + 1) + 1 /\ i + 1 + k - 1 \in 1 .. Len(s)
    BY <1>5
  <2> QED BY <1>2, <1>5, <1>6, <2>1
<1>8. u = v
  BY <1>5, <1>6, <1>7, SeqEqual
<1> QED BY <1>1, <1>3, <1>8

(* A part of a vector with holes is that part with holes. *)
LEMMA PartOfHollowed ==
  ASSUME NEW S, Null \in S, NEW s \in Seq(S), NEW c, NEW m \in Nat \ {0}, NEW n \in Nat, n <= Len(s)
  PROVE  SubSeq(Hollowed(s, c), m, n) = Hollowed(SubSeq(s, m, n), c)
<1>1. PICK t \in Seq(S) : t = Hollowed(s, c)
  BY EraseHollowed
<1>2. Len(t) = Len(s) /\ \A k \in 1 .. Len(s) : t[k] = IF s[k] = c THEN Null ELSE s[k]
  BY <1>1 DEF Hollowed
<1>3. PICK u, v : u = SubSeq(t, m, n) /\ v = SubSeq(s, m, n)
  OBVIOUS
<1>4. m \in Int /\ n \in Int /\ \A k \in m .. n : k \in 1 .. Len(s) /\ k \in 1 .. Len(t)
  BY <1>2
<1>5. /\ u \in Seq(S) /\ Len(u) = IF m <= n THEN n - (m) + 1 ELSE 0
      /\ \A k \in 1 .. n - (m) + 1 : u[k] = t[m + k - 1]
  BY <1>2, <1>3, <1>4, SubSeqProperties
<1>6. /\ v \in Seq(S) /\ Len(v) = IF m <= n THEN n - (m) + 1 ELSE 0
      /\ \A k \in 1 .. n - (m) + 1 : v[k] = s[m + k - 1]
  BY <1>2, <1>3, <1>4, SubSeqProperties
<1>7. PICK w \in Seq(S) : w = Hollowed(v, c)
  BY <1>6, EraseHollowed
<1>8. Len(w) = Len(v) /\ \A k \in 1 .. Len(v) : w[k] = IF v[k] = c THEN Null ELSE v[k]
  BY <1>6, <1>7 DEF Hollowed
<1>9. \A k \in 1 .. Len(u) : u[k] = w[k]
  <2> SUFFICES ASSUME NEW k \in 1 .. Len(u) PROVE u[k] = w[k]
    OBVIOUS
  <2>1. k \in 1 .. n - (m) + 1 /\ m + k - 1 \in 1 .. Len(s) /\ k \in 1 .. Len(v)
    BY <1>5, <1>6
  <2> QED BY <1>2, <1>5, <1>6, <1>8, <2>1
<1>10. u = w
  BY <1>5, <1>6, <1>7, <1>8, <1>9, SeqEqual
<1> QED BY <1>1, <1>3, <1>7, <1>10

(* A disconnection during an emission takes the connection out of what is  *)
(* left of the loop, and nothing else.                                      *)
LEMMA PartWithout ==
  ASSUME NEW S, Null \in S, NEW s \in Seq(S), NEW c, NEW i \in Nat, NEW n \in Nat, n <= Len(s)
  PROVE  Present(SubSeq(Hollowed(s, c), i + 1, n)) = Erase(Present(SubSeq(s, i + 1, n)), c)
<1>1. \A k \in i + 1 .. n : s[k] \in S
  <2> SUFFICES ASSUME NEW k \in i + 1 .. n PROVE s[k] \in S
    OBVIOUS
  <2>1. k \in 1 .. Len(s)
    OBVIOUS
  <2> QED BY <2>1
<1>2. i + 1 \in Int /\ n \in Int
  OBVIOUS
<1>3. PICK u \in Seq(S) : u = SubSeq(s, i + 1, n)
  BY <1>1, <1>2, SubSeqProperties
<1>4. Erase(Hollowed(u, c), Null) = Erase(Erase(u, Null), c)
  BY EraseHollowed
<1>5. SubSeq(Hollowed(s, c), i + 1, n) = Hollowed(u, c)
  <2>1. PICK m \in Nat \ {0} : m = i + 1
    OBVIOUS
  <2>2. SubSeq(Hollowed(s, c), m, n) = Hollowed(SubSeq(s, m, n), c)
    BY PartOfHollowed
  <2> QED BY <1>3, <2>1, <2>2
<1> QED BY <1>3, <1>4, <1>5 DEF Present

(* The fields of the emissions, one by one. *)
LEMMA LeftsAre ==
  ASSUME NEW s, NEW fr \in Seq(Frame), NEW dead
  PROVE  /\ Len(Lefts(s, fr, dead)) = Len(fr) /\ Len(Calls(fr)) = Len(fr)
         /\ \A f \in 1 .. Len(fr) :
              /\ Lefts(s, fr, dead)[f] =
                   IF dead THEN <<>> ELSE Present(SubSeq(s, fr[f].i + 1, fr[f].n))
              /\ Calls(fr)[f] = fr[f].calling
<1>1. PICK n \in Nat : n = Len(fr)
  OBVIOUS
<1>2. \A g : Len([f \in 1 .. n |-> g[f]]) = n
  OBVIOUS
<1> QED BY <1>1, <1>2 DEF Lefts, Calls

(* Frames of a live signal lie within its vector. *)
LEMMA FramesInside ==
  ASSUME IInv, ~destroyed, NEW f \in 1 .. Depth
  PROVE  /\ frames[f] \in Frame
         /\ frames[f].i \in Nat /\ frames[f].n \in Nat /\ frames[f].n <= Len(connections)
<1>1. frames[f] \in Frame
  BY DEF IInv, TypeOK, Depth
<1> QED BY <1>1, FrameFields DEF IInv, IndexInside

(* Code outside the signal runs when the abstract one says so. *)
LEMMA UserCodeIs ==
  ASSUME IInv
  PROVE  Promise!UserCode <=> (Depth = 0 \/ Top.calling # Null)
<1>1. Promise!UserCode <=>
        Len(Lefts(connections, frames, destroyed)) = 0
        \/ Calls(frames)[Len(Lefts(connections, frames, destroyed))] # 0
  BY DEF Promise!UserCode, Promise!Depth, Lefts, Calls, Depth
<1>2. frames \in Seq(Frame) /\ Len(frames) \in Nat
  BY DEF IInv, TypeOK
<1>3. Len(frames) # 0 => Len(frames) \in 1 .. Len(frames)
  BY <1>2
<1> QED BY <1>1, <1>2, <1>3, LeftsAre DEF Depth, Top, Null

(* What the code outside may do here it may do there. *)
LEMMA UserMay ==
  ASSUME IInv, UserCode
  PROVE  Promise!UserCode
<1>1. Depth \in Nat
  BY DEF IInv, TypeOK, Depth
<1>2. Depth = 0 \/ Top.calling # Null
  BY <1>1 DEF UserCode
<1> QED BY <1>2, UserCodeIs

(* A new connection is no part of the loops under way. *)
LEMMA NewPromised ==
  ASSUME IInv, MadeOK, NEW b \in BOOLEAN, NewConnection(b), UserCode,
         frames' = frames, destroyed' = destroyed
  PROVE  made + 1 \in Conns /\ Promise!Connect(made + 1, b)
<1>1. /\ made + 1 \in Conns /\ made + 1 # Null /\ made + 1 \in 0 .. MaxConns
      /\ connections \in Seq(0 .. MaxConns) /\ frames \in Seq(Frame)
  BY SignalAssumption DEF IInv, TypeOK, NewConnection, Conns, Null
<1>2. made + 1 \notin open
  BY SignalAssumption DEF MadeOK, IInv, TypeOK
<1>3. /\ connections' = Append(connections, made + 1)
      /\ open' = IF b THEN open \cup {made + 1} ELSE open \ {made + 1}
  BY <1>2 DEF NewConnection
<1>4. Present(connections') = Append(Present(connections), made + 1)
  BY <1>1, <1>3, EraseAppend DEF Present
<1>5. Lefts(connections', frames, destroyed) = Lefts(connections, frames, destroyed)
  <2> SUFFICES ASSUME NEW f \in 1 .. Len(frames), ~destroyed
               PROVE  SubSeq(connections', frames[f].i + 1, frames[f].n) =
                      SubSeq(connections, frames[f].i + 1, frames[f].n)
    BY DEF Lefts
  <2>1. frames[f].i \in Nat /\ frames[f].n \in Nat /\ frames[f].n <= Len(connections)
    BY FramesInside DEF Depth
  <2> QED BY <1>1, <1>3, <2>1, PartOfAppend
<1>6. Promise!UserCode
  BY UserMay
<1>7. Calls(frames)' = Calls(frames) /\ Lefts(connections, frames, destroyed)' = Lefts(connections, frames, destroyed)
  BY <1>5
<1> QED BY <1>1, <1>3, <1>4, <1>6, <1>7 DEF Promise!Connect, Lefts, Calls, Depth

(* A slot set or unset is a Block. *)
LEMMA SlotPromised ==
  ASSUME IInv, NEW c \in Conns, NEW b \in BOOLEAN, UserCode,
         open' = IF b THEN open \cup {c} ELSE open \ {c},
         UNCHANGED <<connections, frames, destroyed>>
  PROVE  Promise!Block(c, b)
<1>1. Promise!UserCode
  BY UserMay
<1> QED BY <1>1 DEF Promise!Block, Lefts, Calls, Depth

(* Disconnect takes the connection out of every loop under way. *)
LEMMA DisconnectPromised ==
  ASSUME IInv, NEW c \in Conns, Disconnect(c)
  PROVE  Promise!Disconnect(c)
<1>1. /\ UserCode /\ ~destroyed /\ connections' = Without(c) /\ open' = open \ {c}
      /\ frames' = frames /\ destroyed' = destroyed
  BY DEF Disconnect, UserCode
<1>2. /\ connections \in Seq(0 .. MaxConns) /\ frames \in Seq(Frame)
      /\ Null \in 0 .. MaxConns
      /\ deathFlag = 0 <=> Len(frames) = 0
  BY <1>1, SignalAssumption DEF IInv, TypeOK, FlagOfOutermost, Null, Depth
<1>3. /\ Present(connections') = Erase(Present(connections), c)
      /\ \A f \in 1 .. Len(frames) :
           Present(SubSeq(connections', frames[f].i + 1, frames[f].n)) =
             Erase(Present(SubSeq(connections, frames[f].i + 1, frames[f].n)), c)
  <2>1. CASE deathFlag = 0
    <3>1. connections' = Erase(connections, c)
      BY <1>1, <2>1 DEF Without
    <3>2. Present(connections') = Erase(Present(connections), c)
      BY <1>2, <3>1, EraseCommutes DEF Present
    <3> QED BY <1>2, <2>1, <3>2
  <2>2. CASE deathFlag # 0
    <3>1. connections' = Hollowed(connections, c)
      BY <1>1, <2>2 DEF Without, Hollowed
    <3>2. Present(connections') = Erase(Present(connections), c)
      BY <1>2, <3>1, EraseHollowed DEF Present
    <3>3. ASSUME NEW f \in 1 .. Len(frames)
          PROVE  Present(SubSeq(connections', frames[f].i + 1, frames[f].n)) =
                   Erase(Present(SubSeq(connections, frames[f].i + 1, frames[f].n)), c)
      <4>1. PICK i \in Nat, n \in Nat : i = frames[f].i /\ n = frames[f].n /\ n <= Len(connections)
        BY <1>1, FramesInside DEF Depth
      <4> DEFINE S == 0 .. MaxConns
      <4>2. Null \in S /\ connections \in Seq(S)
        BY <1>2
      <4> HIDE DEF S
      <4>3. Present(SubSeq(Hollowed(connections, c), i + 1, n)) =
              Erase(Present(SubSeq(connections, i + 1, n)), c)
        BY <4>1, <4>2, PartWithout
      <4> QED BY <3>1, <4>1, <4>3
    <3> QED BY <3>2, <3>3
  <2> QED BY <2>1, <2>2
<1>4. Lefts(connections, frames, destroyed)' =
        [f \in 1 .. Len(Lefts(connections, frames, destroyed)) |->
           Erase(Lefts(connections, frames, destroyed)[f], c)]
  <2>1. Len(Lefts(connections, frames, destroyed)) = Len(frames)
    BY <1>2, LeftsAre
  <2>2. \A f \in 1 .. Len(frames) :
          Lefts(connections, frames, destroyed)[f] =
            Present(SubSeq(connections, frames[f].i + 1, frames[f].n))
    BY <1>1, <1>2, LeftsAre
  <2>3. Lefts(connections, frames, destroyed)' =
          [f \in 1 .. Len(frames) |->
             Present(SubSeq(connections', frames[f].i + 1, frames[f].n))]
    BY <1>1 DEF Lefts
  <2> QED BY <1>3, <2>1, <2>2, <2>3
<1>5. Promise!UserCode
  BY <1>1, UserMay
<1>6. Calls(frames)' = Calls(frames) /\ Present(connections)' = Erase(Present(connections), c)
  BY <1>1, <1>3
<1> QED BY <1>1, <1>4, <1>5, <1>6, SameErase DEF Promise!Disconnect, Promise!Depth, Lefts, Calls, Depth

(* Deleting the signal leaves nothing to call. *)
LEMMA DestroyPromised ==
  ASSUME IInv, Destroy
  PROVE  Promise!Destroy
<1>1. /\ UserCode /\ ~destroyed /\ destroyed' /\ connections' = <<>> /\ open' = {}
      /\ frames' = IF deathFlag # 0 THEN [frames EXCEPT ![deathFlag].dead = TRUE]
                   ELSE frames
  BY DEF Destroy, UserCode
<1>2. frames \in Seq(Frame) /\ Len(frames) \in Nat
  BY DEF IInv, TypeOK
<1>3. Len(frames') = Len(frames) /\ \A f \in 1 .. Len(frames) : frames'[f].calling = frames[f].calling
  <2>1. CASE deathFlag = 0
    BY <1>1, <2>1
  <2>2. CASE deathFlag # 0
    <3>1. deathFlag \in 1 .. Len(frames)
      BY <1>1, <1>2, <2>2 DEF IInv, FlagOfOutermost, Depth
    <3>2. frames' = [frames EXCEPT ![deathFlag] = [@ EXCEPT !.dead = TRUE]]
      BY <1>1, <2>2
    <3>3. PICK r : r = [frames[deathFlag] EXCEPT !.dead = TRUE]
      OBVIOUS
    <3>4. r.calling = frames[deathFlag].calling
      BY <1>2, <3>1, <3>3 DEF Frame
    <3>5. frames' = [frames EXCEPT ![deathFlag] = r]
      BY <3>2, <3>3
    <3> QED BY <1>2, <3>1, <3>4, <3>5
  <2> QED BY <2>1, <2>2
<1>4. Lefts(connections, frames, destroyed)' = [f \in 1 .. Len(Lefts(connections, frames, destroyed)) |-> <<>>]
  <2>1. Len(Lefts(connections, frames, destroyed)) = Len(frames)
    BY <1>2, LeftsAre
  <2> QED BY <1>1, <1>3, <2>1 DEF Lefts
<1>5. Calls(frames)' = Calls(frames)
  BY <1>3 DEF Calls
<1>6. Present(connections)' = <<>>
  BY <1>1, EraseEmpty DEF Present
<1>7. Promise!UserCode
  BY <1>1, UserMay
<1> QED BY <1>1, <1>4, <1>5, <1>6, <1>7 DEF Promise!Destroy, Promise!Depth, Lefts, Calls, Depth

(* An emission begins with all the connections there are. *)
LEMMA EmitPromised ==
  ASSUME IInv, Emit
  PROVE  Promise!Emit
<1> DEFINE r == [i |-> 0, n |-> Len(connections), flag |-> deathFlag',
                 dead |-> FALSE, calling |-> Null]
<1>1. /\ UserCode /\ ~destroyed /\ frames' = Append(frames, r)
      /\ UNCHANGED <<connections, open, destroyed>>
  BY DEF Emit, UserCode
<1>2. /\ r.i = 0 /\ r.n = Len(connections) /\ r.calling = 0
      /\ connections \in Seq(0 .. MaxConns) /\ frames \in Seq(Frame)
  BY DEF IInv, TypeOK, Null
<1> HIDE DEF r
<1>3. PICK n \in Nat : n = Len(frames)
  BY <1>2
<1>4. /\ Len(frames') = n + 1 /\ frames'[n + 1] = r
      /\ \A f \in 1 .. n : frames'[f] = frames[f]
  BY <1>1, <1>2, <1>3
<1>5. PICK L, C : L = Lefts(connections, frames, destroyed) /\ C = Calls(frames)
  OBVIOUS
<1>6. /\ Len(L) = n /\ Len(C) = n
      /\ L = [f \in 1 .. n |-> Present(SubSeq(connections, frames[f].i + 1, frames[f].n))]
      /\ C = [f \in 1 .. n |-> frames[f].calling]
  BY <1>1, <1>2, <1>3, <1>5, LeftsAre DEF Lefts, Calls
<1>7. Present(SubSeq(connections, r.i + 1, r.n)) = Present(connections)
  <2>1. SubSeq(connections, 1, Len(connections)) = connections
    BY <1>2, SubSeqFull
  <2>2. r.i + 1 = 1 /\ r.n = Len(connections)
    BY <1>2
  <2> QED BY <2>1, <2>2
<1>8. Lefts(connections, frames, destroyed)' = Append(L, Present(connections))
  <2>1. Lefts(connections, frames, destroyed)' =
          [f \in 1 .. n + 1 |-> IF f = n + 1 THEN Present(connections) ELSE L[f]]
    <3>1. Lefts(connections, frames, destroyed)' =
            [f \in 1 .. n + 1 |-> Present(SubSeq(connections, frames'[f].i + 1, frames'[f].n))]
      BY <1>1, <1>4 DEF Lefts
    <3>2. \A f \in 1 .. n + 1 : f # n + 1 => f \in 1 .. n
      OBVIOUS
    <3> QED BY <1>4, <1>6, <1>7, <3>1, <3>2
  <2>2. Append(L, Present(connections)) =
          [f \in 1 .. n + 1 |-> IF f = n + 1 THEN Present(connections) ELSE L[f]]
    BY <1>6
  <2> QED BY <2>1, <2>2
<1>9. Calls(frames)' = Append(C, 0)
  <2>1. Calls(frames)' = [f \in 1 .. n + 1 |-> IF f = n + 1 THEN 0 ELSE C[f]]
    <3>1. \A f \in 1 .. n + 1 : f # n + 1 => f \in 1 .. n
      OBVIOUS
    <3> QED BY <1>2, <1>4, <1>6, <3>1 DEF Calls
  <2>2. Append(C, 0) = [f \in 1 .. n + 1 |-> IF f = n + 1 THEN 0 ELSE C[f]]
    BY <1>6
  <2> QED BY <2>1, <2>2
<1>10. Promise!UserCode
  BY <1>1, UserMay
<1> QED BY <1>1, <1>5, <1>8, <1>9, <1>10 DEF Promise!Emit, Lefts, Calls, Depth

(* What an emission has left, when the loop passes one more element. *)
(* A round of the loop passes x and leaves rest. *)
Ahead(x, rest) == IF x = Null THEN rest ELSE <<x>> \o rest

LEMMA PartNext ==
  ASSUME NEW S, NEW s \in Seq(S), NEW m \in Nat \ {0}, NEW n \in Nat, m <= n, n <= Len(s)
  PROVE  /\ s[m] \in S
         /\ Present(SubSeq(s, m + 1, n)) \in Seq(S \ {Null})
         /\ Present(SubSeq(s, m, n)) = Ahead(s[m], Present(SubSeq(s, m + 1, n)))
<1>1. PICK x \in S : x = s[m]
  BY ElementOfSeq
<1>2. PICK rest \in Seq(S) : rest = SubSeq(s, m + 1, n)
  <2>1. \A k \in m + 1 .. n : s[k] \in S
    BY ElementOfSeq
  <2>2. m + 1 \in Int /\ n \in Int
    OBVIOUS
  <2> QED BY <2>1, <2>2, SubSeqProperties
<1>3. SubSeq(s, m, n) = <<x>> \o rest
  BY <1>1, <1>2, SubSeqRecursiveFirst
<1>4. <<x>> \in Seq(S) /\ Erase(<<x>>, Null) = IF x = Null THEN <<>> ELSE <<x>>
  <2>1. PICK e : e = <<>>
    OBVIOUS
  <2>2. e \in Seq(S)
    BY <2>1
  <2>3. Erase(Append(e, x), Null) = IF x = Null THEN Erase(e, Null) ELSE Append(Erase(e, Null), x)
    BY <2>2, EraseAppend
  <2>4. Erase(e, Null) = e
    BY <2>1, EraseEmpty
  <2>5. Append(e, x) = <<x>>
    BY <2>1
  <2> QED BY <2>1, <2>3, <2>4, <2>5
<1>5. PICK p \in Seq(S \ {Null}) : p = Erase(rest, Null)
  BY EraseType
<1>6. Erase(<<x>> \o rest, Null) = Erase(<<x>>, Null) \o p
  <2>1. PICK w \in Seq(S) : w = <<x>>
    BY <1>4
  <2>2. Erase(w \o rest, Null) = Erase(w, Null) \o Erase(rest, Null)
    BY EraseConcat
  <2> QED BY <1>5, <2>1, <2>2
<1>7. <<>> \o p = p
  BY ConcatEmptySeq
<1> QED BY <1>1, <1>2, <1>3, <1>4, <1>5, <1>6, <1>7 DEF Present, Ahead

(* Only the innermost emission changes. *)
LEMMA TopChanged ==
  ASSUME IInv, Depth > 0, NEW r, frames' = [frames EXCEPT ![Depth] = r],
         UNCHANGED <<connections, destroyed>>
  PROVE  /\ Lefts(connections, frames, destroyed)' =
              [Lefts(connections, frames, destroyed) EXCEPT ![Depth] =
                 IF destroyed THEN <<>> ELSE Present(SubSeq(connections, r.i + 1, r.n))]
         /\ Calls(frames)' = [Calls(frames) EXCEPT ![Depth] = r.calling]
<1>1. frames \in Seq(Frame) /\ Len(frames) \in Nat /\ Len(frames) \in 1 .. Len(frames)
  BY DEF IInv, TypeOK, Depth
<1>2. PICK n : n = Len(frames)
  OBVIOUS
<1>3. Len(frames') = n /\ \A f \in 1 .. n : frames'[f] = IF f = n THEN r ELSE frames[f]
  BY <1>1, <1>2 DEF Depth
<1>4. PICK L, C : L = Lefts(connections, frames, destroyed) /\ C = Calls(frames)
  OBVIOUS
<1>5. PICK p : p = IF destroyed THEN <<>> ELSE Present(SubSeq(connections, r.i + 1, r.n))
  OBVIOUS
<1>6. Lefts(connections, frames, destroyed)' = [f \in 1 .. n |-> IF f = n THEN p ELSE L[f]]
  <2>1. Lefts(connections, frames, destroyed)' =
          [f \in 1 .. n |-> IF destroyed THEN <<>>
                            ELSE Present(SubSeq(connections, frames'[f].i + 1, frames'[f].n))]
    BY <1>3 DEF Lefts
  <2>2. \A f \in 1 .. n : L[f] = IF destroyed THEN <<>>
                                 ELSE Present(SubSeq(connections, frames[f].i + 1, frames[f].n))
    BY <1>2, <1>4 DEF Lefts
  <2> QED BY <1>3, <1>5, <2>1, <2>2
<1>7. Calls(frames)' = [f \in 1 .. n |-> IF f = n THEN r.calling ELSE C[f]]
  BY <1>2, <1>3, <1>4 DEF Calls
<1>8. L = [f \in 1 .. n |-> L[f]] /\ C = [f \in 1 .. n |-> C[f]]
  BY <1>2, <1>4 DEF Lefts, Calls
<1> QED BY <1>2, <1>4, <1>5, <1>6, <1>7, <1>8 DEF Depth

(* A slot that returns ends its call. *)
LEMMA SlotReturnsPromised ==
  ASSUME IInv, SlotReturns
  PROVE  Promise!SlotReturns
<1>1. /\ Depth > 0 /\ Top.calling # Null /\ frames' = [frames EXCEPT ![Depth].calling = Null]
      /\ UNCHANGED <<connections, open, destroyed>>
  BY DEF SlotReturns
<1>2. frames \in Seq(Frame) /\ Depth \in 1 .. Len(frames) /\ Top \in Frame
  BY <1>1 DEF IInv, TypeOK, Depth, Top
<1>3. PICK r : r = [Top EXCEPT !.calling = Null]
  OBVIOUS
<1>4. r.i = Top.i /\ r.n = Top.n /\ r.calling = Null
  BY <1>2, <1>3 DEF Frame
<1>5. frames' = [frames EXCEPT ![Depth] = r]
  BY <1>1, <1>3 DEF Top
<1>6. PICK L, C : L = Lefts(connections, frames, destroyed) /\ C = Calls(frames)
  OBVIOUS
<1>7. /\ Lefts(connections, frames, destroyed)' =
           [L EXCEPT ![Depth] = IF destroyed THEN <<>>
                                ELSE Present(SubSeq(connections, r.i + 1, r.n))]
      /\ Calls(frames)' = [C EXCEPT ![Depth] = r.calling]
  BY <1>1, <1>5, <1>6, TopChanged
<1>8. /\ Len(L) = Depth /\ C[Depth] = Top.calling
      /\ L[Depth] = IF destroyed THEN <<>> ELSE Present(SubSeq(connections, Top.i + 1, Top.n))
      /\ L = [f \in 1 .. Depth |-> L[f]]
  BY <1>2, <1>6, LeftsAre DEF Depth, Top, Lefts
<1>9. Lefts(connections, frames, destroyed)' = L
  BY <1>4, <1>7, <1>8
<1> QED BY <1>1, <1>4, <1>6, <1>7, <1>8, <1>9
        DEF Promise!SlotReturns, Promise!Depth, Lefts, Calls, Depth, Null

(* A round of the loop calls the next connection, or passes a hole. *)
LEMMA CallNextPromised ==
  ASSUME IInv, CallNext
  PROVE  Promise!Call \/ UNCHANGED Promise!mvars
<1>1. /\ Depth > 0 /\ Top.calling = Null /\ Top.i < Top.n /\ ~FlagRaised
      /\ UNCHANGED <<connections, open, destroyed>>
  BY DEF CallNext, InLoop
<1>2. /\ frames \in Seq(Frame) /\ Depth \in 1 .. Len(frames) /\ Top \in Frame
      /\ connections \in Seq(0 .. MaxConns) /\ open \subseteq Conns
  BY <1>1 DEF IInv, TypeOK, Depth, Top
<1>3. ~destroyed
  BY <1>1, <1>2 DEF IInv, FlagOfOutermost, FlagRaised, Top, Depth
<1>4. PICK i \in Nat, n \in Nat : i = Top.i /\ n = Top.n /\ n <= Len(connections)
  BY <1>2, <1>3, FramesInside DEF Depth, Top
<1>5. PICK m \in Nat \ {0} : m = i + 1
  OBVIOUS
<1>6. PICK c : c = connections[m]
  OBVIOUS
<1>7. PICK r : r = [Top EXCEPT !.i = m, !.calling = IF c \in open THEN c ELSE Null]
  OBVIOUS
<1>8. r.i = m /\ r.n = n /\ r.calling = IF c \in open THEN c ELSE Null
  BY <1>2, <1>4, <1>7 DEF Frame
<1>9. frames' = [frames EXCEPT ![Depth] = r]
  BY <1>4, <1>5, <1>6, <1>7 DEF CallNext, Top
<1>10. PICK L, C : L = Lefts(connections, frames, destroyed) /\ C = Calls(frames)
  OBVIOUS
<1>11. PICK rest : rest = Present(SubSeq(connections, m + 1, n))
  OBVIOUS
<1>12. /\ Lefts(connections, frames, destroyed)' = [L EXCEPT ![Depth] = rest]
       /\ Calls(frames)' = [C EXCEPT ![Depth] = r.calling]
  BY <1>1, <1>3, <1>8, <1>9, <1>10, <1>11, TopChanged
<1>13. /\ Len(L) = Depth /\ C[Depth] = Null
       /\ L[Depth] = Present(SubSeq(connections, m, n))
       /\ L = [f \in 1 .. Depth |-> L[f]] /\ C = [f \in 1 .. Depth |-> C[f]]
  BY <1>1, <1>2, <1>3, <1>4, <1>5, <1>10, LeftsAre DEF Depth, Top, Lefts, Calls
<1>14. /\ c \in 0 .. MaxConns /\ rest \in Seq((0 .. MaxConns) \ {Null})
       /\ L[Depth] = IF c = Null THEN rest ELSE <<c>> \o rest
  <2>1. m <= n
    BY <1>1, <1>4, <1>5
  <2> DEFINE S == 0 .. MaxConns
  <2>2. connections \in Seq(S)
    BY <1>2
  <2> HIDE DEF S
  <2>3. c \in S /\ rest \in Seq(S \ {Null}) /\ L[Depth] = IF c = Null THEN rest ELSE <<c>> \o rest
    <3>1. /\ connections[m] \in S
          /\ Present(SubSeq(connections, m + 1, n)) \in Seq(S \ {Null})
          /\ Present(SubSeq(connections, m, n)) = Ahead(connections[m], Present(SubSeq(connections, m + 1, n)))
      <4>1. PICK s \in Seq(S) : s = connections
        BY <2>2
      <4>2. n <= Len(s)
        BY <1>4, <4>1
      <4>3. /\ s[m] \in S
            /\ Present(SubSeq(s, m + 1, n)) \in Seq(S \ {Null})
            /\ Present(SubSeq(s, m, n)) = Ahead(s[m], Present(SubSeq(s, m + 1, n)))
        BY <4>2, <2>1, PartNext
      <4> QED BY <4>1, <4>3
    <3> QED BY <1>6, <1>11, <1>13, <3>1 DEF Ahead
  <2> QED BY <2>3 DEF S
<1>15. CASE c = Null
  <2>1. r.calling = Null
    BY <1>8, <1>15
  <2>2. Lefts(connections, frames, destroyed)' = L /\ Calls(frames)' = C
    BY <1>12, <1>13, <1>14, <1>15, <2>1
  <2> QED BY <1>1, <1>10, <2>2 DEF Promise!mvars, Lefts, Calls, Depth
<1>16. CASE c # Null
  <2>1. Head(<<c>> \o rest) = c /\ Tail(<<c>> \o rest) = rest /\ <<c>> \o rest # <<>>
    BY <1>14
  <2>2. PICK h, t : h = Head(L[Depth]) /\ t = Tail(L[Depth])
    OBVIOUS
  <2>3. h = c /\ t = rest /\ L[Depth] # <<>> /\ C[Depth] = 0 /\ Len(L) > 0
    BY <1>1, <1>13, <1>14, <1>16, <2>1, <2>2 DEF Null
  <2>4. Lefts(connections, frames, destroyed)' = [L EXCEPT ![Depth] = Tail(@)]
    BY <1>12, <2>2, <2>3
  <2>5. Calls(frames)' = [C EXCEPT ![Depth] = IF Head(L[Depth]) \in open THEN Head(L[Depth]) ELSE 0]
    BY <1>8, <1>12, <2>2, <2>3 DEF Null
  <2>6. Present(connections)' = Present(connections) /\ open' = open
    BY <1>1
  <2>7. Len(L) = Depth
    BY <1>13
  <2> QED BY <1>10, <2>3, <2>4, <2>5, <2>6, <2>7
          DEF Promise!Call, Promise!Depth, Lefts, Calls, Depth, Null
<1> QED BY <1>15, <1>16

(* The loop ends with nothing left to call; the holes that the outermost one *)
(* erases were no connections.                                              *)
LEMMA EmitEndPromised ==
  ASSUME IInv, EmitEnd
  PROVE  Promise!End
<1>1. /\ Depth > 0 /\ Top.calling = Null /\ (Top.i < Top.n => FlagRaised)
      /\ frames' = Front(frames) /\ UNCHANGED <<open, destroyed>>
  BY DEF EmitEnd, InLoop
<1>2. /\ frames \in Seq(Frame) /\ Depth \in 1 .. Len(frames) /\ Top \in Frame
      /\ connections \in Seq(0 .. MaxConns) /\ Len(frames) > 0
  BY <1>1 DEF IInv, TypeOK, Depth, Top
<1>3. /\ Top.flag = 1
      /\ FlagRaised <=> destroyed
  BY <1>1, <1>2 DEF IInv, TypeOK, FlagOfOutermost, FlagRaised, Top, Depth
<1>4. PICK n \in Nat : n = Len(frames) - 1
  BY <1>2
<1>5. /\ Len(frames') = n /\ \A f \in 1 .. n : frames'[f] = frames[f]
      /\ Len(frames) = n + 1
  BY <1>1, <1>2, <1>4, FrontFrames
<1>6. Present(connections') = Present(connections)
  <2>1. CASE Sweeps
    <3>1. connections' = Erase(connections, Null)
      BY <2>1 DEF EmitEnd
    <3>2. Erase(connections, Null) \in Seq((0 .. MaxConns) \ {Null})
      BY <1>2, EraseType
    <3>3. Erase(Erase(connections, Null), Null) = Erase(connections, Null)
      BY <3>2, EraseAbsent
    <3> QED BY <3>1, <3>3 DEF Present
  <2>2. CASE ~Sweeps
    BY <2>2 DEF EmitEnd
  <2> QED BY <2>1, <2>2
<1>7. n # 0 => connections' = connections
  BY <1>3, <1>5 DEF EmitEnd, Sweeps, Depth
<1>8. PICK L, C : L = Lefts(connections, frames, destroyed) /\ C = Calls(frames)
  OBVIOUS
<1>9. /\ Len(L) = n + 1 /\ Len(C) = n + 1 /\ C[n + 1] = Null
      /\ L[n + 1] = IF destroyed THEN <<>> ELSE Present(SubSeq(connections, Top.i + 1, Top.n))
      /\ L = [f \in 1 .. n + 1 |-> L[f]] /\ C = [f \in 1 .. n + 1 |-> C[f]]
  BY <1>1, <1>2, <1>5, <1>8, LeftsAre DEF Depth, Top, Lefts, Calls
<1>10. L[n + 1] = <<>>
  <2>1. CASE destroyed
    BY <1>9, <2>1
  <2>2. CASE ~destroyed
    <3>1. ~(Top.i < Top.n) /\ Top.i \in Nat /\ Top.n \in Nat
      <4>1. PICK r \in Frame : r = Top
        BY <1>2
      <4>2. r.i \in Nat /\ r.n \in Nat
        BY FrameFields
      <4> QED BY <1>1, <1>3, <2>2, <4>1, <4>2
    <3>2. SubSeq(connections, Top.i + 1, Top.n) = <<>>
      BY <3>1, SubSeqEmpty
    <3> QED BY <1>9, <2>2, <3>2, EraseEmpty DEF Present
  <2> QED BY <2>1, <2>2
<1>11. Lefts(connections, frames, destroyed)' = Front(L) /\ Calls(frames)' = Front(C)
  <2>1. Front(L) = [f \in 1 .. n |-> L[f]] /\ Front(C) = [f \in 1 .. n |-> C[f]]
    <3>1. \A s : Len(s) = n + 1 /\ s = [f \in 1 .. n + 1 |-> s[f]] => Front(s) = [f \in 1 .. n |-> s[f]]
      BY DEF Front
    <3> QED BY <1>9, <3>1
  <2>2. \A f \in 1 .. n : f \in 1 .. Len(frames) /\ (L[f] =
           IF destroyed THEN <<>> ELSE Present(SubSeq(connections, frames[f].i + 1, frames[f].n)))
           /\ C[f] = frames[f].calling
    BY <1>2, <1>5, <1>8, LeftsAre
  <2>3. Calls(frames)' = [f \in 1 .. n |-> C[f]]
    BY <1>5, <2>2 DEF Calls
  <2>4. Lefts(connections, frames, destroyed)' = [f \in 1 .. n |-> L[f]]
    <3>1. Lefts(connections, frames, destroyed)' =
            [f \in 1 .. n |-> IF destroyed THEN <<>>
                              ELSE Present(SubSeq(connections', frames[f].i + 1, frames[f].n))]
      BY <1>1, <1>5 DEF Lefts
    <3>2. \A f \in 1 .. n : connections' = connections
      BY <1>7
    <3> QED BY <2>2, <3>1, <3>2
  <2> QED BY <2>1, <2>3, <2>4
<1> QED BY <1>1, <1>5, <1>6, <1>8, <1>9, <1>10, <1>11
        DEF Promise!End, Promise!Depth, Promise!Front, Front, Lefts, Calls, Depth, Null

(* Every step of the signal is a step of the multicast, or changes nothing  *)
(* it tells of.                                                             *)
LEMMA StepPromised ==
  ASSUME IInv, MadeOK, [Next]_vars
  PROVE  [Promise!Next]_(Promise!mvars)
<1>1. ASSUME NEW c \in Conns, NEW b \in BOOLEAN, Promise!Connect(c, b) \/ Promise!Block(c, b)
      PROVE  Promise!Next
  BY <1>1 DEF Promise!Next
<1>2. ASSUME NEW b \in BOOLEAN, Connect(b) PROVE Promise!Next
  <2>1. NewConnection(b) /\ UserCode /\ frames' = frames /\ destroyed' = destroyed
    BY <1>2 DEF Connect
  <2>2. PICK c \in Conns : Promise!Connect(c, b)
    BY <2>1, NewPromised
  <2> QED BY <1>1, <2>2
<1>3. ASSUME NEW b \in BOOLEAN, SetDefaultSlot(b) PROVE Promise!Next
  <2>1. UserCode /\ frames' = frames /\ destroyed' = destroyed
    BY <1>3 DEF SetDefaultSlot
  <2>2. CASE default = Null
    <3>1. NewConnection(b)
      BY <1>3, <2>2 DEF SetDefaultSlot
    <3>2. PICK c \in Conns : Promise!Connect(c, b)
      BY <2>1, <3>1, NewPromised
    <3> QED BY <1>1, <3>2
  <2>3. CASE default # Null
    <3>1. PICK c \in Conns : c = default
      BY <2>3, SignalAssumption DEF IInv, TypeOK, Conns, Null
    <3>2. open' = (IF b THEN open \cup {c} ELSE open \ {c}) /\ connections' = connections
      BY <1>3, <2>3, <3>1 DEF SetDefaultSlot
    <3>3. Promise!Block(c, b)
      BY <2>1, <3>2, SlotPromised
    <3> QED BY <1>1, <3>3
  <2> QED BY <2>2, <2>3
<1>4. ASSUME NEW c \in Conns, NEW b \in BOOLEAN, Reconnect(c, b) PROVE Promise!Next
  <2>1. /\ UserCode /\ open' = (IF b THEN open \cup {c} ELSE open \ {c})
        /\ UNCHANGED <<connections, frames, destroyed>>
    BY <1>4 DEF Reconnect
  <2>2. Promise!Block(c, b)
    BY <2>1, SlotPromised
  <2> QED BY <1>1, <2>2
<1>5. ASSUME NEW c \in Conns, Disconnect(c) PROVE Promise!Next
  BY <1>5, DisconnectPromised DEF Promise!Next
<1>6. CASE Destroy
  BY <1>6, DestroyPromised DEF Promise!Next
<1>7. CASE Emit
  BY <1>7, EmitPromised DEF Promise!Next
<1>8. CASE CallNext
  BY <1>8, CallNextPromised DEF Promise!Next
<1>9. CASE SlotReturns
  BY <1>9, SlotReturnsPromised DEF Promise!Next
<1>10. CASE EmitEnd
  BY <1>10, EmitEndPromised DEF Promise!Next
<1>11. CASE UNCHANGED vars
  BY <1>11 DEF vars, Promise!mvars, Depth
<1> QED BY <1>2, <1>3, <1>4, <1>5, <1>6, <1>7, <1>8, <1>9, <1>10, <1>11 DEF Next

(* No connection and no emission, in both. *)
LEMMA InitPromised == Init => MadeOK /\ Promise!Init
<1> SUFFICES ASSUME Init PROVE MadeOK /\ Promise!Init
  OBVIOUS
<1>1. MadeOK
  BY DEF Init, MadeOK, Null
<1>2. Present(connections) = <<>> /\ Depth = 0
  BY EraseEmpty DEF Init, Present, Depth
<1>3. \A g : [f \in 1 .. 0 |-> g[f]] = <<>>
  OBVIOUS
<1> QED BY <1>1, <1>2, <1>3 DEF Init, Promise!Init

(* An emission calls, in the order of connection, each connection that was  *)
(* there when it began and still is, not blocked, when its turn comes,      *)
(* however the slots connect, disconnect, emit again and delete the signal. *)
THEOREM RefinesMulticast == Spec => ImplementsMulticast
<1>1. MadeOK /\ IInv /\ [Next]_vars => MadeOK'
  BY NextMade
<1>2. MadeOK /\ IInv /\ [Next]_vars => [Promise!Next]_(Promise!mvars)
  BY StepPromised
<1>3. Init => MadeOK /\ Promise!Init
  BY InitPromised
<1> QED BY <1>1, <1>2, <1>3, Invariance, PTL DEF Spec, ImplementsMulticast, Promise!MulticastSpec
=============================================================================
