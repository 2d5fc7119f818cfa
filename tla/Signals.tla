------------------------------ MODULE Signals ------------------------------
(***************************************************************************)
(* One Signal (ggadget/signals.cc).  Slots run inside Emit and may do       *)
(* anything to the signal, which is why Disconnect leaves a NULL in the     *)
(* vector while an Emit is under way, the number of connections is taken    *)
(* once, and a deleted signal tells the Emit calls below it by a flag on    *)
(* the stack of the outermost one.                                          *)
(***************************************************************************)
EXTENDS Naturals, Sequences, SequencesExt, Erasing

CONSTANTS MaxConns,      \* bound on the connections made
          MaxDepth       \* bound on the nesting of Emit

ASSUME SignalAssumption ==
  /\ MaxConns \in Nat
  /\ MaxDepth \in Nat \ {0}

Conns == 1 .. MaxConns
Null == 0

VARIABLES
  connections,   \* impl_->connections_
  made,          \* the number of connections made
  open,          \* the connections whose slot_ is not NULL
  default,       \* impl_->default_connection_
  deathFlag,     \* the frame impl_->death_flag_ptr_ points into, or 0
  destroyed,     \* the signal was deleted
  frames         \* the Emit calls under way, outermost first

vars == <<connections, made, open, default, deathFlag, destroyed, frames>>

(* i, n: the loop; flag: the frame whose death_flag it looks at; dead: its  *)
(* own death_flag; calling: the connection whose slot runs, or Null.        *)
Frame == [i : 0 .. MaxConns, n : 0 .. MaxConns, flag : 1 .. MaxDepth,
          dead : BOOLEAN, calling : 0 .. MaxConns]

Depth == Len(frames)
Top == frames[Depth]
FlagRaised == frames[Top.flag].dead

(* Code outside Signal runs: no Emit is under way, or a slot of the         *)
(* innermost one is.  It does not touch a signal it has deleted.            *)
UserCode == ~destroyed /\ (Depth > 0 => Top.calling # Null)

Init ==
  /\ connections = <<>> /\ made = 0 /\ open = {}
  /\ default = Null /\ deathFlag = 0 /\ destroyed = FALSE
  /\ frames = <<>>

-----------------------------------------------------------------------------
NewConnection(withSlot) ==
  /\ made < MaxConns
  /\ made' = made + 1
  /\ connections' = Append(connections, made + 1)
  /\ open' = IF withSlot THEN open \cup {made + 1} ELSE open

Connect(withSlot) ==
  /\ UserCode
  /\ NewConnection(withSlot)
  /\ UNCHANGED <<default, deathFlag, destroyed, frames>>

(* Connection::Reconnect: a slot that is NULL or incompatible unsets it. *)
Reconnect(c, withSlot) ==
  /\ UserCode
  /\ Contains(connections, c)
  /\ open' = IF withSlot THEN open \cup {c} ELSE open \ {c}
  /\ open' # open
  /\ UNCHANGED <<connections, made, default, deathFlag, destroyed, frames>>

SetDefaultSlot(withSlot) ==
  /\ UserCode
  /\ IF default # Null
     THEN /\ open' = IF withSlot THEN open \cup {default} ELSE open \ {default}
          /\ UNCHANGED <<connections, made, default>>
     ELSE /\ NewConnection(withSlot)
          /\ default' = made + 1
  /\ UNCHANGED <<deathFlag, destroyed, frames>>

(* While an Emit is under way the vector keeps its length. *)
WithoutMutant(c) == Erase(connections, c)
Without(c) ==
  IF deathFlag # 0 THEN [k \in DOMAIN connections |->
                           IF connections[k] = c THEN Null ELSE connections[k]]
  ELSE Erase(connections, c)

(* The deleted connection's slot is deleted with it.  No caller keeps the   *)
(* connection that SetDefaultSlot returns, to disconnect it.                *)
Disconnect(c) ==
  /\ UserCode
  /\ Contains(connections, c)
  /\ c # default
  /\ connections' = Without(c)
  /\ open' = open \ {c}
  /\ UNCHANGED <<made, default, deathFlag, destroyed, frames>>

(* Signal::~Signal *)
Destroy ==
  /\ UserCode
  /\ destroyed' = TRUE
  /\ connections' = <<>> /\ open' = {} /\ default' = Null /\ deathFlag' = 0
  /\ frames' = IF deathFlag # 0 THEN [frames EXCEPT ![deathFlag].dead = TRUE]
               ELSE frames
  /\ UNCHANGED made

-----------------------------------------------------------------------------
(* Emit up to its loop.  Only the outermost call installs its own flag. *)
EmitMutant ==
  /\ UserCode
  /\ Depth < MaxDepth
  /\ deathFlag' = Depth + 1
  /\ frames' = Append(frames, [i |-> 0, n |-> Len(connections),
                               flag |-> deathFlag',
                               dead |-> FALSE, calling |-> Null])
  /\ UNCHANGED <<connections, made, open, default, destroyed>>
Emit ==
  /\ UserCode
  /\ Depth < MaxDepth
  /\ deathFlag' = IF deathFlag = 0 THEN Depth + 1 ELSE deathFlag
  /\ frames' = Append(frames, [i |-> 0, n |-> Len(connections),
                               flag |-> deathFlag',
                               dead |-> FALSE, calling |-> Null])
  /\ UNCHANGED <<connections, made, open, default, destroyed>>

InLoop == Depth > 0 /\ Top.calling = Null

(* One round of the loop: the slot of element i is called, if it has one. *)
CallNextMutant ==
  /\ InLoop
  /\ Top.i <= Top.n /\ ~FlagRaised
  /\ frames' = [frames EXCEPT
                  ![Depth].i = @ + 1,
                  ![Depth].calling = IF /\ Top.i + 1 \in DOMAIN connections
                                        /\ connections[Top.i + 1] \in open
                                     THEN connections[Top.i + 1] ELSE Null]
  /\ UNCHANGED <<connections, made, open, default, deathFlag, destroyed>>
CallNext ==
  /\ InLoop
  /\ Top.i < Top.n /\ ~FlagRaised
  /\ LET c == connections[Top.i + 1]
     IN  frames' = [frames EXCEPT ![Depth].i = @ + 1,
                                  ![Depth].calling = IF c \in open THEN c ELSE Null]
  /\ UNCHANGED <<connections, made, open, default, deathFlag, destroyed>>

SlotReturns ==
  /\ Depth > 0 /\ Top.calling # Null
  /\ frames' = [frames EXCEPT ![Depth].calling = Null]
  /\ UNCHANGED <<connections, made, open, default, deathFlag, destroyed>>

(* After the loop the outermost Emit of a live signal erases the NULLs. *)
Sweeps == ~FlagRaised /\ Top.flag = Depth

EmitEndMutant ==
  /\ InLoop
  /\ Top.i < Top.n => FlagRaised
  /\ frames' = Front(frames)
  /\ deathFlag' = IF Sweeps THEN 0 ELSE deathFlag
  /\ UNCHANGED <<connections, made, open, default, destroyed>>
EmitEnd ==
  /\ InLoop
  /\ Top.i < Top.n => FlagRaised
  /\ frames' = Front(frames)
  /\ IF Sweeps
     THEN /\ deathFlag' = 0
          /\ connections' = Erase(connections, Null)
     ELSE UNCHANGED <<deathFlag, connections>>
  /\ UNCHANGED <<made, open, default, destroyed>>

Next ==
  \/ \E b \in BOOLEAN : Connect(b) \/ SetDefaultSlot(b)
  \/ \E c \in Conns, b \in BOOLEAN : Reconnect(c, b)
  \/ \E c \in Conns : Disconnect(c)
  \/ Destroy
  \/ Emit
  \/ CallNext
  \/ SlotReturns
  \/ EmitEnd

Spec == Init /\ [][Next]_vars

-----------------------------------------------------------------------------
TypeOK ==
  /\ connections \in Seq(0 .. MaxConns)
  /\ made \in 0 .. MaxConns
  /\ open \subseteq Conns
  /\ default \in 0 .. MaxConns
  /\ deathFlag \in 0 .. MaxDepth
  /\ destroyed \in BOOLEAN
  /\ frames \in Seq(Frame)

(* No Emit on a live signal can index past its vector, although slots       *)
(* disconnect and inner Emit calls end while outer ones hold an old length. *)
IndexInside ==
  ~destroyed => \A f \in 1 .. Depth : frames[f].n <= Len(connections)

(* The signal's death flag points into the outermost Emit under way, and    *)
(* every Emit looks at that one; a deleted signal has raised it, so none of *)
(* them touches the signal again.                                           *)
FlagOfOutermost ==
  /\ \A f \in 1 .. Depth : frames[f].flag = 1
  /\ ~destroyed => /\ deathFlag = IF Depth > 0 THEN 1 ELSE 0
                   /\ Depth > 0 => ~frames[1].dead
  /\ destroyed /\ Depth > 0 => frames[1].dead

(* The holes that Disconnect leaves during an Emit are gone afterwards. *)
NoHolesWhenIdle == Depth = 0 => ~Contains(connections, Null)

-----------------------------------------------------------------------------
(* Emissions as Multicast sees them: what is left of a loop is the part of  *)
(* the vector it has not passed, without the holes.                         *)
Present(s) == Erase(s, Null)

Promise == INSTANCE Multicast WITH
  connected <- Present(connections),
  left      <- [f \in 1 .. Depth |->
                  IF destroyed THEN <<>>
                  ELSE Present(SubSeq(connections, frames[f].i + 1, frames[f].n))],
  calling   <- [f \in 1 .. Depth |-> frames[f].calling]

ImplementsMulticast == Promise!MulticastSpec
=============================================================================
