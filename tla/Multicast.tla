----------------------------- MODULE Multicast -----------------------------
(***************************************************************************)
(* What Signal promises (ggadget/signals.h): an emission calls, in the     *)
(* order of connection, each connection that was there when it began and   *)
(* is still there, and not blocked, when its turn comes; the slots may     *)
(* connect, disconnect, block, emit again and delete the signal.           *)
(***************************************************************************)
EXTENDS Naturals, Sequences, SequencesExt, Erasing

CONSTANTS Conns        \* the connections that can be made

VARIABLES connected,   \* the connections, in order
          open,        \* those with a slot
          left,        \* of each emission under way, what it has yet to call
          calling      \* of each emission under way, what it is calling, if any

mvars == <<connected, open, left, calling>>

(* 0 is no connection. *)
Depth == Len(left)
UserCode == Depth = 0 \/ calling[Depth] # 0

Init == connected = <<>> /\ open = {} /\ left = <<>> /\ calling = <<>>

Connect(c, withSlot) ==
  /\ UserCode
  /\ connected' = Append(connected, c)
  /\ open' = IF withSlot THEN open \cup {c} ELSE open \ {c}
  /\ UNCHANGED <<left, calling>>

Block(c, withSlot) ==
  /\ UserCode
  /\ open' = IF withSlot THEN open \cup {c} ELSE open \ {c}
  /\ UNCHANGED <<connected, left, calling>>

(* No emission calls the connection any more, nor an outer one. *)
Disconnect(c) ==
  /\ UserCode
  /\ connected' = Erase(connected, c)
  /\ open' = open \ {c}
  /\ left' = [f \in 1 .. Depth |-> Erase(left[f], c)]
  /\ UNCHANGED calling

Destroy ==
  /\ UserCode
  /\ connected' = <<>>
  /\ open' = {}
  /\ left' = [f \in 1 .. Depth |-> <<>>]
  /\ UNCHANGED calling

Emit ==
  /\ UserCode
  /\ left' = Append(left, connected)
  /\ calling' = Append(calling, 0)
  /\ UNCHANGED <<connected, open>>

(* The innermost emission passes its next connection. *)
Call ==
  /\ Depth > 0 /\ calling[Depth] = 0
  /\ left[Depth] # <<>>
  /\ left' = [left EXCEPT ![Depth] = Tail(@)]
  /\ calling' = [calling EXCEPT ![Depth] =
                   IF Head(left[Depth]) \in open THEN Head(left[Depth]) ELSE 0]
  /\ UNCHANGED <<connected, open>>

SlotReturns ==
  /\ Depth > 0 /\ calling[Depth] # 0
  /\ calling' = [calling EXCEPT ![Depth] = 0]
  /\ UNCHANGED <<connected, open, left>>

(* An emission ends when it has nothing left to call. *)
End ==
  /\ Depth > 0 /\ calling[Depth] = 0
  /\ left[Depth] = <<>>
  /\ left' = Front(left)
  /\ calling' = Front(calling)
  /\ UNCHANGED <<connected, open>>

Next ==
  \/ \E c \in Conns, b \in BOOLEAN : Connect(c, b) \/ Block(c, b)
  \/ \E c \in Conns : Disconnect(c)
  \/ Destroy
  \/ Emit
  \/ Call
  \/ SlotReturns
  \/ End

MulticastSpec == Init /\ [][Next]_mvars
=============================================================================
