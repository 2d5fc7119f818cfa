--------------------------- MODULE GadgetRegistry ---------------------------
(***************************************************************************)
(* What the gadget manager promises its users                              *)
(* (extensions/google_gadget_manager/google_gadget_manager.h, the comment  *)
(* on class GoogleGadgetManager): every running instance runs one gadget   *)
(* until it is removed; of a gadget without running instances at most the  *)
(* settings of its last instance are kept, for the next one; what was      *)
(* flushed survives a restart.  Slots, scores and files do not show here.  *)
(***************************************************************************)
CONSTANTS Gadgets,      \* the gadget ids
          Ids,          \* the instance ids
          Nothing       \* the gadget of an instance that does not run

VARIABLES running,      \* the gadget each instance runs, or Nothing
          kept,         \* gadgets whose last settings are kept for a reuse
          disk          \* running and kept at the last flush

rvars == <<running, kept, disk>>

Running(g) == {i \in Ids : running[i] = g}

Init == /\ running = [i \in Ids |-> Nothing]
        /\ kept = {}
        /\ disk = [running |-> running, kept |-> kept]

(* An instance of g starts; kept settings of g are handed over to it. *)
Add(g, i) == /\ running[i] = Nothing
             /\ running' = [running EXCEPT ![i] = g]
             /\ kept' = kept \ {g}
             /\ UNCHANGED disk

(* An instance stops.  If it was the last one of its gadget its settings   *)
(* are kept; other gadgets may be forgotten, a running one never loses any.*)
Remove(i) == /\ running[i] # Nothing
             /\ running' = [running EXCEPT ![i] = Nothing]
             /\ \E lost \in SUBSET kept :
                  kept' = (kept \ lost) \cup
                          (IF Running(running[i]) = {i} THEN {running[i]} ELSE {})
             /\ UNCHANGED disk

Flush == /\ disk' = [running |-> running, kept |-> kept]
         /\ UNCHANGED <<running, kept>>

Restart == /\ running' = disk.running
           /\ kept' = disk.kept
           /\ UNCHANGED disk

Next == \/ \E g \in Gadgets, i \in Ids : Add(g, i)
        \/ \E i \in Ids : Remove(i)
        \/ Flush
        \/ Restart

RegistrySpec == Init /\ [][Next]_rvars

(* Settings are kept only for gadgets that do not run. *)
KeptIsIdle == \A g \in kept : Running(g) = {}
=============================================================================
