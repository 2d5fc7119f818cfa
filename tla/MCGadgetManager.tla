-------------------------- MODULE MCGadgetManager --------------------------
(* GadgetManager on small instances: two gadgets, one of them local, on two *)
(* or three slots.  The slots are numbers and the order of their search     *)
(* matters, so no symmetry is used.                                         *)
EXTENDS GadgetManager
=============================================================================
