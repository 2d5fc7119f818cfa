------------------------- MODULE MCMetadataUpdate -------------------------
(* Two plugins and two days; retries of 5 up to 10 units, rounded as the    *)
(* code rounds milliseconds.                                                *)
EXTENDS MetadataUpdate, TLC

Symmetry == Permutations(Plugins)
=============================================================================
