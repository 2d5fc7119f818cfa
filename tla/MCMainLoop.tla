----------------------------- MODULE MCMainLoop -----------------------------
(* Four watches: callbacks inside callbacks, one that is removed and one    *)
(* that a worker thread adds meanwhile.                                     *)
EXTENDS MainLoop
=============================================================================
