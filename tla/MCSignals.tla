----------------------------- MODULE MCSignals -----------------------------
(* One signal, a few connections, nested emissions.  Connections are        *)
(* numbered in the order they are made, which is the order of their calls.  *)
EXTENDS Signals
=============================================================================
