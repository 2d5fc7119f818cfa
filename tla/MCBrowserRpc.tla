---------------------------- MODULE MCBrowserRpc ----------------------------
(* Two browsers in one child, and in a second one after the first crashed.  *)
EXTENDS BrowserRpc

(* Nested calls, or one side that acts on its own while nothing is nested.  *)
Orderly == {{"calls", "answers"}, {"pings", "events"}, {"pings", "answers"}}
ASSUME OrderlyAssumption == \A h \in Orderly : Nests(h) \/ Crosses(h)

(* Pages that call the host, from a child that pings it. *)
Pinging == {{"calls", "pings"}}
=============================================================================
