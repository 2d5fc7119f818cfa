-------------------------- MODULE MCXMLHttpRequest --------------------------
(* One request object, two handle addresses.  A script of the usual kind    *)
(* aborts in any handler and opens and sends again when the request is done; *)
(* the xhr_sync run lets it show dialogs in handlers as well.               *)
EXTENDS XMLHttpRequest

Calls == {"open", "send", "abort"}
Usual == ({"DONE"} \X Calls) \cup ((States \cup {"ABORTED"}) \X {"abort"})
Dialogs == Usual \cup (States \X {"dialog"})
=============================================================================
