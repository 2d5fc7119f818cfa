------------------------------ MODULE Erasing ------------------------------
(* The erase-remove idiom of signals.cc.  It is Remove of SequencesExt, as  *)
(* a function that the proofs can unfold.                                   *)
EXTENDS Naturals, Sequences

(* s without its elements c. *)
Erase(s, c) ==
  LET upTo[k \in 0 .. Len(s)] == IF k = 0 THEN <<>>
                                 ELSE IF s[k] = c THEN upTo[k - 1]
                                 ELSE Append(upTo[k - 1], s[k])
  IN  upTo[Len(s)]
=============================================================================
