------------------------------- MODULE MCChat -------------------------------
(* A small instance of Chat for TLC: at most two requests are under way, and at most      *)
(* four with the events to be published and the copies on their way; a desk that was      *)
(* left behind is not followed further, OpenWindowSeesAll exempting it.                   *)
EXTENDS Chat, TLC

TextSymmetry == Permutations(Texts)

Requests == Cardinality(loads) + Cardinality(sends)

Narrow ==
  /\ Requests <= 2 /\ Requests + Cardinality(due) + Cardinality(outbox) <= 4
  /\ "desk" \notin crossed

=============================================================================
