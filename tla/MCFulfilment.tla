---------------------------- MODULE MCFulfilment ----------------------------
(* Small instances of Fulfilment for TLC. *)
EXTENDS Fulfilment, TLC

Symmetry == Permutations(Orders) \cup Permutations(Couriers) \cup Permutations(Requests)

\* Two requests in flight together, or a crash, in one behaviour; after a crash at most
\* one request is in flight and one courier has been asked.
OneTrouble ==
  crashes = 0 \/
    /\ Cardinality({r \in Requests : request[r] # Idle}) <= 1
    /\ \A o \in Orders : Cardinality(Attempted(o)) <= 1

=============================================================================
