------------------------------- MODULE Lists -------------------------------
(* What the account and the chat do to the lists they show. *)
EXTENDS Naturals, FiniteSets

\* what of ms is at the places K, in its order
Filtered(ms, K) ==
  [k \in 1 .. Cardinality(K) |->
     ms[CHOOSE i \in K : Cardinality({j \in K : j <= i}) = k]]

=============================================================================
