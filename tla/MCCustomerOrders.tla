-------------------------- MODULE MCCustomerOrders --------------------------
(* A small instance of CustomerOrders for TLC. *)
EXTENDS CustomerOrders

\* At most two requests at once; nothing is claimed of the states after an answer was
\* overtaken.
Narrow == ~crossed /\ Cardinality(calls) <= 2

=============================================================================
