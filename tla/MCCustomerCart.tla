--------------------------- MODULE MCCustomerCart ---------------------------
(* Small instances of CustomerCart for TLC. *)
EXTENDS CustomerCart

=============================================================================
