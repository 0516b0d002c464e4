---------------------------- MODULE MCCourierApp ----------------------------
(* Small instances of CourierApp for TLC. *)
EXTENDS CourierApp, TLC

\* which delivery is which does not matter
DeliverySymmetry == Permutations(Deliveries)

=============================================================================
