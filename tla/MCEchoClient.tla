---------------------------- MODULE MCEchoClient ----------------------------
(* Small instances of EchoClient for TLC. *)
EXTENDS EchoClient

=============================================================================
