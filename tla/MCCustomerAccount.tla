-------------------------- MODULE MCCustomerAccount --------------------------
(* A small instance of CustomerAccount for TLC.  The three parts share nothing, so one is *)
(* followed at a time, with the others as they were at first.                             *)
EXTENDS CustomerAccount

InboxPresses == 3  \* bound on the buttons and lapses of the inbox, whose states are many

OnePart ==
  \/ AddressesInit /\ InboxInit
  \/ AddressesInit /\ ReviewsInit /\ presses + lapses <= InboxPresses
  \/ InboxInit /\ ReviewsInit

=============================================================================
