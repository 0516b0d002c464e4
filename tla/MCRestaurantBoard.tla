-------------------------- MODULE MCRestaurantBoard --------------------------
(* A small instance of RestaurantBoard for TLC. *)
EXTENDS RestaurantBoard, Functions, TLC

CONSTANTS o1, o2, i1, i2, i3

\* an order with two items and one with a single item
MCOf == Restrict((i1 :> o1) @@ (i2 :> o1) @@ (i3 :> o2), Items)
MCStart == Restrict((o1 :> {"CONFIRMED", "PREPARING"}) @@ (o2 :> {"PENDING"}), Orders)

\* At most two requests and two events on their way, one lapse or visit or move, and
\* sessions that change before the operator's first request.
Narrow ==
  /\ Cardinality(calls) <= 2 /\ Cardinality(due) <= 2
  /\ visits + moves + lapses <= 1
  /\ presses = 0 \/ (session = "stored" /\ \A c \in calls : c.op # "refresh")

=============================================================================
