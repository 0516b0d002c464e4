---------------------------- MODULE OrderPromise ----------------------------
(***************************************************************************)
(* What FastBite promises a customer about one order: it is placed, served *)
(* only after the money is taken, delivered at most once, and whenever it  *)
(* is cancelled the same step gives the money back.                        *)
(***************************************************************************)
CONSTANT Orders

VARIABLES
  stage,   \* of each order: none, placed, underway, delivered, cancelled
  money    \* for each order: none, due, taken, never, returned

promiseVars == <<stage, money>>

Init ==
  /\ stage = [o \in Orders |-> "none"]
  /\ money = [o \in Orders |-> "none"]

Place(o) ==
  /\ stage[o] = "none"
  /\ stage' = [stage EXCEPT ![o] = "placed"]
  /\ \E m \in {"due", "taken"} : money' = [money EXCEPT ![o] = m]

Pay(o) ==
  /\ stage[o] = "placed" /\ money[o] = "due"
  /\ money' = [money EXCEPT ![o] = "taken"]
  /\ UNCHANGED stage

Serve(o) ==
  /\ stage[o] = "placed" /\ money[o] = "taken"
  /\ stage' = [stage EXCEPT ![o] = "underway"]
  /\ UNCHANGED money

Deliver(o) ==
  /\ stage[o] = "underway" /\ money[o] = "taken"
  /\ stage' = [stage EXCEPT ![o] = "delivered"]
  /\ UNCHANGED money

Cancel(o) ==
  /\ stage[o] \in {"placed", "underway"}
  /\ stage' = [stage EXCEPT ![o] = "cancelled"]
  /\ money' = [money EXCEPT ![o] = IF @ = "taken" THEN "returned" ELSE "never"]

Next == \E o \in Orders : Place(o) \/ Pay(o) \/ Serve(o) \/ Deliver(o) \/ Cancel(o)

Spec == Init /\ [][Next]_promiseVars

=============================================================================
