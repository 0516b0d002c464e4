-------------------------- MODULE FulfilmentProofs --------------------------
(***************************************************************************)
(* Proofs about Fulfilment, for any sets of orders, couriers and request   *)
(* processes, and any bounds on the attempts and on the crashes.           *)
(***************************************************************************)
EXTENDS Fulfilment, TLAPS

-----------------------------------------------------------------------------
(* Type correctness                                                        *)

\* What a request in flight carries, by operation.
LEMMA InFlightFields ==
  ASSUME NEW s \in InFlight \cup {Idle}
  PROVE  /\ s.op \in {"accept", "reject"} => s.order \in Orders /\ s.courier \in Couriers
         /\ s.op = "deliver" => s.order \in Orders /\ s.unassigned \subseteq Orders
         /\ s.op = "offline" => s.courier \in Couriers
         /\ s.op = "available" => s.courier \in Couriers /\ s.unassigned \subseteq Orders
         /\ s.op = "idle" => s = Idle
BY DEF InFlight, Idle

\* What the job in flight carries, by operation.
LEMMA InJobFields ==
  ASSUME NEW s \in InJob \cup {Idle}
  PROVE  /\ s.op \in {"offer", "expire"} => s.order \in Orders /\ s.courier \in Couriers
         /\ s.op = "giveUp" => s.order \in Orders
         /\ s.op = "idle" => s = Idle
         /\ s # Idle => s.op \in {"offer", "expire", "giveUp"}
BY DEF InJob, Idle

LEMMA JobTypes ==
  /\ \A o \in Orders : AssignJob(o) \in Job /\ ExpirePaymentJob(o) \in Job
  /\ \A o \in Orders, c \in Couriers : ExpireOfferJob(o, c) \in Job
BY DEF AssignJob, ExpirePaymentJob, ExpireOfferJob, Job

\* Whatever crashes, only the pushed jobs and the redelivered one join the queue.
LEMMA PushType ==
  ASSUME NEW jobs \in SUBSET Job, NEW redo \in SUBSET Job,
         queue \subseteq Job, crashes \in 0..MaxCrashes,
         Push(jobs, redo)
  PROVE  queue' \subseteq Job /\ crashes' \in 0..MaxCrashes
BY FulfilmentAssumption DEF Push

\* The types survive every step: one case per action.
LEMMA TypeStep == TypeOK /\ [Next]_vars => TypeOK'
<1> SUFFICES ASSUME TypeOK, [Next]_vars PROVE TypeOK'
  OBVIOUS
<1> USE DEF TypeOK, orderVars, dispatchVars, processVars, queueVars
<1> USE FulfilmentAssumption
<1>1. CASE UNCHANGED vars
  BY <1>1 DEF vars
<1>2. ASSUME NEW o \in Orders, Customer(o) PROVE TypeOK'
  <2>1. ASSUME NEW cash \in BOOLEAN, Checkout(o, cash) PROVE TypeOK'
    <3>1. queue' \subseteq Job /\ crashes' \in 0..MaxCrashes
      BY <2>1, PushType, JobTypes DEF Checkout
    <3> QED
      BY <2>1, <3>1 DEF Checkout, OrderStatus, PaymentStatus, DeliveryStatus
  <2>2. ASSUME ConfirmPayment(o) PROVE TypeOK'
    <3>1. queue' \subseteq Job /\ crashes' \in 0..MaxCrashes
      BY <2>2, PushType, JobTypes DEF ConfirmPayment
    <3> QED
      BY <2>2, <3>1 DEF ConfirmPayment, PaymentStatus, DeliveryStatus
  <2>3. ASSUME CancelOrderByClient(o) PROVE TypeOK'
    BY <2>3 DEF CancelOrderByClient, CancelWithRefund, Advance, CancelledPayment,
                OrderStatus, PaymentStatus
  <2> QED
    BY <1>2, <2>1, <2>2, <2>3 DEF Customer
<1>3. ASSUME NEW o \in Orders, RestaurantStep(o) PROVE TypeOK'
  BY <1>3 DEF RestaurantStep, AcceptOrderByRestaurant, RejectOrderByRestaurant,
              StartPreparingOrder, MarkOrderReady, UpdateOrderItemStatus,
              CancelWithRefund, Advance, CancelledPayment, OrderStatus, PaymentStatus
<1>4. ASSUME NEW o \in Orders, CourierStep(o) PROVE TypeOK'
  BY <1>4 DEF CourierStep, MarkDeliveryPickedUp, MarkDeliveryInTransit,
              MarkDeliveryFailed, Advance, OrderStatus, DeliveryStatus
<1>5. ASSUME NEW o \in Orders, AssignStep(o) PROVE TypeOK'
  <2>1. CASE AssignReturns(o) \/ AssignFindsNobody(o)
    BY <2>1 DEF AssignReturns, AssignFindsNobody, Consume
  <2>2. CASE AssignReadsNoAttemptLeft(o)
    BY <2>2 DEF AssignReadsNoAttemptLeft, Reserve, InJob
  <2>3. ASSUME NEW c \in Couriers, AssignReadsCandidate(o, c) PROVE TypeOK'
    BY <2>3 DEF AssignReadsCandidate, Reserve, InJob
  <2> QED
    BY <1>5, <2>1, <2>2, <2>3 DEF AssignStep
<1>6. ASSUME NEW o \in Orders, ExpiryStep(o) PROVE TypeOK'
  <2>1. ASSUME NEW c \in Couriers, ExpireOfferReads(o, c) PROVE TypeOK'
    BY <2>1 DEF ExpireOfferReads, Reserve, InJob
  <2>2. ASSUME NEW c \in Couriers, ExpireOfferReturns(o, c) PROVE TypeOK'
    BY <2>2 DEF ExpireOfferReturns, Consume
  <2>3. CASE ExpirePayment(o)
    BY <2>3 DEF ExpirePayment, Advance, OrderStatus, PaymentStatus
  <2>4. CASE ExpirePaymentReturns(o)
    BY <2>4 DEF ExpirePaymentReturns, Consume
  <2> QED
    BY <1>6, <2>1, <2>2, <2>3, <2>4 DEF ExpiryStep
<1>7. ASSUME NEW o \in Orders, NEW c \in Couriers, OfferDeadline(o, c) PROVE TypeOK'
  BY <1>7 DEF OfferDeadline
<1>8. ASSUME NEW r \in Requests, CourierBegins(r) PROVE TypeOK'
  <2>1. Unassigned \subseteq Orders
    BY DEF Unassigned
  <2>2. PICK step \in InFlight : Begin(r, step)
    BY <1>8, <2>1 DEF CourierBegins, BeginAcceptDeliveryOffer, BeginRejectDeliveryOffer,
                      BeginMarkDeliveryDelivered, BeginGoOffline, BeginGoAvailable, InFlight
  <2> QED
    BY <2>2 DEF Begin
<1>9. ASSUME NEW r \in Requests, CourierCommits(r) PROVE TypeOK'
  <2> DEFINE s == request[r]
  <2>1. /\ s.op \in {"accept", "reject"} => s.order \in Orders /\ s.courier \in Couriers
        /\ s.op = "deliver" => s.order \in Orders /\ s.unassigned \subseteq Orders
        /\ s.op = "offline" => s.courier \in Couriers
        /\ s.op = "available" => s.courier \in Couriers /\ s.unassigned \subseteq Orders
    BY InFlightFields
  <2>2. CASE AcceptDeliveryOffer(r)
    <3>1. s.order \in Orders /\ s.courier \in Couriers
      BY <2>1, <2>2 DEF AcceptDeliveryOffer
    <3> QED
      BY <2>2, <3>1 DEF AcceptDeliveryOffer, OrderStatus, DeliveryOfferStatus, CourierStatus
  <2>3. CASE RejectDeliveryOffer(r)
    <3>1. s.order \in Orders /\ s.courier \in Couriers
      BY <2>1, <2>3 DEF RejectDeliveryOffer
    <3>2. Push({AssignJob(s.order)}, {}) /\ {AssignJob(s.order)} \subseteq Job
      BY <2>3, <3>1, JobTypes DEF RejectDeliveryOffer
    <3>3. queue' \subseteq Job /\ crashes' \in 0..MaxCrashes
      BY <3>2, PushType
    <3> QED
      BY <2>3, <3>1, <3>3 DEF RejectDeliveryOffer, DeliveryOfferStatus
  <2>4. CASE MarkDeliveryDelivered(r)
    <3>1. s.order \in Orders /\ s.unassigned \subseteq Orders
      BY <2>1, <2>4 DEF MarkDeliveryDelivered
    <3> DEFINE jobs == {AssignJob(p) : p \in s.unassigned}
    <3>2. jobs \subseteq Job
      BY <3>1, JobTypes
    <3>3. Push(jobs, {})
      BY <2>4 DEF MarkDeliveryDelivered
    <3> HIDE DEF jobs
    <3>4. queue' \subseteq Job /\ crashes' \in 0..MaxCrashes
      BY <3>2, <3>3, PushType
    <3> QED
      BY <2>4, <3>1, <3>4
      DEF MarkDeliveryDelivered, Advance, OrderStatus, DeliveryStatus, CourierStatus
  <2>5. CASE GoOffline(r)
    BY <2>1, <2>5 DEF GoOffline, CourierStatus
  <2>6. CASE GoAvailable(r)
    <3>1. s.courier \in Couriers /\ s.unassigned \subseteq Orders
      BY <2>1, <2>6 DEF GoAvailable
    <3> DEFINE jobs == {AssignJob(p) : p \in s.unassigned}
    <3>2. jobs \subseteq Job
      BY <3>1, JobTypes
    <3>3. Push(jobs, {})
      BY <2>6 DEF GoAvailable
    <3> HIDE DEF jobs
    <3>4. queue' \subseteq Job /\ crashes' \in 0..MaxCrashes
      BY <3>2, <3>3, PushType
    <3> QED
      BY <2>6, <3>1, <3>4 DEF GoAvailable, CourierStatus
  <2> QED
    BY <1>9, <2>2, <2>3, <2>4, <2>5, <2>6 DEF CourierCommits
<1>10. ASSUME NEW r \in Requests, Rollback(r) PROVE TypeOK'
  BY <1>10 DEF Rollback
<1>11. ASSUME NEW c \in Couriers, GoBusy(c) PROVE TypeOK'
  BY <1>11 DEF GoBusy, CourierStatus
<1>12. CASE WorkerCommits
  <2>1. CASE CreateDeliveryOffer
    <3>1. running.order \in Orders /\ running.courier \in Couriers
      BY <2>1, InJobFields DEF CreateDeliveryOffer
    <3>2. queue' \subseteq Job /\ crashes' \in 0..MaxCrashes
      BY <2>1, <3>1, PushType, JobTypes DEF CreateDeliveryOffer
    <3> QED
      BY <2>1, <3>1, <3>2 DEF CreateDeliveryOffer, DeliveryOfferStatus
  <2>2. CASE MarkDeliveryFailedBySystem
    <3>1. running.order \in Orders
      BY <2>2, InJobFields DEF MarkDeliveryFailedBySystem
    <3>2. queue' \subseteq Job /\ crashes' \in 0..MaxCrashes
      BY <2>2, <3>1, PushType, JobTypes DEF MarkDeliveryFailedBySystem
    <3>3. delivery' \in [Orders -> DeliveryStatus \cup {Absent}]
      BY <2>2, <3>1 DEF MarkDeliveryFailedBySystem, DeliveryStatus
    <3>4. UNCHANGED <<order, payment>> \/ CancelWithRefund(running.order)
      BY <2>2 DEF MarkDeliveryFailedBySystem, CancelBySystem
    <3>5. /\ order' \in [Orders -> OrderStatus \cup {Absent}]
          /\ payment' \in [Orders -> PaymentStatus \cup {Absent}]
      BY <3>1, <3>4 DEF CancelWithRefund, Advance, CancelledPayment, OrderStatus, PaymentStatus
    <3> QED
      BY <2>2, <3>2, <3>3, <3>5 DEF MarkDeliveryFailedBySystem
  <2>3. CASE ExpireOffer
    <3>1. running.order \in Orders /\ running.courier \in Couriers
      BY <2>3, InJobFields DEF ExpireOffer
    <3>2. /\ Push({AssignJob(running.order)}, {ExpireOfferJob(running.order, running.courier)})
          /\ {AssignJob(running.order)} \subseteq Job
          /\ {ExpireOfferJob(running.order, running.courier)} \subseteq Job
      BY <2>3, <3>1, JobTypes DEF ExpireOffer
    <3>3. queue' \subseteq Job /\ crashes' \in 0..MaxCrashes
      BY <3>2, PushType
    <3> QED
      BY <2>3, <3>1, <3>3 DEF ExpireOffer, DeliveryOfferStatus
  <2> QED
    BY <1>12, <2>1, <2>2, <2>3 DEF WorkerCommits
<1>13. CASE WorkerCrash
  <2>1. running.op \in {"offer", "expire", "giveUp"}
    BY <1>13, InJobFields DEF WorkerCrash
  <2>2. queue' \subseteq Job
    BY <1>13, <2>1, InJobFields, JobTypes DEF WorkerCrash
  <2> QED
    BY <1>13, <2>2 DEF WorkerCrash
<1> QED
  BY <1>1, <1>2, <1>3, <1>4, <1>5, <1>6, <1>7, <1>8, <1>9, <1>10, <1>11, <1>12, <1>13
  DEF Next

\* In every reachable state each row, job and transaction in flight is one the code
\* can hold: no status of a wrong enum, no job for a missing order.
THEOREM TypeCorrect == Spec => []TypeOK
<1>1. Init => TypeOK
  BY FulfilmentAssumption DEF Init, TypeOK, CourierStatus
<1> QED
  BY <1>1, TypeStep, PTL DEF Spec

-----------------------------------------------------------------------------
(* The inductive invariant behind the money                                *)
(*                                                                         *)
(* MoneyFollowsOrder is not inductive: the assignment job could cancel an  *)
(* order whose payment is still pending, or refund nothing, if it could    *)
(* run for an order without a payment.  It cannot, because every job and   *)
(* every transaction in flight that may touch an order names one whose     *)
(* delivery exists, and a delivery exists only once the money was taken.   *)

\* The order, its payment and its delivery are created in that order.
RowsFollow(o) ==
  /\ order[o] = Absent <=> payment[o] = Absent
  /\ payment[o] = "PENDING" => order[o] = "PENDING" /\ delivery[o] = Absent
  /\ delivery[o] # Absent => payment[o] \in {"COMPLETED", "REFUNDED"}
  /\ assigned[o] # None => delivery[o] # Absent
  /\ \A c \in Couriers : offer[o][c] # Absent => delivery[o] # Absent
  /\ AssignJob(o) \in queue => delivery[o] # Absent

\* What a request in flight may still write about has a delivery.
RequestHasDelivery(s) ==
  /\ s.op \in {"accept", "reject", "deliver"} => delivery[s.order] # Absent
  /\ s.op \in {"available", "deliver"} => \A o \in s.unassigned : delivery[o] # Absent

\* And so has what the job in flight may still write about.
RunningHasDelivery == running # Idle => delivery[running.order] # Absent

MoneyInv ==
  /\ \A o \in Orders : RowsFollow(o)
  /\ \A r \in Requests : RequestHasDelivery(request[r])
  /\ RunningHasDelivery
  /\ MoneyFollowsOrder
  /\ KitchenWaitsForCourier

LEMMA JobsDiffer ==
  /\ \A o, p : AssignJob(o) = AssignJob(p) => o = p
  /\ \A o, p : AssignJob(o) # ExpirePaymentJob(p)
  /\ \A o, p, c : AssignJob(o) # ExpireOfferJob(p, c)
BY DEF AssignJob, ExpirePaymentJob, ExpireOfferJob

\* The processes keep their part of MoneyInv in a step that starts and ends none
\* of their transactions and deletes no delivery.
LEMMA ProcessesKeep ==
  ASSUME MoneyInv, TypeOK, UNCHANGED processVars,
         \A o \in Orders : delivery[o] # Absent => delivery'[o] # Absent
  PROVE  (\A r \in Requests : RequestHasDelivery(request[r]))' /\ RunningHasDelivery'
<1>1. ASSUME NEW r \in Requests PROVE RequestHasDelivery(request[r])'
  BY <1>1, InFlightFields DEF MoneyInv, RequestHasDelivery, processVars, TypeOK
<1>2. RunningHasDelivery'
  BY InJobFields DEF MoneyInv, RunningHasDelivery, processVars, TypeOK
<1> QED
  BY <1>1, <1>2

\* A cancellation with its refund keeps the rows and the money together.
LEMMA CancelKeepsMoney ==
  ASSUME MoneyInv, TypeOK, NEW o \in Orders, CancelWithRefund(o)
  PROVE  /\ \A p \in Orders \ {o} : order'[p] = order[p] /\ payment'[p] = payment[p]
         /\ order[o] \in Underway \cup {"PENDING"} /\ order'[o] = "CANCELLED"
         /\ \/ payment[o] = "PENDING" /\ payment'[o] = "CANCELLED" /\ delivery[o] = Absent
            \/ payment[o] = "COMPLETED" /\ payment'[o] = "REFUNDED"
<1>1. /\ \A p \in Orders \ {o} : order'[p] = order[p] /\ payment'[p] = payment[p]
      /\ order[o] \in Underway \cup {"PENDING"} /\ order'[o] = "CANCELLED"
      /\ payment'[o] = CancelledPayment(payment[o])
  BY DEF CancelWithRefund, Advance, OrderCan, OrderEdges, Underway, TypeOK
<1>2. payment[o] \in {"PENDING", "COMPLETED"}
  BY <1>1 DEF MoneyInv, RowsFollow, MoneyFollowsOrder, Released, TypeOK, PaymentStatus, Absent,
              Underway
<1> QED
  BY <1>1, <1>2 DEF CancelledPayment, MoneyInv, RowsFollow

\* Each step keeps MoneyInv: one case per action.
LEMMA MoneyStep == MoneyInv /\ TypeOK /\ [Next]_vars => MoneyInv'
<1> SUFFICES ASSUME MoneyInv, TypeOK, [Next]_vars PROVE MoneyInv'
  OBVIOUS
<1> DEFINE Rows == \A o \in Orders : RowsFollow(o)
           Reqs == \A r \in Requests : RequestHasDelivery(request[r])
<1> USE DEF orderVars, dispatchVars, processVars, queueVars
<1>1. CASE UNCHANGED vars
  BY <1>1 DEF vars, MoneyInv, RowsFollow, RequestHasDelivery, RunningHasDelivery,
              MoneyFollowsOrder, KitchenWaitsForCourier, HasCourier
<1>2. ASSUME NEW o \in Orders, NEW cash \in BOOLEAN, Checkout(o, cash) PROVE MoneyInv'
  <2>1. payment[o] = Absent /\ delivery[o] = Absent
    BY <1>2 DEF Checkout, MoneyInv, RowsFollow, Absent
  <2>2. \A p \in Orders : AssignJob(p) \in queue' => AssignJob(p) \in queue \/ (p = o /\ cash)
    BY <1>2, JobsDiffer DEF Checkout, Push
  <2>3. Rows'
    BY <1>2, <2>1, <2>2 DEF Checkout, MoneyInv, RowsFollow, TypeOK, Absent
  <2>4. MoneyFollowsOrder' /\ KitchenWaitsForCourier'
    BY <1>2, <2>1 DEF Checkout, MoneyInv, MoneyFollowsOrder, KitchenWaitsForCourier, HasCourier,
                      TypeOK, Released, Underway, Absent
  <2>5. Reqs' /\ RunningHasDelivery'
    BY <1>2, <2>1, ProcessesKeep DEF Checkout, TypeOK
  <2> QED
    BY <2>3, <2>4, <2>5 DEF MoneyInv
<1>3. ASSUME NEW o \in Orders, ConfirmPayment(o) PROVE MoneyInv'
  <2>1. payment[o] = "PENDING"
    BY <1>3 DEF ConfirmPayment, PaymentCan, PaymentEdges
  <2>2. \A p \in Orders : AssignJob(p) \in queue' => AssignJob(p) \in queue \/ p = o
    BY <1>3, JobsDiffer DEF ConfirmPayment, Push
  <2>3. Rows'
    BY <1>3, <2>1, <2>2 DEF ConfirmPayment, MoneyInv, RowsFollow, TypeOK, Absent
  <2>4. MoneyFollowsOrder' /\ KitchenWaitsForCourier'
    BY <1>3, <2>1 DEF ConfirmPayment, MoneyInv, MoneyFollowsOrder, KitchenWaitsForCourier,
                      HasCourier, TypeOK, Released
  <2>5. Reqs' /\ RunningHasDelivery'
    BY <1>3, ProcessesKeep DEF ConfirmPayment, TypeOK, Absent
  <2> QED
    BY <2>3, <2>4, <2>5 DEF MoneyInv
<1>4. ASSUME NEW o \in Orders, CancelOrderByClient(o) \/ RejectOrderByRestaurant(o)
      PROVE  MoneyInv'
  <2>1. CancelWithRefund(o) /\ UNCHANGED <<dispatchVars, courier, processVars, queueVars>>
    BY <1>4 DEF CancelOrderByClient, RejectOrderByRestaurant
  <2>2. Rows'
    BY <2>1, CancelKeepsMoney DEF MoneyInv, RowsFollow, Underway, Absent
  <2>3. MoneyFollowsOrder' /\ KitchenWaitsForCourier'
    BY <2>1, CancelKeepsMoney DEF MoneyInv, MoneyFollowsOrder, KitchenWaitsForCourier,
                                  HasCourier, Released, Underway
  <2>4. Reqs' /\ RunningHasDelivery'
    BY <2>1, ProcessesKeep
  <2> QED
    BY <2>2, <2>3, <2>4 DEF MoneyInv
<1>5. ASSUME NEW o \in Orders,
             \/ AcceptOrderByRestaurant(o) \/ StartPreparingOrder(o)
             \/ MarkOrderReady(o) \/ UpdateOrderItemStatus(o)
      PROVE  MoneyInv'
  <2>1. /\ order[o] \in Underway /\ order'[o] \in Underway
        /\ \A p \in Orders \ {o} : order'[p] = order[p]
        /\ UNCHANGED <<payment, dispatchVars, processVars, queueVars>>
    BY <1>5 DEF AcceptOrderByRestaurant, StartPreparingOrder, MarkOrderReady,
                UpdateOrderItemStatus, Advance, OrderCan, OrderEdges, Underway, TypeOK
  <2>2. Rows'
    BY <2>1 DEF MoneyInv, RowsFollow, Underway, Absent
  <2>3. MoneyFollowsOrder' /\ KitchenWaitsForCourier'
    BY <2>1 DEF MoneyInv, MoneyFollowsOrder, KitchenWaitsForCourier, HasCourier, Underway
  <2>4. Reqs' /\ RunningHasDelivery'
    BY <2>1, ProcessesKeep
  <2> QED
    BY <2>2, <2>3, <2>4 DEF MoneyInv
<1>6. ASSUME NEW o \in Orders, CourierStep(o) PROVE MoneyInv'
  <2>1. /\ \A p \in Orders : delivery'[p] # Absent <=> delivery[p] # Absent
        /\ \A p \in Orders \ {o} : order'[p] = order[p]
        /\ \/ order'[o] = order[o]
           \/ order[o] \in Underway /\ order'[o] \in Underway
        /\ UNCHANGED <<payment, assigned, offer, courier, processVars, queueVars>>
    BY <1>6 DEF CourierStep, MarkDeliveryPickedUp, MarkDeliveryInTransit, MarkDeliveryFailed,
                Advance, OrderCan, OrderEdges, DeliveryCan, DeliveryEdges, Underway, TypeOK, Absent
  <2>2. Rows'
    BY <2>1 DEF MoneyInv, RowsFollow, Underway, Absent
  <2>3. MoneyFollowsOrder' /\ KitchenWaitsForCourier'
    BY <2>1 DEF MoneyInv, MoneyFollowsOrder, KitchenWaitsForCourier, HasCourier, Underway
  <2>4. Reqs' /\ RunningHasDelivery'
    BY <2>1, ProcessesKeep
  <2> QED
    BY <2>2, <2>3, <2>4 DEF MoneyInv
<1>7. ASSUME NEW o \in Orders, AssignStep(o) PROVE MoneyInv'
  <2>1. /\ AssignJob(o) \in queue /\ queue' \subseteq queue
        /\ UNCHANGED <<orderVars, dispatchVars, request>>
        /\ running' = running \/ running'.order = o
    BY <1>7 DEF AssignStep, AssignReturns, AssignReadsNoAttemptLeft, AssignReadsCandidate,
                AssignFindsNobody, WorkerFree, Consume, Reserve
  <2>2. Rows' /\ MoneyFollowsOrder' /\ KitchenWaitsForCourier'
    BY <2>1 DEF MoneyInv, RowsFollow, MoneyFollowsOrder, KitchenWaitsForCourier, HasCourier
  <2>3. Reqs'
    BY <2>1 DEF MoneyInv, RequestHasDelivery
  <2>4. RunningHasDelivery'
    BY <2>1 DEF MoneyInv, RowsFollow, RunningHasDelivery
  <2> QED
    BY <2>2, <2>3, <2>4 DEF MoneyInv
<1>8. ASSUME NEW o \in Orders, NEW c \in Couriers,
             ExpireOfferReads(o, c) \/ ExpireOfferReturns(o, c) \/ OfferDeadline(o, c)
      PROVE  MoneyInv'
  <2>1. /\ queue' \subseteq queue
        /\ UNCHANGED <<orderVars, delivery, assigned, request>>
        /\ \/ offer' = offer
           \/ offer[o][c] = "PENDING" /\ offer' = [offer EXCEPT ![o][c] = Overdue]
        /\ \/ running' = running
           \/ running'.order = o /\ offer[o][c] = Overdue
    BY <1>8 DEF ExpireOfferReads, ExpireOfferReturns, OfferDeadline, Consume, Reserve
  <2>2. \A p \in Orders, d \in Couriers : offer'[p][d] # Absent => offer[p][d] # Absent
    BY <2>1 DEF TypeOK, Absent, Overdue
  <2>3. Rows' /\ MoneyFollowsOrder' /\ KitchenWaitsForCourier'
    BY <2>1, <2>2 DEF MoneyInv, RowsFollow, MoneyFollowsOrder, KitchenWaitsForCourier, HasCourier
  <2>4. Reqs'
    BY <2>1 DEF MoneyInv, RequestHasDelivery
  <2>5. RunningHasDelivery'
    BY <2>1 DEF MoneyInv, RowsFollow, RunningHasDelivery, Absent, Overdue
  <2> QED
    BY <2>3, <2>4, <2>5 DEF MoneyInv
<1>9. ASSUME NEW o \in Orders, ExpirePayment(o) PROVE MoneyInv'
  <2>1. payment[o] = "PENDING" /\ order[o] = "PENDING" /\ delivery[o] = Absent
    BY <1>9 DEF ExpirePayment, PaymentCan, PaymentEdges, MoneyInv, RowsFollow
  <2>2. /\ order' = [order EXCEPT ![o] = "CANCELLED"] /\ payment' = [payment EXCEPT ![o] = "FAILED"]
        /\ queue' \subseteq queue /\ UNCHANGED <<dispatchVars, processVars>>
    BY <1>9, <2>1 DEF ExpirePayment, Advance
  <2>3. Rows'
    BY <2>1, <2>2 DEF MoneyInv, RowsFollow, TypeOK, Absent
  <2>4. MoneyFollowsOrder' /\ KitchenWaitsForCourier'
    BY <2>1, <2>2 DEF MoneyInv, MoneyFollowsOrder, KitchenWaitsForCourier, HasCourier, TypeOK,
                      Released, Underway
  <2>5. Reqs' /\ RunningHasDelivery'
    BY <2>2, ProcessesKeep
  <2> QED
    BY <2>3, <2>4, <2>5 DEF MoneyInv
<1>10. ASSUME NEW o \in Orders, ExpirePaymentReturns(o) PROVE MoneyInv'
  <2>1. /\ queue' \subseteq queue /\ UNCHANGED <<orderVars, dispatchVars, processVars>>
    BY <1>10 DEF ExpirePaymentReturns, Consume
  <2>2. Rows' /\ MoneyFollowsOrder' /\ KitchenWaitsForCourier'
    BY <2>1 DEF MoneyInv, RowsFollow, MoneyFollowsOrder, KitchenWaitsForCourier, HasCourier
  <2>3. Reqs' /\ RunningHasDelivery'
    BY <2>1, ProcessesKeep
  <2> QED
    BY <2>2, <2>3 DEF MoneyInv
<1>11. ASSUME NEW r \in Requests, CourierBegins(r) PROVE MoneyInv'
  <2>1. PICK s : Begin(r, s) /\ RequestHasDelivery(s)
    <3>1. \A o \in Unassigned : delivery[o] # Absent
      BY DEF Unassigned, Absent
    <3>2. \A o \in Orders, c \in Couriers : offer[o][c] # Absent => delivery[o] # Absent
      BY DEF MoneyInv, RowsFollow
    <3>3. ASSUME NEW o \in Orders, NEW c \in Couriers,
                 BeginAcceptDeliveryOffer(r, o, c) \/ BeginRejectDeliveryOffer(r, o, c)
          PROVE  \E s : Begin(r, s) /\ RequestHasDelivery(s)
      <4>1. delivery[o] # Absent
        BY <3>2, <3>3 DEF BeginAcceptDeliveryOffer, BeginRejectDeliveryOffer, Open, Absent, Overdue
      <4> QED
        BY <3>3, <4>1 DEF BeginAcceptDeliveryOffer, BeginRejectDeliveryOffer, RequestHasDelivery
    <3>4. ASSUME NEW o \in Orders, BeginMarkDeliveryDelivered(r, o)
          PROVE  \E s : Begin(r, s) /\ RequestHasDelivery(s)
      BY <3>1, <3>4 DEF BeginMarkDeliveryDelivered, RequestHasDelivery, DeliveryCan,
                        DeliveryEdges, Absent
    <3>5. ASSUME NEW c \in Couriers, BeginGoOffline(r, c) \/ BeginGoAvailable(r, c)
          PROVE  \E s : Begin(r, s) /\ RequestHasDelivery(s)
      BY <3>1, <3>5 DEF BeginGoOffline, BeginGoAvailable, RequestHasDelivery
    <3> QED
      BY <1>11, <3>3, <3>4, <3>5 DEF CourierBegins
  <2>2. UNCHANGED <<orderVars, dispatchVars, running, queueVars>>
    BY <2>1 DEF Begin
  <2>3. Reqs'
    BY <2>1, <2>2 DEF Begin, MoneyInv, RequestHasDelivery, TypeOK
  <2> QED
    BY <2>2, <2>3 DEF MoneyInv, RowsFollow, RunningHasDelivery, MoneyFollowsOrder,
                      KitchenWaitsForCourier, HasCourier
<1>12. ASSUME NEW r \in Requests, AcceptDeliveryOffer(r) PROVE MoneyInv'
  <2> DEFINE o == request[r].order
             c == request[r].courier
  <2>1. o \in Orders /\ c \in Couriers /\ delivery[o] # Absent
    BY <1>12, InFlightFields DEF AcceptDeliveryOffer, TypeOK, MoneyInv, RequestHasDelivery
  <2>2. /\ \A p \in Orders \ {o} : offer'[p] = offer[p]
        /\ assigned' = [assigned EXCEPT ![o] = c]
        /\ order' = [order EXCEPT ![o] = IF @ = "PENDING" THEN "COURIER_ASSIGNED" ELSE @]
        /\ request' = [request EXCEPT ![r] = Idle]
        /\ UNCHANGED <<payment, delivery, running, queueVars>>
    BY <1>12, <2>1 DEF AcceptDeliveryOffer, TypeOK
  <2> HIDE DEF o, c
  <2>3. Rows'
    BY <2>1, <2>2 DEF MoneyInv, RowsFollow, TypeOK, Absent
  <2>4. MoneyFollowsOrder'
    BY <2>1, <2>2 DEF MoneyInv, MoneyFollowsOrder, TypeOK
  <2>5. KitchenWaitsForCourier'
    BY <2>1, <2>2, FulfilmentAssumption
    DEF MoneyInv, KitchenWaitsForCourier, HasCourier, TypeOK, Underway
  <2>6. Reqs'
    BY <2>2 DEF MoneyInv, RequestHasDelivery, TypeOK, Idle
  <2>7. RunningHasDelivery'
    BY <2>2 DEF MoneyInv, RunningHasDelivery
  <2> QED
    BY <2>3, <2>4, <2>5, <2>6, <2>7 DEF MoneyInv
<1>13. ASSUME NEW r \in Requests, RejectDeliveryOffer(r) PROVE MoneyInv'
  <2> DEFINE o == request[r].order
             c == request[r].courier
  <2>1. o \in Orders /\ c \in Couriers /\ delivery[o] # Absent
    BY <1>13, InFlightFields DEF RejectDeliveryOffer, TypeOK, MoneyInv, RequestHasDelivery
  <2>2. /\ \A p \in Orders \ {o} : offer'[p] = offer[p]
        /\ request' = [request EXCEPT ![r] = Idle]
        /\ UNCHANGED <<orderVars, delivery, assigned, running>>
    BY <1>13, <2>1 DEF RejectDeliveryOffer, TypeOK
  <2>3. \A p \in Orders : AssignJob(p) \in queue' => AssignJob(p) \in queue \/ p = o
    BY <1>13, JobsDiffer DEF RejectDeliveryOffer, Push
  <2> HIDE DEF o, c
  <2>4. Rows'
    BY <2>1, <2>2, <2>3 DEF MoneyInv, RowsFollow
  <2>5. MoneyFollowsOrder' /\ KitchenWaitsForCourier' /\ RunningHasDelivery'
    BY <2>2 DEF MoneyInv, MoneyFollowsOrder, KitchenWaitsForCourier, HasCourier, RunningHasDelivery
  <2>6. Reqs'
    BY <2>2 DEF MoneyInv, RequestHasDelivery, TypeOK, Idle
  <2> QED
    BY <2>4, <2>5, <2>6 DEF MoneyInv
<1>14. ASSUME NEW r \in Requests, MarkDeliveryDelivered(r) PROVE MoneyInv'
  <2> DEFINE o == request[r].order
  <2>1. /\ o \in Orders
        /\ \A p \in request[r].unassigned : delivery[p] # Absent
    BY <1>14, InFlightFields DEF MarkDeliveryDelivered, TypeOK, MoneyInv, RequestHasDelivery
  <2>2. /\ delivery[o] # Absent
        /\ delivery' = [delivery EXCEPT ![o] = "DELIVERED"]
        /\ order[o] = "OUT_FOR_DELIVERY"
        /\ order' = [order EXCEPT ![o] = "DELIVERED"]
        /\ request' = [request EXCEPT ![r] = Idle]
        /\ UNCHANGED <<payment, assigned, offer, running>>
    BY <1>14, <2>1 DEF MarkDeliveryDelivered, Advance, OrderCan, OrderEdges, DeliveryCan,
                       DeliveryEdges, Absent
  <2>3. \A p \in Orders : AssignJob(p) \in queue' => AssignJob(p) \in queue \/ delivery[p] # Absent
    BY <1>14, <2>1, JobsDiffer DEF MarkDeliveryDelivered, Push
  <2> HIDE DEF o
  <2>4. \A p \in Orders : delivery'[p] # Absent <=> delivery[p] # Absent
    BY <2>1, <2>2 DEF TypeOK, Absent
  <2>5. Rows'
    BY <2>1, <2>2, <2>3, <2>4 DEF MoneyInv, RowsFollow, TypeOK, Absent
  <2>6. MoneyFollowsOrder' /\ KitchenWaitsForCourier'
    BY <2>1, <2>2 DEF MoneyInv, MoneyFollowsOrder, KitchenWaitsForCourier, HasCourier, TypeOK,
                      Underway
  <2>7. Reqs'
    <3>1. ASSUME NEW q \in Requests PROVE RequestHasDelivery(request[q])'
      BY <2>2, <2>4, InFlightFields DEF MoneyInv, RequestHasDelivery, TypeOK, Idle
    <3> QED
      BY <3>1
  <2>8. RunningHasDelivery'
    BY <2>2, <2>4, InJobFields DEF MoneyInv, RunningHasDelivery, TypeOK
  <2> QED
    BY <2>5, <2>6, <2>7, <2>8 DEF MoneyInv
<1>15. ASSUME NEW r \in Requests, GoOffline(r) \/ GoAvailable(r) \/ Rollback(r)
       PROVE  MoneyInv'
  <2>1. /\ request' = [request EXCEPT ![r] = Idle]
        /\ UNCHANGED <<orderVars, dispatchVars, running>>
    BY <1>15 DEF GoOffline, GoAvailable, Rollback
  <2>2. \A p \in Orders : AssignJob(p) \in queue' => AssignJob(p) \in queue \/ delivery[p] # Absent
    BY <1>15, JobsDiffer
    DEF GoOffline, GoAvailable, Rollback, Push, MoneyInv, RequestHasDelivery
  <2>3. Rows' /\ MoneyFollowsOrder' /\ KitchenWaitsForCourier' /\ RunningHasDelivery'
    BY <2>1, <2>2 DEF MoneyInv, RowsFollow, MoneyFollowsOrder, KitchenWaitsForCourier, HasCourier,
                      RunningHasDelivery
  <2>4. Reqs'
    BY <2>1 DEF MoneyInv, RequestHasDelivery, TypeOK, Idle
  <2> QED
    BY <2>3, <2>4 DEF MoneyInv
<1>16. ASSUME NEW c \in Couriers, GoBusy(c) PROVE MoneyInv'
  BY <1>16 DEF GoBusy, MoneyInv, RowsFollow, RequestHasDelivery, RunningHasDelivery,
               MoneyFollowsOrder, KitchenWaitsForCourier, HasCourier
<1>17. ASSUME CreateDeliveryOffer \/ ExpireOffer PROVE MoneyInv'
  <2> DEFINE o == running.order
             c == running.courier
  <2>1. o \in Orders /\ c \in Couriers /\ delivery[o] # Absent
    BY <1>17, InJobFields DEF CreateDeliveryOffer, ExpireOffer, TypeOK, MoneyInv,
                              RunningHasDelivery, Idle
  <2>2. /\ \A p \in Orders \ {o} : offer'[p] = offer[p]
        /\ running' = Idle
        /\ UNCHANGED <<orderVars, delivery, assigned, request>>
    BY <1>17, <2>1 DEF CreateDeliveryOffer, ExpireOffer, TypeOK
  <2>3. \A p \in Orders : AssignJob(p) \in queue' => AssignJob(p) \in queue \/ p = o
    BY <1>17, JobsDiffer DEF CreateDeliveryOffer, ExpireOffer, Push
  <2> HIDE DEF o, c
  <2> QED
    BY <2>1, <2>2, <2>3 DEF MoneyInv, RowsFollow, RequestHasDelivery, RunningHasDelivery,
                            MoneyFollowsOrder, KitchenWaitsForCourier, HasCourier
<1>18. CASE MarkDeliveryFailedBySystem
  <2> DEFINE o == running.order
  <2>1. o \in Orders /\ delivery[o] # Absent
    BY <1>18, InJobFields DEF MarkDeliveryFailedBySystem, TypeOK, MoneyInv, RunningHasDelivery,
                              Idle
  <2>2. /\ running' = Idle
        /\ UNCHANGED <<assigned, offer, request>>
        /\ \/ delivery' = delivery
           \/ delivery' = [delivery EXCEPT ![o] = "FAILED"]
        /\ UNCHANGED <<order, payment>> \/ CancelWithRefund(o)
    BY <1>18 DEF MarkDeliveryFailedBySystem, CancelBySystem
  <2>3. \A p \in Orders : AssignJob(p) \in queue' => AssignJob(p) \in queue \/ p = o
    BY <1>18, JobsDiffer DEF MarkDeliveryFailedBySystem, Push
  <2> HIDE DEF o
  <2>4. \A p \in Orders : delivery'[p] # Absent <=> delivery[p] # Absent
    BY <2>1, <2>2 DEF TypeOK, Absent
  <2>5. Rows' /\ MoneyFollowsOrder' /\ KitchenWaitsForCourier'
    <3>1. CASE UNCHANGED <<order, payment>>
      BY <2>1, <2>2, <2>3, <2>4, <3>1 DEF MoneyInv, RowsFollow, MoneyFollowsOrder,
                                          KitchenWaitsForCourier, HasCourier
    <3>2. CASE CancelWithRefund(o)
      <4>1. /\ \A p \in Orders \ {o} : order'[p] = order[p] /\ payment'[p] = payment[p]
            /\ order[o] \in Underway \cup {"PENDING"} /\ order'[o] = "CANCELLED"
            /\ payment[o] = "COMPLETED" /\ payment'[o] = "REFUNDED"
        BY <2>1, <3>2, CancelKeepsMoney
      <4>2. Rows'
        BY <2>1, <2>2, <2>3, <2>4, <4>1 DEF MoneyInv, RowsFollow, Underway, Absent
      <4> QED
        BY <2>1, <2>2, <4>1, <4>2 DEF MoneyInv, MoneyFollowsOrder, KitchenWaitsForCourier,
                                      HasCourier, Released, Underway
    <3> QED
      BY <2>2, <3>1, <3>2
  <2>6. Reqs'
    <3>1. ASSUME NEW q \in Requests PROVE RequestHasDelivery(request[q])'
      BY <2>2, <2>4, InFlightFields DEF MoneyInv, RequestHasDelivery, TypeOK
    <3> QED
      BY <3>1
  <2> QED
    BY <2>2, <2>5, <2>6 DEF MoneyInv, RunningHasDelivery
<1>19. CASE WorkerCrash
  <2>1. running.order \in Orders /\ delivery[running.order] # Absent
    BY <1>19, InJobFields DEF WorkerCrash, TypeOK, MoneyInv, RunningHasDelivery
  <2>2. \A p \in Orders : AssignJob(p) \in queue' => AssignJob(p) \in queue \/ p = running.order
    BY <1>19, JobsDiffer DEF WorkerCrash
  <2>3. running' = Idle /\ UNCHANGED <<orderVars, dispatchVars, request>>
    BY <1>19 DEF WorkerCrash
  <2> QED
    BY <2>1, <2>2, <2>3 DEF MoneyInv, RowsFollow, RequestHasDelivery, RunningHasDelivery,
                            MoneyFollowsOrder, KitchenWaitsForCourier, HasCourier
<1> QED
  <2>1. CASE \E o \in Orders : Customer(o) \/ RestaurantStep(o) \/ CourierStep(o)
    BY <2>1, <1>2, <1>3, <1>4, <1>5, <1>6 DEF Customer, RestaurantStep
  <2>2. CASE \E o \in Orders : \/ AssignStep(o) \/ ExpiryStep(o)
                              \/ \E c \in Couriers : OfferDeadline(o, c)
    BY <2>2, <1>7, <1>8, <1>9, <1>10 DEF ExpiryStep
  <2>3. CASE \E r \in Requests : CourierBegins(r) \/ CourierCommits(r) \/ Rollback(r)
    BY <2>3, <1>11, <1>12, <1>13, <1>14, <1>15 DEF CourierCommits
  <2> QED
    BY <1>1, <2>1, <2>2, <2>3, <1>16, <1>17, <1>18, <1>19 DEF Next, WorkerCommits

LEMMA MoneyInit == Init => MoneyInv
<1> SUFFICES ASSUME Init PROVE MoneyInv
  OBVIOUS
<1>1. \A o \in Orders : RowsFollow(o)
  BY DEF Init, RowsFollow
<1>2. (\A r \in Requests : RequestHasDelivery(request[r])) /\ RunningHasDelivery
  BY DEF Init, RequestHasDelivery, RunningHasDelivery, Idle
<1>3. MoneyFollowsOrder /\ KitchenWaitsForCourier
  BY DEF Init, MoneyFollowsOrder, KitchenWaitsForCourier, Released, Underway, Absent
<1> QED
  BY <1>1, <1>2, <1>3 DEF MoneyInv

LEMMA MoneyInvariant == Spec => [](TypeOK /\ MoneyInv)
<1>1. TypeOK /\ MoneyInv /\ [Next]_vars => (TypeOK /\ MoneyInv)'
  BY TypeStep, MoneyStep
<1>2. Spec => []TypeOK
  BY TypeCorrect
<1> QED
  BY <1>1, <1>2, MoneyInit, PTL DEF Spec

\* However requests, jobs, deadlines and crashes interleave, an order is cancelled
\* exactly when its payment is failed, cancelled or refunded.
THEOREM CancelledIffMoneyReleased == Spec => []MoneyFollowsOrder
<1>1. MoneyInv => MoneyFollowsOrder
  BY DEF MoneyInv
<1> QED
  BY <1>1, MoneyInvariant, PTL

\* No delivery and no progress of an order without its money.
THEOREM NothingBeforePayment == Spec => []UnpaidOrderStays
<1>1. TypeOK /\ MoneyInv => UnpaidOrderStays
  BY DEF TypeOK, MoneyInv, RowsFollow, MoneyFollowsOrder, KitchenWaitsForCourier, HasCourier,
         UnpaidOrderStays, Taken, Released, Underway
<1> QED
  BY <1>1, MoneyInvariant, PTL

\* The restaurant never works on, and nobody delivers, an order without a courier.
THEOREM NoKitchenWithoutCourier == Spec => []KitchenWaitsForCourier
<1>1. MoneyInv => KitchenWaitsForCourier
  BY DEF MoneyInv
<1> QED
  BY <1>1, MoneyInvariant, PTL

-----------------------------------------------------------------------------
(* Fulfilment implements OrderPromise                                      *)

OnlyChanges(o) ==
  \A p \in Orders \ {o} : order'[p] = order[p] /\ payment'[p] = payment[p]

\* How order o and its payment may change in a step.
PromisedChange(o) ==
  \/ order'[o] = order[o] /\ payment'[o] = payment[o]
  \/ order'[o] \in Underway /\ order[o] \in Underway /\ payment'[o] = payment[o]
  \/ /\ order[o] = Absent /\ order'[o] = "PENDING"
     /\ payment'[o] \in {"PENDING", "COMPLETED"}
  \/ /\ order[o] = "PENDING" /\ order'[o] = "PENDING"
     /\ payment[o] = "PENDING" /\ payment'[o] = "COMPLETED"
  \/ /\ order[o] = "PENDING" /\ order'[o] \in Underway
     /\ payment[o] = "COMPLETED" /\ payment'[o] = "COMPLETED"
  \/ /\ order[o] \in Underway /\ order'[o] = "DELIVERED"
     /\ payment[o] = "COMPLETED" /\ payment'[o] = "COMPLETED"
  \/ /\ order[o] \in Underway \cup {"PENDING"} /\ order'[o] = "CANCELLED"
     /\ \/ payment[o] = "COMPLETED" /\ payment'[o] = "REFUNDED"
        \/ payment[o] = "PENDING" /\ payment'[o] \in {"FAILED", "CANCELLED"}

LEMMA StageValues ==
  /\ Stage(Absent) = "none" /\ Stage("PENDING") = "placed"
  /\ \A status \in Underway : Stage(status) = "underway"
  /\ Stage("DELIVERED") = "delivered" /\ Stage("CANCELLED") = "cancelled"
BY DEF Stage, Absent, Underway

LEMMA MoneyValues ==
  /\ Money("PENDING") = "due" /\ Money("COMPLETED") = "taken"
  /\ Money("REFUNDED") = "returned"
  /\ Money("FAILED") = "never" /\ Money("CANCELLED") = "never"
BY DEF Money, Absent

\* Such a change is a step of OrderPromise, or none.
LEMMA PromisedChangeIsPromised ==
  ASSUME MoneyInv, NEW o \in Orders, OnlyChanges(o), PromisedChange(o)
  PROVE  [Promise!Next]_(Promise!promiseVars)
<1> DEFINE stage == [p \in Orders |-> Stage(order[p])]
           money == [p \in Orders |-> Money(payment[p])]
<1>1. /\ stage' = [stage EXCEPT ![o] = Stage(order'[o])]
      /\ money' = [money EXCEPT ![o] = Money(payment'[o])]
  BY DEF OnlyChanges
<1>2. stage[o] = Stage(order[o]) /\ money[o] = Money(payment[o])
  OBVIOUS
<1>3. CASE stage' = stage /\ money' = money
  BY <1>3 DEF Promise!promiseVars
<1>4. CASE order[o] = Absent /\ order'[o] = "PENDING" /\ payment'[o] \in {"PENDING", "COMPLETED"}
  <2>1. stage[o] = "none" /\ stage' = [stage EXCEPT ![o] = "placed"]
    BY <1>1, <1>2, <1>4, StageValues
  <2>2. Money(payment'[o]) \in {"due", "taken"}
    BY <1>4, MoneyValues
  <2>3. \E m \in {"due", "taken"} : money' = [money EXCEPT ![o] = m]
    BY <1>1, <2>2
  <2>4. Promise!Place(o)
    BY <2>1, <2>3 DEF Promise!Place
  <2> QED
    BY <2>4 DEF Promise!Next
<1>5. CASE /\ order[o] = "PENDING" /\ order'[o] = "PENDING"
           /\ payment[o] = "PENDING" /\ payment'[o] = "COMPLETED"
  <2>1. stage' = stage
    BY <1>1, <1>2, <1>5
  <2>2. Promise!Pay(o)
    <3>1. stage[o] = "placed"
      BY <1>2, <1>5, StageValues
    <3>2. Money(payment[o]) = "due" /\ Money(payment'[o]) = "taken"
      BY <1>5, MoneyValues
    <3>3. money[o] = "due" /\ money' = [money EXCEPT ![o] = "taken"]
      BY <1>1, <1>2, <3>2
    <3> QED
      BY <2>1, <3>1, <3>3 DEF Promise!Pay
  <2> QED
    BY <2>2 DEF Promise!Next
<1>6. CASE /\ order[o] = "PENDING" /\ order'[o] \in Underway
           /\ payment[o] = "COMPLETED" /\ payment'[o] = "COMPLETED"
  <2>1. money' = money
    BY <1>1, <1>2, <1>6
  <2>2. Promise!Serve(o)
    <3>1. /\ stage[o] = "placed" /\ money[o] = "taken"
          /\ stage' = [stage EXCEPT ![o] = "underway"]
      BY <1>1, <1>2, <1>6, StageValues, MoneyValues
    <3> QED
      BY <2>1, <3>1 DEF Promise!Serve
  <2> QED
    BY <2>2 DEF Promise!Next
<1>7. CASE /\ order[o] \in Underway /\ order'[o] = "DELIVERED"
           /\ payment[o] = "COMPLETED" /\ payment'[o] = "COMPLETED"
  <2>1. money' = money
    BY <1>1, <1>2, <1>7
  <2>2. Promise!Deliver(o)
    <3>1. /\ stage[o] = "underway" /\ money[o] = "taken"
          /\ stage' = [stage EXCEPT ![o] = "delivered"]
      BY <1>1, <1>2, <1>7, StageValues, MoneyValues
    <3> QED
      BY <2>1, <3>1 DEF Promise!Deliver
  <2> QED
    BY <2>2 DEF Promise!Next
<1>8. CASE /\ order[o] \in Underway \cup {"PENDING"} /\ order'[o] = "CANCELLED"
           /\ \/ payment[o] = "COMPLETED" /\ payment'[o] = "REFUNDED"
              \/ payment[o] = "PENDING" /\ payment'[o] \in {"FAILED", "CANCELLED"}
  <2>1. stage[o] \in {"placed", "underway"} /\ stage' = [stage EXCEPT ![o] = "cancelled"]
    BY <1>1, <1>2, <1>8, StageValues
  <2>2. Money(payment'[o]) = IF money[o] = "taken" THEN "returned" ELSE "never"
    BY <1>2, <1>8, MoneyValues
  <2>3. money' = [money EXCEPT ![o] = IF @ = "taken" THEN "returned" ELSE "never"]
    BY <1>1, <2>2
  <2>4. Promise!Cancel(o)
    BY <2>1, <2>3 DEF Promise!Cancel
  <2> QED
    BY <2>4 DEF Promise!Next
<1>9. CASE \/ order'[o] = order[o] /\ payment'[o] = payment[o]
           \/ order'[o] \in Underway /\ order[o] \in Underway /\ payment'[o] = payment[o]
  <2>1. Stage(order'[o]) = stage[o] /\ Money(payment'[o]) = money[o]
    BY <1>2, <1>9, StageValues
  <2> QED
    BY <1>1, <1>3, <2>1
<1> QED
  BY <1>4, <1>5, <1>6, <1>7, <1>8, <1>9 DEF PromisedChange

\* A step that touches neither an order nor a payment.
LEMMA UnseenIsPromised ==
  ASSUME UNCHANGED <<order, payment>>
  PROVE  [Promise!Next]_(Promise!promiseVars)
BY DEF Promise!promiseVars

\* Every action changes the rows of one order at most, in a way OrderPromise allows.
LEMMA StepIsPromised ==
  ASSUME MoneyInv, TypeOK, [Next]_vars
  PROVE  [Promise!Next]_(Promise!promiseVars)
<1> USE DEF orderVars
<1>1. ASSUME NEW o \in Orders, OnlyChanges(o), PromisedChange(o)
      PROVE  [Promise!Next]_(Promise!promiseVars)
  BY <1>1, PromisedChangeIsPromised
<1>2. ASSUME NEW o \in Orders, CancelWithRefund(o)
      PROVE  [Promise!Next]_(Promise!promiseVars)
  <2>1. OnlyChanges(o) /\ PromisedChange(o)
    BY <1>2, CancelKeepsMoney DEF OnlyChanges, PromisedChange
  <2> QED
    BY <1>1, <2>1
<1>3. ASSUME NEW o \in Orders, Customer(o)
      PROVE  [Promise!Next]_(Promise!promiseVars)
  <2>1. ASSUME NEW cash \in BOOLEAN, Checkout(o, cash)
        PROVE  OnlyChanges(o) /\ PromisedChange(o)
    BY <2>1 DEF Checkout, OnlyChanges, PromisedChange, TypeOK
  <2>2. ASSUME ConfirmPayment(o)
        PROVE  OnlyChanges(o) /\ PromisedChange(o)
    BY <2>2 DEF ConfirmPayment, PaymentCan, PaymentEdges, MoneyInv, RowsFollow,
                OnlyChanges, PromisedChange, TypeOK
  <2> QED
    BY <1>1, <1>2, <1>3, <2>1, <2>2 DEF Customer, CancelOrderByClient
<1>4. ASSUME NEW o \in Orders, RestaurantStep(o)
      PROVE  [Promise!Next]_(Promise!promiseVars)
  <2>1. CASE RejectOrderByRestaurant(o)
    BY <1>2, <2>1 DEF RejectOrderByRestaurant
  <2>2. CASE \/ AcceptOrderByRestaurant(o) \/ StartPreparingOrder(o)
             \/ MarkOrderReady(o) \/ UpdateOrderItemStatus(o)
    <3>1. OnlyChanges(o) /\ PromisedChange(o)
      BY <2>2 DEF AcceptOrderByRestaurant, StartPreparingOrder, MarkOrderReady,
                  UpdateOrderItemStatus, Advance, OrderCan, OrderEdges, Underway,
                  OnlyChanges, PromisedChange, TypeOK
    <3> QED
      BY <1>1, <3>1
  <2> QED
    BY <1>4, <2>1, <2>2 DEF RestaurantStep
<1>5. ASSUME NEW o \in Orders, CourierStep(o)
      PROVE  [Promise!Next]_(Promise!promiseVars)
  <2>1. OnlyChanges(o) /\ PromisedChange(o)
    BY <1>5 DEF CourierStep, MarkDeliveryPickedUp, MarkDeliveryInTransit, MarkDeliveryFailed,
                Advance, OrderCan, OrderEdges, Underway, OnlyChanges, PromisedChange, TypeOK
  <2> QED
    BY <1>1, <2>1
<1>6. ASSUME NEW o \in Orders, ExpirePayment(o)
      PROVE  [Promise!Next]_(Promise!promiseVars)
  <2>1. OnlyChanges(o) /\ PromisedChange(o)
    BY <1>6 DEF ExpirePayment, PaymentCan, PaymentEdges, Advance, MoneyInv, RowsFollow,
                OnlyChanges, PromisedChange, TypeOK
  <2> QED
    BY <1>1, <2>1
<1>7. ASSUME NEW r \in Requests, AcceptDeliveryOffer(r)
      PROVE  [Promise!Next]_(Promise!promiseVars)
  <2> DEFINE o == request[r].order
  <2>1. o \in Orders /\ delivery[o] # Absent
    BY <1>7, InFlightFields DEF AcceptDeliveryOffer, TypeOK, MoneyInv, RequestHasDelivery
  <2>2. /\ order' = [order EXCEPT ![o] = IF @ = "PENDING" THEN "COURIER_ASSIGNED" ELSE @]
        /\ payment' = payment
    BY <1>7 DEF AcceptDeliveryOffer
  <2> HIDE DEF o
  <2>3. order[o] = "PENDING" => payment[o] = "COMPLETED"
    BY <2>1 DEF MoneyInv, RowsFollow, MoneyFollowsOrder, Released
  <2>4. OnlyChanges(o) /\ PromisedChange(o)
    BY <2>1, <2>2, <2>3 DEF OnlyChanges, PromisedChange, TypeOK, Underway
  <2> QED
    BY <1>1, <2>1, <2>4
<1>8. ASSUME NEW r \in Requests, MarkDeliveryDelivered(r)
      PROVE  [Promise!Next]_(Promise!promiseVars)
  <2> DEFINE o == request[r].order
  <2>1. o \in Orders /\ delivery[o] # Absent
    BY <1>8, InFlightFields DEF MarkDeliveryDelivered, TypeOK, MoneyInv, RequestHasDelivery
  <2>2. /\ order[o] = "OUT_FOR_DELIVERY" /\ order' = [order EXCEPT ![o] = "DELIVERED"]
        /\ payment' = payment
    BY <1>8 DEF MarkDeliveryDelivered, Advance, OrderCan, OrderEdges
  <2> HIDE DEF o
  <2>3. payment[o] = "COMPLETED"
    BY <2>1, <2>2 DEF MoneyInv, RowsFollow, MoneyFollowsOrder, Released
  <2>4. OnlyChanges(o) /\ PromisedChange(o)
    BY <2>1, <2>2, <2>3 DEF OnlyChanges, PromisedChange, TypeOK, Underway
  <2> QED
    BY <1>1, <2>1, <2>4
<1>9. CASE MarkDeliveryFailedBySystem
  <2>1. running.order \in Orders
    BY <1>9, InJobFields DEF MarkDeliveryFailedBySystem, TypeOK
  <2>2. UNCHANGED <<order, payment>> \/ CancelWithRefund(running.order)
    BY <1>9 DEF MarkDeliveryFailedBySystem, CancelBySystem
  <2> QED
    BY <1>2, <2>1, <2>2, UnseenIsPromised
<1>10. CASE UNCHANGED <<order, payment>>
  BY <1>10, UnseenIsPromised
<1> QED
  <2>1. CASE \E o \in Orders : Customer(o) \/ RestaurantStep(o) \/ CourierStep(o)
    BY <2>1, <1>3, <1>4, <1>5
  <2>2. CASE \E o \in Orders : AssignStep(o) \/ \E c \in Couriers : OfferDeadline(o, c)
    BY <2>2, <1>10 DEF AssignStep, AssignReturns, AssignReadsNoAttemptLeft, AssignReadsCandidate,
                       AssignFindsNobody, Consume, Reserve, OfferDeadline
  <2>3. CASE \E o \in Orders : ExpiryStep(o)
    BY <2>3, <1>6, <1>10 DEF ExpiryStep, ExpireOfferReads, ExpireOfferReturns,
                             ExpirePaymentReturns, Consume, Reserve
  <2>4. CASE \E r \in Requests : CourierBegins(r) \/ Rollback(r)
    BY <2>4, <1>10 DEF CourierBegins, BeginAcceptDeliveryOffer, BeginRejectDeliveryOffer,
                       BeginMarkDeliveryDelivered, BeginGoOffline, BeginGoAvailable, Begin,
                       Rollback
  <2>5. CASE \E r \in Requests : CourierCommits(r)
    BY <2>5, <1>7, <1>8, <1>10 DEF CourierCommits, RejectDeliveryOffer, GoOffline, GoAvailable
  <2>6. CASE (\E c \in Couriers : GoBusy(c)) \/ CreateDeliveryOffer \/ ExpireOffer \/ WorkerCrash
    BY <2>6, <1>10 DEF GoBusy, CreateDeliveryOffer, ExpireOffer, WorkerCrash
  <2>7. CASE UNCHANGED vars
    BY <2>7, <1>10 DEF vars
  <2> QED
    BY <2>1, <2>2, <2>3, <2>4, <2>5, <2>6, <2>7, <1>9 DEF Next, WorkerCommits

\* The services, the jobs and the deadlines together implement the promise: no
\* interleaving or crash lets the customer see anything else.
THEOREM FulfilmentKeepsPromise == Spec => KeepsPromise
<1>1. Init => Promise!Init
  BY StageValues DEF Init, Promise!Init, Money, Absent
<1>2. TypeOK /\ MoneyInv /\ [Next]_vars => [Promise!Next]_(Promise!promiseVars)
  BY StepIsPromised
<1> QED
  BY <1>1, <1>2, MoneyInvariant, PTL DEF Spec, KeepsPromise, Promise!Spec

-----------------------------------------------------------------------------
(* Order and delivery                                                      *)

\* What StatusesAgree and GivenUpIsCancelled say of one order.  Together they are
\* inductive: the one that gives a delivery up finds no delivered order to spare.
RowsAgree(o) ==
  /\ order[o] = "DELIVERED" <=> delivery[o] = "DELIVERED"
  /\ order[o] = "OUT_FOR_DELIVERY" => delivery[o] \in {"IN_TRANSIT", "FAILED"}
  /\ delivery[o] = "IN_TRANSIT" => order[o] \in {"OUT_FOR_DELIVERY", "CANCELLED"}
  /\ delivery[o] = "FAILED" /\ ~HasCourier(o) => order[o] = "CANCELLED"

StatusInv == \A o \in Orders : RowsAgree(o)

\* A step that changes the rows of order o alone has only o to answer for.
LEMMA OneOrderChanges ==
  ASSUME StatusInv, NEW o \in Orders, RowsAgree(o)',
         \A p \in Orders \ {o} : /\ order'[p] = order[p] /\ delivery'[p] = delivery[p]
                                 /\ assigned'[p] = assigned[p]
  PROVE  StatusInv'
BY DEF StatusInv, RowsAgree, HasCourier

LEMMA NoRowChanges ==
  ASSUME StatusInv, UNCHANGED <<order, delivery, assigned>>
  PROVE  StatusInv'
BY DEF StatusInv, RowsAgree, HasCourier

\* A cancellation leaves no delivered order cancelled.
LEMMA CancelKeepsAgreement ==
  ASSUME TypeOK, StatusInv, NEW o \in Orders, Advance(o, "CANCELLED"),
         UNCHANGED <<delivery, assigned>>
  PROVE  StatusInv'
<1>1. order' = [order EXCEPT ![o] = "CANCELLED"] /\ order[o] # "DELIVERED"
  BY DEF Advance, OrderCan, OrderEdges
<1>2. RowsAgree(o)'
  BY <1>1 DEF TypeOK, StatusInv, RowsAgree, HasCourier
<1> QED
  BY <1>1, <1>2, OneOrderChanges DEF TypeOK

\* Each step keeps StatusInv: one case per action that touches its rows.
LEMMA StatusStep == TypeOK /\ StatusInv /\ [Next]_vars => StatusInv'
<1> SUFFICES ASSUME TypeOK, StatusInv, [Next]_vars PROVE StatusInv'
  OBVIOUS
<1> USE DEF orderVars, dispatchVars, processVars, queueVars
<1>1. ASSUME NEW o \in Orders, Customer(o) PROVE StatusInv'
  <2>1. ASSUME NEW cash \in BOOLEAN, Checkout(o, cash) PROVE StatusInv'
    <3>1. RowsAgree(o)'
      BY <2>1 DEF Checkout, TypeOK, StatusInv, RowsAgree, HasCourier, Absent
    <3> QED
      BY <2>1, <3>1, OneOrderChanges DEF Checkout, TypeOK
  <2>2. ASSUME ConfirmPayment(o) PROVE StatusInv'
    <3>1. RowsAgree(o)'
      BY <2>2 DEF ConfirmPayment, TypeOK, StatusInv, RowsAgree, HasCourier, Absent
    <3> QED
      BY <2>2, <3>1, OneOrderChanges DEF ConfirmPayment, TypeOK
  <2>3. ASSUME CancelOrderByClient(o) PROVE StatusInv'
    BY <2>3, CancelKeepsAgreement DEF CancelOrderByClient, CancelWithRefund
  <2> QED
    BY <1>1, <2>1, <2>2, <2>3 DEF Customer
<1>2. ASSUME NEW o \in Orders, RestaurantStep(o) PROVE StatusInv'
  <2>1. CASE RejectOrderByRestaurant(o)
    BY <2>1, CancelKeepsAgreement DEF RejectOrderByRestaurant, CancelWithRefund
  <2>2. CASE \/ AcceptOrderByRestaurant(o) \/ StartPreparingOrder(o)
             \/ MarkOrderReady(o) \/ UpdateOrderItemStatus(o)
    <3>1. /\ order[o] \notin {"DELIVERED", "OUT_FOR_DELIVERY", "CANCELLED"}
          /\ \E status \in {"CONFIRMED", "PREPARING", "READY"} :
               order' = [order EXCEPT ![o] = status]
          /\ UNCHANGED <<delivery, assigned>>
      BY <2>2 DEF AcceptOrderByRestaurant, StartPreparingOrder, MarkOrderReady,
                  UpdateOrderItemStatus, Advance, OrderCan, OrderEdges
    <3>2. RowsAgree(o)'
      BY <3>1 DEF TypeOK, StatusInv, RowsAgree, HasCourier
    <3> QED
      BY <3>1, <3>2, OneOrderChanges DEF TypeOK
  <2> QED
    BY <1>2, <2>1, <2>2 DEF RestaurantStep
<1>3. ASSUME NEW o \in Orders, CourierStep(o) PROVE StatusInv'
  <2>1. RowsAgree(o)'
    BY <1>3 DEF CourierStep, MarkDeliveryPickedUp, MarkDeliveryInTransit, MarkDeliveryFailed,
                Advance, OrderCan, OrderEdges, DeliveryCan, DeliveryEdges,
                TypeOK, StatusInv, RowsAgree, HasCourier
  <2> QED
    BY <1>3, <2>1, OneOrderChanges
    DEF CourierStep, MarkDeliveryPickedUp, MarkDeliveryInTransit, MarkDeliveryFailed,
        Advance, TypeOK
<1>4. ASSUME NEW r \in Requests, AcceptDeliveryOffer(r) PROVE StatusInv'
  <2>1. PICK o \in Orders, c \in Couriers : o = request[r].order /\ c = request[r].courier
    BY <1>4, InFlightFields DEF AcceptDeliveryOffer, TypeOK
  <2>2. /\ order' = [order EXCEPT ![o] = IF @ = "PENDING" THEN "COURIER_ASSIGNED" ELSE @]
        /\ assigned' = [assigned EXCEPT ![o] = c]
        /\ delivery' = delivery
    BY <1>4, <2>1 DEF AcceptDeliveryOffer
  <2>3. RowsAgree(o)'
    BY <2>2, FulfilmentAssumption DEF TypeOK, StatusInv, RowsAgree, HasCourier
  <2> QED
    BY <2>2, <2>3, OneOrderChanges DEF TypeOK
<1>5. ASSUME NEW r \in Requests, MarkDeliveryDelivered(r) PROVE StatusInv'
  <2>1. PICK o \in Orders : o = request[r].order
    BY <1>5, InFlightFields DEF MarkDeliveryDelivered, TypeOK
  <2>2. /\ order' = [order EXCEPT ![o] = "DELIVERED"]
        /\ delivery' = [delivery EXCEPT ![o] = "DELIVERED"]
        /\ assigned' = assigned
    BY <1>5, <2>1 DEF MarkDeliveryDelivered, Advance
  <2>3. RowsAgree(o)'
    BY <2>2 DEF TypeOK, RowsAgree
  <2> QED
    BY <2>2, <2>3, OneOrderChanges DEF TypeOK
<1>6. CASE MarkDeliveryFailedBySystem
  <2>1. PICK o \in Orders : o = running.order
    BY <1>6, InJobFields DEF MarkDeliveryFailedBySystem, TypeOK
  <2>2. /\ assigned' = assigned
        /\ \/ UNCHANGED <<delivery, order>>
           \/ /\ delivery[o] # "DELIVERED"
              /\ delivery' = [delivery EXCEPT ![o] = "FAILED"]
              /\ \/ order' = order /\ order[o] \in {"DELIVERED", "CANCELLED"}
                 \/ order' = [order EXCEPT ![o] = "CANCELLED"]
    BY <1>6, <2>1 DEF MarkDeliveryFailedBySystem, CancelBySystem, CancelWithRefund, Advance
  <2>3. RowsAgree(o)'
    BY <2>2 DEF TypeOK, StatusInv, RowsAgree, HasCourier
  <2> QED
    BY <2>2, <2>3, OneOrderChanges DEF TypeOK
<1>7. ASSUME NEW o \in Orders, ExpirePayment(o) PROVE StatusInv'
  BY <1>7, CancelKeepsAgreement, NoRowChanges DEF ExpirePayment
<1>8. CASE UNCHANGED <<order, delivery, assigned>>
  BY <1>8, NoRowChanges
<1> QED
  <2>1. CASE \E o \in Orders : Customer(o) \/ RestaurantStep(o) \/ CourierStep(o)
    BY <2>1, <1>1, <1>2, <1>3
  <2>2. CASE \E o \in Orders : AssignStep(o) \/ \E c \in Couriers : OfferDeadline(o, c)
    BY <2>2, <1>8 DEF AssignStep, AssignReturns, AssignReadsNoAttemptLeft, AssignReadsCandidate,
                      AssignFindsNobody, Consume, Reserve, OfferDeadline
  <2>3. CASE \E o \in Orders : ExpiryStep(o)
    BY <2>3, <1>7, <1>8 DEF ExpiryStep, ExpireOfferReads, ExpireOfferReturns,
                            ExpirePaymentReturns, Consume, Reserve
  <2>4. CASE \E r \in Requests : CourierBegins(r) \/ Rollback(r)
    BY <2>4, <1>8 DEF CourierBegins, BeginAcceptDeliveryOffer, BeginRejectDeliveryOffer,
                      BeginMarkDeliveryDelivered, BeginGoOffline, BeginGoAvailable, Begin,
                      Rollback
  <2>5. CASE \E r \in Requests : CourierCommits(r)
    BY <2>5, <1>4, <1>5, <1>8 DEF CourierCommits, RejectDeliveryOffer, GoOffline, GoAvailable
  <2>6. CASE (\E c \in Couriers : GoBusy(c)) \/ CreateDeliveryOffer \/ ExpireOffer \/ WorkerCrash
    BY <2>6, <1>8 DEF GoBusy, CreateDeliveryOffer, ExpireOffer, WorkerCrash
  <2>7. CASE UNCHANGED vars
    BY <2>7, <1>8 DEF vars
  <2> QED
    BY <2>1, <2>2, <2>3, <2>4, <2>5, <2>6, <2>7, <1>6 DEF Next, WorkerCommits

LEMMA StatusInvariant == Spec => []StatusInv
<1>1. Init => StatusInv
  BY DEF Init, StatusInv, RowsAgree, Absent
<1> QED
  BY <1>1, StatusStep, TypeCorrect, PTL DEF Spec

\* The order and its delivery, which couriers, restaurants, customers and jobs advance
\* in transactions of their own, never contradict each other.
THEOREM OrderAndDeliveryAgree == Spec => []StatusesAgree
<1>1. StatusInv => StatusesAgree
  BY DEF StatusInv, RowsAgree, StatusesAgree
<1> QED
  BY <1>1, StatusInvariant, PTL

\* A delivery that failed for want of a courier leaves no live order behind, even when
\* a courier accepted between the job's read and its commit.
THEOREM GivenUpMeansCancelled == Spec => []GivenUpIsCancelled
<1>1. StatusInv => GivenUpIsCancelled
  BY DEF StatusInv, RowsAgree, GivenUpIsCancelled
<1> QED
  BY <1>1, StatusInvariant, PTL

-----------------------------------------------------------------------------
(* Offers                                                                  *)

\* While the assignment job is about to make its offer, no other one is live: it read
\* so, there is one worker, and nobody else makes an offer pending.
OfferingAlone ==
  running.op = "offer" => \A c \in Couriers : offer[running.order][c] # "PENDING"

OfferInv == AcceptedIsAssigned /\ OneLiveOffer /\ OfferingAlone

\* A step of others that makes no offer pending or accepted, assigns nobody and leaves
\* the worker where it is, or idle.
LEMMA NoOfferMade ==
  ASSUME TypeOK, OfferInv, assigned' = assigned, running' \in {running, Idle},
         \A o \in Orders, c \in Couriers :
           offer'[o][c] \in {"PENDING", "ACCEPTED"} => offer'[o][c] = offer[o][c]
  PROVE  OfferInv'
<1>1. AcceptedIsAssigned' /\ OneLiveOffer'
  BY DEF OfferInv, AcceptedIsAssigned, OneLiveOffer
<1>2. OfferingAlone'
  BY InJobFields DEF OfferInv, OfferingAlone, TypeOK, Idle
<1> QED
  BY <1>1, <1>2 DEF OfferInv

\* Each step keeps OfferInv.
LEMMA OfferStep == TypeOK /\ OfferInv /\ [Next]_vars => OfferInv'
<1> SUFFICES ASSUME TypeOK, OfferInv, [Next]_vars PROVE OfferInv'
  OBVIOUS
<1> USE DEF orderVars, dispatchVars, processVars, queueVars
<1>1. ASSUME NEW r \in Requests, AcceptDeliveryOffer(r) PROVE OfferInv'
  <2>1. PICK o \in Orders, c \in Couriers : o = request[r].order /\ c = request[r].courier
    BY <1>1, InFlightFields DEF AcceptDeliveryOffer, TypeOK
  <2>2. /\ assigned[o] \in {None, c}
        /\ assigned' = [assigned EXCEPT ![o] = c]
        /\ running' = running
    BY <1>1, <2>1 DEF AcceptDeliveryOffer, MayTake
  <2>3. /\ \A p \in Orders \ {o} : offer'[p] = offer[p]
        /\ offer'[o][c] = "ACCEPTED"
        /\ \A x \in Couriers \ {c} :
             offer'[o][x] # "PENDING" /\ (offer'[o][x] = "ACCEPTED" => offer[o][x] = "ACCEPTED")
    BY <1>1, <2>1 DEF AcceptDeliveryOffer, TypeOK, Open
  <2>4. AcceptedIsAssigned'
    BY <2>2, <2>3, FulfilmentAssumption DEF OfferInv, AcceptedIsAssigned, TypeOK
  <2>5. OneLiveOffer'
    BY <2>3 DEF OfferInv, OneLiveOffer
  <2>6. OfferingAlone'
    BY <2>2, <2>3, InJobFields DEF OfferInv, OfferingAlone, TypeOK
  <2> QED
    BY <2>4, <2>5, <2>6 DEF OfferInv
<1>2. ASSUME NEW o \in Orders, NEW c \in Couriers, AssignReadsCandidate(o, c) PROVE OfferInv'
  BY <1>2 DEF AssignReadsCandidate, Reserve, HasActivePendingOffer, OfferInv,
              AcceptedIsAssigned, OneLiveOffer, OfferingAlone
<1>3. CASE CreateDeliveryOffer
  <2>1. PICK o \in Orders, c \in Couriers :
          /\ o = running.order /\ c = running.courier
          /\ \A x \in Couriers : offer[o][x] # "PENDING"
    BY <1>3, InJobFields DEF CreateDeliveryOffer, TypeOK, OfferInv, OfferingAlone
  <2>2. offer' = [offer EXCEPT ![o][c] = "PENDING"] /\ assigned' = assigned /\ running' = Idle
    BY <1>3, <2>1 DEF CreateDeliveryOffer
  <2>3. /\ \A p \in Orders \ {o} : offer'[p] = offer[p]
        /\ offer'[o][c] = "PENDING"
        /\ \A x \in Couriers \ {c} : offer'[o][x] = offer[o][x]
    BY <2>1, <2>2 DEF TypeOK
  <2> QED
    BY <2>1, <2>2, <2>3 DEF OfferInv, AcceptedIsAssigned, OneLiveOffer, OfferingAlone, Idle
<1>4. ASSUME NEW r \in Requests, RejectDeliveryOffer(r) PROVE OfferInv'
  <2>1. request[r].order \in Orders /\ request[r].courier \in Couriers
    BY <1>4, InFlightFields DEF RejectDeliveryOffer, TypeOK
  <2> QED
    BY <1>4, <2>1, NoOfferMade DEF RejectDeliveryOffer, TypeOK
<1>5. CASE ExpireOffer
  <2>1. running.order \in Orders /\ running.courier \in Couriers
    BY <1>5, InJobFields DEF ExpireOffer, TypeOK
  <2> QED
    BY <1>5, <2>1, NoOfferMade DEF ExpireOffer, TypeOK
<1>6. ASSUME NEW o \in Orders, NEW c \in Couriers, OfferDeadline(o, c) PROVE OfferInv'
  BY <1>6, NoOfferMade DEF OfferDeadline, TypeOK, Overdue
<1>7. ASSUME NEW o \in Orders,
             \/ AssignReadsNoAttemptLeft(o)
             \/ \E c \in Couriers : ExpireOfferReads(o, c)
      PROVE  OfferInv'
  BY <1>7 DEF AssignReadsNoAttemptLeft, ExpireOfferReads, Reserve, OfferInv,
              AcceptedIsAssigned, OneLiveOffer, OfferingAlone
<1>8. CASE UNCHANGED <<offer, assigned>> /\ running' \in {running, Idle}
  BY <1>8, NoOfferMade
<1> QED
  <2>1. CASE \E o \in Orders : Customer(o) \/ RestaurantStep(o) \/ CourierStep(o)
    BY <2>1, <1>8
    DEF Customer, Checkout, ConfirmPayment, CancelOrderByClient, RestaurantStep,
        AcceptOrderByRestaurant, RejectOrderByRestaurant, StartPreparingOrder, MarkOrderReady,
        UpdateOrderItemStatus, CourierStep, MarkDeliveryPickedUp, MarkDeliveryInTransit,
        MarkDeliveryFailed
  <2>2. CASE \E o \in Orders : AssignStep(o) \/ \E c \in Couriers : OfferDeadline(o, c)
    BY <2>2, <1>2, <1>6, <1>7, <1>8 DEF AssignStep, AssignReturns, AssignFindsNobody, Consume
  <2>3. CASE \E o \in Orders : ExpiryStep(o)
    BY <2>3, <1>7, <1>8 DEF ExpiryStep, ExpirePayment, ExpireOfferReturns,
                            ExpirePaymentReturns, Consume
  <2>4. CASE \E r \in Requests : CourierBegins(r) \/ Rollback(r)
    BY <2>4, <1>8 DEF CourierBegins, BeginAcceptDeliveryOffer, BeginRejectDeliveryOffer,
                      BeginMarkDeliveryDelivered, BeginGoOffline, BeginGoAvailable, Begin,
                      Rollback
  <2>5. CASE \E r \in Requests : CourierCommits(r)
    BY <2>5, <1>1, <1>4, <1>8 DEF CourierCommits, MarkDeliveryDelivered, GoOffline, GoAvailable
  <2>6. CASE (\E c \in Couriers : GoBusy(c)) \/ MarkDeliveryFailedBySystem \/ WorkerCrash
    BY <2>6, <1>8 DEF GoBusy, MarkDeliveryFailedBySystem, WorkerCrash
  <2>7. CASE UNCHANGED vars
    BY <2>7, <1>8 DEF vars
  <2> QED
    BY <2>1, <2>2, <2>3, <2>4, <2>5, <2>6, <2>7, <1>3, <1>5 DEF Next, WorkerCommits

LEMMA OfferInvariant == Spec => []OfferInv
<1>1. Init => OfferInv
  BY DEF Init, OfferInv, AcceptedIsAssigned, OneLiveOffer, OfferingAlone, Absent, Idle
<1> QED
  BY <1>1, OfferStep, TypeCorrect, PTL DEF Spec

\* Whichever couriers' acceptances, rejections and deadlines cross, an accepted offer
\* names the courier of the delivery: at most one is accepted.
THEOREM OneCourierAccepts == Spec => []AcceptedIsAssigned
<1>1. OfferInv => AcceptedIsAssigned
  BY DEF OfferInv
<1> QED
  BY <1>1, OfferInvariant, PTL

\* No delivery is on offer to two couriers at once, although the job that offers it
\* reads in one step and writes in another.
THEOREM OneOfferAtATime == Spec => []OneLiveOffer
<1>1. OfferInv => OneLiveOffer
  BY DEF OfferInv
<1> QED
  BY <1>1, OfferInvariant, PTL

=============================================================================
