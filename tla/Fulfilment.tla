----------------------------- MODULE Fulfilment -----------------------------
(***************************************************************************)
(* The life of an order: OrderService, PaymentService, DeliveryService and *)
(* CourierService over the PostgreSQL rows they share, and the queue jobs  *)
(* that drive courier assignment and the two deadlines.                    *)
(*                                                                         *)
(* A service method marked #[Transactional] is one database transaction    *)
(* (READ COMMITTED).  Its writes, and the checks it makes on rows it holds *)
(* FOR UPDATE, appear at the commit: that is one action.  Where a method   *)
(* decides on a row it has NOT locked, the read is an action of its own    *)
(* (Begin.., ..Read), the transaction stays in flight in `request' (a web  *)
(* request or a gateway message) or `running' (the queue worker's job),    *)
(* and the commit is a second action.                                      *)
(***************************************************************************)
EXTENDS StateMachines, Naturals, FiniteSets

CONSTANTS
  Orders,       \* order ids; an order has one payment and at most one delivery
  Couriers,     \* courier ids
  Requests,     \* processes that serve web requests and gateway messages
  None,         \* null
  MaxAttempts,  \* DeliveryService::MAX_ASSIGNMENT_ATTEMPTS
  MaxCrashes    \* bound on process crashes and job redeliveries

ASSUME FulfilmentAssumption ==
  /\ MaxAttempts \in Nat \ {0}
  /\ MaxCrashes \in Nat
  /\ None \notin Orders \cup Couriers

Absent  == "ABSENT"   \* the row does not exist yet
Overdue == "OVERDUE"  \* an offer whose status is PENDING and whose expires_at has passed
Open    == {"PENDING", Overdue}  \* the offers whose status column says PENDING

VARIABLES
  order,       \* orders.status
  payment,     \* payments.status, by order
  delivery,    \* deliveries.status, by order
  assigned,    \* deliveries.courier_id, by order
  offer,       \* delivery_offers.status, by order and courier, see Overdue
  courier,     \* couriers.status
  request,     \* the transaction each request process has in flight
  running,     \* the job the queue worker has in flight
  queue,       \* the jobs table
  crashes      \* crashes and redeliveries so far

orderVars   == <<order, payment>>
dispatchVars == <<delivery, assigned, offer>>
processVars == <<request, running>>
queueVars   == <<queue, crashes>>
vars == <<orderVars, dispatchVars, courier, processVars, queueVars>>

Idle == [op |-> "idle"]

AssignJob(o)         == [job |-> "assign", order |-> o]
ExpireOfferJob(o, c) == [job |-> "expireOffer", order |-> o, courier |-> c]
ExpirePaymentJob(o)  == [job |-> "expirePayment", order |-> o]

Job == [job : {"assign", "expirePayment"}, order : Orders]
         \cup [job : {"expireOffer"}, order : Orders, courier : Couriers]

\* What a request has read and not yet committed.
InFlight == [op : {"accept", "reject"}, order : Orders, courier : Couriers]
              \cup [op : {"offline"}, courier : Couriers]
              \cup [op : {"available"}, courier : Couriers, unassigned : SUBSET Orders]
              \cup [op : {"deliver"}, order : Orders, unassigned : SUBSET Orders]

\* What the queue worker has read and not yet committed.
InJob == [op : {"offer", "expire"}, order : Orders, courier : Couriers]
           \cup [op : {"giveUp"}, order : Orders]

TypeOK ==
  /\ order      \in [Orders -> OrderStatus \cup {Absent}]
  /\ payment    \in [Orders -> PaymentStatus \cup {Absent}]
  /\ delivery   \in [Orders -> DeliveryStatus \cup {Absent}]
  /\ assigned   \in [Orders -> Couriers \cup {None}]
  /\ offer      \in [Orders -> [Couriers -> DeliveryOfferStatus \cup {Absent, Overdue}]]
  /\ courier    \in [Couriers -> CourierStatus]
  /\ request    \in [Requests -> InFlight \cup {Idle}]
  /\ running    \in InJob \cup {Idle}
  /\ queue      \subseteq Job
  /\ crashes    \in 0..MaxCrashes

Init ==
  /\ order = [o \in Orders |-> Absent]
  /\ payment = [o \in Orders |-> Absent]
  /\ delivery = [o \in Orders |-> Absent]
  /\ assigned = [o \in Orders |-> None]
  /\ offer = [o \in Orders |-> [c \in Couriers |-> Absent]]
  /\ courier = [c \in Couriers |-> "OFFLINE"]
  /\ request = [r \in Requests |-> Idle]
  /\ running = Idle
  /\ queue = {}
  /\ crashes = 0

-----------------------------------------------------------------------------
(* Jobs dispatched ->afterCommit() reach the jobs table only after the     *)
(* commit.  A process that dies in between loses some of them; a queue     *)
(* worker that dies leaves its own job to be reserved again.               *)

Push(jobs, redo) ==
  \/ /\ queue' = queue \cup jobs
     /\ UNCHANGED crashes
  \/ /\ crashes < MaxCrashes
     /\ crashes' = crashes + 1
     /\ \E kept \in SUBSET jobs : queue' = queue \cup kept \cup redo

\* The worker takes job j and ends it at once, with no change but the queue.
Consume(j) ==
  /\ queue' = queue \ {j}
  /\ UNCHANGED <<orderVars, dispatchVars, courier, processVars, crashes>>

\* The worker reserves job j and goes on as `step'.
Reserve(j, step) ==
  /\ queue' = queue \ {j}
  /\ running' = step
  /\ UNCHANGED <<orderVars, dispatchVars, courier, request, crashes>>

WorkerFree(j) == running = Idle /\ j \in queue

-----------------------------------------------------------------------------
(* Helpers of the services                                                 *)

\* OrderService::transition, for the order row alone
Advance(o, status) ==
  /\ OrderCan(order[o], status)
  /\ order' = [order EXCEPT ![o] = status]

\* Mutant: the refund of a paid order is forgotten.
CancelledPaymentKept(status) == IF status = "PENDING" THEN "CANCELLED" ELSE status

\* Mutant: a status of another enum is written.
CancelledPaymentForeign(status) == IF status = "PENDING" THEN "REJECTED" ELSE "REFUNDED"

\* cancelPaymentForOrder: refund what was paid, cancel what is pending
CancelledPayment(status) ==
  CASE status = "COMPLETED" -> "REFUNDED"
    [] status = "PENDING"   -> "CANCELLED"
    [] OTHER                -> status

CancelWithRefund(o) ==
  /\ Advance(o, "CANCELLED")
  /\ payment' = [payment EXCEPT ![o] = CancelledPayment(@)]

\* Mutant: an order that waits for its courier is left alone too.
CancelBySystemTooLate(o) ==
  IF order[o] \in {"DELIVERED", "CANCELLED", "PENDING"}
  THEN UNCHANGED <<order, payment>>
  ELSE CancelWithRefund(o)

\* cancelOrderBySystem: an order that has ended is left alone
CancelBySystem(o) ==
  IF order[o] \in {"DELIVERED", "CANCELLED"}
  THEN UNCHANGED <<order, payment>>
  ELSE CancelWithRefund(o)

HasCourier(o) == assigned[o] # None

ActiveDelivery(c) ==
  \E o \in Orders : assigned[o] = c /\ delivery[o] \notin {"DELIVERED", "FAILED"}

\* getPendingUnassignedDeliveryIds
Unassigned ==
  {o \in Orders : /\ assigned[o] = None
                  /\ delivery[o] = "PENDING"
                  /\ order[o] \in {"PENDING", "COURIER_ASSIGNED", "CONFIRMED"}}

Attempted(o) == {c \in Couriers : offer[o][c] # Absent}

\* Mutant: looks for accepted offers instead of pending ones.
HasActiveAcceptedOffer(o) == \E c \in Couriers : offer[o][c] = "ACCEPTED"

HasActivePendingOffer(o) ==
  \E c \in Couriers : offer[o][c] = "PENDING"

NoAttemptLeft(o) == Cardinality(Attempted(o)) >= MaxAttempts

\* Mutant: the delivery is not looked at.
MayTakeAny(o, c) == o \in Orders /\ c \in Couriers

\* the check acceptDeliveryOffer makes on the locked delivery
MayTake(o, c) == assigned[o] \in {None, c}

\* acceptDeliveryOffer holds the offer row FOR UPDATE from its first read on
OfferLocked(o, c) ==
  \E r \in Requests : request[r] = [op |-> "accept", order |-> o, courier |-> c]

-----------------------------------------------------------------------------
(* The customer                                                            *)

\* checkoutOrder: cash counts as paid at once and asks for a courier; any
\* other method leaves the payment pending with a ten-minute deadline.
Checkout(o, cash) ==
  /\ order[o] = Absent
  /\ order' = [order EXCEPT ![o] = "PENDING"]
  /\ payment' = [payment EXCEPT ![o] = IF cash THEN "COMPLETED" ELSE "PENDING"]
  /\ delivery' = [delivery EXCEPT ![o] = IF cash THEN "PENDING" ELSE @]
  /\ Push({IF cash THEN AssignJob(o) ELSE ExpirePaymentJob(o)}, {})
  /\ UNCHANGED <<assigned, offer, courier, processVars>>

\* confirmPayment and confirmOrderAfterPayment: the order status is not read.
ConfirmPayment(o) ==
  /\ PaymentCan(payment[o], "COMPLETED")
  /\ payment' = [payment EXCEPT ![o] = "COMPLETED"]
  /\ delivery' = [delivery EXCEPT ![o] = IF @ = Absent THEN "PENDING" ELSE @]
  /\ Push(IF HasCourier(o) THEN {} ELSE {AssignJob(o)}, {})
  /\ UNCHANGED <<order, assigned, offer, courier, processVars>>

\* The delivery, its offers and its courier are left as they are.
CancelOrderByClient(o) ==
  /\ order[o] # "CANCELLED"
  /\ CancelWithRefund(o)
  /\ UNCHANGED <<dispatchVars, courier, processVars, queueVars>>

-----------------------------------------------------------------------------
(* The restaurant.  Nothing may be done before a courier is assigned; the  *)
(* check reads the delivery unlocked, but courier_id is never cleared.     *)

AcceptOrderByRestaurant(o) ==
  /\ HasCourier(o)
  /\ Advance(o, "CONFIRMED")
  /\ UNCHANGED <<payment, dispatchVars, courier, processVars, queueVars>>

RejectOrderByRestaurant(o) ==
  /\ HasCourier(o)
  /\ CancelWithRefund(o)
  /\ UNCHANGED <<dispatchVars, courier, processVars, queueVars>>

StartPreparingOrder(o) ==
  /\ HasCourier(o)
  /\ Advance(o, "PREPARING")
  /\ UNCHANGED <<payment, dispatchVars, courier, processVars, queueVars>>

MarkOrderReady(o) ==
  /\ HasCourier(o)
  /\ Advance(o, "READY")
  /\ UNCHANGED <<payment, dispatchVars, courier, processVars, queueVars>>

\* updateOrderItemStatus, the items left out: an item in progress starts the
\* preparation, all items ready end it, and one call may do both.
UpdateOrderItemStatus(o) ==
  /\ \E reached \in {"PREPARING", "READY"} :
       /\ \/ OrderCan(order[o], reached)
          \/ order[o] = "CONFIRMED" /\ reached = "READY"
       /\ order' = [order EXCEPT ![o] = reached]
  /\ UNCHANGED <<payment, dispatchVars, courier, processVars, queueVars>>

-----------------------------------------------------------------------------
(* The courier                                                             *)

Begin(r, step) ==
  /\ request[r] = Idle
  /\ request' = [request EXCEPT ![r] = step]
  /\ UNCHANGED <<orderVars, dispatchVars, courier, running, queueVars>>

\* acceptDeliveryOffer up to the unlocked read of the courier
BeginAcceptDeliveryOffer(r, o, c) ==
  /\ ~OfferLocked(o, c)
  /\ offer[o][c] = "PENDING"
  /\ courier[c] = "AVAILABLE"
  /\ Begin(r, [op |-> "accept", order |-> o, courier |-> c])

\* expireOtherPendingOffers waits for the offers other accepts hold.
AcceptDeliveryOffer(r) ==
  LET o == request[r].order
      c == request[r].courier
  IN  /\ request[r].op = "accept"
      /\ \A other \in Couriers \ {c} : ~OfferLocked(o, other)
      /\ MayTake(o, c)
      /\ offer' = [offer EXCEPT ![o] =
                     [x \in Couriers |-> CASE x = c                   -> "ACCEPTED"
                                           [] x # c /\ @[x] \in Open -> "EXPIRED"
                                           [] OTHER                   -> @[x]]]
      /\ assigned' = [assigned EXCEPT ![o] = c]
      /\ courier' = [courier EXCEPT ![c] = "BUSY"]
      /\ order' = [order EXCEPT ![o] = IF @ = "PENDING" THEN "COURIER_ASSIGNED" ELSE @]
      /\ request' = [request EXCEPT ![r] = Idle]
      /\ UNCHANGED <<payment, delivery, running, queueVars>>

\* rejectDeliveryOffer: the pending offer is read without a lock...
BeginRejectDeliveryOffer(r, o, c) ==
  /\ offer[o][c] \in Open
  /\ Begin(r, [op |-> "reject", order |-> o, courier |-> c])

\* ... and REJECTED is written whatever the offer has become.
RejectDeliveryOffer(r) ==
  LET o == request[r].order
      c == request[r].courier
  IN  /\ request[r].op = "reject"
      /\ ~OfferLocked(o, c)
      /\ offer' = [offer EXCEPT ![o][c] = "REJECTED"]
      /\ request' = [request EXCEPT ![r] = Idle]
      /\ Push({AssignJob(o)}, {})
      /\ UNCHANGED <<orderVars, delivery, assigned, courier, running>>

MarkDeliveryPickedUp(o) ==
  /\ HasCourier(o)
  /\ DeliveryCan(delivery[o], "PICKED_UP")
  /\ delivery' = [delivery EXCEPT ![o] = "PICKED_UP"]
  /\ UNCHANGED <<orderVars, assigned, offer, courier, processVars, queueVars>>

MarkDeliveryInTransit(o) ==
  /\ HasCourier(o)
  /\ DeliveryCan(delivery[o], "IN_TRANSIT")
  /\ delivery' = [delivery EXCEPT ![o] = "IN_TRANSIT"]
  /\ Advance(o, "OUT_FOR_DELIVERY")
  /\ UNCHANGED <<payment, assigned, offer, courier,
                 processVars, queueVars>>

\* markDeliveryDelivered ends by making the courier AVAILABLE, which reads the
\* unassigned deliveries inside the transaction.
BeginMarkDeliveryDelivered(r, o) ==
  /\ HasCourier(o)
  /\ DeliveryCan(delivery[o], "DELIVERED")
  /\ OrderCan(order[o], "DELIVERED")
  /\ Begin(r, [op |-> "deliver", order |-> o, unassigned |-> Unassigned])

MarkDeliveryDelivered(r) ==
  LET o == request[r].order
  IN  /\ request[r].op = "deliver"
      /\ DeliveryCan(delivery[o], "DELIVERED")
      /\ delivery' = [delivery EXCEPT ![o] = "DELIVERED"]
      /\ Advance(o, "DELIVERED")
      /\ courier' = [courier EXCEPT ![assigned[o]] = "AVAILABLE"]
      /\ request' = [request EXCEPT ![r] = Idle]
      /\ Push({AssignJob(p) : p \in request[r].unassigned}, {})
      /\ UNCHANGED <<payment, assigned, offer, running>>

\* markDeliveryFailed: neither the order nor the courier is touched.
MarkDeliveryFailed(o) ==
  /\ HasCourier(o)
  /\ DeliveryCan(delivery[o], "FAILED")
  /\ delivery' = [delivery EXCEPT ![o] = "FAILED"]
  /\ UNCHANGED <<orderVars, assigned, offer, courier, processVars, queueVars>>

\* updateCourierStatus(OFFLINE), also on the loss of the courier's socket: the
\* active-delivery check takes no lock.
BeginGoOffline(r, c) ==
  /\ ~ActiveDelivery(c)
  /\ Begin(r, [op |-> "offline", courier |-> c])

GoOffline(r) ==
  /\ request[r].op = "offline"
  /\ courier' = [courier EXCEPT ![request[r].courier] = "OFFLINE"]
  /\ request' = [request EXCEPT ![r] = Idle]
  /\ UNCHANGED <<orderVars, dispatchVars, running, queueVars>>

\* updateCourierStatus(AVAILABLE): no check; the unassigned deliveries are read
\* before the commit that makes the courier visible.
BeginGoAvailable(r, c) ==
  Begin(r, [op |-> "available", courier |-> c, unassigned |-> Unassigned])

GoAvailable(r) ==
  /\ request[r].op = "available"
  /\ courier' = [courier EXCEPT ![request[r].courier] = "AVAILABLE"]
  /\ request' = [request EXCEPT ![r] = Idle]
  /\ Push({AssignJob(p) : p \in request[r].unassigned}, {})
  /\ UNCHANGED <<orderVars, dispatchVars, running>>

GoBusy(c) ==
  /\ courier' = [courier EXCEPT ![c] = "BUSY"]
  /\ UNCHANGED <<orderVars, dispatchVars, processVars, queueVars>>

\* A transaction in flight may fail: a crash, a deadlock victim, an exception.
Rollback(r) ==
  /\ request[r] # Idle
  /\ request' = [request EXCEPT ![r] = Idle]
  /\ UNCHANGED <<orderVars, dispatchVars, courier, running, queueVars>>

-----------------------------------------------------------------------------
(* The queue worker: one process, one job at a time                        *)

\* Mutant: an exhausted assignment is dropped like a finished one.
AssignReturnsExhausted(o) ==
  /\ WorkerFree(AssignJob(o))
  /\ HasCourier(o) \/ HasActivePendingOffer(o) \/ NoAttemptLeft(o)
  /\ Consume(AssignJob(o))

\* assignCourierToDelivery, which is no transaction: its reads...
AssignReturns(o) ==
  /\ WorkerFree(AssignJob(o))
  /\ HasCourier(o) \/ HasActivePendingOffer(o)
  /\ Consume(AssignJob(o))

AssignReadsNoAttemptLeft(o) ==
  /\ WorkerFree(AssignJob(o))
  /\ ~HasCourier(o) /\ ~HasActivePendingOffer(o)
  /\ NoAttemptLeft(o)
  /\ Reserve(AssignJob(o), [op |-> "giveUp", order |-> o])

\* The nearest courier in the radius: positions are left out, so it is any
\* available one, or none at all.
AssignReadsCandidate(o, c) ==
  /\ WorkerFree(AssignJob(o))
  /\ ~HasCourier(o) /\ ~HasActivePendingOffer(o)
  /\ ~NoAttemptLeft(o)
  /\ courier[c] = "AVAILABLE" /\ c \notin Attempted(o)
  /\ Reserve(AssignJob(o), [op |-> "offer", order |-> o, courier |-> c])

AssignFindsNobody(o) ==
  /\ WorkerFree(AssignJob(o))
  /\ ~HasCourier(o) /\ ~HasActivePendingOffer(o)
  /\ ~NoAttemptLeft(o)
  /\ Consume(AssignJob(o))

\* ... then createDeliveryOfferForCourier, which reads nothing again...
CreateDeliveryOffer ==
  LET o == running.order
      c == running.courier
  IN  /\ running.op = "offer"
      /\ offer' = [offer EXCEPT ![o][c] = "PENDING"]
      /\ running' = Idle
      /\ Push({ExpireOfferJob(o, c)}, {AssignJob(o)})
      /\ UNCHANGED <<orderVars, delivery, assigned, courier, request>>

\* ... or markDeliveryFailedBySystem('NO_COURIER_AVAILABLE'), which looks at the
\* locked delivery's status but not at its courier.
MarkDeliveryFailedBySystem ==
  LET o == running.order
  IN  /\ running.op = "giveUp"
      /\ IF delivery[o] \in {"FAILED", "DELIVERED"}
         THEN UNCHANGED <<delivery, order, payment>>
         ELSE /\ DeliveryCan(delivery[o], "FAILED")
              /\ delivery' = [delivery EXCEPT ![o] = "FAILED"]
              /\ CancelBySystem(o)
      /\ running' = Idle
      /\ Push({}, {AssignJob(o)})
      /\ UNCHANGED <<assigned, offer, courier, request>>

\* Mutant: the comparison with expires_at is inverted.
ExpireOfferReadsEarly(o, c) ==
  /\ WorkerFree(ExpireOfferJob(o, c))
  /\ offer[o][c] = "PENDING"
  /\ Reserve(ExpireOfferJob(o, c), [op |-> "expire", order |-> o, courier |-> c])

\* expireOfferByJob reads the offer without a lock...
ExpireOfferReads(o, c) ==
  /\ WorkerFree(ExpireOfferJob(o, c))
  /\ offer[o][c] = Overdue
  /\ Reserve(ExpireOfferJob(o, c), [op |-> "expire", order |-> o, courier |-> c])

ExpireOfferReturns(o, c) ==
  /\ WorkerFree(ExpireOfferJob(o, c))
  /\ offer[o][c] \notin Open
  /\ Consume(ExpireOfferJob(o, c))

\* ... and writes EXPIRED whatever the offer has become.
ExpireOffer ==
  LET o == running.order
      c == running.courier
  IN  /\ running.op = "expire"
      /\ ~OfferLocked(o, c)
      /\ offer' = [offer EXCEPT ![o][c] = "EXPIRED"]
      /\ running' = Idle
      /\ Push({AssignJob(o)}, {ExpireOfferJob(o, c)})
      /\ UNCHANGED <<orderVars, delivery, assigned, courier, request>>

\* ExpirePendingPaymentJob: expirePayment checks again on the locked payment.
ExpirePayment(o) ==
  /\ WorkerFree(ExpirePaymentJob(o))
  /\ PaymentCan(payment[o], "FAILED")
  /\ payment' = [payment EXCEPT ![o] = "FAILED"]
  /\ IF order[o] = "CANCELLED" THEN UNCHANGED order ELSE Advance(o, "CANCELLED")
  /\ queue' = queue \ {ExpirePaymentJob(o)}
  /\ UNCHANGED <<dispatchVars, courier, processVars, crashes>>

ExpirePaymentReturns(o) ==
  /\ WorkerFree(ExpirePaymentJob(o))
  /\ payment[o] # "PENDING"
  /\ Consume(ExpirePaymentJob(o))

\* The worker dies before the commit: its job is reserved again later.
WorkerCrash ==
  /\ running # Idle
  /\ crashes < MaxCrashes
  /\ crashes' = crashes + 1
  /\ queue' = queue \cup
       {IF running.op = "expire" THEN ExpireOfferJob(running.order, running.courier)
                                 ELSE AssignJob(running.order)}
  /\ running' = Idle
  /\ UNCHANGED <<orderVars, dispatchVars, courier, request>>

-----------------------------------------------------------------------------
(* Time.  Only the offers' deadline is a step: nothing but the delayed job *)
(* reads payments.expired_at, so that deadline passes as the job runs.      *)

OfferDeadline(o, c) ==
  /\ offer[o][c] = "PENDING"
  /\ offer' = [offer EXCEPT ![o][c] = Overdue]
  /\ UNCHANGED <<orderVars, delivery, assigned, courier, processVars, queueVars>>

-----------------------------------------------------------------------------
Customer(o) ==
  \/ \E cash \in BOOLEAN : Checkout(o, cash)
  \/ ConfirmPayment(o)
  \/ CancelOrderByClient(o)

RestaurantStep(o) ==
  \/ AcceptOrderByRestaurant(o)
  \/ RejectOrderByRestaurant(o)
  \/ StartPreparingOrder(o)
  \/ MarkOrderReady(o)
  \/ UpdateOrderItemStatus(o)

CourierStep(o) ==
  \/ MarkDeliveryPickedUp(o)
  \/ MarkDeliveryInTransit(o)
  \/ MarkDeliveryFailed(o)

CourierBegins(r) ==
  \/ \E o \in Orders, c \in Couriers : \/ BeginAcceptDeliveryOffer(r, o, c)
                                       \/ BeginRejectDeliveryOffer(r, o, c)
  \/ \E o \in Orders : BeginMarkDeliveryDelivered(r, o)
  \/ \E c \in Couriers : BeginGoOffline(r, c) \/ BeginGoAvailable(r, c)

CourierCommits(r) ==
  \/ AcceptDeliveryOffer(r)
  \/ RejectDeliveryOffer(r)
  \/ MarkDeliveryDelivered(r)
  \/ GoOffline(r)
  \/ GoAvailable(r)

AssignStep(o) ==
  \/ AssignReturns(o)
  \/ AssignReadsNoAttemptLeft(o)
  \/ \E c \in Couriers : AssignReadsCandidate(o, c)
  \/ AssignFindsNobody(o)

ExpiryStep(o) ==
  \/ \E c \in Couriers : ExpireOfferReads(o, c) \/ ExpireOfferReturns(o, c)
  \/ ExpirePayment(o)
  \/ ExpirePaymentReturns(o)

WorkerCommits ==
  \/ CreateDeliveryOffer
  \/ MarkDeliveryFailedBySystem
  \/ ExpireOffer

Next ==
  \/ \E o \in Orders : \/ Customer(o) \/ RestaurantStep(o) \/ CourierStep(o)
                       \/ AssignStep(o) \/ ExpiryStep(o)
                       \/ \E c \in Couriers : OfferDeadline(o, c)
  \/ \E r \in Requests : CourierBegins(r) \/ CourierCommits(r) \/ Rollback(r)
  \/ \E c \in Couriers : GoBusy(c)
  \/ WorkerCommits
  \/ WorkerCrash

Spec == Init /\ [][Next]_vars

-----------------------------------------------------------------------------
(* Safety                                                                  *)

Taken    == {"COMPLETED"}                         \* the customer's money is held
Released == {"FAILED", "CANCELLED", "REFUNDED"}   \* it was never taken, or given back
Underway == {"COURIER_ASSIGNED", "CONFIRMED", "PREPARING", "READY", "OUT_FOR_DELIVERY"}

\* An order is cancelled exactly when its money is released: no cancellation, by
\* the customer, the restaurant, the payment deadline or the assignment job,
\* keeps the money, and no live or delivered order loses it.
MoneyFollowsOrder ==
  \A o \in Orders : order[o] = "CANCELLED" <=> payment[o] \in Released

\* Nothing moves before the payment: a delivery exists only for an order that was
\* paid, and an order past PENDING, delivered included, holds the money.
UnpaidOrderStays ==
  \A o \in Orders :
    /\ delivery[o] # Absent => payment[o] \in {"COMPLETED", "REFUNDED"}
    /\ order[o] \in Underway \cup {"DELIVERED"} => payment[o] \in Taken

\* The restaurant works only on orders a courier has taken, whichever of its
\* handlers (some check the courier, updateOrderItemStatus does not) moved them.
KitchenWaitsForCourier ==
  \A o \in Orders : order[o] \in Underway \cup {"DELIVERED"} => HasCourier(o)

\* Order and delivery, two rows that different actors lock, tell one story.
StatusesAgree ==
  \A o \in Orders :
    /\ order[o] = "DELIVERED" <=> delivery[o] = "DELIVERED"
    /\ order[o] = "OUT_FOR_DELIVERY" => delivery[o] \in {"IN_TRANSIT", "FAILED"}
    /\ delivery[o] = "IN_TRANSIT" => order[o] \in {"OUT_FOR_DELIVERY", "CANCELLED"}

\* An accepted offer names the delivery's courier, so at most one is accepted,
\* even when an offer is created after another courier's acceptance.
AcceptedIsAssigned ==
  \A o \in Orders, c \in Couriers : offer[o][c] = "ACCEPTED" => assigned[o] = c

\* No delivery is on offer to two couriers at a time, although the assignment
\* job looks for a live offer in one step and creates its own in a later one.
OneLiveOffer ==
  \A o \in Orders, c, d \in Couriers :
    offer[o][c] = "PENDING" /\ offer[o][d] = "PENDING" => c = d

\* A delivery that failed for want of a courier has had its order cancelled (and,
\* by MoneyFollowsOrder, refunded).
GivenUpIsCancelled ==
  \A o \in Orders :
    delivery[o] = "FAILED" /\ ~HasCourier(o) => order[o] = "CANCELLED"

-----------------------------------------------------------------------------
(* Refinement: the customer's view of an order                             *)

Stage(status) ==
  CASE status = Absent      -> "none"
    [] status = "PENDING"   -> "placed"
    [] status \in Underway  -> "underway"
    [] status = "DELIVERED" -> "delivered"
    [] OTHER                -> "cancelled"

Money(status) ==
  CASE status = Absent      -> "none"
    [] status = "PENDING"   -> "due"
    [] status = "COMPLETED" -> "taken"
    [] status = "REFUNDED"  -> "returned"
    [] OTHER                -> "never"

Promise == INSTANCE OrderPromise
             WITH stage <- [o \in Orders |-> Stage(order[o])],
                  money <- [o \in Orders |-> Money(payment[o])]

\* Every handler and job, crashes included, is a step of OrderPromise or leaves
\* the customer's view alone.
KeepsPromise == Promise!Spec

-----------------------------------------------------------------------------
(* Liveness: the queue worker keeps taking jobs, what is in flight ends,   *)
(* and clocks run.  Nothing is assumed of customers, restaurants and       *)
(* couriers, and no process dies (MaxCrashes = 0).                         *)

Fairness ==
  /\ \A o \in Orders : /\ WF_vars(AssignStep(o))
                       /\ WF_vars(ExpirePayment(o))
                       /\ WF_vars(\E c \in Couriers : ExpireOfferReads(o, c))
                       /\ \A c \in Couriers : WF_vars(OfferDeadline(o, c))
  /\ WF_vars(WorkerCommits)
  /\ \A r \in Requests : WF_vars(CourierCommits(r) \/ Rollback(r))

FairSpec == Spec /\ Fairness

\* A payment does not stay pending: it is confirmed, cancelled, or expires.
PendingPaymentSettles ==
  \A o \in Orders : payment[o] = "PENDING" ~> payment[o] # "PENDING"

\* An offer does not stay open, whatever the courier does.
OpenOfferSettles ==
  \A o \in Orders, c \in Couriers : offer[o][c] \in Open ~> offer[o][c] \notin Open

\* When every attempt has been refused or has lapsed, the delivery is failed and
\* the order cancelled, unless a courier took it after all.
ExhaustedIsGivenUp ==
  \A o \in Orders :
    (NoAttemptLeft(o) /\ \A c \in Couriers : offer[o][c] \notin Open)
      ~> (HasCourier(o) \/ delivery[o] = "FAILED")

=============================================================================
