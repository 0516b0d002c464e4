--------------------------- MODULE CustomerOrders ---------------------------
(***************************************************************************)
(* The customer's orders on the screens: the active order and its          *)
(* tracking, the history, the payment that is asked for, cancellation and  *)
(* links from notifications, against the server's orders and the events    *)
(* of two topics.  Every event asks for the tracking again; answers come   *)
(* in any order, and the last to come is shown.  Orders are few enough for *)
(* one page of the history.                                                *)
(***************************************************************************)
EXTENDS Naturals, FiniteSets

CONSTANTS
  Orders, None,
  Old,         \* the orders under way, paid or not, when the application starts
  MaxPresses,  \* bound on the buttons that ask, follow or order something
  MaxLapses    \* bound on lost answers, outages and links followed

ASSUME CustomerOrdersAssumption ==
  None \notin Orders /\ Old \subseteq Orders /\ MaxPresses \in Nat /\ MaxLapses \in Nat

VARIABLES
  isOnline,
  activeOrderId, tracking, ordersHistory, pendingPayment, cancelTargetOrder,
  calls,        \* requests on their way and answers not seen yet
  status, payment,   \* the server's rows
  due,          \* events of the customer's topic still to come
  presses, lapses,
  crossed       \* an answer was used that later news had overtaken

screenVars == <<activeOrderId, tracking, ordersHistory, pendingPayment, cancelTargetOrder>>
serverVars == <<status, payment, due>>
vars == <<isOnline, screenVars, calls, serverVars, crossed, presses, lapses>>

Over == {"DELIVERED", "CANCELLED"}

CANCELLABLE_STATUSES == {"PENDING", "CONFIRMED"}
TRACKABLE_STATUSES == {"CONFIRMED"}

\* The statuses that the screens tell apart: CONFIRMED stands for all those under way.
Rank == [NONE |-> 0, PENDING |-> 1, CONFIRMED |-> 2, DELIVERED |-> 3, CANCELLED |-> 3]

\* Those the handlers tell apart: ORDER_CONFIRMED stands for all that only ask for a reload.
Events == {"ORDER_CONFIRMED", "ORDER_DELIVERED", "ORDER_CANCELLED",
           "PAYMENT_COMPLETED", "PAYMENT_EXPIRED"}

Blank == [o \in Orders |-> "NONE"]

\* A request, about an order or none, what the server answered, and whether its order
\* was the active one when the button was pressed.
Call(op, o) ==
  [op |-> op, of |-> o, got |-> "sent", seen |-> Blank, wasActive |-> FALSE]

\* The application starts, with the orders that the customer already had.
Init ==
  /\ isOnline = TRUE
  /\ activeOrderId = None /\ tracking = None /\ pendingPayment = None
  /\ cancelTargetOrder = None
  /\ \E paid \in SUBSET Old :
       /\ status = [o \in Orders |-> IF o \in paid THEN "CONFIRMED"
                                     ELSE IF o \in Old THEN "PENDING" ELSE "NONE"]
       /\ payment = [o \in Orders |-> IF o \in paid THEN "COMPLETED"
                                      ELSE IF o \in Old THEN "PENDING" ELSE "NONE"]
  /\ ordersHistory = Blank
  /\ calls = {Call("bootstrap", None)}
  /\ due = {}
  /\ presses = 0 /\ lapses = 0 /\ crossed = FALSE

Lapse == lapses < MaxLapses /\ lapses' = lapses + 1

-----------------------------------------------------------------------------
(* Requests and answers                                                    *)

CountPress == presses < MaxPresses /\ presses' = presses + 1

\* a button's request
Press(c) ==
  /\ isOnline
  /\ CountPress
  /\ calls' = calls \cup {c}

\* loadTracking, called by the handlers that follow an order
LoadTracking(o) == IF isOnline THEN {Call("tracking", o)} ELSE {}

Answered(op, c) == c \in calls /\ c.op = op /\ c.got # "sent"

\* a modal covers the buttons under it
Uncovered == pendingPayment = None /\ cancelTargetOrder = None

\* c is used before an older answer about the same order
Overtakes(c) ==
  \E b \in calls :
    b.op = c.op /\ b.of = c.of /\ b.got = "ok" /\ Rank[b.seen[c.of]] < Rank[c.seen[c.of]]

\* nothing is left to tell of the end of the order
Told(o) ==
  /\ o # None
  /\ status[o] \in Over
  /\ {<<o, "ORDER_DELIVERED">>, <<o, "ORDER_CANCELLED">>} \cap due = {}

\* setTracking: the answer is shown whichever order is followed by then
TrackingLoaded(c) ==
  /\ Answered("tracking", c)
  /\ calls' = calls \ {c}
  /\ IF c.got = "ok"
     THEN /\ tracking' = [of |-> c.of, rest |-> c.of, status |-> c.seen[c.of]]
          /\ crossed' = (crossed \/ Overtakes(c))
     ELSE UNCHANGED <<tracking, crossed>>
  /\ UNCHANGED <<isOnline, activeOrderId, ordersHistory, pendingPayment, cancelTargetOrder,
                 serverVars, presses, lapses>>

\* bootstrap: the newest order under way becomes the active one, or none does,
\* whatever a link has chosen meanwhile
Bootstrapped(c) ==
  /\ Answered("bootstrap", c)
  /\ calls' = calls \ {c}
  /\ IF c.got = "ok"
     THEN LET open == {o \in Orders : c.seen[o] \in {"PENDING", "CONFIRMED"}} IN
          /\ activeOrderId' \in IF open = {} THEN {None} ELSE open
          /\ crossed' = (crossed \/ Told(activeOrderId') \/ activeOrderId # None
                                 \/ tracking # None)
     ELSE UNCHANGED <<activeOrderId, crossed>>
  /\ UNCHANGED <<isOnline, tracking, ordersHistory, pendingPayment, cancelTargetOrder,
                 serverVars, presses, lapses>>

-----------------------------------------------------------------------------
(* Placing and paying                                                      *)

\* CustomerCart's checkout has been answered: the order becomes the active one, and
\* its payment is asked for unless it is in cash.  The flag of the bootstrap keeps the
\* button of the checkout disabled.
OrderPlaced(o) ==
  /\ Uncovered /\ isOnline
  /\ CountPress
  /\ \A c \in calls : c.op # "bootstrap"
  /\ status[o] = "NONE"
  /\ status' = [status EXCEPT ![o] = "PENDING"]
  /\ activeOrderId' = o
  /\ \/ /\ payment' = [payment EXCEPT ![o] = "PENDING"]
        /\ pendingPayment' = o
        /\ UNCHANGED calls
     \/ /\ payment' = [payment EXCEPT ![o] = "COMPLETED"]
        /\ calls' = calls \cup LoadTracking(o)
        /\ UNCHANGED pendingPayment
  /\ UNCHANGED <<isOnline, tracking, ordersHistory, cancelTargetOrder, due, lapses,
                 crossed>>

\* isPayingNow
Paying == \E c \in calls : c.op = "pay"

HandlePayPendingPayment ==
  /\ pendingPayment # None /\ ~Paying
  /\ Press(Call("pay", pendingPayment))
  /\ UNCHANGED <<isOnline, screenVars, serverVars, crossed, lapses>>

\* The modal that is open closes, also when it has come to be another order's.
PaymentAnswered(c) ==
  /\ Answered("pay", c)
  /\ IF c.got = "ok"
     THEN /\ pendingPayment' = None
          /\ calls' = (calls \ {c}) \cup LoadTracking(c.of)
          /\ crossed' = (crossed \/ pendingPayment \notin {None, c.of})
     ELSE calls' = calls \ {c} /\ UNCHANGED <<pendingPayment, crossed>>
  /\ UNCHANGED <<isOnline, activeOrderId, tracking, ordersHistory, cancelTargetOrder,
                 serverVars, presses, lapses>>

\* "Fechar", or the countdown by the telephone's clock, also while paying
ClosePayment ==
  /\ pendingPayment # None
  /\ pendingPayment' = None
  /\ UNCHANGED <<isOnline, activeOrderId, tracking, ordersHistory, cancelTargetOrder, calls,
                 serverVars, presses, lapses, crossed>>

-----------------------------------------------------------------------------
(* History, tracking and links                                             *)

LoadOrdersHistory ==
  /\ Uncovered
  /\ Press(Call("history", None))
  /\ UNCHANGED <<isOnline, screenVars, serverVars, crossed, lapses>>

HistoryLoaded(c) ==
  /\ Answered("history", c)
  /\ calls' = calls \ {c}
  /\ IF c.got = "ok"
     THEN /\ ordersHistory' = c.seen
          /\ crossed' = (crossed \/ \E o \in Orders : Told(o) /\ c.seen[o] \notin Over)
     ELSE UNCHANGED <<ordersHistory, crossed>>
  /\ UNCHANGED <<isOnline, activeOrderId, tracking, pendingPayment, cancelTargetOrder,
                 serverVars, presses, lapses>>

\* "Acompanhar" in the history
Track(o) ==
  /\ Uncovered
  /\ ordersHistory[o] \in TRACKABLE_STATUSES
  /\ CountPress
  /\ activeOrderId' = o
  /\ calls' = calls \cup LoadTracking(o)
  /\ UNCHANGED <<isOnline, tracking, ordersHistory, pendingPayment, cancelTargetOrder,
                 serverVars, crossed, lapses>>

\* trackingOrderId, asked again by the button of the tracking screen
RefreshTracking ==
  /\ Uncovered
  /\ \E o \in Orders :
       /\ o = IF activeOrderId # None THEN activeOrderId
              ELSE IF tracking # None THEN tracking.of ELSE None
       /\ Press(Call("tracking", o))
  /\ UNCHANGED <<isOnline, screenVars, serverVars, crossed, lapses>>

\* A notification is opened: its order is followed, also when it is over.
FollowDeepLink(o) ==
  /\ Lapse
  /\ status[o] # "NONE"
  /\ activeOrderId' = o
  /\ calls' = calls \cup LoadTracking(o)
  /\ UNCHANGED <<presses, isOnline, tracking, ordersHistory, pendingPayment, cancelTargetOrder,
                 serverVars, crossed>>

RequestCancelOrder(o) ==
  /\ Uncovered
  /\ ordersHistory[o] \in CANCELLABLE_STATUSES
  /\ cancelTargetOrder' = o
  /\ UNCHANGED <<isOnline, activeOrderId, tracking, ordersHistory, pendingPayment, calls,
                 serverVars, crossed, presses, lapses>>

\* isCancellingOrder
Cancelling == \E c \in calls : c.op = "cancel"

ConfirmCancelOrder ==
  /\ cancelTargetOrder # None /\ ~Cancelling
  /\ Press([Call("cancel", cancelTargetOrder)
            EXCEPT !.wasActive = activeOrderId = cancelTargetOrder])
  /\ UNCHANGED <<isOnline, screenVars, serverVars, crossed, lapses>>

KeepOrder ==
  /\ cancelTargetOrder # None /\ ~Cancelling
  /\ cancelTargetOrder' = None
  /\ UNCHANGED <<isOnline, activeOrderId, tracking, ordersHistory, pendingPayment, calls,
                 serverVars, crossed, presses, lapses>>

OrderCancelled(c) ==
  /\ Answered("cancel", c)
  /\ calls' = calls \ {c}
  /\ IF c.got = "ok"
     THEN /\ ordersHistory' = [ordersHistory EXCEPT
               ![c.of] = IF @ = "NONE" THEN @ ELSE "CANCELLED"]
          /\ activeOrderId' = IF c.wasActive THEN None ELSE activeOrderId
          /\ cancelTargetOrder' = None
     ELSE UNCHANGED <<ordersHistory, activeOrderId, cancelTargetOrder>>
  /\ UNCHANGED <<isOnline, tracking, pendingPayment, serverVars, presses, lapses, crossed>>

-----------------------------------------------------------------------------
(* Events                                                                  *)

Ending(e) == e \in {"ORDER_DELIVERED", "ORDER_CANCELLED"}

EndOf(e) == IF e = "ORDER_DELIVERED" THEN "DELIVERED" ELSE "CANCELLED"

\* Mutant: the end is not written in the history.
HistoryAfterUntold(o, e) == ordersHistory

HistoryAfter(o, e) ==
  [ordersHistory EXCEPT ![o] = IF Ending(e) /\ @ # "NONE" THEN EndOf(e) ELSE @]

PaymentAfter(o, e) ==
  IF e \in {"PAYMENT_COMPLETED", "PAYMENT_EXPIRED"} /\ pendingPayment = o
  THEN None ELSE pendingPayment

\* Mutant: only the events of a payment ask for the tracking.
LoadsAfterPayment(o, e) ==
  IF e = "PAYMENT_COMPLETED" /\ pendingPayment = o THEN LoadTracking(o) ELSE {}

\* the tracking is asked again for the active order, and for the one just paid
LoadsAfter(o, e) ==
  IF activeOrderId = o \/ (e = "PAYMENT_COMPLETED" /\ pendingPayment = o)
  THEN LoadTracking(o) ELSE {}

\* Mutant: the order that ended stays the active one.
ActiveAfterNothing(o, e) == activeOrderId

ActiveAfter(o, e) == IF Ending(e) /\ activeOrderId = o THEN None ELSE activeOrderId

\* An event of the customer's topic: it comes twice, by its doubled listener.
CustomerEvent(o, e) ==
  /\ <<o, e>> \in due
  /\ isOnline
  /\ due' \in {due, due \ {<<o, e>>}}
  /\ ordersHistory' = HistoryAfter(o, e)
  /\ activeOrderId' = ActiveAfter(o, e)
  /\ pendingPayment' = PaymentAfter(o, e)
  /\ calls' = calls \cup LoadsAfter(o, e)
  /\ UNCHANGED <<isOnline, tracking, cancelTargetOrder, status, payment, presses, lapses,
                 crossed>>

\* The same event comes on the topic of the order followed, before the other one's last.
TrackingEvent(o, e) ==
  /\ <<o, e>> \in due
  /\ isOnline
  /\ activeOrderId = o
  /\ calls' = calls \cup LoadTracking(o)
  /\ activeOrderId' = ActiveAfter(o, e)
  /\ UNCHANGED <<isOnline, tracking, ordersHistory, pendingPayment, cancelTargetOrder,
                 serverVars, crossed, presses, lapses>>

\* The courier's position is put into the tracking on the screen, with the order's name:
\* the rest of it is still that of the order it was loaded for.
PositionUpdated ==
  /\ isOnline
  /\ activeOrderId # None /\ status[activeOrderId] = "CONFIRMED"
  /\ tracking' = IF tracking = None
                 THEN [of |-> activeOrderId, rest |-> None, status |-> "NONE"]
                 ELSE [tracking EXCEPT !.of = activeOrderId]
  /\ UNCHANGED <<isOnline, activeOrderId, ordersHistory, pendingPayment, cancelTargetOrder,
                 calls, serverVars, crossed, presses, lapses>>

\* An event that comes while the network is away is never seen.
MissEvent(o, e) ==
  /\ <<o, e>> \in due
  /\ ~isOnline
  /\ due' = due \ {<<o, e>>}
  /\ UNCHANGED <<isOnline, screenVars, calls, status, payment, crossed, presses, lapses>>

\* The effects subscribe again when the network is back; nothing is loaded.
NetworkChanges ==
  /\ IF isOnline THEN Lapse ELSE UNCHANGED lapses
  /\ isOnline' = ~isOnline
  /\ UNCHANGED <<presses, screenVars, calls, serverVars, crossed>>

-----------------------------------------------------------------------------
(* The server                                                              *)

Confirm(o) ==
  /\ status[o] = "PENDING" /\ payment[o] = "COMPLETED"
  /\ status' = [status EXCEPT ![o] = "CONFIRMED"]
  /\ due' = due \cup {<<o, "ORDER_CONFIRMED">>}
  /\ UNCHANGED payment

Deliver(o) ==
  /\ status[o] = "CONFIRMED"
  /\ status' = [status EXCEPT ![o] = "DELIVERED"]
  /\ due' = due \cup {<<o, "ORDER_DELIVERED">>}
  /\ UNCHANGED payment

Cancel(o) ==
  /\ status[o] \in {"PENDING", "CONFIRMED"}
  /\ status' = [status EXCEPT ![o] = "CANCELLED"]
  /\ payment' = [payment EXCEPT ![o] = "CANCELLED"]
  /\ due' = due \cup {<<o, "ORDER_CANCELLED">>}

ExpirePayment(o) ==
  /\ payment[o] = "PENDING"
  /\ payment' = [payment EXCEPT ![o] = "CANCELLED"]
  /\ status' = [status EXCEPT ![o] = "CANCELLED"]
  /\ due' = due \cup {<<o, "PAYMENT_EXPIRED">>, <<o, "ORDER_CANCELLED">>}

CompletePayment(o) ==
  /\ payment[o] = "PENDING"
  /\ payment' = [payment EXCEPT ![o] = "COMPLETED"]
  /\ due' = due \cup {<<o, "PAYMENT_COMPLETED">>}
  /\ UNCHANGED status

ServerStep(o) ==
  /\ Confirm(o) \/ Deliver(o) \/ Cancel(o) \/ ExpirePayment(o)
  /\ UNCHANGED <<isOnline, screenVars, calls, crossed, presses, lapses>>

\* what the answer to a query holds
Seen(c) ==
  CASE c.op = "tracking" -> [Blank EXCEPT ![c.of] = status[c.of]]
    [] c.op \in {"bootstrap", "history"} -> status
    [] OTHER -> Blank

Reply(c, got) ==
  calls' = (calls \ {c}) \cup
    {[c EXCEPT !.got = got, !.seen = IF got = "ok" THEN Seen(c) ELSE @]}

\* An order that is cancelled already is answered as it is.
Commit(c) ==
  CASE c.op = "cancel" -> Cancel(c.of) \/ (status[c.of] = "CANCELLED" /\ UNCHANGED serverVars)
    [] c.op = "pay"    -> CompletePayment(c.of)
    [] OTHER           -> UNCHANGED serverVars

MayRefuse(c) ==
  CASE c.op = "cancel" -> status[c.of] = "DELIVERED"
    [] c.op = "pay"    -> payment[c.of] # "PENDING"
    [] OTHER           -> FALSE

Serve(c) ==
  /\ c.got = "sent"
  /\ \/ Commit(c) /\ Reply(c, "ok")
     \/ MayRefuse(c) /\ Reply(c, "error") /\ UNCHANGED serverVars
  /\ UNCHANGED <<isOnline, screenVars, crossed, presses, lapses>>

Lose(c) ==
  /\ c.got = "sent"
  /\ Lapse
  /\ Commit(c) \/ UNCHANGED serverVars
  /\ Reply(c, "error")
  /\ UNCHANGED <<presses, isOnline, screenVars, crossed>>

-----------------------------------------------------------------------------
Customer ==
  \/ \E o \in Orders : OrderPlaced(o) \/ Track(o) \/ RequestCancelOrder(o)
  \/ HandlePayPendingPayment \/ ClosePayment
  \/ LoadOrdersHistory \/ RefreshTracking \/ ConfirmCancelOrder \/ KeepOrder

Answers(c) ==
  \/ TrackingLoaded(c) \/ Bootstrapped(c) \/ PaymentAnswered(c) \/ HistoryLoaded(c)
  \/ OrderCancelled(c)

Arrivals ==
  \/ \E o \in Orders, e \in Events :
       CustomerEvent(o, e) \/ TrackingEvent(o, e) \/ MissEvent(o, e)
  \/ \E o \in Orders : FollowDeepLink(o)
  \/ PositionUpdated \/ NetworkChanges

Next ==
  \/ Customer \/ Arrivals
  \/ \E o \in Orders : ServerStep(o)
  \/ \E c \in calls : Serve(c) \/ Lose(c) \/ Answers(c)

Spec == Init /\ [][Next]_vars

-----------------------------------------------------------------------------
(* Properties                                                              *)

Quiet == calls = {} /\ due = {} /\ isOnline

\* the active order has been loaded, and not only positioned
TracksActive == activeOrderId # None /\ tracking # None /\ tracking.rest = activeOrderId

\* When nothing is on its way, the tracking of the active order shows what the order
\* has become, whichever topic brought the news and however the loads interleaved,
\* unless an answer was overtaken by later news or lost, or the network was away.
TrackingCatchesUp ==
  (Quiet /\ ~crossed /\ lapses = 0 /\ TracksActive) => tracking.status = status[activeOrderId]

\* When nothing is on its way, the order shown as active is not over.
ActiveIsNotOver ==
  (Quiet /\ ~crossed /\ lapses = 0 /\ activeOrderId # None) => status[activeOrderId] \notin Over

\* When nothing is on its way, the history has the end of every order it lists, whose
\* buttons to follow or to cancel are then gone.
HistoryKnowsTheEnd ==
  (Quiet /\ ~crossed /\ lapses = 0) =>
    \A o \in Orders :
      (ordersHistory[o] # "NONE" /\ status[o] \in Over) => ordersHistory[o] = status[o]

=============================================================================
