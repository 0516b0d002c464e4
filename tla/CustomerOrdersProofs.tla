------------------------ MODULE CustomerOrdersProofs ------------------------
(***************************************************************************)
(* Proofs about CustomerOrders, for any orders and bounds: what the        *)
(* customer's screens end with, when nothing is on its way any more, is    *)
(* what the orders have become.                                            *)
(***************************************************************************)
EXTENDS CustomerOrders, TLAPS

Statuses == {"NONE", "PENDING", "CONFIRMED", "DELIVERED", "CANCELLED"}
Payments == {"NONE", "PENDING", "COMPLETED", "CANCELLED"}

CallRecord ==
  [op : {"bootstrap", "tracking", "pay", "history", "cancel"}, of : Orders \cup {None},
   got : {"sent", "ok", "error"}, seen : [Orders -> Statuses], wasActive : BOOLEAN]

Trackings == [of : Orders, rest : Orders \cup {None}, status : Statuses]

\* the requests that are about an order
About == {"tracking", "pay", "cancel"}

Types ==
  /\ {isOnline, crossed} \subseteq BOOLEAN /\ {presses, lapses} \subseteq Nat
  /\ {activeOrderId, pendingPayment, cancelTargetOrder} \subseteq Orders \cup {None}
  /\ tracking \in Trackings \cup {None}
  /\ ordersHistory \in [Orders -> Statuses] /\ status \in [Orders -> Statuses]
  /\ payment \in [Orders -> Payments]
  /\ calls \subseteq CallRecord
  /\ \A c \in calls : c.op \in About => c.of \in Orders
  /\ due \subseteq Orders \X Events

-----------------------------------------------------------------------------
(* What an order has been, and may become                                  *)

Upto(s, t) == s = t \/ Rank[s] < Rank[t]

Started(s) == s \in {"CONFIRMED"} \cup Over

LEMMA Ranks ==
  /\ Rank["NONE"] = 0 /\ Rank["PENDING"] = 1 /\ Rank["CONFIRMED"] = 2
  /\ Rank["DELIVERED"] = 3 /\ Rank["CANCELLED"] = 3
BY DEF Rank

LEMMA UptoFacts ==
  \A s, t, u \in Statuses :
    /\ Upto(s, s) /\ Upto("NONE", s)
    /\ Upto(s, t) /\ Upto(t, u) => Upto(s, u)
    /\ Upto(s, t) /\ s \in Over => s = t
    /\ Upto(s, t) /\ Started(s) => Started(t)
    /\ Upto(s, t) /\ s # "NONE" => t # "NONE"
BY Ranks DEF Upto, Statuses, Started, Over

LEMMA BlankIs == Blank \in [Orders -> Statuses] /\ \A o \in Orders : Blank[o] = "NONE"
BY DEF Blank, Statuses

\* What the screens and the answers show, the orders have been.
SeenIsPast ==
  /\ \A c \in calls, o \in Orders : Upto(c.seen[o], status[o])
  /\ \A o \in Orders : Upto(ordersHistory[o], status[o])

\* An order and its payment go together, and the end that is told is its end.
RowsAgree ==
  /\ \A o \in Orders : payment[o] = "PENDING" => status[o] = "PENDING"
  /\ \A o \in Orders : <<o, "ORDER_DELIVERED">> \in due => status[o] = "DELIVERED"
  /\ \A o \in Orders : <<o, "ORDER_CANCELLED">> \in due => status[o] = "CANCELLED"
  /\ \A c \in calls : c.op = "cancel" /\ c.got = "ok" => status[c.of] = "CANCELLED"

Exists(o) == o # None => status[o] # "NONE"

\* What is followed, paid or asked for has been placed.
AllExist ==
  /\ Exists(activeOrderId) /\ Exists(pendingPayment)
  /\ tracking # None => Exists(tracking.of) /\ Exists(tracking.rest)
  /\ \A c \in calls : c.op \in {"tracking", "pay"} => Exists(c.of)

Base == Types /\ SeenIsPast /\ RowsAgree /\ AllExist

\* A request that has just been made.
Asked(d) ==
  /\ d \in CallRecord /\ d.got = "sent" /\ d.seen = Blank /\ d.op # "bootstrap"
  /\ d.op \in About => d.of \in Orders
  /\ d.op \in {"tracking", "pay"} => Exists(d.of)

LEMMA Asking ==
  ASSUME NEW op \in {"tracking", "pay", "history", "cancel"}, NEW o \in Orders \cup {None},
         op \in About => o \in Orders, op \in {"tracking", "pay"} => Exists(o)
  PROVE  Asked(Call(op, o)) /\ Call(op, o).op = op /\ Call(op, o).of = o
BY BlankIs DEF Asked, Call, CallRecord

LEMMA Loading ==
  ASSUME NEW o \in Orders, status[o] # "NONE"
  PROVE  \A d \in LoadTracking(o) : Asked(d) /\ d.op = "tracking" /\ d.of = o
<1>1. Asked(Call("tracking", o)) /\ Call("tracking", o).op = "tracking"
      /\ Call("tracking", o).of = o
  BY Asking DEF Exists, About
<1> QED
  BY <1>1 DEF LoadTracking

\* A step in which the server has no part, and events only come.
LEMMA ScreenBase ==
  ASSUME Base, UNCHANGED <<status, payment>>, due' \subseteq due,
         {isOnline', crossed'} \subseteq BOOLEAN, {presses', lapses'} \subseteq Nat,
         {activeOrderId', pendingPayment', cancelTargetOrder'} \subseteq Orders \cup {None},
         Exists(activeOrderId'), Exists(pendingPayment'),
         tracking' \in Trackings \cup {None},
         tracking' # None => Exists(tracking'.of) /\ Exists(tracking'.rest),
         ordersHistory' \in [Orders -> Statuses],
         \A o \in Orders : Upto(ordersHistory'[o], status[o]),
         \A d \in calls' : d \in calls \/ Asked(d)
  PROVE  Base'
<1>0. Types /\ SeenIsPast /\ RowsAgree /\ AllExist
  BY DEF Base
<1>1. Types'
  <2>1. calls' \subseteq CallRecord /\ \A d \in calls' : d.op \in About => d.of \in Orders
    BY <1>0 DEF Types, Asked
  <2> QED
    BY <1>0, <2>1 DEF Types
<1>2. SeenIsPast'
  <2>1. status \in [Orders -> Statuses]
    BY <1>0 DEF Types
  <2>2. \A o \in Orders : Upto(Blank[o], status[o])
    BY <2>1, BlankIs, UptoFacts
  <2>3. \A d \in calls', o \in Orders : Upto(d.seen[o], status[o])
    BY <1>0, <2>2 DEF SeenIsPast, Asked
  <2> QED
    BY <2>3 DEF SeenIsPast, Upto
<1>3. RowsAgree'
  BY <1>0 DEF RowsAgree, Asked
<1>4. AllExist'
  BY <1>0 DEF AllExist, Asked, Exists
<1> QED
  BY <1>1, <1>2, <1>3, <1>4 DEF Base

LEMMA CancelAsked ==
  ASSUME NEW o \in Orders, NEW was \in BOOLEAN, NEW x,
         x = [Call("cancel", o) EXCEPT !.wasActive = was]
  PROVE  Asked(x) /\ x.op = "cancel" /\ x.of = o
<1>1. x = [op |-> "cancel", of |-> o, got |-> "sent", seen |-> Blank, wasActive |-> was]
  BY DEF Call
<1> QED
  BY <1>1, BlankIs DEF Asked, CallRecord, About

\* What a button asks for.
LEMMA CustomerAsks ==
  ASSUME Base,
         \/ \E o \in Orders : Track(o) \/ RequestCancelOrder(o)
         \/ HandlePayPendingPayment \/ ClosePayment
         \/ LoadOrdersHistory \/ RefreshTracking \/ ConfirmCancelOrder \/ KeepOrder
  PROVE  \A d \in calls' : d \in calls \/ Asked(d)
<1>0. /\ activeOrderId \in Orders \cup {None} /\ Exists(activeOrderId)
      /\ pendingPayment \in Orders \cup {None} /\ Exists(pendingPayment)
      /\ cancelTargetOrder \in Orders \cup {None}
      /\ tracking # None => tracking.of \in Orders /\ Exists(tracking.of)
  BY DEF Base, Types, AllExist, Trackings
<1>1. ASSUME NEW o \in Orders, Track(o) PROVE \A d \in calls' : d \in calls \/ Asked(d)
  <2>1. Upto("CONFIRMED", status[o]) /\ status[o] \in Statuses
    BY <1>1 DEF Track, TRACKABLE_STATUSES, Base, SeenIsPast, Types
  <2>2. status[o] # "NONE"
    BY <2>1, UptoFacts DEF Statuses
  <2> QED
    BY <1>1, <2>2, Loading DEF Track
<1>2. CASE \/ \E o \in Orders : RequestCancelOrder(o)
           \/ ClosePayment \/ KeepOrder
  BY <1>2 DEF RequestCancelOrder, ClosePayment, KeepOrder
<1>3. CASE HandlePayPendingPayment
  <2>1. Asked(Call("pay", pendingPayment))
    BY <1>0, <1>3, Asking DEF HandlePayPendingPayment
  <2> QED
    BY <1>3, <2>1 DEF HandlePayPendingPayment, Press
<1>4. CASE LoadOrdersHistory
  <2>1. Asked(Call("history", None))
    BY Asking DEF About
  <2> QED
    BY <1>4, <2>1 DEF LoadOrdersHistory, Press
<1>5. CASE RefreshTracking
  <2>1. PICK o \in Orders :
          /\ o = activeOrderId \/ (tracking # None /\ o = tracking.of)
          /\ calls' = calls \cup {Call("tracking", o)}
    <3>1. PICK o \in Orders :
            /\ o = IF activeOrderId # None THEN activeOrderId
                   ELSE IF tracking # None THEN tracking.of ELSE None
            /\ calls' = calls \cup {Call("tracking", o)}
      BY <1>5 DEF RefreshTracking, Press
    <3> QED
      BY <3>1, CustomerOrdersAssumption
  <2>2. Asked(Call("tracking", o))
    BY <1>0, <2>1, Asking
  <2> QED
    BY <2>1, <2>2
<1>6. CASE ConfirmCancelOrder
  <2>1. PICK was \in BOOLEAN : was = (activeOrderId = cancelTargetOrder)
    OBVIOUS
  <2>2. PICK x : x = [Call("cancel", cancelTargetOrder) EXCEPT !.wasActive = was]
    OBVIOUS
  <2>3. calls' = calls \cup {x} /\ cancelTargetOrder \in Orders
    BY <1>0, <1>6, <2>1, <2>2 DEF ConfirmCancelOrder, Press
  <2> QED
    BY <2>2, <2>3, CancelAsked
<1> QED
  BY <1>1, <1>2, <1>3, <1>4, <1>5, <1>6

LEMMA CustomerBase ==
  ASSUME Base,
         \/ \E o \in Orders : Track(o) \/ RequestCancelOrder(o)
         \/ HandlePayPendingPayment \/ ClosePayment
         \/ LoadOrdersHistory \/ RefreshTracking \/ ConfirmCancelOrder \/ KeepOrder
  PROVE  Base'
<1>0. Types /\ SeenIsPast /\ AllExist
  BY DEF Base
<1>1. /\ UNCHANGED <<isOnline, tracking, ordersHistory, status, payment, due, crossed, lapses>>
      /\ presses' \in {presses, presses + 1}
      /\ activeOrderId' = activeOrderId
           \/ (activeOrderId' \in Orders /\ ordersHistory[activeOrderId'] = "CONFIRMED")
      /\ pendingPayment' \in {pendingPayment, None}
      /\ cancelTargetOrder' \in Orders \cup {cancelTargetOrder, None}
  BY DEF Track, RequestCancelOrder, HandlePayPendingPayment, ClosePayment,
     LoadOrdersHistory, RefreshTracking, ConfirmCancelOrder, KeepOrder, Press, CountPress,
     serverVars, screenVars, TRACKABLE_STATUSES
<1>2. Exists(activeOrderId') /\ Exists(pendingPayment')
  <2>1. \A o \in Orders : ordersHistory[o] = "CONFIRMED" => status[o] # "NONE"
    BY <1>0, UptoFacts DEF SeenIsPast, Types, Statuses
  <2> QED
    BY <1>0, <1>1, <2>1 DEF AllExist, Exists
<1>3. \A d \in calls' : d \in calls \/ Asked(d)
  BY CustomerAsks
<1>4. {presses', lapses'} \subseteq Nat
  BY <1>0, <1>1 DEF Types
<1>5. {activeOrderId', pendingPayment', cancelTargetOrder'} \subseteq Orders \cup {None}
  BY <1>0, <1>1 DEF Types
<1>6. /\ {isOnline', crossed'} \subseteq BOOLEAN /\ tracking' \in Trackings \cup {None}
      /\ ordersHistory' \in [Orders -> Statuses]
  BY <1>0, <1>1 DEF Types
<1>7. /\ tracking' # None => Exists(tracking'.of) /\ Exists(tracking'.rest)
      /\ \A o \in Orders : Upto(ordersHistory'[o], status[o])
  BY <1>0, <1>1 DEF AllExist, SeenIsPast
<1> QED
  BY <1>1, <1>2, <1>3, <1>4, <1>5, <1>6, <1>7, ScreenBase

\* What an answer is about, and that it shows the past.
LEMMA AnswerIs ==
  ASSUME Base, NEW c \in calls
  PROVE  /\ c \in CallRecord /\ c.seen \in [Orders -> Statuses] /\ c.of \in Orders \cup {None}
         /\ c.op \in About => c.of \in Orders
         /\ c.op \in {"tracking", "pay"} => status[c.of] # "NONE"
         /\ \A o \in Orders : Upto(c.seen[o], status[o]) /\ status[o] \in Statuses
         /\ \A o \in Orders : c.seen[o] # "NONE" => status[o] # "NONE"
<1>1. /\ c \in CallRecord /\ c.seen \in [Orders -> Statuses] /\ c.of \in Orders \cup {None}
      /\ c.op \in About => c.of \in Orders
      /\ c.op \in {"tracking", "pay"} => Exists(c.of)
      /\ \A o \in Orders : Upto(c.seen[o], status[o]) /\ status[o] \in Statuses
  BY DEF Base, Types, SeenIsPast, AllExist, CallRecord
<1>2. \A o \in Orders : c.seen[o] # "NONE" => status[o] # "NONE"
  BY <1>1, UptoFacts
<1>3. c.op \in {"tracking", "pay"} => status[c.of] # "NONE"
  BY <1>1, CustomerOrdersAssumption DEF Exists, About
<1> QED
  BY <1>1, <1>2, <1>3

LEMMA AnswersBase ==
  ASSUME Base, NEW c \in calls, Answers(c)
  PROVE  Base'
<1>0. Types /\ SeenIsPast /\ AllExist /\ RowsAgree
  BY DEF Base
<1>1. UNCHANGED <<isOnline, status, payment, due, presses, lapses>>
  BY DEF Answers, TrackingLoaded, Bootstrapped, PaymentAnswered, HistoryLoaded, OrderCancelled,
     serverVars
<1>2. crossed' \in BOOLEAN
  BY <1>0 DEF Answers, TrackingLoaded, Bootstrapped, PaymentAnswered, HistoryLoaded,
     OrderCancelled, Types, Overtakes
<1>3. activeOrderId' \in Orders \cup {None} /\ Exists(activeOrderId')
  <2>1. CASE Bootstrapped(c)
    <3>1. activeOrderId' \in {activeOrderId, None}
            \/ (activeOrderId' \in Orders /\ c.seen[activeOrderId'] \in {"PENDING", "CONFIRMED"})
      BY <2>1 DEF Bootstrapped
    <3> QED
      BY <1>0, <3>1, AnswerIs DEF Types, AllExist, Exists
  <2>2. CASE TrackingLoaded(c) \/ PaymentAnswered(c) \/ HistoryLoaded(c) \/ OrderCancelled(c)
    <3>1. activeOrderId' \in {activeOrderId, None}
      BY <2>2 DEF TrackingLoaded, PaymentAnswered, HistoryLoaded, OrderCancelled
    <3> QED
      BY <1>0, <3>1 DEF Types, AllExist, Exists
  <2> QED
    BY <2>1, <2>2 DEF Answers
<1>4. /\ pendingPayment' \in {pendingPayment, None}
      /\ cancelTargetOrder' \in {cancelTargetOrder, None}
  BY DEF Answers, TrackingLoaded, Bootstrapped, PaymentAnswered, HistoryLoaded, OrderCancelled
<1>5. /\ tracking' \in Trackings \cup {None}
      /\ tracking' # None => Exists(tracking'.of) /\ Exists(tracking'.rest)
  <2>1. CASE TrackingLoaded(c) /\ c.got = "ok"
    <3>1. PICK x : x = [of |-> c.of, rest |-> c.of, status |-> c.seen[c.of]]
      OBVIOUS
    <3>2. c.of \in Orders /\ c.seen[c.of] \in Statuses /\ Exists(c.of)
      BY <2>1, AnswerIs DEF TrackingLoaded, Answered, About, Exists
    <3>3. x \in Trackings /\ x.of = c.of /\ x.rest = c.of
      BY <3>1, <3>2 DEF Trackings
    <3>4. tracking' = x
      BY <2>1, <3>1 DEF TrackingLoaded
    <3> QED
      BY <3>2, <3>3, <3>4
  <2>2. CASE ~(TrackingLoaded(c) /\ c.got = "ok")
    <3>1. UNCHANGED tracking
      BY <2>2 DEF Answers, TrackingLoaded, Bootstrapped, PaymentAnswered, HistoryLoaded,
         OrderCancelled
    <3> QED
      BY <1>0, <3>1 DEF Types, AllExist
  <2> QED
    BY <2>1, <2>2
<1>6. /\ ordersHistory' \in [Orders -> Statuses]
      /\ \A o \in Orders : Upto(ordersHistory'[o], status[o])
  <2>1. CASE HistoryLoaded(c)
    <3>1. ordersHistory' \in {ordersHistory, c.seen}
      BY <2>1 DEF HistoryLoaded
    <3> QED
      BY <1>0, <3>1, AnswerIs DEF Types, SeenIsPast
  <2>2. CASE OrderCancelled(c) /\ c.got = "ok"
    <3>1. PICK h : h = IF ordersHistory[c.of] = "NONE" THEN ordersHistory[c.of] ELSE "CANCELLED"
      OBVIOUS
    <3>2. c.of \in Orders /\ status[c.of] = "CANCELLED"
      BY <1>0, <2>2, AnswerIs DEF OrderCancelled, Answered, About, RowsAgree
    <3>3. ordersHistory' = [ordersHistory EXCEPT ![c.of] = h]
      BY <2>2, <3>1 DEF OrderCancelled
    <3>4. ordersHistory \in [Orders -> Statuses] /\ h \in Statuses
      BY <1>0, <3>1, <3>2 DEF Types, Statuses
    <3>5. Upto(h, status[c.of])
      BY <1>0, <3>1, <3>2 DEF SeenIsPast, Upto
    <3> QED
      BY <1>0, <3>2, <3>3, <3>4, <3>5 DEF SeenIsPast
  <2>3. CASE ~HistoryLoaded(c) /\ ~(OrderCancelled(c) /\ c.got = "ok")
    <3>1. UNCHANGED ordersHistory
      BY <2>3 DEF Answers, TrackingLoaded, Bootstrapped, PaymentAnswered, HistoryLoaded,
         OrderCancelled
    <3> QED
      BY <1>0, <3>1 DEF Types, SeenIsPast
  <2> QED
    BY <2>1, <2>2, <2>3
<1>7. \A d \in calls' : d \in calls \/ Asked(d)
  <2>1. CASE PaymentAnswered(c)
    <3>1. c.of \in Orders /\ status[c.of] # "NONE"
      BY <2>1, AnswerIs DEF PaymentAnswered, Answered, About
    <3>2. calls' \subseteq calls \cup LoadTracking(c.of)
      BY <2>1 DEF PaymentAnswered
    <3> QED
      BY <3>1, <3>2, Loading
  <2>2. CASE TrackingLoaded(c) \/ Bootstrapped(c) \/ HistoryLoaded(c) \/ OrderCancelled(c)
    BY <2>2 DEF TrackingLoaded, Bootstrapped, HistoryLoaded, OrderCancelled
  <2> QED
    BY <2>1, <2>2 DEF Answers
<1>8. /\ {isOnline', crossed'} \subseteq BOOLEAN /\ {presses', lapses'} \subseteq Nat
      /\ {activeOrderId', pendingPayment', cancelTargetOrder'} \subseteq Orders \cup {None}
      /\ Exists(pendingPayment')
  BY <1>0, <1>1, <1>2, <1>3, <1>4 DEF Types, AllExist, Exists
<1> QED
  BY <1>1, <1>3, <1>5, <1>6, <1>7, <1>8, ScreenBase

\* what an event writes is its order's end
LEMMA EventEnds ==
  ASSUME Base, NEW o \in Orders, NEW e \in Events, <<o, e>> \in due
  PROVE  /\ Ending(e) => EndOf(e) = status[o] /\ status[o] \in Over
         /\ HistoryAfter(o, e) \in [Orders -> Statuses]
         /\ \A p \in Orders : HistoryAfter(o, e)[p] =
              IF p = o /\ Ending(e) /\ ordersHistory[o] # "NONE" THEN status[o]
              ELSE ordersHistory[p]
<1>1. Ending(e) => EndOf(e) = status[o] /\ status[o] \in Over
  BY DEF Ending, EndOf, Base, RowsAgree, Over
<1>2. ordersHistory \in [Orders -> Statuses] /\ status[o] \in Statuses
  BY DEF Base, Types
<1>3. PICK h : h = IF Ending(e) /\ ordersHistory[o] # "NONE" THEN EndOf(e) ELSE ordersHistory[o]
  OBVIOUS
<1>4. HistoryAfter(o, e) = [ordersHistory EXCEPT ![o] = h]
  BY <1>3 DEF HistoryAfter
<1>5. h \in Statuses /\ h = IF Ending(e) /\ ordersHistory[o] # "NONE" THEN status[o]
                            ELSE ordersHistory[o]
  BY <1>1, <1>2, <1>3
<1> QED
  BY <1>1, <1>2, <1>4, <1>5

LEMMA ArrivalsBase == Base /\ Arrivals => Base'
<1> SUFFICES ASSUME Base, Arrivals PROVE Base'
  OBVIOUS
<1>0. Types /\ SeenIsPast /\ AllExist /\ RowsAgree
  BY DEF Base
<1>1. /\ UNCHANGED <<status, payment, presses, crossed, cancelTargetOrder>> /\ due' \subseteq due
      /\ isOnline' \in BOOLEAN /\ lapses' \in {lapses, lapses + 1}
  BY <1>0 DEF Arrivals, CustomerEvent, TrackingEvent, MissEvent, FollowDeepLink,
     PositionUpdated, NetworkChanges, Lapse, serverVars, screenVars, Types
<1>2. \/ activeOrderId' \in {activeOrderId, None}
      \/ activeOrderId' \in Orders /\ status[activeOrderId'] # "NONE"
  BY DEF Arrivals, CustomerEvent, TrackingEvent, MissEvent, FollowDeepLink,
     PositionUpdated, NetworkChanges, screenVars, ActiveAfter
<1>3. pendingPayment' \in {pendingPayment, None}
  BY DEF Arrivals, CustomerEvent, TrackingEvent, MissEvent, FollowDeepLink,
     PositionUpdated, NetworkChanges, screenVars, PaymentAfter
<1>4. /\ tracking' \in Trackings \cup {None}
      /\ tracking' # None => Exists(tracking'.of) /\ Exists(tracking'.rest)
  <2>1. CASE PositionUpdated
    <3>0. activeOrderId \in Orders /\ Exists(activeOrderId)
      BY <1>0, <2>1 DEF PositionUpdated, Types, AllExist
    <3>1. CASE tracking = None
      <4>1. PICK x : x = [of |-> activeOrderId, rest |-> None, status |-> "NONE"]
        OBVIOUS
      <4>2. tracking' = x
        BY <2>1, <3>1, <4>1 DEF PositionUpdated
      <4>3. x \in Trackings /\ x.of = activeOrderId /\ x.rest = None
        BY <3>0, <4>1 DEF Trackings, Statuses
      <4> QED
        BY <3>0, <4>2, <4>3 DEF Exists
    <3>2. CASE tracking # None
      <4>1. PICK a, x : a = activeOrderId /\ x = [tracking EXCEPT !.of = a]
        OBVIOUS
      <4>2. tracking' = x
        BY <2>1, <3>2, <4>1 DEF PositionUpdated
      <4>3. tracking \in Trackings
        BY <1>0, <3>2 DEF Types
      <4>4. x \in Trackings /\ x.of = a /\ x.rest = tracking.rest
        BY <3>0, <4>1, <4>3 DEF Trackings
      <4> QED
        BY <1>0, <3>0, <3>2, <4>1, <4>2, <4>4 DEF AllExist
    <3> QED
      BY <3>1, <3>2
  <2>2. CASE ~PositionUpdated
    <3>1. UNCHANGED tracking
      BY <2>2 DEF Arrivals, CustomerEvent, TrackingEvent, MissEvent, FollowDeepLink,
         NetworkChanges, screenVars
    <3> QED
      BY <1>0, <3>1 DEF Types, AllExist
  <2> QED
    BY <2>1, <2>2
<1>5. /\ ordersHistory' \in [Orders -> Statuses]
      /\ \A o \in Orders : Upto(ordersHistory'[o], status[o])
  <2>1. ASSUME NEW o \in Orders, NEW e \in Events, CustomerEvent(o, e)
        PROVE  /\ ordersHistory' \in [Orders -> Statuses]
               /\ \A p \in Orders : Upto(ordersHistory'[p], status[p])
    <3>1. <<o, e>> \in due /\ ordersHistory' = HistoryAfter(o, e)
      BY <2>1 DEF CustomerEvent
    <3> QED
      BY <1>0, <3>1, EventEnds DEF SeenIsPast, Upto
  <2>2. CASE \/ \E o \in Orders, e \in Events : TrackingEvent(o, e) \/ MissEvent(o, e)
             \/ \E o \in Orders : FollowDeepLink(o)
             \/ PositionUpdated \/ NetworkChanges
    <3>1. UNCHANGED ordersHistory
      BY <2>2 DEF TrackingEvent, MissEvent, FollowDeepLink, PositionUpdated, NetworkChanges,
         screenVars
    <3> QED
      BY <1>0, <3>1 DEF Types, SeenIsPast
  <2> QED
    BY <2>1, <2>2 DEF Arrivals
<1>6. \A d \in calls' : d \in calls \/ Asked(d)
  <2>1. calls' = calls \/ \E o \in Orders : status[o] # "NONE"
                             /\ calls' \subseteq calls \cup LoadTracking(o)
    <3>1. ASSUME NEW o \in Orders, NEW e \in Events, CustomerEvent(o, e)
          PROVE  \/ calls' = calls
                 \/ status[o] # "NONE" /\ calls' \subseteq calls \cup LoadTracking(o)
      <4>1. calls' = calls \cup LoadsAfter(o, e)
        BY <3>1 DEF CustomerEvent
      <4>2. CASE activeOrderId = o \/ pendingPayment = o
        <5>1. status[o] # "NONE"
          BY <1>0, <4>2, CustomerOrdersAssumption DEF AllExist, Exists
        <5> QED
          BY <4>1, <5>1 DEF LoadsAfter
      <4>3. CASE activeOrderId # o /\ pendingPayment # o
        BY <4>1, <4>3 DEF LoadsAfter
      <4> QED
        BY <4>2, <4>3
    <3>2. ASSUME NEW o \in Orders, NEW e \in Events, TrackingEvent(o, e)
          PROVE  status[o] # "NONE" /\ calls' \subseteq calls \cup LoadTracking(o)
      BY <1>0, <3>2, CustomerOrdersAssumption DEF TrackingEvent, AllExist, Exists
    <3>3. ASSUME NEW o \in Orders, FollowDeepLink(o)
          PROVE  status[o] # "NONE" /\ calls' \subseteq calls \cup LoadTracking(o)
      BY <3>3 DEF FollowDeepLink
    <3>4. CASE \/ \E o \in Orders, e \in Events : MissEvent(o, e)
               \/ PositionUpdated \/ NetworkChanges
      BY <3>4 DEF MissEvent, PositionUpdated, NetworkChanges
    <3> QED
      BY <3>1, <3>2, <3>3, <3>4 DEF Arrivals
  <2> QED
    BY <2>1, Loading
<1>7. /\ {isOnline', crossed'} \subseteq BOOLEAN /\ {presses', lapses'} \subseteq Nat
      /\ {activeOrderId', pendingPayment', cancelTargetOrder'} \subseteq Orders \cup {None}
  BY <1>0, <1>1, <1>2, <1>3 DEF Types
<1>8. Exists(activeOrderId') /\ Exists(pendingPayment')
  BY <1>0, <1>2, <1>3 DEF AllExist, Exists
<1> QED
  BY <1>1, <1>4, <1>5, <1>6, <1>7, <1>8, ScreenBase

\* What the server does to one order, and tells.
Moved(o) ==
  /\ status' \in [Orders -> Statuses] /\ payment' \in [Orders -> Payments]
  /\ \A p \in Orders : p # o => status'[p] = status[p] /\ payment'[p] = payment[p]
  /\ status[o] # "NONE" /\ Upto(status[o], status'[o])
  /\ payment'[o] = "PENDING" => status'[o] = "PENDING"
  /\ due \subseteq due' /\ due' \subseteq due \cup ({o} \X Events)
  /\ <<o, "ORDER_DELIVERED">> \in due' => status'[o] = "DELIVERED"
  /\ <<o, "ORDER_CANCELLED">> \in due' => status'[o] = "CANCELLED"
  /\ status'[o] # status[o] => \E e \in Events : <<o, e>> \in due'
  /\ status'[o] # status[o] /\ status'[o] \in Over =>
       \E e \in {"ORDER_DELIVERED", "ORDER_CANCELLED"} : <<o, e>> \in due'

LEMMA ServerMoves ==
  ASSUME Base, NEW o \in Orders,
         Confirm(o) \/ Deliver(o) \/ Cancel(o) \/ ExpirePayment(o) \/ CompletePayment(o)
  PROVE  Moved(o)
<1>0. /\ status \in [Orders -> Statuses] /\ payment \in [Orders -> Payments]
      /\ payment[o] = "PENDING" => status[o] = "PENDING"
      /\ <<o, "ORDER_DELIVERED">> \in due => status[o] = "DELIVERED"
      /\ <<o, "ORDER_CANCELLED">> \in due => status[o] = "CANCELLED"
  BY DEF Base, Types, RowsAgree
<1>1. CASE Confirm(o)
  <2>1. /\ status[o] = "PENDING" /\ payment[o] = "COMPLETED"
        /\ status' = [status EXCEPT ![o] = "CONFIRMED"] /\ payment' = payment
        /\ due' = due \cup {<<o, "ORDER_CONFIRMED">>}
    BY <1>1 DEF Confirm
  <2>2. Upto("PENDING", "CONFIRMED")
    BY Ranks DEF Upto
  <2> QED
    BY <1>0, <2>1, <2>2 DEF Moved, Statuses, Over, Events
<1>2. CASE Deliver(o)
  <2>1. /\ status[o] = "CONFIRMED" /\ status' = [status EXCEPT ![o] = "DELIVERED"]
        /\ payment' = payment /\ due' = due \cup {<<o, "ORDER_DELIVERED">>}
    BY <1>2 DEF Deliver
  <2>2. Upto("CONFIRMED", "DELIVERED")
    BY Ranks DEF Upto
  <2> QED
    BY <1>0, <2>1, <2>2 DEF Moved, Statuses, Over, Events
<1>3. CASE Cancel(o)
  <2>1. /\ status[o] \in {"PENDING", "CONFIRMED"}
        /\ status' = [status EXCEPT ![o] = "CANCELLED"]
        /\ payment' = [payment EXCEPT ![o] = "CANCELLED"]
        /\ due' = due \cup {<<o, "ORDER_CANCELLED">>}
    BY <1>3 DEF Cancel
  <2>2. Upto(status[o], "CANCELLED")
    BY <2>1, Ranks DEF Upto
  <2> QED
    BY <1>0, <2>1, <2>2 DEF Moved, Statuses, Payments, Over, Events
<1>4. CASE ExpirePayment(o)
  <2>1. /\ payment[o] = "PENDING" /\ status' = [status EXCEPT ![o] = "CANCELLED"]
        /\ payment' = [payment EXCEPT ![o] = "CANCELLED"]
        /\ due' = due \cup {<<o, "PAYMENT_EXPIRED">>, <<o, "ORDER_CANCELLED">>}
    BY <1>4 DEF ExpirePayment
  <2>2. Upto(status[o], "CANCELLED")
    BY <1>0, <2>1, Ranks DEF Upto
  <2> QED
    BY <1>0, <2>1, <2>2 DEF Moved, Statuses, Payments, Over, Events
<1>5. CASE CompletePayment(o)
  <2>1. /\ payment[o] = "PENDING" /\ status' = status
        /\ payment' = [payment EXCEPT ![o] = "COMPLETED"]
        /\ due' = due \cup {<<o, "PAYMENT_COMPLETED">>}
    BY <1>5 DEF CompletePayment
  <2>2. Upto(status[o], status[o])
    BY DEF Upto
  <2> QED
    BY <1>0, <2>1, <2>2 DEF Moved, Statuses, Payments, Over, Events
<1> QED
  BY <1>1, <1>2, <1>3, <1>4, <1>5

\* The request as it comes back, and what the server did of it.
LEMMA Replies ==
  ASSUME Base, NEW c \in calls, Serve(c) \/ Lose(c)
  PROVE  /\ c.got = "sent"
         /\ UNCHANGED <<status, payment, due>>
              \/ (c.op \in {"cancel", "pay"} /\ c.of \in Orders /\ Moved(c.of))
         /\ \E x \in CallRecord :
              /\ calls' = (calls \ {c}) \cup {x}
              /\ x.op = c.op /\ x.of = c.of
              /\ x.got = "error" => x.seen = c.seen
                   /\ (c.op \in {"cancel", "pay"} \/ lapses' = lapses + 1)
              /\ x.got = "ok" => x.seen = Seen(c)
                   /\ (c.op = "cancel" => status'[c.of] = "CANCELLED")
              /\ x.got # "sent"
<1>0. c \in CallRecord /\ (c.op \in About => c.of \in Orders)
      /\ status \in [Orders -> Statuses]
  BY DEF Base, Types
<1>1. c.got = "sent"
  BY DEF Serve, Lose
<1>2. ASSUME Commit(c)
      PROVE  /\ UNCHANGED <<status, payment, due>>
                  \/ (c.op \in {"cancel", "pay"} /\ c.of \in Orders /\ Moved(c.of))
             /\ c.op = "cancel" => status'[c.of] = "CANCELLED"
  <2>1. CASE c.op = "cancel"
    <3>1. /\ c.of \in Orders
          /\ Cancel(c.of) \/ (status[c.of] = "CANCELLED" /\ UNCHANGED <<status, payment, due>>)
      BY <1>0, <1>2, <2>1 DEF Commit, About, serverVars
    <3>2. Cancel(c.of) => Moved(c.of)
      BY <3>1, ServerMoves
    <3>3. status'[c.of] = "CANCELLED"
      BY <1>0, <3>1 DEF Cancel
    <3> QED
      BY <2>1, <3>1, <3>2, <3>3
  <2>2. CASE c.op = "pay"
    <3>1. c.of \in Orders /\ CompletePayment(c.of)
      BY <1>0, <1>2, <2>2 DEF Commit, About
    <3> QED
      BY <2>2, <3>1, ServerMoves
  <2>3. CASE c.op \notin {"cancel", "pay"}
    BY <1>2, <2>3 DEF Commit, serverVars
  <2> QED
    BY <2>1, <2>2, <2>3
<1>3. Seen(c) \in [Orders -> Statuses]
  <2>1. CASE c.op = "tracking"
    <3>1. PICK s : s = status[c.of]
      OBVIOUS
    <3>2. s \in Statuses
      BY <1>0, <2>1, <3>1 DEF About
    <3>3. Seen(c) = [Blank EXCEPT ![c.of] = s]
      BY <2>1, <3>1 DEF Seen
    <3> QED
      BY <3>2, <3>3, BlankIs
  <2>2. CASE c.op # "tracking"
    BY <1>0, <2>2, BlankIs DEF Seen
  <2> QED
    BY <2>1, <2>2
<1>4. ASSUME NEW got \in {"ok", "error"}, Reply(c, got)
      PROVE  \E x \in CallRecord :
               /\ calls' = (calls \ {c}) \cup {x}
               /\ x.op = c.op /\ x.of = c.of /\ x.got = got
               /\ got = "error" => x.seen = c.seen
               /\ got = "ok" => x.seen = Seen(c)
  <2>1. PICK s : s = IF got = "ok" THEN Seen(c) ELSE c.seen
    OBVIOUS
  <2>2. s \in [Orders -> Statuses]
    BY <1>0, <1>3, <2>1 DEF CallRecord
  <2>3. PICK x : x = [c EXCEPT !.got = got, !.seen = s]
    OBVIOUS
  <2>4. x \in CallRecord /\ x.op = c.op /\ x.of = c.of /\ x.got = got /\ x.seen = s
    BY <1>0, <2>2, <2>3 DEF CallRecord
  <2>5. calls' = (calls \ {c}) \cup {x}
    <3>1. PICK y : y = [c EXCEPT !.got = got, !.seen = IF got = "ok" THEN Seen(c) ELSE @]
      OBVIOUS
    <3>2. y = x
      BY <1>0, <2>1, <2>3, <3>1 DEF CallRecord
    <3>3. calls' = (calls \ {c}) \cup {y}
      BY <1>4, <3>1 DEF Reply
    <3> QED
      BY <3>2, <3>3
  <2> QED
    BY <2>1, <2>4, <2>5
<1>5. CASE Serve(c) /\ Commit(c) /\ Reply(c, "ok")
  BY <1>1, <1>2, <1>4, <1>5
<1>6. CASE Serve(c) /\ MayRefuse(c) /\ Reply(c, "error") /\ UNCHANGED serverVars
  <2>1. c.op \in {"cancel", "pay"}
    BY <1>6 DEF MayRefuse
  <2>2. UNCHANGED <<status, payment, due>>
    BY <1>6 DEF serverVars
  <2> QED
    BY <1>1, <1>4, <1>6, <2>1, <2>2
<1>7. CASE Lose(c)
  <2>1. lapses' = lapses + 1 /\ Reply(c, "error") /\ (Commit(c) \/ UNCHANGED serverVars)
    BY <1>7 DEF Lose, Lapse
  <2>2. UNCHANGED <<status, payment, due>>
          \/ (c.op \in {"cancel", "pay"} /\ c.of \in Orders /\ Moved(c.of))
    BY <1>2, <2>1 DEF serverVars
  <2> QED
    BY <1>1, <1>4, <2>1, <2>2
<1> QED
  BY <1>5, <1>6, <1>7 DEF Serve

\* A request that was served: what it was about, it still is.
Served(x) ==
  /\ x \in CallRecord /\ (x.op \in About => x.of \in Orders)
  /\ \A o \in Orders : Upto(x.seen[o], status[o])
  /\ x.op = "cancel" /\ x.got = "ok" => status'[x.of] = "CANCELLED"
  /\ x.op \in {"tracking", "pay"} => Exists(x.of)

LEMMA Serving ==
  ASSUME Base, NEW c \in calls, Serve(c) \/ Lose(c)
  PROVE  \A d \in calls' : d \in calls \/ Served(d)
<1>0. /\ status \in [Orders -> Statuses]
      /\ \A o \in Orders : Upto(c.seen[o], status[o])
      /\ c.op \in {"tracking", "pay"} => Exists(c.of)
      /\ c.op \in About => c.of \in Orders
  BY DEF Base, Types, SeenIsPast, AllExist
<1>1. PICK x \in CallRecord :
        /\ calls' = (calls \ {c}) \cup {x}
        /\ x.op = c.op /\ x.of = c.of
        /\ x.got = "error" => x.seen = c.seen
        /\ x.got = "ok" => x.seen = Seen(c)
             /\ (c.op = "cancel" => status'[c.of] = "CANCELLED")
        /\ x.got # "sent"
  BY Replies
<1>2. \A o \in Orders : Upto(Seen(c)[o], status[o])
  <2>1. \A o \in Orders : Upto("NONE", status[o]) /\ Upto(status[o], status[o])
    BY <1>0, UptoFacts
  <2>2. CASE c.op = "tracking"
    <3>1. PICK s : s = status[c.of]
      OBVIOUS
    <3>2. Seen(c) = [Blank EXCEPT ![c.of] = s]
      BY <2>2, <3>1 DEF Seen
    <3>3. \A o \in Orders : Seen(c)[o] = IF o = c.of THEN s ELSE "NONE"
      BY <3>2, BlankIs
    <3> QED
      BY <2>1, <3>1, <3>3
  <2>3. CASE c.op # "tracking"
    <3>1. Seen(c) = status \/ Seen(c) = Blank
      BY <2>3 DEF Seen
    <3> QED
      BY <2>1, <3>1, BlankIs
  <2> QED
    BY <2>2, <2>3
<1>3. \A o \in Orders : Upto(x.seen[o], status[o])
  <2>1. x.got \in {"sent", "ok", "error"}
    BY DEF CallRecord
  <2> QED
    BY <1>0, <1>1, <1>2, <2>1
<1>4. Served(x)
  BY <1>0, <1>1, <1>3 DEF Served
<1> QED
  BY <1>1, <1>4

LEMMA MovedBase ==
  ASSUME Base, \/ UNCHANGED <<status, payment, due>>
               \/ \E o \in Orders : Moved(o),
         UNCHANGED <<isOnline, screenVars, crossed, presses>>, lapses' \in Nat,
         \A d \in calls' : d \in calls \/ Served(d)
  PROVE  Base'
<1>0. Types /\ SeenIsPast /\ RowsAgree /\ AllExist
  BY DEF Base
<1>1. /\ status' \in [Orders -> Statuses] /\ payment' \in [Orders -> Payments]
      /\ due' \subseteq Orders \X Events
      /\ \A o \in Orders : Upto(status[o], status'[o])
  <2>1. \A o \in Orders : Upto(status[o], status[o])
    BY DEF Upto
  <2>2. ASSUME NEW o \in Orders, Moved(o)
        PROVE  /\ status' \in [Orders -> Statuses] /\ payment' \in [Orders -> Payments]
               /\ due' \subseteq Orders \X Events
               /\ \A p \in Orders : Upto(status[p], status'[p])
    <3>1. {o} \X Events \subseteq Orders \X Events
      OBVIOUS
    <3> QED
      BY <1>0, <2>1, <2>2, <3>1 DEF Moved, Types
  <2> QED
    BY <1>0, <2>1, <2>2 DEF Types
<1>2. \A o \in Orders : status[o] # "NONE" => status'[o] # "NONE"
  BY <1>0, <1>1, UptoFacts DEF Types
<1>3. Types'
  <2>1. calls' \subseteq CallRecord /\ \A d \in calls' : d.op \in About => d.of \in Orders
    BY <1>0 DEF Types, Served
  <2>2. /\ {isOnline', crossed'} \subseteq BOOLEAN /\ {presses', lapses'} \subseteq Nat
        /\ {activeOrderId', pendingPayment', cancelTargetOrder'} \subseteq Orders \cup {None}
        /\ tracking' \in Trackings \cup {None} /\ ordersHistory' \in [Orders -> Statuses]
    BY <1>0 DEF Types, screenVars
  <2> QED
    BY <1>1, <2>1, <2>2 DEF Types
<1>4. SeenIsPast'
  <2>1. \A d \in calls', o \in Orders : Upto(d.seen[o], status[o]) /\ d.seen[o] \in Statuses
    <3>1. \A d \in calls', o \in Orders : Upto(d.seen[o], status[o])
      BY <1>0 DEF SeenIsPast, Served
    <3>2. \A d \in calls' : d.seen \in [Orders -> Statuses]
      BY <1>3 DEF Types, CallRecord
    <3> QED
      BY <3>1, <3>2
  <2>2. \A o \in Orders : Upto(ordersHistory[o], status[o]) /\ ordersHistory[o] \in Statuses
    BY <1>0 DEF SeenIsPast, Types
  <2>3. \A o \in Orders : status[o] \in Statuses /\ status'[o] \in Statuses
    BY <1>0, <1>1 DEF Types
  <2>4. \A d \in calls', o \in Orders : Upto(d.seen[o], status'[o])
    BY <1>1, <2>1, <2>3, UptoFacts
  <2>5. \A o \in Orders : Upto(ordersHistory[o], status'[o])
    BY <1>1, <2>2, <2>3, UptoFacts
  <2> QED
    BY <2>4, <2>5 DEF SeenIsPast, Upto, screenVars
<1>5. RowsAgree'
  <2>1. ASSUME NEW o \in Orders
        PROVE  /\ payment'[o] = "PENDING" => status'[o] = "PENDING"
               /\ <<o, "ORDER_DELIVERED">> \in due' => status'[o] = "DELIVERED"
               /\ <<o, "ORDER_CANCELLED">> \in due' => status'[o] = "CANCELLED"
    <3>1. CASE UNCHANGED <<status, payment, due>>
      BY <1>0, <3>1 DEF RowsAgree
    <3>2. ASSUME NEW p \in Orders, Moved(p)
          PROVE  /\ payment'[o] = "PENDING" => status'[o] = "PENDING"
                 /\ <<o, "ORDER_DELIVERED">> \in due' => status'[o] = "DELIVERED"
                 /\ <<o, "ORDER_CANCELLED">> \in due' => status'[o] = "CANCELLED"
      <4>1. CASE p = o
        BY <3>2, <4>1 DEF Moved
      <4>2. CASE p # o
        BY <1>0, <3>2, <4>2 DEF Moved, RowsAgree
      <4> QED
        BY <4>1, <4>2
    <3> QED
      BY <3>1, <3>2
  <2>2. ASSUME NEW d \in calls', d.op = "cancel", d.got = "ok"
        PROVE  status'[d.of] = "CANCELLED"
    <3>1. CASE d \in calls
      <4>1. d.of \in Orders /\ status[d.of] = "CANCELLED"
        BY <1>0, <2>2, <3>1 DEF Types, About, RowsAgree
      <4>2. Upto("CANCELLED", status'[d.of]) /\ status'[d.of] \in Statuses
        BY <1>1, <4>1
      <4> QED
        BY <4>2, UptoFacts DEF Statuses, Over
    <3>2. CASE Served(d)
      BY <2>2, <3>2 DEF Served
    <3> QED
      BY <3>1, <3>2
  <2> QED
    BY <2>1, <2>2 DEF RowsAgree
<1>6. AllExist'
  <2>1. \A o \in Orders \cup {None} : Exists(o) => Exists(o)'
    BY <1>2 DEF Exists
  <2>2. UNCHANGED <<activeOrderId, pendingPayment, tracking>>
    BY DEF screenVars
  <2>3. Exists(activeOrderId)' /\ Exists(pendingPayment)'
    BY <1>0, <2>1, <2>2 DEF AllExist, Types
  <2>4. (tracking # None => Exists(tracking.of) /\ Exists(tracking.rest))'
    BY <1>0, <2>1, <2>2 DEF AllExist, Types, Trackings
  <2>5. \A d \in calls' : d.op \in {"tracking", "pay"} => Exists(d.of)'
    BY <1>0, <2>1 DEF AllExist, Types, Served, About
  <2> QED
    BY <2>3, <2>4, <2>5 DEF AllExist
<1> QED
  BY <1>3, <1>4, <1>5, <1>6 DEF Base

LEMMA PlacedBase ==
  ASSUME Base, NEW o \in Orders, OrderPlaced(o)
  PROVE  Base'
<1>0. Types /\ SeenIsPast /\ RowsAgree /\ AllExist
  BY DEF Base
<1>1. /\ status[o] = "NONE" /\ status' = [status EXCEPT ![o] = "PENDING"]
      /\ activeOrderId' = o /\ pendingPayment' \in {o, pendingPayment}
      /\ \E s \in {"PENDING", "COMPLETED"} : payment' = [payment EXCEPT ![o] = s]
      /\ calls' \subseteq calls \cup {Call("tracking", o)}
      /\ UNCHANGED <<isOnline, tracking, ordersHistory, cancelTargetOrder, due, lapses, crossed>>
      /\ presses' = presses + 1
  BY DEF OrderPlaced, CountPress, LoadTracking
<1>2. /\ status \in [Orders -> Statuses] /\ status' \in [Orders -> Statuses]
      /\ \A p \in Orders : p # o => status'[p] = status[p]
      /\ status'[o] = "PENDING"
  BY <1>0, <1>1 DEF Types, Statuses
<1>3. \A p \in Orders : Upto(status[p], status'[p])
  BY <1>1, <1>2, UptoFacts
<1>4. PICK x : x = Call("tracking", o)
  OBVIOUS
<1>5. /\ x \in CallRecord /\ x.op = "tracking" /\ x.of = o /\ x.got = "sent" /\ x.seen = Blank
      /\ calls' \subseteq calls \cup {x}
  BY <1>1, <1>4, BlankIs DEF Call, CallRecord
<1>6. Types'
  <2>1. payment' \in [Orders -> Payments]
    BY <1>0, <1>1 DEF Types, Payments
  <2>2. calls' \subseteq CallRecord /\ \A d \in calls' : d.op \in About => d.of \in Orders
    BY <1>0, <1>5 DEF Types
  <2>3. /\ {isOnline', crossed'} \subseteq BOOLEAN /\ {presses', lapses'} \subseteq Nat
        /\ {activeOrderId', pendingPayment', cancelTargetOrder'} \subseteq Orders \cup {None}
        /\ tracking' \in Trackings \cup {None} /\ ordersHistory' \in [Orders -> Statuses]
        /\ due' \subseteq Orders \X Events
    BY <1>0, <1>1 DEF Types
  <2> QED
    BY <1>2, <2>1, <2>2, <2>3 DEF Types
<1>7. SeenIsPast'
  <2>1. \A d \in calls', p \in Orders : Upto(d.seen[p], status[p]) /\ d.seen[p] \in Statuses
    <3>1. \A p \in Orders : Upto(Blank[p], status[p]) /\ Blank[p] \in Statuses
      BY <1>2, BlankIs, UptoFacts
    <3>2. \A d \in calls, p \in Orders : Upto(d.seen[p], status[p]) /\ d.seen[p] \in Statuses
      BY <1>0 DEF SeenIsPast, Types, CallRecord
    <3> QED
      BY <1>5, <3>1, <3>2
  <2>2. \A p \in Orders : Upto(ordersHistory[p], status[p]) /\ ordersHistory[p] \in Statuses
    BY <1>0 DEF SeenIsPast, Types
  <2>3. \A d \in calls', p \in Orders : Upto(d.seen[p], status'[p])
    BY <1>2, <1>3, <2>1, UptoFacts
  <2>4. \A p \in Orders : Upto(ordersHistory[p], status'[p])
    BY <1>2, <1>3, <2>2, UptoFacts
  <2> QED
    BY <1>1, <2>3, <2>4 DEF SeenIsPast, Upto
<1>8. RowsAgree'
  <2>1. \A p \in Orders : payment'[p] = "PENDING" => status'[p] = "PENDING"
    BY <1>0, <1>1, <1>2 DEF RowsAgree, Types
  <2>2. \A p \in Orders : /\ <<p, "ORDER_DELIVERED">> \in due => status'[p] = "DELIVERED"
                          /\ <<p, "ORDER_CANCELLED">> \in due => status'[p] = "CANCELLED"
    BY <1>0, <1>1, <1>2 DEF RowsAgree
  <2>3. \A d \in calls' : d.op = "cancel" /\ d.got = "ok" => status'[d.of] = "CANCELLED"
    <3>1. \A d \in calls : d.op = "cancel" => d.of \in Orders
      BY <1>0 DEF Types, About
    <3> QED
      BY <1>0, <1>1, <1>2, <1>5, <3>1 DEF RowsAgree
  <2> QED
    BY <1>1, <2>1, <2>2, <2>3 DEF RowsAgree
<1>9. AllExist'
  <2>1. \A p \in Orders \cup {None} : Exists(p) \/ p = o => Exists(p)'
    BY <1>2 DEF Exists
  <2>2. Exists(activeOrderId)' /\ Exists(pendingPayment)'
    BY <1>0, <1>1, <2>1 DEF AllExist, Types, Exists
  <2>3. (tracking # None => Exists(tracking.of) /\ Exists(tracking.rest))'
    BY <1>0, <1>1, <2>1 DEF AllExist, Types, Trackings
  <2>4. \A d \in calls' : d.op \in {"tracking", "pay"} => Exists(d.of)'
    BY <1>0, <1>5, <2>1 DEF AllExist, Types, About
  <2> QED
    BY <2>2, <2>3, <2>4 DEF AllExist
<1> QED
  BY <1>6, <1>7, <1>8, <1>9 DEF Base

LEMMA BaseInit == Init => Base
<1> SUFFICES ASSUME Init PROVE Base
  OBVIOUS
<1>1. PICK paid \in SUBSET Old :
        /\ status = [o \in Orders |-> IF o \in paid THEN "CONFIRMED"
                                      ELSE IF o \in Old THEN "PENDING" ELSE "NONE"]
        /\ payment = [o \in Orders |-> IF o \in paid THEN "COMPLETED"
                                       ELSE IF o \in Old THEN "PENDING" ELSE "NONE"]
  BY DEF Init
<1>2. /\ isOnline = TRUE /\ activeOrderId = None /\ tracking = None /\ pendingPayment = None
      /\ cancelTargetOrder = None /\ ordersHistory = Blank
      /\ due = {} /\ presses = 0 /\ lapses = 0 /\ crossed = FALSE
  BY DEF Init
<1>3. PICK x : x = Call("bootstrap", None) /\ calls = {x}
  BY DEF Init
<1>4. x \in CallRecord /\ x.op = "bootstrap" /\ x.got = "sent" /\ x.seen = Blank
  BY <1>3, BlankIs DEF Call, CallRecord
<1>5. status \in [Orders -> Statuses] /\ payment \in [Orders -> Payments]
  BY <1>1 DEF Statuses, Payments
<1>6. Types
  <2>1. calls \subseteq CallRecord /\ \A d \in calls : d.op \in About => d.of \in Orders
    BY <1>3, <1>4 DEF About
  <2>2. tracking \in Trackings \cup {None} /\ ordersHistory \in [Orders -> Statuses]
    BY <1>2, BlankIs
  <2>3. {isOnline, crossed} \subseteq BOOLEAN
    <3>1. isOnline \in BOOLEAN /\ crossed \in BOOLEAN
      BY <1>2
    <3> QED
      BY <3>1, Zenon
  <2>4. {presses, lapses} \subseteq Nat
    BY <1>2
  <2>5. {activeOrderId, pendingPayment, cancelTargetOrder} \subseteq Orders \cup {None}
    BY <1>2
  <2>6. due \subseteq Orders \X Events
    BY <1>2
  <2> QED
    BY <1>5, <2>1, <2>2, <2>3, <2>4, <2>5, <2>6 DEF Types
<1>7. SeenIsPast
  BY <1>2, <1>3, <1>4, <1>5, BlankIs, UptoFacts DEF SeenIsPast
<1>8. RowsAgree
  <2>1. \A o \in Orders : payment[o] = "PENDING" => status[o] = "PENDING"
    BY <1>1
  <2> QED
    BY <1>2, <1>3, <1>4, <2>1 DEF RowsAgree
<1>9. AllExist
  BY <1>2, <1>3, <1>4 DEF AllExist, Exists
<1> QED
  BY <1>6, <1>7, <1>8, <1>9 DEF Base

LEMMA BaseStep == Base /\ [Next]_vars => Base'
<1> SUFFICES ASSUME Base, [Next]_vars PROVE Base'
  OBVIOUS
<1>0. lapses \in Nat
  BY DEF Base, Types
<1>1. CASE Customer
  BY <1>1, CustomerBase, PlacedBase DEF Customer
<1>2. CASE Arrivals
  BY <1>2, ArrivalsBase
<1>3. ASSUME NEW o \in Orders, ServerStep(o) PROVE Base'
  <2>1. UNCHANGED <<isOnline, screenVars, calls, crossed, presses, lapses>>
    BY <1>3 DEF ServerStep
  <2>2. Moved(o)
    BY <1>3, ServerMoves DEF ServerStep
  <2> QED
    BY <1>0, <2>1, <2>2, MovedBase
<1>4. ASSUME NEW c \in calls, Serve(c) \/ Lose(c) PROVE Base'
  <2>1. UNCHANGED <<isOnline, screenVars, crossed, presses>> /\ lapses' \in Nat
    BY <1>0, <1>4 DEF Serve, Lose, Lapse
  <2>2. \A d \in calls' : d \in calls \/ Served(d)
    BY <1>4, Serving
  <2>3. UNCHANGED <<status, payment, due>> \/ \E o \in Orders : Moved(o)
    BY <1>4, Replies
  <2> QED
    BY <2>1, <2>2, <2>3, MovedBase
<1>5. ASSUME NEW c \in calls, Answers(c) PROVE Base'
  BY <1>5, AnswersBase
<1>6. CASE UNCHANGED vars
  BY <1>6 DEF vars, screenVars, serverVars, Base, Types, SeenIsPast, RowsAgree, AllExist,
     Exists, Upto
<1> QED
  BY <1>1, <1>2, <1>3, <1>4, <1>5, <1>6 DEF Next

\* Every reachable state is well typed; a request is about an order where its kind is.
THEOREM TypeCorrect == Spec => []Types
<1>1. Base => Types
  BY DEF Base
<1> QED
  BY <1>1, BaseInit, BaseStep, PTL DEF Spec

-----------------------------------------------------------------------------
(* While the application starts                                            *)

\* Which orders a step may ask the tracking of.
Followed(o) ==
  \/ o \in {activeOrderId, pendingPayment} \/ (tracking # None /\ o = tracking.of)
  \/ ordersHistory[o] = "CONFIRMED"
  \/ \E c \in calls : c.op = "pay" /\ c.of = o
  \/ lapses' = lapses + 1

\* A request that this step makes.
Made(d) ==
  /\ d.got = "sent"
  /\ \/ d.op \in {"history", "cancel"}
     \/ d.op = "pay" /\ pendingPayment # None
     \/ d.op = "tracking" /\ Followed(d.of)

LEMMA CallIs ==
  \A op, o : Call(op, o).op = op /\ Call(op, o).of = o /\ Call(op, o).got = "sent"
BY DEF Call

LEMMA MadeLoads ==
  ASSUME NEW o, Followed(o)
  PROVE  \A d \in LoadTracking(o) : Made(d)
BY CallIs DEF LoadTracking, Made

LEMMA CustomerMakes ==
  ASSUME \/ \E o \in Orders : Track(o) \/ RequestCancelOrder(o)
         \/ HandlePayPendingPayment \/ ClosePayment
         \/ LoadOrdersHistory \/ RefreshTracking \/ ConfirmCancelOrder \/ KeepOrder
  PROVE  \A d \in calls' : d \in calls \/ Made(d)
<1>1. ASSUME NEW o \in Orders, Track(o) PROVE \A d \in calls' : d \in calls \/ Made(d)
  <2>1. Followed(o)
    BY <1>1 DEF Track, TRACKABLE_STATUSES, Followed
  <2> QED
    BY <1>1, <2>1, MadeLoads DEF Track
<1>2. CASE \/ \E o \in Orders : RequestCancelOrder(o)
           \/ ClosePayment \/ KeepOrder
  BY <1>2 DEF RequestCancelOrder, ClosePayment, KeepOrder
<1>3. CASE HandlePayPendingPayment
  <2>1. pendingPayment # None /\ calls' = calls \cup {Call("pay", pendingPayment)}
    BY <1>3 DEF HandlePayPendingPayment, Press
  <2> QED
    BY <2>1, CallIs DEF Made
<1>4. CASE LoadOrdersHistory
  <2>1. calls' = calls \cup {Call("history", None)}
    BY <1>4 DEF LoadOrdersHistory, Press
  <2> QED
    BY <2>1, CallIs DEF Made
<1>5. CASE RefreshTracking
  <2>1. PICK o \in Orders :
          /\ o = IF activeOrderId # None THEN activeOrderId
                 ELSE IF tracking # None THEN tracking.of ELSE None
          /\ calls' = calls \cup {Call("tracking", o)}
    BY <1>5 DEF RefreshTracking, Press
  <2>2. Followed(o)
    BY <2>1, CustomerOrdersAssumption DEF Followed
  <2> QED
    BY <2>1, <2>2, CallIs DEF Made
<1>6. CASE ConfirmCancelOrder
  <2>1. PICK was, x : /\ x = [Call("cancel", cancelTargetOrder) EXCEPT !.wasActive = was]
                      /\ was = (activeOrderId = cancelTargetOrder)
    OBVIOUS
  <2>2. calls' = calls \cup {x}
    BY <1>6, <2>1 DEF ConfirmCancelOrder, Press
  <2>3. x.op = "cancel" /\ x.got = "sent"
    BY <2>1 DEF Call
  <2> QED
    BY <2>2, <2>3 DEF Made
<1> QED
  BY <1>1, <1>2, <1>3, <1>4, <1>5, <1>6

LEMMA ArrivalsMake ==
  Arrivals => \A d \in calls' : d \in calls \/ Made(d)
<1> SUFFICES ASSUME Arrivals PROVE \A d \in calls' : d \in calls \/ Made(d)
  OBVIOUS
<1>1. ASSUME NEW o \in Orders, NEW e \in Events, CustomerEvent(o, e)
      PROVE  \A d \in calls' : d \in calls \/ Made(d)
  <2>1. calls' = calls \/ (Followed(o) /\ calls' = calls \cup LoadTracking(o))
    BY <1>1 DEF CustomerEvent, LoadsAfter, Followed
  <2> QED
    BY <2>1, MadeLoads
<1>2. ASSUME NEW o \in Orders, NEW e \in Events, TrackingEvent(o, e)
      PROVE  \A d \in calls' : d \in calls \/ Made(d)
  <2>1. Followed(o) /\ calls' = calls \cup LoadTracking(o)
    BY <1>2 DEF TrackingEvent, Followed
  <2> QED
    BY <2>1, MadeLoads
<1>3. ASSUME NEW o \in Orders, FollowDeepLink(o)
      PROVE  \A d \in calls' : d \in calls \/ Made(d)
  <2>1. Followed(o) /\ calls' = calls \cup LoadTracking(o)
    BY <1>3 DEF FollowDeepLink, Followed, Lapse
  <2> QED
    BY <2>1, MadeLoads
<1>4. CASE \/ \E o \in Orders, e \in Events : MissEvent(o, e)
           \/ PositionUpdated \/ NetworkChanges
  BY <1>4 DEF MissEvent, PositionUpdated, NetworkChanges
<1> QED
  BY <1>1, <1>2, <1>3, <1>4 DEF Arrivals

LEMMA AnswersMake ==
  ASSUME NEW c \in calls, Answers(c)
  PROVE  \A d \in calls' : (d \in calls /\ d # c) \/ Made(d)
<1>1. CASE PaymentAnswered(c)
  <2>1. Followed(c.of) /\ calls' \subseteq (calls \ {c}) \cup LoadTracking(c.of)
    BY <1>1 DEF PaymentAnswered, Answered, Followed
  <2> QED
    BY <2>1, MadeLoads
<1>2. CASE TrackingLoaded(c) \/ Bootstrapped(c) \/ HistoryLoaded(c) \/ OrderCancelled(c)
  BY <1>2 DEF TrackingLoaded, Bootstrapped, HistoryLoaded, OrderCancelled
<1> QED
  BY <1>1, <1>2 DEF Answers

\* Until the newest order is known, nothing can be ordered or paid: what is followed was
\* under way already.
Booting ==
  /\ pendingPayment = None
  /\ activeOrderId # None => Started(status[activeOrderId])
  /\ tracking # None => Started(status[tracking.of])
  /\ \A c \in calls : c.op # "pay"
  /\ \A c \in calls : c.op = "tracking" =>
       Started(status[c.of]) /\ (c.got = "ok" => Started(c.seen[c.of]))

BootInv ==
  /\ \A c, d \in calls : c.op = "bootstrap" /\ d.op = "bootstrap" => c = d
  /\ lapses = 0 /\ (\E c \in calls : c.op = "bootstrap") => Booting

\* the requests of a step in which the server has no part
LEMMA BootingMade ==
  ASSUME Base, Booting, lapses' = lapses, NEW d, d \in calls \/ Made(d)
  PROVE  /\ d.op # "pay"
         /\ d.op = "tracking" =>
              d \in calls \/ (d.of \in Orders => Started(status[d.of]) /\ d.got = "sent")
<1>0. lapses \in Nat /\ ordersHistory \in [Orders -> Statuses]
      /\ status \in [Orders -> Statuses]
      /\ \A o \in Orders : Upto(ordersHistory[o], status[o])
  BY DEF Base, Types, SeenIsPast
<1>1. ASSUME NEW o \in Orders, Followed(o) PROVE Started(status[o])
  <2>1. ordersHistory[o] = "CONFIRMED" => Started(status[o])
    BY <1>0, UptoFacts DEF Statuses, Started
  <2> QED
    BY <1>0, <1>1, <2>1, CustomerOrdersAssumption DEF Followed, Booting
<1> QED
  BY <1>1 DEF Made, Booting

\* One start at a time: new requests are of other kinds.
LEMMA OneStart ==
  ASSUME BootInv,
         \/ \A d \in calls' : d \in calls \/ Made(d)
         \/ \E c \in calls : \E x : calls' = (calls \ {c}) \cup {x} /\ x.op = c.op
  PROVE  /\ \A c, d \in calls' : c.op = "bootstrap" /\ d.op = "bootstrap" => c = d
         /\ (\E c \in calls' : c.op = "bootstrap") => \E c \in calls : c.op = "bootstrap"
BY DEF BootInv, Made

LEMMA BootingScreens ==
  ASSUME Base, Base', Booting, UNCHANGED <<status, payment>>, lapses' = lapses,
         pendingPayment' \in {pendingPayment, None},
         activeOrderId' \in {activeOrderId, None}
           \/ (activeOrderId' \in Orders /\ ordersHistory[activeOrderId'] = "CONFIRMED"),
         tracking' # None => \/ tracking # None /\ tracking'.of = tracking.of
                             \/ tracking'.of = activeOrderId /\ activeOrderId # None
                             \/ \E c \in calls : c.op = "tracking" /\ tracking'.of = c.of,
         \A d \in calls' : d \in calls \/ Made(d)
  PROVE  Booting'
<1>0. /\ ordersHistory \in [Orders -> Statuses] /\ status \in [Orders -> Statuses]
      /\ \A o \in Orders : Upto(ordersHistory[o], status[o])
      /\ \A d \in calls' : d.op = "tracking" => d.of \in Orders
  BY DEF Base, Types, SeenIsPast, About
<1>1. activeOrderId' # None => Started(status[activeOrderId'])
  <2>1. \A o \in Orders : ordersHistory[o] = "CONFIRMED" => Started(status[o])
    BY <1>0, UptoFacts DEF Statuses, Started
  <2> QED
    BY <2>1 DEF Booting
<1>2. tracking' # None => Started(status[tracking'.of])
  BY DEF Booting
<1>3. /\ \A d \in calls' : d.op # "pay"
      /\ \A d \in calls' : d.op = "tracking" =>
           Started(status[d.of]) /\ (d.got = "ok" => Started(d.seen[d.of]))
  BY <1>0, BootingMade DEF Booting
<1> QED
  BY <1>1, <1>2, <1>3 DEF Booting, Started

LEMMA BootStep == Base /\ Base' /\ BootInv /\ [Next]_vars => BootInv'
<1> SUFFICES ASSUME Base, Base', BootInv, [Next]_vars PROVE BootInv'
  OBVIOUS
<1>0. lapses \in Nat /\ status \in [Orders -> Statuses] /\ status' \in [Orders -> Statuses]
  BY DEF Base, Types
<1>1. CASE \/ \E o \in Orders : Track(o) \/ RequestCancelOrder(o)
           \/ HandlePayPendingPayment \/ ClosePayment
           \/ LoadOrdersHistory \/ RefreshTracking \/ ConfirmCancelOrder \/ KeepOrder
  <2>1. /\ UNCHANGED <<tracking, ordersHistory, status, payment, lapses>>
        /\ activeOrderId' = activeOrderId
             \/ (activeOrderId' \in Orders /\ ordersHistory[activeOrderId'] = "CONFIRMED")
        /\ pendingPayment' \in {pendingPayment, None}
    BY <1>1 DEF Track, RequestCancelOrder, HandlePayPendingPayment, ClosePayment,
       LoadOrdersHistory, RefreshTracking, ConfirmCancelOrder, KeepOrder,
       serverVars, screenVars, TRACKABLE_STATUSES
  <2>2. \A d \in calls' : d \in calls \/ Made(d)
    BY <1>1, CustomerMakes
  <2>3. Booting => Booting'
    BY <2>1, <2>2, BootingScreens
  <2> QED
    BY <2>1, <2>2, <2>3, OneStart DEF BootInv
<1>2. ASSUME NEW o \in Orders, OrderPlaced(o) PROVE BootInv'
  <2>1. calls' = calls \/ calls' = calls \cup {Call("tracking", o)}
    BY <1>2 DEF OrderPlaced, LoadTracking
  <2>2. \A c \in calls' : c.op # "bootstrap"
    BY <1>2, <2>1, CallIs DEF OrderPlaced
  <2> QED
    BY <2>2 DEF BootInv
<1>3. CASE Arrivals
  <2>1. \A d \in calls' : d \in calls \/ Made(d)
    BY <1>3, ArrivalsMake
  <2>2. ASSUME lapses' = 0, Booting PROVE Booting' /\ lapses = 0
    <3>1. /\ UNCHANGED <<status, payment>> /\ lapses' = lapses
          /\ activeOrderId' \in {activeOrderId, None}
      <4>1. lapses' # lapses + 1
        BY <1>0, <2>2
      <4> QED
        BY <1>3, <4>1 DEF Arrivals, CustomerEvent, TrackingEvent, MissEvent,
           FollowDeepLink, PositionUpdated, NetworkChanges, Lapse, serverVars, screenVars,
           ActiveAfter
    <3>2. pendingPayment' \in {pendingPayment, None}
      BY <1>3 DEF Arrivals, CustomerEvent, TrackingEvent, MissEvent, FollowDeepLink,
         PositionUpdated, NetworkChanges, screenVars, PaymentAfter
    <3>3. tracking' # None => \/ tracking # None /\ tracking'.of = tracking.of
                              \/ tracking'.of = activeOrderId /\ activeOrderId # None
      <4>1. CASE PositionUpdated
        <5>1. PICK a, x : /\ a = activeOrderId
                          /\ x = IF tracking = None
                                 THEN [of |-> a, rest |-> None, status |-> "NONE"]
                                 ELSE [tracking EXCEPT !.of = a]
          OBVIOUS
        <5>2. tracking \in Trackings \cup {None}
          BY DEF Base, Types
        <5>3. x.of = a
          BY <5>1, <5>2 DEF Trackings
        <5> QED
          BY <4>1, <5>1, <5>3 DEF PositionUpdated
      <4>2. CASE ~PositionUpdated
        BY <1>3, <4>2 DEF Arrivals, CustomerEvent, TrackingEvent, MissEvent, FollowDeepLink,
           NetworkChanges, screenVars
      <4> QED
        BY <4>1, <4>2
    <3>4. Booting'
      BY <2>1, <2>2, <3>1, <3>2, <3>3, BootingScreens
    <3> QED
      BY <2>2, <3>1, <3>4
  <2>3. lapses' = 0 => lapses = 0
    <3>1. lapses' \in {lapses, lapses + 1}
      BY <1>3 DEF Arrivals, CustomerEvent, TrackingEvent, MissEvent,
         FollowDeepLink, PositionUpdated, NetworkChanges, Lapse
    <3> QED
      BY <1>0, <3>1
  <2> QED
    BY <2>1, <2>2, <2>3, OneStart DEF BootInv
<1>4. ASSUME NEW c \in calls, Answers(c) PROVE BootInv'
  <2>1. \A d \in calls' : (d \in calls /\ d # c) \/ Made(d)
    BY <1>4, AnswersMake
  <2>2. CASE Bootstrapped(c)
    <3>1. c.op = "bootstrap"
      BY <2>2 DEF Bootstrapped, Answered
    <3>2. \A d \in calls' : d.op # "bootstrap"
      BY <2>1, <3>1 DEF BootInv, Made
    <3> QED
      BY <3>2 DEF BootInv
  <2>3. CASE ~Bootstrapped(c)
    <3>1. /\ UNCHANGED <<status, payment, lapses>>
          /\ pendingPayment' \in {pendingPayment, None}
          /\ activeOrderId' \in {activeOrderId, None}
      BY <1>4, <2>3 DEF Answers, TrackingLoaded, PaymentAnswered, HistoryLoaded, OrderCancelled,
         serverVars
    <3>2. tracking' # None => \/ tracking # None /\ tracking'.of = tracking.of
                              \/ c.op = "tracking" /\ tracking'.of = c.of
      BY <1>4, <2>3 DEF Answers, TrackingLoaded, PaymentAnswered, HistoryLoaded, OrderCancelled,
         Answered
    <3>3. Booting => Booting'
      BY <2>1, <3>1, <3>2, BootingScreens
    <3> QED
      BY <2>1, <3>1, <3>3, OneStart DEF BootInv
  <2> QED
    BY <2>2, <2>3
<1>5. ASSUME \/ UNCHANGED <<status, payment, due>>
             \/ \E o \in Orders : Moved(o),
             UNCHANGED screenVars, Booting, lapses' = 0,
             \A d \in calls' : \/ d \in calls
                               \/ \E c \in calls : /\ d.op = c.op /\ d.of = c.of
                                                   /\ d.got = "ok" => d.seen = Seen(c)
      PROVE  Booting'
  <2>1. \A o \in Orders : Started(status[o]) => Started(status'[o])
    <3>1. ASSUME NEW p \in Orders, Moved(p), NEW o \in Orders, Started(status[o])
          PROVE  Started(status'[o])
      <4>1. CASE o = p
        BY <1>0, <3>1, <4>1, UptoFacts DEF Moved
      <4>2. CASE o # p
        BY <3>1, <4>2 DEF Moved
      <4> QED
        BY <4>1, <4>2
    <3> QED
      BY <1>5, <3>1
  <2>2. /\ activeOrderId \in Orders \cup {None}
        /\ tracking # None => tracking.of \in Orders
        /\ \A c \in calls : c.op = "tracking" => c.of \in Orders
    BY DEF Base, Types, Trackings, About
  <2>3. \A c \in calls : c.op = "tracking" => Seen(c)[c.of] = status[c.of]
    <3>1. ASSUME NEW c \in calls, c.op = "tracking" PROVE Seen(c)[c.of] = status[c.of]
      <4>1. PICK s : s = status[c.of]
        OBVIOUS
      <4>2. Seen(c) = [Blank EXCEPT ![c.of] = s]
        BY <3>1, <4>1 DEF Seen
      <4> QED
        BY <2>2, <3>1, <4>1, <4>2, BlankIs
    <3> QED
      BY <3>1
  <2>4. \A d \in calls' : d.op # "pay" /\ (d.op = "tracking" =>
          Started(status'[d.of]) /\ (d.got = "ok" => Started(d.seen[d.of])))
    BY <1>5, <2>1, <2>2, <2>3 DEF Booting
  <2>5. UNCHANGED <<pendingPayment, activeOrderId, tracking>>
    BY <1>5 DEF screenVars
  <2> QED
    BY <1>5, <2>1, <2>2, <2>4, <2>5 DEF Booting, Started
<1>6. ASSUME NEW o \in Orders, ServerStep(o) PROVE BootInv'
  <2>1. UNCHANGED <<screenVars, calls, lapses>> /\ Moved(o)
    BY <1>6, ServerMoves DEF ServerStep
  <2>2. Booting /\ lapses' = 0 => Booting'
    BY <1>5, <2>1
  <2> QED
    BY <2>1, <2>2 DEF BootInv
<1>7. ASSUME NEW c \in calls, Serve(c) \/ Lose(c) PROVE BootInv'
  <2>1. PICK x : /\ calls' = (calls \ {c}) \cup {x} /\ x.op = c.op /\ x.of = c.of
                 /\ x.got = "ok" => x.seen = Seen(c)
    BY <1>7, Replies
  <2>2. UNCHANGED <<status, payment, due>> \/ \E o \in Orders : Moved(o)
    BY <1>7, Replies
  <2>3. UNCHANGED screenVars /\ (lapses' = 0 => lapses = 0)
    BY <1>0, <1>7 DEF Serve, Lose, Lapse
  <2>4. Booting /\ lapses' = 0 => Booting'
    BY <1>5, <2>1, <2>2, <2>3
  <2> QED
    BY <2>1, <2>3, <2>4, OneStart DEF BootInv
<1>8. CASE UNCHANGED vars
  BY <1>8 DEF vars, screenVars, serverVars, BootInv, Booting, Started
<1> QED
  BY <1>1, <1>2, <1>3, <1>4, <1>6, <1>7, <1>8 DEF Next, Customer

-----------------------------------------------------------------------------
(* What has been heard                                                     *)

\* No answer is lost, and none of the network's news.
Connected ==
  lapses = 0 => isOnline /\ \A c \in calls : c.op = "tracking" => c.got # "error"

LEMMA Lapsing == Base /\ [Next]_vars => lapses \in Nat /\ lapses' \in {lapses, lapses + 1}
<1> SUFFICES ASSUME Base, [Next]_vars PROVE lapses' \in {lapses, lapses + 1}
  BY DEF Base, Types
<1>1. CASE Customer
  BY <1>1 DEF Customer, OrderPlaced, Track, RequestCancelOrder, HandlePayPendingPayment,
     ClosePayment, LoadOrdersHistory, RefreshTracking, ConfirmCancelOrder, KeepOrder
<1>2. CASE Arrivals
  BY <1>2 DEF Arrivals, CustomerEvent, TrackingEvent, MissEvent,
     FollowDeepLink, PositionUpdated, NetworkChanges, Lapse
<1>3. CASE (\E o \in Orders : ServerStep(o)) \/ (\E c \in calls : Serve(c) \/ Lose(c))
  BY <1>3 DEF ServerStep, Serve, Lose, Lapse
<1>4. CASE \E c \in calls : Answers(c)
  BY <1>4 DEF Answers, TrackingLoaded, Bootstrapped, PaymentAnswered, HistoryLoaded,
     OrderCancelled
<1>5. CASE UNCHANGED vars
  BY <1>5 DEF vars
<1> QED
  BY <1>1, <1>2, <1>3, <1>4, <1>5 DEF Next

LEMMA ConnectedStep == Base /\ Connected /\ [Next]_vars => Connected'
<1> SUFFICES ASSUME Base, Connected, [Next]_vars, lapses' = 0
             PROVE  isOnline' /\ \A c \in calls' : c.op = "tracking" => c.got # "error"
  BY DEF Connected
<1>0. lapses = 0 /\ lapses' # lapses + 1
  BY Lapsing
<1>1. isOnline /\ \A c \in calls : c.op = "tracking" => c.got # "error"
  BY <1>0 DEF Connected
<1>2. ASSUME \A d \in calls' : d \in calls \/ d.got = "sent"
      PROVE  \A c \in calls' : c.op = "tracking" => c.got # "error"
  BY <1>1, <1>2
<1>3. CASE \/ \E o \in Orders : Track(o) \/ RequestCancelOrder(o)
           \/ HandlePayPendingPayment \/ ClosePayment
           \/ LoadOrdersHistory \/ RefreshTracking \/ ConfirmCancelOrder \/ KeepOrder
  <2>1. UNCHANGED isOnline
    BY <1>3 DEF Track, RequestCancelOrder, HandlePayPendingPayment, ClosePayment,
       LoadOrdersHistory, RefreshTracking, ConfirmCancelOrder, KeepOrder
  <2> QED
    BY <1>1, <1>2, <1>3, <2>1, CustomerMakes DEF Made
<1>4. ASSUME NEW o \in Orders, OrderPlaced(o)
      PROVE  isOnline' /\ \A c \in calls' : c.op = "tracking" => c.got # "error"
  <2>1. UNCHANGED isOnline /\ calls' \subseteq calls \cup {Call("tracking", o)}
    BY <1>4 DEF OrderPlaced, LoadTracking
  <2> QED
    BY <1>1, <1>2, <2>1, CallIs
<1>5. CASE Arrivals
  <2>1. UNCHANGED isOnline
    BY <1>0, <1>1, <1>5 DEF Arrivals, CustomerEvent, TrackingEvent, MissEvent,
       FollowDeepLink, PositionUpdated, NetworkChanges, Lapse
  <2> QED
    BY <1>1, <1>2, <1>5, <2>1, ArrivalsMake DEF Made
<1>6. ASSUME NEW o \in Orders, ServerStep(o)
      PROVE  isOnline' /\ \A c \in calls' : c.op = "tracking" => c.got # "error"
  BY <1>1, <1>6 DEF ServerStep
<1>7. ASSUME NEW c \in calls, Serve(c) \/ Lose(c)
      PROVE  isOnline' /\ \A d \in calls' : d.op = "tracking" => d.got # "error"
  <2>1. UNCHANGED isOnline
    BY <1>7 DEF Serve, Lose
  <2>2. PICK x : /\ calls' = (calls \ {c}) \cup {x} /\ x.op = c.op
                 /\ x.got = "error" => c.op \in {"cancel", "pay"} \/ lapses' = lapses + 1
    BY <1>7, Replies
  <2> QED
    BY <1>0, <1>1, <2>1, <2>2
<1>8. ASSUME NEW c \in calls, Answers(c)
      PROVE  isOnline' /\ \A d \in calls' : d.op = "tracking" => d.got # "error"
  <2>1. UNCHANGED isOnline
    BY <1>8 DEF Answers, TrackingLoaded, Bootstrapped, PaymentAnswered, HistoryLoaded,
       OrderCancelled
  <2> QED
    BY <1>1, <1>2, <1>8, <2>1, AnswersMake DEF Made
<1>9. CASE UNCHANGED vars
  BY <1>1, <1>9 DEF vars
<1> QED
  BY <1>3, <1>4, <1>5, <1>6, <1>7, <1>8, <1>9 DEF Next, Customer

\* No end is told that the screens have not been brought.
EndsHeard ==
  /\ activeOrderId # None => ~Told(activeOrderId)
  /\ \A o \in Orders : Told(o) /\ ordersHistory[o] # "NONE" => ordersHistory[o] = status[o]

LEMMA CrossedStays == [Next]_vars /\ ~crossed' => ~crossed
<1> SUFFICES ASSUME [Next]_vars, ~crossed' PROVE ~crossed
  OBVIOUS
<1>1. CASE Customer
  BY <1>1 DEF Customer, OrderPlaced, Track, RequestCancelOrder, HandlePayPendingPayment,
     ClosePayment, LoadOrdersHistory, RefreshTracking, ConfirmCancelOrder, KeepOrder
<1>2. CASE Arrivals
  BY <1>2 DEF Arrivals, CustomerEvent, TrackingEvent, MissEvent,
     FollowDeepLink, PositionUpdated, NetworkChanges
<1>3. CASE (\E o \in Orders : ServerStep(o)) \/ (\E c \in calls : Serve(c) \/ Lose(c))
  BY <1>3 DEF ServerStep, Serve, Lose
<1>4. CASE \E c \in calls : Answers(c)
  BY <1>4 DEF Answers, TrackingLoaded, Bootstrapped, PaymentAnswered, HistoryLoaded,
     OrderCancelled
<1>5. CASE UNCHANGED vars
  BY <1>5 DEF vars
<1> QED
  BY <1>1, <1>2, <1>3, <1>4, <1>5 DEF Next

\* An order whose end is told has ended before, and stays as it is.
LEMMA ToldBefore ==
  ASSUME Base, NEW p \in Orders, Moved(p), NEW o \in Orders, Told(o)'
  PROVE  Told(o) /\ status'[o] = status[o]
<1>1. status[o] \in Statuses /\ status'[o] \in Statuses
  BY DEF Base, Types, Moved
<1>2. CASE o # p
  BY <1>2 DEF Moved, Told
<1>3. CASE o = p
  <2>1. status'[o] = status[o]
    BY <1>3 DEF Moved, Told
  <2> QED
    BY <1>3, <2>1 DEF Moved, Told
<1> QED
  BY <1>2, <1>3

\* The server leaves what the screens show.
LEMMA EndsWithMoves ==
  ASSUME Base, EndsHeard, UNCHANGED <<activeOrderId, ordersHistory>>,
         UNCHANGED <<status, payment, due>> \/ \E p \in Orders : Moved(p)
  PROVE  EndsHeard'
<1>1. \A o \in Orders : Told(o)' => Told(o) /\ status'[o] = status[o]
  <2>1. CASE UNCHANGED <<status, payment, due>>
    BY <2>1 DEF Told
  <2> QED
    BY <2>1, ToldBefore
<1>2. activeOrderId \in Orders \cup {None}
  BY DEF Base, Types
<1> QED
  BY <1>1, <1>2 DEF EndsHeard

\* The screens leave what the server has done.
LEMMA EndsOnScreens ==
  ASSUME Base, EndsHeard, UNCHANGED <<status, due>>,
         \/ activeOrderId' \in {activeOrderId, None}
         \/ /\ activeOrderId' \in Orders
            /\ ordersHistory[activeOrderId'] = "CONFIRMED" \/ ~Told(activeOrderId'),
         \A o \in Orders : Told(o) /\ ordersHistory'[o] # "NONE" =>
           ordersHistory'[o] \in {ordersHistory[o], status[o]}
  PROVE  EndsHeard'
<1>1. \A o : Told(o)' <=> Told(o)
  BY DEF Told
<1>2. \A o \in Orders : Told(o) => status[o] \in Over
  BY DEF Told
<1>3. activeOrderId' # None => ~Told(activeOrderId')
  BY <1>2 DEF EndsHeard, Over
<1> QED
  BY <1>1, <1>3 DEF EndsHeard, Told

LEMMA EndsStep ==
  ASSUME Base, Base', EndsHeard, Connected, [Next]_vars, lapses' = 0, ~crossed'
  PROVE  EndsHeard'
<1>0. lapses = 0 /\ lapses' # lapses + 1 /\ isOnline
  BY Lapsing DEF Connected
<1>1. CASE \/ \E o \in Orders : Track(o) \/ RequestCancelOrder(o)
           \/ HandlePayPendingPayment \/ ClosePayment
           \/ LoadOrdersHistory \/ RefreshTracking \/ ConfirmCancelOrder \/ KeepOrder
  <2>1. /\ UNCHANGED <<ordersHistory, status, due>>
        /\ activeOrderId' = activeOrderId
             \/ (activeOrderId' \in Orders /\ ordersHistory[activeOrderId'] = "CONFIRMED")
    BY <1>1 DEF Track, RequestCancelOrder, HandlePayPendingPayment, ClosePayment,
       LoadOrdersHistory, RefreshTracking, ConfirmCancelOrder, KeepOrder,
       serverVars, screenVars, TRACKABLE_STATUSES
  <2> QED
    BY <2>1, EndsOnScreens
<1>2. ASSUME NEW o \in Orders, OrderPlaced(o) PROVE EndsHeard'
  <2>1. /\ status' = [status EXCEPT ![o] = "PENDING"] /\ activeOrderId' = o
        /\ UNCHANGED <<ordersHistory, due>> /\ status \in [Orders -> Statuses]
    BY <1>2 DEF OrderPlaced, Base, Types
  <2>2. ~Told(o)'
    BY <2>1 DEF Told, Over
  <2>3. \A p \in Orders : p # o => (Told(p)' <=> Told(p)) /\ status'[p] = status[p]
    BY <2>1 DEF Told
  <2> QED
    BY <2>1, <2>2, <2>3 DEF EndsHeard
<1>3. ASSUME NEW o \in Orders, NEW e \in Events, CustomerEvent(o, e) PROVE EndsHeard'
  <2>1. /\ <<o, e>> \in due /\ due' \in {due, due \ {<<o, e>>}} /\ UNCHANGED status
        /\ ordersHistory' = HistoryAfter(o, e) /\ activeOrderId' = ActiveAfter(o, e)
    BY <1>3 DEF CustomerEvent
  <2>2. \A p \in Orders : Told(p)' => Told(p) \/ (p = o /\ Ending(e))
    BY <2>1 DEF Told, Ending
  <2>3. \A p \in Orders : Told(p)' => status'[p] = status[p]
    BY <2>1
  <2>4. activeOrderId' # None => activeOrderId' = activeOrderId /\ ~(activeOrderId = o /\ Ending(e))
    BY <2>1 DEF ActiveAfter
  <2>5. activeOrderId \in Orders \cup {None}
    BY DEF Base, Types
  <2>6. activeOrderId' # None => ~Told(activeOrderId)'
    BY <2>2, <2>4, <2>5 DEF EndsHeard
  <2>7. \A p \in Orders : Told(p)' /\ ordersHistory'[p] # "NONE" => ordersHistory'[p] = status[p]
    BY <2>1, <2>2, EventEnds DEF EndsHeard
  <2> QED
    BY <2>1, <2>4, <2>6, <2>7 DEF EndsHeard
<1>4. CASE \/ \E o \in Orders, e \in Events : TrackingEvent(o, e) \/ MissEvent(o, e)
           \/ \E o \in Orders : FollowDeepLink(o)
           \/ PositionUpdated \/ NetworkChanges
  <2>1. /\ UNCHANGED <<status, due, ordersHistory>>
        /\ activeOrderId' \in {activeOrderId, None}
    BY <1>0, <1>4 DEF TrackingEvent, MissEvent, FollowDeepLink, PositionUpdated, NetworkChanges,
       Lapse, ActiveAfter, serverVars, screenVars
  <2> QED
    BY <2>1, EndsOnScreens
<1>5. CASE (\E o \in Orders : ServerStep(o)) \/ (\E c \in calls : Serve(c) \/ Lose(c))
  <2>1. UNCHANGED <<activeOrderId, ordersHistory>>
    BY <1>5 DEF ServerStep, Serve, Lose, screenVars
  <2>2. UNCHANGED <<status, payment, due>> \/ \E p \in Orders : Moved(p)
    BY <1>5, ServerMoves, Replies DEF ServerStep
  <2> QED
    BY <2>1, <2>2, EndsWithMoves
<1>6. ASSUME NEW c \in calls, Answers(c) PROVE EndsHeard'
  <2>0. UNCHANGED <<status, due>>
    BY <1>6 DEF Answers, TrackingLoaded, Bootstrapped, PaymentAnswered, HistoryLoaded,
       OrderCancelled, serverVars
  <2>1. \/ activeOrderId' \in {activeOrderId, None}
        \/ activeOrderId' \in Orders /\ ~Told(activeOrderId')
    BY <1>6 DEF Answers, TrackingLoaded, Bootstrapped, PaymentAnswered, HistoryLoaded,
       OrderCancelled
  <2>2. \A o \in Orders : Told(o) /\ ordersHistory'[o] # "NONE" =>
          ordersHistory'[o] \in {ordersHistory[o], status[o]}
    <3>1. CASE HistoryLoaded(c)
      <4>1. \/ UNCHANGED ordersHistory
            \/ /\ ordersHistory' = c.seen
               /\ \A o \in Orders : Told(o) => c.seen[o] \in Over
        BY <3>1 DEF HistoryLoaded
      <4>2. \A o \in Orders : c.seen[o] \in Statuses /\ status[o] \in Statuses
                              /\ Upto(c.seen[o], status[o])
        BY AnswerIs
      <4> QED
        BY <4>1, <4>2, UptoFacts
    <3>2. CASE OrderCancelled(c) /\ c.got = "ok"
      <4>1. PICK h : h = IF ordersHistory[c.of] = "NONE" THEN ordersHistory[c.of] ELSE "CANCELLED"
        OBVIOUS
      <4>2. c.of \in Orders /\ status[c.of] = "CANCELLED"
        BY <3>2, AnswerIs DEF OrderCancelled, Answered, About, Base, RowsAgree
      <4>3. ordersHistory' = [ordersHistory EXCEPT ![c.of] = h]
        BY <3>2, <4>1 DEF OrderCancelled
      <4>4. ordersHistory \in [Orders -> Statuses]
        BY DEF Base, Types
      <4> QED
        BY <4>1, <4>2, <4>3, <4>4
    <3>3. CASE ~HistoryLoaded(c) /\ ~(OrderCancelled(c) /\ c.got = "ok")
      BY <1>6, <3>3 DEF Answers, TrackingLoaded, Bootstrapped, PaymentAnswered, HistoryLoaded,
         OrderCancelled
    <3> QED
      BY <3>1, <3>2, <3>3
  <2> QED
    BY <2>0, <2>1, <2>2, EndsOnScreens
<1>7. CASE UNCHANGED vars
  BY <1>7 DEF vars, screenVars, serverVars, EndsHeard, Told
<1> QED
  BY <1>1, <1>2, <1>3, <1>4, <1>5, <1>6, <1>7 DEF Next, Customer, Arrivals

-----------------------------------------------------------------------------
(* What is shown and what is on its way                                    *)

\* The tracking of o, or an answer that may replace it, shows what o has been.
Stale(o) ==
  \/ tracking # None /\ tracking.rest = o /\ tracking.status # status[o]
  \/ \E c \in calls :
       c.op = "tracking" /\ c.of = o /\ c.got = "ok" /\ c.seen[o] # status[o]

News(o) == \E e \in Events : <<o, e>> \in due

Fetching(o) ==
  \E c \in calls :
    /\ c.op = "tracking" /\ c.of = o
    /\ c.got = "sent" \/ (c.got = "ok" /\ c.seen[o] = status[o])

\* What o has become is on its way to the screen, or what will ask for it is.
Coming(o) == News(o) \/ Fetching(o)

TrackingHeard == activeOrderId # None /\ Stale(activeOrderId) => Coming(activeOrderId)

\* A step that follows no other order, shows no other status and drops nothing that is
\* on its way.
LEMMA StillComing ==
  ASSUME TrackingHeard, UNCHANGED status, activeOrderId' \in {activeOrderId, None},
         activeOrderId' # None /\ News(activeOrderId) => News(activeOrderId)',
         tracking' # None /\ tracking'.rest = activeOrderId =>
           tracking # None /\ tracking.rest = activeOrderId
             /\ tracking'.status = tracking.status,
         \A d \in calls : d.op = "tracking" => d \in calls',
         \A d \in calls' : d.op = "tracking" => d \in calls \/ d.got = "sent"
  PROVE  TrackingHeard'
<1> SUFFICES ASSUME NEW o, o # None, o = activeOrderId, activeOrderId' = o, Stale(o)'
             PROVE  Coming(o)'
  BY DEF TrackingHeard
<1>1. Stale(o)
  BY DEF Stale
<1>2. Coming(o)
  BY <1>1 DEF TrackingHeard
<1>3. Fetching(o) => Fetching(o)'
  BY DEF Fetching
<1> QED
  BY <1>2, <1>3 DEF Coming

\* An order that is asked about now.
LEMMA NowFetching ==
  ASSUME NEW o, isOnline, LoadTracking(o) \subseteq calls'
  PROVE  Coming(o)'
<1>1. PICK x : x = Call("tracking", o)
  OBVIOUS
<1>2. x \in calls' /\ x.op = "tracking" /\ x.of = o /\ x.got = "sent"
  BY <1>1, CallIs DEF LoadTracking
<1> QED
  BY <1>2 DEF Coming, Fetching

\* The server answers with what it has, and tells what it changes.
LEMMA ServerComing ==
  ASSUME Base, TrackingHeard, UNCHANGED screenVars,
         UNCHANGED <<status, payment, due>> \/ \E p \in Orders : Moved(p),
         \/ UNCHANGED calls
         \/ \E c \in calls : \E x :
              /\ calls' = (calls \ {c}) \cup {x} /\ x.op = c.op /\ x.of = c.of
              /\ c.got = "sent" /\ (x.got = "ok" => x.seen = Seen(c))
              /\ c.op = "tracking" => x.got = "ok"
  PROVE  TrackingHeard'
<1> SUFFICES ASSUME NEW o, o # None, o = activeOrderId, activeOrderId' = o, Stale(o)'
             PROVE  Coming(o)'
  BY DEF TrackingHeard, screenVars
<1>0. o \in Orders /\ UNCHANGED tracking
  BY DEF Base, Types, screenVars
<1>1. due \subseteq due' /\ (status'[o] # status[o] => News(o)')
  BY <1>0 DEF Moved, News
<1>2. News(o) => News(o)'
  BY <1>1 DEF News
<1>3. ASSUME status'[o] = status[o] PROVE Coming(o)'
  <2>1. CASE UNCHANGED calls
    <3>1. Stale(o)
      BY <1>0, <1>3, <2>1 DEF Stale
    <3>2. Fetching(o) => Fetching(o)'
      BY <1>3, <2>1 DEF Fetching
    <3> QED
      BY <1>2, <3>1, <3>2 DEF TrackingHeard, Coming
  <2>2. ASSUME NEW c \in calls, NEW x,
               calls' = (calls \ {c}) \cup {x}, x.op = c.op, x.of = c.of, c.got = "sent",
               x.got = "ok" => x.seen = Seen(c), c.op = "tracking" => x.got = "ok"
        PROVE  Coming(o)'
    <3>1. c.op = "tracking" /\ c.of = o => x.seen[o] = status'[o]
      <4> SUFFICES ASSUME c.op = "tracking", c.of = o PROVE x.seen[o] = status'[o]
        OBVIOUS
      <4>1. PICK s : s = status[o]
        OBVIOUS
      <4>2. Seen(c) = [Blank EXCEPT ![o] = s]
        BY <4>1 DEF Seen
      <4> QED
        BY <1>0, <1>3, <2>2, <4>1, <4>2, BlankIs
    <3>2. Stale(o)
      BY <1>0, <1>3, <2>2, <3>1 DEF Stale
    <3>3. Fetching(o) => Fetching(o)'
      <4> SUFFICES ASSUME NEW w \in calls, w.op = "tracking", w.of = o,
                          w.got = "sent" \/ (w.got = "ok" /\ w.seen[o] = status[o])
                   PROVE  Fetching(o)'
        BY DEF Fetching
      <4>1. CASE w = c
        <5>1. x \in calls' /\ x.op = "tracking" /\ x.of = o /\ x.got = "ok"
              /\ x.seen[o] = status'[o]
          BY <2>2, <3>1, <4>1
        <5> QED
          BY <5>1 DEF Fetching
      <4>2. CASE w # c
        <5>1. w \in calls'
          BY <2>2, <4>2
        <5> QED
          BY <1>3, <5>1 DEF Fetching
      <4> QED
        BY <4>1, <4>2
    <3> QED
      BY <1>2, <3>2, <3>3 DEF TrackingHeard, Coming
  <2> QED
    BY <2>1, <2>2
<1> QED
  BY <1>1, <1>3 DEF Coming

\* An answer that is shown is the newest, or a newer one is still to come.
LEMMA ShownComing ==
  ASSUME Base, TrackingHeard, NEW c \in calls, TrackingLoaded(c), c.got # "error", ~crossed'
  PROVE  TrackingHeard'
<1> SUFFICES ASSUME NEW o, o # None, o = activeOrderId, activeOrderId' = o, Stale(o)'
             PROVE  Coming(o)'
  BY DEF TrackingHeard, TrackingLoaded
<1>0. /\ c.op = "tracking" /\ c.got = "ok" /\ o \in Orders
      /\ calls' = calls \ {c} /\ UNCHANGED <<status, due>>
      /\ tracking' = [of |-> c.of, rest |-> c.of, status |-> c.seen[c.of]]
      /\ ~Overtakes(c)
  BY AnswerIs DEF TrackingLoaded, Answered, Base, Types, CallRecord, serverVars
<1>1. tracking'.rest = c.of /\ tracking'.status = c.seen[c.of]
  BY <1>0
<1>2. ASSUME c.of # o \/ c.seen[o] # status[o] PROVE Coming(o)'
  <2>1. Stale(o)
    BY <1>0, <1>1, <1>2 DEF Stale
  <2>2. News(o) => News(o)'
    BY <1>0 DEF News
  <2>3. Fetching(o) => Fetching(o)'
    BY <1>0, <1>2 DEF Fetching
  <2> QED
    BY <2>1, <2>2, <2>3 DEF TrackingHeard, Coming
<1>3. ASSUME c.of = o, c.seen[o] = status[o] PROVE FALSE
  <2>1. PICK d \in calls : /\ d.op = "tracking" /\ d.of = o /\ d.got = "ok"
                           /\ d.seen[o] # status[o]
    BY <1>0, <1>1, <1>3 DEF Stale
  <2>2. Upto(d.seen[o], status[o])
    BY <1>0, <2>1, AnswerIs
  <2>3. Rank[d.seen[o]] < Rank[c.seen[o]]
    BY <1>3, <2>1, <2>2 DEF Upto
  <2> QED
    BY <1>0, <1>3, <2>1, <2>3 DEF Overtakes
<1> QED
  BY <1>2, <1>3

\* The order that the start chooses was under way, and what has been asked about it
\* since, was asked then.
LEMMA ChosenComing ==
  ASSUME Base, BootInv, TrackingHeard, NEW c \in calls, Bootstrapped(c), lapses = 0, ~crossed'
  PROVE  TrackingHeard'
<1>0. c.op = "bootstrap" /\ calls' = calls \ {c} /\ UNCHANGED <<status, due, tracking>>
  BY DEF Bootstrapped, Answered, serverVars
<1>1. CASE c.got = "ok"
  <2> SUFFICES ASSUME NEW o, o # None, activeOrderId' = o, Stale(o)'
               PROVE  News(o)'
    BY DEF TrackingHeard, Coming
  <2>1. tracking = None /\ ~Told(o) /\ o \in Orders
    BY <1>1 DEF Bootstrapped
  <2>2. PICK d \in calls : /\ d.op = "tracking" /\ d.of = o /\ d.got = "ok"
                           /\ d.seen[o] # status[o]
    BY <1>0, <2>1 DEF Stale
  <2>3. Started(d.seen[o])
    BY <1>0, <2>2 DEF BootInv, Booting
  <2>4. Upto(d.seen[o], status[o]) /\ d.seen[o] \in Statuses /\ status[o] \in Statuses
    BY <2>1, AnswerIs
  <2>5. status[o] \in Over
    BY <2>2, <2>3, <2>4, Ranks DEF Upto, Started, Statuses, Over
  <2>6. {<<o, "ORDER_DELIVERED">>, <<o, "ORDER_CANCELLED">>} \cap due # {}
    BY <2>1, <2>5 DEF Told
  <2> QED
    BY <1>0, <2>6 DEF News, Events
<1>2. CASE c.got # "ok"
  <2>1. UNCHANGED activeOrderId
    BY <1>2 DEF Bootstrapped
  <2> QED
    BY <1>0, <2>1, StillComing DEF News
<1> QED
  BY <1>1, <1>2

LEMMA TrackingStep ==
  ASSUME Base, Base', BootInv, Connected, TrackingHeard, [Next]_vars, lapses' = 0, ~crossed'
  PROVE  TrackingHeard'
<1>0. /\ lapses = 0 /\ lapses' # lapses + 1 /\ isOnline
      /\ \A c \in calls : c.op = "tracking" => c.got # "error"
  BY Lapsing DEF Connected
<1>1. CASE \/ \E o \in Orders : RequestCancelOrder(o)
           \/ HandlePayPendingPayment \/ ClosePayment
           \/ LoadOrdersHistory \/ RefreshTracking \/ ConfirmCancelOrder \/ KeepOrder
  <2>1. UNCHANGED <<activeOrderId, tracking, status, due>> /\ calls \subseteq calls'
    BY <1>1 DEF RequestCancelOrder, HandlePayPendingPayment, ClosePayment,
       LoadOrdersHistory, RefreshTracking, ConfirmCancelOrder, KeepOrder, Press,
       serverVars, screenVars
  <2>2. \A d \in calls' : d \in calls \/ d.got = "sent"
    BY <1>1, CustomerMakes DEF Made
  <2> QED
    BY <2>1, <2>2, StillComing DEF News
<1>2. ASSUME NEW o \in Orders, Track(o) PROVE TrackingHeard'
  <2>1. activeOrderId' = o /\ LoadTracking(o) \subseteq calls'
    BY <1>2 DEF Track
  <2> QED
    BY <1>0, <2>1, NowFetching DEF TrackingHeard
<1>3. ASSUME NEW o \in Orders, OrderPlaced(o) PROVE TrackingHeard'
  <2>1. /\ status[o] = "NONE" /\ activeOrderId' = o /\ UNCHANGED tracking
        /\ calls' \subseteq calls \cup {Call("tracking", o)}
    BY <1>3 DEF OrderPlaced, LoadTracking
  <2>2. ~(tracking # None /\ tracking.rest = o)
    BY <2>1, CustomerOrdersAssumption DEF Base, AllExist, Exists
  <2>3. \A d \in calls' : d.op = "tracking" /\ d.of = o => d.got = "sent"
    BY <2>1, CallIs, CustomerOrdersAssumption DEF Base, AllExist, Exists
  <2>4. ~Stale(o)'
    BY <2>1, <2>2, <2>3 DEF Stale
  <2> QED
    BY <2>1, <2>4 DEF TrackingHeard
<1>4. ASSUME NEW o \in Orders, NEW e \in Events, CustomerEvent(o, e) PROVE TrackingHeard'
  <2>1. /\ due' \in {due, due \ {<<o, e>>}} /\ UNCHANGED <<status, tracking>>
        /\ activeOrderId' = ActiveAfter(o, e) /\ calls' = calls \cup LoadsAfter(o, e)
    BY <1>4 DEF CustomerEvent
  <2>2. activeOrderId' \in {activeOrderId, None}
    BY <2>1 DEF ActiveAfter
  <2>3. CASE activeOrderId = o
    <3>1. LoadTracking(o) \subseteq calls'
      BY <2>1, <2>3 DEF LoadsAfter
    <3>2. Coming(o)'
      BY <1>0, <3>1, NowFetching
    <3> QED
      BY <2>2, <2>3, <3>2 DEF TrackingHeard
  <2>4. CASE activeOrderId # o
    <3>1. activeOrderId' = activeOrderId
      BY <2>1, <2>4 DEF ActiveAfter
    <3>2. News(activeOrderId) => News(activeOrderId)'
      BY <2>1, <2>4, <3>1 DEF News
    <3>3. \A d \in calls' : d \in calls \/ d.got = "sent"
      BY <1>4, ArrivalsMake DEF Made, Arrivals
    <3> QED
      BY <2>1, <2>2, <3>2, <3>3, StillComing
  <2> QED
    BY <2>3, <2>4
<1>5. CASE \/ \E o \in Orders, e \in Events : TrackingEvent(o, e) \/ MissEvent(o, e)
           \/ \E o \in Orders : FollowDeepLink(o)
           \/ PositionUpdated \/ NetworkChanges
  <2>1. /\ UNCHANGED <<status, due>> /\ activeOrderId' \in {activeOrderId, None}
        /\ calls \subseteq calls'
    BY <1>0, <1>5 DEF TrackingEvent, MissEvent, FollowDeepLink, PositionUpdated, NetworkChanges,
       Lapse, ActiveAfter, serverVars, screenVars
  <2>2. \A d \in calls' : d \in calls \/ d.got = "sent"
    BY <1>5, ArrivalsMake DEF Made, Arrivals
  <2>3. tracking' # None /\ tracking'.rest = activeOrderId =>
          tracking # None /\ tracking.rest = activeOrderId /\ tracking'.status = tracking.status
    <3>1. CASE PositionUpdated
      <4>1. PICK a, x : /\ a = activeOrderId
                        /\ x = IF tracking = None
                               THEN [of |-> a, rest |-> None, status |-> "NONE"]
                               ELSE [tracking EXCEPT !.of = a]
        OBVIOUS
      <4>2. tracking \in Trackings \cup {None}
        BY DEF Base, Types
      <4>3. IF tracking = None THEN x.rest = None
            ELSE x.rest = tracking.rest /\ x.status = tracking.status
        BY <4>1, <4>2 DEF Trackings
      <4>4. tracking' = x /\ activeOrderId # None
        BY <3>1, <4>1 DEF PositionUpdated
      <4> QED
        BY <4>3, <4>4
    <3>2. CASE ~PositionUpdated
      <4>1. UNCHANGED tracking
        BY <1>5, <3>2 DEF TrackingEvent, MissEvent, FollowDeepLink, NetworkChanges, screenVars
      <4> QED
        BY <4>1
    <3> QED
      BY <3>1, <3>2
  <2> QED
    BY <2>1, <2>2, <2>3, StillComing DEF News
<1>6. ASSUME NEW o \in Orders, ServerStep(o) PROVE TrackingHeard'
  <2>1. UNCHANGED <<screenVars, calls>>
    BY <1>6 DEF ServerStep
  <2>2. Moved(o)
    BY <1>6, ServerMoves DEF ServerStep
  <2> QED
    BY <2>1, <2>2, ServerComing
<1>7. ASSUME NEW c \in calls, Serve(c) \/ Lose(c) PROVE TrackingHeard'
  <2>1. UNCHANGED screenVars /\ c.got = "sent"
    BY <1>7 DEF Serve, Lose
  <2>2. UNCHANGED <<status, payment, due>> \/ \E p \in Orders : Moved(p)
    BY <1>7, Replies
  <2>3. PICK x \in CallRecord :
          /\ calls' = (calls \ {c}) \cup {x} /\ x.op = c.op /\ x.of = c.of
          /\ x.got = "error" => c.op \in {"cancel", "pay"} \/ lapses' = lapses + 1
          /\ x.got = "ok" => x.seen = Seen(c)
          /\ x.got # "sent"
    BY <1>7, Replies
  <2>4. c.op = "tracking" => x.got = "ok"
    BY <1>0, <2>3 DEF CallRecord
  <2> QED
    BY <2>1, <2>2, <2>3, <2>4, ServerComing
<1>8. ASSUME NEW c \in calls, Answers(c) PROVE TrackingHeard'
  <2>1. CASE TrackingLoaded(c)
    <3>1. c.got # "error"
      BY <1>0, <2>1 DEF TrackingLoaded, Answered
    <3> QED
      BY <2>1, <3>1, ShownComing
  <2>2. CASE Bootstrapped(c)
    BY <1>0, <2>2, ChosenComing
  <2>3. CASE PaymentAnswered(c) \/ HistoryLoaded(c) \/ OrderCancelled(c)
    <3>1. /\ UNCHANGED <<status, due, tracking>> /\ activeOrderId' \in {activeOrderId, None}
          /\ calls \ {c} \subseteq calls' /\ c.op # "tracking"
      BY <2>3 DEF PaymentAnswered, HistoryLoaded, OrderCancelled, Answered, serverVars
    <3>2. \A d \in calls' : d \in calls \/ d.got = "sent"
      BY <1>8, AnswersMake DEF Made
    <3>3. \A d \in calls : d.op = "tracking" => d \in calls'
      BY <3>1
    <3> QED
      BY <3>1, <3>2, <3>3, StillComing DEF News
  <2> QED
    BY <1>8, <2>1, <2>2, <2>3 DEF Answers
<1>9. CASE UNCHANGED vars
  BY <1>9, StillComing DEF vars, screenVars, serverVars, News
<1> QED
  BY <1>1, <1>2, <1>3, <1>4, <1>5, <1>6, <1>7, <1>8, <1>9 DEF Next, Customer, Arrivals

-----------------------------------------------------------------------------
(* What the screens end with                                               *)

HeardInv == lapses = 0 /\ ~crossed => EndsHeard /\ TrackingHeard

OrdersInv == Base /\ BootInv /\ Connected /\ HeardInv

LEMMA OrdersInit == Init => OrdersInv
<1> SUFFICES ASSUME Init PROVE OrdersInv
  OBVIOUS
<1>1. Base
  BY BaseInit
<1>2. /\ isOnline = TRUE /\ activeOrderId = None /\ tracking = None /\ pendingPayment = None
      /\ ordersHistory = Blank /\ calls = {Call("bootstrap", None)}
  BY DEF Init
<1>3. \A c, d \in calls : c = d /\ c.op = "bootstrap"
  BY <1>2, CallIs
<1>4. BootInv
  BY <1>2, <1>3 DEF BootInv, Booting
<1>5. Connected
  BY <1>2, <1>3 DEF Connected
<1>6. HeardInv
  BY <1>2, BlankIs DEF HeardInv, EndsHeard, TrackingHeard
<1> QED
  BY <1>1, <1>4, <1>5, <1>6 DEF OrdersInv

LEMMA OrdersStep == OrdersInv /\ [Next]_vars => OrdersInv'
<1> SUFFICES ASSUME Base, BootInv, Connected, HeardInv, [Next]_vars PROVE OrdersInv'
  BY DEF OrdersInv
<1>1. Base'
  BY BaseStep
<1>2. BootInv'
  BY <1>1, BootStep
<1>3. Connected'
  BY ConnectedStep
<1>4. HeardInv'
  <2> SUFFICES ASSUME lapses' = 0, ~crossed' PROVE EndsHeard' /\ TrackingHeard'
    BY DEF HeardInv
  <2>1. lapses = 0 /\ ~crossed
    BY Lapsing, CrossedStays
  <2>2. EndsHeard /\ TrackingHeard
    BY <2>1 DEF HeardInv
  <2> QED
    BY <1>1, <2>2, EndsStep, TrackingStep
<1> QED
  BY <1>1, <1>2, <1>3, <1>4 DEF OrdersInv

LEMMA OrdersHold == Spec => []OrdersInv
BY OrdersInit, OrdersStep, PTL DEF Spec

\* When nothing is on its way any more, the tracking of the active order shows what the
\* order has become: loadTracking answers come in any order, and the last is shown.
THEOREM TrackingEndsRight == Spec => []TrackingCatchesUp
<1>1. OrdersInv => TrackingCatchesUp
  <2> SUFFICES ASSUME OrdersInv, Quiet, ~crossed, lapses = 0, TracksActive
               PROVE  tracking.status = status[activeOrderId]
    BY DEF TrackingCatchesUp
  <2>1. TrackingHeard /\ calls = {} /\ due = {}
    BY DEF OrdersInv, HeardInv, Quiet
  <2>2. ~Coming(activeOrderId)
    BY <2>1 DEF Coming, News, Fetching
  <2>3. ~Stale(activeOrderId)
    BY <2>1, <2>2 DEF TrackingHeard, TracksActive
  <2> QED
    BY <2>3 DEF Stale, TracksActive
<1> QED
  BY <1>1, OrdersHold, PTL

\* When nothing is on its way any more, the order that the screens follow as active is
\* not over: the event of its end, on either topic, has closed it.
THEOREM ActiveEndsRight == Spec => []ActiveIsNotOver
<1>1. OrdersInv => ActiveIsNotOver
  <2> SUFFICES ASSUME OrdersInv, Quiet, ~crossed, lapses = 0, activeOrderId # None
               PROVE  status[activeOrderId] \notin Over
    BY DEF ActiveIsNotOver
  <2>1. EndsHeard /\ due = {}
    BY DEF OrdersInv, HeardInv, Quiet
  <2> QED
    BY <2>1 DEF EndsHeard, Told
<1> QED
  BY <1>1, OrdersHold, PTL

\* When nothing is on its way any more, the history has the end of every order that it
\* lists, whichever of the event, the cancellation's answer and a page came last.
THEOREM HistoryEndsRight == Spec => []HistoryKnowsTheEnd
<1>1. OrdersInv => HistoryKnowsTheEnd
  <2> SUFFICES ASSUME OrdersInv, Quiet, ~crossed, lapses = 0,
                      NEW o \in Orders, ordersHistory[o] # "NONE", status[o] \in Over
               PROVE  ordersHistory[o] = status[o]
    BY DEF HistoryKnowsTheEnd
  <2>1. EndsHeard /\ due = {} /\ o # None
    BY CustomerOrdersAssumption DEF OrdersInv, HeardInv, Quiet
  <2> QED
    BY <2>1 DEF EndsHeard, Told
<1> QED
  BY <1>1, OrdersHold, PTL

=============================================================================
