--------------------------- MODULE StateMachines ---------------------------
(***************************************************************************)
(* The three status graphs of app/Domain/StateMachines: one class per      *)
(* status, whose allowedTransitions() lists the statuses it may become.    *)
(* A transition that is not listed throws a ValidationException, which     *)
(* rolls the whole database transaction back.                              *)
(***************************************************************************)

OrderStatus == {"PENDING", "COURIER_ASSIGNED", "CONFIRMED", "PREPARING",
                "READY", "OUT_FOR_DELIVERY", "DELIVERED", "CANCELLED"}

PaymentStatus == {"PENDING", "COMPLETED", "FAILED", "CANCELLED", "REFUNDED"}

DeliveryStatus == {"PENDING", "PICKED_UP", "IN_TRANSIT", "DELIVERED", "FAILED"}

DeliveryOfferStatus == {"PENDING", "ACCEPTED", "REJECTED", "EXPIRED"}

CourierStatus == {"AVAILABLE", "BUSY", "OFFLINE"}

OrderEdges ==
  {<<"PENDING", "COURIER_ASSIGNED">>,   <<"PENDING", "CANCELLED">>,
   <<"COURIER_ASSIGNED", "CONFIRMED">>, <<"COURIER_ASSIGNED", "CANCELLED">>,
   <<"CONFIRMED", "PREPARING">>,        <<"CONFIRMED", "CANCELLED">>,
   <<"PREPARING", "READY">>,            <<"PREPARING", "CANCELLED">>,
   <<"READY", "OUT_FOR_DELIVERY">>,     <<"READY", "CANCELLED">>,
   <<"OUT_FOR_DELIVERY", "DELIVERED">>, <<"OUT_FOR_DELIVERY", "CANCELLED">>}

PaymentEdges ==
  {<<"PENDING", "COMPLETED">>, <<"PENDING", "FAILED">>,
   <<"PENDING", "CANCELLED">>, <<"COMPLETED", "REFUNDED">>}

DeliveryEdges ==
  {<<"PENDING", "PICKED_UP">>,    <<"PENDING", "FAILED">>,
   <<"PICKED_UP", "IN_TRANSIT">>, <<"PICKED_UP", "FAILED">>,
   <<"IN_TRANSIT", "DELIVERED">>, <<"IN_TRANSIT", "FAILED">>}

-----------------------------------------------------------------------------
(* Mutants of the three tests below                                        *)

OrderCanLeaveDelivered(from, to) == <<from, to>> \in OrderEdges \cup {<<"DELIVERED", "CANCELLED">>}
PaymentCanFailPaid(from, to)    == <<from, to>> \in PaymentEdges \cup {<<"COMPLETED", "FAILED">>}
PaymentCanNotExpire(from, to)   == <<from, to>> \in PaymentEdges \ {<<"PENDING", "FAILED">>}

-----------------------------------------------------------------------------
(* canTransitionTo                                                         *)

OrderCan(from, to)    == <<from, to>> \in OrderEdges
PaymentCan(from, to)  == <<from, to>> \in PaymentEdges
DeliveryCan(from, to) == <<from, to>> \in DeliveryEdges

=============================================================================
