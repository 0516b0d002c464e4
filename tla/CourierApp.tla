----------------------------- MODULE CourierApp -----------------------------
(***************************************************************************)
(* The courier's screen against the server: offers, the active delivery    *)
(* and the phase it is in, the availability.  Every request is answered    *)
(* later, or not at all, and what the screen does with the answer depends  *)
(* on the state it finds then.  One offer stands for its delivery.  The    *)
(* server is its commits as one courier sees them; the outbox sends what   *)
(* they announce at any time later, and may send it again.                 *)
(***************************************************************************)
EXTENDS Naturals, FiniteSets, StateMachines

CONSTANTS
  Deliveries, None,
  MaxLapses,    \* bound on lost answers, restarts, job links and outages
  MaxToggles,   \* bound on the changes of availability
  MaxCalls      \* bound on the requests under way when another is made

ASSUME CourierAppAssumption ==
  /\ None \notin Deliveries
  /\ MaxLapses \in Nat /\ MaxToggles \in Nat /\ MaxCalls \in Nat

VARIABLES
  isOnline,      \* what NetInfo says
  courierStatus, phase, activeDelivery,
  available,     \* availableOffers
  dismissed,     \* dismissedOfferIds
  loading,       \* the flag that disables most buttons
  rejecting,     \* rejectingOfferId
  offersAsked,   \* a load of the offers is under way
  calls,         \* other requests on their way and answers not seen yet
  offer, delivery, cancelled, srvStatus,   \* the server's rows
  lapses, toggles,
  overlapped     \* the status was changed while another request was under way

screenVars == <<courierStatus, phase, activeDelivery, available, dismissed>>
flagVars   == <<loading, rejecting>>
callVars   == <<offersAsked, calls>>
serverVars == <<offer, delivery, cancelled, srvStatus>>
boundVars  == <<lapses, toggles, overlapped>>
vars == <<isOnline, screenVars, flagVars, callVars, serverVars, boundVars>>

Phases == {"offer", "pickup", "collected", "in_transit", "completed"}

\* mainButton: what the button asks for in each phase, and the phase after it
NextStatus ==
  [pickup |-> "PICKED_UP", collected |-> "IN_TRANSIT", in_transit |-> "DELIVERED"]

PhaseAfter ==
  [PICKED_UP |-> "collected", IN_TRANSIT |-> "in_transit", DELIVERED |-> "completed"]

\* A request: accept, reject, fail, a step of the delivery, a status, or the tracking.
\* "of" is what it is about, "got" what came back.
Call(op, of) == [op |-> op, of |-> of, got |-> "sent"]

Ops == {"accept", "reject", "progress", "fail", "toggle", "tracking"}

\* what a request is about
Subjects ==
  [accept |-> Deliveries, reject |-> Deliveries, fail |-> Deliveries,
   progress |-> Deliveries \X DOMAIN PhaseAfter, toggle |-> CourierStatus,
   tracking |-> {None}]

CallRecord ==
  UNION {[op : {o}, of : Subjects[o], got : {"sent", "ok", "error"}] : o \in Ops}

TypeOK ==
  /\ isOnline \in BOOLEAN
  /\ courierStatus \in CourierStatus
  /\ phase \in Phases
  /\ activeDelivery \in Deliveries \cup {None}
  /\ available \subseteq Deliveries
  /\ dismissed \subseteq Deliveries
  /\ loading \in BOOLEAN
  /\ rejecting \in Deliveries \cup {None}
  /\ offersAsked \in BOOLEAN
  /\ calls \subseteq CallRecord
  /\ offer \in [Deliveries -> DeliveryOfferStatus \cup {"NONE"}]
  /\ delivery \in [Deliveries -> DeliveryStatus]
  /\ cancelled \subseteq Deliveries
  /\ srvStatus \in CourierStatus
  /\ lapses \in Nat /\ toggles \in Nat /\ overlapped \in BOOLEAN

\* The screen starts OFFLINE whatever the server has kept.
Init ==
  /\ isOnline = TRUE
  /\ courierStatus = "OFFLINE"
  /\ phase = "offer"
  /\ activeDelivery = None
  /\ available = {} /\ dismissed = {}
  /\ loading = FALSE /\ rejecting = None
  /\ offersAsked = FALSE /\ calls = {}
  /\ offer = [d \in Deliveries |-> "NONE"]
  /\ delivery = [d \in Deliveries |-> "PENDING"]
  /\ cancelled = {}
  /\ srvStatus \in {"OFFLINE", "AVAILABLE"}
  /\ lapses = 0 /\ toggles = 0 /\ overlapped = FALSE

Lapse == lapses < MaxLapses /\ lapses' = lapses + 1

-----------------------------------------------------------------------------
(* The server                                                              *)

Mine(d) == offer[d] = "ACCEPTED"
HasActiveDelivery == \E d \in Deliveries : Mine(d) /\ delivery[d] \notin {"DELIVERED", "FAILED"}

\* What a request commits: the rows after it, or nothing when it is refused.
Commit(c) ==
  \/ /\ c.op = "accept" /\ offer[c.of] = "PENDING" /\ srvStatus = "AVAILABLE"
     /\ offer' = [offer EXCEPT ![c.of] = "ACCEPTED"]
     /\ srvStatus' = "BUSY"
     /\ UNCHANGED <<delivery, cancelled>>
  \/ /\ c.op = "reject" /\ offer[c.of] = "PENDING"
     /\ offer' = [offer EXCEPT ![c.of] = "REJECTED"]
     /\ UNCHANGED <<delivery, cancelled, srvStatus>>
  \/ /\ c.op = "progress"
     /\ LET d == c.of[1]  to == c.of[2]
        IN  /\ Mine(d) /\ DeliveryCan(delivery[d], to)
            /\ to # "PICKED_UP" => d \notin cancelled
            /\ delivery' = [delivery EXCEPT ![d] = to]
            /\ srvStatus' = IF to = "DELIVERED" THEN "AVAILABLE" ELSE srvStatus
     /\ UNCHANGED <<offer, cancelled>>
  \/ /\ c.op = "fail" /\ Mine(c.of) /\ DeliveryCan(delivery[c.of], "FAILED")
     /\ delivery' = [delivery EXCEPT ![c.of] = "FAILED"]
     /\ UNCHANGED <<offer, cancelled, srvStatus>>
  \/ /\ c.op = "toggle" /\ ~(c.of = "OFFLINE" /\ HasActiveDelivery)
     /\ srvStatus' = c.of
     /\ UNCHANGED <<offer, delivery, cancelled>>

\* The kitchen may not have the order ready, so a step may be refused besides.
MayRefuse(c) ==
  CASE c.op = "accept"   -> ~(offer[c.of] = "PENDING" /\ srvStatus = "AVAILABLE")
    [] c.op = "reject"   -> offer[c.of] # "PENDING"
    [] c.op = "progress" -> ~(/\ Mine(c.of[1]) /\ DeliveryCan(delivery[c.of[1]], c.of[2])
                              /\ c.of[2] # "IN_TRANSIT" /\ c.of[1] \notin cancelled)
    [] c.op = "fail"     -> ~(Mine(c.of) /\ DeliveryCan(delivery[c.of], "FAILED"))
    [] c.op = "toggle"   -> c.of = "OFFLINE" /\ HasActiveDelivery
    [] OTHER             -> FALSE

-----------------------------------------------------------------------------
(* Requests and answers                                                    *)

\* loadAvailableOffers
LoadOffers == offersAsked' = (offersAsked \/ isOnline)

\* the effect that loads the offers when the screen turns to waiting for them
OffersEffect(status, ph) ==
  IF status = "AVAILABLE" /\ ph = "offer" /\ <<status, ph>> # <<courierStatus, phase>>
  THEN LoadOffers ELSE UNCHANGED offersAsked

\* loadTracking: the request that the progress handlers wait for
LoadTracking == IF isOnline THEN {Call("tracking", None)} ELSE {}

\* finally { setLoading(false) }
Done(c) == loading' = FALSE

\* a handler starts with a request of its own
Request(c) == Cardinality(calls) < MaxCalls /\ calls' = calls \cup {c}

\* the handler's answer has been used
Consume(c, more) == calls' = (calls \ {c}) \cup more

Answered(op, c) == c \in calls /\ c.op = op /\ c.got # "sent"

-----------------------------------------------------------------------------
(* Availability                                                            *)

Busy == \E c \in calls : c.op # "reject"

\* the modal in which a failure is reported covers the buttons until it is answered
Uncovered == \A c \in calls : c.op # "fail"

\* handleToggleOnline and the three buttons of handleSetCourierStatus, of which
\* only the first is disabled while loading
SetCourierStatus(s) ==
  /\ isOnline /\ Uncovered
  /\ s # courierStatus
  /\ toggles < MaxToggles
  /\ toggles' = toggles + 1
  /\ loading' = TRUE
  /\ overlapped' = (overlapped \/ Busy)
  /\ Request(Call("toggle", s))
  /\ UNCHANGED <<isOnline, screenVars, rejecting, offersAsked, serverVars, lapses>>

\* The list is emptied only by the button of the header; the buttons of the panel
\* leave it, unseen until the courier is available again.
CourierStatusAnswered(c) ==
  /\ Answered("toggle", c)
  /\ Done(c)
  /\ Consume(c, {})
  /\ IF c.got = "error" THEN UNCHANGED <<courierStatus, available, offersAsked>>
     ELSE /\ courierStatus' = c.of
          /\ available' \in {available} \cup (IF c.of = "OFFLINE" THEN {{}} ELSE {})
          /\ OffersEffect(c.of, phase)
  /\ UNCHANGED <<isOnline, phase, activeDelivery, dismissed, rejecting,
                 serverVars, boundVars>>

-----------------------------------------------------------------------------
(* Offers                                                                  *)

WaitsForOffers == phase = "offer" /\ courierStatus = "AVAILABLE"

\* the list's button; the card and the modal offer the same two choices
Refresh ==
  /\ WaitsForOffers /\ ~loading /\ Uncovered
  /\ LoadOffers
  /\ UNCHANGED <<isOnline, screenVars, flagVars, calls, serverVars, boundVars>>

\* The list is what the server had at some moment since it was asked: any offer made
\* may still be in it.  Other loads may be under way.
OffersLoaded ==
  /\ offersAsked
  /\ offersAsked' \in BOOLEAN
  /\ available' \in {available} \cup SUBSET {d \in Deliveries : offer[d] # "NONE"}
  /\ UNCHANGED <<isOnline, courierStatus, phase, activeDelivery, dismissed, flagVars, calls,
                 serverVars, boundVars>>

\* onEvent of the jobs topic: the offer is put in the list, and the list loaded
JobOffered(d) ==
  /\ offer[d] # "NONE"
  /\ IF WaitsForOffers /\ isOnline
     THEN /\ available' = available \cup {d}
          /\ dismissed' = dismissed \ {d}
          /\ LoadOffers
     ELSE UNCHANGED <<available, dismissed, offersAsked>>
  /\ UNCHANGED <<isOnline, courierStatus, phase, activeDelivery, flagVars, calls, serverVars,
                 boundVars>>

\* the modal shows the first offer that was not dismissed
ShownOffers == IF WaitsForOffers THEN available \ dismissed ELSE {}

DismissActiveOfferModal(d) ==
  /\ d \in ShownOffers /\ Uncovered
  /\ dismissed' = dismissed \cup {d}
  /\ UNCHANGED <<isOnline, courierStatus, phase, activeDelivery, available, flagVars, callVars,
                 serverVars, boundVars>>

\* the countdown ends, by the clock of the telephone
CountdownEnds(d) ==
  /\ d \in ShownOffers
  /\ dismissed' = dismissed \cup {d}
  /\ LoadOffers
  /\ UNCHANGED <<isOnline, courierStatus, phase, activeDelivery, available, flagVars, calls,
                 serverVars, boundVars>>

\* Mutant: the delivery is shown before the server has given it.
AcceptOfferOptimistically(d) ==
  /\ WaitsForOffers /\ d \in available
  /\ isOnline /\ ~loading /\ Uncovered
  /\ loading' = TRUE
  /\ activeDelivery' = d
  /\ Request(Call("accept", d))
  /\ UNCHANGED <<isOnline, courierStatus, phase, available, dismissed, rejecting,
                 offersAsked, serverVars, boundVars>>

AcceptOffer(d) ==
  /\ WaitsForOffers /\ d \in available
  /\ isOnline /\ ~loading /\ Uncovered
  /\ loading' = TRUE
  /\ Request(Call("accept", d))
  /\ UNCHANGED <<isOnline, screenVars, rejecting, offersAsked, serverVars, boundVars>>

\* handleAcceptOffer's answer; loading goes on until the tracking is there
OfferAccepted(c) ==
  /\ Answered("accept", c)
  /\ IF c.got = "error"
     THEN /\ Done(c) /\ Consume(c, {})
          /\ UNCHANGED <<courierStatus, phase, activeDelivery, dismissed>>
     ELSE /\ activeDelivery' = c.of
          /\ courierStatus' = "BUSY"
          /\ phase' = "pickup"
          /\ dismissed' = {}
          /\ Consume(c, LoadTracking)
          /\ loading' = (loading /\ isOnline)
  /\ UNCHANGED <<isOnline, available, rejecting, offersAsked, serverVars, boundVars>>

RejectOffer(d) ==
  /\ WaitsForOffers /\ d \in available
  /\ isOnline /\ rejecting # d /\ Uncovered
  /\ rejecting' = d
  /\ Request(Call("reject", d))
  /\ UNCHANGED <<isOnline, screenVars, loading, offersAsked, serverVars, boundVars>>

OfferRejected(c) ==
  /\ Answered("reject", c)
  /\ rejecting' = None
  /\ Consume(c, {})
  /\ IF c.got = "error" THEN UNCHANGED <<dismissed, offersAsked>>
     ELSE dismissed' = dismissed \cup {c.of} /\ LoadOffers
  /\ UNCHANGED <<isOnline, courierStatus, phase, activeDelivery, available, loading,
                 serverVars, boundVars>>

-----------------------------------------------------------------------------
(* The active delivery                                                     *)

\* handleProgress, and confirmDeliverDelivery after the question it asks
Progress ==
  /\ isOnline /\ ~loading /\ Uncovered
  /\ phase \in DOMAIN NextStatus
  /\ activeDelivery # None
  /\ loading' = TRUE
  /\ Request(Call("progress", <<activeDelivery, NextStatus[phase]>>))
  /\ UNCHANGED <<isOnline, screenVars, rejecting, offersAsked, serverVars, boundVars>>

\* Mutant: the refusal is not looked at.
ProgressAnsweredAnyway(c) ==
  /\ Answered("progress", c)
  /\ phase' = PhaseAfter[c.of[2]]
  /\ courierStatus' = IF c.of[2] = "DELIVERED" THEN "AVAILABLE" ELSE courierStatus
  /\ Consume(c, LoadTracking)
  /\ loading' = (loading /\ isOnline)
  /\ UNCHANGED <<isOnline, activeDelivery, available, dismissed, rejecting, offersAsked,
                 serverVars, boundVars>>

\* The answer moves the phase of whatever is active by then.
ProgressAnswered(c) ==
  /\ Answered("progress", c)
  /\ IF c.got = "error"
     THEN Done(c) /\ Consume(c, {}) /\ UNCHANGED <<courierStatus, phase>>
     ELSE /\ phase' = PhaseAfter[c.of[2]]
          /\ courierStatus' = IF c.of[2] = "DELIVERED" THEN "AVAILABLE" ELSE courierStatus
          /\ Consume(c, LoadTracking)
          /\ loading' = (loading /\ isOnline)
  /\ UNCHANGED <<isOnline, activeDelivery, available, dismissed, rejecting, offersAsked,
                 serverVars, boundVars>>

TrackingLoaded(c) ==
  /\ c \in calls /\ c.op = "tracking"
  /\ Done(c)
  /\ Consume(c, {})
  /\ UNCHANGED <<isOnline, screenVars, rejecting, offersAsked, serverVars, boundVars>>

\* Mutant: a new delivery may be begun before the last one is over.
ResetFlowAnytime ==
  /\ ~loading /\ Uncovered
  /\ phase' = "offer"
  /\ activeDelivery' = None
  /\ dismissed' \in {dismissed, {}}
  /\ OffersEffect(courierStatus, "offer")
  /\ UNCHANGED <<isOnline, courierStatus, available, flagVars, calls, serverVars, boundVars>>

\* "Nova entrega" and resetFlow: the flow starts again after a delivery
ResetFlow ==
  /\ phase = "completed" /\ ~loading /\ Uncovered
  /\ phase' = "offer"
  /\ activeDelivery' = None
  /\ dismissed' \in {dismissed, {}}
  /\ OffersEffect(courierStatus, "offer")
  /\ UNCHANGED <<isOnline, courierStatus, available, flagVars, calls, serverVars, boundVars>>

\* handleFailDelivery, of the modal that opens when nothing is loading
FailDelivery ==
  /\ isOnline /\ ~loading
  /\ activeDelivery # None
  /\ phase \in DOMAIN NextStatus
  /\ Uncovered
  /\ Request(Call("fail", activeDelivery))
  /\ UNCHANGED <<isOnline, screenVars, flagVars, offersAsked, serverVars, boundVars>>

\* The screen takes itself for available; the server's courier stays as it was.
DeliveryFailed(c) ==
  /\ Answered("fail", c)
  /\ Consume(c, {})
  /\ IF c.got = "error" THEN UNCHANGED <<courierStatus, phase, activeDelivery, offersAsked>>
     ELSE /\ phase' = "offer"
          /\ activeDelivery' = None
          /\ courierStatus' = "AVAILABLE"
          /\ OffersEffect("AVAILABLE", "offer")
  /\ UNCHANGED <<isOnline, available, dismissed, flagVars, serverVars, boundVars>>

\* the tracking topic of the active delivery's order, left once completed
Follows(d) == activeDelivery = d /\ phase # "completed" /\ isOnline

OrderCancelled(d) ==
  /\ d \in cancelled
  /\ IF Follows(d)
     THEN /\ activeDelivery' = None
          /\ phase' = "offer"
          /\ courierStatus' = "AVAILABLE"
          /\ OffersEffect("AVAILABLE", "offer")
     ELSE UNCHANGED <<activeDelivery, phase, courierStatus, offersAsked>>
  /\ UNCHANGED <<isOnline, available, dismissed, flagVars, calls, serverVars, boundVars>>

\* the effect of a deep link to the jobs: the phase alone is set
DeepLinkToJobs ==
  /\ Lapse
  /\ phase' = "offer"
  /\ OffersEffect(courierStatus, "offer")
  /\ UNCHANGED <<isOnline, courierStatus, activeDelivery, available, dismissed, flagVars, calls,
                 serverVars, toggles, overlapped>>

\* The application is closed, or the courier logs out: nothing of the screen is kept.
\* A request under way reaches the server before, or never.
Restart ==
  /\ Lapse
  /\ courierStatus' = "OFFLINE"
  /\ phase' = "offer"
  /\ activeDelivery' = None
  /\ available' = {} /\ dismissed' = {}
  /\ loading' = FALSE /\ rejecting' = None
  /\ offersAsked' = FALSE
  /\ calls' = {}
  /\ UNCHANGED serverVars \/ \E c \in calls : c.got = "sent" /\ Commit(c)
  /\ UNCHANGED <<isOnline, toggles, overlapped>>

\* NetInfo: no request starts, and no event arrives, while the network is away.
NetworkChanges ==
  /\ IF isOnline THEN Lapse ELSE UNCHANGED lapses
  /\ isOnline' = ~isOnline
  /\ UNCHANGED <<screenVars, flagVars, callVars, serverVars, toggles, overlapped>>

-----------------------------------------------------------------------------
(* The server at work                                                      *)

AnswerWith(c, got) == calls' = (calls \ {c}) \cup {[c EXCEPT !.got = got]}

Serve(c) ==
  /\ c.got = "sent" /\ c.op # "tracking"
  /\ \/ Commit(c) /\ AnswerWith(c, "ok")
     \/ MayRefuse(c) /\ AnswerWith(c, "error") /\ UNCHANGED serverVars
  /\ UNCHANGED <<isOnline, screenVars, flagVars, offersAsked, boundVars>>

\* The request is lost, or its answer is, once it has been committed.
Lose(c) ==
  /\ c.got = "sent" /\ c.op # "tracking"
  /\ Lapse
  /\ Commit(c) \/ UNCHANGED serverVars
  /\ AnswerWith(c, "error")
  /\ UNCHANGED <<isOnline, screenVars, flagVars, offersAsked, toggles, overlapped>>

MakeOffer(d) ==
  /\ offer[d] = "NONE"
  /\ srvStatus = "AVAILABLE"
  /\ offer' = [offer EXCEPT ![d] = "PENDING"]
  /\ UNCHANGED <<isOnline, screenVars, flagVars, callVars, delivery, cancelled, srvStatus,
                 boundVars>>

ExpireOffer(d) ==
  /\ offer[d] = "PENDING"
  /\ offer' = [offer EXCEPT ![d] = "EXPIRED"]
  /\ UNCHANGED <<isOnline, screenVars, flagVars, callVars, delivery, cancelled, srvStatus,
                 boundVars>>

CancelOrder(d) ==
  /\ Mine(d) /\ delivery[d] # "DELIVERED" /\ d \notin cancelled
  /\ cancelled' = cancelled \cup {d}
  /\ UNCHANGED <<isOnline, screenVars, flagVars, callVars, offer, delivery, srvStatus,
                 boundVars>>

-----------------------------------------------------------------------------
Courier ==
  \/ \E s \in CourierStatus : SetCourierStatus(s)
  \/ Refresh \/ Progress \/ FailDelivery \/ ResetFlow
  \/ \E d \in Deliveries : AcceptOffer(d) \/ RejectOffer(d) \/ DismissActiveOfferModal(d)

Answers(c) ==
  \/ CourierStatusAnswered(c) \/ OfferAccepted(c) \/ OfferRejected(c)
  \/ ProgressAnswered(c) \/ TrackingLoaded(c) \/ DeliveryFailed(c)

Environment ==
  \/ OffersLoaded \/ DeepLinkToJobs \/ Restart \/ NetworkChanges
  \/ \E d \in Deliveries :
       \/ MakeOffer(d) \/ ExpireOffer(d) \/ CancelOrder(d)
       \/ JobOffered(d) \/ OrderCancelled(d) \/ CountdownEnds(d)

Next ==
  \/ Courier
  \/ Environment
  \/ \E c \in calls : Serve(c) \/ Lose(c) \/ Answers(c)

Spec == Init /\ [][Next]_vars

-----------------------------------------------------------------------------
(* Properties                                                              *)

\* What the courier is shown as the active delivery the server has given to this
\* courier, whichever offers expired and whichever answers came late.
ActiveIsMine == activeDelivery # None => Mine(activeDelivery)

Unfinished(d) == Mine(d) /\ delivery[d] \notin {"DELIVERED", "FAILED"} /\ d \notin cancelled

\* A delivery that goes on is on the courier's screen, or about to be, unless an
\* answer was lost, the application restarted, a link to the jobs was followed or
\* the status was changed during another request, whose flag it clears, or an order
\* was cancelled, which the late answer of its last request may outlive: nothing else
\* makes the screen forget it, and nothing brings it back.
OnlyLapsesForget ==
  (lapses = 0 /\ ~overlapped /\ cancelled = {}) =>
    \A d \in Deliveries : Unfinished(d) =>
      \/ activeDelivery = d
      \/ \E c \in calls : c.op = "accept" /\ c.of = d /\ c.got = "ok"

\* the phases that go with each status of a delivery
PhaseReached ==
  [PENDING    |-> {"pickup"},
   PICKED_UP  |-> {"pickup", "collected"},
   IN_TRANSIT |-> {"pickup", "collected", "in_transit"},
   DELIVERED  |-> {"pickup", "collected", "in_transit", "completed"},
   FAILED     |-> {"pickup", "collected", "in_transit"}]

\* The screen is never ahead of the delivery it shows, unless an order was cancelled
\* while a step of it was being answered, or one of the lapses above.
PhaseNotAhead ==
  (cancelled = {} /\ lapses = 0 /\ ~overlapped /\ activeDelivery # None) =>
    phase \in PhaseReached[delivery[activeDelivery]]

=============================================================================
