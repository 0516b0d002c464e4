-------------------------- MODULE CourierAppProofs --------------------------
(***************************************************************************)
(* Proofs about CourierApp, for any number of deliveries, requests, status *)
(* changes and lapses: the types, that the delivery shown is one given to  *)
(* the courier, and, as long as nothing lapsed, that the screen neither    *)
(* forgets a delivery nor runs ahead of it.                                *)
(***************************************************************************)
EXTENDS CourierApp, TLAPS

USE DEF screenVars, flagVars, callVars, serverVars, boundVars

-----------------------------------------------------------------------------
(* Requests                                                                *)

\* the subjects of each kind of request
LEMMA RequestTyped ==
  ASSUME NEW c
  PROVE  c \in CallRecord <=>
           /\ c = [op |-> c.op, of |-> c.of, got |-> c.got]
           /\ c.op \in Ops /\ c.of \in Subjects[c.op] /\ c.got \in {"sent", "ok", "error"}
<1>1. ASSUME c \in CallRecord
      PROVE  /\ c = [op |-> c.op, of |-> c.of, got |-> c.got]
             /\ c.op \in Ops /\ c.of \in Subjects[c.op] /\ c.got \in {"sent", "ok", "error"}
  <2>1. PICK o \in Ops : c \in [op : {o}, of : Subjects[o], got : {"sent", "ok", "error"}]
    BY <1>1 DEF CallRecord
  <2> QED
    BY <2>1
<1>2. ASSUME c = [op |-> c.op, of |-> c.of, got |-> c.got], c.op \in Ops,
             c.of \in Subjects[c.op], c.got \in {"sent", "ok", "error"}
      PROVE  c \in CallRecord
  <2>1. c \in [op : {c.op}, of : Subjects[c.op], got : {"sent", "ok", "error"}]
    BY <1>2
  <2> QED
    BY <1>2, <2>1 DEF CallRecord
<1> QED
  BY <1>1, <1>2

LEMMA NewRequest ==
  ASSUME NEW op \in Ops, NEW of \in Subjects[op]
  PROVE  /\ Call(op, of) \in CallRecord
         /\ Call(op, of).op = op /\ Call(op, of).of = of /\ Call(op, of).got = "sent"
<1>1. PICK c : c = Call(op, of)
  OBVIOUS
<1>2. c = [op |-> op, of |-> of, got |-> "sent"]
  BY <1>1 DEF Call
<1>3. c \in CallRecord
  BY <1>2, RequestTyped
<1> QED
  BY <1>1, <1>2, <1>3

\* An answer is the request with what came back.
LEMMA AnswerTyped ==
  ASSUME NEW c \in CallRecord, NEW got \in {"sent", "ok", "error"}
  PROVE  /\ [c EXCEPT !.got = got] \in CallRecord
         /\ [c EXCEPT !.got = got].op = c.op /\ [c EXCEPT !.got = got].of = c.of
         /\ [c EXCEPT !.got = got].got = got
<1>1. PICK a : a = [c EXCEPT !.got = got]
  OBVIOUS
<1>2. a = [op |-> c.op, of |-> c.of, got |-> got]
  BY <1>1, RequestTyped
<1>3. a \in CallRecord
  BY <1>2, RequestTyped
<1> QED
  BY <1>1, <1>2, <1>3

\* what each request is about
LEMMA SubjectTyped ==
  ASSUME NEW c \in CallRecord
  PROVE  /\ c.op \in {"accept", "reject", "fail"} => c.of \in Deliveries
         /\ c.op = "progress" =>
              /\ c.of[1] \in Deliveries
              /\ c.of[2] \in {"PICKED_UP", "IN_TRANSIT", "DELIVERED"}
         /\ c.op = "toggle" => c.of \in CourierStatus
<1>1. c.op \in Ops /\ c.of \in Subjects[c.op]
  BY RequestTyped
<1>2. c.op = "progress" => c.of \in Deliveries \X {"PICKED_UP", "IN_TRANSIT", "DELIVERED"}
  BY <1>1 DEF Subjects, Ops, PhaseAfter
<1> QED
  BY <1>1, <1>2 DEF Subjects, Ops

-----------------------------------------------------------------------------
(* Types                                                                   *)

LEMMA TrackingTyped == LoadTracking \subseteq CallRecord
<1>1. "tracking" \in Ops /\ None \in Subjects["tracking"]
  BY DEF Ops, Subjects
<1> QED
  BY <1>1, NewRequest DEF LoadTracking

LEMMA CommitTyped ==
  ASSUME TypeOK, NEW c \in CallRecord, Commit(c)
  PROVE  /\ offer' \in [Deliveries -> DeliveryOfferStatus \cup {"NONE"}]
         /\ delivery' \in [Deliveries -> DeliveryStatus]
         /\ cancelled' \subseteq Deliveries /\ srvStatus' \in CourierStatus
<1> USE SubjectTyped DEF TypeOK, Mine, HasActiveDelivery, DeliveryOfferStatus, DeliveryStatus,
     CourierStatus
<1>1. CASE c.op = "accept"
  BY <1>1 DEF Commit
<1>2. CASE c.op = "reject"
  BY <1>2 DEF Commit
<1>3. CASE c.op = "progress"
  BY <1>3 DEF Commit
<1>4. CASE c.op = "fail"
  BY <1>4 DEF Commit
<1>5. CASE c.op = "toggle"
  BY <1>5 DEF Commit
<1> QED
  BY <1>1, <1>2, <1>3, <1>4, <1>5 DEF Commit

LEMMA AnswersTyped ==
  ASSUME TypeOK, NEW c \in calls, Answers(c)
  PROVE  TypeOK'
<1> USE SubjectTyped, TrackingTyped DEF TypeOK, Done, Consume, Answered, LoadOffers, OffersEffect
<1>1. CASE CourierStatusAnswered(c)
  BY <1>1 DEF CourierStatusAnswered
<1>2. CASE OfferAccepted(c)
  BY <1>2 DEF OfferAccepted, Phases, CourierStatus
<1>3. CASE OfferRejected(c)
  BY <1>3 DEF OfferRejected
<1>4. CASE ProgressAnswered(c)
  <2>1. c.op = "progress" => PhaseAfter[c.of[2]] \in Phases
    BY DEF PhaseAfter, Phases
  <2> QED
    BY <1>4, <2>1 DEF ProgressAnswered, CourierStatus
<1>5. CASE TrackingLoaded(c)
  BY <1>5 DEF TrackingLoaded
<1>6. CASE DeliveryFailed(c)
  BY <1>6 DEF DeliveryFailed, Phases, CourierStatus
<1> QED
  BY <1>1, <1>2, <1>3, <1>4, <1>5, <1>6 DEF Answers

LEMMA CourierTyped ==
  ASSUME TypeOK, Courier
  PROVE  TypeOK'
<1> USE NewRequest DEF TypeOK, Request
<1>1. ASSUME NEW s \in CourierStatus, SetCourierStatus(s) PROVE TypeOK'
  <2>1. "toggle" \in Ops /\ s \in Subjects["toggle"]
    BY DEF Ops, Subjects
  <2> QED
    BY <1>1, <2>1 DEF SetCourierStatus, Busy
<1>2. CASE Refresh
  BY <1>2 DEF Refresh, LoadOffers
<1>3. CASE Progress
  <2>1. "progress" \in Ops /\ <<activeDelivery, NextStatus[phase]>> \in Subjects["progress"]
    BY <1>3 DEF Progress, Ops, Subjects, NextStatus, PhaseAfter
  <2> QED
    BY <1>3, <2>1 DEF Progress
<1>4. CASE FailDelivery
  <2>1. "fail" \in Ops /\ activeDelivery \in Subjects["fail"]
    BY <1>4 DEF FailDelivery, Ops, Subjects
  <2> QED
    BY <1>4, <2>1 DEF FailDelivery
<1>5. CASE ResetFlow
  BY <1>5 DEF ResetFlow, OffersEffect, LoadOffers, Phases
<1>6. ASSUME NEW d \in Deliveries, AcceptOffer(d) PROVE TypeOK'
  <2>1. "accept" \in Ops /\ d \in Subjects["accept"]
    BY DEF Ops, Subjects
  <2> QED
    BY <1>6, <2>1 DEF AcceptOffer
<1>7. ASSUME NEW d \in Deliveries, RejectOffer(d) PROVE TypeOK'
  <2>1. "reject" \in Ops /\ d \in Subjects["reject"]
    BY DEF Ops, Subjects
  <2> QED
    BY <1>7, <2>1 DEF RejectOffer
<1>8. ASSUME NEW d \in Deliveries, DismissActiveOfferModal(d) PROVE TypeOK'
  BY <1>8 DEF DismissActiveOfferModal
<1> QED
  BY <1>1, <1>2, <1>3, <1>4, <1>5, <1>6, <1>7, <1>8 DEF Courier

LEMMA EnvironmentTyped ==
  ASSUME TypeOK, Environment
  PROVE  TypeOK'
<1> USE DEF TypeOK, LoadOffers, OffersEffect, Lapse
<1>1. CASE OffersLoaded
  BY <1>1 DEF OffersLoaded
<1>2. CASE DeepLinkToJobs
  BY <1>2 DEF DeepLinkToJobs, Phases
<1>3. CASE Restart
  <2>1. /\ offer' \in [Deliveries -> DeliveryOfferStatus \cup {"NONE"}]
        /\ delivery' \in [Deliveries -> DeliveryStatus]
        /\ cancelled' \subseteq Deliveries /\ srvStatus' \in CourierStatus
    <3>1. CASE UNCHANGED serverVars
      BY <3>1
    <3>2. CASE \E c \in calls : Commit(c)
      BY <3>2, CommitTyped
    <3> QED
      BY <1>3, <3>1, <3>2 DEF Restart
  <2>2. lapses' \in Nat
    BY <1>3 DEF Restart
  <2>3. courierStatus' \in CourierStatus /\ phase' \in Phases
    BY <1>3 DEF Restart, Phases, CourierStatus
  <2> QED
    BY <1>3, <2>1, <2>2, <2>3 DEF Restart
<1>4. CASE NetworkChanges
  BY <1>4 DEF NetworkChanges
<1>5. ASSUME NEW d \in Deliveries, MakeOffer(d) \/ ExpireOffer(d) \/ CancelOrder(d)
      PROVE  TypeOK'
  BY <1>5 DEF MakeOffer, ExpireOffer, CancelOrder, DeliveryOfferStatus
<1>6. ASSUME NEW d \in Deliveries, JobOffered(d) \/ CountdownEnds(d)
      PROVE  TypeOK'
  BY <1>6 DEF JobOffered, CountdownEnds
<1>7. ASSUME NEW d \in Deliveries, OrderCancelled(d)
      PROVE  TypeOK'
  BY <1>7 DEF OrderCancelled, Phases, CourierStatus
<1> QED
  BY <1>1, <1>2, <1>3, <1>4, <1>5, <1>6, <1>7 DEF Environment

LEMMA ServerTyped ==
  ASSUME TypeOK, NEW c \in calls, Serve(c) \/ Lose(c)
  PROVE  TypeOK'
<1>1. calls' \subseteq CallRecord
  <2>1. PICK got \in {"ok", "error"} : AnswerWith(c, got)
    BY DEF Serve, Lose
  <2>2. PICK a : a = [c EXCEPT !.got = got] /\ calls' = (calls \ {c}) \cup {a}
    BY <2>1 DEF AnswerWith
  <2>3. a \in CallRecord
    BY <2>2, AnswerTyped DEF TypeOK
  <2> QED
    BY <2>2, <2>3 DEF TypeOK
<1>2. c \in CallRecord
  BY DEF TypeOK
<1> QED
  BY <1>1, <1>2, CommitTyped DEF TypeOK, Serve, Lose, Lapse

LEMMA InitTyped ==
  ASSUME Init
  PROVE  TypeOK
<1>1. courierStatus \in CourierStatus /\ phase \in Phases /\ srvStatus \in CourierStatus
  BY DEF Init, CourierStatus, Phases
<1>2. /\ offer \in [Deliveries -> DeliveryOfferStatus \cup {"NONE"}]
      /\ delivery \in [Deliveries -> DeliveryStatus]
  BY DEF Init, DeliveryStatus
<1>3. lapses \in Nat /\ toggles \in Nat
  BY DEF Init
<1> QED
  BY <1>1, <1>2, <1>3 DEF Init, TypeOK

\* Every reachable state is well typed; a request is about what its kind is about.
THEOREM TypeCorrect == Spec => []TypeOK
<1>1. Init => TypeOK
  BY InitTyped
<1>2. TypeOK /\ [Next]_vars => TypeOK'
  <2> SUFFICES ASSUME TypeOK, [Next]_vars PROVE TypeOK'
    OBVIOUS
  <2>1. CASE UNCHANGED vars
    BY <2>1 DEF vars, TypeOK
  <2>2. CASE Next
    BY <2>2, AnswersTyped, CourierTyped, EnvironmentTyped, ServerTyped DEF Next
  <2> QED
    BY <2>1, <2>2
<1> QED
  BY <1>1, <1>2, PTL DEF Spec

-----------------------------------------------------------------------------
(* The invariants                                                          *)

\* What the courier was given stays the courier's, shown or about to be.
GivenInv ==
  /\ TypeOK
  /\ ActiveIsMine
  /\ \A c \in calls : (c.op = "accept" /\ c.got = "ok") => Mine(c.of)

\* nothing happened that the buttons do not rule out
Calm == lapses = 0 /\ ~overlapped /\ cancelled = {}

\* The refusal of an offer apart, the screen makes one request at a time.
OneAtATime == \A b, c \in calls : (b.op # "reject" /\ c.op # "reject") => b = c

\* How a request under way ties the screen to the server.
Tied(c) ==
  /\ c.op \in {"accept", "progress", "toggle", "tracking"} => loading
  /\ c.op = "accept" => activeDelivery = None
  /\ c.op = "progress" =>
       /\ activeDelivery = c.of[1]
       /\ c.got = "ok" => PhaseAfter[c.of[2]] \in PhaseReached[delivery[c.of[1]]]
  /\ c.op = "fail" =>
       /\ activeDelivery = c.of
       /\ c.got = "ok" => delivery[c.of] = "FAILED"

OfferShowsNone == phase = "offer" => activeDelivery = None

Held(d) == activeDelivery = d \/ \E c \in calls : c.op = "accept" /\ c.of = d /\ c.got = "ok"

NotForgotten == \A d \in Deliveries : Unfinished(d) => Held(d)

NotAhead == activeDelivery # None => phase \in PhaseReached[delivery[activeDelivery]]

CalmInv ==
  /\ OneAtATime
  /\ \A c \in calls : Tied(c)
  /\ OfferShowsNone /\ NotForgotten /\ NotAhead

ScreenInv ==
  /\ GivenInv
  /\ lapses = 0 => isOnline
  /\ Calm => CalmInv

-----------------------------------------------------------------------------
(* What a commit does to the rows                                          *)

\* A delivery only goes forward: the phases that fit it still fit it afterwards.
LEMMA PhasesKept ==
  ASSUME NEW s \in DeliveryStatus, NEW t \in DeliveryStatus, DeliveryCan(s, t)
  PROVE  /\ PhaseReached[s] \subseteq PhaseReached[t]
         /\ s \notin {"DELIVERED", "FAILED"}
BY DEF DeliveryCan, DeliveryEdges, DeliveryStatus, PhaseReached

LEMMA PhaseFits ==
  ASSUME NEW t \in {"PICKED_UP", "IN_TRANSIT", "DELIVERED"}
  PROVE  PhaseAfter[t] \in PhaseReached[t] /\ t \in DeliveryStatus /\ PhaseAfter[t] # "offer"
BY DEF PhaseAfter, PhaseReached, DeliveryStatus

\* an accepted offer stays accepted, and the acceptance committed is one
LEMMA CommitGives ==
  ASSUME TypeOK, NEW c \in CallRecord, Commit(c)
  PROVE  /\ \A d \in Deliveries : Mine(d) => Mine(d)'
         /\ c.op = "accept" => Mine(c.of)'
<1> USE SubjectTyped DEF TypeOK, Mine
<1>1. CASE c.op = "accept"
  BY <1>1 DEF Commit
<1>2. CASE c.op = "reject"
  BY <1>2 DEF Commit
<1>3. CASE c.op \in {"progress", "fail", "toggle"}
  BY <1>3 DEF Commit
<1> QED
  BY <1>1, <1>2, <1>3 DEF Commit

\* what a commit does to the deliveries
LEMMA CommitMoves ==
  ASSUME TypeOK, NEW c \in CallRecord, Commit(c)
  PROVE  /\ c.op \notin {"progress", "fail"} => delivery' = delivery
         /\ cancelled' = cancelled
         /\ \A d \in Deliveries : PhaseReached[delivery[d]] \subseteq PhaseReached[delivery'[d]]
         /\ c.op = "progress" => PhaseAfter[c.of[2]] \in PhaseReached[delivery'[c.of[1]]]
         /\ c.op = "fail" => delivery'[c.of] = "FAILED"
<1> USE SubjectTyped, PhasesKept, PhaseFits DEF TypeOK
<1>1. CASE c.op \in {"accept", "reject", "toggle"}
  BY <1>1 DEF Commit
<1>2. CASE c.op = "progress"
  <2>1. PICK d \in Deliveries, to \in {"PICKED_UP", "IN_TRANSIT", "DELIVERED"} :
          d = c.of[1] /\ to = c.of[2]
    BY <1>2
  <2>2. DeliveryCan(delivery[d], to) /\ delivery' = [delivery EXCEPT ![d] = to]
    BY <1>2, <2>1 DEF Commit
  <2>3. delivery[d] \in DeliveryStatus /\ to \in DeliveryStatus
    OBVIOUS
  <2>4. delivery'[d] = to /\ PhaseReached[delivery[d]] \subseteq PhaseReached[to]
    BY <2>2, <2>3
  <2>5. \A e \in Deliveries : PhaseReached[delivery[e]] \subseteq PhaseReached[delivery'[e]]
    BY <2>2, <2>4
  <2> QED
    BY <1>2, <2>1, <2>4, <2>5 DEF Commit
<1>3. CASE c.op = "fail"
  <2>1. PICK d \in Deliveries : d = c.of
    BY <1>3
  <2>2. DeliveryCan(delivery[d], "FAILED") /\ delivery' = [delivery EXCEPT ![d] = "FAILED"]
    BY <1>3, <2>1 DEF Commit
  <2>3. delivery[d] \in DeliveryStatus /\ "FAILED" \in DeliveryStatus
    BY DEF DeliveryStatus
  <2>4. delivery'[d] = "FAILED" /\ PhaseReached[delivery[d]] \subseteq PhaseReached["FAILED"]
    BY <2>2, <2>3
  <2>5. \A e \in Deliveries : PhaseReached[delivery[e]] \subseteq PhaseReached[delivery'[e]]
    BY <2>2, <2>4
  <2> QED
    BY <1>3, <2>1, <2>4, <2>5 DEF Commit
<1> QED
  BY <1>1, <1>2, <1>3 DEF Commit

\* Only an acceptance gives the courier a delivery that goes on.
LEMMA CommitBegins ==
  ASSUME TypeOK, NEW c \in CallRecord, Commit(c), NEW d \in Deliveries, Unfinished(d)'
  PROVE  Unfinished(d) \/ (c.op = "accept" /\ c.of = d)
<1> USE SubjectTyped, PhasesKept DEF TypeOK, Mine, Unfinished
<1>1. CASE c.op \in {"accept", "reject", "toggle"}
  BY <1>1 DEF Commit
<1>2. CASE c.op = "progress"
  <2>1. PICK e \in Deliveries, to \in {"PICKED_UP", "IN_TRANSIT", "DELIVERED"} :
          e = c.of[1] /\ to = c.of[2]
    BY <1>2
  <2>2. /\ DeliveryCan(delivery[e], to) /\ delivery' = [delivery EXCEPT ![e] = to]
        /\ UNCHANGED <<offer, cancelled>>
    BY <1>2, <2>1 DEF Commit
  <2>3. delivery[e] \in DeliveryStatus /\ to \in DeliveryStatus
    BY DEF DeliveryStatus
  <2>4. delivery[e] \notin {"DELIVERED", "FAILED"}
    BY <2>2, <2>3
  <2> QED
    BY <2>2, <2>4
<1>3. CASE c.op = "fail"
  BY <1>3 DEF Commit
<1> QED
  BY <1>1, <1>2, <1>3 DEF Commit

-----------------------------------------------------------------------------
(* The delivery shown is the courier's                                     *)

\* An answer is the request with a mark; the others under way stay as they were.
LEMMA AnswerMade ==
  ASSUME TypeOK, NEW c \in calls, NEW got \in {"sent", "ok", "error"}, AnswerWith(c, got)
  PROVE  \E a \in CallRecord :
           /\ a.op = c.op /\ a.of = c.of /\ a.got = got
           /\ calls' = (calls \ {c}) \cup {a}
<1>1. PICK a : a = [c EXCEPT !.got = got] /\ calls' = (calls \ {c}) \cup {a}
  BY DEF AnswerWith
<1>2. c \in CallRecord
  BY DEF TypeOK
<1>3. a \in CallRecord /\ a.op = c.op /\ a.of = c.of /\ a.got = got
  BY <1>1, <1>2, AnswerTyped
<1> QED
  BY <1>1, <1>3

\* a request just made is unanswered
LEMMA RequestMade ==
  ASSUME NEW op \in Ops, NEW of \in Subjects[op], Request(Call(op, of))
  PROVE  \E a \in CallRecord :
           /\ a.op = op /\ a.of = of /\ a.got = "sent"
           /\ calls' = calls \cup {a}
BY NewRequest DEF Request

\* the tracking that a handler waits for
LEMMA TrackingMade ==
  ASSUME NEW a \in LoadTracking
  PROVE  isOnline /\ a.op = "tracking" /\ a.got = "sent"
<1>1. "tracking" \in Ops /\ None \in Subjects["tracking"]
  BY DEF Ops, Subjects
<1> QED
  BY <1>1, NewRequest DEF LoadTracking

\* an offer accepted is the courier's for good
LEMMA MineKept ==
  ASSUME TypeOK, Next, NEW d \in Deliveries, Mine(d)
  PROVE  Mine(d)'
<1>1. CASE \E c \in calls : Serve(c) \/ Lose(c)
  BY <1>1, CommitGives DEF TypeOK, Serve, Lose, Mine
<1>2. CASE \E c \in calls : Answers(c)
  BY <1>2 DEF Answers, CourierStatusAnswered, OfferAccepted, OfferRejected, ProgressAnswered,
              TrackingLoaded, DeliveryFailed, Mine
<1>3. CASE Courier
  BY <1>3 DEF Courier, SetCourierStatus, Refresh, Progress, FailDelivery, ResetFlow,
              AcceptOffer, RejectOffer, DismissActiveOfferModal, Mine
<1>4. CASE Environment
  <2>1. CASE Restart
    BY <2>1, CommitGives DEF Restart, TypeOK, Mine
  <2>2. CASE OffersLoaded \/ DeepLinkToJobs \/ NetworkChanges
    BY <2>2 DEF OffersLoaded, DeepLinkToJobs, NetworkChanges, Mine
  <2>3. CASE \E e \in Deliveries : MakeOffer(e) \/ ExpireOffer(e)
    BY <2>3 DEF MakeOffer, ExpireOffer, Mine, TypeOK
  <2>4. CASE \E e \in Deliveries : \/ CancelOrder(e) \/ JobOffered(e)
                                 \/ OrderCancelled(e) \/ CountdownEnds(e)
    BY <2>4 DEF CancelOrder, JobOffered, OrderCancelled, CountdownEnds, Mine
  <2> QED
    BY <1>4, <2>1, <2>2, <2>3, <2>4 DEF Environment
<1> QED
  BY <1>1, <1>2, <1>3, <1>4 DEF Next

LEMMA GivenStep ==
  ASSUME GivenInv, Next
  PROVE  GivenInv'
<1>1. TypeOK /\ TypeOK'
  BY AnswersTyped, CourierTyped, EnvironmentTyped, ServerTyped DEF Next, GivenInv
<1>2. SUFFICES /\ activeDelivery' # None => offer'[activeDelivery'] = "ACCEPTED"
               /\ \A c \in calls' : (c.op = "accept" /\ c.got = "ok") => Mine(c.of)'
  BY <1>1 DEF GivenInv, ActiveIsMine, Mine
<1>3. \A d \in Deliveries : Mine(d) => Mine(d)'
  BY <1>1, MineKept
<1>4. activeDelivery # None => offer'[activeDelivery] = "ACCEPTED"
  BY <1>1, <1>3 DEF GivenInv, ActiveIsMine, TypeOK, Mine
<1>5. \A c \in calls : (c.op = "accept" /\ c.got = "ok") => Mine(c.of)'
  BY <1>1, <1>3, SubjectTyped DEF GivenInv, TypeOK
<1>6. CASE \E c \in calls : Serve(c) \/ Lose(c)
  <2>1. PICK c \in calls : Serve(c) \/ Lose(c)
    BY <1>6
  <2>2. PICK got \in {"ok", "error"} : AnswerWith(c, got) /\ (got = "ok" => Commit(c))
    BY <2>1 DEF Serve, Lose
  <2>3. PICK a \in CallRecord : /\ a.op = c.op /\ a.of = c.of /\ a.got = got
                               /\ calls' = (calls \ {c}) \cup {a}
    BY <1>1, <2>2, AnswerMade
  <2>4. (a.op = "accept" /\ a.got = "ok") => Mine(a.of)'
    BY <1>1, <2>2, <2>3, CommitGives DEF TypeOK
  <2>5. UNCHANGED activeDelivery
    BY <2>1 DEF Serve, Lose
  <2> QED
    BY <1>4, <1>5, <2>3, <2>4, <2>5
<1>7. CASE \E c \in calls : Answers(c)
  <2>1. PICK c \in calls : Answers(c)
    BY <1>7
  <2>2. calls' \subseteq calls \cup LoadTracking
    BY <2>1 DEF Answers, CourierStatusAnswered, OfferAccepted, OfferRejected, ProgressAnswered,
                TrackingLoaded, DeliveryFailed, Consume
  <2>3. \/ activeDelivery' \in {activeDelivery, None}
        \/ c.op = "accept" /\ c.got = "ok" /\ activeDelivery' = c.of
    <3>1. CASE OfferAccepted(c)
      BY <1>1, <3>1, RequestTyped DEF OfferAccepted, Answered, TypeOK
    <3> QED
      BY <2>1, <3>1 DEF Answers, CourierStatusAnswered, OfferRejected, ProgressAnswered,
                TrackingLoaded, DeliveryFailed
  <2>4. \A a \in LoadTracking : a.op # "accept"
    BY TrackingMade
  <2>5. (c.op = "accept" /\ c.got = "ok") => offer'[c.of] = "ACCEPTED"
    BY <1>5 DEF Mine
  <2> QED
    BY <1>4, <1>5, <2>2, <2>3, <2>4, <2>5
<1>8. CASE Courier
  <2>1. activeDelivery' \in {activeDelivery, None}
    BY <1>8 DEF Courier, SetCourierStatus, Refresh, Progress, FailDelivery, ResetFlow,
                AcceptOffer, RejectOffer, DismissActiveOfferModal
  <2>2. \A c \in calls' : c \in calls \/ c.got = "sent"
    BY <1>8 DEF Courier, SetCourierStatus, Refresh, Progress, FailDelivery, ResetFlow,
                AcceptOffer, RejectOffer, DismissActiveOfferModal, Request, Call
  <2> QED
    BY <1>4, <1>5, <2>1, <2>2
<1>9. CASE Environment
  <2>1. activeDelivery' \in {activeDelivery, None} /\ calls' \subseteq calls
    BY <1>9 DEF Environment, OffersLoaded, DeepLinkToJobs, Restart, NetworkChanges, MakeOffer,
                ExpireOffer, CancelOrder, JobOffered, OrderCancelled, CountdownEnds
  <2> QED
    BY <1>4, <1>5, <2>1
<1> QED
  BY <1>6, <1>7, <1>8, <1>9 DEF Next

\* What the courier is shown as the active delivery the server has given to this
\* courier, however many offers, answers and restarts there are.
THEOREM ShownIsGiven == Spec => []ActiveIsMine
<1>1. Init => GivenInv
  BY InitTyped DEF Init, GivenInv, ActiveIsMine
<1>2. GivenInv /\ [Next]_vars => GivenInv'
  <2>1. GivenInv /\ UNCHANGED vars => GivenInv'
    BY DEF vars, GivenInv, TypeOK, ActiveIsMine, Mine
  <2> QED
    BY <2>1, GivenStep
<1>3. GivenInv => ActiveIsMine
  BY DEF GivenInv
<1> QED
  BY <1>1, <1>2, <1>3, PTL DEF Spec

-----------------------------------------------------------------------------
(* The screen keeps up with the delivery while nothing lapses              *)

\* the flag, and the modal, keep the buttons from a second request
LEMMA OnlyRejects ==
  ASSUME CalmInv, TypeOK, ~loading, Uncovered
  PROVE  \A c \in calls : c.op = "reject"
<1>1. \A c \in calls : c.op \in Ops /\ Tied(c)
  BY RequestTyped DEF TypeOK, CalmInv
<1> QED
  BY <1>1 DEF Tied, Ops, Uncovered

\* Nothing that the invariant reads changes but the rows of offers not given.
LEMMA Undisturbed ==
  ASSUME CalmInv, UNCHANGED <<phase, activeDelivery, loading, calls, delivery>>,
         \A d \in Deliveries : Unfinished(d)' => Unfinished(d)
  PROVE  CalmInv'
BY DEF CalmInv, OneAtATime, Tied, OfferShowsNone, NotForgotten, Held, NotAhead

\* A request is made while no other is under way, or it refuses an offer.
LEMMA NewTied ==
  ASSUME CalmInv, NEW a, calls' = calls \cup {a}, a.got = "sent",
         a.op = "reject" \/ \A c \in calls : c.op = "reject",
         UNCHANGED <<phase, activeDelivery, offer, delivery, cancelled>>,
         loading => loading',
         a.op \in {"accept", "progress", "toggle", "tracking"} => loading',
         a.op = "accept" => activeDelivery = None,
         a.op = "progress" => activeDelivery = a.of[1],
         a.op = "fail" => activeDelivery = a.of
  PROVE  CalmInv'
<1>1. OneAtATime'
  BY DEF CalmInv, OneAtATime
<1>2. \A c \in calls' : Tied(c)'
  BY DEF CalmInv, Tied
<1>3. OfferShowsNone' /\ NotAhead'
  BY DEF CalmInv, OfferShowsNone, NotAhead
<1>4. NotForgotten'
  BY DEF CalmInv, NotForgotten, Held, Unfinished, Mine
<1> QED
  BY <1>1, <1>2, <1>3, <1>4 DEF CalmInv

\* When the one request has been answered, only the tracking may be under way.
LEMMA LastAnswered ==
  ASSUME CalmInv, NEW c \in calls, c.op # "reject",
         NEW more, more \subseteq LoadTracking, Consume(c, more), more = {} \/ loading'
  PROVE  /\ OneAtATime' /\ \A b \in calls' : Tied(b)'
         /\ \A d : Held(d) => activeDelivery = d \/ (c.op = "accept" /\ c.of = d)
<1>1. \A b \in calls : b # c => b.op = "reject"
  BY DEF CalmInv, OneAtATime
<1>2. \A b \in calls' : b.op = "reject" \/ (b \in more /\ b.op = "tracking" /\ loading')
  BY <1>1, TrackingMade DEF Consume
<1>3. OneAtATime'
  <2>1. \A a, b \in more : a = b
    BY DEF LoadTracking
  <2> QED
    BY <1>2, <2>1 DEF OneAtATime
<1>4. \A b \in calls' : Tied(b)'
  BY <1>2 DEF Tied
<1> QED
  BY <1>1, <1>3, <1>4 DEF Held

LEMMA CalmCourier ==
  ASSUME TypeOK, CalmInv, Courier, ~overlapped'
  PROVE  CalmInv'
<1>1. ASSUME NEW s \in CourierStatus, SetCourierStatus(s) PROVE CalmInv'
  <2>1. "toggle" \in Ops /\ s \in Subjects["toggle"]
    BY DEF Ops, Subjects
  <2>2. PICK a \in CallRecord : /\ a.op = "toggle" /\ a.of = s /\ a.got = "sent"
                               /\ calls' = calls \cup {a}
    BY <1>1, <2>1, RequestMade DEF SetCourierStatus
  <2>3. \A c \in calls : c.op = "reject"
    BY <1>1 DEF SetCourierStatus, Busy
  <2> QED
    BY <1>1, <2>2, <2>3, NewTied DEF SetCourierStatus
<1>2. CASE Refresh
  BY <1>2, Undisturbed DEF Refresh, Unfinished, Mine
<1>3. CASE Progress
  <2>1. "progress" \in Ops /\ <<activeDelivery, NextStatus[phase]>> \in Subjects["progress"]
    BY <1>3 DEF Progress, Ops, Subjects, NextStatus, PhaseAfter, TypeOK
  <2>2. PICK a \in CallRecord : /\ a.op = "progress" /\ a.of[1] = activeDelivery
                               /\ a.got = "sent" /\ calls' = calls \cup {a}
    BY <1>3, <2>1, RequestMade DEF Progress
  <2>3. \A c \in calls : c.op = "reject"
    BY <1>3, OnlyRejects DEF Progress
  <2> QED
    BY <1>3, <2>2, <2>3, NewTied DEF Progress
<1>4. CASE FailDelivery
  <2>1. "fail" \in Ops /\ activeDelivery \in Subjects["fail"]
    BY <1>4 DEF FailDelivery, Ops, Subjects, TypeOK
  <2>2. PICK a \in CallRecord : /\ a.op = "fail" /\ a.of = activeDelivery
                               /\ a.got = "sent" /\ calls' = calls \cup {a}
    BY <1>4, <2>1, RequestMade DEF FailDelivery
  <2>3. \A c \in calls : c.op = "reject"
    BY <1>4, OnlyRejects DEF FailDelivery
  <2> QED
    BY <1>4, <2>2, <2>3, NewTied DEF FailDelivery
<1>5. CASE ResetFlow
  <2>1. /\ \A c \in calls : c.op = "reject"
        /\ phase = "completed" /\ phase' = "offer" /\ activeDelivery' = None
        /\ UNCHANGED <<loading, calls, offer, delivery, cancelled>>
    BY <1>5, OnlyRejects DEF ResetFlow
  <2>2. ASSUME NEW d \in Deliveries, Unfinished(d) PROVE FALSE
    <3>1. activeDelivery = d
      BY <2>1, <2>2 DEF CalmInv, NotForgotten, Held
    <3>2. d # None
      BY CourierAppAssumption
    <3>3. "completed" \in PhaseReached[delivery[d]]
      BY <2>1, <3>1, <3>2 DEF CalmInv, NotAhead
    <3>4. delivery[d] \in DeliveryStatus /\ delivery[d] # "DELIVERED"
      BY <2>2 DEF TypeOK, Unfinished
    <3> QED
      BY <3>3, <3>4 DEF PhaseReached, DeliveryStatus
  <2>3. NotForgotten'
    BY <2>1, <2>2 DEF NotForgotten, Unfinished, Mine
  <2>4. OneAtATime' /\ (\A c \in calls' : Tied(c)') /\ OfferShowsNone' /\ NotAhead'
    BY <2>1 DEF OneAtATime, Tied, OfferShowsNone, NotAhead
  <2> QED
    BY <2>3, <2>4 DEF CalmInv
<1>6. ASSUME NEW d \in Deliveries, AcceptOffer(d) PROVE CalmInv'
  <2>1. "accept" \in Ops /\ d \in Subjects["accept"]
    BY DEF Ops, Subjects
  <2>2. PICK a \in CallRecord : /\ a.op = "accept" /\ a.of = d /\ a.got = "sent"
                               /\ calls' = calls \cup {a}
    BY <1>6, <2>1, RequestMade DEF AcceptOffer
  <2>3. \A c \in calls : c.op = "reject"
    BY <1>6, OnlyRejects DEF AcceptOffer
  <2>4. activeDelivery = None
    BY <1>6 DEF AcceptOffer, WaitsForOffers, CalmInv, OfferShowsNone
  <2> QED
    BY <1>6, <2>2, <2>3, <2>4, NewTied DEF AcceptOffer
<1>7. ASSUME NEW d \in Deliveries, RejectOffer(d) PROVE CalmInv'
  <2>1. "reject" \in Ops /\ d \in Subjects["reject"]
    BY DEF Ops, Subjects
  <2>2. PICK a \in CallRecord : /\ a.op = "reject" /\ a.of = d /\ a.got = "sent"
                               /\ calls' = calls \cup {a}
    BY <1>7, <2>1, RequestMade DEF RejectOffer
  <2> QED
    BY <1>7, <2>2, NewTied DEF RejectOffer
<1>8. ASSUME NEW d \in Deliveries, DismissActiveOfferModal(d) PROVE CalmInv'
  BY <1>8, Undisturbed DEF DismissActiveOfferModal, Unfinished, Mine
<1> QED
  BY <1>1, <1>2, <1>3, <1>4, <1>5, <1>6, <1>7, <1>8 DEF Courier

LEMMA CalmAnswers ==
  ASSUME TypeOK, CalmInv, isOnline, NEW c \in calls, Answers(c)
  PROVE  CalmInv'
<1>1. CASE OfferRejected(c)
  <2>1. /\ c.op = "reject" /\ calls' = calls \ {c}
        /\ UNCHANGED <<phase, activeDelivery, loading, offer, delivery, cancelled>>
    BY <1>1 DEF OfferRejected, Answered, Consume
  <2>2. OneAtATime' /\ OfferShowsNone' /\ NotAhead'
    BY <2>1 DEF CalmInv, OneAtATime, OfferShowsNone, NotAhead
  <2>3. \A b \in calls' : Tied(b)'
    BY <2>1 DEF CalmInv, Tied
  <2>4. NotForgotten'
    BY <2>1 DEF CalmInv, NotForgotten, Held, Unfinished, Mine
  <2> QED
    BY <2>2, <2>3, <2>4 DEF CalmInv
<1>2. ASSUME NEW more \in {{}, LoadTracking}, c.op # "reject", Consume(c, more),
             more = {} \/ loading', UNCHANGED serverVars,
             OfferShowsNone', NotAhead',
             \A d \in Deliveries :
               (Unfinished(d) /\ (activeDelivery = d \/ (c.op = "accept" /\ c.of = d))) =>
                 activeDelivery' = d
      PROVE  CalmInv'
  <2>1. /\ OneAtATime' /\ \A b \in calls' : Tied(b)'
        /\ \A d : Held(d) => activeDelivery = d \/ (c.op = "accept" /\ c.of = d)
    BY <1>2, LastAnswered
  <2>2. NotForgotten'
    BY <1>2, <2>1 DEF CalmInv, NotForgotten, Held, Unfinished, Mine
  <2> QED
    BY <1>2, <2>1, <2>2 DEF CalmInv
<1>3. Tied(c)
  BY DEF CalmInv
<1>4. CASE CourierStatusAnswered(c)
  <2>1. /\ c.op = "toggle" /\ Consume(c, {})
        /\ UNCHANGED <<phase, activeDelivery, serverVars>>
    BY <1>4 DEF CourierStatusAnswered, Answered
  <2>2. OfferShowsNone' /\ NotAhead'
    BY <2>1 DEF CalmInv, OfferShowsNone, NotAhead
  <2> QED
    BY <1>2, <2>1, <2>2
<1>5. CASE OfferAccepted(c)
  <2>1. c.op = "accept" /\ UNCHANGED serverVars /\ loading /\ activeDelivery = None
    BY <1>3, <1>5 DEF OfferAccepted, Answered, Tied
  <2>2. \A d \in Deliveries : Unfinished(d) => ~(activeDelivery = d)
    BY <2>1, CourierAppAssumption
  <2>3. CASE c.got = "error"
    <3>1. Consume(c, {}) /\ UNCHANGED <<phase, activeDelivery>>
      BY <1>5, <2>3 DEF OfferAccepted
    <3>2. OfferShowsNone' /\ NotAhead'
      BY <2>1, <3>1 DEF CalmInv, OfferShowsNone, NotAhead
    <3>3. ASSUME NEW d \in Deliveries, Unfinished(d), c.of = d PROVE FALSE
      <4>1. Held(d)
        BY <3>3 DEF CalmInv, NotForgotten
      <4>2. PICK b \in calls : b.op = "accept" /\ b.got = "ok"
        BY <2>2, <3>3, <4>1 DEF Held
      <4>3. b = c
        BY <2>1, <4>2 DEF CalmInv, OneAtATime
      <4> QED
        BY <2>3, <4>2, <4>3
    <3> QED
      BY <1>2, <2>1, <2>2, <3>1, <3>2, <3>3
  <2>4. CASE c.got # "error"
    <3>1. /\ activeDelivery' = c.of /\ phase' = "pickup"
          /\ Consume(c, LoadTracking) /\ loading'
      BY <1>5, <2>1, <2>4 DEF OfferAccepted
    <3>2. c.of \in Deliveries /\ c.of # None
      BY <2>1, SubjectTyped, CourierAppAssumption DEF TypeOK
    <3>3. delivery'[c.of] \in DeliveryStatus
      BY <2>1, <3>2 DEF TypeOK
    <3>4. OfferShowsNone' /\ NotAhead'
      BY <3>1, <3>2, <3>3 DEF OfferShowsNone, NotAhead, PhaseReached, DeliveryStatus
    <3> QED
      BY <1>2, <2>1, <2>2, <3>1, <3>4
  <2> QED
    BY <2>3, <2>4
<1>6. CASE ProgressAnswered(c)
  <2>1. /\ c.op = "progress" /\ loading /\ activeDelivery = c.of[1]
        /\ UNCHANGED <<activeDelivery, serverVars>>
    BY <1>3, <1>6 DEF ProgressAnswered, Answered, Tied
  <2>2. CASE c.got = "error"
    <3>1. Consume(c, {}) /\ UNCHANGED phase
      BY <1>6, <2>2 DEF ProgressAnswered
    <3>2. OfferShowsNone' /\ NotAhead'
      BY <2>1, <3>1 DEF CalmInv, OfferShowsNone, NotAhead
    <3> QED
      BY <1>2, <2>1, <3>1, <3>2
  <2>3. CASE c.got # "error"
    <3>1. c.got = "ok"
      BY <1>6, <2>3, RequestTyped DEF ProgressAnswered, Answered, TypeOK
    <3>2. phase' = PhaseAfter[c.of[2]] /\ Consume(c, LoadTracking) /\ loading'
      BY <1>6, <2>1, <2>3 DEF ProgressAnswered
    <3>3. PhaseAfter[c.of[2]] \in PhaseReached[delivery[c.of[1]]]
      BY <1>3, <2>1, <3>1 DEF Tied
    <3>4. c.of[2] \in {"PICKED_UP", "IN_TRANSIT", "DELIVERED"}
      BY <2>1, SubjectTyped DEF TypeOK
    <3>5. OfferShowsNone' /\ NotAhead'
      BY <2>1, <3>2, <3>3, <3>4, PhaseFits DEF OfferShowsNone, NotAhead
    <3> QED
      BY <1>2, <2>1, <3>2, <3>5
  <2> QED
    BY <2>2, <2>3
<1>7. CASE TrackingLoaded(c)
  <2>1. /\ c.op = "tracking" /\ Consume(c, {})
        /\ UNCHANGED <<phase, activeDelivery, serverVars>>
    BY <1>7 DEF TrackingLoaded
  <2>2. OfferShowsNone' /\ NotAhead'
    BY <2>1 DEF CalmInv, OfferShowsNone, NotAhead
  <2> QED
    BY <1>2, <2>1, <2>2
<1>8. CASE DeliveryFailed(c)
  <2>1. c.op = "fail" /\ activeDelivery = c.of /\ Consume(c, {}) /\ UNCHANGED serverVars
    BY <1>3, <1>8 DEF DeliveryFailed, Answered, Tied
  <2>2. CASE c.got = "error"
    <3>1. UNCHANGED <<phase, activeDelivery>>
      BY <1>8, <2>2 DEF DeliveryFailed
    <3>2. OfferShowsNone' /\ NotAhead'
      BY <2>1, <3>1 DEF CalmInv, OfferShowsNone, NotAhead
    <3> QED
      BY <1>2, <2>1, <3>1, <3>2
  <2>3. CASE c.got # "error"
    <3>1. c.got = "ok"
      BY <1>8, <2>3, RequestTyped DEF DeliveryFailed, Answered, TypeOK
    <3>2. phase' = "offer" /\ activeDelivery' = None
      BY <1>8, <2>3 DEF DeliveryFailed
    <3>3. delivery[activeDelivery] = "FAILED"
      BY <1>3, <2>1, <3>1 DEF Tied
    <3>4. ASSUME NEW d \in Deliveries, Unfinished(d) PROVE activeDelivery # d
      BY <3>3, <3>4 DEF Unfinished
    <3>5. OfferShowsNone' /\ NotAhead'
      BY <3>2 DEF OfferShowsNone, NotAhead
    <3> QED
      BY <1>2, <2>1, <3>4, <3>5
  <2> QED
    BY <2>2, <2>3
<1> QED
  BY <1>1, <1>4, <1>5, <1>6, <1>7, <1>8 DEF Answers

LEMMA CalmServer ==
  ASSUME TypeOK, CalmInv, NEW c \in calls, Serve(c)
  PROVE  CalmInv'
<1>1. PICK got \in {"ok", "error"} :
        /\ AnswerWith(c, got)
        /\ \/ got = "ok" /\ Commit(c)
           \/ got = "error" /\ UNCHANGED serverVars
  BY DEF Serve
<1>2. PICK a \in CallRecord : /\ a.op = c.op /\ a.of = c.of /\ a.got = got
                             /\ calls' = (calls \ {c}) \cup {a}
  BY <1>1, AnswerMade
<1>3. c \in CallRecord /\ c.got = "sent" /\ UNCHANGED <<phase, activeDelivery, loading>>
  BY DEF Serve, TypeOK
<1>4. /\ c.op \notin {"progress", "fail"} => delivery' = delivery
      /\ \A d \in Deliveries : PhaseReached[delivery[d]] \subseteq PhaseReached[delivery'[d]]
      /\ c.op = "progress" /\ got = "ok" =>
           PhaseAfter[c.of[2]] \in PhaseReached[delivery'[c.of[1]]]
      /\ c.op = "fail" /\ got = "ok" => delivery'[c.of] = "FAILED"
  BY <1>1, <1>3, CommitMoves
<1>5. OneAtATime'
  BY <1>2 DEF CalmInv, OneAtATime
<1>6. OfferShowsNone'
  BY <1>3 DEF CalmInv, OfferShowsNone
<1>7. NotAhead'
  <2>1. activeDelivery \in Deliveries \cup {None}
    BY DEF TypeOK
  <2> QED
    BY <1>3, <1>4, <2>1 DEF CalmInv, NotAhead
<1>8. ASSUME NEW b \in calls' PROVE Tied(b)'
  <2>1. CASE b = a
    <3>1. Tied(c)
      BY DEF CalmInv
    <3> QED
      BY <1>2, <1>3, <1>4, <2>1, <3>1 DEF Tied
  <2>2. CASE b # a
    <3>1. b \in calls /\ b # c /\ Tied(b)
      BY <1>2, <2>2 DEF CalmInv
    <3>2. b.op = "reject" \/ c.op = "reject"
      BY <3>1 DEF CalmInv, OneAtATime
    <3>3. c.op = "reject" => delivery' = delivery
      BY <1>4
    <3> QED
      BY <1>3, <3>1, <3>2, <3>3 DEF Tied
  <2> QED
    BY <2>1, <2>2
<1>9. NotForgotten'
  <2> SUFFICES ASSUME NEW d \in Deliveries, Unfinished(d)' PROVE Held(d)'
    BY DEF NotForgotten
  <2>1. Unfinished(d) \/ (got = "ok" /\ c.op = "accept" /\ c.of = d)
    BY <1>1, <1>3, CommitBegins DEF Unfinished, Mine
  <2>2. Held(d) => Held(d)'
    BY <1>2, <1>3 DEF Held
  <2>3. (got = "ok" /\ c.op = "accept" /\ c.of = d) => Held(d)'
    BY <1>2 DEF Held
  <2> QED
    BY <2>1, <2>2, <2>3 DEF CalmInv, NotForgotten
<1> QED
  BY <1>5, <1>6, <1>7, <1>8, <1>9 DEF CalmInv

\* The environment's steps either count as a lapse or leave all this alone.
LEMMA CalmEnvironment ==
  ASSUME TypeOK, CalmInv, Calm, Calm', isOnline, Environment
  PROVE  CalmInv'
<1>1. ~(DeepLinkToJobs \/ Restart \/ NetworkChanges)
  BY DEF DeepLinkToJobs, Restart, NetworkChanges, Lapse, Calm, TypeOK
<1>2. \A d \in Deliveries : ~CancelOrder(d) /\ ~OrderCancelled(d)
  BY DEF CancelOrder, OrderCancelled, Calm
<1>3. CASE OffersLoaded
  BY <1>3, Undisturbed DEF OffersLoaded, Unfinished, Mine
<1>4. ASSUME NEW d \in Deliveries, JobOffered(d) \/ CountdownEnds(d) PROVE CalmInv'
  BY <1>4, Undisturbed DEF JobOffered, CountdownEnds, Unfinished, Mine
<1>5. ASSUME NEW d \in Deliveries, MakeOffer(d) \/ ExpireOffer(d) PROVE CalmInv'
  <2>1. /\ UNCHANGED <<phase, activeDelivery, loading, calls, delivery, cancelled>>
        /\ \A e \in Deliveries : offer'[e] = "ACCEPTED" => offer[e] = "ACCEPTED"
    BY <1>5 DEF MakeOffer, ExpireOffer, TypeOK
  <2> QED
    BY <2>1, Undisturbed DEF Unfinished, Mine
<1> QED
  BY <1>1, <1>2, <1>3, <1>4, <1>5 DEF Environment

\* Lapses are counted, and neither an overlap nor a cancellation is taken back.
LEMMA CalmBefore ==
  ASSUME TypeOK, Next
  PROVE  /\ Calm' => Calm
         /\ lapses' = 0 => lapses = 0
         /\ (lapses' = 0 /\ isOnline) => isOnline'
<1>1. CASE \E c \in calls : Serve(c) \/ Lose(c)
  <2>1. PICK c \in calls : Serve(c) \/ Lose(c)
    BY <1>1
  <2>2. cancelled' = cancelled
    BY <2>1, CommitMoves DEF Serve, Lose, TypeOK
  <2> QED
    BY <2>1, <2>2 DEF Serve, Lose, Lapse, Calm, TypeOK
<1>2. CASE \E c \in calls : Answers(c)
  BY <1>2 DEF Answers, CourierStatusAnswered, OfferAccepted, OfferRejected, ProgressAnswered,
              TrackingLoaded, DeliveryFailed, Calm
<1>3. CASE Courier
  <2>1. UNCHANGED <<isOnline, lapses, cancelled>> /\ (overlapped => overlapped')
    <3>1. ASSUME NEW s \in CourierStatus, SetCourierStatus(s)
          PROVE  UNCHANGED <<isOnline, lapses, cancelled>> /\ (overlapped => overlapped')
      BY <3>1 DEF SetCourierStatus
    <3>2. CASE \/ Refresh \/ Progress \/ FailDelivery \/ ResetFlow
               \/ \E d \in Deliveries :
                    AcceptOffer(d) \/ RejectOffer(d) \/ DismissActiveOfferModal(d)
      BY <3>2 DEF Refresh, Progress, FailDelivery, ResetFlow, AcceptOffer, RejectOffer,
                  DismissActiveOfferModal
    <3> QED
      BY <1>3, <3>1, <3>2 DEF Courier
  <2> QED
    BY <2>1 DEF Calm
<1>4. CASE Environment
  <2>1. CASE DeepLinkToJobs \/ Restart \/ NetworkChanges
    BY <2>1 DEF DeepLinkToJobs, Restart, NetworkChanges, Lapse, Calm, TypeOK
  <2>2. CASE OffersLoaded \/ \E d \in Deliveries :
               \/ MakeOffer(d) \/ ExpireOffer(d) \/ CancelOrder(d)
               \/ JobOffered(d) \/ OrderCancelled(d) \/ CountdownEnds(d)
    BY <2>2 DEF OffersLoaded, MakeOffer, ExpireOffer, CancelOrder, JobOffered, OrderCancelled,
                CountdownEnds, Calm
  <2> QED
    BY <1>4, <2>1, <2>2 DEF Environment
<1> QED
  BY <1>1, <1>2, <1>3, <1>4 DEF Next

LEMMA ScreenInvStep ==
  ASSUME ScreenInv, Next
  PROVE  ScreenInv'
<1>1. GivenInv' /\ TypeOK
  BY GivenStep DEF ScreenInv, GivenInv
<1>2. lapses' = 0 => isOnline'
  BY <1>1, CalmBefore DEF ScreenInv
<1>3. ASSUME Calm' PROVE CalmInv'
  <2>1. Calm /\ CalmInv /\ isOnline /\ ~overlapped' /\ lapses' = 0 /\ lapses = 0
    BY <1>1, <1>3, CalmBefore DEF ScreenInv, Calm
  <2>2. \A c \in calls : ~Lose(c)
    BY <1>1, <2>1 DEF Lose, Lapse
  <2> QED
    BY <1>1, <1>3, <2>1, <2>2, CalmCourier, CalmAnswers, CalmServer, CalmEnvironment DEF Next
<1> QED
  BY <1>1, <1>2, <1>3 DEF ScreenInv

LEMMA ScreenInvAlways == Spec => []ScreenInv
<1>1. Init => ScreenInv
  <2> SUFFICES ASSUME Init PROVE ScreenInv
    OBVIOUS
  <2>1. GivenInv /\ (lapses = 0 => isOnline)
    BY InitTyped DEF Init, GivenInv, ActiveIsMine
  <2>2. CalmInv
    BY DEF Init, CalmInv, OneAtATime, Tied, OfferShowsNone, NotForgotten, NotAhead,
           Unfinished, Mine
  <2> QED
    BY <2>1, <2>2 DEF ScreenInv
<1>2. ScreenInv /\ [Next]_vars => ScreenInv'
  <2>1. ASSUME ScreenInv, UNCHANGED vars PROVE ScreenInv'
    <3>1. GivenInv'
      BY <2>1 DEF vars, ScreenInv, GivenInv, TypeOK, ActiveIsMine, Mine
    <3>2. Calm' => CalmInv'
      BY <2>1, Undisturbed DEF vars, ScreenInv, Calm, Unfinished, Mine
    <3> QED
      BY <2>1, <3>1, <3>2 DEF vars, ScreenInv
  <2> QED
    BY <2>1, ScreenInvStep
<1> QED
  BY <1>1, <1>2, PTL DEF Spec

\* A delivery that goes on is on the courier's screen, or its acceptance is about to
\* be answered, as long as nothing lapsed: no order of the answers, the offers and the
\* buttons makes the screen forget it.
THEOREM NothingElseForgets == Spec => []OnlyLapsesForget
<1>1. ScreenInv => OnlyLapsesForget
  BY DEF ScreenInv, Calm, CalmInv, NotForgotten, Held, OnlyLapsesForget
<1> QED
  BY <1>1, ScreenInvAlways, PTL

\* As long as nothing lapsed, the phase on the screen is one that the delivery's status
\* on the server has reached.
THEOREM PhaseFollowsTheServer == Spec => []PhaseNotAhead
<1>1. ScreenInv => PhaseNotAhead
  BY DEF ScreenInv, Calm, CalmInv, NotAhead, PhaseNotAhead
<1> QED
  BY <1>1, ScreenInvAlways, PTL

=============================================================================
