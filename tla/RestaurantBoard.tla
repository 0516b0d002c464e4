--------------------------- MODULE RestaurantBoard ---------------------------
(***************************************************************************)
(* The restaurant's pages: the dashboard, the kitchen and the detail of an *)
(* order, one of them mounted at a time, over the server's orders, their   *)
(* items and the events of the topics.  An item's request is a transaction *)
(* that reads the order before it locks it; no event tells of an item.     *)
(* The session that the page has stored is refreshed while it is used.     *)
(***************************************************************************)
EXTENDS StateMachines, Naturals, FiniteSets

CONSTANTS
  Orders, Items, None,
  Of,          \* the order that an item belongs to
  Start,       \* the statuses that an order may have when the page is opened
  MaxPresses,  \* bound on the operator's requests
  MaxVisits,   \* bound on the pages visited after the first
  MaxMoves,    \* bound on what the others do to the orders
  MaxLapses    \* bound on lost answers and events

ItemStatus == {"PENDING", "PREPARING", "READY", "CANCELLED"}
ItemsOf(o) == {i \in Items : Of[i] = o}

\* what is kept of o, and the number of its last change
Rows(o) ==
  [status : OrderStatus \cup {"NONE"}, paid : BOOLEAN,
   item : [ItemsOf(o) -> ItemStatus], v : Nat]

ASSUME RestaurantBoardAssumption ==
  /\ None \notin Orders \cup Items
  /\ \A o \in Orders : None \notin [of : {o}, row : Rows(o)]
  /\ Of \in [Items -> Orders]
  /\ \A o \in Orders : \E i \in Items : Of[i] = o
  /\ Start \in [Orders -> SUBSET {"NONE", "PENDING", "COURIER_ASSIGNED",
                               "CONFIRMED", "PREPARING"}]
  /\ {MaxPresses, MaxVisits, MaxMoves, MaxLapses} \subseteq Nat

VARIABLES
  session,      \* whose session the shell holds: the stored one, or one logged in since
  view, selected, joined,   \* the page mounted, its order, and whether its topic is joined
  orders,       \* the dashboard's or the kitchen's list, "NONE" for an order not in it
  detail, loading, busyOrderId, busyItemId, rejectTarget,
  calls,        \* requests on their way, and answers not seen yet
  row,          \* the server's orders, with the number of their last change
  due,          \* events still to come, with their snapshots
  behind,       \* orders whose last change the page missed or let an older one hide
  overlapped,   \* orders of which two item requests ran at once
  presses, visits, moves, lapses

pageVars   == <<view, selected, joined, orders, detail, loading, busyOrderId, busyItemId,
                rejectTarget>>
serverVars == <<row, due, overlapped>>
vars == <<session, pageVars, calls, serverVars, behind, presses, visits, moves, lapses>>

Over   == {"DELIVERED", "CANCELLED"}
InWork == {"PREPARING", "READY"}

Fresh(o, s, it) ==
  [status |-> s, paid |-> s # "NONE", item |-> [i \in ItemsOf(o) |-> it], v |-> 0]

Blank == [o \in Orders |-> Fresh(o, "NONE", "PENDING")]

\* An order leaves the list; what is known of it stays known.
Gone(r) == [r EXCEPT !.status = "NONE"]

HasCourier(r) == r.status \notin {"NONE", "PENDING"}
Active(r)     == r.paid /\ r.status \notin Over \cup {"NONE"}

\* A request about an order and an item, the answer, the rows it was given, the order its
\* page showed, what its end frees, and whether the page that asked is still mounted.
Call(op, o, n) ==
  [op |-> op, of |-> o, item |-> None, to |-> "NONE", got |-> "sent", seen |-> Blank,
   sel |-> selected, frees |-> "none", mine |-> TRUE, n |-> n]

Writes == {"accept", "reject", "start", "ready", "item"}

CountPress == presses < MaxPresses /\ presses' = presses + 1
Visit      == visits < MaxVisits /\ visits' = visits + 1
Move       == moves < MaxMoves /\ moves' = moves + 1
Lapse      == lapses < MaxLapses /\ lapses' = lapses + 1

-----------------------------------------------------------------------------
(* The shell: pages and sessions                                           *)

\* What outlives a page: the refresh of the session, and what the server is asked to do.
Kept == {c \in calls : c.op = "refresh"}
        \cup {[c EXCEPT !.mine = FALSE] : c \in {b \in calls : b.op \in Writes
                                                             /\ b.got \in {"sent", "written"}}}

\* A page is mounted with nothing, asks for what it shows and joins its topic.
Mount(v, o, kept) ==
  /\ view' = v /\ selected' = o /\ joined' = FALSE
  /\ orders' = Blank /\ detail' = None
  /\ busyOrderId' = None /\ busyItemId' = None /\ rejectTarget' = None
  /\ loading' = TRUE /\ behind' = {}
  /\ calls' = kept \cup {[Call(IF v = "detail" THEN "detail" ELSE "load", o, presses)
                          EXCEPT !.sel = o]}

NavigateToView ==
  /\ session # None /\ rejectTarget = None /\ Visit
  /\ \/ \E v \in {"dashboard", "kitchen"} \ {view} : Mount(v, selected, Kept)
     \/ /\ view # "detail"
        /\ \E o \in Orders : orders[o].status # "NONE" /\ Mount("detail", o, Kept)
  /\ UNCHANGED <<session, serverVars, presses, moves, lapses>>

\* Another order's link, or the browser's arrows: the detail stays mounted.
FollowUrl ==
  /\ view = "detail" /\ Visit
  /\ \E o \in Orders \ {selected} :
       /\ selected' = o /\ joined' = FALSE /\ loading' = TRUE
       /\ calls' = calls \cup {[Call("detail", o, presses) EXCEPT !.sel = o]}
  /\ behind' = {}
  /\ UNCHANGED <<session, view, orders, detail, busyOrderId, busyItemId, rejectTarget,
                 serverVars, presses, moves, lapses>>

LoggedOut ==
  /\ session' = None /\ view' = "login" /\ selected' = None /\ joined' = FALSE
  /\ orders' = Blank /\ detail' = None
  /\ busyOrderId' = None /\ busyItemId' = None /\ rejectTarget' = None
  /\ loading' = FALSE /\ behind' = {}

ConfirmLogout ==
  /\ session # None /\ rejectTarget = None
  /\ LoggedOut /\ calls' = Kept
  /\ UNCHANGED <<serverVars, presses, visits, moves, lapses>>

HandleLogin ==
  /\ session = None /\ session' = "login" /\ Visit
  /\ Mount("dashboard", None, Kept)
  /\ UNCHANGED <<serverVars, presses, moves, lapses>>

\* refreshStoredSession: its answer is kept whatever the operator did meanwhile; a new
\* session makes the page ask again, a refused one ends it.
SessionRefreshed(c) ==
  /\ c \in calls /\ c.op = "refresh" /\ c.got # "sent"
  /\ \/ /\ c.got = "ok" /\ session' = "stored"
        /\ \/ session = None /\ Mount("dashboard", None, Kept \ {c})
           \/ /\ session # None /\ loading' = TRUE
              /\ calls' = (calls \ {c}) \cup
                   {Call(IF view = "detail" THEN "detail" ELSE "load", selected, presses)}
              /\ UNCHANGED <<view, selected, joined, orders, detail, busyOrderId, busyItemId,
                             rejectTarget, behind>>
     \/ c.got = "error" /\ LoggedOut /\ calls' = Kept \ {c}
  /\ UNCHANGED <<serverVars, presses, visits, moves, lapses>>

Join ==
  /\ session # None /\ ~joined /\ joined' = TRUE
  /\ UNCHANGED <<session, view, selected, orders, detail, loading, busyOrderId, busyItemId,
                 rejectTarget, calls, serverVars, behind, presses, visits, moves, lapses>>

-----------------------------------------------------------------------------
(* The server                                                              *)

Target == [accept |-> "CONFIRMED", reject |-> "CANCELLED",
           start |-> "PREPARING", ready |-> "READY"]

\* o becomes r, and an event tells of it
Publish(o, r) ==
  LET new == [r EXCEPT !.v = row[o].v + 1]
  IN  row' = [row EXCEPT ![o] = new] /\ due' = due \cup {[of |-> o, row |-> new]}

\* o becomes r untold: the pages are behind, but the one that asked will ask again
ChangeUntold(o, r, asker) ==
  /\ row' = [row EXCEPT ![o] = [r EXCEPT !.v = @ + 1]]
  /\ behind' = IF asker THEN behind ELSE behind \cup {o}
  /\ UNCHANGED due

\* A page that is gone sees no answer.
Reply(c, answer) == calls' = (calls \ {c}) \cup IF c.mine THEN {answer} ELSE {}

Asked(op, c) == c \in calls /\ c.op = op /\ c.got = "sent"

ServeRead(c) ==
  /\ \/ /\ Asked("load", c)
        /\ Reply(c, [c EXCEPT !.got = "ok", !.seen =
                       [o \in Orders |-> IF Active(row[o]) THEN row[o] ELSE Gone(row[o])]])
     \/ Asked("detail", c) /\ Reply(c, [c EXCEPT !.got = "ok", !.seen[c.of] = row[c.of]])
     \/ Asked("refresh", c) /\ Reply(c, [c EXCEPT !.got = "ok"])
  /\ UNCHANGED <<session, pageVars, serverVars, behind, presses, visits, moves, lapses>>

\* acceptOrderByRestaurant, rejectOrderByRestaurant, startPreparingOrder, markOrderReady
ServeDecision(c) ==
  /\ c \in calls /\ c.op \in Writes \ {"item"} /\ c.got = "sent"
  /\ LET r == row[c.of]
     IN  IF HasCourier(r) /\ OrderCan(r.status, Target[c.op])
         THEN /\ Publish(c.of, [r EXCEPT !.status = Target[c.op]])
              /\ Reply(c, [c EXCEPT !.got = "ok", !.seen[c.of] = row'[c.of]])
         ELSE Reply(c, [c EXCEPT !.got = "error"]) /\ UNCHANGED <<row, due>>
  /\ UNCHANGED <<session, pageVars, behind, overlapped, presses, visits, moves, lapses>>

Written(o) == {b \in calls : b.op = "item" /\ b.of = o /\ b.got = "written"}

\* updateOrderItemStatus: the item's row is written, then the order and its items are
\* read, without what the other transactions have not committed
WriteItem(c) ==
  /\ Asked("item", c)
  /\ \A b \in Written(c.of) : b.item # c.item
  /\ calls' = (calls \ {c}) \cup
       {[c EXCEPT !.got = "written",
                  !.seen[c.of] = [row[c.of] EXCEPT !.item[c.item] = c.to]]}
  /\ overlapped' = IF Written(c.of) = {} THEN overlapped ELSE overlapped \cup {c.of}
  /\ UNCHANGED <<session, pageVars, row, due, behind, presses, visits, moves, lapses>>

AllReady(r) == \A i \in DOMAIN r.item : r.item[i] = "READY"

\* Two mutants of Progressed: an item in work does not begin its order's preparation; an
\* order is found ready only as its preparation begins.
ProgressedPrepared(saw, r) ==
  IF saw.status = "PREPARING" /\ AllReady(saw) THEN "READY" ELSE saw.status

ProgressedAtFirst(saw, r) ==
  IF saw.status # "CONFIRMED" \/ \A i \in DOMAIN saw.item : saw.item[i] \notin InWork
  THEN saw.status ELSE IF AllReady(r) THEN "READY" ELSE "PREPARING"

\* What an order that was read as saw becomes when the item of c is kept in r.
Progressed(saw, r) ==
  LET begun == saw.status = "CONFIRMED" /\ \E i \in DOMAIN saw.item : saw.item[i] \in InWork
      it    == IF begun THEN r.item ELSE saw.item
  IN  IF (begun \/ saw.status = "PREPARING") /\ AllReady([r EXCEPT !.item = it]) THEN "READY"
      ELSE IF begun THEN "PREPARING" ELSE saw.status

\* ... then the order goes on from what was read, or an illegal transition undoes it all
CommitItem(c) ==
  /\ c \in calls /\ c.op = "item" /\ c.got = "written"
  /\ LET saw  == c.seen[c.of]
         kept == [row[c.of] EXCEPT !.item[c.item] = c.to]
         next == Progressed(saw, kept)
     IN  \/ /\ next = saw.status
            /\ ChangeUntold(c.of, kept, c.mine)
            /\ Reply(c, [c EXCEPT !.got = "ok", !.seen = Blank])
         \/ /\ next # saw.status /\ row[c.of].status = saw.status
            /\ Publish(c.of, [kept EXCEPT !.status = next])
            /\ Reply(c, [c EXCEPT !.got = "ok", !.seen = Blank])
            /\ UNCHANGED behind
         \/ /\ next # saw.status /\ row[c.of].status # saw.status
            /\ Reply(c, [c EXCEPT !.got = "error", !.seen = Blank])
            /\ UNCHANGED <<row, due, behind>>
  /\ UNCHANGED <<session, pageVars, overlapped, presses, visits, moves, lapses>>

\* A request is lost, or its answer; the page is behind on what it did.
Lose(c) ==
  /\ c \in calls /\ c.got \in {"sent", "ok"} /\ c.mine /\ Lapse
  /\ calls' = (calls \ {c}) \cup {[c EXCEPT !.got = "error", !.seen = Blank]}
  /\ behind' = IF c.op = "item" /\ c.got = "ok" THEN behind \cup {c.of} ELSE behind
  /\ UNCHANGED <<session, pageVars, serverVars, presses, visits, moves>>

\* The customer, the courier, the system or another of the restaurant's pages.
OrderMoves(o) ==
  /\ Move
  /\ LET r == row[o] IN
     \/ r.status = "PENDING" /\ ~r.paid /\ Publish(o, [r EXCEPT !.paid = TRUE])
     \/ r.status = "NONE" /\ \E p \in BOOLEAN :
          Publish(o, [r EXCEPT !.status = "PENDING", !.paid = p])
     \/ \E s \in OrderStatus :
          /\ OrderCan(r.status, s) /\ (r.paid \/ s = "CANCELLED")
          /\ Publish(o, [r EXCEPT !.status = s])
  /\ UNCHANGED <<session, pageVars, calls, behind, overlapped, presses, visits, lapses>>

\* A cancelled item, at another of the restaurant's pages.
ItemMoves(i) ==
  /\ Move
  /\ LET o == Of[i] IN
     /\ row[o].status \in {"CONFIRMED", "PREPARING"}
     /\ row[o].item[i] \in {"PENDING", "PREPARING"}
     /\ \A b \in Written(o) : b.item # i
     /\ ChangeUntold(o, [row[o] EXCEPT !.item[i] = "CANCELLED"], FALSE)
     /\ overlapped' = IF Written(o) = {} THEN overlapped ELSE overlapped \cup {o}
  /\ UNCHANGED <<session, pageVars, calls, presses, visits, lapses>>

-----------------------------------------------------------------------------
(* What the page is told                                                   *)

\* the last change of o that the page shows
Shown(o) == IF view # "detail" THEN orders[o].v
            ELSE IF detail # None /\ detail.of = o THEN detail.row.v ELSE 0

\* orders of which the page is behind once it uses the rows rs
BehindAfter(rs) ==
  {o \in Orders : IF o \notin DOMAIN rs THEN o \in behind
                  ELSE rs[o].v < Shown(o) \/ (o \in behind /\ rs[o].v # row[o].v)}

Frees(c) ==
  /\ busyOrderId' = IF c.frees \in {"order", "dialog"} THEN None ELSE busyOrderId
  /\ busyItemId'  = IF c.frees = "item" THEN None ELSE busyItemId

Answered(op, c) == c \in calls /\ c.op = op /\ c.mine /\ c.got \in {"ok", "error"}

\* loadInitialOrders, loadOrders
OrdersLoaded(c) ==
  /\ Answered("load", c)
  /\ calls' = calls \ {c} /\ loading' = FALSE
  /\ Frees(c)
  /\ IF c.got = "ok" THEN orders' = c.seen /\ behind' = BehindAfter(c.seen)
                     ELSE behind' = Orders /\ UNCHANGED orders
  /\ UNCHANGED <<session, view, selected, joined, detail, rejectTarget, serverVars,
                 presses, visits, moves, lapses>>

\* loadDetail: shown whichever order is selected by then
DetailLoaded(c) ==
  /\ Answered("detail", c)
  /\ calls' = calls \ {c} /\ loading' = FALSE
  /\ Frees(c)
  /\ rejectTarget' = IF c.frees = "dialog" THEN None ELSE rejectTarget
  /\ IF c.got = "ok"
     THEN /\ detail' = [of |-> c.of, row |-> c.seen[c.of]]
          /\ behind' = IF c.of # selected THEN behind \cup {selected}
                       ELSE BehindAfter([o \in {selected} |-> c.seen[o]])
     ELSE behind' = behind \cup {selected} /\ UNCHANGED detail
  /\ UNCHANGED <<session, view, selected, joined, orders, serverVars, presses, visits,
                 moves, lapses>>

\* The follow-up of a request: its page asks again, and only then frees its buttons.
Again(c, frees) ==
  calls' = (calls \ {c}) \cup
    {[Call(IF view = "detail" THEN "detail" ELSE "load", c.sel, c.n)
      EXCEPT !.sel = c.sel, !.frees = frees]}

\* handleAccept, handleConfirmReject, handleStartPreparing, handleMarkOrderReady, withBusy
DecisionAnswered(c) ==
  /\ \E op \in Writes \ {"item"} : Answered(op, c)
  /\ rejectTarget' = IF c.op = "reject" /\ (view = "detail" <=> c.got = "error")
                     THEN None ELSE rejectTarget
  /\ IF c.got = "ok" /\ view # "dashboard"
     THEN /\ Again(c, IF c.op = "reject" THEN "dialog" ELSE "order")
          /\ loading' = TRUE /\ UNCHANGED busyOrderId
     ELSE calls' = calls \ {c} /\ busyOrderId' = None /\ UNCHANGED loading
  /\ IF c.got = "ok" /\ c.op = "accept" /\ view = "dashboard" /\ orders[c.of].status # "NONE"
     THEN LET late == c.seen[c.of].v < Shown(c.of) IN
          /\ orders' = [orders EXCEPT ![c.of].status = "CONFIRMED",
                                      ![c.of].v = IF late THEN @ ELSE c.seen[c.of].v]
          /\ behind' = IF late THEN behind \cup {c.of} ELSE behind
     ELSE UNCHANGED <<orders, behind>>
  /\ UNCHANGED <<session, view, selected, joined, detail, busyItemId, serverVars,
                 presses, visits, moves, lapses>>

\* handleItemStatus
ItemAnswered(c) ==
  /\ Answered("item", c)
  /\ IF c.got = "ok" THEN Again(c, "item") /\ loading' = TRUE /\ UNCHANGED busyItemId
                     ELSE calls' = calls \ {c} /\ busyItemId' = None /\ UNCHANGED loading
  /\ UNCHANGED <<session, view, selected, joined, orders, detail, busyOrderId, rejectTarget,
                 serverVars, behind, presses, visits, moves, lapses>>

\* mutant of Reconcile: an order that is over keeps its place in the list
ReconcileKeepsEnded(r) ==
  IF IF view = "kitchen" THEN ~HasCourier(r) ELSE ~r.paid THEN Gone(r) ELSE r

\* reconcileActiveOrderList: the dashboard leaves unpaid orders out, the kitchen those
\* that no courier takes
Reconcile(r) ==
  IF r.status \in Over \/ (IF view = "kitchen" THEN ~HasCourier(r) ELSE ~r.paid)
  THEN Gone(r) ELSE r

Concerns(e) == view \in {"dashboard", "kitchen"} \/ (view = "detail" /\ e.of = selected)

\* Every event comes twice, by its doubled listener; and a request that begins and ends the
\* preparation publishes two, whose snapshots, taken after the commit, are the same row.
Comes(e) == e \in due /\ due' \in {due, due \ {e}}

OnEvent(e) ==
  /\ Comes(e)
  /\ IF joined /\ Concerns(e)
     THEN /\ behind' = BehindAfter([o \in {e.of} |-> e.row])
          /\ IF view = "detail" THEN detail' = e /\ UNCHANGED orders
             ELSE orders' = [orders EXCEPT ![e.of] = Reconcile(e.row)] /\ UNCHANGED detail
     ELSE /\ behind' = behind \cup IF Concerns(e) /\ e.row.v > Shown(e.of) THEN {e.of} ELSE {}
          /\ UNCHANGED <<orders, detail>>
  /\ UNCHANGED <<session, view, selected, joined, loading, busyOrderId, busyItemId,
                 rejectTarget, calls, row, overlapped, presses, visits, moves, lapses>>

\* The page's connection misses an event.
MissEvent(e) ==
  /\ Comes(e) /\ joined /\ Concerns(e) /\ Lapse
  /\ behind' = IF e.row.v > Shown(e.of) THEN behind \cup {e.of} ELSE behind
  /\ UNCHANGED <<session, pageVars, calls, row, overlapped, presses, visits, moves>>

-----------------------------------------------------------------------------
(* The operator                                                            *)

\* the order's row as the page shows it, with buttons that are not busy
Free(o) ==
  /\ rejectTarget = None
  /\ CASE view = "dashboard" -> ~loading /\ busyOrderId # o
       [] view = "kitchen"   -> busyOrderId # o
       [] view = "detail"    -> detail # None /\ detail.of = o /\ busyOrderId = None
       [] OTHER              -> FALSE

ShownStatus(o) == IF view = "detail" THEN detail.row.status ELSE orders[o].status

Press(op, o) ==
  /\ CountPress /\ calls' = calls \cup {Call(op, o, presses')}
  /\ busyOrderId' = o

HandleAccept(o) ==
  /\ Free(o) /\ ShownStatus(o) = "COURIER_ASSIGNED" /\ Press("accept", o)
  /\ UNCHANGED <<session, view, selected, joined, orders, detail, loading, busyItemId,
                 rejectTarget, serverVars, behind, visits, moves, lapses>>

HandleStartOrReady(o) ==
  /\ Free(o) /\ view # "dashboard"
  /\ \/ ShownStatus(o) = "CONFIRMED" /\ Press("start", o)
     \/ ShownStatus(o) = "PREPARING" /\ Press("ready", o)
  /\ UNCHANGED <<session, view, selected, joined, orders, detail, loading, busyItemId,
                 rejectTarget, serverVars, behind, visits, moves, lapses>>

RequestReject(o) ==
  /\ Free(o) /\ ShownStatus(o) = "COURIER_ASSIGNED" /\ rejectTarget' = o
  /\ UNCHANGED <<session, view, selected, joined, orders, detail, loading, busyOrderId,
                 busyItemId, calls, serverVars, behind, presses, visits, moves, lapses>>

DialogLoading ==
  IF view = "detail" THEN busyOrderId # None
  ELSE \E c \in calls : c.mine /\ (c.op = "reject" \/ c.frees = "dialog")

\* the lists reject the order that the dialog was opened on, the detail what it shows by now
ConfirmReject ==
  /\ rejectTarget # None /\ ~DialogLoading
  /\ Press("reject", IF view = "detail" THEN detail.of ELSE rejectTarget)
  /\ UNCHANGED <<session, view, selected, joined, orders, detail, loading, busyItemId,
                 rejectTarget, serverVars, behind, visits, moves, lapses>>

CancelReject ==
  /\ rejectTarget # None /\ ~DialogLoading /\ rejectTarget' = None
  /\ UNCHANGED <<session, view, selected, joined, orders, detail, loading, busyOrderId,
                 busyItemId, calls, serverVars, behind, presses, visits, moves, lapses>>

\* what an item's buttons ask for
ItemButtons == [PENDING |-> {"PREPARING", "CANCELLED"}, PREPARING |-> {"READY", "CANCELLED"},
                READY |-> {}, CANCELLED |-> {}]

HandleItemStatus(i, s) ==
  /\ view = "kitchen" /\ rejectTarget = None /\ busyItemId # i
  /\ orders[Of[i]].status \in {"CONFIRMED", "PREPARING"}
  /\ s \in ItemButtons[orders[Of[i]].item[i]]
  /\ CountPress /\ busyItemId' = i
  /\ calls' = calls \cup {[Call("item", Of[i], presses') EXCEPT !.item = i, !.to = s]}
  /\ UNCHANGED <<session, view, selected, joined, orders, detail, loading, busyOrderId,
                 rejectTarget, serverVars, behind, visits, moves, lapses>>

-----------------------------------------------------------------------------
(* The specification                                                       *)

\* A page is opened by its address, with a stored session; orders are on their way already.
Init ==
  /\ session = "stored" /\ joined = FALSE
  /\ \/ /\ view \in {"dashboard", "kitchen"} /\ selected = None
        /\ calls = {Call("load", None, 0), Call("refresh", None, 0)}
     \/ /\ view = "detail" /\ selected \in Orders
        /\ calls = {Call("detail", selected, 0), Call("refresh", None, 0)}
  /\ orders = Blank /\ detail = None /\ loading = TRUE
  /\ busyOrderId = None /\ busyItemId = None /\ rejectTarget = None
  /\ \E s \in [Orders -> OrderStatus] :
       /\ \A o \in Orders : s[o] \in Start[o]
       /\ row = [o \in Orders |->
                   Fresh(o, s[o], IF s[o] = "PREPARING" THEN "PREPARING" ELSE "PENDING")]
  /\ due = {} /\ behind = {} /\ overlapped = {}
  /\ presses = 0 /\ visits = 0 /\ moves = 0 /\ lapses = 0

Shell == NavigateToView \/ FollowUrl \/ ConfirmLogout \/ HandleLogin \/ Join

Server(c) == ServeRead(c) \/ ServeDecision(c) \/ WriteItem(c) \/ CommitItem(c) \/ Lose(c)

Answer(c) ==
  \/ SessionRefreshed(c) \/ OrdersLoaded(c) \/ DetailLoaded(c)
  \/ DecisionAnswered(c) \/ ItemAnswered(c)

Operator ==
  \/ \E o \in Orders : HandleAccept(o) \/ HandleStartOrReady(o) \/ RequestReject(o)
  \/ ConfirmReject \/ CancelReject
  \/ \E i \in Items, s \in ItemStatus : HandleItemStatus(i, s)

Next ==
  \/ Shell
  \/ \E c \in calls : Server(c) \/ Answer(c)
  \/ \E e \in due : OnEvent(e) \/ MissEvent(e)
  \/ Operator
  \/ \E o \in Orders : OrderMoves(o)
  \/ \E i \in Items : ItemMoves(i)

Spec == Init /\ [][Next]_vars

-----------------------------------------------------------------------------
(* Properties                                                              *)

Settled(o) ==
  /\ session # None /\ joined /\ o \notin behind
  /\ \A c \in calls : ~c.mine \/ c.op = "refresh"
  /\ \A e \in due : e.of # o

\* Once nothing is on its way, a page shows an order as the server has it, its items
\* included, and no order that is over, unpaid or, in the kitchen, without a courier;
\* unless it missed the last change or let an older answer hide it.
PageCatchesUp ==
  \A o \in Orders : Settled(o) =>
    /\ view = "detail" /\ o = selected => detail # None /\ detail = [of |-> o, row |-> row[o]]
    /\ view = "dashboard" => orders[o] = IF Active(row[o]) THEN row[o] ELSE Gone(row[o])
    /\ view = "kitchen" =>
         /\ Active(row[o]) /\ HasCourier(row[o]) => orders[o] = row[o]
         /\ ~Active(row[o]) => orders[o].status = "NONE"

\* Nothing is being prepared of an order whose preparation has not begun, however the
\* requests about its items cross: an update that cannot take the order along is undone.
ItemsFollowOrder ==
  \A o \in Orders : (\E i \in ItemsOf(o) : row[o].item[i] \in InWork) =>
    row[o].status \notin {"PENDING", "COURIER_ASSIGNED", "CONFIRMED"}

\* An order with every item ready does not stay in preparation, unless two updates of its
\* items ran at once and neither saw the other.
ReadyTogether ==
  \A o \in Orders : AllReady(row[o]) /\ row[o].status = "PREPARING" => o \in overlapped

\* Whoever logs out has to log in again.
LoggedOutStays == [][session = None /\ session' # None => session' = "login"]_vars

=============================================================================
