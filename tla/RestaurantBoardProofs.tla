----------------------- MODULE RestaurantBoardProofs -----------------------
(***************************************************************************)
(* Proofs about RestaurantBoard, for any orders and items and any number   *)
(* of presses, visits, moves and lapses.  First the items of the orders:   *)
(* the request of an item decides on what it read, and the page that sends *)
(* it may be far behind.  Then what the pages show: every copy of a row is *)
(* of the past or as the row is, and a page that is not behind shows the   *)
(* last change, or has an event or an answer of it still to come.          *)
(***************************************************************************)
EXTENDS RestaurantBoard, TLAPS

-----------------------------------------------------------------------------
(* Rows and copies of them                                                 *)

AnyRow == UNION {Rows(o) : o \in Orders}

\* A row starts early and ends late; it is CONFIRMED in between.
Early == {"NONE", "PENDING", "COURIER_ASSIGNED"}
Late  == OrderStatus \ (Early \cup {"CONFIRMED"})

Typed(rs) == rs \in [Orders -> AnyRow] /\ \A o \in Orders : rs[o] \in Rows(o)

\* Rows that somebody was given: no order has gone back to being early since.
Known(rs) ==
  /\ Typed(rs)
  /\ \A o \in Orders : rs[o].status \notin Early => row[o].status \notin Early

-----------------------------------------------------------------------------
(* The inductive invariant                                                 *)

\* a request under way, with every field that the model gives it
Request(c) ==
  c = [op |-> c.op, of |-> c.of, item |-> c.item, to |-> c.to, got |-> c.got,
       seen |-> c.seen, sel |-> c.sel, frees |-> c.frees, mine |-> c.mine, n |-> c.n]

\* An item's request is about an order that was confirmed once; when its transaction
\* has read the order, what it saw has its own write in it and is not ahead of the row.
ItemRequest(c) ==
  /\ c.of \in Orders /\ c.item \in ItemsOf(c.of)
  /\ c.to \in {"PREPARING", "READY", "CANCELLED"}
  /\ row[c.of].status \notin Early
  /\ c.got = "written" =>
       /\ c.seen[c.of].status \notin Early
       /\ c.seen[c.of].status \in Late => row[c.of].status \in Late
       /\ c.seen[c.of].item[c.item] = c.to

CallKnows(c) ==
  /\ Request(c)
  /\ Known(c.seen)
  /\ c.op = "item" => ItemRequest(c)
  /\ c.op = "accept" /\ c.got = "ok" /\ c.of \in Orders => row[c.of].status \notin Early

EventKnows(e) ==
  e.of \in Orders =>
    e.row \in Rows(e.of) /\ (e.row.status \notin Early => row[e.of].status \notin Early)

\* ItemsFollowOrder, of early orders that no customer has placed yet too.
NoEarlyWork ==
  \A o \in Orders : (\E i \in ItemsOf(o) : row[o].item[i] \in InWork) => row[o].status \in Late

ItemsInv ==
  /\ Typed(row)
  /\ Known(orders)
  /\ \A c \in calls : CallKnows(c)
  /\ \A e \in due : EventKnows(e)
  /\ NoEarlyWork

USE DEF pageVars, serverVars, vars

LEMMA ItemsInvImplies == ItemsInv => ItemsFollowOrder
BY DEF ItemsInv, NoEarlyWork, ItemsFollowOrder, Late, Early

LEMMA BlankKnown == Typed(row) => Known(Blank)
<1> SUFFICES ASSUME Typed(row) PROVE Known(Blank)
  OBVIOUS
<1>1. \A o \in Orders : Blank[o] \in Rows(o) /\ Blank[o].status = "NONE"
  BY DEF Blank, Fresh, Rows, ItemStatus
<1>2. Blank \in [Orders -> AnyRow]
  BY <1>1 DEF Blank, AnyRow
<1> QED
  BY <1>1, <1>2 DEF Known, Typed, Early

\* A request as it is made knows nothing yet.
LEMMA NewCall ==
  ASSUME ItemsInv, NEW op, op # "item", NEW o, NEW n, NEW s
  PROVE  /\ CallKnows([Call(op, o, n) EXCEPT !.sel = s])
         /\ [Call(op, o, n) EXCEPT !.sel = s].got = "sent"
         /\ CallKnows(Call(op, o, n)) /\ Call(op, o, n).got = "sent"
<1> SUFFICES ASSUME NEW c, c = Call(op, o, n) \/ c = [Call(op, o, n) EXCEPT !.sel = s]
             PROVE  CallKnows(c) /\ c.got = "sent"
  OBVIOUS
<1>1. Request(c)
  BY DEF Call, Request
<1>2. c.seen = Blank /\ c.got = "sent" /\ c.op = op
  BY DEF Call
<1> QED
  BY <1>1, <1>2, BlankKnown DEF CallKnows, ItemsInv

-----------------------------------------------------------------------------
(* Steps that leave the rows alone                                         *)

\* A page that goes leaves its requests to the server.
Left(c, b) == c = [b EXCEPT !.mine = FALSE]

LEMMA LeftKnows ==
  ASSUME NEW b, NEW c, CallKnows(b), Left(c, b)
  PROVE  CallKnows(c) /\ c.op = b.op /\ c.of = b.of /\ c.got = b.got /\ c.item = b.item
         /\ c.seen = b.seen
BY DEF Left, CallKnows, Request, ItemRequest

LEMMA PageStep ==
  ASSUME ItemsInv, UNCHANGED row, due' \subseteq due, Known(orders'),
         \A c \in calls' : CallKnows(c) \/ \E b \in calls : Left(c, b)
  PROVE  ItemsInv'
<1>1. \A c \in calls' : CallKnows(c)
  BY LeftKnows DEF ItemsInv
<1>2. \A c : CallKnows(c) => CallKnows(c)'
  BY DEF CallKnows, ItemRequest, Known
<1>3. \A e : EventKnows(e) => EventKnows(e)'
  BY DEF EventKnows
<1>4. Known(orders)'
  BY DEF Known
<1> QED
  BY <1>1, <1>2, <1>3, <1>4 DEF ItemsInv, NoEarlyWork

LEMMA OfKept ==
  ASSUME NEW c \in Kept
  PROVE  c \in calls \/ \E b \in calls : Left(c, b)
BY DEF Kept, Left

\* Pages come with nothing and ask for what they show.
LEMMA MountStep ==
  ASSUME ItemsInv, NEW v, NEW o, NEW kept, kept \subseteq Kept, Mount(v, o, kept),
         UNCHANGED <<row, due>>
  PROVE  ItemsInv'
<1>1. Known(orders')
  BY BlankKnown DEF Mount, ItemsInv
<1>2. PICK op : op = IF v = "detail" THEN "detail" ELSE "load"
  OBVIOUS
<1>3. PICK d : d = [Call(op, o, presses) EXCEPT !.sel = o]
  OBVIOUS
<1>4. calls' = kept \cup {d} /\ CallKnows(d)
  BY <1>2, <1>3, NewCall DEF Mount
<1>5. \A c \in calls' : CallKnows(c) \/ \E b \in calls : Left(c, b)
  BY <1>4, OfKept DEF ItemsInv
<1> QED
  BY <1>1, <1>5, PageStep

LEMMA LogoutStep ==
  ASSUME ItemsInv, LoggedOut, calls' \subseteq Kept, UNCHANGED <<row, due>>
  PROVE  ItemsInv'
<1>1. Known(orders')
  BY BlankKnown DEF LoggedOut, ItemsInv
<1> QED
  BY <1>1, OfKept, PageStep DEF ItemsInv

LEMMA ShellStep ==
  ASSUME ItemsInv, Shell
  PROVE  ItemsInv'
<1>1. CASE NavigateToView
  <2>1. \E v, o : Mount(v, o, Kept)
    BY <1>1 DEF NavigateToView
  <2> QED
    BY <1>1, <2>1, MountStep DEF NavigateToView
<1>2. CASE FollowUrl
  <2>1. PICK o, d : d = [Call("detail", o, presses) EXCEPT !.sel = o] /\ calls' = calls \cup {d}
    BY <1>2 DEF FollowUrl
  <2>2. CallKnows(d)
    BY <2>1, NewCall
  <2> QED
    BY <1>2, <2>1, <2>2, PageStep DEF FollowUrl, ItemsInv
<1>3. CASE ConfirmLogout
  BY <1>3, LogoutStep DEF ConfirmLogout
<1>4. CASE HandleLogin
  BY <1>4, MountStep DEF HandleLogin
<1>5. CASE Join
  BY <1>5, PageStep DEF Join, ItemsInv
<1> QED
  BY <1>1, <1>2, <1>3, <1>4, <1>5 DEF Shell

\* A request that changes while the rows and the list stay as they are.
LEMMA OneCallChanges ==
  ASSUME ItemsInv, UNCHANGED row, due' \subseteq due, Known(orders'), NEW S,
         \A c \in S : CallKnows(c), calls' \subseteq calls \cup S
  PROVE  ItemsInv'
BY PageStep DEF ItemsInv

LEMMA SessionRefreshedStep ==
  ASSUME ItemsInv, NEW c, SessionRefreshed(c)
  PROVE  ItemsInv'
<1>1. CASE c.got = "error" /\ LoggedOut /\ calls' = Kept \ {c}
  BY <1>1, LogoutStep DEF SessionRefreshed
<1>2. CASE Mount("dashboard", None, Kept \ {c})
  BY <1>2, MountStep DEF SessionRefreshed
<1>3. CASE /\ \E op : op # "item" /\ calls' = (calls \ {c}) \cup {Call(op, selected, presses)}
           /\ UNCHANGED orders
  <2>1. PICK op, d : /\ op # "item" /\ d = Call(op, selected, presses)
                     /\ calls' = (calls \ {c}) \cup {d}
    BY <1>3
  <2>2. CallKnows(d)
    BY <2>1, NewCall
  <2> QED
    BY <1>3, <2>1, <2>2, PageStep DEF SessionRefreshed, ItemsInv
<1> QED
  BY <1>1, <1>2, <1>3 DEF SessionRefreshed

LEMMA AgainStep ==
  ASSUME ItemsInv, NEW c, NEW frees, Again(c, frees)
  PROVE  \A b \in calls' : CallKnows(b)
<1>1. PICK op, d : /\ op # "item" /\ d = [Call(op, c.sel, c.n) EXCEPT !.sel = c.sel]
                   /\ calls' = (calls \ {c}) \cup {[d EXCEPT !.frees = frees]}
  <2>1. PICK op : /\ op # "item"
                  /\ calls' = (calls \ {c}) \cup
                       {[Call(op, c.sel, c.n) EXCEPT !.sel = c.sel, !.frees = frees]}
    <3>1. CASE view = "detail"
      <4>1. calls' = (calls \ {c}) \cup
                       {[Call("detail", c.sel, c.n) EXCEPT !.sel = c.sel, !.frees = frees]}
        BY <3>1 DEF Again
      <4> QED
        BY <4>1
    <3>2. CASE view # "detail"
      BY <3>2, Zenon DEF Again
    <3> QED
      BY <3>1, <3>2
  <2>2. [Call(op, c.sel, c.n) EXCEPT !.sel = c.sel, !.frees = frees]
          = [[Call(op, c.sel, c.n) EXCEPT !.sel = c.sel] EXCEPT !.frees = frees]
    BY DEF Call
  <2> QED
    BY <2>1, <2>2
<1>2. CallKnows(d) /\ d.op = op
  BY <1>1, NewCall DEF Call
<1>3. CallKnows([d EXCEPT !.frees = frees])
  <2>1. PICK e : e = [d EXCEPT !.frees = frees]
    OBVIOUS
  <2>2. Request(e) /\ e.op = d.op /\ e.seen = d.seen /\ e.got = d.got /\ e.of = d.of
    BY <1>2, <2>1 DEF CallKnows, Request
  <2> QED
    BY <1>1, <1>2, <2>1, <2>2 DEF CallKnows
<1> QED
  BY <1>1, <1>3 DEF ItemsInv

\* An order accepted is early no more, on the page as on the server.
LEMMA DecisionAnsweredStep ==
  ASSUME ItemsInv, NEW c, DecisionAnswered(c)
  PROVE  ItemsInv'
<1>1. \A b \in calls' : CallKnows(b)
  BY AgainStep DEF DecisionAnswered, ItemsInv
<1>2. Known(orders')
  <2>1. CASE UNCHANGED orders
    BY <2>1 DEF ItemsInv
  <2>2. CASE ~UNCHANGED orders
    <3>1. c.op = "accept" /\ c.got = "ok" /\ c \in calls
      BY <2>2 DEF DecisionAnswered, Answered
    <3>2. PICK n : orders' = [orders EXCEPT ![c.of].status = "CONFIRMED", ![c.of].v = n]
                   /\ n \in {orders[c.of].v, c.seen[c.of].v}
      BY <2>2 DEF DecisionAnswered
    <3>3. c.of \in Orders
      BY <2>2, <3>2 DEF ItemsInv, Known, Typed
    <3>4. PICK r : r = [orders[c.of] EXCEPT !.status = "CONFIRMED", !.v = n]
      OBVIOUS
    <3>5. n \in Nat
      BY <3>1, <3>2, <3>3 DEF ItemsInv, CallKnows, Known, Typed, Rows
    <3>6. r \in Rows(c.of) /\ r.status = "CONFIRMED"
      <4>1. PICK x : x = orders[c.of] /\ x \in Rows(c.of)
        BY <3>3 DEF ItemsInv, Known, Typed
      <4> QED
        BY <3>4, <3>5, <4>1 DEF Rows, OrderStatus
    <3>7. orders' = [orders EXCEPT ![c.of] = r]
      BY <3>2, <3>3, <3>4 DEF ItemsInv, Known, Typed
    <3>8. row[c.of].status \notin Early
      BY <3>1, <3>3 DEF ItemsInv, CallKnows
    <3> QED
      BY <3>3, <3>6, <3>7, <3>8 DEF ItemsInv, Known, Typed, AnyRow
  <2> QED
    BY <2>1, <2>2
<1> QED
  BY <1>1, <1>2, PageStep DEF DecisionAnswered

LEMMA AnswerStep ==
  ASSUME ItemsInv, NEW c \in calls, Answer(c)
  PROVE  ItemsInv'
<1>1. CASE SessionRefreshed(c)
  BY <1>1, SessionRefreshedStep
<1>2. CASE OrdersLoaded(c)
  <2>1. Known(c.seen)
    BY DEF ItemsInv, CallKnows
  <2> QED
    BY <1>2, <2>1, PageStep DEF OrdersLoaded, ItemsInv
<1>3. CASE DetailLoaded(c)
  BY <1>3, PageStep DEF DetailLoaded, ItemsInv
<1>4. CASE DecisionAnswered(c)
  BY <1>4, DecisionAnsweredStep
<1>5. CASE ItemAnswered(c)
  <2>1. \A b \in calls' : CallKnows(b)
    BY <1>5, AgainStep DEF ItemAnswered, ItemsInv
  <2> QED
    BY <1>5, <2>1, PageStep DEF ItemAnswered, ItemsInv
<1> QED
  BY <1>1, <1>2, <1>3, <1>4, <1>5 DEF Answer

LEMMA PressStep ==
  ASSUME ItemsInv, NEW op, op # "item", NEW o, Press(op, o), UNCHANGED <<row, due, orders>>
  PROVE  ItemsInv'
<1>1. PICK d : d = Call(op, o, presses') /\ calls' = calls \cup {d}
  BY DEF Press
<1>2. CallKnows(d)
  BY <1>1, NewCall
<1> QED
  BY <1>1, <1>2, PageStep DEF ItemsInv

\* The kitchen's page offers the buttons of an item only when it has seen the order
\* confirmed, and then the order was.
LEMMA HandleItemStatusStep ==
  ASSUME ItemsInv, NEW i \in Items, NEW s \in ItemStatus, HandleItemStatus(i, s)
  PROVE  ItemsInv'
<1>1. Of[i] \in Orders /\ i \in ItemsOf(Of[i])
  BY RestaurantBoardAssumption DEF ItemsOf
<1>2. s \in {"PREPARING", "READY", "CANCELLED"}
  <2>1. orders[Of[i]].item[i] \in ItemStatus
    BY <1>1 DEF ItemsInv, Known, Typed, Rows
  <2> QED
    BY <2>1 DEF HandleItemStatus, ItemButtons, ItemStatus
<1>3. row[Of[i]].status \notin Early
  BY <1>1 DEF HandleItemStatus, ItemsInv, Known, Early
<1>4. PICK d : /\ d = [Call("item", Of[i], presses') EXCEPT !.item = i, !.to = s]
               /\ calls' = calls \cup {d}
  BY DEF HandleItemStatus
<1>5. Request(d)
  BY <1>4 DEF Call, Request
<1>6. d.op = "item" /\ d.of = Of[i] /\ d.item = i /\ d.to = s /\ d.seen = Blank /\ d.got = "sent"
  BY <1>4 DEF Call
<1>7. CallKnows(d)
  BY <1>1, <1>2, <1>3, <1>5, <1>6, BlankKnown DEF CallKnows, ItemRequest, ItemsInv
<1> QED
  BY <1>4, <1>7, PageStep DEF HandleItemStatus, ItemsInv

LEMMA OperatorStep ==
  ASSUME ItemsInv, Operator
  PROVE  ItemsInv'
<1>1. ASSUME NEW o \in Orders, HandleAccept(o) \/ HandleStartOrReady(o) PROVE ItemsInv'
  BY <1>1, PressStep DEF HandleAccept, HandleStartOrReady
<1>2. CASE ConfirmReject
  BY <1>2, PressStep DEF ConfirmReject
<1>3. CASE CancelReject \/ \E o \in Orders : RequestReject(o)
  BY <1>3, PageStep DEF CancelReject, RequestReject, ItemsInv
<1> QED
  BY <1>1, <1>2, <1>3, HandleItemStatusStep DEF Operator

LEMMA EventStep ==
  ASSUME ItemsInv, NEW e \in due, OnEvent(e) \/ MissEvent(e)
  PROVE  ItemsInv'
<1>1. Known(orders')
  <2>1. PICK r : r = Reconcile(e.row)
    OBVIOUS
  <2>2. e.of \in Orders => r \in Rows(e.of) /\ (r.status \notin Early => row[e.of].status \notin Early)
    <3>1. SUFFICES ASSUME e.of \in Orders
                   PROVE  r \in Rows(e.of) /\ (r.status \notin Early => row[e.of].status \notin Early)
      OBVIOUS
    <3>2. r = e.row \/ r = Gone(e.row)
      BY <2>1 DEF Reconcile
    <3>3. e.row \in Rows(e.of) /\ (e.row.status \notin Early => row[e.of].status \notin Early)
      BY <3>1 DEF ItemsInv, EventKnows
    <3>4. Gone(e.row) \in Rows(e.of) /\ Gone(e.row).status = "NONE"
      BY <3>3 DEF Gone, Rows
    <3> QED
      BY <3>2, <3>3, <3>4 DEF Early
  <2>3. UNCHANGED orders \/ orders' = [orders EXCEPT ![e.of] = r]
    BY <2>1 DEF OnEvent, MissEvent, Comes
  <2>4. CASE e.of \in Orders /\ orders' = [orders EXCEPT ![e.of] = r]
    BY <2>2, <2>4 DEF ItemsInv, Known, Typed, AnyRow
  <2>5. CASE e.of \notin Orders \/ UNCHANGED orders
    BY <2>3, <2>5 DEF ItemsInv, Known, Typed
  <2> QED
    BY <2>3, <2>4, <2>5
<1> QED
  BY <1>1, PageStep DEF OnEvent, MissEvent, Comes, ItemsInv

-----------------------------------------------------------------------------
(* What the server does with a request                                     *)

\* An answer replaces its request, or nobody takes it.
LEMMA ReplyStep ==
  ASSUME ItemsInv, NEW c, NEW a, Reply(c, a), CallKnows(a), UNCHANGED <<row, due, orders>>
  PROVE  ItemsInv'
BY PageStep DEF Reply, ItemsInv

\* An answer that brings one row as the server has it, or another step of the request.
LEMMA SeenNow ==
  ASSUME ItemsInv, NEW c \in calls, NEW a, a = [c EXCEPT !.got = "ok", !.seen[c.of] = row[c.of]]
  PROVE  /\ Request(a) /\ Known(a.seen)
         /\ a.op = c.op /\ a.of = c.of /\ a.item = c.item /\ a.to = c.to /\ a.got = "ok"
<1>1. Request(c) /\ Known(c.seen)
  BY DEF ItemsInv, CallKnows
<1>2. PICK rs : rs = [c.seen EXCEPT ![c.of] = row[c.of]]
  OBVIOUS
<1>3. a = [c EXCEPT !.got = "ok", !.seen = rs]
  BY <1>1, <1>2 DEF Request
<1>4. Known(rs)
  <2>1. CASE c.of \in Orders
    BY <1>1, <1>2, <2>1 DEF ItemsInv, Known, Typed, AnyRow
  <2>2. CASE c.of \notin Orders
    BY <1>1, <1>2, <2>2 DEF Known, Typed
  <2> QED
    BY <2>1, <2>2
<1> QED
  BY <1>1, <1>3, <1>4 DEF Request

LEMMA ServeReadStep ==
  ASSUME ItemsInv, NEW c \in calls, ServeRead(c)
  PROVE  ItemsInv'
<1>1. Request(c) /\ Known(c.seen)
  BY DEF ItemsInv, CallKnows
<1>2. CASE c.op = "load"
  <2>1. PICK rs : rs = [o \in Orders |-> IF Active(row[o]) THEN row[o] ELSE Gone(row[o])]
    OBVIOUS
  <2>2. PICK a : a = [c EXCEPT !.got = "ok", !.seen = rs]
    OBVIOUS
  <2>3. \A o \in Orders : Gone(row[o]) \in Rows(o) /\ Gone(row[o]).status = "NONE"
    BY DEF ItemsInv, Typed, Gone, Rows
  <2>4. \A o \in Orders : rs[o] = row[o] \/ rs[o] = Gone(row[o])
    BY <2>1
  <2>5. Known(rs)
    <3>1. \A o \in Orders : rs[o] \in Rows(o) /\ (rs[o].status \notin Early => row[o].status \notin Early)
      BY <2>3, <2>4 DEF ItemsInv, Typed, Early
    <3>2. rs \in [Orders -> AnyRow]
      BY <2>1, <3>1 DEF AnyRow
    <3> QED
      BY <3>1, <3>2 DEF Known, Typed
  <2>6. Request(a) /\ a.seen = rs /\ a.op = "load"
    BY <1>1, <1>2, <2>2 DEF Request
  <2>7. CallKnows(a)
    BY <2>5, <2>6 DEF CallKnows
  <2>8. Reply(c, a)
    BY <1>2, <2>1, <2>2 DEF ServeRead, Asked
  <2> QED
    BY <2>7, <2>8, ReplyStep DEF ServeRead
<1>3. CASE c.op = "detail"
  <2>1. PICK a : a = [c EXCEPT !.got = "ok", !.seen[c.of] = row[c.of]]
    OBVIOUS
  <2>2. CallKnows(a)
    BY <1>3, <2>1, SeenNow DEF CallKnows
  <2>3. Reply(c, a)
    BY <1>3, <2>1 DEF ServeRead, Asked
  <2> QED
    BY <2>2, <2>3, ReplyStep DEF ServeRead
<1>4. CASE c.op = "refresh"
  <2>1. PICK a : a = [c EXCEPT !.got = "ok"]
    OBVIOUS
  <2>2. Request(a) /\ a.seen = c.seen /\ a.op = "refresh"
    BY <1>1, <1>4, <2>1 DEF Request
  <2>3. CallKnows(a)
    BY <1>1, <2>2 DEF CallKnows
  <2>4. Reply(c, a)
    BY <1>4, <2>1 DEF ServeRead, Asked
  <2> QED
    BY <2>3, <2>4, ReplyStep DEF ServeRead
<1> QED
  BY <1>2, <1>3, <1>4 DEF ServeRead, Asked

\* A request that fails knows nothing.
LEMMA Failed ==
  ASSUME ItemsInv, NEW c \in calls, NEW a, NEW rs \in {c.seen, Blank},
         NEW got \in {"ok", "error"}, a = [c EXCEPT !.got = got, !.seen = rs],
         got = "ok" => c.op = "item"
  PROVE  CallKnows(a)
<1>1. Request(a) /\ a.op = c.op /\ a.of = c.of /\ a.item = c.item /\ a.to = c.to /\ a.got = got
      /\ a.seen = rs
  <2>1. Request(c)
    BY DEF ItemsInv, CallKnows
  <2>2. PICK seen : seen = rs
    OBVIOUS
  <2>3. a = [c EXCEPT !.got = got, !.seen = seen]
    BY <2>2
  <2>4. a = [op |-> c.op, of |-> c.of, item |-> c.item, to |-> c.to, got |-> got,
             seen |-> seen, sel |-> c.sel, frees |-> c.frees, mine |-> c.mine, n |-> c.n]
    BY <2>1, <2>3 DEF Request
  <2> QED
    BY <2>2, <2>4 DEF Request
<1>2. Known(rs)
  BY BlankKnown DEF ItemsInv, CallKnows
<1>3. a.op = "item" => ItemRequest(a)
  BY <1>1 DEF ItemsInv, CallKnows, ItemRequest
<1> QED
  BY <1>1, <1>2, <1>3 DEF CallKnows

LEMMA LoseStep ==
  ASSUME ItemsInv, NEW c \in calls, Lose(c)
  PROVE  ItemsInv'
<1>1. PICK a : a = [c EXCEPT !.got = "error", !.seen = Blank]
  OBVIOUS
<1>2. CallKnows(a)
  BY <1>1, Failed
<1>3. calls' = (calls \ {c}) \cup {a}
  BY <1>1 DEF Lose
<1> QED
  BY <1>2, <1>3, PageStep DEF Lose, ItemsInv

\* The transaction of an item reads the order as it is, with its own write.
LEMMA WriteItemStep ==
  ASSUME ItemsInv, NEW c \in calls, WriteItem(c)
  PROVE  ItemsInv'
<1>1. Request(c) /\ Known(c.seen) /\ c.op = "item" /\ ItemRequest(c)
  BY DEF ItemsInv, CallKnows, WriteItem, Asked
<1>2. PICK r : r = [row[c.of] EXCEPT !.item[c.item] = c.to]
  OBVIOUS
<1>3. r \in Rows(c.of) /\ r.status = row[c.of].status /\ r.item[c.item] = c.to
  <2>1. PICK x : x = row[c.of] /\ x \in Rows(c.of)
    BY <1>1 DEF ItemRequest, ItemsInv, Typed
  <2>2. PICK it : it = [x.item EXCEPT ![c.item] = c.to]
    OBVIOUS
  <2>3. it \in [ItemsOf(c.of) -> ItemStatus] /\ it[c.item] = c.to
    BY <1>1, <2>1, <2>2 DEF ItemRequest, Rows, ItemStatus
  <2>4. r = [x EXCEPT !.item = it]
    BY <1>2, <2>1, <2>2 DEF Rows
  <2> QED
    BY <2>1, <2>3, <2>4 DEF Rows
<1>4. PICK rs : rs = [c.seen EXCEPT ![c.of] = r]
  OBVIOUS
<1>5. Known(rs) /\ rs[c.of] = r
  BY <1>1, <1>3, <1>4 DEF ItemRequest, Known, Typed, AnyRow
<1>6. PICK a : a = [c EXCEPT !.got = "written", !.seen = rs]
  OBVIOUS
<1>7. calls' = (calls \ {c}) \cup {a}
  BY <1>1, <1>2, <1>4, <1>6 DEF WriteItem, Request
<1>8. Request(a) /\ a.op = c.op /\ a.of = c.of /\ a.item = c.item /\ a.to = c.to /\ a.seen = rs
  BY <1>1, <1>6 DEF Request
<1>9. CallKnows(a)
  BY <1>1, <1>3, <1>5, <1>8 DEF CallKnows, ItemRequest
<1> QED
  BY <1>7, <1>9, PageStep DEF WriteItem, ItemsInv

-----------------------------------------------------------------------------
(* Steps that change an order                                              *)

\* A row whose item i has the status s, one change later.
ItemSet(x, i, s) ==
  [status |-> x.status, paid |-> x.paid, item |-> [x.item EXCEPT ![i] = s], v |-> x.v + 1]

LEMMA ItemSetTyped ==
  ASSUME NEW o, NEW x \in Rows(o), NEW i \in ItemsOf(o), NEW s \in ItemStatus
  PROVE  /\ ItemSet(x, i, s) \in Rows(o) /\ ItemSet(x, i, s).status = x.status
         /\ ItemSet(x, i, s).paid = x.paid /\ ItemSet(x, i, s).v = x.v + 1
         /\ ItemSet(x, i, s).item[i] = s
         /\ \A j \in ItemsOf(o) : j # i => ItemSet(x, i, s).item[j] = x.item[j]
<1>1. PICK it : it = [x.item EXCEPT ![i] = s]
  OBVIOUS
<1>2. /\ it \in [ItemsOf(o) -> ItemStatus] /\ it[i] = s
      /\ \A j \in ItemsOf(o) : j # i => it[j] = x.item[j]
  BY <1>1 DEF Rows
<1>3. x.status \in OrderStatus \cup {"NONE"} /\ x.paid \in BOOLEAN /\ x.v + 1 \in Nat
  BY DEF Rows
<1> QED
  BY <1>1, <1>2, <1>3 DEF ItemSet, Rows

\* An order only goes on: what was known of it stays true.
LEMMA OrderStep ==
  ASSUME ItemsInv, NEW o \in Orders, NEW r \in Rows(o), row' = [row EXCEPT ![o] = r],
         row[o].status \notin Early => r.status \notin Early,
         row[o].status \in Late => r.status \in Late,
         (\E i \in ItemsOf(o) : r.item[i] \in InWork) => r.status \in Late,
         UNCHANGED orders,
         \A c \in calls' : CallKnows(c) \/ CallKnows(c)',
         \A e \in due' : e \in due \/ e = [of |-> o, row |-> r]
  PROVE  ItemsInv'
<1>1. /\ Typed(row)' /\ row'[o] = r
      /\ \A p \in Orders : p # o => row'[p] = row[p]
  BY DEF ItemsInv, Typed, AnyRow
<1>2. \A p \in Orders : /\ row[p].status \notin Early => row'[p].status \notin Early
                        /\ row[p].status \in Late => row'[p].status \in Late
  BY <1>1
<1>3. \A rs : Known(rs) => Known(rs)'
  BY <1>2 DEF Known, Typed
<1>4. \A c : CallKnows(c) => CallKnows(c)'
  <2>1. \A c : c.of \in Orders /\ ItemRequest(c) => ItemRequest(c)'
    BY <1>2 DEF ItemRequest
  <2>2. \A c : ItemRequest(c) => c.of \in Orders
    BY DEF ItemRequest
  <2> QED
    BY <1>2, <1>3, <2>1, <2>2 DEF CallKnows
<1>5. \A e : EventKnows(e) => EventKnows(e)'
  BY <1>2 DEF EventKnows
<1>6. EventKnows([of |-> o, row |-> r])'
  BY <1>1 DEF EventKnows
<1>7. NoEarlyWork'
  BY <1>1 DEF NoEarlyWork, ItemsInv
<1>8. Known(orders)'
  BY <1>3 DEF ItemsInv
<1> QED
  BY <1>1, <1>4, <1>5, <1>6, <1>7, <1>8 DEF ItemsInv

LEMMA OrderOnlyProgresses ==
  ASSUME NEW s \in OrderStatus \cup {"NONE"}, NEW t, OrderCan(s, t)
  PROVE  /\ s # "NONE" /\ t \in OrderStatus
         /\ s \notin Early => t \notin Early
         /\ s \in Late => t \in Late
BY DEF OrderCan, OrderEdges, OrderStatus, Early, Late

\* A new status, and nothing else but the payment and the number of the change.
WithStatus(x, s, p) == [status |-> s, paid |-> p, item |-> x.item, v |-> x.v]

LEMMA StatusStep ==
  ASSUME ItemsInv, NEW o \in Orders, NEW s, NEW p \in BOOLEAN,
         s \in OrderStatus, row[o].status \notin Early => s \notin Early,
         row[o].status \in Late => s \in Late,
         Publish(o, WithStatus(row[o], s, p)), UNCHANGED orders,
         \A c \in calls' : CallKnows(c) \/ CallKnows(c)'
  PROVE  ItemsInv'
<1>1. PICK x : x = row[o] /\ x \in Rows(o)
  BY DEF ItemsInv, Typed
<1>2. PICK r : r = [status |-> s, paid |-> p, item |-> x.item, v |-> x.v + 1]
  OBVIOUS
<1>3. row' = [row EXCEPT ![o] = r] /\ due' = due \cup {[of |-> o, row |-> r]}
  <2>1. PICK k : k = WithStatus(x, s, p)
    OBVIOUS
  <2>2. /\ row' = [row EXCEPT ![o] = [k EXCEPT !.v = x.v + 1]]
        /\ due' = due \cup {[of |-> o, row |-> [k EXCEPT !.v = x.v + 1]]}
    BY <1>1, <2>1 DEF Publish
  <2>3. [k EXCEPT !.v = x.v + 1] = r
    BY <1>2, <2>1 DEF WithStatus
  <2> QED
    BY <2>2, <2>3
<1>4. r \in Rows(o) /\ r.status = s /\ r.item = x.item
  BY <1>1, <1>2 DEF Rows
<1>5. (\E i \in ItemsOf(o) : r.item[i] \in InWork) => r.status \in Late
  BY <1>1, <1>4 DEF ItemsInv, NoEarlyWork
<1> QED
  BY <1>1, <1>3, <1>4, <1>5, OrderStep

LEMMA OrderMovesPublishes ==
  ASSUME ItemsInv, NEW o \in Orders, OrderMoves(o)
  PROVE  \E s \in OrderStatus, p \in BOOLEAN :
           /\ OrderCan(row[o].status, s) \/ (s = "PENDING" /\ row[o].status \in {"NONE", "PENDING"})
           /\ p \/ s \in {"PENDING", "CANCELLED"}
           /\ Publish(o, WithStatus(row[o], s, p))
<1>1. PICK x : x = row[o] /\ x \in Rows(o)
  BY DEF ItemsInv, Typed
<1>2. CASE x.status = "PENDING" /\ Publish(o, [x EXCEPT !.paid = TRUE])
  <2>1. PICK p \in BOOLEAN : p = TRUE
    OBVIOUS
  <2>2. [x EXCEPT !.paid = p] = WithStatus(row[o], "PENDING", p)
    BY <1>1, <1>2 DEF Rows, WithStatus
  <2>3. Publish(o, WithStatus(row[o], "PENDING", p)) /\ "PENDING" \in OrderStatus
    BY <1>2, <2>1, <2>2 DEF OrderStatus
  <2> QED
    BY <1>1, <1>2, <2>3
<1>3. CASE x.status = "NONE" /\ \E p \in BOOLEAN :
             Publish(o, [x EXCEPT !.status = "PENDING", !.paid = p])
  <2>1. PICK p \in BOOLEAN : Publish(o, [x EXCEPT !.status = "PENDING", !.paid = p])
    BY <1>3
  <2>2. [x EXCEPT !.status = "PENDING", !.paid = p] = WithStatus(row[o], "PENDING", p)
    <3>1. PICK k : k = [x EXCEPT !.status = "PENDING"]
      OBVIOUS
    <3>2. k = [status |-> "PENDING", paid |-> x.paid, item |-> x.item, v |-> x.v]
      BY <1>1, <3>1 DEF Rows
    <3>3. [k EXCEPT !.paid = p] = WithStatus(x, "PENDING", p)
      BY <3>2 DEF WithStatus
    <3>4. [x EXCEPT !.status = "PENDING", !.paid = p] = [k EXCEPT !.paid = p]
      BY <1>1, <3>1 DEF Rows
    <3> QED
      BY <1>1, <3>3, <3>4
  <2>3. Publish(o, WithStatus(row[o], "PENDING", p)) /\ "PENDING" \in OrderStatus
    BY <2>1, <2>2 DEF OrderStatus
  <2> QED
    BY <1>1, <1>3, <2>3
<1>4. CASE \E s \in OrderStatus : /\ OrderCan(x.status, s) /\ (x.paid \/ s = "CANCELLED")
                                   /\ Publish(o, [x EXCEPT !.status = s])
  <2>1. PICK s \in OrderStatus : /\ OrderCan(x.status, s) /\ (x.paid \/ s = "CANCELLED")
                                 /\ Publish(o, [x EXCEPT !.status = s])
    BY <1>4
  <2>2. PICK p \in BOOLEAN : p = x.paid
    BY <1>1 DEF Rows
  <2>3. [x EXCEPT !.status = s] = WithStatus(row[o], s, p)
    BY <1>1, <2>2 DEF Rows, WithStatus
  <2>4. Publish(o, WithStatus(row[o], s, p))
    BY <2>1, <2>3
  <2> QED
    BY <1>1, <2>1, <2>2, <2>4
<1> QED
  BY <1>1, <1>2, <1>3, <1>4 DEF OrderMoves

LEMMA OrderMovesStep ==
  ASSUME ItemsInv, NEW o \in Orders, OrderMoves(o)
  PROVE  ItemsInv'
<1>1. PICK s \in OrderStatus, p \in BOOLEAN :
        /\ OrderCan(row[o].status, s) \/ (s = "PENDING" /\ row[o].status \in {"NONE", "PENDING"})
        /\ Publish(o, WithStatus(row[o], s, p))
  BY OrderMovesPublishes
<1>2. row[o].status \in OrderStatus \cup {"NONE"}
  BY DEF ItemsInv, Typed, Rows
<1>3. /\ row[o].status \notin Early => s \notin Early
      /\ row[o].status \in Late => s \in Late
  BY <1>1, <1>2, OrderOnlyProgresses DEF Early, Late
<1>4. \A c \in calls' : CallKnows(c) \/ CallKnows(c)'
  BY DEF OrderMoves, ItemsInv
<1> QED
  BY <1>1, <1>3, <1>4, StatusStep DEF OrderMoves

LEMMA ItemMovesRow ==
  ASSUME ItemsInv, NEW i \in Items, ItemMoves(i), NEW o, o = Of[i]
  PROVE  /\ o \in Orders /\ i \in ItemsOf(o)
         /\ \E r \in Rows(o) :
              /\ row' = [row EXCEPT ![o] = r] /\ r.status = row[o].status
              /\ r.paid = row[o].paid /\ r.v = row[o].v + 1
              /\ r.item[i] = "CANCELLED"
              /\ \A j \in ItemsOf(o) : j # i => r.item[j] = row[o].item[j]
<1>1. o \in Orders /\ i \in ItemsOf(o)
  BY RestaurantBoardAssumption DEF ItemsOf
<1>2. PICK x : x = row[o] /\ x \in Rows(o)
  BY <1>1 DEF ItemsInv, Typed
<1>3. PICK r : r = ItemSet(x, i, "CANCELLED")
  OBVIOUS
<1>4. row' = [row EXCEPT ![o] = r]
  <2>1. PICK k : k = [x EXCEPT !.item[i] = "CANCELLED"]
    OBVIOUS
  <2>2. row' = [row EXCEPT ![o] = [k EXCEPT !.v = @ + 1]]
    BY <1>1, <1>2, <2>1 DEF ItemMoves, ChangeUntold
  <2>3. [k EXCEPT !.v = @ + 1] = r
    <3>1. PICK it : it = [x.item EXCEPT ![i] = "CANCELLED"]
      OBVIOUS
    <3>2. k = [status |-> x.status, paid |-> x.paid, item |-> it, v |-> x.v]
      BY <1>2, <2>1, <3>1 DEF Rows
    <3>3. r = [status |-> x.status, paid |-> x.paid, item |-> it, v |-> x.v + 1]
      BY <1>3, <3>1 DEF ItemSet
    <3> QED
      BY <3>2, <3>3
  <2> QED
    BY <2>2, <2>3
<1>5. "CANCELLED" \in ItemStatus
  BY DEF ItemStatus
<1>6. /\ r \in Rows(o) /\ r.status = x.status /\ r.paid = x.paid /\ r.v = x.v + 1
      /\ r.item[i] = "CANCELLED" /\ \A j \in ItemsOf(o) : j # i => r.item[j] = x.item[j]
  BY <1>1, <1>2, <1>3, <1>5, ItemSetTyped
<1> QED
  BY <1>1, <1>2, <1>4, <1>6

\* A cancelled item is not in work.
LEMMA ItemMovesStep ==
  ASSUME ItemsInv, NEW i \in Items, ItemMoves(i)
  PROVE  ItemsInv'
<1>1. PICK o : o = Of[i]
  OBVIOUS
<1>2. o \in Orders /\ i \in ItemsOf(o)
  BY <1>1, ItemMovesRow
<1>3. PICK r \in Rows(o) :
        /\ row' = [row EXCEPT ![o] = r] /\ r.status = row[o].status
        /\ r.item[i] = "CANCELLED"
        /\ \A j \in ItemsOf(o) : j # i => r.item[j] = row[o].item[j]
  BY <1>1, ItemMovesRow
<1>4. (\E j \in ItemsOf(o) : r.item[j] \in InWork) => r.status \in Late
  BY <1>2, <1>3 DEF ItemsInv, NoEarlyWork, InWork
<1>5. \A c \in calls' : CallKnows(c) \/ CallKnows(c)'
  BY DEF ItemMoves, ItemsInv
<1>6. UNCHANGED <<orders, due>>
  BY DEF ItemMoves, ChangeUntold
<1> QED
  BY <1>2, <1>3, <1>4, <1>5, <1>6, OrderStep

\* A decision that the server takes.
Decided(c, x, r) ==
  /\ OrderCan(x.status, Target[c.op])
  /\ r = [status |-> Target[c.op], paid |-> x.paid, item |-> x.item, v |-> x.v + 1]
  /\ row' = [row EXCEPT ![c.of] = r] /\ due' = due \cup {[of |-> c.of, row |-> r]}
  /\ Reply(c, [c EXCEPT !.got = "ok", !.seen[c.of] = r])
  /\ UNCHANGED orders

LEMMA DecidedStep ==
  ASSUME ItemsInv, NEW c \in calls, c.of \in Orders, c.op \in Writes \ {"item"},
         NEW r, Decided(c, row[c.of], r)
  PROVE  ItemsInv'
<1>1. PICK x : x = row[c.of] /\ x \in Rows(c.of)
  BY DEF ItemsInv, Typed
<1>2. PICK s : s = Target[c.op]
  OBVIOUS
<1>3. /\ s \in OrderStatus /\ (x.status \notin Early => s \notin Early)
      /\ (x.status \in Late => s \in Late)
  BY <1>1, <1>2, OrderOnlyProgresses DEF Decided, Rows
<1>4. r \in Rows(c.of) /\ r.status = s /\ r.item = x.item
  <2>1. r = [status |-> s, paid |-> x.paid, item |-> x.item, v |-> x.v + 1]
    BY <1>1, <1>2 DEF Decided
  <2> QED
    BY <1>1, <1>3, <2>1 DEF Rows
<1>5. (\E i \in ItemsOf(c.of) : r.item[i] \in InWork) => r.status \in Late
  BY <1>1, <1>3, <1>4 DEF ItemsInv, NoEarlyWork
<1>6. row' = [row EXCEPT ![c.of] = r] /\ row'[c.of] = r
      /\ \A p \in Orders : p # c.of => row'[p] = row[p]
  BY DEF Decided, ItemsInv, Typed
<1>7. PICK rs : rs = [c.seen EXCEPT ![c.of] = r]
  OBVIOUS
<1>8. PICK a : a = [c EXCEPT !.got = "ok", !.seen = rs]
  OBVIOUS
<1>9. Request(c) /\ Known(c.seen)
  BY DEF ItemsInv, CallKnows
<1>10. Request(a) /\ a.op = c.op /\ a.of = c.of /\ a.seen = rs
  BY <1>8, <1>9 DEF Request
<1>11. Known(rs)'
  BY <1>4, <1>6, <1>7, <1>9 DEF Known, Typed, AnyRow
<1>12. c.op = "accept" => r.status \notin Early
  BY <1>2, <1>4 DEF Target, Early
<1>13. CallKnows(a)'
  BY <1>6, <1>10, <1>11, <1>12 DEF CallKnows, Request
<1>14. a = [c EXCEPT !.got = "ok", !.seen[c.of] = r]
  BY <1>7, <1>8, <1>9 DEF Request
<1>15. \A b \in calls' : CallKnows(b) \/ CallKnows(b)'
  BY <1>13, <1>14 DEF Decided, Reply, ItemsInv
<1> QED
  BY <1>1, <1>3, <1>4, <1>5, <1>6, <1>15, OrderStep DEF Decided

\* A request about no order changes none.
LEMMA NoOrderStep ==
  ASSUME ItemsInv, NEW c \in calls, c.of \notin Orders, c.op \in Writes \ {"item"},
         NEW r, row' = [row EXCEPT ![c.of] = r], due' = due \cup {[of |-> c.of, row |-> r]},
         NEW q, Reply(c, [c EXCEPT !.got = "ok", !.seen[c.of] = q]), UNCHANGED orders
  PROVE  ItemsInv'
<1>1. Request(c) /\ Known(c.seen) /\ Typed(row)
  BY DEF ItemsInv, CallKnows
<1>2. row' = row
  BY <1>1 DEF Typed
<1>3. PICK rs : rs = [c.seen EXCEPT ![c.of] = q]
  OBVIOUS
<1>4. rs = c.seen
  BY <1>1, <1>3 DEF Known, Typed
<1>5. PICK a : a = [c EXCEPT !.got = "ok", !.seen = rs]
  OBVIOUS
<1>6. Request(a) /\ a.op = c.op /\ a.of = c.of /\ a.seen = c.seen
  BY <1>1, <1>4, <1>5 DEF Request
<1>7. CallKnows(a)
  BY <1>1, <1>6 DEF CallKnows
<1>8. a = [c EXCEPT !.got = "ok", !.seen[c.of] = q]
  BY <1>1, <1>3, <1>5 DEF Request
<1>9. calls' \subseteq calls \cup {a}
  BY <1>8 DEF Reply
<1>10. \A e \in due' : e \in due \/ e.of \notin Orders
  OBVIOUS
<1>11. \A b \in calls' : CallKnows(b)
  BY <1>7, <1>9 DEF ItemsInv
<1>12. \A b : CallKnows(b) => CallKnows(b)'
  BY <1>2 DEF CallKnows, ItemRequest, Known
<1>13. \A e \in due' : EventKnows(e)'
  BY <1>2, <1>10 DEF ItemsInv, EventKnows
<1> QED
  BY <1>2, <1>11, <1>12, <1>13 DEF ItemsInv, NoEarlyWork, Known

LEMMA ServeDecisionStep ==
  ASSUME ItemsInv, NEW c \in calls, ServeDecision(c)
  PROVE  ItemsInv'
<1>1. Request(c) /\ Known(c.seen) /\ c.op # "item" /\ c.op \in Writes \ {"item"} /\ UNCHANGED orders
  BY DEF ItemsInv, CallKnows, ServeDecision
<1>2. CASE Reply(c, [c EXCEPT !.got = "error"]) /\ UNCHANGED <<row, due>>
  <2>1. PICK a : a = [c EXCEPT !.got = "error"]
    OBVIOUS
  <2>2. a = [c EXCEPT !.got = "error", !.seen = c.seen]
    BY <1>1, <2>1 DEF Request
  <2>3. CallKnows(a)
    BY <2>2, Failed
  <2> QED
    BY <1>1, <1>2, <2>1, <2>3, ReplyStep
<1>3. CASE /\ OrderCan(row[c.of].status, Target[c.op])
           /\ Publish(c.of, [row[c.of] EXCEPT !.status = Target[c.op]])
           /\ Reply(c, [c EXCEPT !.got = "ok", !.seen[c.of] = row'[c.of]])
  <2>1. PICK k, r : /\ k = [row[c.of] EXCEPT !.status = Target[c.op]]
                    /\ r = [k EXCEPT !.v = row[c.of].v + 1]
    OBVIOUS
  <2>2. row' = [row EXCEPT ![c.of] = r] /\ due' = due \cup {[of |-> c.of, row |-> r]}
    BY <1>3, <2>1 DEF Publish
  <2>3. CASE c.of \in Orders
    <3>1. PICK x : x = row[c.of] /\ x \in Rows(c.of)
      BY <2>3 DEF ItemsInv, Typed
    <3>2. r = [status |-> Target[c.op], paid |-> x.paid, item |-> x.item, v |-> x.v + 1]
      BY <2>1, <3>1 DEF Rows
    <3>3. row'[c.of] = r
      BY <2>2, <2>3 DEF ItemsInv, Typed
    <3>4. Decided(c, x, r)
      BY <1>1, <1>3, <2>2, <3>1, <3>2, <3>3 DEF Decided
    <3> QED
      BY <1>1, <2>3, <3>1, <3>4, DecidedStep
  <2>4. CASE c.of \notin Orders
    <3>1. PICK q : q = row'[c.of]
      OBVIOUS
    <3>2. Reply(c, [c EXCEPT !.got = "ok", !.seen[c.of] = q])
      BY <1>3, <3>1
    <3> QED
      BY <1>1, <2>2, <2>4, <3>2, NoOrderStep
  <2> QED
    BY <2>3, <2>4
<1> QED
  BY <1>2, <1>3 DEF ServeDecision

-----------------------------------------------------------------------------
(* The end of an item's transaction                                        *)

\* Progressed answers what was read, or that the order is in work.
LEMMA ProgressedGoesOn ==
  ASSUME NEW saw, NEW r
  PROVE  Progressed(saw, r) # saw.status => Progressed(saw, r) \in InWork
BY DEF Progressed, InWork

\* A transaction that wrote an item in work does not leave a CONFIRMED order as it was.
LEMMA WorkIsProgress ==
  ASSUME NEW saw, NEW r, NEW i \in DOMAIN saw.item, saw.item[i] \in InWork,
         Progressed(saw, r) = saw.status
  PROVE  saw.status # "CONFIRMED"
BY DEF Progressed, InWork

LEMMA ItemAnswerKnows ==
  ASSUME ItemsInv, NEW c \in calls, c.op = "item", NEW got \in {"ok", "error"},
         Reply(c, [c EXCEPT !.got = got, !.seen = Blank])
  PROVE  \A b \in calls' : CallKnows(b)
<1>1. PICK a : a = [c EXCEPT !.got = got, !.seen = Blank]
  OBVIOUS
<1>2. CallKnows(a)
  BY <1>1, Failed
<1> QED
  BY <1>1, <1>2 DEF Reply, ItemsInv

\* What the end of an item's transaction does to the row: k has the item in it.
ItemKept(c, k) ==
  /\ k \in Rows(c.of) /\ k.status = row[c.of].status
  /\ k.item[c.item] = c.to
  /\ \A j \in ItemsOf(c.of) : j # c.item => k.item[j] = row[c.of].item[j]

Ended(c, k, r) ==
  /\ r \in Rows(c.of) /\ r.item = k.item /\ r.paid = row[c.of].paid /\ r.v = row[c.of].v + 1
  /\ row' = [row EXCEPT ![c.of] = r]
  /\ \A e \in due' : e \in due \/ e = [of |-> c.of, row |-> r]
  /\ \/ [of |-> c.of, row |-> r] \in due'
     \/ c.of \in behind'
     \/ c.mine /\ Reply(c, [c EXCEPT !.got = "ok", !.seen = Blank])
  /\ LET saw  == c.seen[c.of]
         next == Progressed(saw, k)
     IN  \/ next = saw.status /\ r.status = row[c.of].status
         \/ next # saw.status /\ row[c.of].status = saw.status /\ r.status = next

LEMMA CommitItemRow ==
  ASSUME ItemsInv, NEW c \in calls, CommitItem(c)
  PROVE  \/ UNCHANGED <<row, due>>
         \/ \E k, r : ItemKept(c, k) /\ Ended(c, k, r)
<1>1. c.op = "item" /\ c.got = "written" /\ ItemRequest(c) /\ Known(c.seen)
  BY DEF CommitItem, ItemsInv, CallKnows
<1>2. PICK o, i : /\ o = c.of /\ o \in Orders /\ i = c.item /\ i \in ItemsOf(o)
  BY <1>1 DEF ItemRequest
<1>3. PICK x, saw : /\ x = row[o] /\ x \in Rows(o) /\ saw = c.seen[o] /\ saw \in Rows(o)
  BY <1>1, <1>2 DEF ItemsInv, Known, Typed
<1>4. PICK kept, r : kept = [x EXCEPT !.item[i] = c.to] /\ r = ItemSet(x, i, c.to)
  OBVIOUS
<1>5. PICK next : next = Progressed(saw, kept)
  OBVIOUS
<1>6. /\ kept = [status |-> x.status, paid |-> x.paid, item |-> r.item, v |-> x.v]
      /\ r = [status |-> x.status, paid |-> x.paid, item |-> r.item, v |-> x.v + 1]
  <2>1. PICK it : it = [x.item EXCEPT ![i] = c.to]
    OBVIOUS
  <2>2. r = [status |-> x.status, paid |-> x.paid, item |-> it, v |-> x.v + 1]
    BY <1>4, <2>1 DEF ItemSet
  <2>3. kept = [status |-> x.status, paid |-> x.paid, item |-> it, v |-> x.v]
    BY <1>3, <1>4, <2>1 DEF Rows
  <2> QED
    BY <2>2, <2>3
<1>7. /\ r \in Rows(o) /\ r.status = x.status /\ r.paid = x.paid /\ r.v = x.v + 1
      /\ r.item[i] = c.to /\ \A j \in ItemsOf(o) : j # i => r.item[j] = x.item[j]
  <2>1. c.to \in ItemStatus
    BY <1>1 DEF ItemRequest, ItemStatus
  <2> QED
    BY <1>2, <1>3, <1>4, <2>1, ItemSetTyped
<1>8. ItemKept(c, kept) /\ kept.item = r.item
  BY <1>2, <1>3, <1>6, <1>7 DEF ItemKept, Rows
<1>9. CASE /\ next = saw.status /\ ChangeUntold(o, kept, c.mine)
           /\ Reply(c, [c EXCEPT !.got = "ok", !.seen = Blank])
  <2>1. row' = [row EXCEPT ![o] = r] /\ UNCHANGED due
    <3>1. [kept EXCEPT !.v = @ + 1] = r
      BY <1>6
    <3> QED
      BY <1>9, <3>1 DEF ChangeUntold
  <2>2. o \in behind' \/ (c.mine /\ Reply(c, [c EXCEPT !.got = "ok", !.seen = Blank]))
    BY <1>9 DEF ChangeUntold
  <2>3. Ended(c, kept, r)
    BY <1>2, <1>3, <1>5, <1>7, <1>8, <1>9, <2>1, <2>2 DEF Ended
  <2> QED
    BY <1>8, <2>3
<1>10. CASE next # saw.status /\ x.status = saw.status /\ Publish(o, [kept EXCEPT !.status = next])
  <2>1. PICK q : q = [status |-> next, paid |-> x.paid, item |-> r.item, v |-> x.v + 1]
    OBVIOUS
  <2>2. row' = [row EXCEPT ![o] = q] /\ due' = due \cup {[of |-> o, row |-> q]}
    <3>1. PICK k : k = [kept EXCEPT !.status = next]
      OBVIOUS
    <3>2. k = [status |-> next, paid |-> x.paid, item |-> r.item, v |-> x.v]
      BY <1>6, <3>1
    <3>3. [k EXCEPT !.v = x.v + 1] = q
      BY <2>1, <3>2
    <3> QED
      BY <1>3, <1>10, <3>1, <3>3 DEF Publish
  <2>3. next \in OrderStatus
    BY <1>5, <1>10, ProgressedGoesOn DEF InWork, OrderStatus
  <2>4. q \in Rows(o) /\ q.status = next /\ q.item = r.item /\ q.paid = x.paid /\ q.v = x.v + 1
    BY <1>3, <1>7, <2>1, <2>3 DEF Rows
  <2>5. Ended(c, kept, q)
    BY <1>2, <1>3, <1>5, <1>8, <1>10, <2>2, <2>4 DEF Ended
  <2> QED
    BY <1>8, <2>5
<1> QED
  BY <1>2, <1>3, <1>4, <1>5, <1>9, <1>10 DEF CommitItem

\* When the order stays as it was read, an item that is now in work was one of an order
\* read in work or later, and the order still is; when it goes on, it goes into work from
\* where it was read; otherwise nothing is kept.
LEMMA CommitItemStep ==
  ASSUME ItemsInv, NEW c \in calls, CommitItem(c)
  PROVE  ItemsInv'
<1>1. c.op = "item" /\ c.got = "written" /\ ItemRequest(c) /\ UNCHANGED orders
  BY DEF CommitItem, ItemsInv, CallKnows
<1>2. \A b \in calls' : CallKnows(b)
  BY <1>1, ItemAnswerKnows DEF CommitItem
<1>3. CASE UNCHANGED <<row, due>>
  BY <1>1, <1>2, <1>3, PageStep DEF ItemsInv
<1>4. ASSUME NEW k, NEW r, ItemKept(c, k), Ended(c, k, r) PROVE ItemsInv'
  <2>1. PICK o, i : /\ o = c.of /\ o \in Orders /\ i = c.item /\ i \in ItemsOf(o)
    BY <1>1 DEF ItemRequest
  <2>2. PICK saw : saw = c.seen[o] /\ saw \in Rows(o)
    BY <2>1 DEF ItemsInv, CallKnows, Known, Typed
  <2>3. /\ saw.status \notin Early /\ row[o].status \notin Early
        /\ saw.status \in Late => row[o].status \in Late
        /\ saw.item[i] = c.to
    BY <1>1, <2>1, <2>2 DEF ItemRequest
  <2>4. PICK next : next = Progressed(saw, k)
    OBVIOUS
  <2>5. \/ next = saw.status /\ r.status = row[o].status
        \/ next # saw.status /\ r.status = next
    BY <1>4, <2>1, <2>2, <2>4 DEF Ended
  <2>6. CASE next = saw.status /\ r.status = row[o].status
    <3>1. c.to \in InWork => row[o].status \in Late
      <4>1. SUFFICES ASSUME c.to \in InWork PROVE saw.status \in Late
        BY <2>3
      <4>2. i \in DOMAIN saw.item
        BY <2>1, <2>2 DEF Rows
      <4>3. saw.status # "CONFIRMED"
        BY <2>3, <2>4, <2>6, <4>1, <4>2, WorkIsProgress
      <4> QED
        BY <2>2, <2>3, <4>3 DEF Rows, Late, Early
    <3>2. (\E j \in ItemsOf(o) : r.item[j] \in InWork) => r.status \in Late
      BY <1>4, <2>1, <2>6, <3>1 DEF ItemKept, Ended, ItemsInv, NoEarlyWork
    <3> QED
      BY <1>1, <1>2, <1>4, <2>1, <2>6, <3>2, OrderStep DEF Ended
  <2>7. CASE next # saw.status /\ r.status = next
    <3>1. r.status \in Late /\ r.status \notin Early
      BY <2>4, <2>7, ProgressedGoesOn DEF InWork, Late, Early, OrderStatus
    <3> QED
      BY <1>1, <1>2, <1>4, <2>1, <3>1, OrderStep DEF Ended
  <2> QED
    BY <2>5, <2>6, <2>7
<1> QED
  BY <1>3, <1>4, CommitItemRow

-----------------------------------------------------------------------------
(* Every step                                                              *)

LEMMA ServerStep ==
  ASSUME ItemsInv, NEW c \in calls, Server(c)
  PROVE  ItemsInv'
BY ServeReadStep, ServeDecisionStep, WriteItemStep, CommitItemStep, LoseStep DEF Server

LEMMA ItemsStep == ItemsInv /\ [Next]_vars => ItemsInv'
<1> SUFFICES ASSUME ItemsInv, [Next]_vars PROVE ItemsInv'
  OBVIOUS
<1>1. CASE UNCHANGED vars
  BY <1>1, PageStep DEF ItemsInv
<1>2. CASE Next
  BY <1>2, ShellStep, ServerStep, AnswerStep, EventStep, OperatorStep, OrderMovesStep,
     ItemMovesStep DEF Next
<1> QED
  BY <1>1, <1>2

\* A page is opened with nothing; the items of an order are in work if the order is.
LEMMA ItemsInit == Init => ItemsInv
<1> SUFFICES ASSUME Init PROVE ItemsInv
  OBVIOUS
<1>1. PICK s \in [Orders -> OrderStatus] :
        row = [o \in Orders |->
                 Fresh(o, s[o], IF s[o] = "PREPARING" THEN "PREPARING" ELSE "PENDING")]
  BY DEF Init
<1>2. \A o \in Orders : /\ row[o] \in Rows(o)
                        /\ (\E i \in ItemsOf(o) : row[o].item[i] \in InWork)
                             => row[o].status = "PREPARING"
  <2> TAKE o \in Orders
  <2>1. PICK it \in {"PREPARING", "PENDING"} :
          it = IF s[o] = "PREPARING" THEN "PREPARING" ELSE "PENDING"
    OBVIOUS
  <2>2. row[o] = [status |-> s[o], paid |-> s[o] # "NONE", item |-> [i \in ItemsOf(o) |-> it],
                  v |-> 0]
    BY <1>1, <2>1 DEF Fresh
  <2>3. [i \in ItemsOf(o) |-> it] \in [ItemsOf(o) -> ItemStatus]
    BY <2>1 DEF ItemStatus
  <2>4. row[o] \in Rows(o)
    BY <2>2, <2>3 DEF Rows
  <2> QED
    BY <2>1, <2>2, <2>4 DEF InWork
<1>3. Typed(row) /\ NoEarlyWork
  BY <1>1, <1>2 DEF Typed, AnyRow, NoEarlyWork, Late, Early, OrderStatus
<1>4. Known(orders)
  BY <1>3, BlankKnown DEF Init
<1>5. \A c \in calls : CallKnows(c)
  <2>1. ASSUME NEW op, op # "item", NEW o, NEW c, c = Call(op, o, 0) PROVE CallKnows(c)
    <3>1. Request(c) /\ c.seen = Blank /\ c.op = op /\ c.got = "sent"
      BY <2>1 DEF Call, Request
    <3> QED
      BY <1>3, <2>1, <3>1, BlankKnown DEF CallKnows
  <2>2. \A c \in calls : \E op, o : op # "item" /\ c = Call(op, o, 0)
    BY DEF Init
  <2> QED
    BY <2>1, <2>2
<1>6. \A e \in due : EventKnows(e)
  BY DEF Init
<1> QED
  BY <1>3, <1>4, <1>5, <1>6 DEF ItemsInv

\* However the requests about the items of an order cross, whatever pages sent them and
\* however old what those pages showed was, nothing is in work of an order that is not
\* being prepared yet: the code's updates of items and orders keep in step.
THEOREM ItemsKeepUp == Spec => []ItemsFollowOrder
<1>1. Init => ItemsInv
  BY ItemsInit
<1>2. ItemsInv /\ [Next]_vars => ItemsInv'
  BY ItemsStep
<1>3. ItemsInv => ItemsFollowOrder
  BY ItemsInvImplies
<1> QED
  BY <1>1, <1>2, <1>3, PTL DEF Spec

-----------------------------------------------------------------------------
(* An order whose items are all ready                                      *)

\* A row that is past its preparation stays so.
Beyond == Late \ {"PREPARING"}

Writing(c) == c.op = "item" /\ c.got = "written"

\* The transactions that have written an item of o and not ended are about one item, and
\* what they read of o differs from the row by their own write only.
OneWrites(o) ==
  /\ \A b, c \in Written(o) : b.item = c.item
  /\ \A c \in Written(o) : \A i \in ItemsOf(o) :
       c.seen[o].item[i] = IF i = c.item THEN c.to ELSE row[o].item[i]

ReadyInv ==
  /\ ReadyTogether
  /\ \A o \in Orders \ overlapped : OneWrites(o)
  /\ \A o \in Orders : \A c \in Written(o) :
       c.seen[o].status \in Beyond => row[o].status \in Beyond

\* What a transaction goes by is the same in both.
SameWrite(c, b) ==
  c.op = b.op /\ c.of = b.of /\ c.item = b.item /\ c.to = b.to /\ c.got = b.got /\ c.seen = b.seen

NoNewWrite == \A c \in calls' : Writing(c) => \E b \in calls : SameWrite(c, b)

\* A step that begins no transaction keeps the invariant, if it changes only items that
\* transactions were writing, or marks their orders as overlapped.
LEMMA ReadyStep ==
  ASSUME ReadyInv, NoNewWrite, ReadyTogether', overlapped \subseteq overlapped',
         \A o \in Orders : row[o].status \in Beyond => row'[o].status \in Beyond,
         \A o \in Orders \ overlapped' : Written(o) # {} =>
           \A i \in ItemsOf(o) :
             row'[o].item[i] = row[o].item[i] \/ \E b \in Written(o) : b.item = i
  PROVE  ReadyInv'
<1>1. ASSUME NEW o, NEW c \in Written(o)' PROVE \E b \in Written(o) : SameWrite(c, b)
  BY <1>1 DEF Written, NoNewWrite, Writing, SameWrite
<1>2. ASSUME NEW o \in Orders \ overlapped' PROVE OneWrites(o)'
  <2>1. OneWrites(o)
    BY <1>2 DEF ReadyInv
  <2>2. \A b, c \in Written(o)' : b.item = c.item
    BY <1>1, <2>1 DEF OneWrites, SameWrite
  <2>3. ASSUME NEW c \in Written(o)', NEW i \in ItemsOf(o)
        PROVE  c.seen[o].item[i] = IF i = c.item THEN c.to ELSE row'[o].item[i]
    <3>1. PICK b \in Written(o) : SameWrite(c, b)
      BY <1>1, <2>3
    <3>2. c.seen[o].item[i] = IF i = c.item THEN c.to ELSE row[o].item[i]
      BY <2>1, <3>1 DEF OneWrites, SameWrite
    <3>3. i # c.item => row'[o].item[i] = row[o].item[i]
      BY <1>2, <2>1, <3>1 DEF OneWrites, SameWrite
    <3> QED
      BY <3>2, <3>3
  <2> QED
    BY <2>2, <2>3 DEF OneWrites, ItemsOf
<1>3. \A o \in Orders : \A c \in Written(o)' :
        c.seen[o].status \in Beyond => row'[o].status \in Beyond
  BY <1>1 DEF ReadyInv, SameWrite
<1> QED
  BY <1>2, <1>3 DEF ReadyInv

\* Requests that a page makes, leaves or is answered are not transactions of items.
LEMMA OnlyPages ==
  ASSUME ItemsInv,
         \A c \in calls' : c \in calls \/ ~Writing(c) \/ \E b \in calls : Left(c, b)
  PROVE  NoNewWrite
<1>1. ASSUME NEW c, NEW b \in calls, Left(c, b) PROVE SameWrite(c, b)
  BY <1>1 DEF Left, SameWrite, ItemsInv, CallKnows, Request
<1>2. \A c \in calls : SameWrite(c, c)
  BY DEF SameWrite
<1> QED
  BY <1>1, <1>2 DEF NoNewWrite

LEMMA ReadyPageStep ==
  ASSUME ItemsInv, ReadyInv, UNCHANGED <<row, overlapped>>,
         \A c \in calls' : c \in calls \/ ~Writing(c) \/ \E b \in calls : Left(c, b)
  PROVE  ReadyInv'
BY OnlyPages, ReadyStep DEF ReadyInv, ReadyTogether

LEMMA NewCallSent ==
  ASSUME NEW op, NEW o, NEW n, NEW s, NEW f
  PROVE  /\ ~Writing(Call(op, o, n)) /\ ~Writing([Call(op, o, n) EXCEPT !.sel = s])
         /\ ~Writing([Call(op, o, n) EXCEPT !.sel = s, !.frees = f])
BY DEF Call, Writing

LEMMA MountWrites ==
  ASSUME NEW v, NEW o, NEW kept, kept \subseteq Kept, Mount(v, o, kept)
  PROVE  \A c \in calls' : c \in calls \/ ~Writing(c) \/ \E b \in calls : Left(c, b)
<1>1. PICK op : op = IF v = "detail" THEN "detail" ELSE "load"
  OBVIOUS
<1>2. PICK d : d = [Call(op, o, presses) EXCEPT !.sel = o]
  OBVIOUS
<1>3. calls' = kept \cup {d} /\ ~Writing(d)
  BY <1>1, <1>2, NewCallSent DEF Mount
<1> QED
  BY <1>3, OfKept

LEMMA AgainWrites ==
  ASSUME NEW c, NEW frees, Again(c, frees)
  PROVE  \A b \in calls' : b \in calls \/ ~Writing(b)
<1>1. PICK op : op = IF view = "detail" THEN "detail" ELSE "load"
  OBVIOUS
<1>2. PICK d : d = [Call(op, c.sel, c.n) EXCEPT !.sel = c.sel, !.frees = frees]
  OBVIOUS
<1>3. calls' = (calls \ {c}) \cup {d}
  BY <1>1, <1>2, Zenon DEF Again
<1>4. ~Writing(d)
  BY <1>2, NewCallSent
<1> QED
  BY <1>3, <1>4

LEMMA ReadyShell ==
  ASSUME ItemsInv, ReadyInv, Shell
  PROVE  ReadyInv'
<1>1. CASE NavigateToView
  <2>1. \E v, o : Mount(v, o, Kept)
    BY <1>1 DEF NavigateToView
  <2> QED
    BY <1>1, <2>1, MountWrites, ReadyPageStep DEF NavigateToView
<1>2. CASE FollowUrl
  <2>1. PICK o, d : d = [Call("detail", o, presses) EXCEPT !.sel = o] /\ calls' = calls \cup {d}
    BY <1>2 DEF FollowUrl
  <2>2. ~Writing(d)
    BY <2>1, NewCallSent
  <2> QED
    BY <1>2, <2>1, <2>2, ReadyPageStep DEF FollowUrl
<1>3. CASE ConfirmLogout
  BY <1>3, OfKept, ReadyPageStep DEF ConfirmLogout
<1>4. CASE HandleLogin
  BY <1>4, MountWrites, ReadyPageStep DEF HandleLogin
<1>5. CASE Join
  BY <1>5, ReadyPageStep DEF Join
<1> QED
  BY <1>1, <1>2, <1>3, <1>4, <1>5 DEF Shell

LEMMA ReadyAnswer ==
  ASSUME ItemsInv, ReadyInv, NEW c \in calls, Answer(c)
  PROVE  ReadyInv'
<1>1. CASE SessionRefreshed(c)
  <2>1. CASE LoggedOut /\ calls' = Kept \ {c}
    BY <1>1, <2>1, OfKept, ReadyPageStep DEF SessionRefreshed
  <2>2. CASE Mount("dashboard", None, Kept \ {c})
    BY <1>1, <2>2, MountWrites, ReadyPageStep DEF SessionRefreshed
  <2>3. CASE calls' = (calls \ {c}) \cup
                        {Call(IF view = "detail" THEN "detail" ELSE "load", selected, presses)}
    <3>1. PICK d : /\ d = Call(IF view = "detail" THEN "detail" ELSE "load", selected, presses)
                   /\ calls' = (calls \ {c}) \cup {d}
      BY <2>3
    <3>2. ~Writing(d)
      BY <3>1, NewCallSent
    <3> QED
      BY <1>1, <3>1, <3>2, ReadyPageStep DEF SessionRefreshed
  <2> QED
    BY <1>1, <2>1, <2>2, <2>3 DEF SessionRefreshed
<1>2. CASE OrdersLoaded(c) \/ DetailLoaded(c)
  BY <1>2, ReadyPageStep DEF OrdersLoaded, DetailLoaded
<1>3. CASE DecisionAnswered(c)
  <2>1. \A b \in calls' : b \in calls \/ ~Writing(b)
    BY <1>3, AgainWrites DEF DecisionAnswered
  <2> QED
    BY <1>3, <2>1, ReadyPageStep DEF DecisionAnswered
<1>4. CASE ItemAnswered(c)
  <2>1. \A b \in calls' : b \in calls \/ ~Writing(b)
    BY <1>4, AgainWrites DEF ItemAnswered
  <2> QED
    BY <1>4, <2>1, ReadyPageStep DEF ItemAnswered
<1> QED
  BY <1>1, <1>2, <1>3, <1>4 DEF Answer

LEMMA ReadyPress ==
  ASSUME ItemsInv, ReadyInv, NEW op, NEW o, Press(op, o), UNCHANGED <<row, overlapped>>
  PROVE  ReadyInv'
<1>1. PICK d : d = Call(op, o, presses') /\ calls' = calls \cup {d}
  BY DEF Press
<1>2. ~Writing(d)
  BY <1>1, NewCallSent
<1> QED
  BY <1>1, <1>2, ReadyPageStep

LEMMA ReadyOperator ==
  ASSUME ItemsInv, ReadyInv, Operator
  PROVE  ReadyInv'
<1>1. ASSUME NEW o \in Orders, HandleAccept(o) \/ HandleStartOrReady(o) PROVE ReadyInv'
  BY <1>1, ReadyPress DEF HandleAccept, HandleStartOrReady
<1>2. CASE ConfirmReject
  BY <1>2, ReadyPress DEF ConfirmReject
<1>3. CASE CancelReject \/ \E o \in Orders : RequestReject(o)
  BY <1>3, ReadyPageStep DEF CancelReject, RequestReject
<1>4. ASSUME NEW i \in Items, NEW s \in ItemStatus, HandleItemStatus(i, s) PROVE ReadyInv'
  <2>1. PICK d : /\ d = [Call("item", Of[i], presses') EXCEPT !.item = i, !.to = s]
                 /\ calls' = calls \cup {d}
    BY <1>4 DEF HandleItemStatus
  <2>2. ~Writing(d)
    BY <2>1 DEF Call, Writing
  <2> QED
    BY <1>4, <2>1, <2>2, ReadyPageStep DEF HandleItemStatus
<1> QED
  BY <1>1, <1>2, <1>3, <1>4 DEF Operator

LEMMA ReadyEvent ==
  ASSUME ItemsInv, ReadyInv, NEW e \in due, OnEvent(e) \/ MissEvent(e)
  PROVE  ReadyInv'
BY ReadyPageStep DEF OnEvent, MissEvent, Comes

LEMMA OnlyReadyOrders ==
  ASSUME NEW s \in OrderStatus \cup {"NONE"}, NEW t, OrderCan(s, t)
  PROVE  (s \in Beyond => t \in Beyond) /\ (t = "PREPARING" => s = "CONFIRMED")
BY DEF OrderCan, OrderEdges, OrderStatus, Early, Late, Beyond

\* No order is without an item.
LEMMA AllReadyIsWork ==
  ASSUME NEW o \in Orders, NEW r \in Rows(o), AllReady(r)
  PROVE  \E i \in ItemsOf(o) : r.item[i] \in InWork
BY RestaurantBoardAssumption DEF AllReady, Rows, ItemsOf, InWork

\* An order that changes its status alone: it begins its preparation with no item ready.
LEMMA ReadyStatusStep ==
  ASSUME ItemsInv, ReadyInv, NoNewWrite, UNCHANGED overlapped,
         NEW o \in Orders, NEW s,
         OrderCan(row[o].status, s) \/ (s = "PENDING" /\ row[o].status \in Early),
         row'[o].item = row[o].item, row'[o].status = s, row'[o] \in Rows(o),
         \A p \in Orders : p # o => row'[p] = row[p]
  PROVE  ReadyInv'
<1>1. PICK x : x = row[o] /\ x \in Rows(o)
  BY DEF ItemsInv, Typed
<1>2. x.status \in OrderStatus \cup {"NONE"}
  BY <1>1 DEF Rows
<1>3. (x.status \in Beyond => s \in Beyond) /\ (s = "PREPARING" => x.status = "CONFIRMED")
  BY <1>1, <1>2, OnlyReadyOrders DEF Early, Late, Beyond
<1>4. ~(AllReady(row'[o]) /\ s = "PREPARING")
  <2>1. SUFFICES ASSUME AllReady(row'[o]), s = "PREPARING" PROVE FALSE
    OBVIOUS
  <2>2. \E i \in ItemsOf(o) : row'[o].item[i] \in InWork
    BY <2>1, AllReadyIsWork
  <2>3. x.status \in Late
    BY <1>1, <2>2 DEF ItemsInv, NoEarlyWork
  <2> QED
    BY <1>3, <2>1, <2>3 DEF Late
<1>5. ReadyTogether'
  <2>1. SUFFICES ASSUME NEW p \in Orders, AllReady(row'[p]), row'[p].status = "PREPARING"
                 PROVE  p \in overlapped
    BY DEF ReadyTogether, AllReady
  <2>2. p # o
    BY <1>4, <2>1
  <2> QED
    BY <2>1, <2>2 DEF ReadyInv, ReadyTogether
<1>6. \A p \in Orders : row[p].status \in Beyond => row'[p].status \in Beyond
  BY <1>1, <1>3
<1> QED
  BY <1>5, <1>6, ReadyStep

LEMMA ReplyWrites ==
  ASSUME NEW c, NEW a, Reply(c, a), ~Writing(a)
  PROVE  \A b \in calls' : b \in calls \/ ~Writing(b)
BY DEF Reply

LEMMA ReadyServeRead ==
  ASSUME ItemsInv, ReadyInv, NEW c \in calls, ServeRead(c)
  PROVE  ReadyInv'
<1>1. PICK a : Reply(c, a) /\ ~Writing(a)
  <2>1. Request(c)
    BY DEF ItemsInv, CallKnows
  <2>2. CASE c.op = "load"
    <3>1. PICK rs : rs = [o \in Orders |-> IF Active(row[o]) THEN row[o] ELSE Gone(row[o])]
      OBVIOUS
    <3>2. PICK a : a = [c EXCEPT !.got = "ok", !.seen = rs]
      OBVIOUS
    <3>3. a.got = "ok"
      BY <2>1, <3>2 DEF Request
    <3>4. Reply(c, a)
      BY <2>2, <3>1, <3>2 DEF ServeRead, Asked
    <3> QED
      BY <3>3, <3>4 DEF Writing
  <2>3. CASE c.op = "detail"
    <3>1. PICK a : a = [c EXCEPT !.got = "ok", !.seen[c.of] = row[c.of]]
      OBVIOUS
    <3>2. a.got = "ok"
      BY <3>1, SeenNow
    <3>3. Reply(c, a)
      BY <2>3, <3>1 DEF ServeRead, Asked
    <3> QED
      BY <3>2, <3>3 DEF Writing
  <2>4. CASE c.op = "refresh"
    <3>1. PICK a : a = [c EXCEPT !.got = "ok"]
      OBVIOUS
    <3>2. a.got = "ok"
      BY <2>1, <3>1 DEF Request
    <3>3. Reply(c, a)
      BY <2>4, <3>1 DEF ServeRead, Asked
    <3> QED
      BY <3>2, <3>3 DEF Writing
  <2> QED
    BY <2>2, <2>3, <2>4 DEF ServeRead, Asked
<1> QED
  BY <1>1, ReplyWrites, ReadyPageStep DEF ServeRead

\* A request that ends with an answer without rows.
LEMMA EndedWrites ==
  ASSUME ItemsInv, NEW c \in calls, NEW got \in {"ok", "error"}, NEW a,
         a = [c EXCEPT !.got = got, !.seen = Blank]
  PROVE  ~Writing(a)
BY DEF ItemsInv, CallKnows, Request, Writing

LEMMA ReadyLose ==
  ASSUME ItemsInv, ReadyInv, NEW c \in calls, Lose(c)
  PROVE  ReadyInv'
<1>1. PICK a : a = [c EXCEPT !.got = "error", !.seen = Blank]
  OBVIOUS
<1>2. calls' = (calls \ {c}) \cup {a} /\ ~Writing(a)
  BY <1>1, EndedWrites DEF Lose
<1> QED
  BY <1>2, ReadyPageStep DEF Lose

LEMMA ReadyServeDecision ==
  ASSUME ItemsInv, ItemsInv', ReadyInv, NEW c \in calls, ServeDecision(c)
  PROVE  ReadyInv'
<1>1. Request(c) /\ c.op # "item" /\ UNCHANGED overlapped
  BY DEF ItemsInv, CallKnows, ServeDecision
<1>2. CASE Reply(c, [c EXCEPT !.got = "error"]) /\ UNCHANGED row
  <2>1. PICK a : a = [c EXCEPT !.got = "error"]
    OBVIOUS
  <2>2. ~Writing(a)
    BY <1>1, <2>1 DEF Request, Writing
  <2> QED
    BY <1>1, <1>2, <2>1, <2>2, ReplyWrites, ReadyPageStep
<1>3. CASE /\ OrderCan(row[c.of].status, Target[c.op])
           /\ Publish(c.of, [row[c.of] EXCEPT !.status = Target[c.op]])
           /\ Reply(c, [c EXCEPT !.got = "ok", !.seen[c.of] = row'[c.of]])
  <2>1. PICK q : q = row'[c.of]
    OBVIOUS
  <2>2. PICK rs : rs = [c.seen EXCEPT ![c.of] = q]
    OBVIOUS
  <2>3. PICK a : a = [c EXCEPT !.got = "ok", !.seen = rs]
    OBVIOUS
  <2>4. a = [c EXCEPT !.got = "ok", !.seen[c.of] = q]
    BY <1>1, <2>2, <2>3 DEF Request
  <2>5. Reply(c, a) /\ ~Writing(a)
    BY <1>1, <1>3, <2>1, <2>3, <2>4 DEF Request, Writing
  <2>6. \A b \in calls' : b \in calls \/ ~Writing(b)
    BY <2>5, ReplyWrites
  <2>7. PICK r : r = [[row[c.of] EXCEPT !.status = Target[c.op]] EXCEPT !.v = row[c.of].v + 1]
    OBVIOUS
  <2>8. row' = [row EXCEPT ![c.of] = r]
    BY <1>3, <2>7 DEF Publish
  <2>9. CASE c.of \in Orders
    <3>1. PICK x, s : x = row[c.of] /\ x \in Rows(c.of) /\ s = Target[c.op]
      BY <2>9 DEF ItemsInv, Typed
    <3>2. r = [status |-> s, paid |-> x.paid, item |-> x.item, v |-> x.v + 1]
      BY <2>7, <3>1 DEF Rows
    <3>3. row'[c.of] = r /\ \A p \in Orders : p # c.of => row'[p] = row[p]
      BY <2>8, <2>9 DEF ItemsInv, Typed
    <3>4. row'[c.of] \in Rows(c.of)
      BY <2>9 DEF ItemsInv, Typed
    <3>5. /\ row'[c.of].item = row[c.of].item /\ row'[c.of].status = s
          /\ OrderCan(row[c.of].status, s)
      BY <1>3, <3>1, <3>2, <3>3
    <3>6. NoNewWrite
      BY <2>6, OnlyPages
    <3> QED
      BY <1>1, <2>9, <3>3, <3>4, <3>5, <3>6, ReadyStatusStep
  <2>10. CASE c.of \notin Orders
    <3>1. UNCHANGED row
      BY <2>8, <2>10 DEF ItemsInv, Typed
    <3> QED
      BY <1>1, <2>6, <3>1, ReadyPageStep
  <2> QED
    BY <2>9, <2>10
<1> QED
  BY <1>2, <1>3 DEF ServeDecision

LEMMA ReadyOrderMoves ==
  ASSUME ItemsInv, ItemsInv', ReadyInv, NEW o \in Orders, OrderMoves(o)
  PROVE  ReadyInv'
<1>1. PICK x : x = row[o] /\ x \in Rows(o)
  BY DEF ItemsInv, Typed
<1>2. PICK s \in OrderStatus, p \in BOOLEAN :
        /\ OrderCan(row[o].status, s) \/ (s = "PENDING" /\ row[o].status \in {"NONE", "PENDING"})
        /\ Publish(o, WithStatus(row[o], s, p))
  BY OrderMovesPublishes
<1>3. /\ row'[o].item = x.item /\ row'[o].status = s
      /\ \A q \in Orders : q # o => row'[q] = row[q]
  <2>1. PICK k : k = WithStatus(x, s, p)
    OBVIOUS
  <2>2. row' = [row EXCEPT ![o] = [k EXCEPT !.v = x.v + 1]]
    BY <1>1, <1>2, <2>1 DEF Publish
  <2>3. [k EXCEPT !.v = x.v + 1] = [status |-> s, paid |-> p, item |-> x.item, v |-> x.v + 1]
    BY <2>1 DEF WithStatus
  <2> QED
    BY <2>2, <2>3 DEF ItemsInv, Typed
<1>4. row'[o] \in Rows(o)
  BY DEF ItemsInv, Typed
<1> QED
  BY <1>1, <1>2, <1>3, <1>4, OnlyPages, ReadyStatusStep DEF OrderMoves, Early

\* A cancelled item is not a ready one, and whoever was writing one overlaps.
LEMMA ReadyItemMoves ==
  ASSUME ItemsInv, ReadyInv, NEW i \in Items, ItemMoves(i)
  PROVE  ReadyInv'
<1>1. PICK o : o = Of[i]
  OBVIOUS
<1>2. o \in Orders /\ i \in ItemsOf(o)
  BY <1>1, ItemMovesRow
<1>3. PICK r \in Rows(o) : /\ row' = [row EXCEPT ![o] = r] /\ r.status = row[o].status
                           /\ r.item[i] = "CANCELLED"
  BY <1>1, ItemMovesRow
<1>4. row'[o] = r /\ \A p \in Orders : p # o => row'[p] = row[p]
  BY <1>2, <1>3 DEF ItemsInv, Typed
<1>5. ~AllReady(row'[o])
  BY <1>2, <1>3, <1>4 DEF AllReady, Rows
<1>6. overlapped \subseteq overlapped' /\ (Written(o) # {} => o \in overlapped')
  BY <1>1 DEF ItemMoves
<1>7. ReadyTogether'
  <2>1. SUFFICES ASSUME NEW p \in Orders, AllReady(row'[p]), row'[p].status = "PREPARING"
                 PROVE  p \in overlapped'
    BY DEF ReadyTogether, AllReady
  <2>2. p # o
    BY <1>5, <2>1
  <2> QED
    BY <1>4, <1>6, <2>1, <2>2 DEF ReadyInv, ReadyTogether
<1>8. NoNewWrite
  BY OnlyPages DEF ItemMoves
<1> QED
  BY <1>3, <1>4, <1>6, <1>7, <1>8, ReadyStep

\* An order read with every item ready goes on, and one that begins has an item that is not.
LEMMA ReadyGoesOn ==
  ASSUME NEW o \in Orders, NEW saw \in Rows(o), NEW k \in Rows(o), saw.item = k.item,
         AllReady(k), saw.status \in {"CONFIRMED", "PREPARING"}
  PROVE  Progressed(saw, k) = "READY"
<1>1. \E i \in ItemsOf(o) : k.item[i] \in InWork
  BY AllReadyIsWork
<1>2. \A i \in ItemsOf(o) : k.item[i] = "READY"
  BY DEF AllReady, Rows
<1>3. DOMAIN saw.item = ItemsOf(o) /\ DOMAIN k.item = ItemsOf(o)
  BY DEF Rows
<1>4. [k EXCEPT !.item = k.item] = k
  BY DEF Rows
<1> QED
  BY <1>1, <1>2, <1>3, <1>4 DEF Progressed, AllReady

\* Only an order read before it was ready goes on.
LEMMA GoesOnEarly ==
  ASSUME NEW saw, NEW k, Progressed(saw, k) # saw.status
  PROVE  saw.status \in {"CONFIRMED", "PREPARING"}
BY DEF Progressed

LEMMA ReadyCommitItem ==
  ASSUME ItemsInv, ReadyInv, NEW c \in calls, CommitItem(c)
  PROVE  ReadyInv'
<1>1. c.op = "item" /\ c.got = "written" /\ ItemRequest(c) /\ UNCHANGED overlapped
  BY DEF CommitItem, ItemsInv, CallKnows
<1>2. \A b \in calls' : b \in calls \/ ~Writing(b)
  <2>1. PICK got \in {"ok", "error"} : Reply(c, [c EXCEPT !.got = got, !.seen = Blank])
    BY DEF CommitItem
  <2>2. PICK a : a = [c EXCEPT !.got = got, !.seen = Blank]
    OBVIOUS
  <2> QED
    BY <2>1, <2>2, EndedWrites, ReplyWrites
<1>3. NoNewWrite
  BY <1>2, OnlyPages
<1>4. CASE UNCHANGED row
  BY <1>1, <1>2, <1>4, ReadyPageStep
<1>5. ASSUME NEW k, NEW r, ItemKept(c, k), Ended(c, k, r) PROVE ReadyInv'
  <2>1. PICK o, i : /\ o = c.of /\ o \in Orders /\ i = c.item /\ i \in ItemsOf(o) /\ c \in Written(o)
    BY <1>1 DEF ItemRequest, Written
  <2>2. PICK saw : saw = c.seen[o] /\ saw \in Rows(o)
    BY <2>1 DEF ItemsInv, CallKnows, Known, Typed
  <2>3. PICK next : next = Progressed(saw, k)
    OBVIOUS
  <2>4. \/ next = saw.status /\ r.status = row[o].status
        \/ next # saw.status /\ row[o].status = saw.status /\ r.status = next
    BY <1>5, <2>1, <2>2, <2>3 DEF Ended
  <2>5. row'[o] = r /\ \A p \in Orders : p # o => row'[p] = row[p]
    BY <1>5, <2>1 DEF Ended, ItemsInv, Typed
  <2>6. \A j \in ItemsOf(o) : j # i => r.item[j] = row[o].item[j]
    BY <1>5, <2>1 DEF ItemKept, Ended
  <2>7. row[o].status \in Beyond => r.status \in Beyond
    BY <2>3, <2>4, GoesOnEarly DEF Beyond, Late
  <2>8. ASSUME o \notin overlapped, AllReady(r), r.status = "PREPARING" PROVE FALSE
    <3>1. OneWrites(o) /\ (saw.status \in Beyond => row[o].status \in Beyond)
      BY <2>1, <2>2, <2>8 DEF ReadyInv
    <3>2. \A j \in ItemsOf(o) : saw.item[j] = k.item[j]
      BY <1>5, <2>1, <2>2, <3>1 DEF OneWrites, ItemKept
    <3>3. saw.item = k.item /\ k \in Rows(o) /\ AllReady(k)
      BY <1>5, <2>1, <2>2, <2>8, <3>2 DEF ItemKept, Ended, AllReady, Rows
    <3>4. saw.status \notin Early
      BY <1>1, <2>1, <2>2 DEF ItemRequest
    <3>5. saw.status \in {"CONFIRMED", "PREPARING"}
      <4>1. CASE next = saw.status
        BY <2>2, <2>4, <2>8, <3>1, <3>4, <4>1 DEF Rows, Beyond, Late, Early
      <4>2. CASE next # saw.status
        BY <2>3, <4>2, GoesOnEarly
      <4> QED
        BY <4>1, <4>2
    <3>6. next = "READY"
      BY <2>1, <2>2, <2>3, <3>3, <3>5, ReadyGoesOn
    <3> QED
      BY <2>4, <2>8, <3>5, <3>6
  <2>9. ReadyTogether'
    <3>1. SUFFICES ASSUME NEW p \in Orders, AllReady(row'[p]), row'[p].status = "PREPARING"
                   PROVE  p \in overlapped
      BY <1>1 DEF ReadyTogether, AllReady
    <3>2. CASE p = o
      BY <2>5, <2>8, <3>1, <3>2
    <3>3. CASE p # o
      BY <2>5, <3>1, <3>3 DEF ReadyInv, ReadyTogether
    <3> QED
      BY <3>2, <3>3
  <2>10. \A p \in Orders : row[p].status \in Beyond => row'[p].status \in Beyond
    BY <2>5, <2>7
  <2>11. \A p \in Orders : \A j \in ItemsOf(p) :
           row'[p].item[j] = row[p].item[j] \/ \E b \in Written(p) : b.item = j
    BY <2>1, <2>5, <2>6
  <2> QED
    BY <1>1, <1>3, <2>9, <2>10, <2>11, ReadyStep
<1> QED
  BY <1>4, <1>5, CommitItemRow

\* A transaction that begins reads the order as it is; it overlaps if another runs.
LEMMA ReadyWriteItem ==
  ASSUME ItemsInv, ReadyInv, NEW c \in calls, WriteItem(c)
  PROVE  ReadyInv'
<1>1. /\ Request(c) /\ Known(c.seen) /\ c.op = "item" /\ ItemRequest(c) /\ UNCHANGED row
      /\ overlapped' = IF Written(c.of) = {} THEN overlapped ELSE overlapped \cup {c.of}
  BY DEF ItemsInv, CallKnows, WriteItem, Asked
<1>2. PICK o, i, x : /\ o = c.of /\ o \in Orders /\ i = c.item /\ i \in ItemsOf(o)
                     /\ x = row[o] /\ x \in Rows(o)
  BY <1>1 DEF ItemRequest, ItemsInv, Typed
<1>3. PICK it : it = [x.item EXCEPT ![i] = c.to]
  OBVIOUS
<1>4. PICK r : r = [row[c.of] EXCEPT !.item[c.item] = c.to]
  OBVIOUS
<1>5. r = [status |-> x.status, paid |-> x.paid, item |-> it, v |-> x.v]
  BY <1>2, <1>3, <1>4 DEF Rows
<1>6. \A j \in ItemsOf(o) : r.item[j] = IF j = i THEN c.to ELSE x.item[j]
  BY <1>2, <1>3, <1>5 DEF Rows
<1>7. PICK rs : rs = [c.seen EXCEPT ![c.of] = r]
  OBVIOUS
<1>8. rs[o] = r
  BY <1>1, <1>2, <1>7 DEF Known, Typed
<1>9. PICK a : a = [c EXCEPT !.got = "written", !.seen = rs]
  OBVIOUS
<1>10. calls' = (calls \ {c}) \cup {a}
  BY <1>1, <1>4, <1>7, <1>9 DEF WriteItem, Request
<1>11. a.op = "item" /\ a.of = o /\ a.item = i /\ a.to = c.to /\ a.seen = rs
  BY <1>1, <1>2, <1>9 DEF Request
<1>12. ASSUME NEW p, NEW b \in Written(p)' PROVE b \in Written(p) \/ (p = o /\ b = a)
  BY <1>10, <1>11, <1>12 DEF Written
<1>13. ReadyTogether'
  BY <1>1 DEF ReadyInv, ReadyTogether, AllReady
<1>14. ASSUME NEW p \in Orders \ overlapped' PROVE OneWrites(p)'
  <2>1. OneWrites(p)
    BY <1>1, <1>14 DEF ReadyInv
  <2>2. p = o => Written(o) = {}
    BY <1>1, <1>2, <1>14
  <2>3. \A b, d \in Written(p)' : b.item = d.item
    BY <1>12, <2>1, <2>2 DEF OneWrites
  <2>4. ASSUME NEW b \in Written(p)', NEW j \in ItemsOf(p)
        PROVE  b.seen[p].item[j] = IF j = b.item THEN b.to ELSE row'[p].item[j]
    <3>1. CASE b \in Written(p)
      BY <1>1, <2>1, <2>4, <3>1 DEF OneWrites
    <3>2. CASE p = o /\ b = a
      BY <1>1, <1>2, <1>6, <1>8, <1>11, <2>4, <3>2
    <3> QED
      BY <1>12, <3>1, <3>2
  <2> QED
    BY <2>3, <2>4 DEF OneWrites, ItemsOf
<1>15. ASSUME NEW p \in Orders, NEW b \in Written(p)', b.seen[p].status \in Beyond
       PROVE  row'[p].status \in Beyond
  <2>1. CASE b \in Written(p)
    BY <1>1, <1>15, <2>1 DEF ReadyInv
  <2>2. CASE p = o /\ b = a
    BY <1>1, <1>2, <1>5, <1>8, <1>11, <1>15, <2>2
  <2> QED
    BY <1>12, <1>15, <2>1, <2>2
<1> QED
  BY <1>13, <1>14, <1>15 DEF ReadyInv

LEMMA ReadyNext == ItemsInv /\ ItemsInv' /\ ReadyInv /\ [Next]_vars => ReadyInv'
<1> SUFFICES ASSUME ItemsInv, ItemsInv', ReadyInv, [Next]_vars PROVE ReadyInv'
  OBVIOUS
<1>1. CASE UNCHANGED vars
  BY <1>1, ReadyPageStep
<1>2. ASSUME NEW c \in calls, Server(c) PROVE ReadyInv'
  BY <1>2, ReadyServeRead, ReadyServeDecision, ReadyWriteItem, ReadyCommitItem, ReadyLose
     DEF Server
<1>3. CASE Next
  BY <1>2, <1>3, ReadyShell, ReadyAnswer, ReadyEvent, ReadyOperator, ReadyOrderMoves,
     ReadyItemMoves DEF Next
<1> QED
  BY <1>1, <1>3

\* No transaction has begun, and no item is ready.
LEMMA ReadyInit == Init => ReadyInv
<1> SUFFICES ASSUME Init PROVE ReadyInv
  OBVIOUS
<1>1. ItemsInv
  BY ItemsInit
<1>2. \A c \in calls : ~Writing(c)
  <2>1. \A c \in calls : \E op, o : c = Call(op, o, 0)
    BY DEF Init
  <2>2. ASSUME NEW op, NEW o PROVE ~Writing(Call(op, o, 0))
    BY DEF Call, Writing
  <2> QED
    BY <2>1, <2>2
<1>3. \A o : Written(o) = {}
  BY <1>2 DEF Written, Writing
<1>4. ASSUME NEW o \in Orders, AllReady(row[o]) PROVE FALSE
  <2>1. PICK s \in [Orders -> OrderStatus] :
          row = [p \in Orders |->
                   Fresh(p, s[p], IF s[p] = "PREPARING" THEN "PREPARING" ELSE "PENDING")]
    BY DEF Init
  <2>2. PICK it \in {"PREPARING", "PENDING"} : row[o] = Fresh(o, s[o], it)
    BY <2>1
  <2>3. PICK i \in Items : Of[i] = o
    BY RestaurantBoardAssumption
  <2>4. row[o].item[i] = it /\ DOMAIN row[o].item = ItemsOf(o) /\ i \in ItemsOf(o)
    BY <2>2, <2>3 DEF Fresh, ItemsOf
  <2> QED
    BY <1>4, <2>4 DEF AllReady
<1> QED
  BY <1>3, <1>4 DEF ReadyInv, ReadyTogether, OneWrites

\* An order whose items are all ready does not stay in preparation, for any number of
\* pages' requests about its items, unless two transactions ran at once: one that runs
\* alone counts the items as they are when it decides.
THEOREM AllReadyGoesOn == Spec => []ReadyTogether
<1>1. Init => ItemsInv /\ ReadyInv
  BY ItemsInit, ReadyInit
<1>2. ItemsInv /\ ReadyInv /\ [Next]_vars => (ItemsInv /\ ReadyInv)'
  BY ItemsStep, ReadyNext
<1>3. ReadyInv => ReadyTogether
  BY DEF ReadyInv
<1> QED
  BY <1>1, <1>2, <1>3, PTL DEF Spec

-----------------------------------------------------------------------------
(* What the pages know of the orders                                       *)

\* what the server lists of a row
Listed(r) == IF Active(r) THEN r ELSE Gone(r)

\* An item that is not PENDING any more in a copy is not on the server either.
Begun(o, r) == \A i \in ItemsOf(o) : r.item[i] # "PENDING" => row[o].item[i] # "PENDING"

\* A copy of o's row is of the past, or as it is; so is one from a list.
Past(o, r)   == r.v <= row[o].v /\ (r.v = row[o].v => r = row[o])
Before(o, r) == r.v <= row[o].v /\ (r.v = row[o].v => r = Listed(row[o]))

ListAnswer(c) == c.op = "load" /\ c.got = "ok" => \A o \in Orders :
  /\ Before(o, c.seen[o]) /\ Begun(o, c.seen[o])
  /\ c.seen[o].status # "NONE" => c.seen[o].paid

RowAnswer(c) == c.op \in {"detail", "accept"} /\ c.got = "ok" /\ c.of \in Orders =>
  /\ Past(c.of, c.seen[c.of])
  /\ c.op = "accept" =>
       /\ c.seen[c.of].status = "CONFIRMED"
       /\ \A i \in ItemsOf(c.of) : c.seen[c.of].item[i] = "PENDING"

EventTells(e) ==
  /\ e = [of |-> e.of, row |-> e.row]
  /\ e.of \in Orders => Past(e.of, e.row) /\ e.row.v > 0 /\ Begun(e.of, e.row)

\* An early order has no item begun; one with a courier is paid, if not cancelled.
RowFacts(o) ==
  /\ row[o].status \in Early => \A i \in ItemsOf(o) : row[o].item[i] = "PENDING"
  /\ row[o].status \notin {"NONE", "PENDING", "CANCELLED"} => row[o].paid

CopiesInv ==
  /\ \A o \in Orders : RowFacts(o)
  /\ \A c \in calls : ListAnswer(c) /\ RowAnswer(c)
  /\ \A e \in due : EventTells(e)

\* The list's copy r of o is as the page shows the row.
ListFits(o, r) ==
  /\ r.v = row[o].v
  /\ view = "dashboard" => r = Listed(row[o])
  /\ view = "kitchen" => /\ Active(row[o]) /\ HasCourier(row[o]) => r = row[o]
                         /\ ~Active(row[o]) => r.status = "NONE"

PageFits(o) ==
  IF view = "detail" THEN detail # None /\ detail = [of |-> o, row |-> row[o]]
                     ELSE ListFits(o, orders[o])

\* What the page shows is of the past too; when it is not behind, the last change of an
\* order is shown as it is.
ListKnows(o) ==
  /\ orders[o].v <= row[o].v /\ Begun(o, orders[o])
  /\ view = "dashboard" /\ orders[o].status # "NONE" => orders[o].paid
  /\ view # "detail" /\ o \notin behind /\ orders[o].v = row[o].v /\ row[o].v > 0 =>
       ListFits(o, orders[o])

DetailKnows == detail # None =>
  /\ detail = [of |-> detail.of, row |-> detail.row]
  /\ detail.of \in Orders => detail.row \in Rows(detail.of) /\ Past(detail.of, detail.row)

\* The page that asked is of the kind that its answer is for.
OpFits(c) == c.mine =>
  /\ c.op \in {"load", "item"} => view # "detail"
  /\ c.op = "detail" => view = "detail"

\* What brings o to the page as it is: an event under way, or a request whose answer has
\* it, leaves the page behind, or asks again.
Announced(o) == \E e \in due : e.of = o /\ e.row.v = row[o].v

Brings(c, o) ==
  /\ c.mine
  /\ \/ c.op = "load" \/ (c.op = "detail" /\ c.of = o)
     \/ c.op = "item" /\ c.of = o /\ c.got = "ok"
  /\ c.op # "item" /\ c.got = "ok" => c.seen[o].v = row[o].v

Concerned(o) == view \in {"dashboard", "kitchen"} \/ (view = "detail" /\ o = selected)

Follows(o) ==
  Concerned(o) /\ o \notin behind =>
    PageFits(o) \/ Announced(o) \/ \E c \in calls : Brings(c, o)

PageInv ==
  /\ \A o \in Orders : ListKnows(o) /\ Follows(o)
  /\ DetailKnows
  /\ \A c \in calls : OpFits(c)

-----------------------------------------------------------------------------
(* The requests that a step makes                                          *)

\* A request of the page, just made.
Made(d, op, o) == d.op = op /\ d.of = o /\ d.got = "sent" /\ d.mine = TRUE

LEMMA CallsMade ==
  ASSUME NEW op, NEW o, NEW n
  PROVE  /\ Made(Call(op, o, n), op, o)
         /\ \A s : Made([Call(op, o, n) EXCEPT !.sel = s], op, o)
         /\ \A s, f : Made([Call(op, o, n) EXCEPT !.sel = s, !.frees = f], op, o)
BY DEF Call, Made

LEMMA MountMakes ==
  ASSUME NEW v, NEW o, NEW kept, Mount(v, o, kept)
  PROVE  \E d : /\ Made(d, IF v = "detail" THEN "detail" ELSE "load", o)
                /\ calls' = kept \cup {d}
<1>1. PICK op : op = IF v = "detail" THEN "detail" ELSE "load"
  OBVIOUS
<1>2. PICK d : d = [Call(op, o, presses) EXCEPT !.sel = o]
  OBVIOUS
<1>3. calls' = kept \cup {d}
  BY <1>1, <1>2 DEF Mount
<1>4. Made(d, op, o)
  BY <1>2, CallsMade
<1> QED
  BY <1>1, <1>3, <1>4

LEMMA AgainMakes ==
  ASSUME NEW c, NEW frees, Again(c, frees)
  PROVE  \E d : /\ Made(d, IF view = "detail" THEN "detail" ELSE "load", c.sel)
                /\ calls' = (calls \ {c}) \cup {d}
<1>1. PICK op : op = IF view = "detail" THEN "detail" ELSE "load"
  OBVIOUS
<1>2. PICK d : d = [Call(op, c.sel, c.n) EXCEPT !.sel = c.sel, !.frees = frees]
  OBVIOUS
<1>3. calls' = (calls \ {c}) \cup {d}
  BY <1>1, <1>2, Zenon DEF Again
<1>4. Made(d, op, c.sel)
  BY <1>2, CallsMade
<1> QED
  BY <1>1, <1>3, <1>4

\* An order has one more change.
Changed(o, r) ==
  /\ o \in Orders /\ r \in Rows(o) /\ r.v = row[o].v + 1
  /\ row' = [row EXCEPT ![o] = r]
  /\ \A i \in ItemsOf(o) : row[o].item[i] # "PENDING" => r.item[i] # "PENDING"

\* The row of o is as it was, or one change later.
Grows(o) ==
  \/ row'[o] = row[o]
  \/ /\ row'[o].v = row[o].v + 1
     /\ \A i \in ItemsOf(o) : row[o].item[i] # "PENDING" => row'[o].item[i] # "PENDING"

LEMMA ChangedGrows ==
  ASSUME ItemsInv, NEW o, NEW r, Changed(o, r)
  PROVE  /\ row'[o] = r /\ \A p \in Orders : p # o => row'[p] = row[p]
         /\ \A p \in Orders : Grows(p)
BY DEF Changed, ItemsInv, Typed, Grows

\* Old copies stay of the past.
LEMMA PastStays ==
  ASSUME ItemsInv, NEW o \in Orders, Grows(o), NEW r \in Rows(o)
  PROVE  /\ Past(o, r) => Past(o, r)'
         /\ Before(o, r) => Before(o, r)'
         /\ Begun(o, r) => Begun(o, r)'
<1>1. r.v \in Nat /\ row[o].v \in Nat
  BY DEF ItemsInv, Typed, Rows
<1>2. CASE row'[o] = row[o]
  BY <1>2 DEF Past, Before, Begun
<1>3. CASE /\ row'[o].v = row[o].v + 1
           /\ \A i \in ItemsOf(o) : row[o].item[i] # "PENDING" => row'[o].item[i] # "PENDING"
  BY <1>1, <1>3 DEF Past, Before, Begun
<1> QED
  BY <1>2, <1>3 DEF Grows

LEMMA AnswersStay ==
  ASSUME ItemsInv, \A o \in Orders : Grows(o), NEW c, Typed(c.seen)
  PROVE  (ListAnswer(c) => ListAnswer(c)') /\ (RowAnswer(c) => RowAnswer(c)')
<1>1. \A o \in Orders : c.seen[o] \in Rows(o)
  BY DEF Typed
<1>2. ListAnswer(c) => ListAnswer(c)'
  BY <1>1, PastStays DEF ListAnswer
<1>3. RowAnswer(c) => RowAnswer(c)'
  BY <1>1, PastStays DEF RowAnswer
<1> QED
  BY <1>2, <1>3

-----------------------------------------------------------------------------
(* Copies of the rows                                                      *)

\* An answer without rows.
Silent(c) == c.got # "ok" \/ c.op \notin {"load", "detail", "accept"}

LEMMA SilentAnswers ==
  ASSUME NEW c, Silent(c)
  PROVE  ListAnswer(c) /\ RowAnswer(c)
BY DEF Silent, ListAnswer, RowAnswer

LEMMA LeftAnswers ==
  ASSUME ItemsInv, CopiesInv, NEW b \in calls, NEW c, Left(c, b)
  PROVE  ListAnswer(c) /\ RowAnswer(c)
<1>1. c.op = b.op /\ c.of = b.of /\ c.got = b.got /\ c.seen = b.seen
  BY DEF ItemsInv, CallKnows, Request, Left
<1>2. ListAnswer(b) /\ RowAnswer(b)
  BY DEF CopiesInv
<1> QED
  BY <1>1, <1>2 DEF ListAnswer, RowAnswer

\* A step that changes no row and brings no copy but in the answers of S.
LEMMA CopiesStep ==
  ASSUME ItemsInv, CopiesInv, UNCHANGED row, \A e \in due' : e \in due \/ EventTells(e),
         \A c \in calls' : \/ c \in calls \/ Silent(c) \/ \E b \in calls : Left(c, b)
                           \/ ListAnswer(c) /\ RowAnswer(c)
  PROVE  CopiesInv'
<1>1. \A c \in calls' : ListAnswer(c) /\ RowAnswer(c)
  BY SilentAnswers, LeftAnswers DEF CopiesInv
<1>2. \A c : (ListAnswer(c) => ListAnswer(c)') /\ (RowAnswer(c) => RowAnswer(c)')
  BY DEF ListAnswer, RowAnswer, Before, Past, Begun
<1>3. \A e : EventTells(e) => EventTells(e)'
  BY DEF EventTells, Past, Begun
<1>4. \A o : RowFacts(o) => RowFacts(o)'
  BY DEF RowFacts
<1> QED
  BY <1>1, <1>2, <1>3, <1>4 DEF CopiesInv

\* A change of o's row is told by an event, or leaves the page behind, or the page that
\* asked for it asks again.
Tells(o, r) ==
  /\ due \subseteq due' /\ \A e \in due' : e \in due \/ e = [of |-> o, row |-> r]
  /\ \/ [of |-> o, row |-> r] \in due' \/ o \in behind'
     \/ \E d \in calls' : d.mine /\ d.op = "item" /\ d.of = o /\ d.got = "ok"

\* A step that changes a row, tells of it, and brings no copy but in an answer.
LEMMA CopiesChange ==
  ASSUME ItemsInv, ItemsInv', CopiesInv, NEW o, NEW r, Changed(o, r), RowFacts(o)',
         Tells(o, r),
         \A c \in calls' : c \in calls \/ Silent(c) \/ (ListAnswer(c) /\ RowAnswer(c))'
  PROVE  CopiesInv'
<1>1. /\ row'[o] = r /\ \A p \in Orders : p # o => row'[p] = row[p]
      /\ \A p \in Orders : Grows(p)
  BY ChangedGrows
<1>2. \A p \in Orders : RowFacts(p)'
  BY <1>1 DEF CopiesInv, RowFacts
<1>3. ASSUME NEW c \in calls' PROVE (ListAnswer(c) /\ RowAnswer(c))'
  <2>1. CASE c \in calls
    <3>1. ListAnswer(c) /\ RowAnswer(c) /\ Typed(c.seen)
      BY <2>1 DEF CopiesInv, ItemsInv, CallKnows, Known
    <3> QED
      BY <1>1, <3>1, AnswersStay
  <2>2. CASE Silent(c)
    BY <2>2 DEF Silent, ListAnswer, RowAnswer
  <2> QED
    BY <2>1, <2>2
<1>4. ASSUME NEW e \in due' PROVE EventTells(e)'
  <2>1. CASE e \in due
    <3>1. EventTells(e) /\ (e.of \in Orders => e.row \in Rows(e.of))
      BY <2>1 DEF CopiesInv, ItemsInv, EventKnows
    <3> QED
      BY <1>1, <3>1, PastStays DEF EventTells
  <2>2. CASE e = [of |-> o, row |-> r]
    <3>1. r.v \in Nat /\ r.v > 0 /\ r.v <= r.v
      BY DEF Changed, ItemsInv, Typed, Rows
    <3> QED
      BY <1>1, <2>2, <3>1 DEF EventTells, Past, Begun
  <2> QED
    BY <2>1, <2>2 DEF Tells
<1> QED
  BY <1>2, <1>3, <1>4 DEF CopiesInv

LEMMA CopiesShell ==
  ASSUME ItemsInv, CopiesInv, Shell
  PROVE  CopiesInv'
<1>1. ASSUME NEW v, NEW o, Mount(v, o, Kept), UNCHANGED <<row, due>> PROVE CopiesInv'
  <2>1. PICK d, op : Made(d, op, o) /\ calls' = Kept \cup {d}
    BY <1>1, MountMakes
  <2>2. Silent(d)
    BY <2>1 DEF Made, Silent
  <2> QED
    BY <1>1, <2>1, <2>2, OfKept, CopiesStep
<1>2. CASE NavigateToView
  <2>1. \E v, o : Mount(v, o, Kept)
    BY <1>2 DEF NavigateToView
  <2> QED
    BY <1>1, <1>2, <2>1 DEF NavigateToView
<1>3. CASE FollowUrl
  <2>1. PICK o, d : d = [Call("detail", o, presses) EXCEPT !.sel = o] /\ calls' = calls \cup {d}
    BY <1>3 DEF FollowUrl
  <2>2. Made(d, "detail", o)
    BY <2>1, CallsMade
  <2> QED
    BY <1>3, <2>1, <2>2, CopiesStep DEF FollowUrl, Made, Silent
<1>4. CASE ConfirmLogout
  BY <1>4, OfKept, CopiesStep DEF ConfirmLogout
<1>5. CASE HandleLogin
  BY <1>1, <1>5 DEF HandleLogin
<1>6. CASE Join
  BY <1>6, CopiesStep DEF Join
<1> QED
  BY <1>2, <1>3, <1>4, <1>5, <1>6 DEF Shell

LEMMA CopiesAnswer ==
  ASSUME ItemsInv, CopiesInv, NEW c \in calls, Answer(c)
  PROVE  CopiesInv'
<1>1. CASE SessionRefreshed(c)
  <2>1. CASE LoggedOut /\ calls' = Kept \ {c}
    BY <1>1, <2>1, OfKept, CopiesStep DEF SessionRefreshed
  <2>2. CASE Mount("dashboard", None, Kept \ {c})
    <3>1. PICK d, op : Made(d, op, None) /\ calls' = (Kept \ {c}) \cup {d}
      BY <2>2, MountMakes
    <3>2. Silent(d)
      BY <3>1 DEF Made, Silent
    <3> QED
      BY <1>1, <3>1, <3>2, OfKept, CopiesStep DEF SessionRefreshed
  <2>3. CASE calls' = (calls \ {c}) \cup
                        {Call(IF view = "detail" THEN "detail" ELSE "load", selected, presses)}
    <3>1. PICK op : op = IF view = "detail" THEN "detail" ELSE "load"
      OBVIOUS
    <3>2. PICK d : d = Call(op, selected, presses)
      OBVIOUS
    <3>3. calls' = (calls \ {c}) \cup {d} /\ Silent(d)
      BY <2>3, <3>1, <3>2, CallsMade DEF Made, Silent
    <3> QED
      BY <1>1, <3>3, CopiesStep DEF SessionRefreshed
  <2> QED
    BY <1>1, <2>1, <2>2, <2>3 DEF SessionRefreshed
<1>2. CASE OrdersLoaded(c) \/ DetailLoaded(c)
  BY <1>2, CopiesStep DEF OrdersLoaded, DetailLoaded
<1>3. ASSUME NEW f, Again(c, f), UNCHANGED <<row, due>> PROVE CopiesInv'
  <2>1. PICK d, op, o : Made(d, op, o) /\ calls' = (calls \ {c}) \cup {d}
    BY <1>3, AgainMakes
  <2>2. Silent(d)
    BY <2>1 DEF Made, Silent
  <2> QED
    BY <1>3, <2>1, <2>2, CopiesStep
<1>4. CASE DecisionAnswered(c)
  <2>1. (\E f : Again(c, f)) \/ calls' = calls \ {c}
    BY <1>4 DEF DecisionAnswered
  <2> QED
    BY <1>3, <1>4, <2>1, CopiesStep DEF DecisionAnswered
<1>5. CASE ItemAnswered(c)
  BY <1>3, <1>5, CopiesStep DEF ItemAnswered
<1> QED
  BY <1>1, <1>2, <1>4, <1>5 DEF Answer

LEMMA CopiesOperator ==
  ASSUME ItemsInv, CopiesInv, Operator
  PROVE  CopiesInv'
<1>1. ASSUME NEW op, NEW o, Press(op, o), UNCHANGED <<row, due>> PROVE CopiesInv'
  <2>1. PICK d : d = Call(op, o, presses') /\ calls' = calls \cup {d}
    BY <1>1 DEF Press
  <2>2. Silent(d)
    BY <2>1, CallsMade DEF Made, Silent
  <2> QED
    BY <1>1, <2>1, <2>2, CopiesStep
<1>2. ASSUME NEW o \in Orders, HandleAccept(o) \/ HandleStartOrReady(o) PROVE CopiesInv'
  BY <1>1, <1>2 DEF HandleAccept, HandleStartOrReady
<1>3. CASE ConfirmReject
  BY <1>1, <1>3 DEF ConfirmReject
<1>4. CASE CancelReject \/ \E o \in Orders : RequestReject(o)
  BY <1>4, CopiesStep DEF CancelReject, RequestReject
<1>5. ASSUME NEW i \in Items, NEW s \in ItemStatus, HandleItemStatus(i, s) PROVE CopiesInv'
  <2>1. PICK d : /\ d = [Call("item", Of[i], presses') EXCEPT !.item = i, !.to = s]
                 /\ calls' = calls \cup {d}
    BY <1>5 DEF HandleItemStatus
  <2>2. Silent(d)
    BY <2>1 DEF Call, Silent
  <2> QED
    BY <1>5, <2>1, <2>2, CopiesStep DEF HandleItemStatus
<1> QED
  BY <1>2, <1>3, <1>4, <1>5 DEF Operator

LEMMA CopiesEvent ==
  ASSUME ItemsInv, CopiesInv, NEW e \in due, OnEvent(e) \/ MissEvent(e)
  PROVE  CopiesInv'
BY CopiesStep DEF OnEvent, MissEvent, Comes

\* What a list or a detail is answered is how the rows are.
LEMMA ReadAnswers ==
  ASSUME ItemsInv, CopiesInv, NEW c \in calls, ServeRead(c)
  PROVE  \E a : /\ Reply(c, a) /\ a.op = c.op /\ a.of = c.of /\ a.mine = c.mine /\ a.got = "ok"
                /\ ListAnswer(a) /\ RowAnswer(a)
                /\ a.op = "load" => \A o \in Orders : a.seen[o].v = row[o].v
                /\ a.op = "detail" /\ a.of \in Orders => a.seen[a.of].v = row[a.of].v
<1>1. Request(c) /\ Known(c.seen)
  BY DEF ItemsInv, CallKnows
<1>2. CASE c.op = "load"
  <2>1. PICK rs : rs = [o \in Orders |-> IF Active(row[o]) THEN row[o] ELSE Gone(row[o])]
    OBVIOUS
  <2>2. PICK a : a = [c EXCEPT !.got = "ok", !.seen = rs]
    OBVIOUS
  <2>3. /\ a.op = "load" /\ a.of = c.of /\ a.mine = c.mine /\ a.got = "ok" /\ a.seen = rs
    BY <1>1, <1>2, <2>2 DEF Request
  <2>4. ASSUME NEW o \in Orders
        PROVE  /\ rs[o] = Listed(row[o]) /\ rs[o].v = row[o].v /\ rs[o].item = row[o].item
               /\ rs[o].v <= row[o].v /\ (rs[o].status # "NONE" => rs[o].paid)
    <3>1. PICK x : x = row[o] /\ x \in Rows(o)
      BY DEF ItemsInv, Typed
    <3>2. rs[o] = Listed(x)
      BY <2>1, <3>1 DEF Listed
    <3>3. Gone(x) = [status |-> "NONE", paid |-> x.paid, item |-> x.item, v |-> x.v]
      BY <3>1 DEF Gone, Rows
    <3>4. x.v \in Nat
      BY <3>1 DEF Rows
    <3> QED
      BY <3>1, <3>2, <3>3, <3>4 DEF Listed, Active
  <2>5. ListAnswer(a) /\ RowAnswer(a)
    BY <2>3, <2>4 DEF ListAnswer, RowAnswer, Before, Begun
  <2>6. Reply(c, a)
    BY <1>2, <2>1, <2>2 DEF ServeRead, Asked
  <2> QED
    BY <1>2, <2>3, <2>4, <2>5, <2>6
<1>3. CASE c.op = "detail"
  <2>1. PICK rs : rs = [c.seen EXCEPT ![c.of] = row[c.of]]
    OBVIOUS
  <2>2. PICK a : a = [c EXCEPT !.got = "ok", !.seen = rs]
    OBVIOUS
  <2>3. /\ a.op = "detail" /\ a.of = c.of /\ a.mine = c.mine /\ a.got = "ok" /\ a.seen = rs
    BY <1>1, <1>3, <2>2 DEF Request
  <2>4. c.of \in Orders => rs[c.of] = row[c.of] /\ row[c.of].v \in Nat
    BY <1>1, <2>1 DEF Known, Typed, ItemsInv, Rows
  <2>5. ListAnswer(a) /\ RowAnswer(a)
    BY <2>3, <2>4 DEF ListAnswer, RowAnswer, Past
  <2>6. a = [c EXCEPT !.got = "ok", !.seen[c.of] = row[c.of]]
    BY <1>1, <2>1, <2>2 DEF Request
  <2>7. Reply(c, a)
    BY <1>3, <2>6 DEF ServeRead, Asked
  <2> QED
    BY <1>3, <2>3, <2>4, <2>5, <2>7
<1>4. CASE c.op = "refresh"
  <2>1. PICK a : a = [c EXCEPT !.got = "ok"]
    OBVIOUS
  <2>2. a.op = "refresh" /\ a.of = c.of /\ a.mine = c.mine /\ a.got = "ok"
    BY <1>1, <1>4, <2>1 DEF Request
  <2>3. ListAnswer(a) /\ RowAnswer(a)
    BY <2>2 DEF ListAnswer, RowAnswer
  <2>4. Reply(c, a)
    BY <1>4, <2>1 DEF ServeRead, Asked
  <2> QED
    BY <1>4, <2>2, <2>3, <2>4
<1> QED
  BY <1>2, <1>3, <1>4 DEF ServeRead, Asked

LEMMA CopiesServeRead ==
  ASSUME ItemsInv, CopiesInv, NEW c \in calls, ServeRead(c)
  PROVE  CopiesInv'
<1>1. PICK a : Reply(c, a) /\ ListAnswer(a) /\ RowAnswer(a)
  BY ReadAnswers
<1>2. calls' \subseteq calls \cup {a}
  BY <1>1 DEF Reply
<1> QED
  BY <1>1, <1>2, CopiesStep DEF ServeRead

\* The steps of a request that bring no answer with rows.
LEMMA SilentSteps ==
  ASSUME ItemsInv, NEW c \in calls, WriteItem(c) \/ CommitItem(c) \/ Lose(c)
  PROVE  \E a : /\ calls' \subseteq (calls \ {c}) \cup {a} /\ calls \ {c} \subseteq calls'
                /\ (c.mine => a \in calls')
                /\ a.op = c.op /\ a.of = c.of /\ a.mine = c.mine
                /\ Silent(a)
                /\ a.got = "ok" => c.op = "item"
<1>1. Request(c)
  BY DEF ItemsInv, CallKnows
<1>2. CASE WriteItem(c)
  <2>1. PICK rs : rs = [c.seen EXCEPT ![c.of] = [row[c.of] EXCEPT !.item[c.item] = c.to]]
    OBVIOUS
  <2>2. PICK a : a = [c EXCEPT !.got = "written", !.seen = rs]
    OBVIOUS
  <2>3. a = [c EXCEPT !.got = "written",
                      !.seen[c.of] = [row[c.of] EXCEPT !.item[c.item] = c.to]]
    BY <1>1, <2>1, <2>2 DEF Request
  <2>4. calls' = (calls \ {c}) \cup {a}
    BY <1>2, <2>3 DEF WriteItem
  <2>5. a.op = c.op /\ a.of = c.of /\ a.mine = c.mine /\ a.got = "written"
    BY <1>1, <2>2 DEF Request
  <2> QED
    BY <2>4, <2>5 DEF Silent
<1>3. CASE CommitItem(c)
  <2>1. PICK got \in {"ok", "error"} : Reply(c, [c EXCEPT !.got = got, !.seen = Blank])
    BY <1>3 DEF CommitItem
  <2>2. PICK a : a = [c EXCEPT !.got = got, !.seen = Blank]
    OBVIOUS
  <2>3. a.op = c.op /\ a.of = c.of /\ a.mine = c.mine /\ c.op = "item"
    BY <1>1, <1>3, <2>2 DEF Request, CommitItem
  <2> QED
    BY <2>1, <2>2, <2>3 DEF Silent, Reply
<1>4. CASE Lose(c)
  <2>1. PICK a : a = [c EXCEPT !.got = "error", !.seen = Blank]
    OBVIOUS
  <2>2. calls' = (calls \ {c}) \cup {a}
    BY <1>4, <2>1 DEF Lose
  <2>3. a.op = c.op /\ a.of = c.of /\ a.mine = c.mine /\ a.got = "error"
    BY <1>1, <2>1 DEF Request
  <2> QED
    BY <2>2, <2>3 DEF Silent
<1> QED
  BY <1>2, <1>3, <1>4

-----------------------------------------------------------------------------
(* Changes of the rows                                                     *)

\* What makes a changed row one of the facts.
LEMMA FactsOf ==
  ASSUME ItemsInv, NEW o, NEW r, Changed(o, r),
         r.status \in Early => \A i \in ItemsOf(o) : r.item[i] = "PENDING",
         r.status \notin {"NONE", "PENDING", "CANCELLED"} => r.paid
  PROVE  RowFacts(o)'
<1>1. row'[o] = r
  BY ChangedGrows
<1> QED
  BY <1>1 DEF RowFacts

LEMMA DecisionTarget ==
  ASSUME NEW op \in Writes \ {"item"}, NEW s \in OrderStatus \cup {"NONE"}, OrderCan(s, Target[op])
  PROVE  /\ Target[op] \notin Early /\ s # "CANCELLED"
         /\ op = "accept" => Target[op] = "CONFIRMED" /\ s \in Early
BY DEF Target, Writes, OrderCan, OrderEdges, OrderStatus, Early

\* A decision that is taken changes its order, and the answer has the new row.
LEMMA DecisionChanges ==
  ASSUME ItemsInv, CopiesInv, NEW c \in calls, ServeDecision(c)
  PROVE  \E a : /\ Reply(c, a) /\ a.op = c.op /\ a.of = c.of /\ a.mine = c.mine
                /\ \/ UNCHANGED <<row, due>> /\ Silent(a)
                   \/ \E r : Changed(c.of, r) /\ RowFacts(c.of)' /\ Tells(c.of, r)
                               /\ RowAnswer(a)'
                   \/ /\ c.of \notin Orders /\ UNCHANGED row /\ due \subseteq due'
                      /\ \A e \in due' : e \in due \/ EventTells(e)
<1>1. Request(c) /\ Known(c.seen) /\ c.op \in Writes \ {"item"}
  BY DEF ItemsInv, CallKnows, ServeDecision
<1>2. CASE Reply(c, [c EXCEPT !.got = "error"]) /\ UNCHANGED <<row, due>>
  <2>1. PICK a : a = [c EXCEPT !.got = "error"]
    OBVIOUS
  <2>2. a.op = c.op /\ a.of = c.of /\ a.mine = c.mine /\ a.got = "error"
    BY <1>1, <2>1 DEF Request
  <2> QED
    BY <1>2, <2>1, <2>2 DEF Silent
<1>3. CASE /\ HasCourier(row[c.of]) /\ OrderCan(row[c.of].status, Target[c.op])
           /\ Publish(c.of, [row[c.of] EXCEPT !.status = Target[c.op]])
           /\ Reply(c, [c EXCEPT !.got = "ok", !.seen[c.of] = row'[c.of]])
  <2>1. PICK q : q = row'[c.of]
    OBVIOUS
  <2>2. PICK rs : rs = [c.seen EXCEPT ![c.of] = q]
    OBVIOUS
  <2>3. PICK a : a = [c EXCEPT !.got = "ok", !.seen = rs]
    OBVIOUS
  <2>4. a = [c EXCEPT !.got = "ok", !.seen[c.of] = q]
    BY <1>1, <2>2, <2>3 DEF Request
  <2>5. Reply(c, a)
    BY <1>3, <2>1, <2>4
  <2>6. a.op = c.op /\ a.of = c.of /\ a.mine = c.mine /\ a.got = "ok" /\ a.seen = rs
    BY <1>1, <2>3 DEF Request
  <2>7. PICK r : r = [[row[c.of] EXCEPT !.status = Target[c.op]] EXCEPT !.v = row[c.of].v + 1]
    OBVIOUS
  <2>8. row' = [row EXCEPT ![c.of] = r] /\ due' = due \cup {[of |-> c.of, row |-> r]}
    BY <1>3, <2>7 DEF Publish
  <2>9. CASE c.of \in Orders
    <3>1. PICK o, x, s : o = c.of /\ x = row[o] /\ x \in Rows(o) /\ s = Target[c.op]
      BY <2>9 DEF ItemsInv, Typed
    <3>2. r = [status |-> s, paid |-> x.paid, item |-> x.item, v |-> x.v + 1]
      BY <2>7, <3>1 DEF Rows
    <3>3. x.status \in OrderStatus \cup {"NONE"} /\ OrderCan(x.status, s)
      BY <1>3, <3>1 DEF Rows
    <3>4. /\ s \notin Early /\ x.status # "CANCELLED" /\ s \in OrderStatus
          /\ c.op = "accept" => s = "CONFIRMED" /\ x.status \in Early
      BY <1>1, <3>1, <3>3, DecisionTarget, OrderOnlyProgresses
    <3>5. r \in Rows(o)
      BY <3>1, <3>2, <3>4 DEF Rows
    <3>6. Changed(o, r)
      BY <2>8, <2>9, <3>1, <3>2, <3>5 DEF Changed
    <3>7. RowFacts(o)'
      <4>1. x.status \notin {"NONE", "PENDING", "CANCELLED"}
        BY <1>3, <3>1, <3>4 DEF HasCourier
      <4>2. x.paid
        BY <2>9, <3>1, <4>1 DEF CopiesInv, RowFacts
      <4> QED
        BY <3>2, <3>4, <3>6, <4>2, FactsOf
    <3>8. Tells(o, r)
      BY <2>8, <3>1 DEF Tells
    <3>9. rs[o] = r /\ row'[o] = r /\ r.v \in Nat
      BY <1>1, <2>1, <2>2, <2>9, <3>1, <3>5, <3>6, ChangedGrows DEF Known, Typed, Rows
    <3>10. Past(o, rs[o])'
      BY <3>9 DEF Past
    <3>11. c.op = "accept" => /\ r.status = "CONFIRMED"
                              /\ \A i \in ItemsOf(o) : r.item[i] = "PENDING"
      BY <2>9, <3>1, <3>2, <3>4 DEF CopiesInv, RowFacts
    <3>12. RowAnswer(a)'
      BY <2>6, <3>1, <3>9, <3>10, <3>11 DEF RowAnswer, ItemsOf
    <3> QED
      BY <2>5, <2>6, <3>1, <3>6, <3>7, <3>8, <3>12
  <2>10. CASE c.of \notin Orders
    <3>1. UNCHANGED row
      BY <2>8, <2>10 DEF ItemsInv, Typed
    <3>2. PICK e : e = [of |-> c.of, row |-> r]
      OBVIOUS
    <3>3. EventTells(e)
      BY <2>10, <3>2 DEF EventTells
    <3> QED
      BY <2>5, <2>6, <2>8, <2>10, <3>1, <3>2, <3>3
  <2> QED
    BY <2>9, <2>10
<1> QED
  BY <1>2, <1>3 DEF ServeDecision

LEMMA CommitChanges ==
  ASSUME ItemsInv, CopiesInv, NEW c \in calls, CommitItem(c)
  PROVE  \/ UNCHANGED <<row, due>>
         \/ \E o, r : Changed(o, r) /\ RowFacts(o)' /\ Tells(o, r)
<1>1. c.op = "item" /\ c.got = "written" /\ ItemRequest(c) /\ Request(c) /\ due \subseteq due'
  BY DEF CommitItem, ItemsInv, CallKnows, ChangeUntold, Publish
<1>2. ASSUME NEW k, NEW r, ItemKept(c, k), Ended(c, k, r)
      PROVE  Changed(c.of, r) /\ RowFacts(c.of)' /\ Tells(c.of, r)
  <2>1. PICK o, i : o = c.of /\ o \in Orders /\ i = c.item /\ i \in ItemsOf(o)
    BY <1>1 DEF ItemRequest
  <2>2. PICK x, saw : x = row[o] /\ x \in Rows(o) /\ saw = c.seen[o]
    BY <2>1 DEF ItemsInv, Typed
  <2>3. /\ r \in Rows(o) /\ r.paid = x.paid /\ r.v = x.v + 1
        /\ row' = [row EXCEPT ![o] = r]
        /\ \A j \in ItemsOf(o) : r.item[j] = IF j = i THEN c.to ELSE x.item[j]
    BY <1>2, <2>1, <2>2 DEF Ended, ItemKept
  <2>4. c.to # "PENDING" /\ x.status \notin Early
    BY <1>1, <2>1, <2>2 DEF ItemRequest
  <2>5. Changed(o, r)
    BY <2>1, <2>2, <2>3, <2>4 DEF Changed
  <2>6. PICK next : next = Progressed(saw, k)
    OBVIOUS
  <2>7. \/ r.status = x.status
        \/ next # saw.status /\ x.status = saw.status /\ r.status = next
    BY <1>2, <2>1, <2>2, <2>6 DEF Ended
  <2>8. /\ r.status \notin Early
        /\ r.status \notin {"NONE", "PENDING", "CANCELLED"} => r.paid
    <3>1. x.status \notin {"NONE", "PENDING", "CANCELLED"} => x.paid
      BY <2>1, <2>2 DEF CopiesInv, RowFacts
    <3>2. CASE r.status = x.status
      BY <2>3, <2>4, <3>1, <3>2
    <3>3. CASE next # saw.status /\ x.status = saw.status /\ r.status = next
      <4>1. saw.status \in {"CONFIRMED", "PREPARING"} /\ next \in InWork
        BY <2>6, <3>3, GoesOnEarly, ProgressedGoesOn
      <4> QED
        BY <2>3, <3>1, <3>3, <4>1 DEF Early, InWork
    <3> QED
      BY <2>7, <3>2, <3>3
  <2>9. RowFacts(o)'
    BY <2>5, <2>8, FactsOf
  <2>10. Tells(o, r)
    <3>1. CASE c.mine /\ Reply(c, [c EXCEPT !.got = "ok", !.seen = Blank])
      <4>1. PICK a : a = [c EXCEPT !.got = "ok", !.seen = Blank]
        OBVIOUS
      <4>2. a.op = "item" /\ a.of = o /\ a.got = "ok" /\ a.mine
        BY <1>1, <2>1, <3>1, <4>1 DEF Request
      <4>3. a \in calls'
        BY <3>1, <4>1 DEF Reply
      <4> QED
        BY <1>1, <1>2, <2>1, <4>2, <4>3 DEF Tells, Ended
    <3>2. CASE [of |-> o, row |-> r] \in due' \/ o \in behind'
      BY <1>1, <1>2, <2>1, <3>2 DEF Tells, Ended
    <3> QED
      BY <1>2, <2>1, <3>1, <3>2 DEF Ended
  <2> QED
    BY <2>1, <2>5, <2>9, <2>10
<1> QED
  BY <1>2, CommitItemRow

LEMMA OrderMovesChanges ==
  ASSUME ItemsInv, CopiesInv, NEW o \in Orders, OrderMoves(o)
  PROVE  \E r : Changed(o, r) /\ RowFacts(o)' /\ Tells(o, r)
<1>1. PICK x : x = row[o] /\ x \in Rows(o)
  BY DEF ItemsInv, Typed
<1>2. PICK s \in OrderStatus, p \in BOOLEAN :
        /\ OrderCan(x.status, s) \/ (s = "PENDING" /\ x.status \in {"NONE", "PENDING"})
        /\ p \/ s \in {"PENDING", "CANCELLED"}
        /\ Publish(o, WithStatus(x, s, p))
  BY <1>1, OrderMovesPublishes
<1>3. PICK r : r = [status |-> s, paid |-> p, item |-> x.item, v |-> x.v + 1]
  OBVIOUS
<1>4. row' = [row EXCEPT ![o] = r] /\ due' = due \cup {[of |-> o, row |-> r]}
  <2>1. PICK k : k = WithStatus(x, s, p)
    OBVIOUS
  <2>2. /\ row' = [row EXCEPT ![o] = [k EXCEPT !.v = x.v + 1]]
        /\ due' = due \cup {[of |-> o, row |-> [k EXCEPT !.v = x.v + 1]]}
    BY <1>1, <1>2, <2>1 DEF Publish
  <2>3. [k EXCEPT !.v = x.v + 1] = r
    BY <1>3, <2>1 DEF WithStatus
  <2> QED
    BY <2>2, <2>3
<1>5. r \in Rows(o)
  BY <1>1, <1>3 DEF Rows
<1>6. Changed(o, r)
  BY <1>1, <1>3, <1>4, <1>5 DEF Changed
<1>7. Tells(o, r)
  BY <1>4 DEF Tells
<1>8. s \in Early => x.status \in Early
  <2>1. x.status \in OrderStatus \cup {"NONE"}
    BY <1>1 DEF Rows
  <2> QED
    BY <1>2, <2>1, OrderOnlyProgresses DEF Early
<1>9. RowFacts(o)'
  <2>1. x.status \in Early => \A i \in ItemsOf(o) : x.item[i] = "PENDING"
    BY <1>1 DEF CopiesInv, RowFacts
  <2> QED
    BY <1>2, <1>3, <1>6, <1>8, <2>1, FactsOf
<1> QED
  BY <1>6, <1>7, <1>9

LEMMA ItemMovesChanges ==
  ASSUME ItemsInv, CopiesInv, NEW i \in Items, ItemMoves(i)
  PROVE  \E o, r : Changed(o, r) /\ RowFacts(o)' /\ Tells(o, r)
<1>1. PICK o : o = Of[i]
  OBVIOUS
<1>2. o \in Orders /\ i \in ItemsOf(o)
  BY <1>1, ItemMovesRow
<1>3. PICK r \in Rows(o) :
        /\ row' = [row EXCEPT ![o] = r] /\ r.status = row[o].status
        /\ r.paid = row[o].paid /\ r.v = row[o].v + 1
        /\ r.item[i] = "CANCELLED"
        /\ \A j \in ItemsOf(o) : j # i => r.item[j] = row[o].item[j]
  BY <1>1, ItemMovesRow
<1>4. Changed(o, r)
  BY <1>2, <1>3 DEF Changed
<1>5. row[o].status \in {"CONFIRMED", "PREPARING"} /\ o \in behind' /\ UNCHANGED due
  BY <1>1 DEF ItemMoves, ChangeUntold
<1>6. Tells(o, r)
  BY <1>5 DEF Tells
<1>7. RowFacts(o)'
  BY <1>2, <1>3, <1>4, <1>5, FactsOf DEF CopiesInv, RowFacts, Early
<1> QED
  BY <1>4, <1>6, <1>7

LEMMA CopiesNext ==
  ASSUME ItemsInv, ItemsInv', CopiesInv, [Next]_vars
  PROVE  CopiesInv'
<1>1. CASE UNCHANGED vars
  BY <1>1, CopiesStep
<1>2. ASSUME NEW c \in calls, ServeDecision(c) PROVE CopiesInv'
  <2>1. PICK a : /\ Reply(c, a) /\ a.op = c.op /\ a.of = c.of
                 /\ \/ UNCHANGED <<row, due>> /\ Silent(a)
                    \/ \E r : Changed(c.of, r) /\ RowFacts(c.of)' /\ Tells(c.of, r)
                                /\ RowAnswer(a)'
                    \/ /\ c.of \notin Orders /\ UNCHANGED row
                       /\ \A e \in due' : e \in due \/ EventTells(e)
    BY <1>2, DecisionChanges
  <2>2. calls' \subseteq calls \cup {a} /\ c.op # "load"
    BY <1>2, <2>1 DEF Reply, ServeDecision, Writes
  <2>3. ListAnswer(a) /\ ListAnswer(a)' /\ (c.of \notin Orders => RowAnswer(a))
    BY <2>1, <2>2 DEF ListAnswer, RowAnswer
  <2> QED
    BY <2>1, <2>2, <2>3, CopiesStep, CopiesChange
<1>3. ASSUME NEW c \in calls, WriteItem(c) \/ CommitItem(c) \/ Lose(c) PROVE CopiesInv'
  <2>1. PICK a : calls' \subseteq (calls \ {c}) \cup {a} /\ Silent(a)
    BY <1>3, SilentSteps
  <2>2. \/ UNCHANGED <<row, due>>
        \/ \E o, r : Changed(o, r) /\ RowFacts(o)' /\ Tells(o, r)
    BY <1>3, CommitChanges DEF WriteItem, Lose
  <2> QED
    BY <2>1, <2>2, CopiesStep, CopiesChange
<1>4. ASSUME NEW c \in calls, Server(c) PROVE CopiesInv'
  BY <1>2, <1>3, <1>4, CopiesServeRead DEF Server
<1>5. ASSUME NEW o \in Orders, OrderMoves(o) PROVE CopiesInv'
  BY <1>5, OrderMovesChanges, CopiesChange DEF OrderMoves
<1>6. ASSUME NEW i \in Items, ItemMoves(i) PROVE CopiesInv'
  BY <1>6, ItemMovesChanges, CopiesChange DEF ItemMoves
<1>7. CASE Next
  BY <1>4, <1>5, <1>6, <1>7, CopiesShell, CopiesAnswer, CopiesOperator, CopiesEvent DEF Next
<1> QED
  BY <1>1, <1>7

-----------------------------------------------------------------------------
(* What the page shows                                                     *)

LEMMA RowTyped ==
  ASSUME ItemsInv, NEW o \in Orders
  PROVE  /\ row[o] \in Rows(o) /\ orders[o] \in Rows(o)
         /\ row[o].v \in Nat /\ orders[o].v \in Nat
BY DEF ItemsInv, Known, Typed, Rows

\* The number that is shown of an order shown as it is.
LEMMA FitsShown ==
  ASSUME NEW o, PageFits(o)
  PROVE  Shown(o) = row[o].v
<1>1. CASE view = "detail"
  BY <1>1 DEF PageFits, Shown
<1>2. CASE view # "detail"
  BY <1>2 DEF PageFits, ListFits, Shown
<1> QED
  BY <1>1, <1>2

LEMMA ListedFits ==
  ASSUME ItemsInv, NEW o \in Orders
  PROVE  ListFits(o, Listed(row[o]))
<1>1. PICK x : x = row[o] /\ x \in Rows(o)
  BY RowTyped
<1>2. Gone(x).v = x.v /\ Gone(x).status = "NONE"
  BY <1>1 DEF Gone, Rows
<1> QED
  BY <1>1, <1>2 DEF ListFits, Listed

\* An event's row, reconciled, is as the page's list has it.
LEMMA ReconciledFits ==
  ASSUME ItemsInv, NEW o \in Orders, RowFacts(o)
  PROVE  ListFits(o, Reconcile(row[o]))
<1>1. PICK x : x = row[o] /\ x \in Rows(o)
  BY RowTyped
<1>2. /\ Gone(x).v = x.v /\ Gone(x).status = "NONE"
      /\ x.status = "NONE" => Gone(x) = x
  BY <1>1 DEF Gone, Rows
<1>3. CASE view = "kitchen"
  <2>1. Reconcile(x) = IF x.status \in Over \/ ~HasCourier(x) THEN Gone(x) ELSE x
    BY <1>3 DEF Reconcile
  <2>2. x.status \notin {"NONE", "PENDING", "CANCELLED"} => x.paid
    BY <1>1 DEF RowFacts
  <2> QED
    BY <1>1, <1>2, <1>3, <2>1, <2>2 DEF ListFits, Active, HasCourier, Over
<1>4. CASE view # "kitchen"
  <2>1. Reconcile(x) = IF x.status \in Over \/ ~x.paid THEN Gone(x) ELSE x
    BY <1>4 DEF Reconcile
  <2> QED
    BY <1>1, <1>2, <1>4, <2>1 DEF ListFits, Active, Listed, Over
<1> QED
  BY <1>1, <1>3, <1>4

LEMMA ListKnowsOn ==
  ASSUME ItemsInv, NEW o \in Orders, Grows(o), ListKnows(o), UNCHANGED view,
         orders'[o] = orders[o], o \in behind => o \in behind'
  PROVE  ListKnows(o)'
<1>1. orders[o].v \in Nat /\ row[o].v \in Nat
  BY RowTyped
<1>2. CASE row'[o] = row[o]
  BY <1>2 DEF ListKnows, ListFits, Begun
<1>3. CASE /\ row'[o].v = row[o].v + 1
           /\ \A i \in ItemsOf(o) : row[o].item[i] # "PENDING" => row'[o].item[i] # "PENDING"
  <2>1. orders[o].v <= row[o].v /\ Begun(o, orders[o])
    BY DEF ListKnows
  <2>2. orders'[o].v <= row'[o].v /\ orders'[o].v # row'[o].v
    BY <1>1, <1>3, <2>1
  <2>3. Begun(o, orders[o])'
    BY <1>3, <2>1 DEF Begun, ItemsOf
  <2> QED
    BY <2>2, <2>3 DEF ListKnows
<1> QED
  BY <1>2, <1>3 DEF Grows

LEMMA DetailKnowsOn ==
  ASSUME ItemsInv, \A o \in Orders : Grows(o), DetailKnows, UNCHANGED detail
  PROVE  DetailKnows'
BY PastStays DEF DetailKnows

\* An order that does not change: what brings it to the page still does.
LEMMA FollowsOn ==
  ASSUME NEW o, Follows(o), UNCHANGED <<view, selected, detail>>,
         orders'[o] = orders[o], row'[o] = row[o],
         o \in behind => o \in behind',
         Announced(o) => o \in behind' \/ Announced(o)',
         \A c \in calls : Brings(c, o) => o \in behind' \/ \E d \in calls' : Brings(d, o)
  PROVE  Follows(o)'
<1>1. \A d : Brings(d, o) => Brings(d, o)'
  BY DEF Brings
<1>2. PageFits(o) => PageFits(o)'
  BY DEF PageFits, ListFits
<1>3. Concerned(o)' => Concerned(o)
  BY DEF Concerned
<1> QED
  BY <1>1, <1>2, <1>3 DEF Follows

\* A step that leaves the rows and what the page shows alone.
LEMMA PageStill ==
  ASSUME ItemsInv, PageInv, UNCHANGED <<view, selected, orders, detail, row>>,
         behind \subseteq behind', due \subseteq due',
         \A c \in calls, o \in Orders :
           Brings(c, o) => o \in behind' \/ \E d \in calls' : Brings(d, o),
         \A c \in calls' : OpFits(c)
  PROVE  PageInv'
<1>1. \A o \in Orders : ListKnows(o)'
  BY ListKnowsOn DEF PageInv, Grows
<1>2. DetailKnows'
  BY DetailKnowsOn DEF PageInv, Grows
<1>3. ASSUME NEW o \in Orders PROVE Follows(o)'
  <2>1. Announced(o) => Announced(o)'
    BY DEF Announced
  <2> QED
    BY <2>1, FollowsOn DEF PageInv
<1>4. \A c \in calls' : OpFits(c)'
  BY DEF OpFits
<1> QED
  BY <1>1, <1>2, <1>3, <1>4 DEF PageInv

\* A step that changes a row, which the page does not show yet.
LEMMA PageChange ==
  ASSUME ItemsInv, PageInv, NEW o, NEW r, Changed(o, r), Tells(o, r),
         UNCHANGED <<view, selected, orders, detail>>, behind \subseteq behind',
         \A c \in calls, p \in Orders : Brings(c, p) => \E d \in calls' : Brings(d, p),
         \A c \in calls' : OpFits(c)
  PROVE  PageInv'
<1>1. /\ row'[o] = r /\ \A p \in Orders : p # o => row'[p] = row[p]
      /\ \A p \in Orders : Grows(p)
  BY ChangedGrows
<1>2. \A p \in Orders : ListKnows(p)'
  BY <1>1, ListKnowsOn DEF PageInv
<1>3. DetailKnows'
  BY <1>1, DetailKnowsOn DEF PageInv
<1>4. ASSUME NEW p \in Orders PROVE Follows(p)'
  <2>1. CASE p # o
    <3>1. Announced(p) => Announced(p)'
      BY <1>1, <1>4, <2>1 DEF Announced, Tells
    <3> QED
      BY <1>1, <2>1, <3>1, FollowsOn DEF PageInv
  <2>2. CASE p = o
    <3>1. CASE [of |-> o, row |-> r] \in due'
      <4>1. Announced(o)'
        BY <1>1, <3>1 DEF Announced
      <4> QED
        BY <2>2, <4>1 DEF Follows
    <3>2. CASE o \in behind'
      BY <2>2, <3>2 DEF Follows
    <3>3. CASE \E d \in calls' : d.mine /\ d.op = "item" /\ d.of = o /\ d.got = "ok"
      <4>1. \E d \in calls' : Brings(d, o)'
        BY <3>3 DEF Brings
      <4> QED
        BY <2>2, <4>1 DEF Follows
    <3> QED
      BY <3>1, <3>2, <3>3 DEF Tells
  <2> QED
    BY <2>1, <2>2
<1>5. \A c \in calls' : OpFits(c)'
  BY DEF OpFits
<1> QED
  BY <1>2, <1>3, <1>4, <1>5 DEF PageInv

-----------------------------------------------------------------------------
(* Pages come and go                                                       *)

LEMMA BlankShown ==
  \A o \in Orders : /\ Blank[o].v = 0 /\ Blank[o].status = "NONE"
                    /\ \A i \in ItemsOf(o) : Blank[o].item[i] = "PENDING"
BY DEF Blank, Fresh

\* Requests that are left to the server are no page's, the session's refresh apart.
LEMMA KeptFits ==
  ASSUME ItemsInv, NEW c \in Kept
  PROVE  c.op = "refresh" \/ c.mine = FALSE
<1>1. \A b \in calls : [b EXCEPT !.mine = FALSE].mine = FALSE
  BY DEF ItemsInv, CallKnows, Request
<1> QED
  BY <1>1 DEF Kept

\* A page that shows nothing.
LEMMA EmptyPage ==
  ASSUME ItemsInv, UNCHANGED row, orders' = Blank, detail' = None
  PROVE  (\A o \in Orders : ListKnows(o)') /\ DetailKnows'
<1>1. ASSUME NEW o \in Orders PROVE ListKnows(o)'
  <2>1. orders'[o].v = 0 /\ orders'[o].status = "NONE" /\ row'[o].v \in Nat
    BY RowTyped, BlankShown
  <2>2. Begun(o, orders[o])'
    BY BlankShown DEF Begun, ItemsOf
  <2> QED
    BY <2>1, <2>2 DEF ListKnows
<1>2. DetailKnows'
  BY DEF DetailKnows
<1> QED
  BY <1>1, <1>2

\* A page asks for all it shows when it is mounted.
LEMMA PageMounted ==
  ASSUME ItemsInv, NEW v \in {"dashboard", "kitchen", "detail"}, NEW o, NEW kept,
         kept \subseteq Kept, Mount(v, o, kept), UNCHANGED row
  PROVE  PageInv'
<1>1. PICK op : op = IF v = "detail" THEN "detail" ELSE "load"
  OBVIOUS
<1>2. PICK d : Made(d, op, o) /\ calls' = kept \cup {d}
  BY <1>1, MountMakes
<1>3. view' = v /\ selected' = o /\ orders' = Blank /\ detail' = None
  BY DEF Mount
<1>4. (\A p \in Orders : ListKnows(p)') /\ DetailKnows'
  BY <1>3, EmptyPage
<1>5. ASSUME NEW p \in Orders PROVE Follows(p)'
  <2>1. Concerned(p)' => Brings(d, p)'
    BY <1>1, <1>2, <1>3 DEF Concerned, Brings, Made
  <2> QED
    BY <1>2, <2>1 DEF Follows
<1>6. OpFits(d)'
  BY <1>1, <1>2, <1>3 DEF OpFits, Made
<1>7. ASSUME NEW c \in kept PROVE OpFits(c)'
  BY <1>7, KeptFits DEF OpFits
<1> QED
  BY <1>2, <1>4, <1>5, <1>6, <1>7 DEF PageInv

LEMMA PageLeft ==
  ASSUME ItemsInv, LoggedOut, calls' \subseteq Kept, UNCHANGED row
  PROVE  PageInv'
<1>1. view' = "login" /\ orders' = Blank /\ detail' = None
  BY DEF LoggedOut
<1>2. (\A p \in Orders : ListKnows(p)') /\ DetailKnows'
  BY <1>1, EmptyPage
<1>3. \A p \in Orders : Follows(p)'
  BY <1>1 DEF Follows, Concerned
<1>4. \A c \in calls' : OpFits(c)'
  BY KeptFits DEF OpFits
<1> QED
  BY <1>2, <1>3, <1>4 DEF PageInv

LEMMA PageShell ==
  ASSUME ItemsInv, PageInv, Shell
  PROVE  PageInv'
<1>1. CASE NavigateToView
  <2>1. \E v \in {"dashboard", "kitchen", "detail"}, o \in Orders \cup {selected} : Mount(v, o, Kept)
    BY <1>1 DEF NavigateToView
  <2> QED
    BY <1>1, <2>1, PageMounted DEF NavigateToView
<1>2. CASE FollowUrl
  <2>1. PICK o, d : /\ d = [Call("detail", o, presses) EXCEPT !.sel = o] /\ calls' = calls \cup {d}
                    /\ selected' = o
    BY <1>2 DEF FollowUrl
  <2>2. Made(d, "detail", o)
    BY <2>1, CallsMade
  <2>3. UNCHANGED <<view, orders, detail, row>> /\ view = "detail" /\ behind' = {}
    BY <1>2 DEF FollowUrl
  <2>4. ASSUME NEW p \in Orders PROVE ListKnows(p)'
    BY <2>3, <2>4 DEF PageInv, ListKnows, Begun
  <2>5. DetailKnows'
    BY <2>3, DetailKnowsOn DEF PageInv, Grows
  <2>6. ASSUME NEW p \in Orders PROVE Follows(p)'
    <3>1. Concerned(p)' => Brings(d, p)'
      BY <2>1, <2>2, <2>3 DEF Concerned, Brings, Made
    <3> QED
      BY <2>1, <3>1 DEF Follows
  <2>7. \A c \in calls' : OpFits(c)'
    BY <2>1, <2>2, <2>3 DEF PageInv, OpFits, Made
  <2> QED
    BY <2>4, <2>5, <2>6, <2>7 DEF PageInv
<1>3. CASE ConfirmLogout
  BY <1>3, PageLeft DEF ConfirmLogout
<1>4. CASE HandleLogin
  BY <1>4, PageMounted DEF HandleLogin
<1>5. CASE Join
  BY <1>5, PageStill DEF Join, PageInv
<1> QED
  BY <1>1, <1>2, <1>3, <1>4, <1>5 DEF Shell

LEMMA PageOperator ==
  ASSUME ItemsInv, PageInv, Operator
  PROVE  PageInv'
<1>1. ASSUME NEW d, calls' = calls \cup {d}, d.op \notin {"load", "item", "detail"} \/ OpFits(d),
             UNCHANGED <<view, selected, orders, detail, row, due, behind>>
      PROVE  PageInv'
  BY <1>1, PageStill DEF PageInv, OpFits
<1>2. ASSUME NEW op \in {"accept", "reject", "start", "ready"}, NEW o, Press(op, o),
             UNCHANGED <<view, selected, orders, detail, row, due, behind>>
      PROVE  PageInv'
  <2>1. PICK d : d = Call(op, o, presses') /\ calls' = calls \cup {d}
    BY <1>2 DEF Press
  <2>2. d.op = op
    BY <2>1 DEF Call
  <2> QED
    BY <1>1, <1>2, <2>1, <2>2
<1>3. ASSUME NEW o \in Orders, HandleAccept(o) \/ HandleStartOrReady(o) PROVE PageInv'
  BY <1>2, <1>3 DEF HandleAccept, HandleStartOrReady
<1>4. CASE ConfirmReject
  BY <1>2, <1>4 DEF ConfirmReject
<1>5. CASE CancelReject \/ \E o \in Orders : RequestReject(o)
  BY <1>5, PageStill DEF CancelReject, RequestReject, PageInv
<1>6. ASSUME NEW i \in Items, NEW s \in ItemStatus, HandleItemStatus(i, s) PROVE PageInv'
  <2>1. PICK d : /\ d = [Call("item", Of[i], presses') EXCEPT !.item = i, !.to = s]
                 /\ calls' = calls \cup {d}
    BY <1>6 DEF HandleItemStatus
  <2>2. d.op = "item" /\ view = "kitchen"
    BY <1>6, <2>1 DEF Call, HandleItemStatus
  <2>3. OpFits(d)
    BY <2>2 DEF OpFits
  <2> QED
    BY <1>1, <1>6, <2>1, <2>3 DEF HandleItemStatus
<1> QED
  BY <1>3, <1>4, <1>5, <1>6 DEF Operator

-----------------------------------------------------------------------------
(* The page is answered and told                                           *)

\* The page uses a row x of o: when it is not behind then, x is as the row is, or what
\* brings o as it is was not what brought x.
LEMMA PageUses ==
  ASSUME ItemsInv, NEW o \in Orders, Follows(o), NEW rs, o \in DOMAIN rs,
         rs[o] \in Rows(o), rs[o].v <= row[o].v, rs[o].v # row[o].v,
         Concerned(o), o \notin BehindAfter(rs)
  PROVE  Announced(o) \/ \E c \in calls : Brings(c, o)
<1>1. ~(rs[o].v < Shown(o)) /\ o \notin behind
  BY DEF BehindAfter
<1>2. rs[o].v \in Nat /\ row[o].v \in Nat
  BY RowTyped DEF Rows
<1>3. ~PageFits(o)
  BY <1>1, <1>2, FitsShown
<1> QED
  BY <1>1, <1>3 DEF Follows

LEMMA PageOrdersLoaded ==
  ASSUME ItemsInv, CopiesInv, PageInv, NEW c \in calls, OrdersLoaded(c)
  PROVE  PageInv'
<1>1. /\ calls' = calls \ {c} /\ c.op = "load" /\ c.mine /\ c.got \in {"ok", "error"}
      /\ UNCHANGED <<view, selected, detail, row, due>>
  BY DEF OrdersLoaded, Answered
<1>2. view # "detail"
  BY <1>1 DEF PageInv, OpFits
<1>3. \A d \in calls' : OpFits(d)'
  BY <1>1 DEF PageInv, OpFits
<1>4. DetailKnows'
  BY <1>1, DetailKnowsOn DEF PageInv, Grows
<1>5. CASE c.got = "error"
  <2>1. behind' = Orders /\ UNCHANGED orders
    BY <1>5 DEF OrdersLoaded
  <2>2. ASSUME NEW o \in Orders PROVE ListKnows(o)' /\ Follows(o)'
    <3>1. ListKnows(o)'
      BY <1>1, <2>1, ListKnowsOn DEF PageInv, Grows
    <3> QED
      BY <2>1, <3>1 DEF Follows
  <2> QED
    BY <1>3, <1>4, <2>2 DEF PageInv
<1>6. CASE c.got = "ok"
  <2>1. PICK rs : rs = c.seen /\ Typed(rs)
    BY DEF ItemsInv, CallKnows, Known
  <2>2. orders' = rs /\ behind' = BehindAfter(rs) /\ DOMAIN rs = Orders
    BY <1>6, <2>1 DEF OrdersLoaded, Typed
  <2>3. ASSUME NEW o \in Orders PROVE ListKnows(o)' /\ Follows(o)'
    <3>1. /\ rs[o] \in Rows(o) /\ Before(o, rs[o]) /\ Begun(o, rs[o])
          /\ rs[o].status # "NONE" => rs[o].paid
      BY <1>1, <1>6, <2>1 DEF CopiesInv, ListAnswer, Typed
    <3>2. rs[o].v = row[o].v => ListFits(o, rs[o]) /\ ListFits(o, orders[o])'
      <4>1. rs[o].v = row[o].v => ListFits(o, rs[o])
        BY <3>1, ListedFits DEF Before
      <4> QED
        BY <1>1, <2>2, <4>1 DEF ListFits
    <3>3. ListKnows(o)'
      <4>1. Begun(o, orders[o])'
        BY <1>1, <2>2, <3>1 DEF Begun
      <4> QED
        BY <1>1, <2>2, <3>1, <3>2, <4>1 DEF ListKnows, Before
    <3>4. CASE rs[o].v = row[o].v
      <4>1. PageFits(o)'
        BY <1>1, <1>2, <3>2, <3>4 DEF PageFits
      <4> QED
        BY <3>3, <4>1 DEF Follows
    <3>5. CASE rs[o].v # row[o].v
      <4>1. SUFFICES ASSUME Concerned(o)', o \notin behind'
                     PROVE  Announced(o)' \/ \E d \in calls' : Brings(d, o)'
        BY <3>3 DEF Follows
      <4>2. Concerned(o) /\ o \notin BehindAfter(rs)
        BY <1>1, <2>2, <4>1 DEF Concerned
      <4>3. Announced(o) \/ \E d \in calls : Brings(d, o)
        BY <2>2, <3>1, <3>5, <4>2, PageUses DEF PageInv, Before
      <4>4. ~Brings(c, o)
        BY <1>1, <1>6, <2>1, <3>5 DEF Brings
      <4>5. Announced(o) => Announced(o)'
        BY <1>1 DEF Announced
      <4>6. \A d : Brings(d, o) => Brings(d, o)'
        BY <1>1 DEF Brings
      <4> QED
        BY <1>1, <4>3, <4>4, <4>5, <4>6
    <3> QED
      BY <3>3, <3>4, <3>5
  <2> QED
    BY <1>3, <1>4, <2>3 DEF PageInv
<1> QED
  BY <1>1, <1>5, <1>6

\* A record is not None.
LEMMA DetailIsSome ==
  ASSUME NEW o \in Orders, NEW r \in Rows(o)
  PROVE  [of |-> o, row |-> r] # None
BY RestaurantBoardAssumption

LEMMA PageDetailLoaded ==
  ASSUME ItemsInv, CopiesInv, PageInv, NEW c \in calls, DetailLoaded(c)
  PROVE  PageInv'
<1>1. /\ calls' = calls \ {c} /\ c.op = "detail" /\ c.mine /\ c.got \in {"ok", "error"}
      /\ UNCHANGED <<view, selected, orders, row, due>>
  BY DEF DetailLoaded, Answered
<1>2. view = "detail"
  BY <1>1 DEF PageInv, OpFits
<1>3. \A d \in calls' : OpFits(d)'
  BY <1>1 DEF PageInv, OpFits
<1>4. ASSUME NEW o \in Orders PROVE ListKnows(o)'
  BY <1>1, <1>2, <1>4 DEF PageInv, ListKnows, Begun
<1>5. selected \in behind' => \A o \in Orders : Follows(o)'
  BY <1>1, <1>2 DEF Follows, Concerned
<1>6. CASE c.got = "error"
  <2>1. DetailKnows' /\ selected \in behind'
    BY <1>1, <1>6, DetailKnowsOn DEF DetailLoaded, PageInv, Grows
  <2> QED
    BY <1>3, <1>4, <1>5, <2>1 DEF PageInv
<1>7. CASE c.got = "ok"
  <2>1. PICK x : x = c.seen[c.of]
    OBVIOUS
  <2>2. detail' = [of |-> c.of, row |-> x]
    BY <1>7, <2>1 DEF DetailLoaded
  <2>3. c.of \in Orders => x \in Rows(c.of) /\ Past(c.of, x)
    BY <1>1, <1>7, <2>1 DEF ItemsInv, CallKnows, Known, Typed, CopiesInv, RowAnswer
  <2>4. DetailKnows'
    BY <1>1, <2>2, <2>3 DEF DetailKnows, Past
  <2>5. ASSUME NEW o \in Orders PROVE Follows(o)'
    <3>1. CASE c.of # selected
      BY <1>5, <1>7, <3>1 DEF DetailLoaded
    <3>2. CASE o # selected
      BY <1>1, <1>2, <3>2 DEF Follows, Concerned
    <3>3. CASE c.of = o /\ o = selected
      <4>1. PICK rs : rs = [p \in {selected} |-> c.seen[p]]
        OBVIOUS
      <4>2. behind' = BehindAfter(rs) /\ o \in DOMAIN rs /\ rs[o] = x
        BY <1>7, <2>1, <3>3, <4>1 DEF DetailLoaded
      <4>3. x \in Rows(o) /\ x.v <= row[o].v /\ (x.v = row[o].v => x = row[o])
        BY <2>3, <3>3 DEF Past
      <4>4. CASE x.v = row[o].v
        <5>1. detail' = [of |-> o, row |-> row[o]] /\ detail' # None
          BY <2>2, <3>3, <4>3, <4>4, DetailIsSome
        <5> QED
          BY <1>1, <1>2, <5>1 DEF Follows, PageFits
      <4>5. CASE x.v # row[o].v
        <5>1. SUFFICES ASSUME Concerned(o)', o \notin behind'
                       PROVE  Announced(o)' \/ \E d \in calls' : Brings(d, o)'
          BY DEF Follows
        <5>2. Concerned(o) /\ o \notin BehindAfter(rs)
          BY <1>1, <4>2, <5>1 DEF Concerned
        <5>3. Announced(o) \/ \E d \in calls : Brings(d, o)
          BY <4>2, <4>3, <4>5, <5>2, PageUses DEF PageInv
        <5>4. ~Brings(c, o)
          BY <1>1, <1>7, <2>1, <3>3, <4>5 DEF Brings
        <5>5. Announced(o) => Announced(o)'
          BY <1>1 DEF Announced
        <5>6. \A d : Brings(d, o) => Brings(d, o)'
          BY <1>1 DEF Brings
        <5> QED
          BY <1>1, <5>3, <5>4, <5>5, <5>6
      <4> QED
        BY <4>4, <4>5
    <3> QED
      BY <3>1, <3>2, <3>3
  <2> QED
    BY <1>3, <1>4, <2>4, <2>5 DEF PageInv
<1> QED
  BY <1>1, <1>6, <1>7


\* The step takes a copy of o into the page's list, and leaves the other orders alone.
LEMMA PageTakes ==
  ASSUME ItemsInv, PageInv, UNCHANGED <<view, selected, detail, row>>, NEW o,
         o \in Orders => ListKnows(o)' /\ Follows(o)',
         \A p \in Orders : p # o => /\ orders'[p] = orders[p]
                                    /\ p \in behind => p \in behind'
                                    /\ Announced(p) => Announced(p)',
         \A c \in calls, p \in Orders : Brings(c, p) => c \in calls',
         \A c \in calls' : OpFits(c)
  PROVE  PageInv'
<1>1. ASSUME NEW p \in Orders PROVE ListKnows(p)'
  BY ListKnowsOn DEF PageInv, Grows
<1>2. DetailKnows'
  BY DetailKnowsOn DEF PageInv, Grows
<1>3. ASSUME NEW p \in Orders PROVE Follows(p)'
  BY FollowsOn DEF PageInv
<1>4. \A c \in calls' : OpFits(c)'
  BY DEF OpFits
<1> QED
  BY <1>1, <1>2, <1>3, <1>4 DEF PageInv

\* The follow-up of a request asks for what its page shows.
LEMMA AgainFits ==
  ASSUME PageInv, NEW c, NEW f, Again(c, f)
  PROVE  /\ \A d \in calls' : OpFits(d)
         /\ view # "detail" => \A o : \E d \in calls' : Brings(d, o)
         /\ calls \ {c} \subseteq calls'
<1>1. PICK op : op = IF view = "detail" THEN "detail" ELSE "load"
  OBVIOUS
<1>2. PICK d : Made(d, op, c.sel) /\ calls' = (calls \ {c}) \cup {d}
  BY <1>1, AgainMakes
<1>3. OpFits(d) /\ (view # "detail" => \A o : Brings(d, o))
  BY <1>1, <1>2 DEF Made, OpFits, Brings
<1> QED
  BY <1>2, <1>3 DEF PageInv

\* An order accepted from the dashboard: the list takes the new status and no more.
LEMMA PageAccepted ==
  ASSUME ItemsInv, CopiesInv, PageInv, NEW c \in calls, DecisionAnswered(c), ~UNCHANGED orders
  PROVE  PageInv'
<1>1. /\ c.op = "accept" /\ c.got = "ok" /\ view = "dashboard" /\ orders[c.of].status # "NONE"
      /\ UNCHANGED <<view, selected, detail, row, due>> /\ calls' = calls \ {c}
  BY DEF DecisionAnswered
<1>2. PICK o, old, s : o = c.of /\ old = orders[o] /\ s = c.seen[o]
  OBVIOUS
<1>3. PICK n : /\ orders' = [orders EXCEPT ![o].status = "CONFIRMED", ![o].v = n]
               /\ n = IF s.v < Shown(o) THEN old.v ELSE s.v
  BY <1>2 DEF DecisionAnswered
<1>4. behind' = IF s.v < Shown(o) THEN behind \cup {o} ELSE behind
  BY <1>2 DEF DecisionAnswered
<1>5. o \in Orders
  BY <1>3 DEF ItemsInv, Known, Typed
<1>6. PICK r : r = [old EXCEPT !.status = "CONFIRMED", !.v = n]
  OBVIOUS
<1>7. orders' = [orders EXCEPT ![o] = r]
  BY <1>2, <1>3, <1>5, <1>6 DEF ItemsInv, Known, Typed
<1>8. orders'[o] = r /\ \A p \in Orders : p # o => orders'[p] = orders[p]
  BY <1>5, <1>7 DEF ItemsInv, Known, Typed
<1>9. old \in Rows(o) /\ s \in Rows(o) /\ row[o] \in Rows(o)
  BY <1>2, <1>5 DEF ItemsInv, CallKnows, Known, Typed
<1>10. r = [status |-> "CONFIRMED", paid |-> old.paid, item |-> old.item, v |-> n]
  BY <1>6, <1>9 DEF Rows
<1>11. /\ Past(o, s) /\ s.status = "CONFIRMED"
       /\ \A i \in ItemsOf(o) : s.item[i] = "PENDING"
  BY <1>1, <1>2, <1>5 DEF CopiesInv, RowAnswer
<1>12. old.v <= row[o].v /\ Begun(o, old) /\ old.paid
  BY <1>1, <1>2, <1>5 DEF PageInv, ListKnows
<1>13. n <= row[o].v /\ n \in Nat
  BY <1>3, <1>9, <1>11, <1>12 DEF Past, Rows
<1>14. ASSUME s.v = row[o].v, n = s.v PROVE ListFits(o, orders[o])'
  <2>1. row[o] = s
    BY <1>11, <1>14 DEF Past
  <2>2. \A i \in ItemsOf(o) : old.item[i] = row[o].item[i]
    BY <1>11, <1>12, <2>1 DEF Begun
  <2>3. old.item = row[o].item
    BY <1>9, <2>2 DEF Rows
  <2>4. row[o].paid
    BY <1>5, <1>11, <2>1 DEF CopiesInv, RowFacts
  <2>5. row[o] = [status |-> "CONFIRMED", paid |-> row[o].paid, item |-> row[o].item, v |-> n]
    BY <1>9, <1>11, <1>14, <2>1 DEF Rows
  <2>6. old.paid = row[o].paid
    BY <1>9, <1>12, <2>4 DEF Rows
  <2>7. r = row[o]
    BY <1>10, <2>3, <2>5, <2>6
  <2>8. Listed(row[o]) = row[o]
    BY <1>11, <2>1, <2>4 DEF Listed, Active, Over
  <2> QED
    BY <1>1, <1>8, <2>7, <2>8 DEF ListFits
<1>15. Shown(o) = old.v
  BY <1>1, <1>2 DEF Shown
<1>16. ListKnows(o)'
  <2>1. Begun(o, orders[o])'
    BY <1>1, <1>8, <1>10, <1>12 DEF Begun
  <2>2. o \notin behind' => n = s.v
    BY <1>3, <1>4
  <2> QED
    BY <1>1, <1>8, <1>10, <1>12, <1>13, <1>14, <2>1, <2>2 DEF ListKnows
<1>17. \A d : d # c /\ Brings(d, o) => Brings(d, o)'
  BY <1>1 DEF Brings
<1>18. \A d, p : Brings(d, p) => d # c
  BY <1>1 DEF Brings
<1>19. Follows(o)'
  <2>1. CASE o \in behind'
    BY <2>1 DEF Follows
  <2>2. CASE o \notin behind'
    <3>1. n = s.v /\ ~(s.v < Shown(o)) /\ o \notin behind
      BY <1>3, <1>4, <2>2
    <3>2. CASE s.v = row[o].v
      <4>1. PageFits(o)'
        BY <1>1, <1>14, <3>1, <3>2 DEF PageFits
      <4> QED
        BY <4>1 DEF Follows
    <3>3. CASE s.v # row[o].v
      <4>1. ~PageFits(o)
        BY <1>9, <1>11, <3>1, <3>3, FitsShown DEF Past, Rows
      <4>2. Announced(o) \/ \E d \in calls : Brings(d, o)
        BY <1>1, <1>5, <3>1, <4>1 DEF PageInv, Follows, Concerned
      <4>3. Announced(o) => Announced(o)'
        BY <1>1 DEF Announced
      <4> QED
        BY <1>1, <1>17, <1>18, <4>2, <4>3 DEF Follows
    <3> QED
      BY <3>2, <3>3
  <2> QED
    BY <2>1, <2>2
<1>20. \A p \in Orders : Announced(p) => Announced(p)'
  BY <1>1 DEF Announced
<1>21. \A b \in calls' : OpFits(b)
  BY <1>1 DEF PageInv
<1>22. behind \subseteq behind'
  BY <1>4
<1>23. \A b \in calls, p \in Orders : Brings(b, p) => b \in calls'
  BY <1>1, <1>18
<1> QED
  BY <1>1, <1>8, <1>16, <1>19, <1>20, <1>21, <1>22, <1>23, PageTakes

LEMMA PageAnswer ==
  ASSUME ItemsInv, CopiesInv, PageInv, NEW c \in calls, Answer(c)
  PROVE  PageInv'
<1>1. CASE SessionRefreshed(c)
  <2>1. CASE LoggedOut /\ calls' = Kept \ {c}
    BY <1>1, <2>1, PageLeft DEF SessionRefreshed
  <2>2. CASE Mount("dashboard", None, Kept \ {c})
    BY <1>1, <2>2, PageMounted DEF SessionRefreshed
  <2>3. CASE /\ UNCHANGED <<view, selected, joined, orders, detail, busyOrderId, busyItemId,
                            rejectTarget, behind>>
             /\ calls' = (calls \ {c}) \cup
                  {Call(IF view = "detail" THEN "detail" ELSE "load", selected, presses)}
    <3>1. PICK op : op = IF view = "detail" THEN "detail" ELSE "load"
      OBVIOUS
    <3>2. PICK d : d = Call(op, selected, presses)
      OBVIOUS
    <3>3. Made(d, op, selected)
      BY <3>2, CallsMade
    <3>4. calls' = (calls \ {c}) \cup {d}
      BY <2>3, <3>1, <3>2
    <3>5. OpFits(d)
      BY <3>1, <3>3 DEF Made, OpFits
    <3>6. \A o : ~Brings(c, o)
      BY <1>1 DEF SessionRefreshed, Brings
    <3> QED
      BY <1>1, <2>3, <3>4, <3>5, <3>6, PageStill DEF SessionRefreshed, PageInv
  <2> QED
    BY <1>1, <2>1, <2>2, <2>3 DEF SessionRefreshed
<1>2. CASE DecisionAnswered(c)
  <2>1. CASE UNCHANGED orders
    <3>1. \A o : ~Brings(c, o)
      BY <1>2 DEF DecisionAnswered, Answered, Writes, Brings
    <3>2. behind \subseteq behind' /\ UNCHANGED <<view, selected, detail, row, due>>
      BY <1>2 DEF DecisionAnswered
    <3>3. (\A d \in calls' : OpFits(d)) /\ calls \ {c} \subseteq calls'
      <4>1. (\E f : Again(c, f)) \/ calls' = calls \ {c}
        BY <1>2 DEF DecisionAnswered
      <4> QED
        BY <4>1, AgainFits DEF PageInv
    <3> QED
      BY <2>1, <3>1, <3>2, <3>3, PageStill
  <2>2. CASE ~UNCHANGED orders
    BY <1>2, <2>2, PageAccepted
  <2> QED
    BY <2>1, <2>2
<1>3. CASE ItemAnswered(c)
  <2>1. /\ c.op = "item" /\ c.mine /\ c.got \in {"ok", "error"}
        /\ UNCHANGED <<view, selected, orders, detail, row, due, behind>>
    BY <1>3 DEF ItemAnswered, Answered
  <2>2. view # "detail"
    BY <2>1 DEF PageInv, OpFits
  <2>3. CASE c.got = "ok"
    <3>1. Again(c, "item")
      BY <1>3, <2>3 DEF ItemAnswered
    <3>2. /\ \A d \in calls' : OpFits(d)
          /\ \A o : \E d \in calls' : Brings(d, o)
      BY <2>2, <3>1, AgainFits
    <3> QED
      BY <2>1, <3>2, PageStill
  <2>4. CASE c.got = "error"
    <3>1. calls' = calls \ {c} /\ \A o : ~Brings(c, o)
      BY <1>3, <2>1, <2>4 DEF ItemAnswered, Brings
    <3> QED
      BY <2>1, <3>1, PageStill DEF PageInv
  <2> QED
    BY <2>1, <2>3, <2>4
<1> QED
  BY <1>1, <1>2, <1>3, PageOrdersLoaded, PageDetailLoaded DEF Answer


\* A last change that the page shows is as the row is.
LEMMA ShownFits ==
  ASSUME ItemsInv, PageInv, NEW o \in Orders, Concerned(o), o \notin behind,
         row[o].v <= Shown(o), row[o].v > 0
  PROVE  PageFits(o)
<1>1. row[o].v \in Nat /\ orders[o].v \in Nat
  BY RowTyped
<1>2. CASE view = "detail"
  <2>1. detail # None /\ detail.of = o /\ Shown(o) = detail.row.v
    BY <1>1, <1>2 DEF Shown
  <2>2. /\ detail = [of |-> o, row |-> detail.row] /\ detail.row \in Rows(o)
        /\ Past(o, detail.row)
    BY <2>1 DEF PageInv, DetailKnows
  <2>3. detail.row = row[o]
    BY <1>1, <2>1, <2>2 DEF Past, Rows
  <2> QED
    BY <1>2, <2>1, <2>2, <2>3 DEF PageFits
<1>3. CASE view # "detail"
  <2>1. Shown(o) = orders[o].v /\ orders[o].v <= row[o].v
    BY <1>3 DEF Shown, PageInv, ListKnows
  <2>2. orders[o].v = row[o].v
    BY <1>1, <2>1
  <2> QED
    BY <1>3, <2>2 DEF PageFits, PageInv, ListKnows
<1> QED
  BY <1>2, <1>3

\* An event that passes the page by.
LEMMA PageUntold ==
  ASSUME ItemsInv, CopiesInv, PageInv, NEW e \in due, due \ {e} \subseteq due',
         UNCHANGED <<view, selected, orders, detail, row, calls>>, behind \subseteq behind',
         Concerned(e.of) /\ e.row.v > Shown(e.of) => e.of \in behind'
  PROVE  PageInv'
<1>1. ASSUME NEW o \in Orders PROVE ListKnows(o)'
  BY ListKnowsOn DEF PageInv, Grows
<1>2. DetailKnows'
  BY DetailKnowsOn DEF PageInv, Grows
<1>3. ASSUME NEW o \in Orders PROVE Follows(o)'
  <2>1. CASE \E d \in due : d # e /\ d.of = o /\ d.row.v = row[o].v
    <3>1. Announced(o)'
      BY <2>1 DEF Announced
    <3> QED
      BY <3>1 DEF Follows
  <2>2. CASE ~Announced(o)
    BY <2>2, FollowsOn DEF PageInv
  <2>3. CASE e.of = o /\ e.row.v = row[o].v
    <3>1. CASE ~Concerned(o) \/ o \in behind'
      BY <3>1 DEF Follows, Concerned
    <3>2. CASE Concerned(o) /\ o \notin behind'
      <4>1. row[o].v \in Nat /\ row[o].v > 0
        BY <2>3, RowTyped DEF CopiesInv, EventTells
      <4>2. Shown(o) \in Nat
        <5>1. CASE view = "detail" /\ detail # None /\ detail.of = o
          BY <5>1 DEF Shown, PageInv, DetailKnows, Rows
        <5>2. CASE ~(view = "detail" /\ detail # None /\ detail.of = o)
          BY <5>2, RowTyped DEF Shown
        <5> QED
          BY <5>1, <5>2
      <4>3. PageFits(o)
        BY <2>3, <3>2, <4>1, <4>2, ShownFits
      <4>4. PageFits(o)'
        BY <4>3 DEF PageFits, ListFits
      <4> QED
        BY <4>4 DEF Follows
    <3> QED
      BY <3>1, <3>2
  <2> QED
    BY <2>1, <2>2, <2>3 DEF Announced
<1>4. \A c \in calls' : OpFits(c)'
  BY DEF PageInv, OpFits
<1> QED
  BY <1>1, <1>2, <1>3, <1>4 DEF PageInv

\* What follows an event's row that is not the order's last change.
LEMMA PageToldOld ==
  ASSUME ItemsInv, CopiesInv, PageInv, NEW e \in due, due \ {e} \subseteq due', e.of \in Orders,
         UNCHANGED <<view, selected, row, calls>>, Concerned(e.of),
         behind' = BehindAfter([p \in {e.of} |-> e.row]), e.row.v # row[e.of].v
  PROVE  Follows(e.of)'
<1>1. PICK o, x : o = e.of /\ o \in Orders /\ x = e.row
  OBVIOUS
<1>2. PICK rs : rs = [p \in {o} |-> x]
  OBVIOUS
<1>3. rs[o] = x /\ o \in DOMAIN rs /\ behind' = BehindAfter(rs)
  BY <1>1, <1>2
<1>4. x \in Rows(o) /\ x.v <= row[o].v /\ x.v # row[o].v
  BY <1>1 DEF ItemsInv, EventKnows, CopiesInv, EventTells, Past
<1>5. CASE o \in behind'
  BY <1>1, <1>5 DEF Follows
<1>6. CASE o \notin behind'
  <2>1. Announced(o) \/ \E c \in calls : Brings(c, o)
    BY <1>1, <1>3, <1>4, <1>6, PageUses DEF PageInv
  <2>2. Announced(o) => Announced(o)'
    BY <1>1, <1>4 DEF Announced
  <2>3. \A c : Brings(c, o) => Brings(c, o)'
    BY DEF Brings
  <2> QED
    BY <1>1, <2>1, <2>2, <2>3 DEF Follows
<1> QED
  BY <1>5, <1>6

LEMMA PageEvent ==
  ASSUME ItemsInv, CopiesInv, PageInv, NEW e \in due, OnEvent(e) \/ MissEvent(e)
  PROVE  PageInv'
<1>1. /\ due \ {e} \subseteq due'
      /\ UNCHANGED <<view, selected, row, calls>>
      /\ Concerns(e) <=> Concerned(e.of)
  BY DEF OnEvent, MissEvent, Comes, Concerns, Concerned
<1>2. PICK rs : rs = [p \in {e.of} |-> e.row]
  OBVIOUS
<1>3. \A p \in Orders : p # e.of => /\ p \in behind => p \in BehindAfter(rs)
                                    /\ Announced(p) => Announced(p)'
  BY <1>1, <1>2 DEF BehindAfter, Announced
<1>4. \A c \in calls' : OpFits(c) /\ OpFits(c)'
  BY <1>1 DEF PageInv, OpFits
<1>5. e.of \in Orders => /\ e.row \in Rows(e.of) /\ Past(e.of, e.row) /\ Begun(e.of, e.row)
                         /\ e = [of |-> e.of, row |-> e.row]
  BY DEF ItemsInv, EventKnows, CopiesInv, EventTells
<1>6. CASE UNCHANGED <<orders, detail>> /\ behind \subseteq behind'
           /\ (Concerns(e) /\ e.row.v > Shown(e.of) => e.of \in behind')
  BY <1>1, <1>6, PageUntold
<1>7. CASE Concerned(e.of) /\ behind' = BehindAfter(rs) /\ view = "detail"
           /\ detail' = e /\ UNCHANGED orders
  <2>1. ASSUME NEW o \in Orders PROVE ListKnows(o)'
    BY <1>1, <1>7, <2>1 DEF PageInv, ListKnows, Begun
  <2>2. DetailKnows'
    BY <1>1, <1>5, <1>7 DEF DetailKnows, Past, CopiesInv, EventTells
  <2>3. ASSUME NEW o \in Orders PROVE Follows(o)'
    <3>1. CASE o # e.of
      BY <1>1, <1>7, <3>1 DEF Follows, Concerned
    <3>2. CASE o = e.of /\ e.row.v # row[o].v
      BY <1>1, <1>2, <1>7, <3>2, PageToldOld
    <3>3. CASE o = e.of /\ e.row.v = row[o].v
      <4>1. detail' = [of |-> o, row |-> row[o]] /\ detail' # None
        BY <1>5, <1>7, <3>3, RowTyped, DetailIsSome DEF Past
      <4> QED
        BY <1>1, <1>7, <4>1 DEF Follows, PageFits
    <3> QED
      BY <3>1, <3>2, <3>3
  <2> QED
    BY <1>4, <2>1, <2>2, <2>3 DEF PageInv
<1>8. CASE Concerned(e.of) /\ behind' = BehindAfter(rs) /\ view # "detail"
           /\ orders' = [orders EXCEPT ![e.of] = Reconcile(e.row)] /\ UNCHANGED detail
  <2>1. PICK o, x, r : o = e.of /\ x = e.row /\ r = Reconcile(x)
    OBVIOUS
  <2>2. \A p \in Orders : p # o => orders'[p] = orders[p]
    BY <1>8, <2>1 DEF ItemsInv, Known, Typed
  <2>3. o \in Orders => ListKnows(o)' /\ Follows(o)'
    <3> SUFFICES ASSUME o \in Orders PROVE ListKnows(o)' /\ Follows(o)'
      OBVIOUS
    <3>1. orders'[o] = r
      BY <1>8, <2>1 DEF ItemsInv, Known, Typed
    <3>2. x \in Rows(o) /\ Past(o, x) /\ Begun(o, x)
      BY <1>5, <2>1
    <3>3. /\ r.v = x.v /\ r.item = x.item
          /\ view = "dashboard" /\ r.status # "NONE" => r.paid
      <4>1. Gone(x) = [status |-> "NONE", paid |-> x.paid, item |-> x.item, v |-> x.v]
        BY <3>2 DEF Gone, Rows
      <4> QED
        BY <2>1, <4>1 DEF Reconcile
    <3>4. x.v = row[o].v => ListFits(o, orders[o])'
      <4>1. x.v = row[o].v => ListFits(o, r)
        BY <2>1, <3>2, ReconciledFits DEF Past, CopiesInv
      <4> QED
        BY <1>1, <3>1, <4>1 DEF ListFits
    <3>5. ListKnows(o)'
      <4>1. Begun(o, orders[o])'
        BY <1>1, <3>1, <3>2, <3>3 DEF Begun
      <4> QED
        BY <1>1, <3>1, <3>2, <3>3, <3>4, <4>1 DEF ListKnows, Past
    <3>6. CASE x.v # row[o].v
      BY <1>1, <1>2, <1>8, <2>1, <3>5, <3>6, PageToldOld
    <3>7. CASE x.v = row[o].v
      <4>1. PageFits(o)'
        BY <1>1, <1>8, <3>4, <3>7 DEF PageFits
      <4> QED
        BY <3>5, <4>1 DEF Follows
    <3> QED
      BY <3>6, <3>7
  <2> QED
    BY <1>1, <1>3, <1>4, <1>8, <2>1, <2>2, <2>3, PageTakes
<1>9. CASE OnEvent(e) /\ joined /\ Concerns(e)
  BY <1>1, <1>2, <1>7, <1>8, <1>9 DEF OnEvent, Comes
<1>10. CASE OnEvent(e) /\ ~(joined /\ Concerns(e))
  BY <1>6, <1>10 DEF OnEvent, Comes
<1>11. CASE MissEvent(e)
  BY <1>6, <1>11 DEF MissEvent, Comes
<1> QED
  BY <1>9, <1>10, <1>11

-----------------------------------------------------------------------------
(* The server's steps, and the pages that wait for them                    *)

LEMMA PageServer ==
  ASSUME ItemsInv, CopiesInv, PageInv, NEW c \in calls, Server(c)
  PROVE  PageInv'
<1>1. CASE ServeRead(c)
  <2>1. PICK a : /\ Reply(c, a) /\ a.op = c.op /\ a.of = c.of /\ a.mine = c.mine /\ a.got = "ok"
                 /\ a.op = "load" => \A o \in Orders : a.seen[o].v = row[o].v
                 /\ a.op = "detail" /\ a.of \in Orders => a.seen[a.of].v = row[a.of].v
    BY <1>1, ReadAnswers
  <2>2. c.op # "item"
    BY <1>1 DEF ServeRead, Asked
  <2>3. \A o \in Orders : Brings(c, o) => Brings(a, o) /\ a \in calls'
    BY <2>1, <2>2 DEF Brings, Reply
  <2>4. OpFits(a)
    BY <2>1 DEF PageInv, OpFits
  <2>5. calls \ {c} \subseteq calls' /\ calls' \subseteq (calls \ {c}) \cup {a}
    BY <2>1 DEF Reply
  <2> QED
    BY <1>1, <2>3, <2>4, <2>5, PageStill DEF ServeRead, PageInv
<1>2. CASE ServeDecision(c)
  <2>1. PICK a : /\ Reply(c, a) /\ a.op = c.op
                 /\ \/ UNCHANGED <<row, due>>
                    \/ \E r : Changed(c.of, r) /\ Tells(c.of, r)
                    \/ UNCHANGED row /\ due \subseteq due'
    BY <1>2, DecisionChanges
  <2>2. c.op \notin {"load", "detail", "item"}
    BY <1>2 DEF ServeDecision, Writes
  <2>3. (\A o : ~Brings(c, o)) /\ OpFits(a)
    BY <2>1, <2>2 DEF Brings, OpFits
  <2>4. calls \ {c} \subseteq calls' /\ calls' \subseteq (calls \ {c}) \cup {a}
    BY <2>1 DEF Reply
  <2>5. UNCHANGED <<view, selected, orders, detail, behind>>
    BY <1>2 DEF ServeDecision
  <2>6. \A d \in calls' : OpFits(d)
    BY <2>3, <2>4 DEF PageInv
  <2>7. \A d \in calls, o \in Orders : Brings(d, o) => \E b \in calls' : Brings(b, o)
    BY <2>3, <2>4
  <2>8. CASE UNCHANGED row /\ due \subseteq due'
    BY <2>5, <2>6, <2>7, <2>8, PageStill
  <2>9. CASE \E r : Changed(c.of, r) /\ Tells(c.of, r)
    BY <2>5, <2>6, <2>7, <2>9, PageChange
  <2> QED
    BY <2>1, <2>8, <2>9
<1>3. CASE WriteItem(c) \/ CommitItem(c) \/ Lose(c)
  <2>1. PICK a : /\ calls' \subseteq (calls \ {c}) \cup {a} /\ calls \ {c} \subseteq calls'
                 /\ c.mine => a \in calls'
                 /\ a.op = c.op /\ a.of = c.of /\ a.mine = c.mine
                 /\ a.got = "ok" => c.op = "item"
    BY <1>3, SilentSteps
  <2>2. OpFits(a)
    BY <2>1 DEF PageInv, OpFits
  <2>3. \A d \in calls' : OpFits(d)
    BY <2>1, <2>2 DEF PageInv
  <2>4. UNCHANGED <<view, selected, orders, detail>> /\ behind \subseteq behind'
    BY <1>3 DEF WriteItem, CommitItem, ChangeUntold, Lose
  <2>5. \A d \in calls : d # c => d \in calls'
    BY <2>1
  <2>6. CASE WriteItem(c) \/ CommitItem(c)
    <3>1. \A o : ~Brings(c, o)
      BY <2>6 DEF WriteItem, CommitItem, Asked, Brings
    <3>2. CASE UNCHANGED <<row, due>>
      BY <2>3, <2>4, <2>5, <3>1, <3>2, PageStill
    <3>3. CASE \E o, r : Changed(o, r) /\ Tells(o, r)
      BY <2>3, <2>4, <2>5, <3>1, <3>3, PageChange
    <3> QED
      BY <2>6, <3>2, <3>3, CommitChanges DEF WriteItem
  <2>7. CASE Lose(c)
    <3>1. ASSUME NEW o, Brings(c, o) PROVE o \in behind' \/ \E d \in calls' : Brings(d, o)
      <4>1. CASE c.op = "item"
        BY <2>7, <3>1, <4>1 DEF Brings, Lose
      <4>2. CASE c.op # "item"
        BY <2>1, <3>1, <4>2 DEF Brings
      <4> QED
        BY <4>1, <4>2
    <3> QED
      BY <2>3, <2>4, <2>5, <2>7, <3>1, PageStill DEF Lose
  <2> QED
    BY <1>3, <2>6, <2>7
<1> QED
  BY <1>1, <1>2, <1>3 DEF Server

LEMMA PageNext ==
  ASSUME ItemsInv, CopiesInv, PageInv, [Next]_vars
  PROVE  PageInv'
<1>1. CASE UNCHANGED vars
  BY <1>1, PageStill DEF PageInv
<1>2. ASSUME NEW o \in Orders, OrderMoves(o) PROVE PageInv'
  BY <1>2, OrderMovesChanges, PageChange DEF OrderMoves, PageInv
<1>3. ASSUME NEW i \in Items, ItemMoves(i) PROVE PageInv'
  BY <1>3, ItemMovesChanges, PageChange DEF ItemMoves, ChangeUntold, PageInv
<1>4. CASE Next
  BY <1>2, <1>3, <1>4, PageShell, PageAnswer, PageServer, PageEvent, PageOperator DEF Next
<1> QED
  BY <1>1, <1>4

LEMMA PageInit == Init => CopiesInv /\ PageInv
<1> SUFFICES ASSUME Init PROVE CopiesInv /\ PageInv
  OBVIOUS
<1>1. ItemsInv
  BY ItemsInit
<1>2. PICK s \in [Orders -> OrderStatus] :
        /\ \A o \in Orders : s[o] \in Start[o]
        /\ row = [o \in Orders |->
                    Fresh(o, s[o], IF s[o] = "PREPARING" THEN "PREPARING" ELSE "PENDING")]
  BY DEF Init
<1>3. PICK op \in {"load", "detail"} :
        /\ calls = {Call(op, selected, 0), Call("refresh", None, 0)}
        /\ op = "load" => view \in {"dashboard", "kitchen"}
        /\ op = "detail" => view = "detail"
  BY DEF Init
<1>4. PICK d, f : /\ Made(d, op, selected) /\ Made(f, "refresh", None) /\ calls = {d, f}
  BY <1>3, CallsMade
<1>5. ASSUME NEW o \in Orders
      PROVE  RowFacts(o) /\ row[o].v = 0
  <2>1. PICK it \in {"PREPARING", "PENDING"} :
          row[o] = Fresh(o, s[o], it) /\ (it = "PREPARING" => s[o] = "PREPARING")
    BY <1>2
  <2>2. /\ row[o].status = s[o] /\ row[o].paid = (s[o] # "NONE") /\ row[o].v = 0
        /\ \A i \in ItemsOf(o) : row[o].item[i] = it
    BY <2>1 DEF Fresh
  <2>3. row[o].status \in Early => \A i \in ItemsOf(o) : row[o].item[i] = "PENDING"
    BY <2>1, <2>2 DEF Early
  <2>4. row[o].status \notin {"NONE", "PENDING", "CANCELLED"} => row[o].paid
    BY <2>2
  <2> QED
    BY <2>2, <2>3, <2>4 DEF RowFacts
<1>6. due = {} /\ orders = Blank /\ detail = None
  BY DEF Init
<1>7. CopiesInv
  BY <1>4, <1>5, <1>6, SilentAnswers DEF CopiesInv, Made, Silent
<1>8. ASSUME NEW o \in Orders PROVE ListKnows(o)
  BY <1>5, <1>6, BlankShown DEF ListKnows, Begun, ItemsOf
<1>9. ASSUME NEW o \in Orders PROVE Follows(o)
  <2>1. Concerned(o) => Brings(d, o)
    BY <1>3, <1>4 DEF Concerned, Brings, Made
  <2> QED
    BY <1>4, <2>1 DEF Follows
<1>10. OpFits(d) /\ OpFits(f)
  BY <1>3, <1>4 DEF OpFits, Made
<1> QED
  BY <1>4, <1>6, <1>7, <1>8, <1>9, <1>10 DEF PageInv, DetailKnows

LEMMA PageImplies == PageInv => PageCatchesUp
<1> SUFFICES ASSUME PageInv, NEW o \in Orders, Settled(o), Concerned(o)
             PROVE  PageFits(o)
  BY DEF PageCatchesUp, PageFits, ListFits, Listed, Concerned
<1>1. ~Announced(o)
  BY DEF Settled, Announced
<1>2. \A c \in calls : ~Brings(c, o)
  BY DEF Settled, Brings
<1> QED
  BY <1>1, <1>2 DEF PageInv, Follows, Settled

\* When nothing is on its way, a page of the restaurant shows an order as the server has
\* it, for any orders and items and any number of requests, visits, moves and losses:
\* whatever crossed, the page is behind, or the last thing it used was the last change.
THEOREM PageEndsRight == Spec => []PageCatchesUp
<1>1. Init => ItemsInv /\ CopiesInv /\ PageInv
  BY ItemsInit, PageInit
<1>2. ItemsInv /\ CopiesInv /\ PageInv /\ [Next]_vars => (ItemsInv /\ CopiesInv /\ PageInv)'
  BY ItemsStep, CopiesNext, PageNext
<1>3. PageInv => PageCatchesUp
  BY PageImplies
<1> QED
  BY <1>1, <1>2, <1>3, PTL DEF Spec

=============================================================================
