# A TLA+ model of FastBite

FastBite is a food-delivery platform: a Laravel backend (`src/Backend`) over
PostgreSQL, a database queue with one worker, a GatewayWorker socket server, a
React web client for restaurants and a React Native client for customers and
couriers (`src/Frontend`). This directory models the parts whose correctness
depends on the order in which processes, requests, events and connections act,
checks them with TLC on small instances, and proves the most important properties
with TLAPS for every value of the constants.

To run it, in this directory:

    tlc -workers 2 -config Fulfilment.cfg MCFulfilment.tla
    tlapm FulfilmentProofs.tla

Each `X.cfg` goes with `MCX.tla`; the two `Claim*.cfg` and `FulfilmentLive.cfg`
go with the MC module that `PROJECT.json` names. That file lists every run, the
code lines behind every definition (`map`), a mutant of the code for every
property, and the hazards the properties are for.

## 1. Inventory

### Processes

| process | what it runs |
|---|---|
| web requests | GraphQL mutations; several at a time; each `#[Transactional]` service method is one PostgreSQL transaction, READ COMMITTED |
| gateway (business worker) | socket messages of clients and couriers; calls the same services |
| queue worker | one `queue:work --tries=3 --timeout=90` process (`compose.yaml`); one job at a time, at-least-once |
| console | `outbox:process`, by hand: nothing schedules it |
| a telephone | one thread of callbacks: presses, answers, timers, socket events; state read when a request was made is used when it is answered |
| a browser tab of a restaurant | the same, with the session in local storage |

The server's processes share the database only. A service method runs in a
transaction when it carries `#[Transactional]` (`TransactionInterceptor`);
repositories lock rows `FOR UPDATE` in some reads and not in others. Jobs are
dispatched `->afterCommit()`, that is, in a second commit. The clients call
GraphQL and hear of changes by socket; a message may be missed, come again, or
overtake an answer.

### Components

| component | state | operations | what makes it correct |
|---|---|---|---|
| State machines (`app/Domain/StateMachines`) | none | `transition`, `canTransitionTo` | the graphs themselves |
| Order lifecycle (`OrderService`) | orders, items, events | checkout, confirm, cancel, the restaurant's accept, reject, start, ready, item status | cancelled exactly when the money is released; nothing moves before payment |
| Kitchen items | `order_items.status` | `updateOrderItemStatus` | items and order stay together |
| Payments (`PaymentService`) | payments | create, confirm, fail, cancel, refund, expire | never pending for ever, never both released and owed |
| Delivery and assignment (`DeliveryService`) | deliveries, offers | assign, offer, accept, reject, expire, pick up, in transit, delivered, failed | one courier per delivery; order and delivery agree; giving up cancels and refunds |
| Couriers (`CourierService`) | couriers | available, busy, offline, disconnection | status changes and offers do not disagree about who delivers |
| Outbox (`OutboxService`) | `outbox_events` | enqueue, publish, retry, sweep | published at least once, to every listener, again only after a fault |
| Gateway and socket client (`Gateway`, `echoClient.js`) | sessions, groups; socket, queue, channels, acknowledgements | hello, subscribe, unsubscribe, send, push, drop, reconnect, switch of account | what the client believes subscribed is joined; a message is stored under its author |
| Courier app | offers, active delivery, phase, availability | accept, reject, advance, fail, go on- and offline | shows this courier's delivery and is not ahead of it |
| Cart and checkout (`CartService`, `checkoutOrder`, the customer's screens) | cart, preview, payment | add, change, remove, clear, switch restaurant, preview, check out | no row sold twice; the lines shown are those paid |
| Orders and tracking (customer) | active order, tracking, history | load, follow, pay, cancel, hear | ends with what the orders have become |
| Chat | chats, messages, windows | create, open, load, send, acknowledge, push, close | once, in the order of its times, nothing lost silently |
| Addresses, inbox, reviews (customer) | their tables and the application's copies | create, default, delete; load, push, mark; submit, replace, delete | the copies agree with the tables |
| Restaurant web: orders | session, page, list, detail | navigate, accept, reject, start, ready, items, log out | ends with the server's orders and items |
| Pricing, coupons, promotions, menu, restaurants, users, routing, GraphQL, other screens | rows or none | create, read, update, delete; compute; forward; draw | no protocol of their own |

### What is hard here

- **Checks on rows that are not locked.** `acceptDeliveryOffer` reads the
  courier, `rejectDeliveryOffer` and `expireOfferByJob` the offer,
  `updateCourierStatus` the active delivery, `assignCourierToDelivery`
  everything, `updateOrderItemStatus` the order, without a lock, and write later.
- **Locks taken in different orders.** Cancelling locks the order, then the
  payment; confirming and expiring the payment, then the order.
- **Deadlines.** A payment expires after ten minutes, an offer after its
  `expires_at`; both by delayed jobs that race with the user.
- **Second commits.** Jobs, and all that follows an order's status change
  (`DB::afterCommit` in `Order::transitionTo`), come after the commit; a process
  may die in between.
- **At-least-once.** A job may run again after a worker died, an outbox row may
  have two jobs, a chat message comes in several copies, and every event of the
  outbox is let out twice by the listener that is registered and discovered.
- **Module variables shared by sockets.** `echoClient.js` has one current socket,
  and the handlers of every socket it ever made write its state.
- **One flag for several requests.** The applications' `loading` is cleared by
  whichever request ends first; several buttons do not look at it.
- **Times that tie or disagree.** The server's times are whole seconds, the ones a
  client gives its own messages are milliseconds of its own clock.
- **Answers that come late.** A request's answer is applied to the state found
  then, over events that were newer.

The full list, with lines, is `hazards` in `PROJECT.json`.

## 2. Modules

| module | models | run by | proved in |
|---|---|---|---|
| `StateMachines` | the enums and the three transition graphs | with the next two | |
| `OrderPromise` | the abstract specification: what a customer may see of an order and its money | `fulfilment` | `FulfilmentProofs` |
| `Fulfilment` | orders, payments, deliveries, offers, couriers, requests in flight, the queue and its worker | `fulfilment`, `fulfilment_live` | `FulfilmentProofs` |
| `Outbox` | from a committed change to the listeners of `OutboxEventPublished` | `outbox`, `claim_audit` | `OutboxProofs` |
| `EchoClient` | the socket client and the gateway, with the network between | `echo` | `EchoClientProofs` |
| `CourierApp` | the courier's screen against the server's deliveries | `courier` | `CourierAppProofs` |
| `CustomerCart` | the cart, the preview and the checkout, screen and server | `cart` | `CustomerCartProofs` |
| `CustomerOrders` | the active order, tracking, payment and history against the server's orders and topics | `orders` | `CustomerOrdersProofs` |
| `Chat` | the two windows of a chat, the server and the three ways of a message | `chat` | `AccountAndChatProofs` |
| `CustomerAccount` | addresses, inbox and reviews, application and server | `account` | `AccountAndChatProofs` |
| `Lists` | what the two filter their lists with | with these | |
| `RestaurantBoard` | the restaurant's pages, the server's orders and their items, the events | `board`, `claim_logout` | `RestaurantBoardProofs` |

`Fulfilment` and `Outbox` are the server in detail; `RestaurantBoard` has the
transaction of an item in two steps. The client modules have the server as its
commits seen from that client: a row changes to what the state machines allow, at
any time, and events about it come later. `Outbox` says why an event may come
again or late, `EchoClient` why it may be missed: the client modules allow both.

### Fulfilment

State. `order`, `payment`, `delivery`, `assigned` (the delivery's
`courier_id`), `offer` (by delivery and courier) and `courier` are columns of
the tables. An order has one payment and at most one delivery, so all are
indexed by the order. An offer whose `expires_at` has passed while its status is
PENDING is `"OVERDUE"`. `request` is the transaction each web or gateway process
has in flight, with what it has read; `running` is the worker's job; `queue` is
the jobs table. The queue is a set: two equal waiting jobs are one, which is
sound here since a second run of any of these jobs sees what the first one wrote.

Steps. A method that decides only on rows it holds `FOR UPDATE` is one action,
at its commit. A method that decides on an unlocked read is two: `Begin...` (or
`...Reads`) takes the reads and puts the transaction in flight, the other
commits it, and everything else may happen in between.

| code | actions |
|---|---|
| `acceptDeliveryOffer` | `BeginAcceptDeliveryOffer`, `AcceptDeliveryOffer`; the offer row is locked from the first read (`OfferLocked`) |
| `rejectDeliveryOffer` | `BeginRejectDeliveryOffer`, `RejectDeliveryOffer` |
| `markDeliveryDelivered` | `BeginMarkDeliveryDelivered`, `MarkDeliveryDelivered`, the courier's return to AVAILABLE included |
| `updateCourierStatus` | `BeginGoOffline`/`GoOffline`, `BeginGoAvailable`/`GoAvailable`, `GoBusy` |
| `assignCourierToDelivery` (no transaction) | `AssignReturns`, `AssignReadsNoAttemptLeft`, `AssignReadsCandidate`, `AssignFindsNobody`, then `CreateDeliveryOffer` or `MarkDeliveryFailedBySystem` |
| `expireOfferByJob` | `ExpireOfferReads`/`ExpireOffer`, `ExpireOfferReturns` |
| `ExpirePendingPaymentJob` | `ExpirePayment`, `ExpirePaymentReturns` |
| checkout, confirmation, cancellation, the restaurant's handlers | one action each, named after the method |

`Push` is `dispatch()->afterCommit()`: the jobs join the queue, or the process
dies after the commit and any of them are lost; when the process is the worker,
its own job comes back. `WorkerCrash` is a worker that dies before its commit,
`Rollback` a request that ends without one (a crash, an exception, a deadlock
victim). Deadlock victims of the two lock orders are steps that change nothing.

Left out: the items of an order, prices, addresses, opening hours and distances.
Any available courier may be the nearest one, or none is in range. The payment's
deadline is not a step: nothing but the delayed job reads it, so the job may run
at any time while the payment is pending.

Oddities of the code the model keeps: `confirmPayment` does not read the order's
status; a customer's cancellation leaves the delivery, its offers and its courier
as they are; `markDeliveryFailed` leaves the order and the courier;
`acceptDeliveryOffer` looks at neither the order's nor the delivery's status, so a
courier can take a delivery that has failed; a late acceptance writes EXPIRED and
then throws, so that write is rolled back; `updateOrderItemStatus` does not check
the courier. A courier may be made OFFLINE between the check and the commit of an
acceptance, and an accepted offer may be overwritten by a rejection or an expiry
that read it before: `AcceptedIsAssigned` and `OneLiveOffer` hold in spite of both.

### Outbox

A change reaches `outbox_events` in two ways. `recordEvent` (`Record`) stores
the order event and the outbox row in the transaction of the change.
`Order::transitionTo` (`Change`) commits the status, and its handler then stores
the order event (`AddEvent`) and the row (`Enqueue`) in two commits of their own.
Both then dispatch the publishing job (`Dispatch`). `writer` says how far the
process is and whether it died. A job, found by its id in the jobs table, carries
the attempts that Laravel counts when it is reserved (`ReserveJob`). `running`
follows `publishById` from its read to each listener and to the mark; a listener
may throw at each (`PublishFails`) and the worker may die at each (`WorkerCrash`).
There are three calls of listeners, not two: `AppServiceProvider::boot` registers
`DispatchLaravelEventFromOutbox` and the creation of notifications by hand, and
Laravel discovers the former again from `app/Listeners`, where it has a typed
`handle`, as nothing in `bootstrap/app.php` turns discovery off. So a publication
without any fault lets the event out twice and creates its notifications once (that
listener is under `app/Outbox`, where nothing is discovered). To let it out is one
socket message; for a milestone it is two coupons each time, as
`HandleUserOrderMilestone` is registered and discovered as well.
`outbox:process` selects PENDING rows (`SweepReads`) and dispatches for them later
(`SweepDispatches`). `sent` counts the runs of `DispatchLaravelEventFromOutbox`, by
either call, `notified` those of the notifications' listener, and `faults` the
failures and crashes of an event's publication: history variables.

### EchoClient

State. `socket` is `gatewaySocket`, `conn` the readyState of every socket ever
made, `timer` the reconnection, `queue` the pending messages, `wanted` and
`subscribed` the channel states, `outcome` what the sender of a chat message was
told, `author` who wrote it (history). `up` and `down` are the messages on the
wires, in order per socket; `bound`, `member` and `saved` the gateway's sessions,
groups and stored messages.

Steps. What the screens call: `Private`, `Leave`, `SendChatMessage`,
`Disconnect` (logout) and `SwitchUser` (`ensureConnection` for another account,
where the old socket's close comes after the new one was made). The callbacks:
`OnOpen`, `OnMessage`, `Drop` and `CloseEnds` (both `onclose`), `Reconnect`,
`AckTimeout`. The gateway: `GatewayHandles` per message, `GatewayForgets`. A
handler acts on the current socket's variables whichever socket called it, as in
the code: an old socket's close sets the current one to null.

### The screens

Each request is an element of `calls`: sent, then served by the server's action
(`Serve...`), its answer kept until the screen's handler takes it (one action per
handler), or lost (`Lose`, counted by `lapses`). What the handler closed over at
the press is a field of the call; everything else it reads when it is answered.
Events are in `due` with the snapshot they carry. A button's guard is what
disables it in the code, and nothing else.

- `CourierApp`: `available`, `dismissed`, `activeDelivery`, `phase`,
  `courierStatus`, `loading`, `rejecting`, `offersAsked` are the screen's states;
  `offer`, `delivery`, `cancelled`, `srvStatus` the server's as this courier sees
  them. Actions per handler: accepting, rejecting, the steps of a delivery and its
  failure, the status buttons, the offers' load, countdown and push, the
  cancellation's event, a restart, a job link, the network. A window that asks why a
  delivery failed covers the other buttons while it is open.
- `CustomerCart`: `cart` is what the last answer brought, `srvCart` and `orders`
  the server's; `preview` with its debounce and its cancellation. A price is of the
  whole cart, its restaurant and products included, and of the coupon; the preview's
  effect depends on less (`Watched`: the number of rows, their subtotal, the coupon), so
  a cart that took the place of another and looked the same to it keeps the other's
  lines: `exchanged` remembers that. The change of
  restaurant asks first; options, quantity, coupon, a repeated order, the order
  and its payment. The server's checkout takes no lock on the cart.
- `CustomerOrders`: tracking is replaced by every load and patched by a position;
  the history by pages and by events, which come twice; a cancellation of an order that
  is cancelled already is answered with it; a link from a notification makes an order
  active.
- `Chat`: a message is in the acknowledgement, in the handler's copy and in the
  outbox's, which come twice or more; a window merges by id, sorts by time and keeps
  the newest `Limit`; the sides are the telephone's modal and the restaurant's page.
  The server's times are its seconds, in which messages tie (`Now`); an
  acknowledgement bears the client's clock, so any time; and what is loaded comes in
  no order and is sorted by its time, so what ties comes anyhow (`InTime`).
  `Filtered` says what is left of a list by the rank of the places that stay: the
  filters of the code, without recursion.
- `CustomerAccount`: three parts that share the session and nothing else, so each
  is a group of actions over its own variables. Notifications are stored in seconds, and
  a load gives those of one second in any order (`NewestIds`); each is pushed at least
  twice. An update of a review that the server no longer has is an error.
- `RestaurantBoard`: one page is mounted at a time (`Mount`); requests outlive it
  (`Kept`). The item's request reads the order (`WriteItem`) and commits
  (`CommitItem`) separately. Every event may come again (`Comes`): its listener is
  doubled, and an item's request that begins and ends the preparation publishes two,
  whose handlers both run after the commit and read the row again
  (`OrderStatusChangedHandler.php:16`), so they carry the same snapshot. The
  session's refresh is a call like another.

## 3. Runs

Bounds are in the `.cfg` files and are named constants of the modules; every
property has a mutant in `PROJECT.json`, a plausible bug of the code under which
TLC finds it violated.

| run | instance | what it shows |
|---|---|---|
| `fulfilment` | one order, two couriers, two attempts, two request processes; or one crash or redelivery, with one request and one attempt | money, order, delivery, offers and assignment agree, and the customer's view (`KeepsPromise`) is kept, through races and crashes |
| `fulfilment_live` | two attempts, one request process, fairness, no crash | no payment and no offer stays open; an assignment out of attempts ends |
| `outbox` | one status change, one recorded event, two job ids, two tries, two retries, two faults | published rows reached every listener, the doubled one twice; anything beyond that, and anything left behind, has a fault to explain it; everything else is published in the end |
| `echo` | two accounts, one channel, one message, three sockets, one switch, one fault | delivered means stored, under its author; once quiet, screens, flags and groups agree; what is wanted is subscribed in the end |
| `courier` | two deliveries, two requests at once (and one more being made), one change of status, one lapse | the delivery shown is this courier's, none that goes on is forgotten, the phase is not ahead |
| `cart` | two restaurants, two options, one coupon, two rows, three presses, one lapse | the cart shown is the server's, no row is sold twice, the payment's lines are of the order placed or of a cart the effect cannot tell from it, the preview ends |
| `orders` | two orders, one from before, two presses, one lapse | tracking, the active order and the history end with what the orders have become |
| `chat` | two texts, three messages in two seconds, windows of two, two openings, one fault | each message once; the newest, those of others in the order of their seconds; twice stored only after a failure |
| `account` | three addresses, three notifications and an inbox of two, two targets, five presses, one lapse (three of both when they are the inbox's) | addresses, inbox and ratings agree with the server's |
| `board` | two orders, one with two items, two requests of the operator, one visit, move or lapse | pages end with the server's orders and items; items and order stay together |
| `claim_*` | smallest instances | see section 6 |

Why the bounds are enough. One order is enough in `fulfilment`: orders meet only in
the couriers they share, and a second order's effect on a courier (made BUSY,
AVAILABLE or OFFLINE at any time) is what `GoBusy`, `GoAvailable` and `GoOffline`
do; the proofs hold for any number. Two couriers and two requests are what a double
assignment needs. The code allows three attempts (`MAX_ASSIGNMENT_ATTEMPTS`); two
reach the limit with attempts refused, lapsed or still open. Two faults of two tries
let an event fail for good, and two jobs with one fault each reach FAILED with an
attempt left; the model's 2 and 2 stand for the code's 3 tries and 10 retries. Three
sockets are an old one, a current one and its successor. In the screens' modules a
race is between two requests, or a request and an event, so two at once are allowed;
one message more than a window keeps overflows it; two seconds let messages tie and
follow each other, whichever clock is ahead; three notifications, each in the second
of the last one or in the next, overflow the inbox; two rows and two quantities tell
a row from a number.

Constraints of the instances. `OneTrouble` (fulfilment) keeps two requests in
flight and a crash in different behaviours; the proofs have no such bound.
`Narrow` (chat, orders, board) allows two requests
at once (and two events in `board`). In orders it ends a behaviour that has `crossed`,
and in chat one whose restaurant's page has, since the properties that are conditional
claim nothing there; `board` has one visit, move or lapse beside the operator's two
requests. `OnePart` lets one of the three
parts of the account act, which is sound as they share no state. Symmetry is used
for orders, couriers, requests, deliveries and texts, in runs without liveness.

What the screens' properties do not claim. The code has no version on its answers,
so an answer overtaken by an event, or two requests that overlap where no flag
prevents it, may leave an older state on the screen until the next load.
The conditions are recorded in history variables and named in the properties:
`overlapped` (courier: the status was changed during another request; cart: two
requests at once; board: two item requests of one order), `crossed` (orders:
an answer was used that later news had overtaken; chat: an answer lacked a message
that was not to come any more, or was taken for another chat's, or a message was stored
while the window was not subscribed; a later answer that lacks nothing ends it),
`behind` (board: the page missed the last change or let an older one hide it),
`exchanged` (cart: the effect could not tell the cart from the one previewed),
`doubt` (account: requests of that part overlapped or an answer was lost; in the inbox,
also a push that came after its own mark or a later second's notification),
`lapses`. The properties say that nothing else makes screen and server disagree.
Some of these conditions are hazards themselves, where the code does go wrong: two
checkouts at once do sell a row twice, a text that failed and was stored is stored
again, item requests that cross leave the order in preparation. `SoldOnce`, `SentOnce`
and `ReadyTogether` say that nothing else does, and no more. Nor does
`OpenWindowSeesAll` say anything of the order of messages of one second, or of the place
of one's own message until the server's copy comes.
`ActiveIsMine`, `ShownOnce`, `ItemsFollowOrder` and the first part of
`InboxAgrees` are claimed without any condition.

The `fulfilment` runs check for deadlock too; in the others the system rests when
everything is written, answered and delivered, so they do not.

### Fairness

- `Fulfilment!FairSpec`: the worker is a supervised process, so the steps of each
  kind of job are weakly fair; a transaction in flight ends, by committing or
  rolling back; an offer's deadline passes. Customers, restaurants and couriers
  owe nothing, and no process dies (`MaxCrashes = 0`): a crash between a commit
  and its dispatch does lose the job, and with it the promise.
- `Outbox!FairSpec`: a living writer ends, a waiting job is reserved (the database
  queue is served in order), the worker's steps are taken. Nobody runs
  `outbox:process`, and nothing has to fail; crashes are possible, and
  `EventuallyPublished` names the ones that excuse.
- `EchoClient!FairSpec`: the reconnection's timer fires, a connection being made
  opens or fails, messages on the wires arrive and are handled. Nobody has to
  subscribe or to stay, and no connection has to drop.
- `CustomerCart!FairSpec`: the preview's timer fires and its request is answered,
  well or badly (the client has a timeout). Nothing is assumed of the customer.

## 4. Proofs

`FulfilmentProofs`, from `FulfilmentAssumption` (at least one attempt, natural
bounds, `None` is no id):

- `TypeCorrect`: `TypeOK`, one case per action.
- `CancelledIffMoneyReleased`, `NoKitchenWithoutCourier`: by the inductive
  invariant `MoneyInv`. `MoneyFollowsOrder` is not inductive: an unpaid order
  could be delivered and never refunded, so one has to know that a pending
  payment's order is PENDING and has no delivery, and that whatever moves an order
  forward (an assignment, an offer, a queued assignment job) has a delivery, hence
  a payment (`RowsFollow`); and the same of what transactions in flight have read
  and may still write (`RequestHasDelivery`, `RunningHasDelivery`).
- `NothingBeforePayment`: follows from the same invariant.
- `FulfilmentKeepsPromise`: `Spec => KeepsPromise`. Each step maps to a step of
  `OrderPromise` or a stutter; only steps that write an order or a payment need
  the invariant.

- `OrderAndDeliveryAgree` and `GivenUpMeansCancelled`: by `StatusInv`, which says
  of each order (`RowsAgree`) what both properties say and what each needs of the
  other: the job that gives a delivery up finds no delivered order to spare.
- `OneCourierAccepts` and `OneOfferAtATime`: by `OfferInv`. To the two properties
  it adds `OfferingAlone`: while the worker is about to create an offer, no offer
  of that delivery is pending, which is where the single worker is used: only the
  job makes offers, and what others may do to one since its reads is to end it.

`OutboxProofs`, from `OutboxAssumption`: `TypeCorrect`, `PublishedWasSent`,
`ExtraNeedsFault`, `StrandedNeedsFault` and `PublishedStays`, by `OutboxInv`. Its
parts: a row is written only after its change (`RowsFollowChanges`); each job is
for a stored row and has ended no more attempts than the event has faults
(`JobsAccounted`); a row being published is PROCESSING, which is where the single
worker is used (`RowIsProcessing`); and each counter is at least the calls that the
publication is past, and at most one run of each call more for every fault
(`EffectsAccounted`).

`EchoClientProofs`, from `EchoAssumption` (finitely many channels, natural
bounds, `NoUser` is no account); its lemmas on sequences (`Joined`, `Popped`,
`Wider`, `Listed`) treat a wire as a sequence over the set of messages that may be
said on it, so that an invariant about all messages under way is one membership:

- `TypeCorrect`, with the introduction's list of subscriptions (`Listed`,
  `Subscriptions`).
- `DeliveredWasSaved`: by `AckInv`, which adds that every acknowledgement under
  way is of a stored message; what is stored is never forgotten (`SavedGrows`).
- `QuietIsJoined`: by `JoinInv`. `After(q, A)` is what the messages of a wire `q` will
  leave joined of what is joined now, and the invariant says that the queue ends in
  what the screens want (`QueueInv`), that what is under way to the current socket ends
  in the wanted channels and the three every account has (`GroupsInv`), that what is
  under way in either direction ends in the wanted flags (`FlagsInv`), and that a socket
  that never opened has nothing under way (`WiresInv`). When nothing is under way,
  `After` is what is there. An account's own three channels are joined by the
  introduction, and only leaving one makes the gateway and the screens differ in it.
- `StoredUnderItsAuthor`: by `AuthorInv`. Its parts: each socket speaks for one
  account from its first message to its last, and is bound to that account or to
  none (`OneVoice`); a socket that was never used has said nothing; the queue
  holds what the current account said; without an account there is no socket, no
  queue and nothing wanted. The queue cleared at a switch, and a new socket for a
  new account, are what the proof needs of the code.

`RestaurantBoardProofs`, from `RestaurantBoardAssumption`: `ItemsKeepUp`, that
nothing is in work of an order that is not being prepared yet, by `ItemsInv`. The
request of an item decides on a copy of the order, and the page that sends it shows
an older copy, so the invariant says of each copy, on a page, in an answer or in an
event, that an order which was past acceptance in it still is (`Known`); that an
item's request is about such an order, that what its transaction has read carries
its own write, and that an order read in work or later still is
(`ItemRequest`). The update that undoes itself when the order is no longer as it was
read, and the code that begins an order's preparation with its first item, are what
the proof needs of the code. `AllReadyGoesOn`, that an order does not stay in
preparation with every item ready, by `ReadyInv` on top of it: while no two updates of
an order's items overlap, those under way are about one item, and their copies differ
from the row by their own write only (`OneWrites`). `PageEndsRight`, that a page to
which nothing is on its way shows an order as the server has it, by two more.
`CopiesInv`: every copy of a row, in an answer or an event, is of the past, or as the row
is, or as a list of the row (`Past`, `Before`), and an item begun in a copy is begun in
the row, so the status that the dashboard gives an accepted order by itself completes
its older copy to the row. `PageInv`: for each order of which the page is not behind,
the page shows the row, or an event has its last change (`Announced`), or the page has a
request under way whose answer is not older than it (`Brings`): what an answer or an event
may overwrite is then either older, or comes again. The assumption that no record of an
order is `None` is for the detail, which is `None` until it is loaded.

The screens' proofs have one shape. What is claimed only while nothing overlapped and
nothing was lost is proved by an invariant under the same condition, and this needs
that the condition, once gone, does not come back, and what the server and the screen
have in common at each stage of each request under way (`Tied`, `Fits`, `Truthful`).

- `CourierAppProofs`, for any deliveries, presses and lapses: `TypeCorrect`;
  `ShownIsGiven`, whatever lapsed, since an acceptance answered well is of a delivery
  that stays this courier's (`GivenInv`); `NothingElseForgets` and
  `PhaseFollowsTheServer`, by `ScreenInv`: the refusal of an offer apart there is one
  request at a time, because `loading` and the window that asks for the reason cover
  every other button, and each kind of request ties the delivery shown to the server's.
- `CustomerCartProofs`, for any restaurants, options, coupons and bounds: `TypeCorrect`;
  `ShownIsServed`, `NothingSoldTwice` and `LinesAreTheOrders`, by `CartInv`: a row's
  number is never given again (`RowsInv`); while calm there is at most one request
  (`Tied`), what a checkout has read is still the cart, and the preview, if none is
  under way or due, was computed from the cart that is shown, or from one that the
  effect cannot tell from it, and then `exchanged` says so (`PreviewInv`).
- `CustomerOrdersProofs`, for any orders and bounds: `TypeCorrect`; `TrackingEndsRight`,
  `ActiveEndsRight` and `HistoryEndsRight`, by `OrdersInv`. What a screen or an answer
  shows, the order has been (`SeenIsPast`), and what is followed has been placed
  (`AllExist`); the startup's request is the only one of its kind and runs before
  anything else can be pressed (`BootInv`); no end has been told that the screens have
  not taken over (`EndsHeard`); and if the tracking, or an answer that may replace it,
  is of the past, then news of the order or a newer answer is under way
  (`TrackingHeard`).
- `AccountAndChatProofs`, of the account, for any targets, ratings and bounds:
  `AddressesEndAgreed`, by `AddressInv`; `RatingsToldAreKept`, by `ReviewInv`: a
  review's number belongs to one target wherever it is kept, on the server, in a
  list, in the open window or in a request (`Named`, `Numbered`), so an answer about
  a number is about what the user rated. It holds with any number of lost answers.
  `InboxEndsAgreed`, for any `InboxMax` and number of notifications, by `InboxInv`:
  the inbox is in the order of the server's seconds, and misses only what is on its
  way or what `InboxMax` as new ones push out (`Ordered`); the one answer under way
  is a list of which the same is true, or has the marks the inbox lacks
  (`InboxTied`, `Flagged`). That the inbox is then one of the lists that the server
  may answer is `NewestLast`. The dedupe of an arriving notification is `Filtered`,
  which keeps what is at given places by their rank: `FilteredIs` is proved, by the
  least place of each rank, where a recursive `SelectSeq` could not be reasoned
  about.
- `AccountAndChatProofs`, of the chat, for any texts, size of a window and bounds, from
  the same lemmas about lists: `MessagesShownOnce`, whatever fails and whatever
  overtakes, by `ChatSound`: what is stored, what an answer has seen and what comes to a
  side are of the chat they are said to be of, an answer has nothing twice, and a merge
  takes out the copy it replaces. `TextsSentOnce`, by `TextsInv`: while nothing failed,
  each text typed is in one place, a draft, a message under way or the store
  (`OnePlace`). `WindowsEndRight`, by two invariants. `WindowsTimely`: whatever the
  clocks say, a window is sorted by the times that its messages bear, and these are the
  server's but for messages of its own. `WindowsInv`: every message of the chat that a
  window not left behind shows is in it, or still coming to it (`Coming`: as a copy or as
  the answer to its writer), or has no room there, being no newer than what is there
  (`NoRoom`); of a side that has written, only that its window is full (`Placed`).

Only model-checked: liveness (`PendingPaymentSettles`, `OpenOfferSettles`,
`ExhaustedIsGivenUp`, `EventuallyPublished`, `EventuallySubscribed`,
`PreviewSettles`), as the prover has no ENABLED. Every safety property that a
passing run checks is proved.

## 5. What could come next

The milestone counts of concurrent deliveries, the restaurant's average under
concurrent reviews, and prices over cents against a reference.

## 6. Where the code and its claims part

| run | claim | what happens |
|---|---|---|
| `claim_audit` | every transition has its audit event, and the outbox row is stored in the same transactional flow (report, 3.5 and 4.2.3) | the handlers run after the commit; a process that dies in between leaves a changed order without both |
| `claim_logout` | after logging out one has to log in again (the logout dialog of the restaurant's web) | the refresh of the stored session, under way at the logout, is answered after it and logs the page in |

Two more divergences are written into the models, so that the properties hold with
them. The event of every publication is let out twice without a fault, by the doubled
listener (`Outbox!Dispatches`; `ExtraOnlyAfterFault` counts from two). And the preview
that the report says is computed before the order is confirmed may be another cart's:
an order of another restaurant, repeated over a cart of as many rows and the same
subtotal, does not run the effect (`CustomerAppScreen.js:352`), and the payment shows
the former's fee and discounts (`exchanged`; `PaymentLinesAddUp` has it as the only
way, and claims of such lines what the effect can tell).

## 7. Not modelled, and why

Pricing, coupons and promotions: pure floating-point arithmetic over rows, and
create, read, update and delete; in the cart a coupon is one that counts or does
not. Menu, restaurants, chains, campaigns, catalogue and profile screens: forms
that send a row and load a list again, with no protocol between them. Users and
login: one request. Routing and geometry: floating-point computations and an HTTP
client with a fallback. The GraphQL layer forwards; the client modules have its
calls as requests. Push tokens and background positions are handed to the
operating system and to Expo. Styles and shared components draw what they are
given. The fan-out of a push between gateway processes is Workerman's, and the
ping that keeps a socket alive is its own. Logging, seeders, configuration and
vendored files carry no behaviour.
