---------------------------- MODULE CustomerCart ----------------------------
(***************************************************************************)
(* The customer's cart between the screens and the server: menus, products *)
(* with options, quantities, the change of restaurant, the preview of the  *)
(* checkout and the checkout.  The screen's cart is what the last answer   *)
(* brought; few buttons wait for an answer, so requests overlap.  Moving   *)
(* between screens changes nothing here and is left out: what can be       *)
(* pressed is limited by the modals only.                                  *)
(***************************************************************************)
EXTENDS Naturals, FiniteSets, FiniteSetsExt

CONSTANTS
  Restaurants, Options, Coupons, None, Asked,
  Kept,         \* the restaurant of the row kept from before, if there is one
  MaxChosen,    \* max_options of the one group of options; min_options is 1
  MaxItems,     \* bound on the rows ever put in the cart
  MaxQuantity,  \* bound on a quantity
  MaxPresses,   \* bound on the buttons pressed
  MaxCalls,     \* bound on the requests under way when another is made
  MaxLapses     \* bound on lost answers and outages

Row(id, r, q) == [id |-> id, of |-> r, quantity |-> q]

\* What a preview and an order are the price of: the fee and the discounts depend on
\* the restaurant and on each product, so on the whole cart.
Price(c, code) == [cart |-> c, code |-> code]

\* what the screen watches of it: another cart may look the same
Watched(c, code) ==
  [rows |-> Cardinality(c), subtotal |-> MapThenSumSet(LAMBDA i : i.quantity, c), code |-> code]

Codes == Coupons \cup {None}

CartOps == {"add", "update", "remove", "clear", "repeat", "checkout", "refresh"}
Ops == CartOps \cup {"menu", "options"}

Rows == [id : 1 .. MaxItems, of : Restaurants, quantity : 1 .. MaxQuantity]
Carts == {c \in SUBSET Rows : IsFiniteSet(c)}
Prices == {Price(c, code) : c \in Carts, code \in Codes}

\* the lines of a payment and the price of its order
Payments == [shown : Prices \cup {None}, settled : BOOLEAN, exchanged : BOOLEAN, code : Codes,
             priced : Prices]

ASSUME CustomerCartAssumption ==
  /\ None \notin Restaurants \cup Coupons \cup Prices
  /\ Asked \notin Prices \cup {None}
  /\ Kept \subseteq Restaurants /\ \A r, s \in Kept : r = s
  /\ MaxChosen \in 1 .. Cardinality(Options)
  /\ {MaxItems, MaxQuantity} \subseteq Nat \ {0}
  /\ {MaxPresses, MaxCalls, MaxLapses} \subseteq Nat

VARIABLES
  isOnline,
  cart,            \* the cart on the screen
  restaurantId,    \* the restaurant whose name the menu shows
  menuOf,          \* the restaurant whose products it shows
  switchTo,        \* pendingRestaurantSwitch
  chosen,          \* the options modal: closed, or a product and its options chosen
  coupon,
  preview, previewAsked, previewLoading,
  exchanged,       \* another cart took the place of the one previewed, and looked the same
  pendingPayment,
  loading,
  calls,
  srvCart, orders, items,   \* the server's cart, the orders made, rows ever created
  presses, lapses,
  overlapped       \* two requests were under way together

choiceVars  == <<restaurantId, menuOf, switchTo, chosen>>
previewVars == <<preview, previewAsked, previewLoading, exchanged>>
serverVars  == <<srvCart, orders, items>>
boundVars   == <<presses, lapses, overlapped>>
vars == <<isOnline, cart, choiceVars, coupon, previewVars, pendingPayment, loading, calls,
          serverVars, boundVars>>

\* A request: its restaurant, row (the press, for a checkout) and quantity, the payment it
\* leads to, what the server has read, and what came back.
Call(op) ==
  [op |-> op, of |-> None, id |-> 0, quantity |-> 0, switch |-> FALSE, pay |-> None,
   got |-> "sent", read |-> {}]

CallRecord ==
  {c \in [op : Ops, of : Restaurants \cup {None}, id : Nat, quantity : 0 .. MaxQuantity,
          switch : BOOLEAN, pay : Payments \cup {None},
          got : {"sent", "reading", "ok", "error"}, read : Carts] :
     /\ c.op \in {"menu", "options", "clear", "add", "repeat"} => c.of \in Restaurants
     /\ c.op \in {"add", "update"} => c.quantity # 0
     /\ c.op \in {"checkout", "refresh"} => c.pay \in Payments}

TypeOK ==
  /\ isOnline \in BOOLEAN
  /\ cart \in Carts
  /\ restaurantId \in Restaurants \cup {None}
  /\ menuOf \in Restaurants \cup {None}
  /\ switchTo \in Restaurants \cup {None}
  /\ chosen \in [of : Restaurants, options : SUBSET Options] \cup {None}
  /\ coupon \in Codes
  /\ preview \in Prices \cup {None}
  /\ previewAsked \in Prices \cup {None, Asked}
  /\ previewLoading \in BOOLEAN
  /\ exchanged \in BOOLEAN
  /\ pendingPayment \in Payments \cup {None}
  /\ loading \in BOOLEAN
  /\ calls \subseteq CallRecord
  /\ srvCart \in Carts
  /\ orders \subseteq [no : Nat, rows : SUBSET (1 .. MaxItems)] /\ IsFiniteSet(orders)
  /\ items \in 0 .. MaxItems
  /\ presses \in Nat /\ lapses \in Nat /\ overlapped \in BOOLEAN

\* After bootstrap: the cart that the server kept is on the screen.
Init ==
  /\ isOnline = TRUE
  /\ srvCart = {Row(1, r, 1) : r \in Kept}
  /\ cart = srvCart /\ orders = {} /\ items = Cardinality(srvCart)
  /\ restaurantId = None /\ menuOf = None /\ switchTo = None /\ chosen = None
  /\ coupon = None
  /\ preview = None
  /\ previewAsked = (IF srvCart = {} THEN None ELSE Asked)
  /\ previewLoading = (srvCart # {}) /\ exchanged = FALSE
  /\ pendingPayment = None
  /\ loading = FALSE /\ calls = {}
  /\ presses = 0 /\ lapses = 0 /\ overlapped = FALSE

-----------------------------------------------------------------------------
(* What every handler does                                                 *)

OnCart(c) == c.op \in CartOps

\* Two requests that no flag keeps apart.  Placing an order waits for itself, unless
\* the answer to another request has cleared the flag meanwhile.
Overlaps(c, other) == ~({c.op, other.op} \subseteq {"checkout", "refresh"})

\* a button leads to a request
Press(c) ==
  /\ isOnline
  /\ presses < MaxPresses /\ presses' = presses + 1
  /\ Cardinality(calls) < MaxCalls /\ calls' = calls \cup {c}
  /\ overlapped' = (overlapped \/ \E other \in calls : Overlaps(c, other))
  /\ UNCHANGED lapses

Answered(op, c) == c \in calls /\ c.op = op /\ c.got \in {"ok", "error"}

Consume(c, more) == calls' = (calls \ {c}) \cup more

\* Mutant: the coupon is not a dependency of the effect.
PreviewEffectWithoutCoupon(newCart, code, online) ==
  IF Watched(newCart, None) = Watched(cart, None) /\ online = isOnline
  THEN UNCHANGED <<preview, previewAsked, previewLoading>>
       /\ exchanged' = (exchanged \/ newCart # cart)
  ELSE /\ exchanged' = FALSE
       /\ IF newCart = {} \/ ~online
          THEN preview' = None /\ previewAsked' = None /\ UNCHANGED previewLoading
          ELSE previewAsked' = Asked /\ previewLoading' = TRUE /\ UNCHANGED preview

\* Mutant: the preview in flight is cancelled and no other is asked.
PreviewEffectCancelsOnly(newCart, code, online) ==
  IF Watched(newCart, code) = Watched(cart, coupon) /\ online = isOnline
  THEN UNCHANGED <<preview, previewAsked, previewLoading>>
       /\ exchanged' = (exchanged \/ newCart # cart)
  ELSE /\ exchanged' = FALSE
       /\ IF newCart = {} \/ ~online \/ previewAsked # None
          THEN preview' = None /\ previewAsked' = None /\ UNCHANGED previewLoading
          ELSE previewAsked' = Asked /\ previewLoading' = TRUE /\ UNCHANGED preview

\* The effect that asks for the preview runs again when the number of rows, their
\* subtotal, the coupon or the network changes; its cleanup cancels the one before,
\* whose flag stays up when the new run returns at once.  It does not see that the
\* restaurant or the products have changed.
PreviewEffect(newCart, code, online) ==
  IF Watched(newCart, code) = Watched(cart, coupon) /\ online = isOnline
  THEN UNCHANGED <<preview, previewAsked, previewLoading>>
       /\ exchanged' = (exchanged \/ newCart # cart)
  ELSE /\ exchanged' = FALSE
       /\ IF newCart = {} \/ ~online
          THEN preview' = None /\ previewAsked' = None /\ UNCHANGED previewLoading
          ELSE previewAsked' = Asked /\ previewLoading' = TRUE /\ UNCHANGED preview

\* setCart(nextCart)
SetCart(c) == cart' = c /\ PreviewEffect(c, coupon, isOnline)

KeepCart == UNCHANGED <<cart, previewVars>>

\* a modal covers the buttons under it
Uncovered == switchTo = None /\ chosen = None /\ pendingPayment = None

-----------------------------------------------------------------------------
(* Restaurants and menus                                                   *)

LoadRestaurantMenu(r, switch) == [Call("menu") EXCEPT !.of = r, !.switch = switch]

CartRestaurants == {i.of : i \in cart}

OpenRestaurant(r) ==
  /\ Uncovered
  /\ IF CartRestaurants \subseteq {r}
     THEN /\ Press(LoadRestaurantMenu(r, FALSE))
          /\ loading' = TRUE
          /\ restaurantId' = r
          /\ UNCHANGED switchTo
     ELSE /\ isOnline
          /\ switchTo' = r
          /\ UNCHANGED <<loading, restaurantId, calls, boundVars>>
  /\ UNCHANGED <<isOnline, cart, menuOf, chosen, coupon, previewVars, pendingPayment,
                 serverVars>>

MenuLoaded(c) ==
  /\ Answered("menu", c)
  /\ Consume(c, {})
  /\ loading' = FALSE
  /\ menuOf' = IF c.got = "ok" THEN c.of ELSE menuOf
  /\ UNCHANGED <<isOnline, cart, restaurantId, switchTo, chosen, coupon, previewVars,
                 pendingPayment, serverVars, boundVars>>

\* isSwitchingRestaurant: from the confirmation until the new menu is there
Switching == \E c \in calls : c.switch

ConfirmRestaurantSwitch ==
  /\ switchTo # None /\ ~Switching
  /\ Press([Call("clear") EXCEPT !.of = switchTo, !.switch = TRUE])
  /\ UNCHANGED <<isOnline, cart, choiceVars, coupon, previewVars, pendingPayment, loading,
                 serverVars>>

CancelRestaurantSwitch ==
  /\ switchTo # None /\ ~Switching
  /\ switchTo' = None
  /\ UNCHANGED <<isOnline, cart, restaurantId, menuOf, chosen, coupon, previewVars,
                 pendingPayment, loading, calls, serverVars, boundVars>>

CartCleared(c) ==
  /\ Answered("clear", c)
  /\ IF c.got = "ok"
     THEN /\ SetCart({})
          /\ switchTo' = None
          /\ restaurantId' = c.of
          /\ loading' = TRUE
          /\ Consume(c, {LoadRestaurantMenu(c.of, TRUE)})
     ELSE Consume(c, {}) /\ KeepCart /\ UNCHANGED <<switchTo, restaurantId, loading>>
  /\ UNCHANGED <<isOnline, menuOf, chosen, coupon, pendingPayment, serverVars, boundVars>>

-----------------------------------------------------------------------------
(* Rows of the cart                                                        *)

AddToCart(r) == [Call("add") EXCEPT !.of = r, !.quantity = 1]

\* handleAddProductWithOptions: the product of the menu shown, whatever its name says
AddProduct ==
  /\ Uncovered
  /\ menuOf # None
  /\ \/ Press([Call("options") EXCEPT !.of = menuOf]) /\ UNCHANGED loading
     \/ Press(AddToCart(menuOf)) /\ loading' = TRUE
  /\ UNCHANGED <<isOnline, cart, choiceVars, coupon, previewVars, pendingPayment, serverVars>>

\* a product without groups is added at once: the network is that of the press
OptionsLoaded(c) ==
  /\ Answered("options", c)
  /\ \/ /\ c.got = "ok"
        /\ loading' = TRUE
        /\ Consume(c, {AddToCart(c.of)})
        /\ UNCHANGED chosen
     \/ /\ c.got = "ok"
        /\ \E o \in SUBSET Options :
             Cardinality(o) <= MaxChosen /\ chosen' = [of |-> c.of, options |-> o]
        /\ Consume(c, {})
        /\ UNCHANGED loading
     \/ /\ c.got = "error"
        /\ Consume(c, {})
        /\ UNCHANGED <<chosen, loading>>
  /\ UNCHANGED <<isOnline, cart, restaurantId, menuOf, switchTo, coupon, previewVars,
                 pendingPayment, serverVars, boundVars>>

\* One more than the maximum takes the place of the first that was chosen.
ToggleOptionSelection(o) ==
  /\ chosen # None
  /\ LET now == chosen.options IN
     \E after \in
       IF o \in now THEN {now \ {o}}
       ELSE IF Cardinality(now) < MaxChosen THEN {now \cup {o}}
       ELSE {(now \ {out}) \cup {o} : out \in now} :
         chosen' = [chosen EXCEPT !.options = after]
  /\ UNCHANGED <<isOnline, cart, restaurantId, menuOf, switchTo, coupon, previewVars,
                 pendingPayment, loading, calls, serverVars, boundVars>>

\* The modal is closed first; a press without a network then adds nothing.
ConfirmAddWithOptions ==
  /\ chosen # None /\ ~loading
  /\ Cardinality(chosen.options) \in 1 .. MaxChosen
  /\ chosen' = None
  /\ \/ Press(AddToCart(chosen.of)) /\ loading' = TRUE
     \/ ~isOnline /\ UNCHANGED <<loading, calls, boundVars>>
  /\ UNCHANGED <<isOnline, cart, restaurantId, menuOf, switchTo, coupon, previewVars,
                 pendingPayment, serverVars>>

CloseOptions ==
  /\ chosen # None
  /\ chosen' = None
  /\ UNCHANGED <<isOnline, cart, restaurantId, menuOf, switchTo, coupon, previewVars,
                 pendingPayment, loading, calls, serverVars, boundVars>>

\* increase and decrease ask for a quantity counted from the one on the screen; the
\* last piece, and the cross, remove the row
ChangeRow(i) ==
  /\ Uncovered
  /\ i \in cart
  /\ \/ \E q \in {i.quantity - 1, i.quantity + 1} \cap (1 .. MaxQuantity) :
          Press([Call("update") EXCEPT !.id = i.id, !.quantity = q])
     \/ Press([Call("remove") EXCEPT !.id = i.id])
  /\ loading' = TRUE
  /\ UNCHANGED <<isOnline, cart, choiceVars, coupon, previewVars, pendingPayment, serverVars>>

\* The answer of addToCart, increase, decrease and remove is the whole cart.
CartChanged(c) ==
  /\ \E op \in {"add", "update", "remove"} : Answered(op, c)
  /\ Consume(c, {})
  /\ loading' = FALSE
  /\ IF c.got = "ok" THEN SetCart(c.read) ELSE KeepCart
  /\ UNCHANGED <<isOnline, choiceVars, coupon, pendingPayment, serverVars, boundVars>>

\* handleRepeatOrder, of an order of restaurant r; the flag is that order's own
RepeatOrder(r) ==
  /\ Uncovered
  /\ items < MaxItems
  /\ \A c \in calls : c.op # "repeat"
  /\ Press([Call("repeat") EXCEPT !.of = r])
  /\ UNCHANGED <<isOnline, cart, choiceVars, coupon, previewVars, pendingPayment, loading,
                 serverVars>>

OrderRepeated(c) ==
  /\ Answered("repeat", c)
  /\ Consume(c, {})
  /\ IF c.got = "ok" THEN SetCart(c.read) ELSE KeepCart
  /\ UNCHANGED <<isOnline, choiceVars, coupon, pendingPayment, loading, serverVars, boundVars>>

-----------------------------------------------------------------------------
(* Preview and checkout                                                    *)

ChangeCoupon(code) ==
  /\ Uncovered
  /\ code # coupon
  /\ presses < MaxPresses /\ presses' = presses + 1
  /\ coupon' = code
  /\ PreviewEffect(cart, code, isOnline)
  /\ UNCHANGED <<isOnline, cart, choiceVars, pendingPayment, loading, calls, serverVars,
                 lapses, overlapped>>

\* previewCheckout prices the server's cart
PreviewServed ==
  /\ previewAsked = Asked
  /\ previewAsked' = Price(srvCart, coupon)
  /\ exchanged' = FALSE
  /\ UNCHANGED <<isOnline, cart, choiceVars, coupon, preview, previewLoading, pendingPayment,
                 loading, calls, serverVars, boundVars>>

PreviewAnswered ==
  /\ previewAsked \notin {None, Asked}
  /\ previewAsked' = None
  /\ previewLoading' = FALSE
  /\ \/ preview' = previewAsked /\ UNCHANGED lapses
     \/ preview' = None /\ lapses < MaxLapses /\ lapses' = lapses + 1
  /\ UNCHANGED <<isOnline, cart, choiceVars, coupon, exchanged, pendingPayment, loading,
                 calls, serverVars, presses, overlapped>>

\* the lines that the payment will show: those on the screen at the press
Lines == [shown |-> preview, settled |-> previewAsked = None, exchanged |-> exchanged,
          code |-> coupon, priced |-> Price({}, None)]

\* Mutant: the button stays enabled while an order is placed.
PlaceOrderAgain ==
  /\ Uncovered
  /\ cart # {}
  /\ Press([Call("checkout") EXCEPT !.id = presses, !.pay = Lines])
  /\ loading' = TRUE
  /\ UNCHANGED <<isOnline, cart, choiceVars, coupon, previewVars, pendingPayment, serverVars>>

\* placeOrder keeps the lines on the screen when it was pressed for the payment modal.
PlaceOrder ==
  /\ Uncovered
  /\ ~loading /\ cart # {}
  /\ Press([Call("checkout") EXCEPT !.id = presses, !.pay = Lines])
  /\ loading' = TRUE
  /\ UNCHANGED <<isOnline, cart, choiceVars, coupon, previewVars, pendingPayment, serverVars>>

\* A payment to be made opens the modal; one in cash leads to the tracking.
AskPayment(pay) == pendingPayment' \in {pay, pendingPayment}

\* The coupon is emptied, and the cart fetched, before the payment is asked for.
CheckoutAnswered(c) ==
  /\ Answered("checkout", c)
  /\ IF c.got = "ok"
     THEN /\ coupon' = None
          /\ PreviewEffect(cart, None, isOnline)
          /\ Consume(c, {[Call("refresh") EXCEPT !.pay = c.pay]})
          /\ UNCHANGED loading
     ELSE Consume(c, {}) /\ loading' = FALSE /\ UNCHANGED <<coupon, previewVars>>
  /\ UNCHANGED <<isOnline, cart, choiceVars, pendingPayment, serverVars, boundVars>>

\* Mutant: the cart fetched is not shown.
CartRefreshedUnseen(c) ==
  /\ Answered("refresh", c)
  /\ Consume(c, {})
  /\ loading' = FALSE
  /\ KeepCart
  /\ IF c.got = "ok" THEN AskPayment(c.pay) ELSE UNCHANGED pendingPayment
  /\ UNCHANGED <<isOnline, choiceVars, coupon, serverVars, boundVars>>

\* refreshCart failing leaves an order that the screen does not ask to be paid.
CartRefreshed(c) ==
  /\ Answered("refresh", c)
  /\ Consume(c, {})
  /\ loading' = FALSE
  /\ IF c.got = "ok" THEN SetCart(c.read) /\ AskPayment(c.pay)
     ELSE KeepCart /\ UNCHANGED pendingPayment
  /\ UNCHANGED <<isOnline, choiceVars, coupon, serverVars, boundVars>>

\* the modal is closed: paid, or left for later
ClosePayment ==
  /\ pendingPayment # None
  /\ pendingPayment' = None
  /\ UNCHANGED <<isOnline, cart, choiceVars, coupon, previewVars, loading, calls, serverVars,
                 boundVars>>

\* NetInfo
NetworkChanges ==
  /\ IF isOnline THEN lapses < MaxLapses /\ lapses' = lapses + 1 ELSE UNCHANGED lapses
  /\ isOnline' = ~isOnline
  /\ PreviewEffect(cart, coupon, ~isOnline)
  /\ UNCHANGED <<cart, choiceVars, coupon, pendingPayment, loading, calls, serverVars, presses,
                 overlapped>>

-----------------------------------------------------------------------------
(* The server                                                              *)

Replace(c, got, read) == calls' = (calls \ {c}) \cup {[c EXCEPT !.got = got, !.read = read]}

\* addCartItem and checkoutOrder check the cart they have read, without a lock.
Read(c) ==
  /\ c.got = "sent"
  /\ c.op \in {"add", "checkout"}
  /\ Replace(c, "reading", srvCart)
  /\ UNCHANGED serverVars

Add(c) ==
  /\ c.op = "add" /\ c.got = "reading"
  /\ items < MaxItems
  /\ {i.of : i \in c.read} \subseteq {c.of}
  /\ items' = items + 1
  /\ srvCart' = srvCart \cup {Row(items + 1, c.of, c.quantity)}
  /\ UNCHANGED orders

\* What is sold is what was read; what is cleared is all there is.
Checkout(c) ==
  /\ c.op = "checkout" /\ c.got = "reading"
  /\ \E r \in Restaurants : {i.of : i \in c.read} = {r}
  /\ orders' = orders \cup {[no |-> Cardinality(orders) + 1, rows |-> {i.id : i \in c.read}]}
  /\ srvCart' = {}
  /\ UNCHANGED items

Update(c) ==
  /\ c.op \in {"update", "remove"} /\ c.got = "sent"
  /\ \E i \in srvCart :
       /\ i.id = c.id
       /\ srvCart' = (srvCart \ {i}) \cup
            (IF c.op = "remove" THEN {} ELSE {[i EXCEPT !.quantity = c.quantity]})
  /\ UNCHANGED <<orders, items>>

Clear(c) ==
  /\ c.op = "clear" /\ c.got = "sent"
  /\ srvCart' = {}
  /\ UNCHANGED <<orders, items>>

\* repeatClientOrder empties the cart before it is filled
Repeat(c) ==
  /\ c.op = "repeat" /\ c.got = "sent"
  /\ items < MaxItems
  /\ items' = items + 1
  /\ srvCart' = {Row(items + 1, c.of, 1)}
  /\ UNCHANGED orders

Query(c) ==
  /\ c.op \in {"menu", "options", "refresh"} /\ c.got = "sent"
  /\ UNCHANGED serverVars

\* The answer has the cart as it is after the commit, or the price of what was read.
Served(c) ==
  \/ Add(c) \/ Update(c) \/ Clear(c) \/ Repeat(c) \/ Query(c)
  \/ Checkout(c)

\* Carts of two restaurants are refused, and empty orders; so are, for any cart, a
\* product gone, options or a coupon that do not hold, a restaurant closed or too far.
MayRefuse(c) ==
  \/ c.got = "reading" /\ c.op \in {"add", "checkout"}
  \/ c.got = "sent" /\ c.op \in {"update", "remove"} /\ \A i \in srvCart : i.id # c.id
  \/ c.got = "sent" /\ c.op = "repeat" /\ items = MaxItems

Reply(c) ==
  IF c.op = "checkout"
  THEN calls' = (calls \ {c}) \cup
         {[c EXCEPT !.got = "ok", !.read = {},
                    !.pay = [c.pay EXCEPT !.priced = Price(c.read, c.pay.code)]]}
  ELSE Replace(c, "ok", srvCart')

Serve(c) ==
  /\ \/ Read(c)
     \/ Served(c) /\ Reply(c)
     \/ MayRefuse(c) /\ Replace(c, "error", {}) /\ UNCHANGED serverVars
  /\ UNCHANGED <<isOnline, cart, choiceVars, coupon, previewVars, pendingPayment, loading,
                 boundVars>>

\* The request is lost, or its answer is, once it has been committed.
Lose(c) ==
  /\ lapses < MaxLapses /\ lapses' = lapses + 1
  /\ c.got \in {"sent", "reading"}
  /\ Served(c) \/ UNCHANGED serverVars
  /\ Replace(c, "error", {})
  /\ UNCHANGED <<isOnline, cart, choiceVars, coupon, previewVars, pendingPayment, loading,
                 presses, overlapped>>

-----------------------------------------------------------------------------
Customer ==
  \/ \E r \in Restaurants : OpenRestaurant(r) \/ RepeatOrder(r)
  \/ ConfirmRestaurantSwitch \/ CancelRestaurantSwitch
  \/ AddProduct \/ ConfirmAddWithOptions \/ CloseOptions
  \/ \E o \in Options : ToggleOptionSelection(o)
  \/ \E i \in cart : ChangeRow(i)
  \/ \E code \in Codes : ChangeCoupon(code)
  \/ PlaceOrder \/ ClosePayment

Answers(c) ==
  \/ MenuLoaded(c) \/ CartCleared(c) \/ OptionsLoaded(c) \/ CartChanged(c)
  \/ OrderRepeated(c) \/ CheckoutAnswered(c) \/ CartRefreshed(c)

Next ==
  \/ Customer
  \/ NetworkChanges
  \/ PreviewServed \/ PreviewAnswered
  \/ \E c \in calls : Serve(c) \/ Lose(c) \/ Answers(c)

Spec == Init /\ [][Next]_vars

\* The timer fires and the preview comes back.
FairSpec == Spec /\ WF_vars(PreviewServed) /\ WF_vars(PreviewAnswered)

-----------------------------------------------------------------------------
(* Properties                                                              *)

Calm == lapses = 0 /\ ~overlapped

\* With no request on the cart under way the screen shows the server's cart, whatever
\* was refused or cleared, unless two requests overlapped or an answer was lost.
ShownCartIsServed == (Calm /\ \A c \in calls : ~OnCart(c)) => cart = srvCart

\* No row of the cart is sold twice: the flag keeps a second press from placing a
\* second order while the server, which takes no lock, is at work on the first.  (When
\* requests overlap it does not: opening a menu clears the flag of the order.)
SoldOnce == Calm => \A a, b \in orders : a # b => a.rows \cap b.rows = {}

\* The lines of the payment modal are those of the order to be paid, when the order
\* was placed with no preview under way: those on the screen were up to date then.
\* Only an order repeated over a cart that looks the same, of another restaurant or
\* of other products, leaves lines that are not the order's; its subtotal still is.
PaymentLinesAddUp ==
  (Calm /\ pendingPayment # None) =>
    LET pay == pendingPayment IN
    pay.settled =>
      /\ pay.shown # None
      /\ Watched(pay.shown.cart, pay.shown.code) = Watched(pay.priced.cart, pay.priced.code)
      /\ pay.exchanged \/ pay.shown = pay.priced

\* The preview being computed is shown in the end, whatever cancelled the one before,
\* unless there is nothing to preview any more.
PreviewSettles ==
  [](previewLoading /\ cart # {} /\ isOnline => <>(~previewLoading \/ cart = {} \/ ~isOnline))

=============================================================================
