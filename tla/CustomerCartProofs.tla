------------------------- MODULE CustomerCartProofs -------------------------
(***************************************************************************)
(* Proofs about CustomerCart, for any restaurants, coupons and rows and    *)
(* any number of presses: the types, that no row is sold twice, and, while *)
(* no two requests overlap and nothing is lost, that the cart shown is the *)
(* server's and that the payment's lines are those of its order.           *)
(***************************************************************************)
EXTENDS CustomerCart, FiniteSetTheorems, TLAPS

USE DEF choiceVars, previewVars, serverVars, boundVars

-----------------------------------------------------------------------------
(* Carts and prices                                                        *)

LEMMA CartFacts ==
  /\ {} \in Carts
  /\ \A c \in Carts : c \subseteq Rows /\ IsFiniteSet(c)
  /\ \A c \in Carts : \A i \in Rows : c \cup {i} \in Carts /\ c \ {i} \in Carts
  /\ \A i \in Rows : {i} \in Carts
BY FS_EmptySet, FS_Singleton, FS_AddElement, FS_RemoveElement DEF Carts

LEMMA RowTyped ==
  ASSUME NEW id \in 1 .. MaxItems, NEW r \in Restaurants, NEW q \in 1 .. MaxQuantity
  PROVE  Row(id, r, q) \in Rows /\ Row(id, r, q).id = id
BY DEF Row, Rows

LEMMA PriceTyped ==
  ASSUME NEW c \in Carts, NEW code \in Codes
  PROVE  Price(c, code) \in Prices
BY DEF Prices

\* A price tells what it is the price of.
LEMMA PriceTells ==
  ASSUME NEW c, NEW code
  PROVE  Price(c, code).cart = c /\ Price(c, code).code = code
BY DEF Price

\* What the screen watches tells the coupon, and whether anything is in the cart.
LEMMA WatchedTells ==
  ASSUME NEW b \in Carts, NEW c \in Carts, NEW k, NEW l, Watched(b, k) = Watched(c, l)
  PROVE  k = l /\ (b = {} <=> c = {})
<1>1. k = l /\ Cardinality(b) = Cardinality(c)
  BY DEF Watched
<1>2. (b = {} <=> Cardinality(b) = 0) /\ (c = {} <=> Cardinality(c) = 0)
  BY CartFacts, FS_EmptySet
<1> QED
  BY <1>1, <1>2

-----------------------------------------------------------------------------
(* Requests                                                                *)

Got == {"sent", "reading", "ok", "error"}

\* what a request carries, and what each kind carries besides
Carries(c) ==
  /\ c.op \in Ops /\ c.of \in Restaurants \cup {None} /\ c.id \in Nat
  /\ c.quantity \in 0 .. MaxQuantity /\ c.switch \in BOOLEAN
  /\ c.pay \in Payments \cup {None} /\ c.got \in Got /\ c.read \in Carts
  /\ c.op \in {"menu", "options", "clear", "add", "repeat"} => c.of \in Restaurants
  /\ c.op \in {"add", "update"} => c.quantity # 0
  /\ c.op \in {"checkout", "refresh"} => c.pay \in Payments

Fields(c) ==
  [op |-> c.op, of |-> c.of, id |-> c.id, quantity |-> c.quantity, switch |-> c.switch,
   pay |-> c.pay, got |-> c.got, read |-> c.read]

LEMMA RequestTyped ==
  ASSUME NEW c
  PROVE  c \in CallRecord <=> c = Fields(c) /\ Carries(c)
BY DEF CallRecord, Fields, Carries, Got

\* A reply is the request with what came back.
LEMMA ReplyTyped ==
  ASSUME NEW c \in CallRecord, NEW got \in Got, NEW read \in Carts
  PROVE  \E a \in CallRecord :
           /\ a = [c EXCEPT !.got = got, !.read = read]
           /\ a.op = c.op /\ a.of = c.of /\ a.pay = c.pay /\ a.got = got /\ a.read = read
<1>1. c = Fields(c) /\ Carries(c)
  BY RequestTyped
<1>2. PICK a : a = [c EXCEPT !.got = got, !.read = read]
  OBVIOUS
<1>3. a = [op |-> c.op, of |-> c.of, id |-> c.id, quantity |-> c.quantity,
           switch |-> c.switch, pay |-> c.pay, got |-> got, read |-> read]
  BY <1>1, <1>2 DEF Fields
<1>4. /\ a.op = c.op /\ a.of = c.of /\ a.id = c.id /\ a.quantity = c.quantity
      /\ a.switch = c.switch /\ a.pay = c.pay /\ a.got = got /\ a.read = read
  BY <1>3
<1>5. a = Fields(a) /\ Carries(a)
  BY <1>1, <1>3, <1>4 DEF Fields, Carries
<1> QED
  BY <1>2, <1>4, <1>5, RequestTyped

\* The reply to a checkout has the price of what was read.
LEMMA PricedTyped ==
  ASSUME NEW c \in CallRecord, c.op = "checkout"
  PROVE  \E a \in CallRecord :
           /\ a = [c EXCEPT !.got = "ok", !.read = {},
                            !.pay = [c.pay EXCEPT !.priced = Price(c.read, c.pay.code)]]
           /\ a.op = "checkout" /\ a.got = "ok" /\ a.read = {}
           /\ a.pay \in Payments
           /\ a.pay.shown = c.pay.shown /\ a.pay.settled = c.pay.settled
           /\ a.pay.exchanged = c.pay.exchanged
           /\ a.pay.priced = Price(c.read, c.pay.code)
<1>1. c = Fields(c) /\ Carries(c)
  BY RequestTyped
<1>2. c.pay \in Payments /\ Price(c.read, c.pay.code) \in Prices
  <2>1. c.pay \in Payments /\ c.read \in Carts
    BY <1>1 DEF Carries
  <2>2. c.pay.code \in Codes
    BY <2>1 DEF Payments
  <2> QED
    BY <2>1, <2>2, PriceTyped
<1>3. PICK price \in Prices : price = Price(c.read, c.pay.code)
  BY <1>2
<1>4. PICK pay : pay = [c.pay EXCEPT !.priced = price]
  OBVIOUS
<1>5. /\ pay \in Payments /\ pay.shown = c.pay.shown /\ pay.settled = c.pay.settled
      /\ pay.exchanged = c.pay.exchanged /\ pay.priced = price
  BY <1>2, <1>4 DEF Payments
<1>6. PICK a : a = [c EXCEPT !.got = "ok", !.read = {}, !.pay = pay]
  OBVIOUS
<1>7. a = [op |-> c.op, of |-> c.of, id |-> c.id, quantity |-> c.quantity,
           switch |-> c.switch, pay |-> pay, got |-> "ok", read |-> {}]
  BY <1>1, <1>6 DEF Fields
<1>8. /\ a.op = c.op /\ a.of = c.of /\ a.id = c.id /\ a.quantity = c.quantity
      /\ a.switch = c.switch /\ a.pay = pay /\ a.got = "ok" /\ a.read = {}
  BY <1>7
<1>9. a = Fields(a)
  BY <1>7, <1>8 DEF Fields
<1>10. Carries(a)
  BY <1>1, <1>5, <1>8, CartFacts DEF Carries, Got
<1>11. a = [c EXCEPT !.got = "ok", !.read = {},
                     !.pay = [c.pay EXCEPT !.priced = Price(c.read, c.pay.code)]]
  BY <1>3, <1>4, <1>6, Zenon
<1>12. a \in CallRecord
  BY <1>9, <1>10, RequestTyped
<1>13. /\ a.op = "checkout" /\ a.got = "ok" /\ a.read = {}
       /\ a.pay \in Payments
       /\ a.pay.shown = c.pay.shown /\ a.pay.settled = c.pay.settled
       /\ a.pay.exchanged = c.pay.exchanged
       /\ a.pay.priced = Price(c.read, c.pay.code)
  BY <1>3, <1>5, <1>8
<1> QED
  BY <1>11, <1>12, <1>13, Zenon

\* the requests that the buttons and the answers lead to
IsRequest(a, op) == a \in CallRecord /\ a.op = op /\ a.got = "sent"

LEMMA MenuRequest ==
  ASSUME NEW r \in Restaurants, NEW s \in BOOLEAN
  PROVE  IsRequest(LoadRestaurantMenu(r, s), "menu")
<1>1. PICK a : a = LoadRestaurantMenu(r, s)
  OBVIOUS
<1>2. a = [op |-> "menu", of |-> r, id |-> 0, quantity |-> 0, switch |-> s, pay |-> None,
           got |-> "sent", read |-> {}]
  BY <1>1 DEF LoadRestaurantMenu, Call
<1>3. /\ a.op = "menu" /\ a.of = r /\ a.id = 0 /\ a.quantity = 0 /\ a.switch = s
      /\ a.pay = None /\ a.got = "sent" /\ a.read = {}
  BY <1>2
<1>4. a = Fields(a) /\ Carries(a)
  BY <1>2, <1>3, CartFacts, CustomerCartAssumption DEF Fields, Carries, Got, Ops, CartOps
<1> QED
  BY <1>1, <1>3, <1>4, RequestTyped DEF IsRequest

LEMMA ClearRequest ==
  ASSUME NEW r \in Restaurants
  PROVE  IsRequest([Call("clear") EXCEPT !.of = r, !.switch = TRUE], "clear")
<1>1. PICK a : a = [Call("clear") EXCEPT !.of = r, !.switch = TRUE]
  OBVIOUS
<1>2. a = [op |-> "clear", of |-> r, id |-> 0, quantity |-> 0, switch |-> TRUE,
           pay |-> None, got |-> "sent", read |-> {}]
  BY <1>1 DEF Call
<1>3. /\ a.op = "clear" /\ a.of = r /\ a.id = 0 /\ a.quantity = 0
      /\ a.switch = TRUE /\ a.pay = None /\ a.got = "sent" /\ a.read = {}
  BY <1>2
<1>4. a = Fields(a) /\ Carries(a)
  BY <1>2, <1>3, CartFacts, CustomerCartAssumption DEF Fields, Carries, Got, Ops, CartOps
<1> QED
  BY <1>1, <1>3, <1>4, RequestTyped DEF IsRequest

LEMMA OptionsRequest ==
  ASSUME NEW r \in Restaurants
  PROVE  IsRequest([Call("options") EXCEPT !.of = r], "options")
<1>1. PICK a : a = [Call("options") EXCEPT !.of = r]
  OBVIOUS
<1>2. a = [op |-> "options", of |-> r, id |-> 0, quantity |-> 0, switch |-> FALSE,
           pay |-> None, got |-> "sent", read |-> {}]
  BY <1>1 DEF Call
<1>3. /\ a.op = "options" /\ a.of = r /\ a.id = 0 /\ a.quantity = 0
      /\ a.switch = FALSE /\ a.pay = None /\ a.got = "sent" /\ a.read = {}
  BY <1>2
<1>4. a = Fields(a) /\ Carries(a)
  BY <1>2, <1>3, CartFacts, CustomerCartAssumption DEF Fields, Carries, Got, Ops, CartOps
<1> QED
  BY <1>1, <1>3, <1>4, RequestTyped DEF IsRequest

LEMMA AddRequest ==
  ASSUME NEW r \in Restaurants
  PROVE  IsRequest(AddToCart(r), "add")
<1>1. PICK a : a = AddToCart(r)
  OBVIOUS
<1>2. a = [op |-> "add", of |-> r, id |-> 0, quantity |-> 1, switch |-> FALSE,
           pay |-> None, got |-> "sent", read |-> {}]
  BY <1>1 DEF AddToCart, Call
<1>3. /\ a.op = "add" /\ a.of = r /\ a.id = 0 /\ a.quantity = 1
      /\ a.switch = FALSE /\ a.pay = None /\ a.got = "sent" /\ a.read = {}
  BY <1>2
<1>4. a = Fields(a) /\ Carries(a)
  BY <1>2, <1>3, CartFacts, CustomerCartAssumption DEF Fields, Carries, Got, Ops, CartOps
<1> QED
  BY <1>1, <1>3, <1>4, RequestTyped DEF IsRequest

LEMMA UpdateRequest ==
  ASSUME NEW n \in Nat, NEW q \in 1 .. MaxQuantity
  PROVE  IsRequest([Call("update") EXCEPT !.id = n, !.quantity = q], "update")
<1>1. PICK a : a = [Call("update") EXCEPT !.id = n, !.quantity = q]
  OBVIOUS
<1>2. a = [op |-> "update", of |-> None, id |-> n, quantity |-> q, switch |-> FALSE,
           pay |-> None, got |-> "sent", read |-> {}]
  BY <1>1 DEF Call
<1>3. /\ a.op = "update" /\ a.of = None /\ a.id = n /\ a.quantity = q
      /\ a.switch = FALSE /\ a.pay = None /\ a.got = "sent" /\ a.read = {}
  BY <1>2
<1>4. a = Fields(a) /\ Carries(a)
  BY <1>2, <1>3, CartFacts, CustomerCartAssumption DEF Fields, Carries, Got, Ops, CartOps
<1> QED
  BY <1>1, <1>3, <1>4, RequestTyped DEF IsRequest

LEMMA RemoveRequest ==
  ASSUME NEW n \in Nat
  PROVE  IsRequest([Call("remove") EXCEPT !.id = n], "remove")
<1>1. PICK a : a = [Call("remove") EXCEPT !.id = n]
  OBVIOUS
<1>2. a = [op |-> "remove", of |-> None, id |-> n, quantity |-> 0, switch |-> FALSE,
           pay |-> None, got |-> "sent", read |-> {}]
  BY <1>1 DEF Call
<1>3. /\ a.op = "remove" /\ a.of = None /\ a.id = n /\ a.quantity = 0
      /\ a.switch = FALSE /\ a.pay = None /\ a.got = "sent" /\ a.read = {}
  BY <1>2
<1>4. a = Fields(a) /\ Carries(a)
  BY <1>2, <1>3, CartFacts, CustomerCartAssumption DEF Fields, Carries, Got, Ops, CartOps
<1> QED
  BY <1>1, <1>3, <1>4, RequestTyped DEF IsRequest

LEMMA RepeatRequest ==
  ASSUME NEW r \in Restaurants
  PROVE  IsRequest([Call("repeat") EXCEPT !.of = r], "repeat")
<1>1. PICK a : a = [Call("repeat") EXCEPT !.of = r]
  OBVIOUS
<1>2. a = [op |-> "repeat", of |-> r, id |-> 0, quantity |-> 0, switch |-> FALSE,
           pay |-> None, got |-> "sent", read |-> {}]
  BY <1>1 DEF Call
<1>3. /\ a.op = "repeat" /\ a.of = r /\ a.id = 0 /\ a.quantity = 0
      /\ a.switch = FALSE /\ a.pay = None /\ a.got = "sent" /\ a.read = {}
  BY <1>2
<1>4. a = Fields(a) /\ Carries(a)
  BY <1>2, <1>3, CartFacts, CustomerCartAssumption DEF Fields, Carries, Got, Ops, CartOps
<1> QED
  BY <1>1, <1>3, <1>4, RequestTyped DEF IsRequest

LEMMA CheckoutRequest ==
  ASSUME NEW n \in Nat, NEW p \in Payments
  PROVE  IsRequest([Call("checkout") EXCEPT !.id = n, !.pay = p], "checkout") /\ [Call("checkout") EXCEPT !.id = n, !.pay = p].pay = p
<1>1. PICK a : a = [Call("checkout") EXCEPT !.id = n, !.pay = p]
  OBVIOUS
<1>2. a = [op |-> "checkout", of |-> None, id |-> n, quantity |-> 0, switch |-> FALSE,
           pay |-> p, got |-> "sent", read |-> {}]
  BY <1>1 DEF Call
<1>3. /\ a.op = "checkout" /\ a.of = None /\ a.id = n /\ a.quantity = 0
      /\ a.switch = FALSE /\ a.pay = p /\ a.got = "sent" /\ a.read = {}
  BY <1>2
<1>4. a = Fields(a) /\ Carries(a)
  BY <1>2, <1>3, CartFacts, CustomerCartAssumption DEF Fields, Carries, Got, Ops, CartOps
<1> QED
  BY <1>1, <1>3, <1>4, RequestTyped DEF IsRequest

LEMMA RefreshRequest ==
  ASSUME NEW p \in Payments
  PROVE  IsRequest([Call("refresh") EXCEPT !.pay = p], "refresh") /\ [Call("refresh") EXCEPT !.pay = p].pay = p
<1>1. PICK a : a = [Call("refresh") EXCEPT !.pay = p]
  OBVIOUS
<1>2. a = [op |-> "refresh", of |-> None, id |-> 0, quantity |-> 0, switch |-> FALSE,
           pay |-> p, got |-> "sent", read |-> {}]
  BY <1>1 DEF Call
<1>3. /\ a.op = "refresh" /\ a.of = None /\ a.id = 0 /\ a.quantity = 0
      /\ a.switch = FALSE /\ a.pay = p /\ a.got = "sent" /\ a.read = {}
  BY <1>2
<1>4. a = Fields(a) /\ Carries(a)
  BY <1>2, <1>3, CartFacts, CustomerCartAssumption DEF Fields, Carries, Got, Ops, CartOps
<1> QED
  BY <1>1, <1>3, <1>4, RequestTyped DEF IsRequest

-----------------------------------------------------------------------------
(* Types                                                                   *)

LEMMA InitTyped ==
  ASSUME Init
  PROVE  TypeOK
<1>1. srvCart \in Carts /\ items \in 0 .. MaxItems
  <2>1. CASE Kept = {}
    <3>1. srvCart = {} /\ items = 0
      BY <2>1, FS_EmptySet DEF Init
    <3> QED
      BY <3>1, CartFacts, CustomerCartAssumption
  <2>2. CASE Kept # {}
    <3>1. PICK r \in Restaurants : Kept = {r}
      BY <2>2, CustomerCartAssumption
    <3>2. srvCart = {Row(1, r, 1)} /\ items = 1
      BY <3>1, FS_Singleton DEF Init
    <3>3. Row(1, r, 1) \in Rows
      BY CustomerCartAssumption, RowTyped
    <3> QED
      BY <3>2, <3>3, CartFacts, CustomerCartAssumption
  <2> QED
    BY <2>1, <2>2
<1>2. /\ previewAsked \in {None, Asked} /\ previewLoading \in BOOLEAN
      /\ presses \in Nat /\ lapses \in Nat
  BY DEF Init
<1>3. orders \subseteq [no : Nat, rows : SUBSET (1 .. MaxItems)] /\ IsFiniteSet(orders)
  BY FS_EmptySet DEF Init
<1> QED
  BY <1>1, <1>2, <1>3 DEF Init, TypeOK, Codes

\* the preview whatever makes the effect run
LEMMA EffectTyped ==
  ASSUME TypeOK, NEW c, NEW code, NEW online, PreviewEffect(c, code, online)
  PROVE  /\ preview' \in Prices \cup {None} /\ previewAsked' \in Prices \cup {None, Asked}
         /\ previewLoading' \in BOOLEAN /\ exchanged' \in BOOLEAN
BY DEF PreviewEffect, TypeOK

LEMMA PressTyped ==
  ASSUME TypeOK, NEW a, NEW op, IsRequest(a, op), Press(a)
  PROVE  /\ calls' \subseteq CallRecord /\ presses' \in Nat /\ lapses' \in Nat
         /\ overlapped' \in BOOLEAN
<1>1. PICK p \in BOOLEAN : p = \E other \in calls : Overlaps(a, other)
  OBVIOUS
<1>2. overlapped' = (overlapped \/ p)
  BY <1>1 DEF Press
<1>3. overlapped' \in BOOLEAN
  BY <1>2 DEF TypeOK
<1> QED
  BY <1>3 DEF Press, IsRequest, TypeOK

LEMMA LinesTyped ==
  ASSUME TypeOK
  PROVE  Lines \in Payments
<1>1. Price({}, None) \in Prices
  BY CartFacts, PriceTyped DEF Codes
<1>2. PICK p \in BOOLEAN : p = (previewAsked = None)
  OBVIOUS
<1>3. Lines = [shown |-> preview, settled |-> p, exchanged |-> exchanged, code |-> coupon,
               priced |-> Price({}, None)]
  BY <1>2 DEF Lines
<1> QED
  BY <1>1, <1>3 DEF TypeOK, Payments

LEMMA CustomerTyped ==
  ASSUME TypeOK, Customer
  PROVE  TypeOK'
<1>1. ASSUME NEW r \in Restaurants, OpenRestaurant(r) PROVE TypeOK'
  <2>1. CASE CartRestaurants \subseteq {r}
    <3>1. Press(LoadRestaurantMenu(r, FALSE)) /\ IsRequest(LoadRestaurantMenu(r, FALSE), "menu")
      BY <1>1, <2>1, MenuRequest DEF OpenRestaurant
    <3>2. /\ calls' \subseteq CallRecord /\ presses' \in Nat /\ lapses' \in Nat
          /\ overlapped' \in BOOLEAN
      BY <3>1, PressTyped
    <3> QED
      BY <1>1, <2>1, <3>2 DEF OpenRestaurant, TypeOK
  <2>2. CASE ~(CartRestaurants \subseteq {r})
    BY <1>1, <2>2 DEF OpenRestaurant, TypeOK
  <2> QED
    BY <2>1, <2>2
<1>2. ASSUME NEW r \in Restaurants, RepeatOrder(r) PROVE TypeOK'
  <2>1. /\ calls' \subseteq CallRecord /\ presses' \in Nat /\ lapses' \in Nat
        /\ overlapped' \in BOOLEAN
    BY <1>2, RepeatRequest, PressTyped DEF RepeatOrder
  <2> QED
    BY <1>2, <2>1 DEF RepeatOrder, TypeOK
<1>3. CASE ConfirmRestaurantSwitch
  <2>1. switchTo \in Restaurants
    BY <1>3 DEF ConfirmRestaurantSwitch, TypeOK
  <2>2. /\ calls' \subseteq CallRecord /\ presses' \in Nat /\ lapses' \in Nat
        /\ overlapped' \in BOOLEAN
    BY <1>3, <2>1, ClearRequest, PressTyped DEF ConfirmRestaurantSwitch
  <2> QED
    BY <1>3, <2>2 DEF ConfirmRestaurantSwitch, TypeOK
<1>4. CASE CancelRestaurantSwitch
  BY <1>4 DEF CancelRestaurantSwitch, TypeOK
<1>5. CASE AddProduct
  <2>1. menuOf \in Restaurants
    BY <1>5 DEF AddProduct, TypeOK
  <2>2. /\ calls' \subseteq CallRecord /\ presses' \in Nat /\ lapses' \in Nat
        /\ overlapped' \in BOOLEAN
    BY <1>5, <2>1, OptionsRequest, AddRequest, PressTyped DEF AddProduct
  <2>3. loading' \in BOOLEAN
    BY <1>5 DEF AddProduct, TypeOK
  <2> QED
    BY <1>5, <2>2, <2>3 DEF AddProduct, TypeOK
<1>6. CASE ConfirmAddWithOptions
  <2>1. chosen.of \in Restaurants
    BY <1>6 DEF ConfirmAddWithOptions, TypeOK
  <2>2. CASE Press(AddToCart(chosen.of)) /\ loading' = TRUE
    <3>1. /\ calls' \subseteq CallRecord /\ presses' \in Nat /\ lapses' \in Nat
          /\ overlapped' \in BOOLEAN
      BY <2>1, <2>2, AddRequest, PressTyped
    <3> QED
      BY <1>6, <2>2, <3>1 DEF ConfirmAddWithOptions, TypeOK
  <2>3. CASE UNCHANGED <<loading, calls, boundVars>>
    BY <1>6, <2>3 DEF ConfirmAddWithOptions, TypeOK
  <2> QED
    BY <1>6, <2>2, <2>3 DEF ConfirmAddWithOptions
<1>7. CASE CloseOptions
  BY <1>7 DEF CloseOptions, TypeOK
<1>8. ASSUME NEW o \in Options, ToggleOptionSelection(o) PROVE TypeOK'
  <2>1. chosen \in [of : Restaurants, options : SUBSET Options]
    BY <1>8 DEF ToggleOptionSelection, TypeOK
  <2>2. PICK after : chosen' = [chosen EXCEPT !.options = after] /\ after \subseteq Options
    <3>1. PICK after : /\ chosen' = [chosen EXCEPT !.options = after]
                       /\ after \subseteq chosen.options \cup {o}
      BY <1>8 DEF ToggleOptionSelection
    <3>2. chosen.options \subseteq Options
      BY <2>1
    <3> QED
      BY <3>1, <3>2
  <2>3. chosen' \in [of : Restaurants, options : SUBSET Options]
    BY <2>1, <2>2
  <2> QED
    BY <1>8, <2>3 DEF ToggleOptionSelection, TypeOK
<1>9. ASSUME NEW i \in cart, ChangeRow(i) PROVE TypeOK'
  <2>1. i.id \in Nat
    BY CartFacts DEF TypeOK, Rows
  <2>2. CASE \E q \in {i.quantity - 1, i.quantity + 1} \cap (1 .. MaxQuantity) :
               Press([Call("update") EXCEPT !.id = i.id, !.quantity = q])
    <3>1. PICK q \in 1 .. MaxQuantity :
            Press([Call("update") EXCEPT !.id = i.id, !.quantity = q])
      BY <2>2
    <3>2. /\ calls' \subseteq CallRecord /\ presses' \in Nat /\ lapses' \in Nat
          /\ overlapped' \in BOOLEAN
      BY <2>1, <3>1, UpdateRequest, PressTyped
    <3> QED
      BY <1>9, <3>2, ZenonT(60) DEF ChangeRow, TypeOK
  <2>3. CASE Press([Call("remove") EXCEPT !.id = i.id])
    <3>1. /\ calls' \subseteq CallRecord /\ presses' \in Nat /\ lapses' \in Nat
          /\ overlapped' \in BOOLEAN
      BY <2>1, <2>3, RemoveRequest, PressTyped
    <3> QED
      BY <1>9, <3>1 DEF ChangeRow, TypeOK
  <2> QED
    BY <1>9, <2>2, <2>3 DEF ChangeRow
<1>10. ASSUME NEW code \in Codes, ChangeCoupon(code) PROVE TypeOK'
  <2>1. /\ preview' \in Prices \cup {None} /\ previewAsked' \in Prices \cup {None, Asked}
        /\ previewLoading' \in BOOLEAN /\ exchanged' \in BOOLEAN
    BY <1>10, EffectTyped DEF ChangeCoupon
  <2> QED
    BY <1>10, <2>1 DEF ChangeCoupon, TypeOK
<1>11. CASE PlaceOrder
  <2>1. Press([Call("checkout") EXCEPT !.id = presses, !.pay = Lines])
    BY <1>11 DEF PlaceOrder
  <2>2. PICK lines \in Payments : lines = Lines
    BY LinesTyped
  <2>3. /\ calls' \subseteq CallRecord /\ presses' \in Nat /\ lapses' \in Nat
        /\ overlapped' \in BOOLEAN
    BY <2>1, <2>2, CheckoutRequest, PressTyped DEF TypeOK
  <2> QED
    BY <1>11, <2>3 DEF PlaceOrder, TypeOK
<1>12. CASE ClosePayment
  BY <1>12 DEF ClosePayment, TypeOK
<1> QED
  BY <1>1, <1>2, <1>3, <1>4, <1>5, <1>6, <1>7, <1>8, <1>9, <1>10, <1>11, <1>12 DEF Customer

LEMMA AnswersTyped ==
  ASSUME TypeOK, NEW c \in calls, Answers(c)
  PROVE  TypeOK'
<1>1. c \in CallRecord /\ Carries(c)
  BY RequestTyped DEF TypeOK
<1>2. c.read \in Carts
  BY <1>1 DEF Carries
<1>3. c.op \in {"menu", "options", "clear"} => c.of \in Restaurants
  BY <1>1 DEF Carries
<1>4. c.op \in {"checkout", "refresh"} => c.pay \in Payments
  BY <1>1 DEF Carries
<1>5. ASSUME NEW new \in Carts, SetCart(new)
      PROVE  /\ cart' \in Carts /\ preview' \in Prices \cup {None}
             /\ previewAsked' \in Prices \cup {None, Asked}
             /\ previewLoading' \in BOOLEAN /\ exchanged' \in BOOLEAN
  BY <1>5, EffectTyped DEF SetCart
<1>6. CASE MenuLoaded(c)
  <2>1. calls' \subseteq CallRecord
    BY <1>6 DEF MenuLoaded, Consume, TypeOK
  <2>2. menuOf' \in Restaurants \cup {None}
    BY <1>3, <1>6 DEF MenuLoaded, Answered, TypeOK
  <2> QED
    BY <1>6, <2>1, <2>2, ZenonT(60) DEF MenuLoaded, TypeOK
<1>7. CASE CartCleared(c)
  <2>1. CASE c.got = "ok"
    <3>1. c.of \in Restaurants /\ SetCart({}) /\ {} \in Carts
      BY <1>3, <1>7, <2>1, CartFacts DEF CartCleared, Answered
    <3>2. LoadRestaurantMenu(c.of, TRUE) \in CallRecord
      BY <3>1, MenuRequest DEF IsRequest
    <3>3. calls' \subseteq CallRecord
      BY <1>7, <2>1, <3>2 DEF CartCleared, Consume, TypeOK
    <3>4. /\ cart' \in Carts /\ preview' \in Prices \cup {None}
          /\ previewAsked' \in Prices \cup {None, Asked}
          /\ previewLoading' \in BOOLEAN /\ exchanged' \in BOOLEAN
      BY <1>5, <3>1
    <3> QED
      BY <1>7, <2>1, <3>1, <3>3, <3>4 DEF CartCleared, TypeOK
  <2>2. CASE c.got # "ok"
    BY <1>7, <2>2 DEF CartCleared, Consume, KeepCart, TypeOK
  <2> QED
    BY <2>1, <2>2
<1>8. CASE OptionsLoaded(c)
  <2>1. c.of \in Restaurants
    BY <1>3, <1>8 DEF OptionsLoaded, Answered
  <2>2. AddToCart(c.of) \in CallRecord
    BY <2>1, AddRequest DEF IsRequest
  <2>3. calls' \subseteq CallRecord /\ loading' \in BOOLEAN
    BY <1>8, <2>2 DEF OptionsLoaded, Consume, TypeOK
  <2>4. chosen' \in [of : Restaurants, options : SUBSET Options] \cup {None}
    BY <1>8, <2>1 DEF OptionsLoaded, TypeOK
  <2> QED
    BY <1>8, <2>3, <2>4 DEF OptionsLoaded, TypeOK
<1>9. CASE CartChanged(c)
  <2>1. CASE c.got = "ok"
    BY <1>2, <1>5, <1>9, <2>1 DEF CartChanged, Consume, TypeOK
  <2>2. CASE c.got # "ok"
    BY <1>9, <2>2 DEF CartChanged, Consume, KeepCart, TypeOK
  <2> QED
    BY <2>1, <2>2
<1>10. CASE OrderRepeated(c)
  <2>1. CASE c.got = "ok"
    BY <1>2, <1>5, <1>10, <2>1 DEF OrderRepeated, Consume, TypeOK
  <2>2. CASE c.got # "ok"
    BY <1>10, <2>2 DEF OrderRepeated, Consume, KeepCart, TypeOK
  <2> QED
    BY <2>1, <2>2
<1>11. CASE CheckoutAnswered(c)
  <2>1. c.pay \in Payments
    BY <1>4, <1>11 DEF CheckoutAnswered, Answered
  <2>2. PICK pay \in Payments : pay = c.pay
    BY <2>1
  <2>3. CASE c.got = "ok"
    <3>1. PreviewEffect(cart, None, isOnline) /\ coupon' \in Codes
      BY <1>11, <2>3 DEF CheckoutAnswered, Codes
    <3>2. /\ preview' \in Prices \cup {None} /\ previewAsked' \in Prices \cup {None, Asked}
          /\ previewLoading' \in BOOLEAN /\ exchanged' \in BOOLEAN
      BY <3>1, EffectTyped
    <3>3. [Call("refresh") EXCEPT !.pay = pay] \in CallRecord
      BY RefreshRequest DEF IsRequest
    <3>4. /\ calls' \subseteq CallRecord /\ loading' \in BOOLEAN
          /\ pendingPayment' \in Payments \cup {None}
      BY <1>11, <2>2, <2>3, <3>3 DEF CheckoutAnswered, Consume, AskPayment, TypeOK
    <3> QED
      BY <1>11, <3>1, <3>2, <3>4 DEF CheckoutAnswered, TypeOK
  <2>4. CASE c.got # "ok"
    BY <1>11, <2>4 DEF CheckoutAnswered, Consume, TypeOK
  <2> QED
    BY <2>3, <2>4
<1>12. CASE CartRefreshed(c)
  <2>1. c.pay \in Payments
    BY <1>4, <1>12 DEF CartRefreshed, Answered
  <2>2. CASE c.got = "ok"
    BY <1>2, <1>5, <1>12, <2>1, <2>2 DEF CartRefreshed, Consume, AskPayment, TypeOK
  <2>3. CASE c.got # "ok"
    BY <1>12, <2>3 DEF CartRefreshed, Consume, KeepCart, TypeOK
  <2> QED
    BY <2>2, <2>3
<1> QED
  BY <1>6, <1>7, <1>8, <1>9, <1>10, <1>11, <1>12 DEF Answers

LEMMA ServedTyped ==
  ASSUME TypeOK, NEW c \in CallRecord, Served(c)
  PROVE  /\ srvCart' \in Carts /\ items' \in 0 .. MaxItems
         /\ orders' \subseteq [no : Nat, rows : SUBSET (1 .. MaxItems)] /\ IsFiniteSet(orders')
<1>1. Carries(c)
  BY RequestTyped
<1>2. MaxItems \in Nat /\ 1 \in 1 .. MaxQuantity
  BY CustomerCartAssumption
<1>3. srvCart \in Carts /\ items \in 0 .. MaxItems
  BY DEF TypeOK
<1>4. CASE Add(c)
  <2>1. c.of \in Restaurants /\ c.quantity \in 1 .. MaxQuantity /\ items + 1 \in 1 .. MaxItems
    BY <1>1, <1>2, <1>3, <1>4, CustomerCartAssumption DEF Carries, Add
  <2>2. Row(items + 1, c.of, c.quantity) \in Rows
    BY <2>1, RowTyped
  <2>3. srvCart' \in Carts
    BY <1>3, <1>4, <2>2, CartFacts DEF Add
  <2>4. items' \in 0 .. MaxItems
    BY <1>2, <1>4, <2>1 DEF Add
  <2> QED
    BY <1>4, <2>3, <2>4 DEF Add, TypeOK
<1>5. CASE Checkout(c)
  <2>1. {i.id : i \in c.read} \subseteq 1 .. MaxItems
    BY <1>1, CartFacts DEF Carries, Rows
  <2>2. PICK o : /\ o = [no |-> Cardinality(orders) + 1, rows |-> {i.id : i \in c.read}]
                 /\ orders' = orders \cup {o}
    BY <1>5 DEF Checkout
  <2>3. IsFiniteSet(orders')
    BY <2>2, FS_AddElement DEF TypeOK
  <2>4. Cardinality(orders) \in Nat
    BY FS_CardinalityType DEF TypeOK
  <2>5. o \in [no : Nat, rows : SUBSET (1 .. MaxItems)]
    BY <2>1, <2>2, <2>4
  <2> QED
    BY <1>5, <2>2, <2>3, <2>5, CartFacts DEF Checkout, TypeOK
<1>6. CASE Update(c)
  <2>1. PICK i \in srvCart : srvCart' = (srvCart \ {i}) \cup
            (IF c.op = "remove" THEN {} ELSE {[i EXCEPT !.quantity = c.quantity]})
    BY <1>6 DEF Update
  <2>2. i \in Rows /\ srvCart \ {i} \in Carts
    BY <1>3, CartFacts
  <2>3. CASE c.op = "remove"
    BY <1>6, <2>1, <2>2, <2>3 DEF Update, TypeOK
  <2>4. CASE c.op # "remove"
    <3>1. c.quantity \in 1 .. MaxQuantity
      BY <1>1, <1>6, <2>4, CustomerCartAssumption DEF Carries, Update
    <3>2. PICK j : j = [i EXCEPT !.quantity = c.quantity]
      OBVIOUS
    <3>3. j \in Rows
      BY <2>2, <3>1, <3>2 DEF Rows
    <3>4. srvCart' = (srvCart \ {i}) \cup {j}
      BY <2>1, <2>4, <3>2
    <3>5. srvCart' \in Carts
      BY <2>2, <3>3, <3>4, CartFacts
    <3> QED
      BY <1>6, <3>5 DEF Update, TypeOK
  <2> QED
    BY <2>3, <2>4
<1>7. CASE Clear(c)
  BY <1>7, CartFacts DEF Clear, TypeOK
<1>8. CASE Repeat(c)
  <2>1. c.of \in Restaurants /\ items + 1 \in 1 .. MaxItems
    BY <1>1, <1>2, <1>3, <1>8 DEF Carries, Repeat
  <2>2. Row(items + 1, c.of, 1) \in Rows
    BY <1>2, <2>1, RowTyped
  <2> QED
    BY <1>3, <1>8, <2>1, <2>2, CartFacts DEF Repeat, TypeOK
<1>9. CASE Query(c)
  BY <1>9 DEF Query, TypeOK
<1> QED
  BY <1>4, <1>5, <1>6, <1>7, <1>8, <1>9 DEF Served

\* what a reply leaves under way
LEMMA ReplaceTyped ==
  ASSUME TypeOK, NEW c \in calls, NEW got \in Got, NEW read \in Carts, Replace(c, got, read)
  PROVE  \E a \in CallRecord :
           /\ calls' = (calls \ {c}) \cup {a}
           /\ a.op = c.op /\ a.pay = c.pay /\ a.got = got /\ a.read = read
<1>1. c \in CallRecord
  BY DEF TypeOK
<1>2. PICK a \in CallRecord :
        /\ a = [c EXCEPT !.got = got, !.read = read]
        /\ a.op = c.op /\ a.of = c.of /\ a.pay = c.pay /\ a.got = got /\ a.read = read
  BY <1>1, ReplyTyped
<1>3. calls' = (calls \ {c}) \cup {a}
  BY <1>2 DEF Replace
<1> QED
  BY <1>2, <1>3

\* What a step of the server on request c does: nothing is committed but when "ok" comes
\* back, or when what comes back is lost.
LEMMA ServeCases ==
  ASSUME TypeOK, NEW c \in calls, Serve(c)
  PROVE  \E a \in CallRecord :
           /\ calls' = (calls \ {c}) \cup {a} /\ a.op = c.op
           /\ \/ /\ Read(c) /\ a.got = "reading" /\ a.read = srvCart /\ a.pay = c.pay
              \/ /\ Served(c) /\ c.op # "checkout"
                 /\ a.got = "ok" /\ a.read = srvCart' /\ a.pay = c.pay
              \/ /\ Served(c) /\ c.op = "checkout" /\ a.got = "ok" /\ a.read = {}
                 /\ a.pay \in Payments
                 /\ a.pay.shown = c.pay.shown /\ a.pay.settled = c.pay.settled
                 /\ a.pay.exchanged = c.pay.exchanged
                 /\ a.pay.priced = Price(c.read, c.pay.code)
              \/ /\ MayRefuse(c) /\ UNCHANGED serverVars
                 /\ a.got = "error" /\ a.read = {} /\ a.pay = c.pay
<1>1. c \in CallRecord /\ srvCart \in Carts /\ {} \in Carts
  BY CartFacts DEF TypeOK
<1>2. CASE Read(c)
  <2>1. Replace(c, "reading", srvCart) /\ "reading" \in Got
    BY <1>2 DEF Read, Got
  <2> QED
    BY <1>1, <1>2, <2>1, ReplaceTyped
<1>3. CASE Served(c) /\ Reply(c)
  <2>1. srvCart' \in Carts /\ "ok" \in Got
    BY <1>1, <1>3, ServedTyped DEF Got
  <2>2. CASE c.op # "checkout"
    <3>1. Replace(c, "ok", srvCart')
      BY <1>3, <2>2 DEF Reply
    <3>2. PICK read \in Carts : read = srvCart'
      BY <2>1
    <3>3. Replace(c, "ok", read)
      BY <3>1, <3>2
    <3> QED
      BY <1>3, <2>1, <2>2, <3>2, <3>3, ReplaceTyped
  <2>3. CASE c.op = "checkout"
    <3>1. PICK a \in CallRecord :
            /\ a = [c EXCEPT !.got = "ok", !.read = {},
                             !.pay = [c.pay EXCEPT !.priced = Price(c.read, c.pay.code)]]
            /\ a.op = "checkout" /\ a.got = "ok" /\ a.read = {}
            /\ a.pay \in Payments
            /\ a.pay.shown = c.pay.shown /\ a.pay.settled = c.pay.settled
            /\ a.pay.exchanged = c.pay.exchanged
            /\ a.pay.priced = Price(c.read, c.pay.code)
      BY <1>1, <2>3, PricedTyped
    <3>2. calls' = (calls \ {c}) \cup {a}
      BY <1>3, <2>3, <3>1 DEF Reply
    <3> QED
      BY <1>3, <2>3, <3>1, <3>2
  <2> QED
    BY <2>2, <2>3
<1>4. CASE MayRefuse(c) /\ Replace(c, "error", {}) /\ UNCHANGED serverVars
  <2>1. "error" \in Got
    BY DEF Got
  <2> QED
    BY <1>1, <1>4, <2>1, ReplaceTyped
<1> QED
  BY <1>2, <1>3, <1>4 DEF Serve

LEMMA ServerTyped ==
  ASSUME TypeOK, NEW c \in calls, Serve(c) \/ Lose(c)
  PROVE  TypeOK'
<1>1. c \in CallRecord
  BY DEF TypeOK
<1>2. CASE Serve(c)
  <2>1. PICK a \in CallRecord : /\ calls' = (calls \ {c}) \cup {a}
                                /\ Served(c) \/ UNCHANGED serverVars
    BY <1>2, ServeCases DEF Read
  <2>2. /\ srvCart' \in Carts /\ items' \in 0 .. MaxItems
        /\ orders' \subseteq [no : Nat, rows : SUBSET (1 .. MaxItems)] /\ IsFiniteSet(orders')
    BY <1>1, <2>1, ServedTyped DEF TypeOK
  <2>3. calls' \subseteq CallRecord
    BY <2>1 DEF TypeOK
  <2> QED
    BY <1>2, <2>2, <2>3 DEF Serve, TypeOK
<1>3. CASE Lose(c)
  <2>1. PICK a \in CallRecord : calls' = (calls \ {c}) \cup {a}
    BY <1>3, ReplaceTyped, CartFacts DEF Lose, Got
  <2>2. /\ srvCart' \in Carts /\ items' \in 0 .. MaxItems
        /\ orders' \subseteq [no : Nat, rows : SUBSET (1 .. MaxItems)] /\ IsFiniteSet(orders')
    BY <1>1, <1>3, ServedTyped DEF Lose, TypeOK
  <2>3. calls' \subseteq CallRecord /\ lapses' \in Nat
    BY <1>3, <2>1 DEF Lose, TypeOK
  <2> QED
    BY <1>3, <2>2, <2>3 DEF Lose, TypeOK
<1> QED
  BY <1>2, <1>3

LEMMA PreviewTyped ==
  ASSUME TypeOK, NetworkChanges \/ PreviewServed \/ PreviewAnswered
  PROVE  TypeOK'
<1>1. CASE NetworkChanges
  <2>1. /\ preview' \in Prices \cup {None} /\ previewAsked' \in Prices \cup {None, Asked}
        /\ previewLoading' \in BOOLEAN /\ exchanged' \in BOOLEAN
    BY <1>1, EffectTyped DEF NetworkChanges
  <2> QED
    BY <1>1, <2>1 DEF NetworkChanges, TypeOK
<1>2. CASE PreviewServed
  <2>1. Price(srvCart, coupon) \in Prices
    BY PriceTyped DEF TypeOK
  <2> QED
    BY <1>2, <2>1 DEF PreviewServed, TypeOK
<1>3. CASE PreviewAnswered
  <2>1. preview' \in Prices \cup {None} /\ previewAsked' \in Prices \cup {None, Asked}
    BY <1>3 DEF PreviewAnswered, TypeOK
  <2>2. previewLoading' = FALSE /\ lapses' \in {lapses, lapses + 1}
    BY <1>3 DEF PreviewAnswered
  <2>3. lapses \in Nat
    BY DEF TypeOK
  <2>4. previewLoading' \in BOOLEAN
    BY <2>2
  <2>5. lapses' \in Nat
    BY <2>2, <2>3
  <2> QED
    BY <1>3, <2>1, <2>4, <2>5 DEF PreviewAnswered, TypeOK
<1> QED
  BY <1>1, <1>2, <1>3

LEMMA NextTyped ==
  ASSUME TypeOK, [Next]_vars
  PROVE  TypeOK'
<1>1. CASE UNCHANGED vars
  BY <1>1 DEF vars, TypeOK
<1>2. CASE Next
  BY <1>2, CustomerTyped, AnswersTyped, ServerTyped, PreviewTyped DEF Next
<1> QED
  BY <1>1, <1>2

\* Every reachable state is well typed: what is in a cart is a row that was made, and what
\* is shown as a price is the price of some cart.
THEOREM TypeCorrect == Spec => []TypeOK
<1>1. Init => TypeOK
  BY InitTyped
<1>2. TypeOK /\ [Next]_vars => TypeOK'
  BY NextTyped
<1> QED
  BY <1>1, <1>2, PTL DEF Spec

-----------------------------------------------------------------------------
(* The invariants                                                          *)

\* The server never gives a row the number of one it has sold.
RowsInv ==
  /\ TypeOK
  /\ \A i \in srvCart : i.id <= items
  /\ \A c \in calls : c.got = "reading" => \A i \in c.read : i.id <= items
  /\ \A o \in orders : \A n \in o.rows : n <= items /\ \A i \in srvCart : i.id # n

\* how the one request under way ties the screen to the server
Tied(c) ==
  /\ c.got # "ok" /\ c.op # "refresh" => cart = srvCart
  /\ c.op \in {"menu", "options"} => cart = srvCart
  /\ c.got = "reading" => c.read = srvCart
  /\ c.op \in {"checkout", "refresh"} => loading
  /\ c.op = "refresh" => c.got \in {"sent", "ok"}
  /\ (c.got = "ok" /\ c.op \in {"add", "update", "remove", "repeat", "refresh"}) =>
       c.read = srvCart
  /\ (c.got = "ok" /\ c.op \in {"clear", "checkout"}) => srvCart = {}

\* A price is that of an order: or it has what the screen watches, for another cart.
Worth(p, price, other) ==
  /\ p # None
  /\ Watched(p.cart, p.code) = Watched(price.cart, price.code)
  /\ other \/ p = price

\* what the lines of a payment are worth on the way to its modal
LinesTied(c) ==
  c.pay.settled =>
    /\ c.op = "checkout" /\ c.got \in {"sent", "reading"} =>
         Worth(c.pay.shown, Price(srvCart, c.pay.code), c.pay.exchanged)
    /\ c.op = "checkout" /\ c.got = "ok" =>
         Worth(c.pay.shown, c.pay.priced, c.pay.exchanged)
    /\ c.op = "refresh" => Worth(c.pay.shown, c.pay.priced, c.pay.exchanged)

\* what a preview may have been computed from
UpToDate(p) == Worth(p, Price(cart, coupon), exchanged) \/ p = Price(srvCart, coupon)

PreviewInv ==
  /\ previewAsked \notin {None, Asked} => UpToDate(previewAsked)
  /\ (previewAsked = None /\ cart # {}) => UpToDate(preview)

PaymentAddsUp ==
  (pendingPayment # None /\ pendingPayment.settled) =>
    Worth(pendingPayment.shown, pendingPayment.priced, pendingPayment.exchanged)

CalmInv ==
  /\ isOnline
  /\ \A b, c \in calls : b = c
  /\ calls = {} => cart = srvCart
  /\ \A c \in calls : Tied(c) /\ LinesTied(c)
  /\ PreviewInv
  /\ \A a, b \in orders : a # b => a.rows \cap b.rows = {}
  /\ PaymentAddsUp

CartInv == RowsInv /\ (Calm => CalmInv)

-----------------------------------------------------------------------------
(* Buttons                                                                 *)

\* what pressing a button without an overlap says of the other requests
LEMMA PressedAlone ==
  ASSUME NEW a, Press(a), ~overlapped'
  PROVE  /\ a.op \notin {"checkout", "refresh"} => calls = {}
         /\ \A other \in calls : other.op \in {"checkout", "refresh"}
<1>1. PICK p \in BOOLEAN : p = \E other \in calls : Overlaps(a, other)
  OBVIOUS
<1>2. overlapped' = (overlapped \/ p)
  BY <1>1 DEF Press
<1>3. ~p
  BY <1>2
<1> QED
  BY <1>1, <1>3 DEF Overlaps

\* A button makes one request at most, and nothing of the server's changes.
LEMMA Pressed ==
  ASSUME TypeOK, Customer
  PROVE  /\ UNCHANGED <<isOnline, cart, serverVars, lapses>>
         /\ \/ /\ calls' = calls /\ UNCHANGED <<overlapped, loading>>
               /\ pendingPayment' \in {pendingPayment, None}
               /\ \/ UNCHANGED <<coupon, previewVars>>
                  \/ PreviewEffect(cart, coupon', isOnline)
            \/ \E a \in CallRecord :
                 /\ Press(a) /\ a.op \notin {"checkout", "refresh"} /\ a.got = "sent"
                 /\ calls' = calls \cup {a}
                 /\ UNCHANGED <<coupon, previewVars, pendingPayment>>
            \/ PlaceOrder
<1> DEFINE One == \E a \in CallRecord :
                    /\ Press(a) /\ a.op \notin {"checkout", "refresh"} /\ a.got = "sent"
                    /\ calls' = calls \cup {a}
<1>1. ASSUME NEW a, NEW op, IsRequest(a, op), op \notin {"checkout", "refresh"}, Press(a)
      PROVE  One /\ UNCHANGED lapses
  BY <1>1 DEF IsRequest, Press
<1> HIDE DEF One
<1> DEFINE Quiet == UNCHANGED <<isOnline, cart, serverVars>>
           Rest == UNCHANGED <<coupon, previewVars, pendingPayment>>
           Same == /\ calls' = calls /\ UNCHANGED <<overlapped, lapses, loading>>
                   /\ pendingPayment' \in {pendingPayment, None}
                   /\ \/ UNCHANGED <<coupon, previewVars>>
                      \/ PreviewEffect(cart, coupon', isOnline)
<1>2. SUFFICES Quiet /\ (Same \/ (One /\ UNCHANGED lapses /\ Rest) \/ (PlaceOrder /\ UNCHANGED lapses))
  BY DEF One
<1>3. ASSUME NEW r \in Restaurants, OpenRestaurant(r)
      PROVE  Quiet /\ Rest /\ (Same \/ (One /\ UNCHANGED lapses))
  <2>1. CASE CartRestaurants \subseteq {r}
    <3>1. Press(LoadRestaurantMenu(r, FALSE)) /\ IsRequest(LoadRestaurantMenu(r, FALSE), "menu")
      BY <1>3, <2>1, MenuRequest DEF OpenRestaurant
    <3> QED
      BY <1>1, <1>3, <3>1 DEF OpenRestaurant
  <2>2. CASE ~(CartRestaurants \subseteq {r})
    BY <1>3, <2>2 DEF OpenRestaurant
  <2> QED
    BY <2>1, <2>2
<1>4. ASSUME NEW r \in Restaurants, RepeatOrder(r) PROVE Quiet /\ Rest /\ One /\ UNCHANGED lapses
  BY <1>1, <1>4, RepeatRequest DEF RepeatOrder
<1>5. CASE ConfirmRestaurantSwitch
  <2>1. switchTo \in Restaurants
    BY <1>5 DEF ConfirmRestaurantSwitch, TypeOK
  <2>2. PICK a : a = [Call("clear") EXCEPT !.of = switchTo, !.switch = TRUE]
    OBVIOUS
  <2>3. IsRequest(a, "clear") /\ Press(a)
    BY <1>5, <2>1, <2>2, ClearRequest DEF ConfirmRestaurantSwitch
  <2> QED
    BY <1>1, <1>5, <2>3 DEF ConfirmRestaurantSwitch
<1>6. CASE AddProduct
  <2>1. menuOf \in Restaurants
    BY <1>6 DEF AddProduct, TypeOK
  <2> QED
    BY <1>1, <1>6, <2>1, OptionsRequest, AddRequest DEF AddProduct
<1>7. CASE ConfirmAddWithOptions
  <2>1. chosen.of \in Restaurants
    BY <1>7 DEF ConfirmAddWithOptions, TypeOK
  <2> QED
    BY <1>1, <1>7, <2>1, AddRequest DEF ConfirmAddWithOptions
<1>8. ASSUME NEW i \in cart, ChangeRow(i) PROVE Quiet /\ Rest /\ One /\ UNCHANGED lapses
  <2>1. i.id \in Nat
    BY CartFacts DEF TypeOK, Rows
  <2>2. One /\ UNCHANGED lapses
    <3>1. CASE \E q \in {i.quantity - 1, i.quantity + 1} \cap (1 .. MaxQuantity) :
                 Press([Call("update") EXCEPT !.id = i.id, !.quantity = q])
      <4>1. PICK q \in 1 .. MaxQuantity :
              Press([Call("update") EXCEPT !.id = i.id, !.quantity = q])
        BY <3>1
      <4>2. PICK a : a = [Call("update") EXCEPT !.id = i.id, !.quantity = q]
        OBVIOUS
      <4>3. IsRequest(a, "update") /\ Press(a)
        BY <2>1, <4>1, <4>2, UpdateRequest
      <4> QED
        BY <1>1, <4>3
    <3>2. CASE Press([Call("remove") EXCEPT !.id = i.id])
      BY <1>1, <2>1, <3>2, RemoveRequest
    <3> QED
      BY <1>8, <3>1, <3>2 DEF ChangeRow
  <2> QED
    BY <1>8, <2>2 DEF ChangeRow
<1>9. CASE \/ CancelRestaurantSwitch \/ CloseOptions \/ ClosePayment
           \/ \E o \in Options : ToggleOptionSelection(o)
           \/ \E code \in Codes : ChangeCoupon(code)
  BY <1>9 DEF CancelRestaurantSwitch, CloseOptions, ClosePayment, ToggleOptionSelection,
              ChangeCoupon
<1>10. CASE PlaceOrder
  BY <1>10 DEF PlaceOrder, Press
<1> QED
  BY <1>3, <1>4, <1>5, <1>6, <1>7, <1>8, <1>9, <1>10 DEF Customer

\* what the button of the checkout sends
LEMMA Placed ==
  ASSUME TypeOK, PlaceOrder
  PROVE  \E a \in CallRecord :
           /\ Press(a) /\ a.op = "checkout" /\ a.got = "sent" /\ a.pay = Lines
           /\ calls' = calls \cup {a} /\ Lines \in Payments
<1>1. PICK lines \in Payments : lines = Lines
  BY LinesTyped
<1>2. PICK a : a = [Call("checkout") EXCEPT !.id = presses, !.pay = lines]
  OBVIOUS
<1>3. Press(a)
  BY <1>1, <1>2 DEF PlaceOrder
<1>4. a \in CallRecord /\ a.op = "checkout" /\ a.got = "sent" /\ a.pay = lines
  BY <1>2, CheckoutRequest DEF IsRequest, TypeOK
<1> QED
  BY <1>1, <1>3, <1>4 DEF Press

-----------------------------------------------------------------------------
(* No row is given the number of one that was sold                         *)

LEMMA RowsServed ==
  ASSUME RowsInv, NEW c \in calls, Served(c)
  PROVE  /\ items <= items'
         /\ \A i \in srvCart' : i.id <= items'
         /\ \A o \in orders' : \A n \in o.rows : n <= items' /\ \A i \in srvCart' : i.id # n
<1>1. /\ items \in Nat /\ \A i \in srvCart : i.id \in Nat
      /\ \A o \in orders : \A n \in o.rows : n \in Nat
  BY CartFacts DEF RowsInv, TypeOK, Rows
<1>2. c \in CallRecord /\ c.read \in Carts
  BY RequestTyped DEF RowsInv, TypeOK, Carries
<1>3. \A i \in c.read : i.id \in Nat
  BY <1>2, CartFacts DEF Rows
<1>4. CASE Add(c)
  <2>0. PICK j : j = Row(items + 1, c.of, c.quantity)
    OBVIOUS
  <2>1. j.id = items + 1
    BY <2>0 DEF Row
  <2>2. srvCart' = srvCart \cup {j} /\ items' = items + 1 /\ orders' = orders
    BY <1>4, <2>0 DEF Add
  <2> QED
    BY <1>1, <2>1, <2>2 DEF RowsInv
<1>5. CASE Checkout(c)
  <2>1. PICK o : o.rows = {i.id : i \in c.read} /\ orders' = orders \cup {o}
    BY <1>5 DEF Checkout
  <2>2. \A n \in o.rows : n <= items
    BY <1>5, <2>1 DEF RowsInv, Checkout
  <2> QED
    BY <1>1, <1>5, <2>1, <2>2 DEF RowsInv, Checkout
<1>6. CASE Update(c)
  <2>1. PICK i \in srvCart : srvCart' = (srvCart \ {i}) \cup
            (IF c.op = "remove" THEN {} ELSE {[i EXCEPT !.quantity = c.quantity]})
    BY <1>6 DEF Update
  <2>2. PICK j : j = [i EXCEPT !.quantity = c.quantity]
    OBVIOUS
  <2>3. i \in Rows
    BY CartFacts DEF RowsInv, TypeOK
  <2>4. j.id = i.id
    BY <2>2, <2>3 DEF Rows
  <2>5. srvCart' \subseteq srvCart \cup {j}
    BY <2>1, <2>2
  <2> QED
    BY <1>1, <1>6, <2>4, <2>5 DEF RowsInv, Update
<1>7. CASE Clear(c)
  BY <1>1, <1>7 DEF RowsInv, Clear
<1>8. CASE Repeat(c)
  <2>0. PICK j : j = Row(items + 1, c.of, 1)
    OBVIOUS
  <2>1. j.id = items + 1
    BY <2>0 DEF Row
  <2>2. srvCart' = {j} /\ items' = items + 1 /\ orders' = orders
    BY <1>8, <2>0 DEF Repeat
  <2> QED
    BY <1>1, <2>1, <2>2 DEF RowsInv
<1>9. CASE Query(c)
  BY <1>1, <1>9 DEF RowsInv, Query
<1> QED
  BY <1>4, <1>5, <1>6, <1>7, <1>8, <1>9 DEF Served

\* what the answers leave under way
LEMMA AnswersCalls ==
  ASSUME TypeOK, NEW c \in calls, Answers(c)
  PROVE  /\ UNCHANGED <<serverVars, boundVars, isOnline>>
         /\ \A a \in calls' : a \in calls \/ a.got = "sent"
<1>1. Carries(c)
  BY RequestTyped DEF TypeOK
<1>2. CASE CartCleared(c)
  <2>1. c.of \in Restaurants
    BY <1>1, <1>2 DEF CartCleared, Answered, Carries
  <2>2. LoadRestaurantMenu(c.of, TRUE).got = "sent"
    BY <2>1, MenuRequest DEF IsRequest
  <2> QED
    BY <1>2, <2>2 DEF CartCleared, Consume
<1>3. CASE OptionsLoaded(c)
  <2>1. c.of \in Restaurants
    BY <1>1, <1>3 DEF OptionsLoaded, Answered, Carries
  <2>2. AddToCart(c.of).got = "sent"
    BY <2>1, AddRequest DEF IsRequest
  <2> QED
    BY <1>3, <2>2 DEF OptionsLoaded, Consume
<1>4. CASE CheckoutAnswered(c)
  <2>1. PICK pay \in Payments : pay = c.pay
    BY <1>1, <1>4 DEF CheckoutAnswered, Answered, Carries
  <2>2. [Call("refresh") EXCEPT !.pay = pay].got = "sent"
    BY RefreshRequest DEF IsRequest
  <2> QED
    BY <1>4, <2>1, <2>2 DEF CheckoutAnswered, Consume
<1>5. CASE MenuLoaded(c)
  BY <1>5 DEF MenuLoaded, Consume
<1>6. CASE CartChanged(c)
  BY <1>6 DEF CartChanged, Consume
<1>7. CASE OrderRepeated(c)
  BY <1>7 DEF OrderRepeated, Consume
<1>8. CASE CartRefreshed(c)
  BY <1>8 DEF CartRefreshed, Consume
<1> QED
  BY <1>2, <1>3, <1>4, <1>5, <1>6, <1>7, <1>8 DEF Answers

LEMMA RowsStep ==
  ASSUME RowsInv, Next
  PROVE  RowsInv'
<1>1. TypeOK /\ TypeOK'
  BY NextTyped DEF RowsInv
<1>2. ASSUME UNCHANGED serverVars, \A a \in calls' : a \in calls \/ a.got # "reading"
      PROVE  RowsInv'
  BY <1>1, <1>2 DEF RowsInv
<1>3. CASE Customer
  <2>1. UNCHANGED serverVars
    BY <1>1, <1>3, Pressed
  <2>2. \A a \in calls' : a \in calls \/ a.got = "sent"
    BY <1>1, <1>3, Pressed, Placed
  <2> QED
    BY <1>2, <2>1, <2>2
<1>4. CASE \E c \in calls : Answers(c)
  BY <1>1, <1>2, <1>4, AnswersCalls
<1>5. CASE NetworkChanges \/ PreviewServed \/ PreviewAnswered
  BY <1>2, <1>5 DEF NetworkChanges, PreviewServed, PreviewAnswered
<1>6. ASSUME NEW c \in calls, Serve(c) \/ Lose(c) PROVE RowsInv'
  <2>1. PICK a : /\ calls' = (calls \ {c}) \cup {a}
                 /\ \/ Served(c) /\ a.got # "reading"
                    \/ UNCHANGED serverVars /\ (a.got = "reading" => a.read = srvCart)
    <3>1. CASE Serve(c)
      BY <1>1, <3>1, ServeCases DEF Read
    <3>2. CASE Lose(c)
      <4>1. PICK a \in CallRecord : calls' = (calls \ {c}) \cup {a} /\ a.got = "error"
        BY <1>1, <3>2, ReplaceTyped, CartFacts DEF Lose, Got
      <4> QED
        BY <3>2, <4>1 DEF Lose
    <3> QED
      BY <1>6, <3>1, <3>2
  <2>2. CASE UNCHANGED serverVars /\ (a.got = "reading" => a.read = srvCart)
    BY <1>1, <2>1, <2>2 DEF RowsInv
  <2>3. CASE Served(c) /\ a.got # "reading"
    <3>1. /\ items <= items'
          /\ \A i \in srvCart' : i.id <= items'
          /\ \A o \in orders' : \A n \in o.rows : n <= items' /\ \A i \in srvCart' : i.id # n
      BY <2>3, RowsServed
    <3>2. ASSUME NEW b \in calls', b.got = "reading", NEW i \in b.read PROVE i.id <= items'
      <4>1. b \in calls /\ i.id <= items
        BY <2>1, <2>3, <3>2 DEF RowsInv
      <4>2. i.id \in Nat /\ items \in Nat /\ items' \in Nat
        BY <1>1, <3>2, <4>1, RequestTyped, CartFacts DEF TypeOK, Carries, Rows
      <4> QED
        BY <3>1, <4>1, <4>2
    <3> QED
      BY <1>1, <3>1, <3>2 DEF RowsInv
  <2> QED
    BY <2>1, <2>2, <2>3
<1> QED
  BY <1>3, <1>4, <1>5, <1>6 DEF Next

-----------------------------------------------------------------------------
(* The cart and the payment while requests do not overlap                  *)

\* The effect leaves no preview that is out of date, but for the carts that look the same.
LEMMA EffectKeeps ==
  ASSUME TypeOK, TypeOK', PreviewInv, isOnline, UNCHANGED srvCart,
         PreviewEffect(cart', coupon', isOnline)
  PROVE  PreviewInv'
<1>1. cart \in Carts /\ cart' \in Carts /\ Asked # None /\ exchanged \in BOOLEAN
  BY CustomerCartAssumption DEF TypeOK
<1>2. CASE Watched(cart', coupon') = Watched(cart, coupon)
  <2>1. coupon' = coupon /\ (cart = {} <=> cart' = {})
    BY <1>1, <1>2, WatchedTells
  <2>2. /\ UNCHANGED <<preview, previewAsked, previewLoading>>
        /\ exchanged' = (exchanged \/ cart' # cart)
    BY <1>2 DEF PreviewEffect
  <2>3. ASSUME NEW p, UpToDate(p)
        PROVE  Worth(p, Price(cart', coupon'), exchanged') \/ p = Price(srvCart', coupon')
    <3>1. CASE p = Price(srvCart, coupon)
      BY <2>1, <3>1
    <3>2. CASE Worth(p, Price(cart, coupon), exchanged)
      <4>1. p # None /\ Watched(p.cart, p.code) = Watched(cart', coupon')
        BY <1>2, <3>2, PriceTells DEF Worth
      <4>2. exchanged' \/ p = Price(cart', coupon')
        BY <2>1, <2>2, <3>2 DEF Worth
      <4> QED
        BY <4>1, <4>2, PriceTells DEF Worth
    <3> QED
      BY <2>3, <3>1, <3>2 DEF UpToDate
  <2> QED
    BY <2>1, <2>2, <2>3 DEF PreviewInv, UpToDate
<1>3. CASE Watched(cart', coupon') # Watched(cart, coupon)
  <2>1. previewAsked' \in {None, Asked} /\ (previewAsked' = None => cart' = {})
    BY <1>1, <1>3 DEF PreviewEffect
  <2> QED
    BY <2>1 DEF PreviewInv
<1> QED
  BY <1>2, <1>3

SoldApart == \A a, b \in orders : a # b => a.rows \cap b.rows = {}

\* What is left to show when one request at most is under way after the step.
LEMMA OneLeft ==
  ASSUME isOnline', PreviewInv', SoldApart', PaymentAddsUp',
         \/ calls' = {} /\ cart' = srvCart'
         \/ \E a : calls' = {a} /\ Tied(a)' /\ LinesTied(a)'
  PROVE  CalmInv'
BY DEF CalmInv, SoldApart, PaymentAddsUp

LEMMA CalmCustomer ==
  ASSUME TypeOK, TypeOK', CalmInv, Customer, ~overlapped'
  PROVE  CalmInv'
<1>1. UNCHANGED <<isOnline, cart, serverVars, lapses>> /\ isOnline /\ PreviewInv /\ SoldApart
  BY Pressed DEF CalmInv, SoldApart
<1>2. SoldApart' /\ isOnline'
  BY <1>1 DEF SoldApart
<1>3. PaymentAddsUp
  BY DEF CalmInv, PaymentAddsUp
<1>4. CASE /\ calls' = calls /\ UNCHANGED <<overlapped, loading>>
           /\ pendingPayment' \in {pendingPayment, None}
           /\ \/ UNCHANGED <<coupon, previewVars>>
              \/ PreviewEffect(cart, coupon', isOnline)
  <2>1. PreviewInv'
    <3>1. CASE UNCHANGED <<coupon, previewVars>>
      BY <1>1, <3>1 DEF PreviewInv, UpToDate
    <3>2. CASE PreviewEffect(cart, coupon', isOnline)
      BY <1>1, <3>2, EffectKeeps
    <3> QED
      BY <1>4, <3>1, <3>2
  <2>2. PaymentAddsUp'
    BY <1>3, <1>4 DEF PaymentAddsUp
  <2>3. \A c \in calls' : Tied(c)' /\ LinesTied(c)'
    BY <1>1, <1>4 DEF CalmInv, Tied, LinesTied
  <2>4. (\A b, c \in calls' : b = c) /\ (calls' = {} => cart' = srvCart')
    BY <1>1, <1>4 DEF CalmInv
  <2> QED
    BY <1>2, <2>1, <2>2, <2>3, <2>4 DEF CalmInv, SoldApart, PaymentAddsUp
<1>5. ASSUME NEW a \in CallRecord, Press(a), a.op \notin {"checkout", "refresh"},
             a.got = "sent", calls' = calls \cup {a},
             UNCHANGED <<coupon, previewVars, pendingPayment>>
      PROVE  CalmInv'
  <2>1. calls = {} /\ cart = srvCart
    BY <1>5, PressedAlone DEF CalmInv
  <2>2. calls' = {a} /\ Tied(a)' /\ LinesTied(a)'
    BY <1>1, <1>5, <2>1 DEF Tied, LinesTied
  <2>3. PreviewInv' /\ PaymentAddsUp'
    BY <1>1, <1>3, <1>5 DEF PreviewInv, UpToDate, PaymentAddsUp
  <2> QED
    BY <1>2, <2>2, <2>3, OneLeft
<1>6. CASE PlaceOrder
  <2>1. PICK a \in CallRecord :
           /\ Press(a) /\ a.op = "checkout" /\ a.got = "sent" /\ a.pay = Lines
           /\ calls' = calls \cup {a} /\ Lines \in Payments
    BY <1>6, Placed
  <2>2. calls = {} /\ cart = srvCart
    <3>1. \A c \in calls : c.op \in {"checkout", "refresh"}
      BY <2>1, PressedAlone
    <3>2. ~loading
      BY <1>6 DEF PlaceOrder
    <3> QED
      BY <3>1, <3>2 DEF CalmInv, Tied
  <2>3. calls' = {a} /\ Tied(a)'
    BY <1>1, <1>6, <2>1, <2>2 DEF Tied, PlaceOrder
  <2>4. UNCHANGED <<coupon, previewVars, pendingPayment, srvCart>> /\ cart # {}
    BY <1>6 DEF PlaceOrder
  <2>5. LinesTied(a)'
    <3>1. /\ a.pay.shown = preview /\ a.pay.code = coupon /\ a.pay.exchanged = exchanged
          /\ a.pay.settled <=> previewAsked = None
      <4>1. PICK p \in BOOLEAN : p = (previewAsked = None)
        OBVIOUS
      <4>2. Lines = [shown |-> preview, settled |-> p, exchanged |-> exchanged, code |-> coupon,
                     priced |-> Price({}, None)]
        BY <4>1 DEF Lines
      <4>3. /\ a.pay.shown = preview /\ a.pay.code = coupon /\ a.pay.exchanged = exchanged
            /\ a.pay.settled = p
        BY <2>1, <4>2
      <4> QED
        BY <4>1, <4>3
    <3>2. previewAsked = None => Worth(preview, Price(srvCart, coupon), exchanged)
      <4>1. previewAsked = None => UpToDate(preview)
        BY <1>1, <2>4 DEF PreviewInv
      <4>2. Price(srvCart, coupon) # None
        BY PriceTyped, CustomerCartAssumption DEF TypeOK
      <4> QED
        BY <2>2, <4>1, <4>2 DEF UpToDate, Worth
    <3>3. LinesTied(a)' <=> (a.pay.settled =>
            /\ a.op = "checkout" /\ a.got \in {"sent", "reading"} =>
                 Worth(a.pay.shown, Price(srvCart, a.pay.code), a.pay.exchanged)
            /\ a.op = "checkout" /\ a.got = "ok" =>
                 Worth(a.pay.shown, a.pay.priced, a.pay.exchanged)
            /\ a.op = "refresh" => Worth(a.pay.shown, a.pay.priced, a.pay.exchanged))
      BY <2>4 DEF LinesTied
    <3> QED
      BY <2>1, <3>1, <3>2, <3>3
  <2>6. PreviewInv' /\ PaymentAddsUp'
    BY <1>1, <1>3, <2>4 DEF PreviewInv, UpToDate, PaymentAddsUp
  <2> QED
    BY <1>2, <2>3, <2>5, <2>6, OneLeft
<1> QED
  BY <1>4, <1>5, <1>6, Pressed

LEMMA CalmAnswers ==
  ASSUME TypeOK, TypeOK', CalmInv, NEW c \in calls, Answers(c)
  PROVE  CalmInv'
<1>1. /\ UNCHANGED <<serverVars, isOnline>> /\ isOnline /\ PreviewInv
      /\ isOnline' /\ SoldApart' /\ PaymentAddsUp
  BY AnswersCalls DEF CalmInv, SoldApart, PaymentAddsUp
<1>2. calls = {c} /\ Tied(c) /\ LinesTied(c) /\ Carries(c)
  BY RequestTyped DEF CalmInv, TypeOK
<1>3. ASSUME SetCart(cart'), UNCHANGED coupon PROVE PreviewInv'
  BY <1>1, <1>3, EffectKeeps DEF SetCart
<1>4. ASSUME UNCHANGED <<cart, coupon, previewVars>> PROVE PreviewInv'
  BY <1>1, <1>4 DEF PreviewInv, UpToDate
<1>5. ASSUME UNCHANGED pendingPayment PROVE PaymentAddsUp'
  BY <1>1, <1>5 DEF PaymentAddsUp
<1>6. CASE MenuLoaded(c)
  <2>1. calls' = {} /\ UNCHANGED <<cart, coupon, previewVars, pendingPayment>> /\ cart = srvCart
    BY <1>2, <1>6 DEF MenuLoaded, Answered, Consume, Tied
  <2> QED
    BY <1>1, <1>4, <1>5, <2>1, OneLeft
<1>7. CASE CartCleared(c)
  <2>1. UNCHANGED <<coupon, pendingPayment>> /\ c.op = "clear" /\ c.of \in Restaurants
    BY <1>2, <1>7 DEF CartCleared, Answered, Carries
  <2>2. CASE c.got = "ok"
    <3>1. SetCart({}) /\ cart' = {} /\ srvCart' = {}
      BY <1>1, <1>2, <1>7, <2>1, <2>2 DEF CartCleared, SetCart, Tied
    <3>2. PICK a : a = LoadRestaurantMenu(c.of, TRUE)
      OBVIOUS
    <3>3. a.op = "menu" /\ a.got = "sent"
      BY <2>1, <3>2, MenuRequest DEF IsRequest
    <3>4. calls' = {a}
      BY <1>2, <1>7, <2>2, <3>2 DEF CartCleared, Consume
    <3>5. Tied(a)' /\ LinesTied(a)'
      BY <3>1, <3>3 DEF Tied, LinesTied
    <3> QED
      BY <1>1, <1>3, <1>5, <2>1, <3>1, <3>4, <3>5, OneLeft
  <2>3. CASE c.got # "ok"
    <3>1. calls' = {} /\ UNCHANGED <<cart, previewVars>> /\ cart = srvCart
      BY <1>2, <1>7, <2>1, <2>3 DEF CartCleared, Consume, KeepCart, Tied
    <3> QED
      BY <1>1, <1>4, <1>5, <2>1, <3>1, OneLeft
  <2> QED
    BY <2>2, <2>3
<1>8. CASE OptionsLoaded(c)
  <2>1. /\ UNCHANGED <<cart, coupon, previewVars, pendingPayment>> /\ cart = srvCart
        /\ c.of \in Restaurants
    BY <1>2, <1>8 DEF OptionsLoaded, Answered, Tied, Carries
  <2>2. PICK a : a = AddToCart(c.of)
    OBVIOUS
  <2>3. a.op = "add" /\ a.got = "sent"
    BY <2>1, <2>2, AddRequest DEF IsRequest
  <2>4. calls' = {} \/ calls' = {a}
    BY <1>2, <1>8, <2>2 DEF OptionsLoaded, Consume
  <2>5. Tied(a)' /\ LinesTied(a)'
    BY <1>1, <2>1, <2>3 DEF Tied, LinesTied
  <2> QED
    BY <1>1, <1>4, <1>5, <2>1, <2>4, <2>5, OneLeft
<1>9. CASE CartChanged(c) \/ OrderRepeated(c)
  <2>1. /\ UNCHANGED <<coupon, pendingPayment>> /\ calls' = {}
        /\ c.op \in {"add", "update", "remove", "repeat"} /\ c.got \in {"ok", "error"}
        /\ IF c.got = "ok" THEN SetCart(c.read) ELSE KeepCart
    BY <1>2, <1>9 DEF CartChanged, OrderRepeated, Answered, Consume
  <2>2. CASE c.got = "ok"
    <3>1. SetCart(c.read) /\ cart' = c.read /\ c.read = srvCart'
      BY <1>1, <1>2, <2>1, <2>2 DEF SetCart, Tied
    <3> QED
      BY <1>1, <1>3, <1>5, <2>1, <3>1, OneLeft
  <2>3. CASE c.got # "ok"
    <3>1. UNCHANGED <<cart, previewVars>> /\ cart = srvCart
      BY <1>2, <2>1, <2>3 DEF KeepCart, Tied
    <3> QED
      BY <1>1, <1>4, <1>5, <2>1, <3>1, OneLeft
  <2> QED
    BY <2>2, <2>3
<1>10. CASE CheckoutAnswered(c)
  <2>1. UNCHANGED cart /\ c.op = "checkout" /\ c.got \in {"ok", "error"} /\ c.pay \in Payments
    BY <1>2, <1>10 DEF CheckoutAnswered, Answered, Carries
  <2>2. CASE c.got = "ok"
    <3>1. PICK pay \in Payments : pay = c.pay
      BY <2>1
    <3>2. /\ coupon' = None /\ PreviewEffect(cart, None, isOnline)
          /\ Consume(c, {[Call("refresh") EXCEPT !.pay = c.pay]})
          /\ UNCHANGED <<pendingPayment, loading>>
      BY <1>1, <1>10, <2>2 DEF CheckoutAnswered
    <3>3. PreviewInv'
      BY <1>1, <2>1, <3>2, EffectKeeps
    <3>4. PICK a : a = [Call("refresh") EXCEPT !.pay = pay]
      OBVIOUS
    <3>5. a.op = "refresh" /\ a.got = "sent" /\ a.pay = pay
      BY <3>4, RefreshRequest DEF IsRequest
    <3>6. calls' = {a}
      BY <1>2, <3>1, <3>2, <3>4 DEF Consume
    <3>7. Tied(a)'
      BY <1>2, <2>1, <3>2, <3>5 DEF Tied
    <3>8. LinesTied(a)'
      BY <1>2, <2>1, <2>2, <3>1, <3>5 DEF LinesTied
    <3> QED
      BY <1>1, <1>5, <3>2, <3>3, <3>6, <3>7, <3>8, OneLeft
  <2>3. CASE c.got # "ok"
    <3>1. /\ calls' = {} /\ UNCHANGED <<coupon, previewVars, pendingPayment>>
          /\ cart = srvCart
      BY <1>2, <1>10, <2>1, <2>3 DEF CheckoutAnswered, Consume, Tied
    <3> QED
      BY <1>1, <1>4, <1>5, <2>1, <3>1, OneLeft
  <2> QED
    BY <2>2, <2>3
<1>11. CASE CartRefreshed(c)
  <2>1. c.op = "refresh" /\ c.got = "ok" /\ calls' = {} /\ UNCHANGED coupon
    BY <1>2, <1>11 DEF CartRefreshed, Answered, Consume, Tied
  <2>2. SetCart(c.read) /\ cart' = c.read /\ c.read = srvCart'
    BY <1>1, <1>2, <1>11, <2>1 DEF CartRefreshed, SetCart, Tied
  <2>3. pendingPayment' \in {c.pay, pendingPayment}
    BY <1>11, <2>1 DEF CartRefreshed, AskPayment
  <2>4. PaymentAddsUp'
    BY <1>1, <1>2, <2>1, <2>3 DEF PaymentAddsUp, LinesTied
  <2> QED
    BY <1>1, <1>3, <2>1, <2>2, <2>4, OneLeft
<1> QED
  BY <1>6, <1>7, <1>8, <1>9, <1>10, <1>11 DEF Answers

LEMMA CalmPreview ==
  ASSUME TypeOK, CalmInv, Calm', PreviewServed \/ PreviewAnswered
  PROVE  CalmInv'
<1>1. UNCHANGED <<isOnline, cart, coupon, pendingPayment, loading, calls, serverVars>>
  BY DEF PreviewServed, PreviewAnswered
<1>2. PreviewInv'
  <2>1. CASE PreviewServed
    <3>1. Price(srvCart, coupon) # None
      BY PriceTyped, CustomerCartAssumption DEF TypeOK
    <3> QED
      BY <1>1, <2>1, <3>1 DEF PreviewServed, PreviewInv, UpToDate
  <2>2. CASE PreviewAnswered
    <3>1. preview' = previewAsked /\ previewAsked' = None /\ previewAsked \notin {None, Asked}
      BY <2>2 DEF PreviewAnswered, Calm, TypeOK
    <3> QED
      <4>1. UNCHANGED exchanged /\ UpToDate(previewAsked)
        BY <2>2, <3>1 DEF PreviewAnswered, CalmInv, PreviewInv
      <4> QED
        BY <1>1, <3>1, <4>1 DEF PreviewInv, UpToDate
  <2> QED
    BY <2>1, <2>2
<1>3. \A c \in calls' : Tied(c)' /\ LinesTied(c)'
  BY <1>1 DEF CalmInv, Tied, LinesTied
<1> QED
  BY <1>1, <1>2, <1>3 DEF CalmInv, PaymentAddsUp

LEMMA CalmServer ==
  ASSUME RowsInv, CalmInv, NEW c \in calls, Serve(c)
  PROVE  CalmInv'
<1>1. TypeOK /\ UNCHANGED <<isOnline, cart, coupon, previewVars, pendingPayment, loading>>
  BY DEF RowsInv, Serve
<1>2. PICK a \in CallRecord :
        /\ calls' = (calls \ {c}) \cup {a} /\ a.op = c.op
        /\ \/ /\ Read(c) /\ a.got = "reading" /\ a.read = srvCart /\ a.pay = c.pay
           \/ /\ Served(c) /\ c.op # "checkout"
              /\ a.got = "ok" /\ a.read = srvCart' /\ a.pay = c.pay
           \/ /\ Served(c) /\ c.op = "checkout" /\ a.got = "ok" /\ a.read = {}
              /\ a.pay \in Payments
              /\ a.pay.shown = c.pay.shown /\ a.pay.settled = c.pay.settled
              /\ a.pay.exchanged = c.pay.exchanged
              /\ a.pay.priced = Price(c.read, c.pay.code)
           \/ /\ MayRefuse(c) /\ UNCHANGED serverVars
              /\ a.got = "error" /\ a.read = {} /\ a.pay = c.pay
  BY <1>1, ServeCases
<1>3. calls' = {a} /\ Tied(c) /\ LinesTied(c) /\ c.op \in Ops
  BY <1>1, <1>2, RequestTyped DEF CalmInv, TypeOK, Carries
<1>4. isOnline' /\ PaymentAddsUp' /\ SoldApart /\ PreviewInv
  BY <1>1 DEF CalmInv, PaymentAddsUp, SoldApart
<1>5. SUFFICES Tied(a)' /\ LinesTied(a)' /\ PreviewInv' /\ SoldApart'
  BY <1>3, <1>4, OneLeft
<1>6. ASSUME cart = srvCart \/ UNCHANGED srvCart PROVE PreviewInv'
  <2>1. CASE UNCHANGED srvCart
    BY <1>1, <1>4, <2>1 DEF PreviewInv, UpToDate
  <2>2. CASE cart = srvCart
    <3>1. Price(cart, coupon) # None
      BY <1>1, PriceTyped, CustomerCartAssumption DEF TypeOK
    <3>2. ASSUME NEW p, UpToDate(p) PROVE Worth(p, Price(cart, coupon), exchanged)
      BY <2>2, <3>1, <3>2 DEF UpToDate, Worth
    <3>3. ASSUME NEW p, UpToDate(p)
          PROVE  Worth(p, Price(cart', coupon'), exchanged') \/ p = Price(srvCart', coupon')
      BY <1>1, <3>2, <3>3
    <3> QED
      BY <1>1, <1>4, <3>3 DEF PreviewInv, UpToDate
  <2> QED
    BY <1>6, <2>1, <2>2
<1>7. CASE Read(c) /\ a.got = "reading" /\ a.read = srvCart /\ a.pay = c.pay
  <2>1. c.got = "sent" /\ c.op \in {"add", "checkout"} /\ UNCHANGED serverVars
    BY <1>7 DEF Read
  <2>2. Tied(a)'
    BY <1>1, <1>2, <1>3, <1>7, <2>1 DEF Tied
  <2>3. LinesTied(a)'
    BY <1>1, <1>2, <1>3, <1>7, <2>1 DEF LinesTied
  <2> QED
    BY <1>4, <1>6, <2>1, <2>2, <2>3 DEF SoldApart
<1>8. CASE MayRefuse(c) /\ UNCHANGED serverVars /\ a.got = "error" /\ a.pay = c.pay
  <2>1. /\ c.got \in {"sent", "reading"}
        /\ c.op \in {"add", "checkout", "update", "remove", "repeat"}
    BY <1>8 DEF MayRefuse
  <2>2. Tied(a)'
    BY <1>1, <1>2, <1>3, <1>8, <2>1 DEF Tied
  <2>3. LinesTied(a)'
    BY <1>1, <1>2, <1>3, <1>8, <2>1 DEF LinesTied
  <2> QED
    BY <1>4, <1>6, <1>8, <2>2, <2>3 DEF SoldApart
<1>9. CASE Served(c) /\ c.op # "checkout" /\ a.got = "ok" /\ a.read = srvCart' /\ a.pay = c.pay
  <2>1. /\ c.got \in {"sent", "reading"} /\ UNCHANGED orders
        /\ c.op \in {"menu", "options", "refresh"} => UNCHANGED srvCart
        /\ c.op = "clear" => srvCart' = {}
    BY <1>9 DEF Served, Add, Update, Clear, Repeat, Query, Checkout
  <2>2. Tied(a)'
    BY <1>1, <1>2, <1>3, <1>9, <2>1 DEF Tied
  <2>3. LinesTied(a)'
    BY <1>1, <1>2, <1>3, <1>9, <2>1 DEF LinesTied
  <2>4. PreviewInv'
    BY <1>3, <1>6, <2>1 DEF Tied
  <2> QED
    BY <1>4, <2>1, <2>2, <2>3, <2>4 DEF SoldApart
<1>10. CASE /\ Served(c) /\ c.op = "checkout" /\ a.got = "ok"
            /\ a.pay.shown = c.pay.shown /\ a.pay.settled = c.pay.settled
            /\ a.pay.exchanged = c.pay.exchanged
            /\ a.pay.priced = Price(c.read, c.pay.code)
  <2>1. Checkout(c)
    BY <1>10 DEF Served, Add, Update, Clear, Repeat, Query
  <2>2. c.got = "reading" /\ c.read = srvCart /\ cart = srvCart /\ srvCart' = {}
    BY <1>3, <2>1 DEF Checkout, Tied
  <2>3. Tied(a)'
    BY <1>1, <1>2, <1>3, <1>10, <2>2 DEF Tied
  <2>4. LinesTied(a)'
    BY <1>2, <1>3, <1>10, <2>2 DEF LinesTied
  <2>5. SoldApart'
    <3>1. PICK o : o.rows = {i.id : i \in c.read} /\ orders' = orders \cup {o}
      BY <2>1 DEF Checkout
    <3>2. \A b \in orders : b.rows \cap o.rows = {}
      BY <2>2, <3>1 DEF RowsInv
    <3> QED
      BY <1>4, <3>1, <3>2 DEF SoldApart
  <2> QED
    BY <1>6, <2>2, <2>3, <2>4, <2>5
<1> QED
  BY <1>2, <1>7, <1>8, <1>9, <1>10

\* Lapses are counted, and an overlap is not taken back.
LEMMA CalmBefore ==
  ASSUME TypeOK, Next, Calm'
  PROVE  Calm /\ (isOnline => ~NetworkChanges) /\ \A c \in calls : ~Lose(c)
<1>1. lapses \in Nat /\ lapses' = 0 /\ ~overlapped'
  BY DEF TypeOK, Calm
<1>2. (isOnline => ~NetworkChanges) /\ \A c \in calls : ~Lose(c)
  BY <1>1 DEF NetworkChanges, Lose
<1>3. CASE Customer
  <2>1. UNCHANGED lapses /\ (UNCHANGED overlapped \/ \E a : Press(a))
    BY <1>3, Pressed, Placed
  <2>2. ASSUME NEW a, Press(a) PROVE ~overlapped
    <3>1. PICK p \in BOOLEAN : p = \E other \in calls : Overlaps(a, other)
      OBVIOUS
    <3>2. overlapped' = (overlapped \/ p)
      BY <2>2, <3>1 DEF Press
    <3> QED
      BY <1>1, <3>2
  <2> QED
    BY <1>1, <1>2, <2>1, <2>2 DEF Calm
<1>4. CASE \E c \in calls : Answers(c)
  BY <1>1, <1>2, <1>4, AnswersCalls DEF Calm
<1>5. CASE NetworkChanges \/ PreviewServed \/ PreviewAnswered
  BY <1>1, <1>2, <1>5 DEF NetworkChanges, PreviewServed, PreviewAnswered, Calm
<1>6. CASE \E c \in calls : Serve(c)
  BY <1>1, <1>2, <1>6 DEF Serve, Calm
<1> QED
  BY <1>2, <1>3, <1>4, <1>5, <1>6 DEF Next

LEMMA CartInvAlways == Spec => []CartInv
<1>1. Init => CartInv
  <2> SUFFICES ASSUME Init PROVE CartInv
    OBVIOUS
  <2>1. RowsInv
    <3>1. \A i \in srvCart : i.id <= items
      <4>1. CASE Kept = {}
        BY <4>1 DEF Init
      <4>2. CASE Kept # {}
        <5>1. PICK r \in Restaurants : Kept = {r}
          BY <4>2, CustomerCartAssumption
        <5>2. srvCart = {Row(1, r, 1)} /\ items = Cardinality(srvCart)
          BY <5>1 DEF Init
        <5>3. items = 1
          BY <5>2, FS_Singleton
        <5> QED
          BY <5>2, <5>3 DEF Row
      <4> QED
        BY <4>1, <4>2
    <3> QED
      BY <3>1, InitTyped DEF Init, RowsInv
  <2>2. CalmInv
    BY CustomerCartAssumption DEF Init, CalmInv, PreviewInv, PaymentAddsUp
  <2> QED
    BY <2>1, <2>2 DEF CartInv
<1>2. CartInv /\ [Next]_vars => CartInv'
  <2>1. ASSUME CartInv, UNCHANGED vars PROVE CartInv'
    <3>1. RowsInv'
      BY <2>1, NextTyped DEF vars, CartInv, RowsInv
    <3>2. CalmInv => CalmInv'
      BY <2>1 DEF vars, CalmInv, Tied, LinesTied, PreviewInv, UpToDate, PaymentAddsUp
    <3> QED
      BY <2>1, <3>1, <3>2 DEF vars, CartInv, Calm
  <2>2. ASSUME CartInv, Next PROVE CartInv'
    <3>1. RowsInv /\ TypeOK /\ RowsInv' /\ TypeOK'
      BY <2>2, RowsStep DEF CartInv, RowsInv
    <3>2. ASSUME Calm' PROVE CalmInv'
      <4>1. CalmInv /\ ~NetworkChanges /\ ~overlapped' /\ \A c \in calls : ~Lose(c)
        BY <2>2, <3>1, <3>2, CalmBefore DEF CartInv, Calm, CalmInv
      <4> QED
        BY <2>2, <3>1, <3>2, <4>1, CalmCustomer, CalmAnswers, CalmPreview, CalmServer DEF Next
    <3> QED
      BY <3>1, <3>2 DEF CartInv
  <2> QED
    BY <2>1, <2>2
<1> QED
  BY <1>1, <1>2, PTL DEF Spec

\* With no request on the cart under way the screen shows the server's cart, whatever was
\* refused, cleared or repeated, unless two requests overlapped or an answer was lost.
THEOREM ShownIsServed == Spec => []ShownCartIsServed
<1>1. ASSUME CartInv, Calm, \A c \in calls : ~OnCart(c) PROVE cart = srvCart
  <2>1. CalmInv /\ TypeOK
    BY <1>1 DEF CartInv, RowsInv
  <2>2. CASE calls = {}
    BY <2>1, <2>2 DEF CalmInv
  <2>3. ASSUME NEW c \in calls PROVE cart = srvCart
    <3>1. c.op \in Ops
      BY <2>1, RequestTyped DEF TypeOK, Carries
    <3>2. c.op \in {"menu", "options"}
      BY <1>1, <3>1 DEF OnCart, Ops
    <3> QED
      BY <2>1, <3>2 DEF CalmInv, Tied
  <2> QED
    BY <2>2, <2>3
<1>2. CartInv => ShownCartIsServed
  BY <1>1 DEF ShownCartIsServed
<1> QED
  BY <1>2, CartInvAlways, PTL

\* No row of the cart is sold twice while no two requests overlap, although the server reads
\* the cart it sells without a lock.
THEOREM NothingSoldTwice == Spec => []SoldOnce
<1>1. CartInv => SoldOnce
  BY DEF CartInv, CalmInv, SoldOnce
<1> QED
  BY <1>1, CartInvAlways, PTL

\* The lines of a payment placed with no preview under way are those of its order, whichever
\* previews were cancelled, late or computed from the server's cart before.
THEOREM LinesAreTheOrders == Spec => []PaymentLinesAddUp
<1>1. CartInv => PaymentLinesAddUp
  BY DEF CartInv, CalmInv, PaymentAddsUp, Worth, PaymentLinesAddUp
<1> QED
  BY <1>1, CartInvAlways, PTL

=============================================================================
