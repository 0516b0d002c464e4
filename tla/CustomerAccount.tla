--------------------------- MODULE CustomerAccount ---------------------------
(***************************************************************************)
(* What the customer's application keeps of the account, beside the cart   *)
(* and the orders: the addresses, the inbox of notifications and the       *)
(* reviews, with the server's tables and the requests between them.  The   *)
(* three share the session and nothing else.                               *)
(***************************************************************************)
EXTENDS Integers, Sequences, FiniteSets, FiniteSetsExt, SequencesExt, Lists

CONSTANTS
  MaxAddresses,  \* bound on the addresses ever stored; two are there at first
  MaxNotes,      \* bound on the notifications
  InboxMax,      \* INBOX_MAX_ITEMS
  Targets,       \* who can be reviewed
  Restaurant,    \* the one of Targets whose ratings are summed
  Ratings,
  MaxPresses, MaxLapses

ASSUME AccountAssumption ==
  /\ {MaxAddresses, MaxNotes, InboxMax, MaxPresses, MaxLapses} \subseteq Nat
  /\ MaxAddresses >= 2 /\ InboxMax > 0
  /\ Restaurant \in Targets /\ Ratings \subseteq Nat \ {0}

VARIABLES
  addresses, selected, form, deleting, savingAddress, addressCalls,
  userAddresses, everUsed,       \* the server's, and the numbers given
  inbox, inboxLoading, inboxSaving, inboxCalls,
  notifications, \* the server's: the second in which each was stored
  readAt, pushes, \* those read, and those on their way
  clientReviews, modal, submitting, reviewCalls,
  reviews, tally, told,          \* the server's; the ratings that the user was told are kept
  presses, lapses,
  doubt  \* the parts in which requests overlapped, or answers were lost (but for reviews)

addressVars == <<addresses, selected, form, deleting, savingAddress, addressCalls,
                 userAddresses, everUsed>>
inboxVars   == <<inbox, inboxLoading, inboxSaving, inboxCalls, notifications, readAt, pushes>>
reviewVars  == <<clientReviews, modal, submitting, reviewCalls, reviews, tally, told>>
vars == <<addressVars, inboxVars, reviewVars, presses, lapses, doubt>>

None == 0  \* no address, no notification, no review
All == -1  \* inboxSaving, while all are being marked
Closed == [id |-> 0, mark |-> FALSE, open |-> FALSE]
NoModal == [target |-> Restaurant, editing |-> 0, rating |-> 0, open |-> FALSE]
EmptyMap == [x \in {} |-> FALSE]

AddressIds == 1 .. MaxAddresses
NoteIds == 1 .. MaxNotes

-----------------------------------------------------------------------------
(* Requests                                                                *)

\* A press is counted, and remembers whether another request is under way.
Press(part, calls) ==
  /\ presses < MaxPresses /\ presses' = presses + 1
  /\ doubt' = IF calls # {} THEN doubt \cup {part} ELSE doubt
  /\ UNCHANGED lapses

\* An answer is lost, and the application may not know what the server has done.
Lapse(parts) ==
  /\ lapses < MaxLapses /\ lapses' = lapses + 1
  /\ doubt' = doubt \cup parts
  /\ UNCHANGED presses

Plain == UNCHANGED <<presses, lapses, doubt>>

-----------------------------------------------------------------------------
(* Addresses                                                               *)

AddressesInit ==
  /\ userAddresses = [a \in {1, 2} |-> a = 1] /\ everUsed = 2
  /\ addresses = userAddresses /\ selected = 1
  /\ form = Closed /\ deleting = None /\ savingAddress = FALSE /\ addressCalls = {}

AddressCall(op, id, mark, seen) ==
  [op |-> op, id |-> id, mark |-> mark, seen |-> seen, got |-> "sent"]

\* the address that takes the place of the selected one
Fallbacks(list) ==
  IF DOMAIN list = {} THEN {None}
  ELSE IF \E a \in DOMAIN list : list[a] THEN {a \in DOMAIN list : list[a]}
  ELSE DOMAIN list

\* what the effect makes of a selection: one of the list, when the list is not empty
Settled(list, id) ==
  IF id = None \/ DOMAIN list = {} \/ id \in DOMAIN list THEN {id} ELSE Fallbacks(list)

\* Mutant: the mark is given to one, and not taken from the others.
MarkedToo(list, id) == [a \in DOMAIN list |-> list[a] \/ a = id]

Marked(list, id) == [a \in DOMAIN list |-> a = id]

SelectAddress(a) ==
  /\ a \in DOMAIN addresses /\ selected # a
  /\ selected' = a
  /\ Press("addresses", {})
  /\ UNCHANGED <<addresses, form, deleting, savingAddress, addressCalls, userAddresses,
                 everUsed>>

\* startCreateAddress and startEditAddress
OpenForm(a) ==
  /\ a \in DOMAIN addresses \cup {None}
  /\ \E mark \in BOOLEAN : form' = [id |-> a, mark |-> mark, open |-> TRUE]
  /\ Press("addresses", {})
  /\ UNCHANGED <<addresses, selected, deleting, savingAddress, addressCalls, userAddresses,
                 everUsed>>

\* closeAddressModal
CloseForm ==
  /\ form.open /\ form' = Closed /\ Plain
  /\ UNCHANGED <<addresses, selected, deleting, savingAddress, addressCalls, userAddresses,
                 everUsed>>

\* handleCreateAddress, of a form that is filled in
SaveAddress ==
  /\ form.open /\ ~savingAddress /\ savingAddress' = TRUE
  /\ Press("addresses", addressCalls)
  /\ addressCalls' = addressCalls \cup
       {AddressCall(IF form.id = None THEN "create" ELSE "update", form.id, form.mark,
                    EmptyMap)}
  /\ UNCHANGED <<addresses, selected, form, deleting, userAddresses, everUsed>>

\* The saved address is followed by a reload, and selected after it.
AddressSaved(c) ==
  /\ c \in addressCalls /\ c.op \in {"create", "update"} /\ c.got = "ok"
  /\ addressCalls' = (addressCalls \ {c}) \cup
       {AddressCall("reload", c.id, FALSE, EmptyMap)}
  /\ Plain
  /\ UNCHANGED <<addresses, selected, form, deleting, savingAddress, userAddresses, everUsed>>

AddressesReloaded(c) ==
  /\ c \in addressCalls /\ c.op = "reload" /\ c.got # "sent"
  /\ addressCalls' = addressCalls \ {c} /\ Plain
  /\ addresses' = IF c.got = "ok" THEN c.seen ELSE addresses
  /\ selected' \in Settled(addresses', c.id)
  /\ form' = Closed /\ savingAddress' = FALSE
  /\ UNCHANGED <<deleting, userAddresses, everUsed>>

AskDelete(a) ==
  /\ a \in DOMAIN addresses /\ deleting = None
  /\ deleting' = a
  /\ Press("addresses", {})
  /\ UNCHANGED <<addresses, selected, form, savingAddress, addressCalls, userAddresses,
                 everUsed>>

KeepAddress ==
  /\ deleting # None /\ ~savingAddress /\ deleting' = None /\ Plain
  /\ UNCHANGED <<addresses, selected, form, savingAddress, addressCalls, userAddresses,
                 everUsed>>

\* confirmDeleteAddress remembers the list of the moment it is pressed.
ConfirmDelete ==
  /\ deleting # None /\ ~savingAddress /\ savingAddress' = TRUE
  /\ Press("addresses", addressCalls)
  /\ addressCalls' = addressCalls \cup {AddressCall("delete", deleting, FALSE, addresses)}
  /\ UNCHANGED <<addresses, selected, form, deleting, userAddresses, everUsed>>

AddressDeleted(c) ==
  /\ c \in addressCalls /\ c.op = "delete" /\ c.got = "ok"
  /\ addressCalls' = addressCalls \ {c} /\ Plain
  /\ addresses' = Restrict(c.seen, DOMAIN c.seen \ {c.id})
  /\ IF selected \in DOMAIN addresses' THEN UNCHANGED selected
     ELSE selected' \in Fallbacks(addresses')
  /\ form' = IF form.id = c.id THEN Closed
             ELSE IF addresses' = EmptyMap THEN [form EXCEPT !.mark = FALSE] ELSE form
  /\ deleting' = None /\ savingAddress' = FALSE
  /\ UNCHANGED <<userAddresses, everUsed>>

\* handleSetDefaultAddress, which no flag guards
SetDefault(a) ==
  /\ a \in DOMAIN addresses /\ ~addresses[a]
  /\ Press("addresses", addressCalls)
  /\ addressCalls' = addressCalls \cup {AddressCall("default", a, TRUE, EmptyMap)}
  /\ UNCHANGED <<addresses, selected, form, deleting, savingAddress, userAddresses, everUsed>>

DefaultSet(c) ==
  /\ c \in addressCalls /\ c.op = "default" /\ c.got = "ok"
  /\ addressCalls' = addressCalls \ {c} /\ Plain
  /\ addresses' = Marked(addresses, c.id)
  /\ selected' \in Settled(addresses', c.id)
  /\ UNCHANGED <<form, deleting, savingAddress, userAddresses, everUsed>>

\* Only the flag is taken back.
AddressCallFailed(c) ==
  /\ c \in addressCalls /\ c.op # "reload" /\ c.got = "error"
  /\ addressCalls' = addressCalls \ {c} /\ Plain
  /\ savingAddress' = IF c.op = "default" THEN savingAddress ELSE FALSE
  /\ UNCHANGED <<addresses, selected, form, deleting, userAddresses, everUsed>>

\* clearDefault, and then the address with its mark
Kept(list, id, mark) ==
  [a \in DOMAIN list \cup {id} |-> IF a = id THEN mark ELSE list[a] /\ ~mark]

\* UserAddressService; an address that is not there is answered by null, which the
\* application cannot read
AddressServed(c) ==
  CASE c.op = "create" ->
         /\ everUsed < MaxAddresses /\ everUsed' = everUsed + 1
         /\ userAddresses' = Kept(userAddresses, everUsed', c.mark)
    [] c.op = "delete" ->
         /\ userAddresses' = Restrict(userAddresses, DOMAIN userAddresses \ {c.id})
         /\ UNCHANGED everUsed
    [] c.op = "reload" -> UNCHANGED <<userAddresses, everUsed>>
    [] OTHER ->
         /\ userAddresses' = IF c.id \in DOMAIN userAddresses
                             THEN Kept(userAddresses, c.id, c.mark) ELSE userAddresses
         /\ UNCHANGED everUsed

AnswerAddressCall(c) ==
  /\ c \in addressCalls /\ c.got = "sent"
  /\ AddressServed(c)
  /\ \/ /\ Plain
        /\ addressCalls' = (addressCalls \ {c}) \cup
             {IF c.op \in {"update", "default"} /\ c.id \notin DOMAIN userAddresses
              THEN [c EXCEPT !.got = "error"]
              ELSE [c EXCEPT !.got = "ok",
                             !.id = IF c.op = "create" THEN everUsed' ELSE c.id,
                             !.seen = IF c.op = "reload" THEN userAddresses ELSE c.seen]}
     \/ /\ Lapse({"addresses"})
        /\ addressCalls' = (addressCalls \ {c}) \cup {[c EXCEPT !.got = "error"]}
  /\ UNCHANGED <<addresses, selected, form, deleting, savingAddress>>

AddressStep ==
  /\ \/ \E a \in AddressIds \cup {None} :
          SelectAddress(a) \/ OpenForm(a) \/ AskDelete(a) \/ SetDefault(a)
     \/ CloseForm \/ SaveAddress \/ KeepAddress \/ ConfirmDelete
     \/ \E c \in addressCalls :
          \/ AddressSaved(c) \/ AddressesReloaded(c) \/ AddressDeleted(c) \/ DefaultSet(c)
          \/ AddressCallFailed(c) \/ AnswerAddressCall(c)
  /\ UNCHANGED <<inboxVars, reviewVars>>

-----------------------------------------------------------------------------
(* The inbox                                                               *)

InboxInit ==
  /\ notifications = <<1>> /\ readAt = {} /\ pushes = {}
  /\ inbox = <<[id |-> 1, read |-> FALSE]>>
  /\ inboxLoading = FALSE /\ inboxSaving = None /\ inboxCalls = {}

InboxCall(op, id, n) == [op |-> op, id |-> id, many |-> n, got |-> "sent", seen |-> <<>>]

Posted == DOMAIN notifications

\* the n newest first, those of one second in any order
NewestIds(n) ==
  {p \in SeqOf(Posted, n) :
     /\ \A i, j \in DOMAIN p : i < j => p[i] # p[j] /\ notifications[p[i]] >= notifications[p[j]]
     /\ \A id \in Posted \ ToSet(p) : Len(p) = n /\ notifications[p[n]] >= notifications[id]}

\* the lists that a load may answer
Newest(n) ==
  {[i \in DOMAIN p |-> [id |-> p[i], read |-> p[i] \in readAt]] : p \in NewestIds(n)}

\* loadInbox, as the inbox is opened (guarded by nothing), and by its two buttons
LoadInbox ==
  /\ Press("inbox", inboxCalls)
  /\ inboxLoading' = TRUE
  /\ \E n \in {InboxMax, Len(inbox) + InboxMax} :
       /\ n > InboxMax => Len(inbox) >= InboxMax /\ ~inboxLoading
       /\ inboxCalls' = inboxCalls \cup {InboxCall("load", None, n)}
  /\ UNCHANGED <<inbox, inboxSaving, notifications, readAt, pushes>>

\* Its answer is the whole inbox.
InboxLoaded(c) ==
  /\ c \in inboxCalls /\ c.op = "load" /\ c.got # "sent"
  /\ inboxCalls' = inboxCalls \ {c} /\ inboxLoading' = FALSE /\ Plain
  /\ inbox' = IF c.got = "ok" THEN c.seen ELSE inbox
  /\ UNCHANGED <<inboxSaving, notifications, readAt, pushes>>

MarkRead(id) ==
  /\ [id |-> id, read |-> FALSE] \in ToSet(inbox) /\ inboxSaving # id
  /\ Press("inbox", inboxCalls)
  /\ inboxSaving' = id
  /\ inboxCalls' = inboxCalls \cup {InboxCall("mark", id, 0)}
  /\ UNCHANGED <<inbox, inboxLoading, notifications, readAt, pushes>>

MarkAllRead ==
  /\ \E m \in ToSet(inbox) : ~m.read
  /\ inboxSaving # All
  /\ Press("inbox", inboxCalls)
  /\ inboxSaving' = All
  /\ inboxCalls' = inboxCalls \cup {InboxCall("all", None, 0)}
  /\ UNCHANGED <<inbox, inboxLoading, notifications, readAt, pushes>>

\* The marks are those of the inbox as it is by then.
Marks(c) == IF c.op = "all" THEN NoteIds ELSE {c.id}

MarkAnswered(c) ==
  /\ c \in inboxCalls /\ c.op # "load" /\ c.got # "sent"
  /\ inboxCalls' = inboxCalls \ {c} /\ inboxSaving' = None /\ Plain
  /\ inbox' = [i \in DOMAIN inbox |->
       [inbox[i] EXCEPT !.read = @ \/ (c.got = "ok" /\ inbox[i].id \in Marks(c))]]
  /\ UNCHANGED <<inboxLoading, notifications, readAt, pushes>>

AnswerInboxCall(c) ==
  /\ c \in inboxCalls /\ c.got = "sent"
  /\ readAt' = IF c.op = "load" THEN readAt
               ELSE readAt \cup (Marks(c) \cap Posted)
  /\ \/ /\ Plain
        /\ \E ms \in IF c.op = "load" THEN Newest(c.many) ELSE {<<>>} :
             inboxCalls' = (inboxCalls \ {c}) \cup {[c EXCEPT !.got = "ok", !.seen = ms]}
     \/ /\ Lapse({"inbox"})
        /\ inboxCalls' = (inboxCalls \ {c}) \cup {[c EXCEPT !.got = "error"]}
  /\ UNCHANGED <<inbox, inboxLoading, inboxSaving, notifications, pushes>>

\* A notification is stored, in the second of the last one or in a later one, and its event
\* published to the customer's topic.
Notify ==
  /\ Len(notifications) < MaxNotes
  /\ \E second \in {Last(notifications), Last(notifications) + 1} :
       notifications' = Append(notifications, second)
  /\ pushes' = pushes \cup {Len(notifications')}
  /\ Plain
  /\ UNCHANGED <<inbox, inboxLoading, inboxSaving, inboxCalls, readAt>>

\* A job that died between the two publishes the event again.
NotifyAgain(id) ==
  /\ id \in Posted \ pushes
  /\ Lapse({})
  /\ pushes' = pushes \cup {id}
  /\ UNCHANGED <<inbox, inboxLoading, inboxSaving, inboxCalls, notifications, readAt>>

\* the newest InboxMax, of which the first copies are kept
Cut(ms) == IF Len(ms) > InboxMax THEN SubSeq(ms, 1, InboxMax) ELSE ms

\* Mutant: the copy that is there stays.
OnTopTwice(ms, m) == Cut(<<m>> \o ms)

OnTop(ms, m) == Cut(<<m>> \o Filtered(ms, {i \in DOMAIN ms : ms[i].id # m.id}))

\* onNotification: what comes, twice by its doubled listener, is new and unread, whatever
\* is known of it.
Notified(id) ==
  /\ id \in pushes /\ pushes' \in {pushes, pushes \ {id}}
  /\ inbox' = OnTop(inbox, [id |-> id, read |-> FALSE])
  /\ doubt' = IF \/ inboxCalls # {} \/ id \in readAt
                 \/ \E m \in ToSet(inbox) : notifications[m.id] > notifications[id]
              THEN doubt \cup {"inbox"} ELSE doubt
  /\ UNCHANGED <<inboxLoading, inboxSaving, inboxCalls, notifications, readAt, presses, lapses>>

InboxStep ==
  /\ \/ LoadInbox \/ MarkAllRead \/ Notify
     \/ \E id \in NoteIds : MarkRead(id) \/ NotifyAgain(id) \/ Notified(id)
     \/ \E c \in inboxCalls : InboxLoaded(c) \/ MarkAnswered(c) \/ AnswerInboxCall(c)
  /\ UNCHANGED <<addressVars, reviewVars>>

-----------------------------------------------------------------------------
(* Reviews, of targets of which the customer has had a delivery            *)

ReviewsInit ==
  /\ clientReviews = EmptyMap /\ reviews = EmptyMap
  /\ modal = NoModal /\ submitting = FALSE /\ reviewCalls = {}
  /\ tally = [sum |-> 0, count |-> 0]
  /\ told = [t \in Targets |-> 0]

ReviewCall(op, m, id) ==
  [op |-> op, target |-> m.target, id |-> id, rating |-> m.rating, editing |-> m.editing,
   got |-> "sent", seen |-> EmptyMap]

\* openReviewModal, in editing when the list has a review of the target, and the prompt
\* after a delivery, which asks the list of an earlier render
OpenReview(t) ==
  /\ Press("reviews", {})
  /\ \E r \in Ratings :
       \/ modal' = [target |-> t, editing |-> 0, rating |-> r, open |-> TRUE]
       \/ /\ t \in DOMAIN clientReviews
          /\ modal' = [target |-> t, editing |-> clientReviews[t].id, rating |-> r,
                       open |-> TRUE]
  /\ UNCHANGED <<clientReviews, submitting, reviewCalls, reviews, tally, told>>

DismissReview ==
  /\ modal.open /\ ~submitting /\ modal' = NoModal /\ Plain
  /\ UNCHANGED <<clientReviews, submitting, reviewCalls, reviews, tally, told>>

\* submitReview
SubmitReview ==
  /\ modal.open /\ ~submitting /\ submitting' = TRUE
  /\ Press("reviews", reviewCalls)
  /\ reviewCalls' = reviewCalls \cup
       {ReviewCall(IF modal.editing # 0 THEN "update" ELSE "create", modal, modal.editing)}
  /\ UNCHANGED <<clientReviews, modal, reviews, tally, told>>

Follow(c, op, id) ==
  reviewCalls' = (reviewCalls \ {c}) \cup {ReviewCall(op, c, id)}

Finish == modal' = NoModal /\ submitting' = FALSE

\* Kept: the list is asked for again.
ReviewKept(c) ==
  /\ c \in reviewCalls /\ c.op \in {"create", "update"} /\ c.got = "ok"
  /\ told' = [told EXCEPT ![c.target] = c.rating]
  /\ Follow(c, "refresh", c.id) /\ Plain
  /\ UNCHANGED <<clientReviews, modal, submitting, reviews, tally>>

\* refreshReviewsHistory, whose failure is the empty list to its caller
Refreshed(c) == IF c.got = "ok" THEN c.seen ELSE clientReviews

ReviewsRefreshed(c) ==
  /\ c \in reviewCalls /\ c.op = "refresh" /\ c.got # "sent"
  /\ reviewCalls' = reviewCalls \ {c} /\ Plain
  /\ clientReviews' = Refreshed(c) /\ Finish
  /\ UNCHANGED <<reviews, tally, told>>

\* Mutant: a review that exists is taken for kept.
ReviewExistsKept(c) ==
  /\ c \in reviewCalls /\ c.op = "create" /\ c.got = "duplicate"
  /\ told' = [told EXCEPT ![c.target] = c.rating]
  /\ reviewCalls' = reviewCalls \ {c} /\ Finish /\ Plain
  /\ UNCHANGED <<clientReviews, reviews, tally>>

\* "already reviewed": the list is asked for, to find which review is meant
ReviewExists(c) ==
  /\ c \in reviewCalls /\ c.op = "create" /\ c.got = "duplicate"
  /\ Follow(c, "find", 0) /\ Plain
  /\ UNCHANGED <<clientReviews, modal, submitting, reviews, tally, told>>

\* and that one is updated, if it is found
ReviewFound(c) ==
  /\ c \in reviewCalls /\ c.op = "find" /\ c.got # "sent"
  /\ clientReviews' = Refreshed(c) /\ Plain
  /\ IF c.got = "ok" /\ c.target \in DOMAIN c.seen
     THEN Follow(c, "replace", c.seen[c.target].id) /\ UNCHANGED submitting
     ELSE reviewCalls' = reviewCalls \ {c} /\ submitting' = FALSE
  /\ UNCHANGED <<modal, reviews, tally, told>>

ReviewReplaced(c) ==
  /\ c \in reviewCalls /\ c.op = "replace" /\ c.got = "ok"
  /\ told' = [told EXCEPT ![c.target] = c.rating]
  /\ reviewCalls' = reviewCalls \ {c} /\ Finish /\ Plain
  /\ UNCHANGED <<clientReviews, reviews, tally>>

\* handleDeleteReview
DeleteReview(t) ==
  /\ t \in DOMAIN clientReviews
  /\ Press("reviews", reviewCalls)
  /\ reviewCalls' = reviewCalls \cup
       {ReviewCall("delete", [NoModal EXCEPT !.target = t], clientReviews[t].id)}
  /\ UNCHANGED <<clientReviews, modal, submitting, reviews, tally, told>>

Without(list, id) == Restrict(list, {t \in DOMAIN list : list[t].id # id})

ReviewDeleted(c) ==
  /\ c \in reviewCalls /\ c.op = "delete" /\ c.got = "ok"
  /\ reviewCalls' = reviewCalls \ {c} /\ Plain
  /\ clientReviews' = Without(clientReviews, c.id)
  /\ told' = [told EXCEPT ![c.target] = 0]
  /\ UNCHANGED <<modal, submitting, reviews, tally>>

\* The modal stays as it was, and the user is told of the error.
ReviewCallFailed(c) ==
  /\ c \in reviewCalls /\ c.op \in {"create", "update", "replace", "delete"} /\ c.got = "error"
  /\ reviewCalls' = reviewCalls \ {c} /\ Plain
  /\ submitting' = IF c.op = "delete" THEN submitting ELSE FALSE
  /\ told' = [told EXCEPT ![c.target] = 0]
  /\ UNCHANGED <<clientReviews, modal, reviews, tally>>

\* ReviewService: one review of a target; only a new one is added to the tally; what is
\* not there is neither updated nor deleted
ReviewServed(c) ==
  CASE c.op = "create" /\ c.target \notin DOMAIN reviews ->
         /\ reviews' = [t \in DOMAIN reviews \cup {c.target} |->
              IF t = c.target THEN [id |-> presses, rating |-> c.rating] ELSE reviews[t]]
         /\ tally' = IF c.target = Restaurant
                     THEN [sum |-> tally.sum + c.rating, count |-> tally.count + 1] ELSE tally
    [] c.op \in {"update", "replace"} ->
         /\ reviews' = [t \in DOMAIN reviews |->
              IF reviews[t].id = c.id THEN [reviews[t] EXCEPT !.rating = c.rating]
              ELSE reviews[t]]
         /\ UNCHANGED tally
    [] c.op = "delete" -> reviews' = Without(reviews, c.id) /\ UNCHANGED tally
    [] OTHER -> UNCHANGED <<reviews, tally>>

Known(id) == \E t \in DOMAIN reviews : reviews[t].id = id

\* The update of what is not there is answered by null, where the schema has no null: an
\* error to the application.  Its deletion is answered by false, which is not looked at.
ReviewReply(c) ==
  IF c.op = "create" /\ c.target \in DOMAIN reviews THEN "duplicate"
  ELSE IF c.op \in {"update", "replace"} /\ ~Known(c.id) THEN "error" ELSE "ok"

AnswerReviewCall(c) ==
  /\ c \in reviewCalls /\ c.got = "sent"
  /\ ReviewServed(c)
  /\ \/ /\ Plain
        /\ reviewCalls' = (reviewCalls \ {c}) \cup
             {[c EXCEPT !.seen = reviews, !.got = ReviewReply(c)]}
     \/ /\ Lapse({})
        /\ reviewCalls' = (reviewCalls \ {c}) \cup {[c EXCEPT !.got = "error"]}
  /\ UNCHANGED <<clientReviews, modal, submitting, told>>

ReviewStep ==
  /\ \/ \E t \in Targets : OpenReview(t) \/ DeleteReview(t)
     \/ DismissReview \/ SubmitReview
     \/ \E c \in reviewCalls :
          \/ ReviewKept(c) \/ ReviewsRefreshed(c) \/ ReviewExists(c) \/ ReviewFound(c)
          \/ ReviewReplaced(c) \/ ReviewDeleted(c) \/ ReviewCallFailed(c)
          \/ AnswerReviewCall(c)
  /\ UNCHANGED <<addressVars, inboxVars>>

-----------------------------------------------------------------------------
Init ==
  /\ AddressesInit /\ InboxInit /\ ReviewsInit
  /\ presses = 0 /\ lapses = 0 /\ doubt = {}

Next == AddressStep \/ InboxStep \/ ReviewStep

Spec == Init /\ [][Next]_vars

-----------------------------------------------------------------------------
(* Properties                                                              *)

\* When the addresses have been used one request at a time, and none was lost, the
\* application ends with the server's addresses and the server's mark of the default,
\* and an order would go to one of them whenever there is one.
AddressesAgree ==
  addressCalls = {} /\ "addresses" \notin doubt =>
    /\ addresses = userAddresses
    /\ selected \in IF userAddresses = EmptyMap THEN {None} ELSE DOMAIN userAddresses

\* A notification is in the inbox once, however often it comes and whenever it is loaded.
\* When nothing is under way and no request overlapped a request or a push, and none came
\* after a newer one or after its mark, the newest are there, and what is shown as read
\* is read.
InboxAgrees ==
  /\ Cardinality({m.id : m \in ToSet(inbox)}) = Len(inbox)
  /\ inboxCalls = {} /\ pushes = {} /\ "inbox" \notin doubt =>
       Cut(inbox) \in Newest(InboxMax)

\* A rating that the user was told is kept is the one that the server has, also when the
\* modal took a review that exists for a new one, and when an answer was lost and the
\* user submitted again; not if the review was being deleted meanwhile.
RatingIsKept ==
  reviewCalls = {} /\ "reviews" \notin doubt =>
    \A t \in Targets : told[t] # 0 =>
      t \in DOMAIN reviews /\ reviews[t].rating = told[t]

=============================================================================
