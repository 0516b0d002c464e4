-------------------------------- MODULE Chat --------------------------------
(***************************************************************************)
(* The chat of an order: the modal of the telephone, the customer's and    *)
(* the courier's alike, and the page of the restaurant, each with the      *)
(* messages it shows, a draft, and requests under way.  A message reaches  *)
(* a window from the gateway's handler, from the outbox, which may send it *)
(* again, and in the acknowledgement to its sender.  The server's times    *)
(* are whole seconds, so messages tie; that of an acknowledged message is  *)
(* the clock of the client's, which may say anything.                      *)
(***************************************************************************)
EXTENDS Naturals, Sequences, FiniteSets, SequencesExt, Lists

CONSTANTS
  Texts, NoText,
  Limit,       \* the messages that a window keeps
  Page,        \* the messages that must be there before more are asked for
  MaxMessages, \* bound on the messages stored
  MaxTime,     \* bound on the seconds that pass
  MaxOpens,    \* bound on the loads that the screens ask for
  MaxFaults    \* bound on the messages refused and the acknowledgements lost

ASSUME ChatAssumption ==
  /\ NoText \notin Texts
  /\ {Limit, Page, MaxMessages, MaxTime, MaxOpens, MaxFaults} \subseteq Nat /\ Limit > 0

VARIABLES
  shown,       \* per side, the number of the chat in the window, 0 for none
  messages,    \* per side, the messages in the window, each with the time it bears
  draft,
  loads,       \* loads and creations under way
  sends,       \* messages under way, and their answers
  saved,       \* the messages stored, in order, each with the second it was
  chats,       \* how many chats the order has
  joined,      \* the sides whose socket is in the group of their chat
  outbox, due, \* events to be published, and copies on their way to a side
  typed, opens, faults,
  crossed      \* sides of which an answer was overtaken, or a message missed

windowVars == <<shown, messages, draft>>
callVars   == <<loads, sends>>
serverVars == <<saved, chats, joined, outbox, due>>
boundVars  == <<typed, opens, faults>>
chatVars == <<windowVars, callVars, serverVars, boundVars, crossed>>

Sides == {"phone", "desk"}
MaxChats == 2     \* one may be created by each side

Times == 0 .. MaxTime

\* A load sees the first chat of the order, and its messages.
Load(s, op, k, n) ==
  [by |-> s, op |-> op, chat |-> k, many |-> n, got |-> "sent", seen |-> <<>>]
Message(s, t, k) == [by |-> s, text |-> t, chat |-> k, got |-> "sent", id |-> 0]

ChatInit ==
  /\ shown = [s \in Sides |-> 0]
  /\ messages = [s \in Sides |-> <<>>]
  /\ draft = [s \in Sides |-> NoText]
  /\ loads = {} /\ sends = {}
  /\ saved = <<>> /\ chats = 0 /\ joined = {} /\ outbox = {} /\ due = {}
  /\ typed = {} /\ opens = 0 /\ faults = 0 /\ crossed = {}

-----------------------------------------------------------------------------
(* The list of messages                                                    *)

Latest(ms, n) == IF Len(ms) <= n THEN ms ELSE SubSeq(ms, Len(ms) - n + 1, Len(ms))

\* a copy bears the server's time
Copy(id) == [id |-> id, at |-> saved[id].at]

Inserted(ms, m) ==
  LET before == {i \in DOMAIN ms : ms[i].at <= m.at} IN
  Filtered(ms, before) \o <<m>> \o Filtered(ms, DOMAIN ms \ before)

\* Mutant: a copy is added to the one that is there.
MergeAnyway(ms, m) == Latest(Inserted(ms, m), Limit)

\* mergeChatMessage and mergeMessage
Merge(ms, m) ==
  Latest(Inserted(Filtered(ms, {i \in DOMAIN ms : ms[i].id # m.id}), m), Limit)

Ids(ms) == [i \in DOMAIN ms |-> ms[i].id]

OfChat(k) == {i \in DOMAIN saved : saved[i].chat = k}

\* What is loaded comes in no order, and is sorted by its time: what ties, anyhow.
InTime(ids) ==
  {ms \in SetToSeqs({Copy(id) : id \in ids}) :
     \A i, j \in DOMAIN ms : i < j => ms[i].at <= ms[j].at}

-----------------------------------------------------------------------------
(* Opening                                                                 *)

Ask(c) == loads' = loads \cup {c}

\* openChatForCurrentOrder and openChatForActiveDelivery, disabled while one is under
\* way; loadOrderChat, as the page is entered and as the session is renewed (one
\* at a time: a second load of the page before the first is answered is left out)
OpenChat(s) ==
  /\ opens < MaxOpens /\ opens' = opens + 1
  /\ \A c \in loads : c.by # s \/ c.op = "more"
  /\ s = "phone" => shown[s] = 0
  /\ Ask(Load(s, "open", 0, 0))
  /\ UNCHANGED <<windowVars, sends, serverVars, typed, faults, crossed>>

\* the window shows a chat, and its socket leaves the group of the former
Show(s, k, ms) ==
  /\ shown' = [shown EXCEPT ![s] = k]
  /\ messages' = [messages EXCEPT ![s] = ms]
  /\ joined' = IF shown[s] = k THEN joined ELSE joined \ {s}
  /\ due' = IF shown[s] = k THEN due ELSE {d \in due : d[1] # s}

\* what is still to come to a side: the copies, and its own that were acknowledged
Coming(s) ==
  {d[2] : d \in {e \in due : e[1] = s}}
    \cup {c.id : c \in {e \in sends : e.by = s /\ e.got = "ok"}}

\* An answer was overtaken by messages that it lacks, and that are not to come any more,
\* unless it is full of others as new.
Overtaken(c) ==
  \E x \in (OfChat(c.chat) \ ToSet(Ids(c.seen))) \ Coming(c.by) :
    \/ Len(c.seen) < Limit
    \/ \E m \in ToSet(c.seen) : saved[x].at > m.at

\* The answer takes the place of what c.by shows.
LeftBehind(c) == IF Overtaken(c) THEN crossed \cup {c.by} ELSE crossed \ {c.by}

\* The telephone makes the chat that it does not find; the restaurant offers to.
ChatsLoaded(c) ==
  /\ c \in loads /\ c.op = "open" /\ c.got = "ok"
  /\ IF c.chat = 0 /\ c.by = "phone"
     THEN /\ loads' = (loads \ {c}) \cup {Load(c.by, "create", 0, 0)}
          /\ UNCHANGED <<shown, messages, joined, due, crossed>>
     ELSE /\ loads' = loads \ {c}
          /\ Show(c.by, c.chat, IF c.by = "desk" THEN Latest(c.seen, Limit) ELSE c.seen)
          /\ crossed' = LeftBehind(c)
  /\ UNCHANGED <<draft, sends, saved, chats, outbox, boundVars>>

\* handleCreateChat, offered when no chat is shown and none is being loaded or created
CreateChat ==
  /\ shown["desk"] = 0 /\ \A c \in loads : c.by # "desk"
  /\ opens < MaxOpens /\ opens' = opens + 1
  /\ Ask(Load("desk", "create", 0, 0))
  /\ UNCHANGED <<windowVars, sends, serverVars, typed, faults, crossed>>

ChatCreated(c) ==
  /\ c \in loads /\ c.op = "create" /\ c.got = "ok"
  /\ loads' = loads \ {c}
  /\ Show(c.by, c.chat, <<>>)
  /\ crossed' = LeftBehind(c)
  /\ UNCHANGED <<draft, sends, saved, chats, outbox, boundVars>>

\* the effect's subscription has reached the gateway
Subscribed(s) ==
  /\ shown[s] # 0 /\ s \notin joined
  /\ joined' = joined \cup {s}
  /\ UNCHANGED <<windowVars, callVars, saved, chats, outbox, due, boundVars, crossed>>

\* closeChatModal; what comes later still writes into the state of the modal
CloseChat ==
  /\ shown["phone"] # 0
  /\ Show("phone", 0, <<>>)
  /\ draft' = [draft EXCEPT !["phone"] = NoText]
  /\ UNCHANGED <<callVars, saved, chats, outbox, boundVars, crossed>>

\* loadMoreChatMessages, of the customer
LoadMore ==
  /\ shown["phone"] # 0 /\ Len(messages["phone"]) >= Page
  /\ opens < MaxOpens /\ opens' = opens + 1
  /\ Ask(Load("phone", "more", shown["phone"], Len(messages["phone"]) + Page))
  /\ UNCHANGED <<windowVars, sends, serverVars, typed, faults, crossed>>

\* The answer takes the place of the messages, of whichever chat is open by then.
MoreLoaded(c) ==
  /\ c \in loads /\ c.op = "more" /\ c.got = "ok"
  /\ loads' = loads \ {c}
  /\ messages' = [messages EXCEPT ![c.by] = c.seen]
  /\ crossed' = IF shown[c.by] \in {0, c.chat} THEN LeftBehind(c) ELSE crossed \cup {c.by}
  /\ UNCHANGED <<shown, draft, sends, serverVars, boundVars>>

-----------------------------------------------------------------------------
(* Writing and sending                                                     *)

\* A text is typed once; what failed comes back by itself.
Type(s, t) ==
  /\ t \notin typed /\ draft[s] = NoText /\ shown[s] # 0
  /\ s = "phone" => \A c \in sends : c.by # s
  /\ typed' = typed \cup {t}
  /\ draft' = [draft EXCEPT ![s] = t]
  /\ UNCHANGED <<shown, messages, callVars, serverVars, opens, faults, crossed>>

\* Mutant: the draft is left until the acknowledgement.
SendKeepingDraft(s) ==
  /\ draft[s] # NoText /\ shown[s] # 0
  /\ s = "phone" => \A c \in sends : c.by # s
  /\ sends' = sends \cup {[Message(s, draft[s], shown[s]) EXCEPT !.id = Cardinality(sends)]}
  /\ UNCHANGED <<windowVars, loads, serverVars, boundVars, crossed>>

\* sendChatMessageFromModal, disabled while sending; handleSendMessage of the page,
\* which is not, but for an empty draft
Send(s) ==
  /\ draft[s] # NoText /\ shown[s] # 0
  /\ s = "phone" => \A c \in sends : c.by # s
  /\ draft' = [draft EXCEPT ![s] = NoText]
  /\ sends' = sends \cup {Message(s, draft[s], shown[s])}
  /\ UNCHANGED <<shown, messages, loads, serverVars, boundVars, crossed>>

\* The acknowledgement is merged into the window, whichever chat is in it, with the
\* time of the client's clock.
Acknowledged(c) ==
  /\ c \in sends /\ c.got = "ok"
  /\ sends' = sends \ {c}
  /\ \E at \in Times :
       messages' = [messages EXCEPT ![c.by] = Merge(@, [id |-> c.id, at |-> at])]
  /\ crossed' = IF shown[c.by] # c.chat THEN crossed \cup {c.by} ELSE crossed
  /\ UNCHANGED <<shown, draft, loads, serverVars, boundVars>>

\* A message that failed is the draft again, in place of what was typed since.
SendFailed(c) ==
  /\ c \in sends /\ c.got = "error"
  /\ sends' = sends \ {c}
  /\ draft' = [draft EXCEPT ![c.by] = c.text]
  /\ UNCHANGED <<shown, messages, loads, serverVars, boundVars, crossed>>

\* The outbox sends to a socket once for each registration of its listener, and again
\* after a fault; the handler sends once.
Received(d) ==
  \/ due' = due \ {d}
  \/ d[3] = "outbox" /\ UNCHANGED due

\* Mutant: a copy is taken only if the messages shown are older.
DeliverNewer(d) ==
  /\ d \in due
  /\ Received(d)
  /\ messages' = [messages EXCEPT ![d[1]] =
       IF \A m \in ToSet(@) : m.id < d[2] THEN Merge(@, Copy(d[2])) ELSE @]
  /\ UNCHANGED <<shown, draft, callVars, saved, chats, joined, outbox, boundVars, crossed>>

\* onMessage of the chat's topic
Deliver(d) ==
  /\ d \in due
  /\ Received(d)
  /\ messages' = [messages EXCEPT ![d[1]] = Merge(@, Copy(d[2]))]
  /\ UNCHANGED <<shown, draft, callVars, saved, chats, joined, outbox, boundVars, crossed>>

-----------------------------------------------------------------------------
(* The server and the gateway                                              *)

ServeLoad(c) ==
  /\ c \in loads /\ c.got = "sent"
  /\ IF c.op = "create"
     THEN /\ chats < MaxChats /\ chats' = chats + 1
          /\ loads' = (loads \ {c}) \cup {[c EXCEPT !.got = "ok", !.chat = chats + 1]}
     ELSE LET k == IF c.op = "more" THEN c.chat ELSE IF chats > 0 THEN 1 ELSE 0 IN
          /\ \E ms \in InTime(OfChat(k)) :
               loads' = (loads \ {c}) \cup
                 {[c EXCEPT !.got = "ok", !.chat = k,
                            !.seen = IF c.op = "more" THEN Latest(ms, c.many) ELSE ms]}
          /\ UNCHANGED chats
  /\ UNCHANGED <<windowVars, sends, saved, joined, outbox, due, boundVars, crossed>>

\* the sides in the group of chat k
Group(k) == {s \in joined : shown[s] = k}

\* the sides that will show chat k without its next message, if they are not its writer
Missing(k) == {s \in Sides : shown[s] = k /\ s \notin joined}

\* the second it is by the server's clock, which does not go back
Now == {at \in Times : \A i \in DOMAIN saved : saved[i].at <= at}

\* The message is stored, sent to the group, and its sender told.
ServeSend(c) ==
  /\ c \in sends /\ c.got = "sent"
  /\ Len(saved) < MaxMessages
  /\ LET id == Len(saved) + 1 IN
     /\ \E at \in Now :
          saved' = Append(saved, [by |-> c.by, text |-> c.text, chat |-> c.chat, at |-> at])
     /\ outbox' = outbox \cup {id}
     /\ due' = due \cup {<<s, id, "handler">> : s \in Group(c.chat)}
     /\ \/ /\ sends' = (sends \ {c}) \cup {[c EXCEPT !.got = "ok", !.id = id]}
           /\ crossed' = crossed \cup (Missing(c.chat) \ {c.by})
           /\ UNCHANGED faults
        \/ /\ sends' = (sends \ {c}) \cup {[c EXCEPT !.got = "error"]}
           /\ crossed' = crossed \cup Missing(c.chat)
           /\ faults < MaxFaults /\ faults' = faults + 1
  /\ UNCHANGED <<windowVars, loads, chats, joined, typed, opens>>

RefuseSend(c) ==
  /\ c \in sends /\ c.got = "sent"
  /\ faults < MaxFaults /\ faults' = faults + 1
  /\ sends' = (sends \ {c}) \cup {[c EXCEPT !.got = "error"]}
  /\ UNCHANGED <<windowVars, loads, serverVars, typed, opens, crossed>>

\* the event of the outbox, to those in the group by then
Publish(id) ==
  /\ id \in outbox
  /\ outbox' = outbox \ {id}
  /\ due' = due \cup {<<s, id, "outbox">> : s \in Group(saved[id].chat)}
  /\ UNCHANGED <<windowVars, callVars, saved, chats, joined, boundVars, crossed>>

-----------------------------------------------------------------------------
ChatNext ==
  \/ \E s \in Sides :
       \/ OpenChat(s) \/ Subscribed(s) \/ Send(s)
       \/ \E t \in Texts : Type(s, t)
  \/ CreateChat \/ CloseChat \/ LoadMore
  \/ \E c \in loads : ChatsLoaded(c) \/ ChatCreated(c) \/ MoreLoaded(c) \/ ServeLoad(c)
  \/ \E c \in sends : Acknowledged(c) \/ SendFailed(c) \/ ServeSend(c) \/ RefuseSend(c)
  \/ \E d \in due : Deliver(d)
  \/ \E id \in outbox : Publish(id)

ChatSpec == ChatInit /\ [][ChatNext]_chatVars

-----------------------------------------------------------------------------
(* Properties                                                              *)

\* A message is in a window once, whichever of its three copies come, in any order,
\* and also when the window was loaded between two of them.
ShownOnce == \A s \in Sides : Len(messages[s]) = Cardinality(ToSet(Ids(messages[s])))

Quiet == loads = {} /\ sends = {} /\ due = {} /\ outbox = {}

\* the places in a window of messages of the others
Others(s) == {i \in DOMAIN messages[s] : saved[messages[s][i].id].by # s}

\* When nothing is under way, an open window has all of its chat, or as much as it can
\* keep of it, and then the newest, if its side has written nothing; and what others
\* wrote is in the order of its seconds.  Unless an answer was overtaken by a message,
\* or a message was stored between the load of the chat and the subscription to it.
\* (The order of messages of one second is anyhow, and one's own are where the client's
\* clock has put them, until the server's copy comes: nothing can be said of these.)
OpenWindowSeesAll ==
  Quiet => \A s \in Sides \ crossed : shown[s] # 0 =>
    LET there == ToSet(Ids(messages[s]))
        all   == OfChat(shown[s])
        wrote == \E x \in all : saved[x].by = s IN
    /\ there \subseteq all
    /\ there # all => Len(messages[s]) >= Limit
    /\ ~wrote => \A x \in all \ there, y \in there : saved[x].at <= saved[y].at
    /\ \A i, j \in Others(s) :
         i < j => saved[messages[s][i].id].at <= saved[messages[s][j].id].at

\* A text is stored twice only if it failed, and its writer was given it back.
SentOnce ==
  faults = 0 => \A i, j \in DOMAIN saved : saved[i].text = saved[j].text => i = j

=============================================================================
