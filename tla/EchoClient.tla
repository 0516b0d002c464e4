----------------------------- MODULE EchoClient -----------------------------
(***************************************************************************)
(* The socket client that every screen of the two apps shares, and the     *)
(* gateway it talks to: one current socket, the channels the screens want, *)
(* a queue for what is said while no socket is open, acknowledgements with *)
(* a timeout, and reconnection.  The client keeps its state in variables   *)
(* of the module, and the handlers of every socket it ever made write them.*)
(* The gateway treats the messages of one socket in order.                 *)
(***************************************************************************)
EXTENDS Naturals, Sequences, SequencesExt

CONSTANTS
  Users, NoUser,   \* accounts used on the device; none
  Channels,        \* names of channels
  Base,            \* the channels that hello joins by itself
  Texts,           \* chat messages, each sent once with an id of its own
  MaxSockets,      \* bound on the sockets ever made
  MaxCalls,        \* bound on the subscriptions and departures of screens
  MaxSwitches,     \* bound on the changes of account
  MaxFaults        \* bound on dropped connections and failing handlers

ASSUME EchoAssumption ==
  /\ NoUser \notin Users
  /\ IsFiniteSet(Channels) /\ Base \subseteq Channels
  /\ MaxSockets \in Nat /\ MaxCalls \in Nat
  /\ MaxSwitches \in Nat /\ MaxFaults \in Nat

Sockets == 1..MaxSockets
None    == 0          \* gatewaySocket = null

VARIABLES
  user,        \* currentUserId
  socket,      \* gatewaySocket
  conn,        \* readyState of every socket
  timer,       \* reconnectTimer is set
  queue,       \* pendingMessages
  wanted,      \* the keys of channelStates
  subscribed,  \* those whose subscribed flag is up
  outcome,     \* what the sender of a chat message has been told
  author,      \* the account that wrote it
  up, down,    \* the messages on their way, per socket
  bound,       \* gateway: the user of a socket's session
  member,      \* gateway: the groups of a socket
  saved,       \* server: the chat messages stored, with their sender
  calls, switches, faults

screenVars == <<user, wanted, author>>
socketVars == <<socket, conn, timer>>
serverVars == <<bound, member, saved>>
boundVars  == <<calls, switches, faults>>
vars == <<screenVars, socketVars, queue, subscribed, outcome, up, down, serverVars, boundVars>>

Hello(u)       == [type |-> "hello", user |-> u]
SubscribeTo(c) == [type |-> "subscribe", channel |-> c]
Unsubscribe(c) == [type |-> "unsubscribe", channel |-> c]
ChatSend(t)    == [type |-> "chat.message.send", text |-> t]

ClientMessage ==
  {Hello(u) : u \in Users} \cup {ChatSend(t) : t \in Texts}
    \cup {SubscribeTo(c) : c \in Channels} \cup {Unsubscribe(c) : c \in Channels}

SubscribeAck(c)   == [type |-> "subscribe.ack", channel |-> c]
UnsubscribeAck(c) == [type |-> "unsubscribe.ack", channel |-> c]
SendAck(t)        == [type |-> "chat.message.send.ack", text |-> t]
GatewayError      == [type |-> "gateway.error"]

ServerMessage ==
  {GatewayError} \cup {SendAck(t) : t \in Texts}
    \cup {SubscribeAck(c) : c \in Channels} \cup {UnsubscribeAck(c) : c \in Channels}

TypeOK ==
  /\ user \in Users \cup {NoUser}
  /\ socket \in Sockets \cup {None}
  /\ conn \in [Sockets -> {"unused", "connecting", "open", "closing", "closed"}]
  /\ timer \in BOOLEAN
  /\ queue \in Seq(ClientMessage)
  /\ wanted \subseteq Channels
  /\ subscribed \subseteq wanted
  /\ outcome \in [Texts -> {"unsent", "waiting", "acked", "failed"}]
  /\ author \in [Texts -> Users \cup {NoUser}]
  /\ up \in [Sockets -> Seq(ClientMessage)]
  /\ down \in [Sockets -> Seq(ServerMessage)]
  /\ bound \in [Sockets -> Users \cup {NoUser}]
  /\ member \in [Sockets -> SUBSET Channels]
  /\ saved \subseteq Texts \X Users
  /\ calls \in Nat /\ switches \in Nat /\ faults \in Nat

Init ==
  /\ user = NoUser
  /\ socket = None
  /\ conn = [s \in Sockets |-> "unused"]
  /\ timer = FALSE
  /\ queue = <<>>
  /\ wanted = {}
  /\ subscribed = {}
  /\ outcome = [t \in Texts |-> "unsent"]
  /\ author = [t \in Texts |-> NoUser]
  /\ up = [s \in Sockets |-> <<>>]
  /\ down = [s \in Sockets |-> <<>>]
  /\ bound = [s \in Sockets |-> NoUser]
  /\ member = [s \in Sockets |-> {}]
  /\ saved = {}
  /\ calls = 0 /\ switches = 0 /\ faults = 0

-----------------------------------------------------------------------------
(* The functions the calls are made of                                     *)

Open(s) == s # None /\ conn[s] = "open"
Live(s) == s # None /\ conn[s] \in {"connecting", "open"}

IsNext(s) == conn[s] = "unused" /\ \A r \in Sockets : r < s => conn[r] # "unused"

\* connectGatewaySocket: the current socket if it lives, a new one otherwise
ConnectGatewaySocket ==
  \/ Live(socket) /\ UNCHANGED <<socket, conn>>
  \/ ~Live(socket) /\ \E s \in Sockets :
       /\ IsNext(s)
       /\ socket' = s
       /\ conn' = [conn EXCEPT ![s] = "connecting"]

\* to the current socket if it is open, to the queue otherwise
SendOrQueue(msgs) ==
  IF Open(socket)
  THEN up' = [up EXCEPT ![socket] = @ \o msgs] /\ UNCHANGED queue
  ELSE queue' = queue \o msgs /\ UNCHANGED up

\* rejectPendingAcks: whoever waits for an acknowledgement is told it failed
Rejected == [t \in Texts |-> IF outcome[t] = "waiting" THEN "failed" ELSE outcome[t]]

\* scheduleReconnect, for the session that is current
ScheduleReconnect == timer' = (timer \/ (user # NoUser /\ wanted # {}))

\* the onclose of any socket, whichever is current by then
OnClose ==
  /\ socket' = None
  /\ subscribed' = {}
  /\ outcome' = Rejected
  /\ ScheduleReconnect

-----------------------------------------------------------------------------
(* What the screens call                                                   *)

CountCall == calls < MaxCalls /\ calls' = calls + 1

\* getEchoClient and private: a screen subscribes
Private(u, c) ==
  /\ user \in {NoUser, u}
  /\ c \notin wanted
  /\ CountCall
  /\ user' = u
  /\ wanted' = wanted \cup {c}
  /\ ConnectGatewaySocket
  /\ SendOrQueue(<<SubscribeTo(c)>>)
  /\ UNCHANGED <<author, timer, subscribed, outcome, down, serverVars, switches, faults>>

\* leave: the screen goes away
Leave(c) ==
  /\ c \in wanted
  /\ CountCall
  /\ wanted' = wanted \ {c}
  /\ subscribed' = subscribed \ {c}
  /\ SendOrQueue(<<Unsubscribe(c)>>)
  /\ UNCHANGED <<user, author, socketVars, outcome, down, serverVars, switches, faults>>

\* sendChatMessageOverSocket, from a screen of the current session
SendChatMessage(t) ==
  /\ user # NoUser
  /\ outcome[t] = "unsent"
  /\ outcome' = [outcome EXCEPT ![t] = "waiting"]
  /\ author' = [author EXCEPT ![t] = user]
  /\ ConnectGatewaySocket
  /\ SendOrQueue(<<ChatSend(t)>>)
  /\ UNCHANGED <<user, wanted, timer, subscribed, down, serverVars, boundVars>>

\* Mutant: the queue of the former session is kept.
ResetButQueue ==
  /\ timer' = FALSE
  /\ subscribed' = {}
  /\ outcome' = Rejected
  /\ UNCHANGED <<queue, up>>

\* disconnectEchoClient, but for the socket and the session
Reset ==
  /\ timer' = FALSE
  /\ queue' = <<>>
  /\ subscribed' = {}
  /\ outcome' = Rejected
  /\ UNCHANGED up

ClosedByClient ==
  [s \in Sockets |-> IF s = socket /\ Live(s) THEN "closing" ELSE conn[s]]

\* logout: disconnectEchoClient alone
Disconnect ==
  /\ user # NoUser
  /\ switches < MaxSwitches
  /\ switches' = switches + 1
  /\ Reset
  /\ conn' = ClosedByClient
  /\ socket' = None
  /\ user' = NoUser
  /\ wanted' = {}
  /\ UNCHANGED <<author, down, serverVars, calls, faults>>

\* ensureConnection for another account: the old socket is told to close and
\* the new one is made in the same turn, before the old one's onclose
SwitchUser(u) ==
  /\ user \notin {NoUser, u}
  /\ switches < MaxSwitches
  /\ switches' = switches + 1
  /\ Reset
  /\ \E s \in Sockets :
       /\ IsNext(s)
       /\ conn' = [ClosedByClient EXCEPT ![s] = "connecting"]
       /\ socket' = s
  /\ user' = u
  /\ wanted' = {}
  /\ UNCHANGED <<author, down, serverVars, calls, faults>>

-----------------------------------------------------------------------------
(* Timers and events of the sockets                                        *)

\* Mutant: no acknowledgement in time is taken for a delivery.
AckTimeoutResolves(t) ==
  /\ outcome[t] = "waiting"
  /\ outcome' = [outcome EXCEPT ![t] = "acked"]
  /\ UNCHANGED <<screenVars, socketVars, queue, subscribed, up, down, serverVars, boundVars>>

\* the timeout of sendWithAck
AckTimeout(t) ==
  /\ outcome[t] = "waiting"
  /\ outcome' = [outcome EXCEPT ![t] = "failed"]
  /\ UNCHANGED <<screenVars, socketVars, queue, subscribed, up, down, serverVars, boundVars>>

\* the callback of scheduleReconnect
Reconnect ==
  /\ timer
  /\ timer' = FALSE
  /\ IF user = NoUser THEN UNCHANGED <<socket, conn>> ELSE ConnectGatewaySocket
  /\ UNCHANGED <<screenVars, queue, subscribed, outcome, up, down, serverVars, boundVars>>

\* Mutant: a new connection does not ask for the channels again.
HelloOnly == <<Hello(user)>>

\* what onopen says: who we are, and every channel the screens want
Introduction ==
  <<Hello(user)>> \o SetToSeq({SubscribeTo(c) : c \in wanted})

\* onopen speaks through gatewaySocket, which need not be the socket that opened
OnOpen(s) ==
  /\ conn[s] = "connecting"
  /\ user # NoUser
  /\ conn' = [conn EXCEPT ![s] = "open"]
  /\ IF socket = s \/ Open(socket)
     THEN /\ up' = [up EXCEPT ![socket] = @ \o Introduction \o queue]
          /\ queue' = <<>>
     ELSE queue' = queue \o Introduction /\ UNCHANGED up
  /\ UNCHANGED <<screenVars, socket, timer, subscribed, outcome, down, serverVars, boundVars>>

\* A socket that is not current has its heartbeats answered on another one, or
\* nowhere, and the gateway closes it.  Any other close is a fault.
Drop(s) ==
  /\ Live(s)
  /\ IF s # socket /\ Open(s)
     THEN UNCHANGED faults
     ELSE faults < MaxFaults /\ faults' = faults + 1
  /\ conn' = [conn EXCEPT ![s] = "closed"]
  /\ up' \in {up, [up EXCEPT ![s] = <<>>]}
  /\ down' = [down EXCEPT ![s] = <<>>]
  /\ OnClose
  /\ UNCHANGED <<screenVars, queue, serverVars, calls, switches>>

\* the close handshake that close() began ends
CloseEnds(s) ==
  /\ conn[s] = "closing"
  /\ conn' = [conn EXCEPT ![s] = "closed"]
  /\ down' = [down EXCEPT ![s] = <<>>]
  /\ OnClose
  /\ UNCHANGED <<screenVars, queue, up, serverVars, boundVars>>

\* the matcher of sendChatMessageOverSocket, in resolvePendingAck
Matches(m, t) == outcome[t] = "waiting" /\ m.text = t

\* Mutant: the acknowledgement is believed without the channel.
AckedAnyway(m) == {m.channel}

AckedChannel(m) == {m.channel} \cap wanted

\* handleGatewayMessage.  An acknowledgement concerns the channel by its name,
\* whichever subscription it answers.
OnMessage(s) ==
  /\ conn[s] = "open"
  /\ down[s] # <<>>
  /\ down' = [down EXCEPT ![s] = Tail(@)]
  /\ LET m == Head(down[s]) IN
     \/ /\ m.type = "subscribe.ack"
        /\ subscribed' = subscribed \cup AckedChannel(m)
        /\ UNCHANGED outcome
     \/ /\ m.type = "unsubscribe.ack"
        /\ subscribed' = subscribed \ {m.channel}
        /\ UNCHANGED outcome
     \/ /\ m.type = "chat.message.send.ack"
        /\ outcome' = [t \in Texts |-> IF Matches(m, t) THEN "acked" ELSE outcome[t]]
        /\ UNCHANGED subscribed
     \/ /\ m.type = "gateway.error"
        /\ outcome' = Rejected
        /\ UNCHANGED subscribed
  /\ UNCHANGED <<screenVars, socketVars, queue, up, serverVars, boundVars>>

-----------------------------------------------------------------------------
(* The gateway                                                             *)

Answer(s, m) ==
  down' = [down EXCEPT ![s] = IF conn[s] = "open" THEN Append(@, m) ELSE @]

GatewayHandles(s) ==
  /\ up[s] # <<>>
  /\ up' = [up EXCEPT ![s] = Tail(@)]
  /\ LET m == Head(up[s]) IN
     \/ /\ m.type = "hello"
        /\ bound' = [bound EXCEPT ![s] = m.user]
        /\ member' = [member EXCEPT ![s] = @ \cup Base]
        /\ UNCHANGED <<down, saved, faults>>
     \/ /\ m.type = "subscribe"
        /\ member' = [member EXCEPT ![s] = @ \cup {m.channel}]
        /\ Answer(s, SubscribeAck(m.channel))
        /\ UNCHANGED <<bound, saved, faults>>
     \/ /\ m.type = "unsubscribe"
        /\ member' = [member EXCEPT ![s] = @ \ {m.channel}]
        /\ Answer(s, UnsubscribeAck(m.channel))
        /\ UNCHANGED <<bound, saved, faults>>
     \/ /\ m.type = "chat.message.send"
        /\ bound[s] # NoUser
        /\ saved' = saved \cup {<<m.text, bound[s]>>}
        /\ Answer(s, SendAck(m.text))
        /\ UNCHANGED <<bound, member, faults>>
     \/ /\ m.type = "chat.message.send"
        /\ faults < MaxFaults
        /\ faults' = faults + 1
        /\ saved' \in {saved} \cup {saved \cup {<<m.text, u>>} : u \in {bound[s]} \cap Users}
        /\ Answer(s, GatewayError)
        /\ UNCHANGED <<bound, member>>
  /\ UNCHANGED <<screenVars, socketVars, queue, subscribed, outcome, calls, switches>>

\* onClose at the gateway: the session and the groups of a closed socket end
GatewayForgets(s) ==
  /\ conn[s] = "closed"
  /\ up[s] = <<>>
  /\ bound[s] # NoUser \/ member[s] # {}
  /\ bound' = [bound EXCEPT ![s] = NoUser]
  /\ member' = [member EXCEPT ![s] = {}]
  /\ UNCHANGED <<screenVars, socketVars, queue, subscribed, outcome, up, down, saved, boundVars>>

-----------------------------------------------------------------------------
Screens ==
  \/ \E u \in Users, c \in Channels : Private(u, c)
  \/ \E c \in Channels : Leave(c)
  \/ \E t \in Texts : SendChatMessage(t)
  \/ Disconnect
  \/ \E u \in Users : SwitchUser(u)

Next ==
  \/ Screens
  \/ \E t \in Texts : AckTimeout(t)
  \/ Reconnect
  \/ \E s \in Sockets :
       \/ OnOpen(s) \/ OnMessage(s) \/ Drop(s) \/ CloseEnds(s)
       \/ GatewayHandles(s) \/ GatewayForgets(s)

Spec == Init /\ [][Next]_vars

\* The network delivers, the gateway answers and the timer goes off; nobody has
\* to subscribe, to send or to fail.
Fairness ==
  /\ WF_vars(Reconnect)
  /\ \A s \in Sockets :
       WF_vars(OnOpen(s)) /\ WF_vars(OnMessage(s)) /\ WF_vars(GatewayHandles(s))

FairSpec == Spec /\ Fairness

-----------------------------------------------------------------------------
(* Properties                                                              *)

SavedTexts == {p[1] : p \in saved}

\* Whoever is told that a message was delivered finds it stored, although an
\* acknowledgement may come late, or after another message's.
AckMeansSaved == \A t \in Texts : outcome[t] = "acked" => t \in SavedTexts

\* A message is stored under the account that wrote it, also when it waited in
\* the queue for a connection and the account was switched meanwhile.
SavedUnderAuthor == \A p \in saved : author[p[1]] = p[2]

\* Nothing is under way on the only living socket, and nothing is queued.
Quiet ==
  /\ Open(socket)
  /\ \A s \in Sockets : s # socket => conn[s] \in {"unused", "closed"}
  /\ up[socket] = <<>> /\ down[socket] = <<>> /\ queue = <<>>

\* Once the messages under way are through, the screens' channels, the flags the
\* client keeps and the gateway's groups agree: acknowledgements of withdrawn
\* subscriptions and of lost connections leave nothing behind.
QuietMeansJoined ==
  Quiet =>
    /\ subscribed = wanted
    /\ wanted \subseteq member[socket]
    /\ member[socket] \subseteq wanted \cup Base

\* What a screen wants it gets, whatever connections drop, unless it leaves or the
\* session changes.
EventuallySubscribed ==
  \A c \in Channels :
    (c \in wanted) ~> (c \in subscribed \/ c \notin wanted \/ switches > 0)

=============================================================================
