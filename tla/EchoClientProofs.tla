-------------------------- MODULE EchoClientProofs --------------------------
(***************************************************************************)
(* Proofs about EchoClient, for any sets of accounts, channels and chat    *)
(* messages and any number of sockets, calls, switches and faults.         *)
(***************************************************************************)
EXTENDS EchoClient, TLAPS, FiniteSetTheorems, SequenceTheorems

-----------------------------------------------------------------------------
(* Sequences of messages                                                   *)

LEMMA Joined ==
  ASSUME NEW S, NEW q \in Seq(S), NEW r \in Seq(S)
  PROVE  q \o r \in Seq(S)
BY ConcatProperties

LEMMA Single ==
  ASSUME NEW S, NEW m \in S
  PROVE  <<m>> \in Seq(S)
OBVIOUS

LEMMA Popped ==
  ASSUME NEW S, NEW q \in Seq(S), q # <<>>
  PROVE  Head(q) \in S /\ Tail(q) \in Seq(S)
BY HeadTailProperties, ElementOfSeq

LEMMA Wider ==
  ASSUME NEW S, NEW T, S \subseteq T
  PROVE  Seq(S) \subseteq Seq(T)
<1> SUFFICES ASSUME NEW q \in Seq(S) PROVE q \in Seq(T)
  OBVIOUS
<1>1. Len(q) \in Nat /\ q \in [1..Len(q) -> S]
  BY LenProperties
<1>2. q \in [1..Len(q) -> T]
  BY <1>1
<1> QED
  BY <1>1, <1>2, SeqDef

\* SetToSeq lists a finite set.
LEMMA Listed ==
  ASSUME NEW S, IsFiniteSet(S)
  PROVE  SetToSeq(S) \in Seq(S)
<1>1. Cardinality(S) \in Nat /\ ExistsBijection(1..Cardinality(S), S)
  BY FS_CardinalityType
<1>2. \E f \in [1..Cardinality(S) -> S] : IsInjective(f)
  BY <1>1 DEF ExistsBijection, Bijection, Injection
<1>3. SetToSeq(S) \in [1..Cardinality(S) -> S]
  BY <1>2 DEF SetToSeq
<1> QED
  BY <1>1, <1>3, SeqDef

\* A subscription for each of some channels, in some order.
LEMMA Subscriptions ==
  ASSUME EchoAssumption, NEW W, W \subseteq Channels
  PROVE  LET S == {SubscribeTo(c) : c \in W} IN SetToSeq(S) \in Seq(S)
<1> DEFINE S == {SubscribeTo(c) : c \in W}
           f == [c \in W |-> SubscribeTo(c)]
<1>1. IsFiniteSet(W)
  BY FS_Subset DEF EchoAssumption
<1>2. f \in Surjection(W, S)
  BY DEF Surjection
<1>3. IsFiniteSet(S)
  BY <1>1, <1>2, FS_Surjection
<1> QED
  BY <1>3, Listed

-----------------------------------------------------------------------------
(* Types                                                                   *)

USE DEF screenVars, socketVars, serverVars, boundVars, vars, Sockets, None

\* TypeOK in parts: the messages under way, the client, the server and the bounds.
Messages ==
  /\ queue \in Seq(ClientMessage)
  /\ up \in [Sockets -> Seq(ClientMessage)]
  /\ down \in [Sockets -> Seq(ServerMessage)]

Client ==
  /\ user \in Users \cup {NoUser}
  /\ socket \in Sockets \cup {None}
  /\ conn \in [Sockets -> {"unused", "connecting", "open", "closing", "closed"}]
  /\ timer \in BOOLEAN
  /\ wanted \subseteq Channels
  /\ subscribed \subseteq wanted
  /\ outcome \in [Texts -> {"unsent", "waiting", "acked", "failed"}]
  /\ author \in [Texts -> Users \cup {NoUser}]

Server ==
  /\ bound \in [Sockets -> Users \cup {NoUser}]
  /\ member \in [Sockets -> SUBSET Channels]
  /\ saved \subseteq Texts \X Users

Counts == calls \in Nat /\ switches \in Nat /\ faults \in Nat

LEMMA TypeParts ==
  /\ TypeOK <=> Messages /\ Client /\ Server /\ Counts
  /\ TypeOK' <=> Messages' /\ Client' /\ Server' /\ Counts'
BY DEF TypeOK, Messages, Client, Server, Counts

LEMMA NothingOnServer ==
  ASSUME Server, UNCHANGED serverVars
  PROVE  Server'
BY DEF Server

LEMMA IntroductionType ==
  ASSUME TypeOK, user # NoUser
  PROVE  Introduction \in Seq(ClientMessage)
<1> DEFINE S == {SubscribeTo(c) : c \in wanted}
<1>1. SetToSeq(S) \in Seq(S)
  BY EchoAssumption, Subscriptions DEF TypeOK
<1>2. S \subseteq ClientMessage
  BY DEF TypeOK, ClientMessage
<1>3. SetToSeq(S) \in Seq(ClientMessage)
  BY <1>1, <1>2, Wider
<1>4. <<Hello(user)>> \in Seq(ClientMessage)
  BY Single DEF TypeOK, ClientMessage
<1> QED
  BY <1>3, <1>4, Joined DEF Introduction

\* What the calls are made of, of the right types.
LEMMA ConnectType ==
  ASSUME TypeOK, ConnectGatewaySocket
  PROVE  /\ socket' \in Sockets \cup {None}
         /\ conn' \in [Sockets -> {"unused", "connecting", "open", "closing", "closed"}]
BY DEF TypeOK, ConnectGatewaySocket

LEMMA SendType ==
  ASSUME TypeOK, NEW msgs \in Seq(ClientMessage), SendOrQueue(msgs)
  PROVE  queue' \in Seq(ClientMessage) /\ up' \in [Sockets -> Seq(ClientMessage)]
<1>1. CASE Open(socket)
  <2>1. socket \in Sockets
    BY <1>1 DEF Open, TypeOK
  <2>2. up[socket] \o msgs \in Seq(ClientMessage)
    BY <2>1, Joined DEF TypeOK
  <2> QED
    BY <1>1, <2>1, <2>2 DEF SendOrQueue, TypeOK
<1>2. CASE ~Open(socket)
  <2>1. queue \o msgs \in Seq(ClientMessage)
    BY Joined DEF TypeOK
  <2> QED
    BY <1>2, <2>1 DEF SendOrQueue, TypeOK
<1> QED
  BY <1>1, <1>2

LEMMA RejectedType ==
  ASSUME TypeOK
  PROVE  Rejected \in [Texts -> {"unsent", "waiting", "acked", "failed"}]
BY DEF TypeOK, Rejected

LEMMA AnswerType ==
  ASSUME TypeOK, NEW s \in Sockets, NEW m \in ServerMessage, Answer(s, m)
  PROVE  down' \in [Sockets -> Seq(ServerMessage)]
<1>1. Append(down[s], m) \in Seq(ServerMessage)
  BY AppendProperties DEF TypeOK
<1> QED
  BY <1>1 DEF Answer, TypeOK

LEMMA ScreenType ==
  ASSUME TypeOK, Screens
  PROVE  TypeOK'
<1>0. Messages /\ Client /\ Server /\ Counts
  BY TypeParts
<1>1. ASSUME NEW u \in Users, NEW c \in Channels, Private(u, c) PROVE TypeOK'
  <2>1. <<SubscribeTo(c)>> \in Seq(ClientMessage)
    BY Single DEF ClientMessage
  <2>2. Messages'
    BY <1>0, <1>1, <2>1, SendType DEF Private, Messages
  <2>3. Client'
    BY <1>0, <1>1, ConnectType DEF Private, Client
  <2>4. Counts'
    BY <1>0, <1>1 DEF Private, CountCall, Counts
  <2> QED
    BY <1>0, <1>1, <2>2, <2>3, <2>4, TypeParts, NothingOnServer DEF Private
<1>2. ASSUME NEW c \in Channels, Leave(c) PROVE TypeOK'
  <2>1. <<Unsubscribe(c)>> \in Seq(ClientMessage)
    BY Single DEF ClientMessage
  <2>2. Messages'
    BY <1>0, <1>2, <2>1, SendType DEF Leave, Messages
  <2>3. Client'
    BY <1>0, <1>2 DEF Leave, Client
  <2>4. Counts'
    BY <1>0, <1>2 DEF Leave, CountCall, Counts
  <2> QED
    BY <1>0, <1>2, <2>2, <2>3, <2>4, TypeParts, NothingOnServer DEF Leave
<1>3. ASSUME NEW t \in Texts, SendChatMessage(t) PROVE TypeOK'
  <2>1. <<ChatSend(t)>> \in Seq(ClientMessage)
    BY Single DEF ClientMessage
  <2>2. Messages'
    BY <1>0, <1>3, <2>1, SendType DEF SendChatMessage, Messages
  <2>3. Client'
    BY <1>0, <1>3, ConnectType DEF SendChatMessage, Client
  <2> QED
    BY <1>0, <1>3, <2>2, <2>3, TypeParts, NothingOnServer DEF SendChatMessage, Counts
<1>4. ASSUME Disconnect \/ \E u \in Users : SwitchUser(u) PROVE TypeOK'
  <2>1. Messages'
    <3>1. <<>> \in Seq(ClientMessage)
      OBVIOUS
    <3> QED
      BY <1>0, <1>4, <3>1 DEF Disconnect, SwitchUser, Reset, Messages
  <2>2. ClosedByClient \in [Sockets -> {"unused", "connecting", "open", "closing", "closed"}]
    BY <1>0 DEF ClosedByClient, Client
  <2>3. Client'
    BY <1>0, <1>4, <2>2, RejectedType DEF Disconnect, SwitchUser, Reset, Client
  <2>4. Counts'
    BY <1>0, <1>4 DEF Disconnect, SwitchUser, Counts
  <2> QED
    BY <1>0, <1>4, <2>1, <2>3, <2>4, TypeParts, NothingOnServer DEF Disconnect, SwitchUser
<1> QED
  BY <1>1, <1>2, <1>3, <1>4 DEF Screens

LEMMA ClientType ==
  ASSUME TypeOK, NEW s \in Sockets, OnOpen(s) \/ OnMessage(s) \/ Drop(s) \/ CloseEnds(s)
  PROVE  TypeOK'
<1>0. Messages /\ Client /\ Server /\ Counts
  BY TypeParts
<1>1. CASE OnOpen(s)
  <2>0. <<>> \in Seq(ClientMessage)
    OBVIOUS
  <2>1. Introduction \in Seq(ClientMessage)
    BY <1>1, IntroductionType DEF OnOpen
  <2>2. Messages'
    <3>1. CASE socket = s \/ Open(socket)
      <4>1. socket \in Sockets
        BY <1>0, <3>1 DEF Open, Client
      <4>2. up[socket] \o Introduction \o queue \in Seq(ClientMessage)
        BY <1>0, <2>1, <4>1, Joined DEF Messages
      <4> QED
        BY <1>0, <1>1, <2>0, <3>1, <4>1, <4>2 DEF OnOpen, Messages
    <3>2. CASE ~(socket = s \/ Open(socket))
      <4>1. queue \o Introduction \in Seq(ClientMessage)
        BY <1>0, <2>1, Joined DEF Messages
      <4> QED
        BY <1>0, <1>1, <3>2, <4>1 DEF OnOpen, Messages
    <3> QED
      BY <3>1, <3>2
  <2>3. Client'
    BY <1>0, <1>1 DEF OnOpen, Client
  <2> QED
    BY <1>0, <1>1, <2>2, <2>3, TypeParts, NothingOnServer DEF OnOpen, Counts
<1>2. CASE OnMessage(s)
  <2>1. Tail(down[s]) \in Seq(ServerMessage)
    BY <1>0, <1>2, Popped DEF OnMessage, Messages
  <2>2. Messages'
    BY <1>0, <1>2, <2>1 DEF OnMessage, Messages
  <2>3. subscribed' \subseteq wanted
    BY <1>0, <1>2 DEF OnMessage, AckedChannel, Client
  <2>4. outcome' \in [Texts -> {"unsent", "waiting", "acked", "failed"}]
    BY <1>0, <1>2, RejectedType DEF OnMessage, Client
  <2>5. Client'
    BY <1>0, <1>2, <2>3, <2>4 DEF OnMessage, Client
  <2> QED
    BY <1>0, <1>2, <2>2, <2>5, TypeParts, NothingOnServer DEF OnMessage, Counts
<1>3. ASSUME Drop(s) \/ CloseEnds(s) PROVE TypeOK'
  <2>1. <<>> \in Seq(ClientMessage) /\ <<>> \in Seq(ServerMessage)
    OBVIOUS
  <2>2. Messages'
    BY <1>0, <1>3, <2>1 DEF Drop, CloseEnds, Messages
  <2>3. Client'
    BY <1>0, <1>3, RejectedType DEF Drop, CloseEnds, OnClose, ScheduleReconnect, Client
  <2>4. Counts'
    BY <1>0, <1>3 DEF Drop, CloseEnds, Counts
  <2> QED
    BY <1>0, <1>3, <2>2, <2>3, <2>4, TypeParts, NothingOnServer DEF Drop, CloseEnds
<1> QED
  BY <1>1, <1>2, <1>3

\* The messages of each kind carry what their kind carries.
LEMMA ClientKinds ==
  ASSUME NEW m \in ClientMessage
  PROVE  /\ m.type = "hello" => m.user \in Users
         /\ m.type = "subscribe" => m.channel \in Channels
         /\ m.type = "unsubscribe" => m.channel \in Channels
         /\ m.type = "chat.message.send" => m.text \in Texts
BY DEF ClientMessage, Hello, SubscribeTo, Unsubscribe, ChatSend

LEMMA GatewayType ==
  ASSUME TypeOK, NEW s \in Sockets, GatewayHandles(s)
  PROVE  TypeOK'
<1> DEFINE m == Head(up[s])
<1>1. m \in ClientMessage /\ Tail(up[s]) \in Seq(ClientMessage)
  BY Popped DEF GatewayHandles, TypeOK
<1>2. up' \in [Sockets -> Seq(ClientMessage)]
  BY <1>1 DEF GatewayHandles, TypeOK
<1>3. down' \in [Sockets -> Seq(ServerMessage)]
  <2>1. ASSUME NEW c \in Channels, Answer(s, SubscribeAck(c)) \/ Answer(s, UnsubscribeAck(c))
        PROVE  down' \in [Sockets -> Seq(ServerMessage)]
    BY <2>1, AnswerType DEF ServerMessage
  <2>2. ASSUME NEW t \in Texts, Answer(s, SendAck(t)) \/ Answer(s, GatewayError)
        PROVE  down' \in [Sockets -> Seq(ServerMessage)]
    BY <2>2, AnswerType DEF ServerMessage
  <2> QED
    BY <1>1, <2>1, <2>2, ClientKinds DEF GatewayHandles, TypeOK
<1>4. bound' \in [Sockets -> Users \cup {NoUser}]
  BY <1>1, ClientKinds DEF GatewayHandles, TypeOK
<1>5. member' \in [Sockets -> SUBSET Channels]
  <2>1. ASSUME NEW C \in SUBSET Channels, member' = [member EXCEPT ![s] = C]
        PROVE  member' \in [Sockets -> SUBSET Channels]
    BY <2>1 DEF TypeOK
  <2>2. member[s] \in SUBSET Channels
    BY DEF TypeOK
  <2>3. UNCHANGED member \/ \E C \in SUBSET Channels : member' = [member EXCEPT ![s] = C]
    <3>1. CASE m.type = "hello"
      <4>1. member[s] \cup Base \in SUBSET Channels
        BY <2>2, EchoAssumption
      <4> QED
        BY <3>1, <4>1 DEF GatewayHandles
    <3>2. CASE m.type = "subscribe"
      <4>1. member[s] \cup {m.channel} \in SUBSET Channels
        BY <1>1, <2>2, <3>2, ClientKinds
      <4> QED
        BY <3>2, <4>1 DEF GatewayHandles
    <3>3. CASE m.type = "unsubscribe"
      <4>1. member[s] \ {m.channel} \in SUBSET Channels
        BY <2>2
      <4> QED
        BY <3>3, <4>1 DEF GatewayHandles
    <3>4. CASE m.type = "chat.message.send"
      BY <3>4 DEF GatewayHandles
    <3> QED
      BY <3>1, <3>2, <3>3, <3>4 DEF GatewayHandles
  <2> QED
    BY <2>1, <2>3 DEF TypeOK
<1>6. saved' \subseteq Texts \X Users
  BY <1>1, ClientKinds DEF GatewayHandles, TypeOK
<1>7. faults' \in Nat
  BY DEF GatewayHandles, TypeOK
<1> QED
  BY <1>2, <1>3, <1>4, <1>5, <1>6, <1>7 DEF GatewayHandles, TypeOK

LEMMA TypeStep == TypeOK /\ [Next]_vars => TypeOK'
<1> SUFFICES ASSUME TypeOK, [Next]_vars PROVE TypeOK'
  OBVIOUS
<1>1. ASSUME NEW t \in Texts, AckTimeout(t) PROVE TypeOK'
  BY <1>1 DEF AckTimeout, TypeOK
<1>2. CASE Reconnect
  BY <1>2, ConnectType DEF Reconnect, TypeOK
<1>3. ASSUME NEW s \in Sockets, GatewayForgets(s) PROVE TypeOK'
  BY <1>3 DEF GatewayForgets, TypeOK
<1>4. CASE UNCHANGED vars
  BY <1>4 DEF TypeOK
<1> QED
  BY <1>1, <1>2, <1>3, <1>4, ScreenType, ClientType, GatewayType DEF Next

\* Every reachable state is well typed: the queue and the wires carry only
\* messages of the protocol, and a channel is marked as subscribed only while a
\* screen wants it (handleGatewayMessage, leave, private).
THEOREM TypeCorrect == Spec => []TypeOK
<1>1. Init => TypeOK
  <2>1. Init => Messages /\ Counts
    BY DEF Init, Messages, Counts
  <2>2. Init => Client
    BY EchoAssumption DEF Init, Client
  <2>3. Init => Server
    BY EchoAssumption DEF Init, Server
  <2> QED
    BY <2>1, <2>2, <2>3, TypeParts
<1> QED
  BY <1>1, TypeStep, PTL DEF Spec

-----------------------------------------------------------------------------
(* Acknowledgements                                                        *)

\* What the gateway may say of the messages it stored.
Believable ==
  {m \in ServerMessage : m.type = "chat.message.send.ack" => m.text \in SavedTexts}

\* AckMeansSaved is not inductive alone: it takes what is still under way to be true.
AckInv ==
  /\ \A s \in Sockets : down[s] \in Seq(Believable)
  /\ AckMeansSaved

LEMMA ServerKinds ==
  ASSUME NEW m \in ServerMessage, m.type = "chat.message.send.ack"
  PROVE  m.text \in Texts
BY DEF ServerMessage, SendAck, SubscribeAck, UnsubscribeAck, GatewayError

\* Nothing that was stored is forgotten.
LEMMA SavedGrows ==
  ASSUME TypeOK, [Next]_vars
  PROVE  saved \subseteq saved'
<1>1. ASSUME NEW s \in Sockets, GatewayHandles(s) PROVE saved \subseteq saved'
  BY <1>1 DEF GatewayHandles
<1>2. ~(\E s \in Sockets : GatewayHandles(s)) => UNCHANGED saved
  BY DEF Next, Screens, Private, Leave, SendChatMessage, Disconnect, SwitchUser,
         AckTimeout, Reconnect, OnOpen, OnMessage, Drop, CloseEnds, GatewayForgets
<1> QED
  BY <1>1, <1>2

\* What was believable stays so.
LEMMA BelievableStays ==
  ASSUME saved \subseteq saved'
  PROVE  Seq(Believable) \subseteq Seq(Believable')
<1>1. SavedTexts \subseteq SavedTexts'
  BY DEF SavedTexts
<1>2. Believable \subseteq Believable'
  BY <1>1 DEF Believable
<1> QED
  BY <1>2, Wider

LEMMA RejectedAcksNothing ==
  ASSUME NEW t \in Texts
  PROVE  Rejected[t] = "acked" => outcome[t] = "acked"
BY DEF Rejected

\* The client believes the message it reads.
LEMMA OnMessageAck ==
  ASSUME TypeOK, AckInv, NEW s \in Sockets, OnMessage(s)
  PROVE  AckInv'
<1> DEFINE m == Head(down[s])
<1>1. saved' = saved
  BY DEF OnMessage
<1>2. m \in Believable /\ down[s] # <<>>
  BY Popped DEF AckInv, OnMessage
<1>3. \A r \in Sockets : down'[r] \in {down[r], Tail(down[r])}
                         /\ (down'[r] # down[r] => down[r] # <<>>)
  BY <1>2 DEF OnMessage, TypeOK
<1>4. ASSUME NEW r \in Sockets PROVE down'[r] \in Seq(Believable')
  <2>1. down[r] \in Seq(Believable)
    BY DEF AckInv
  <2>2. down[r] # <<>> => Tail(down[r]) \in Seq(Believable)
    BY <2>1, Popped
  <2>3. down'[r] \in Seq(Believable)
    BY <1>3, <2>1, <2>2
  <2> QED
    BY <1>1, <2>3, BelievableStays
<1>5. ASSUME NEW t \in Texts, outcome'[t] = "acked" PROVE t \in SavedTexts
  <2>1. CASE m.type = "chat.message.send.ack"
    BY <1>2, <1>5, <2>1 DEF OnMessage, Matches, Believable, AckInv, AckMeansSaved
  <2>2. CASE m.type # "chat.message.send.ack"
    BY <1>5, <2>2, RejectedAcksNothing DEF OnMessage, AckInv, AckMeansSaved
  <2> QED
    BY <2>1, <2>2
<1>6. SavedTexts' = SavedTexts
  BY <1>1 DEF SavedTexts
<1> QED
  BY <1>4, <1>5, <1>6 DEF AckInv, AckMeansSaved

\* The gateway acknowledges what it has just stored.
LEMMA GatewayAck ==
  ASSUME TypeOK, AckInv, NEW s \in Sockets, GatewayHandles(s), saved \subseteq saved'
  PROVE  AckInv'
<1> DEFINE m == Head(up[s])
<1>1. m \in ClientMessage
  BY Popped DEF GatewayHandles, TypeOK
<1>2. UNCHANGED down \/ \E a \in Believable' : Answer(s, a)
  <2>1. ASSUME NEW c \in Channels
        PROVE  {SubscribeAck(c), UnsubscribeAck(c), GatewayError} \subseteq Believable'
    BY DEF Believable, ServerMessage, SubscribeAck, UnsubscribeAck, GatewayError
  <2>2. GatewayError \in Believable'
    BY DEF Believable, ServerMessage, GatewayError
  <2>3. ASSUME NEW t \in Texts, t \in SavedTexts' PROVE SendAck(t) \in Believable'
    BY <2>3 DEF Believable, ServerMessage, SendAck
  <2>4. m.type = "chat.message.send" /\ saved' = saved \cup {<<m.text, bound[s]>>}
          => m.text \in SavedTexts'
    <3> SUFFICES ASSUME saved' = saved \cup {<<m.text, bound[s]>>} PROVE m.text \in SavedTexts'
      OBVIOUS
    <3>1. <<m.text, bound[s]>> \in saved' /\ <<m.text, bound[s]>>[1] = m.text
      OBVIOUS
    <3> QED
      BY <3>1 DEF SavedTexts
  <2> QED
    BY <1>1, <2>1, <2>2, <2>3, <2>4, ClientKinds DEF GatewayHandles
<1>3. ASSUME NEW r \in Sockets PROVE down'[r] \in Seq(Believable')
  <2>1. down[r] \in Seq(Believable')
    BY BelievableStays DEF AckInv
  <2>2. ASSUME NEW a \in Believable' PROVE Append(down[r], a) \in Seq(Believable')
    BY <2>1, <2>2, AppendProperties
  <2>3. CASE UNCHANGED down
    BY <2>1, <2>3
  <2>4. ASSUME NEW a \in Believable', Answer(s, a) PROVE down'[r] \in Seq(Believable')
    <3>1. down'[r] \in {down[r], Append(down[r], a)}
      BY <2>4 DEF Answer, TypeOK
    <3> QED
      BY <2>1, <2>2, <3>1
  <2> QED
    BY <1>2, <2>3, <2>4
<1>4. AckMeansSaved'
  <2>1. SavedTexts \subseteq SavedTexts'
    BY DEF SavedTexts
  <2> QED
    BY <2>1 DEF GatewayHandles, AckInv, AckMeansSaved
<1> QED
  BY <1>3, <1>4 DEF AckInv

LEMMA AckStep == TypeOK /\ AckInv /\ [Next]_vars => AckInv'
<1> SUFFICES ASSUME TypeOK, AckInv, [Next]_vars PROVE AckInv'
  OBVIOUS
<1>0. saved \subseteq saved'
  BY SavedGrows
<1>1. CASE Screens \/ Reconnect \/ UNCHANGED vars
  <2>1. down' = down
    BY <1>1 DEF Screens, Private, Leave, SendChatMessage, Disconnect, SwitchUser, Reconnect
  <2>2. \A t \in Texts : outcome'[t] = "acked" => outcome[t] = "acked"
    BY <1>1, RejectedAcksNothing
    DEF Screens, Private, Leave, SendChatMessage, Disconnect, SwitchUser, Reset, Reconnect, TypeOK
  <2>3. AckMeansSaved' /\ \A s \in Sockets : down'[s] \in Seq(Believable')
    BY <1>0, <2>1, <2>2, BelievableStays DEF AckInv, AckMeansSaved, SavedTexts
  <2> QED
    BY <2>3 DEF AckInv
<1>2. ASSUME NEW t \in Texts, AckTimeout(t) PROVE AckInv'
  <2>1. /\ down' = down
        /\ \A r \in Texts : outcome'[r] = "acked" => outcome[r] = "acked"
    BY <1>2 DEF AckTimeout, TypeOK
  <2>2. AckMeansSaved' /\ \A s \in Sockets : down'[s] \in Seq(Believable')
    BY <1>0, <2>1, BelievableStays DEF AckInv, AckMeansSaved, SavedTexts
  <2> QED
    BY <2>2 DEF AckInv
<1>3. ASSUME NEW s \in Sockets, OnOpen(s) \/ GatewayForgets(s) PROVE AckInv'
  <2>1. UNCHANGED <<down, outcome>>
    BY <1>3 DEF OnOpen, GatewayForgets
  <2>2. AckMeansSaved' /\ \A r \in Sockets : down'[r] \in Seq(Believable')
    BY <1>0, <2>1, BelievableStays DEF AckInv, AckMeansSaved, SavedTexts
  <2> QED
    BY <2>2 DEF AckInv
<1>4. ASSUME NEW s \in Sockets, Drop(s) \/ CloseEnds(s) PROVE AckInv'
  <2>1. \A t \in Texts : outcome'[t] = "acked" => outcome[t] = "acked"
    BY <1>4, RejectedAcksNothing DEF Drop, CloseEnds, OnClose
  <2>2. ASSUME NEW r \in Sockets PROVE down'[r] \in Seq(Believable')
    <3>1. <<>> \in Seq(Believable')
      OBVIOUS
    <3>2. down[r] \in Seq(Believable')
      BY <1>0, BelievableStays DEF AckInv
    <3> QED
      BY <1>4, <3>1, <3>2 DEF Drop, CloseEnds, TypeOK
  <2>3. AckMeansSaved'
    BY <1>0, <2>1 DEF AckInv, AckMeansSaved, SavedTexts
  <2> QED
    BY <2>2, <2>3 DEF AckInv
<1> QED
  BY <1>0, <1>1, <1>2, <1>3, <1>4, OnMessageAck, GatewayAck DEF Next

\* Whoever is told that a chat message was delivered finds it stored
\* (resolvePendingAck, sendChatMessageOverSocket), however late the answer and
\* whatever connections were lost.
THEOREM DeliveredWasSaved == Spec => []AckMeansSaved
<1>1. Init => AckInv
  <2>1. Init => \A s \in Sockets : down[s] \in Seq(Believable)
    <3>1. <<>> \in Seq(Believable)
      OBVIOUS
    <3> QED
      BY <3>1 DEF Init
  <2> QED
    BY <2>1 DEF Init, AckInv, AckMeansSaved
<1>2. AckInv => AckMeansSaved
  BY DEF AckInv
<1> QED
  BY <1>1, <1>2, AckStep, TypeCorrect, PTL DEF Spec

-----------------------------------------------------------------------------
(* Authors                                                                 *)

\* What account u may have said: hello in its name, and messages it wrote.
SaidBy(u) ==
  {m \in ClientMessage :
     /\ m.type = "hello" => m.user = u
     /\ m.type = "chat.message.send" => author[m.text] = u /\ outcome[m.text] # "unsent"}

\* A socket speaks for a single account from the first message to the last.
OneVoice(s, u) ==
  /\ up[s] \in Seq(SaidBy(u))
  /\ bound[s] \in {NoUser, u}
  /\ s = socket => u = user

VoiceInv ==
  /\ \A s \in Sockets : \E u \in Users \cup {NoUser} : OneVoice(s, u)
  /\ \A s \in Sockets : conn[s] = "unused" => s # socket /\ up[s] = <<>> /\ bound[s] = NoUser

\* SavedUnderAuthor is not inductive alone: what is queued and what is under way must
\* also be its author's, and without an account nothing is.
AuthorInv ==
  /\ queue \in Seq(SaidBy(user))
  /\ user = NoUser => socket = None /\ queue = <<>> /\ wanted = {}
  /\ VoiceInv
  /\ \A p \in saved : author[p[1]] = p[2] /\ outcome[p[1]] # "unsent"

\* A message has one author, and is never unsent again.
SentStays ==
  \A t \in Texts : outcome[t] # "unsent" => author'[t] = author[t] /\ outcome'[t] # "unsent"

LEMMA RejectedStaysSent ==
  ASSUME NEW t \in Texts
  PROVE  outcome[t] # "unsent" => Rejected[t] # "unsent"
BY DEF Rejected

LEMMA SentStep ==
  ASSUME TypeOK, [Next]_vars
  PROVE  SentStays
<1>1. CASE Screens
  BY <1>1, RejectedStaysSent
  DEF Screens, Private, Leave, SendChatMessage, Disconnect, SwitchUser, Reset, TypeOK, SentStays
<1>2. ASSUME NEW t \in Texts, AckTimeout(t) PROVE SentStays
  BY <1>2 DEF AckTimeout, TypeOK, SentStays
<1>3. CASE Reconnect \/ UNCHANGED vars
  BY <1>3 DEF Reconnect, SentStays
<1>4. ASSUME NEW s \in Sockets, OnMessage(s) PROVE SentStays
  BY <1>4, RejectedStaysSent DEF OnMessage, SentStays
<1>5. ASSUME NEW s \in Sockets, \/ OnOpen(s) \/ Drop(s) \/ CloseEnds(s)
                                \/ GatewayHandles(s) \/ GatewayForgets(s)
      PROVE  SentStays
  BY <1>5, RejectedStaysSent
  DEF OnOpen, Drop, CloseEnds, OnClose, GatewayHandles, GatewayForgets, SentStays
<1> QED
  BY <1>1, <1>2, <1>3, <1>4, <1>5 DEF Next

\* What an account said stays said by it.
LEMMA SaidStays ==
  ASSUME SentStays, NEW u
  PROVE  Seq(SaidBy(u)) \subseteq Seq(SaidBy(u)')
<1>1. SaidBy(u) \subseteq SaidBy(u)'
  BY ClientKinds DEF SaidBy, SentStays
<1> QED
  BY <1>1, Wider

\* A socket that keeps its messages, its session and its place keeps its voice.
LEMMA VoiceStays ==
  ASSUME SentStays, NEW s \in Sockets, NEW u, OneVoice(s, u),
         up'[s] \in {up[s], <<>>}, bound'[s] \in {NoUser, bound[s]},
         s = socket' => u = user'
  PROVE  OneVoice(s, u)'
<1>1. up[s] \in Seq(SaidBy(u)')
  BY SaidStays DEF OneVoice
<1>2. <<>> \in Seq(SaidBy(u)')
  OBVIOUS
<1>3. up'[s] \in Seq(SaidBy(u)')
  BY <1>1, <1>2
<1> QED
  BY <1>3 DEF OneVoice

LEMMA IntroductionSaid ==
  ASSUME TypeOK, user # NoUser
  PROVE  Introduction \in Seq(SaidBy(user))
<1> DEFINE S == {SubscribeTo(c) : c \in wanted}
<1>1. SetToSeq(S) \in Seq(S)
  BY EchoAssumption, Subscriptions DEF TypeOK
<1>2. S \subseteq SaidBy(user)
  BY DEF TypeOK, ClientMessage, SaidBy, SubscribeTo
<1>3. SetToSeq(S) \in Seq(SaidBy(user))
  BY <1>1, <1>2, Wider
<1>4. Hello(user) \in SaidBy(user)
  BY DEF TypeOK, ClientMessage, SaidBy, Hello
<1>5. <<Hello(user)>> \in Seq(SaidBy(user))
  BY <1>4, Single
<1> QED
  BY <1>3, <1>5, Joined DEF Introduction

LEMMA SavedStays ==
  ASSUME TypeOK, AuthorInv, SentStays, UNCHANGED saved
  PROVE  \A p \in saved' : author'[p[1]] = p[2] /\ outcome'[p[1]] # "unsent"
BY DEF TypeOK, AuthorInv, SentStays

\* A call that says something of the current account, on the current socket, on a
\* new one or in the queue.
LEMMA SayingKeepsVoice ==
  ASSUME TypeOK, AuthorInv, SentStays, NEW v \in Users, v = user', user \in {NoUser, v},
         NEW msgs \in Seq(SaidBy(v)'), SendOrQueue(msgs),
         ConnectGatewaySocket \/ UNCHANGED <<socket, conn>>, UNCHANGED <<bound, saved>>
  PROVE  AuthorInv'
<1>0. NoUser # v
  BY EchoAssumption
<1>1. queue \in Seq(SaidBy(v)')
  <2>1. <<>> \in Seq(SaidBy(v)')
    OBVIOUS
  <2>2. CASE user = NoUser
    BY <2>1, <2>2 DEF AuthorInv
  <2>3. CASE user = v
    BY <2>3, SaidStays DEF AuthorInv
  <2> QED
    BY <2>2, <2>3
<1>2. queue' \in Seq(SaidBy(v)')
  BY <1>1, Joined DEF SendOrQueue
<1>3. ASSUME NEW s \in Sockets PROVE \E u \in Users \cup {NoUser} : OneVoice(s, u)'
  <2>1. PICK u \in Users \cup {NoUser} : OneVoice(s, u)
    BY DEF AuthorInv, VoiceInv
  <2>2. CASE s = socket' /\ s # socket
    <3>1. conn[s] = "unused" /\ ~Live(socket)
      BY <2>2 DEF ConnectGatewaySocket, IsNext
    <3>2. up'[s] = <<>> /\ bound'[s] = NoUser
      BY <3>1 DEF AuthorInv, VoiceInv, SendOrQueue, Open, Live
    <3>3. <<>> \in Seq(SaidBy(v)')
      OBVIOUS
    <3>4. OneVoice(s, v)'
      BY <3>2, <3>3 DEF OneVoice
    <3> QED
      BY <3>4
  <2>3. CASE s = socket' /\ s = socket
    <3>1. user = v /\ u = v
      BY <2>1, <2>3 DEF AuthorInv, OneVoice
    <3>2. up[s] \in Seq(SaidBy(v)')
      BY <2>1, <3>1, SaidStays DEF OneVoice
    <3>3. up[s] \o msgs \in Seq(SaidBy(v)')
      BY <3>2, Joined
    <3>4. up'[s] \in {up[s], up[s] \o msgs}
      BY <2>3 DEF SendOrQueue, TypeOK
    <3>5. OneVoice(s, u)'
      BY <2>1, <3>1, <3>2, <3>3, <3>4 DEF OneVoice
    <3> QED
      BY <3>5
  <2>4. CASE s # socket'
    <3>1. up'[s] = up[s]
      BY <2>4 DEF SendOrQueue, ConnectGatewaySocket, Open, Live, TypeOK
    <3>2. OneVoice(s, u)'
      BY <2>1, <2>4, <3>1, VoiceStays
    <3> QED
      BY <3>2
  <2> QED
    BY <2>2, <2>3, <2>4
<1>4. ASSUME NEW s \in Sockets, conn'[s] = "unused"
      PROVE  s # socket' /\ up'[s] = <<>> /\ bound'[s] = NoUser
  <2>1. conn[s] = "unused" /\ s # socket'
    <3>1. CASE UNCHANGED <<socket, conn>>
      BY <1>4, <3>1 DEF AuthorInv, VoiceInv
    <3>2. ASSUME NEW r \in Sockets, socket' = r, conn' = [conn EXCEPT ![r] = "connecting"]
          PROVE  conn[s] = "unused" /\ s # socket'
      BY <1>4, <3>2 DEF TypeOK
    <3> QED
      BY <3>1, <3>2 DEF ConnectGatewaySocket
  <2> QED
    BY <2>1 DEF AuthorInv, VoiceInv, SendOrQueue, TypeOK
<1> QED
  BY <1>0, <1>2, <1>3, <1>4, SavedStays DEF AuthorInv, VoiceInv

LEMMA ScreensKeepAuthors ==
  ASSUME TypeOK, AuthorInv, SentStays, Screens
  PROVE  AuthorInv'
<1>1. ASSUME NEW u \in Users, NEW c \in Channels, Private(u, c) PROVE AuthorInv'
  <2>1. SubscribeTo(c) \in SaidBy(u)'
    BY DEF ClientMessage, SaidBy, SubscribeTo
  <2>2. <<SubscribeTo(c)>> \in Seq(SaidBy(u)')
    BY <2>1, Single
  <2> QED
    BY <1>1, <2>2, SayingKeepsVoice DEF Private
<1>2. ASSUME NEW c \in Channels, Leave(c) PROVE AuthorInv'
  <2>1. user \in Users /\ user' = user
    BY <1>2 DEF Leave, AuthorInv, TypeOK
  <2>2. PICK u \in Users : u = user
    BY <2>1
  <2>3. Unsubscribe(c) \in SaidBy(u)'
    BY DEF ClientMessage, SaidBy, Unsubscribe
  <2>4. <<Unsubscribe(c)>> \in Seq(SaidBy(u)')
    BY <2>3, Single
  <2> QED
    BY <1>2, <2>1, <2>2, <2>4, SayingKeepsVoice DEF Leave
<1>3. ASSUME NEW t \in Texts, SendChatMessage(t) PROVE AuthorInv'
  <2>1. user \in Users /\ user' = user
    BY <1>3 DEF SendChatMessage, TypeOK
  <2>2. PICK u \in Users : u = user
    BY <2>1
  <2>3. ChatSend(t) \in SaidBy(u)'
    BY <1>3, <2>2 DEF SendChatMessage, ClientMessage, SaidBy, ChatSend, TypeOK
  <2>4. <<ChatSend(t)>> \in Seq(SaidBy(u)')
    BY <2>3, Single
  <2> QED
    BY <1>3, <2>1, <2>2, <2>4, SayingKeepsVoice DEF SendChatMessage
<1>4. ASSUME Disconnect \/ \E u \in Users : SwitchUser(u) PROVE AuthorInv'
  <2>1. queue' = <<>> /\ UNCHANGED <<up, bound, saved>> /\ wanted' = {}
    BY <1>4 DEF Disconnect, SwitchUser, Reset
  <2>2. /\ user' = NoUser => socket' = None
        /\ socket' # None => conn[socket'] = "unused" /\ conn'[socket'] # "unused"
                             /\ user' \in Users /\ socket' \in Sockets
    BY <1>4, EchoAssumption DEF Disconnect, SwitchUser, IsNext, ClosedByClient
  <2>3. \A s \in Sockets : conn'[s] = "unused" => conn[s] = "unused"
    BY <1>4 DEF Disconnect, SwitchUser, ClosedByClient
  <2>4. ASSUME NEW s \in Sockets PROVE \E u \in Users \cup {NoUser} : OneVoice(s, u)'
    <3>1. CASE s = socket'
      <4>1. PICK v \in Users : v = user'
        BY <2>2, <3>1
      <4>2. <<>> \in Seq(SaidBy(v)')
        OBVIOUS
      <4>3. OneVoice(s, v)'
        BY <2>1, <2>2, <3>1, <4>1, <4>2 DEF OneVoice, AuthorInv, VoiceInv
      <4> QED
        BY <4>3
    <3>2. CASE s # socket'
      BY <2>1, <3>2, VoiceStays DEF AuthorInv, VoiceInv
    <3> QED
      BY <3>1, <3>2
  <2>5. \A s \in Sockets : conn'[s] = "unused" => s # socket' /\ up'[s] = <<>> /\ bound'[s] = NoUser
    BY <2>1, <2>2, <2>3 DEF AuthorInv, VoiceInv
  <2>6. queue' \in Seq(SaidBy(user)')
    <3>1. <<>> \in Seq(SaidBy(user)')
      OBVIOUS
    <3> QED
      BY <2>1, <3>1
  <2> QED
    BY <2>1, <2>2, <2>4, <2>5, <2>6, SavedStays DEF AuthorInv, VoiceInv
<1> QED
  BY <1>1, <1>2, <1>3, <1>4 DEF Screens

\* A step of the client or of the network that puts nothing on a wire.
LEMMA SilenceKeepsVoice ==
  ASSUME TypeOK, AuthorInv, SentStays, UNCHANGED <<user, saved, wanted>>,
         queue' \in Seq(SaidBy(user)'), user = NoUser => queue' = <<>>,
         \A s \in Sockets : /\ up'[s] \in {up[s], <<>>}
                            /\ bound'[s] \in {NoUser, bound[s]}
                            /\ conn'[s] = "unused" => conn[s] = "unused",
         \/ socket' \in {None, socket}
         \/ user # NoUser /\ conn[socket'] = "unused" /\ conn'[socket'] # "unused"
  PROVE  AuthorInv'
<1>1. ASSUME NEW s \in Sockets PROVE \E u \in Users \cup {NoUser} : OneVoice(s, u)'
  <2>1. PICK u \in Users \cup {NoUser} : OneVoice(s, u)
    BY DEF AuthorInv, VoiceInv
  <2>2. CASE s = socket' /\ s # socket
    <3>1. up'[s] = <<>> /\ bound'[s] = NoUser
      BY <2>2 DEF AuthorInv, VoiceInv
    <3>2. PICK v \in Users \cup {NoUser} : v = user
      BY DEF TypeOK
    <3>3. <<>> \in Seq(SaidBy(v)')
      OBVIOUS
    <3>4. OneVoice(s, v)'
      BY <3>1, <3>2, <3>3 DEF OneVoice
    <3> QED
      BY <3>4
  <2>3. CASE s = socket' => s = socket
    <3>1. s = socket' => u = user'
      BY <2>1, <2>3 DEF OneVoice
    <3>2. OneVoice(s, u)'
      BY <2>1, <3>1, VoiceStays
    <3> QED
      BY <3>2
  <2> QED
    BY <2>2, <2>3
<1>2. ASSUME NEW s \in Sockets, conn'[s] = "unused"
      PROVE  s # socket' /\ up'[s] = <<>> /\ bound'[s] = NoUser
  BY <1>2 DEF AuthorInv, VoiceInv
<1>3. user' = NoUser => socket' = None /\ queue' = <<>> /\ wanted' = {}
  BY DEF AuthorInv
<1> QED
  BY <1>1, <1>2, <1>3, SavedStays DEF AuthorInv, VoiceInv

LEMMA QueueStays ==
  ASSUME AuthorInv, SentStays, UNCHANGED <<user, queue>>
  PROVE  queue' \in Seq(SaidBy(user)') /\ (user = NoUser => queue' = <<>>)
<1>1. ASSUME NEW v, v = user PROVE Seq(SaidBy(user)) \subseteq Seq(SaidBy(user)')
  BY SaidStays, <1>1
<1> QED
  BY <1>1 DEF AuthorInv

LEMMA OnOpenKeepsAuthors ==
  ASSUME TypeOK, AuthorInv, SentStays, NEW s \in Sockets, OnOpen(s)
  PROVE  AuthorInv'
<1>1. PICK v \in Users : v = user /\ v = user' /\ v # NoUser
  BY DEF OnOpen, TypeOK
<1>2. Introduction \in Seq(SaidBy(v)') /\ queue \in Seq(SaidBy(v)')
  BY <1>1, IntroductionSaid, SaidStays DEF AuthorInv
<1>3. UNCHANGED <<user, socket, bound, saved, wanted>>
  BY DEF OnOpen
<1>4. \A r \in Sockets : conn'[r] = "unused" => conn[r] = "unused" /\ up'[r] = up[r]
  BY DEF OnOpen, TypeOK, Open, AuthorInv, VoiceInv
<1>5. CASE ~(socket = s \/ Open(socket))
  <2>1. queue' \in Seq(SaidBy(v)') /\ up' = up
    BY <1>2, <1>5, Joined DEF OnOpen
  <2> QED
    BY <1>1, <1>3, <1>4, <2>1, SilenceKeepsVoice
<1>6. CASE socket = s \/ Open(socket)
  <2>1. socket \in Sockets /\ queue' = <<>>
    BY <1>6 DEF OnOpen, Open, TypeOK
  <2>2. ASSUME NEW r \in Sockets PROVE \E u \in Users \cup {NoUser} : OneVoice(r, u)'
    <3>1. PICK u \in Users \cup {NoUser} : OneVoice(r, u)
      BY DEF AuthorInv, VoiceInv
    <3>2. CASE r = socket
      <4>1. u = v /\ up[r] \in Seq(SaidBy(v)')
        BY <1>1, <3>1, <3>2, SaidStays DEF OneVoice
      <4>2. up[r] \o Introduction \o queue \in Seq(SaidBy(v)')
        BY <1>2, <4>1, Joined
      <4>3. up'[r] = up[r] \o Introduction \o queue
        BY <1>6, <2>1, <3>2 DEF OnOpen, TypeOK
      <4>4. OneVoice(r, u)'
        BY <1>1, <1>3, <3>1, <4>1, <4>2, <4>3 DEF OneVoice
      <4> QED
        BY <4>4
    <3>3. CASE r # socket
      <4>1. up'[r] = up[r] /\ bound'[r] = bound[r] /\ r # socket'
        BY <1>3, <1>6, <2>1, <3>3 DEF OnOpen, TypeOK
      <4>2. OneVoice(r, u)'
        BY <3>1, <4>1, VoiceStays
      <4> QED
        BY <4>2
    <3> QED
      BY <3>2, <3>3
  <2>3. \A r \in Sockets : conn'[r] = "unused" => r # socket' /\ up'[r] = <<>> /\ bound'[r] = NoUser
    BY <1>3, <1>4 DEF AuthorInv, VoiceInv
  <2>4. queue' \in Seq(SaidBy(user)')
    <3>1. <<>> \in Seq(SaidBy(user)')
      OBVIOUS
    <3> QED
      BY <2>1, <3>1
  <2> QED
    BY <1>1, <1>3, <2>2, <2>3, <2>4, SavedStays DEF AuthorInv, VoiceInv
<1> QED
  BY <1>5, <1>6

\* The gateway stores a message under the account its socket speaks for.
LEMMA GatewayKeepsAuthors ==
  ASSUME TypeOK, AuthorInv, SentStays, NEW s \in Sockets, GatewayHandles(s)
  PROVE  AuthorInv'
<1> DEFINE m == Head(up[s])
<1>1. PICK v \in Users \cup {NoUser} : OneVoice(s, v)
  BY DEF AuthorInv, VoiceInv
<1>2. m \in SaidBy(v) /\ Tail(up[s]) \in Seq(SaidBy(v)) /\ m \in ClientMessage
  BY <1>1, Popped DEF GatewayHandles, OneVoice, SaidBy
<1>3. UNCHANGED <<user, socket, conn, queue, wanted, author, outcome>>
  BY DEF GatewayHandles
<1>4. bound'[s] \in {NoUser, v} /\ \A r \in Sockets \ {s} : bound'[r] = bound[r]
  BY <1>1, <1>2 DEF GatewayHandles, OneVoice, SaidBy, TypeOK
<1>5. ASSUME NEW r \in Sockets PROVE \E u \in Users \cup {NoUser} : OneVoice(r, u)'
  <2>1. CASE r = s
    <3>1. up'[s] = Tail(up[s]) /\ Tail(up[s]) \in Seq(SaidBy(v)')
      BY <1>2, SaidStays DEF GatewayHandles, TypeOK
    <3>2. OneVoice(s, v)'
      BY <1>1, <1>3, <1>4, <3>1 DEF OneVoice
    <3> QED
      BY <2>1, <3>2
  <2>2. CASE r # s
    <3>1. PICK u \in Users \cup {NoUser} : OneVoice(r, u)
      BY DEF AuthorInv, VoiceInv
    <3>2. up'[r] = up[r] /\ bound'[r] = bound[r]
      BY <1>4, <2>2 DEF GatewayHandles, TypeOK
    <3>3. OneVoice(r, u)'
      BY <1>3, <3>1, <3>2, VoiceStays DEF OneVoice
    <3> QED
      BY <3>3
  <2> QED
    BY <2>1, <2>2
<1>6. \A r \in Sockets : conn'[r] = "unused" => r # socket' /\ up'[r] = <<>> /\ bound'[r] = NoUser
  <2>1. conn[s] # "unused"
    BY DEF GatewayHandles, AuthorInv, VoiceInv
  <2> QED
    BY <1>3, <1>4, <2>1 DEF GatewayHandles, AuthorInv, VoiceInv, TypeOK
<1>7. ASSUME NEW p \in saved' PROVE author'[p[1]] = p[2] /\ outcome'[p[1]] # "unsent"
  <2>1. CASE p \in saved
    BY <1>3, <2>1 DEF AuthorInv
  <2>2. CASE p \notin saved
    <3>1. /\ m.type = "chat.message.send" /\ p = <<m.text, bound[s]>> /\ bound[s] # NoUser
      BY <2>2, EchoAssumption DEF GatewayHandles
    <3>2. bound[s] = v
      BY <1>1, <3>1 DEF OneVoice
    <3> QED
      BY <1>2, <1>3, <3>1, <3>2 DEF SaidBy
  <2> QED
    BY <2>1, <2>2
<1> QED
  BY <1>3, <1>5, <1>6, <1>7, QueueStays DEF AuthorInv, VoiceInv

LEMMA AuthorStep == TypeOK /\ AuthorInv /\ [Next]_vars => AuthorInv'
<1> SUFFICES ASSUME TypeOK, AuthorInv, [Next]_vars PROVE AuthorInv'
  OBVIOUS
<1>0. SentStays
  BY SentStep
<1>1. ASSUME Reconnect PROVE AuthorInv'
  <2>1. UNCHANGED <<user, saved, wanted, queue, up, bound>>
    BY <1>1 DEF Reconnect
  <2>2. \/ socket' \in {None, socket}
        \/ user # NoUser /\ conn[socket'] = "unused" /\ conn'[socket'] # "unused"
    BY <1>1 DEF Reconnect, ConnectGatewaySocket, IsNext, TypeOK
  <2>3. \A s \in Sockets : conn'[s] = "unused" => conn[s] = "unused"
    BY <1>1 DEF Reconnect, ConnectGatewaySocket, TypeOK
  <2> QED
    BY <1>0, <2>1, <2>2, <2>3, QueueStays, SilenceKeepsVoice
<1>2. ASSUME NEW s \in Sockets, OnMessage(s) \/ Drop(s) \/ CloseEnds(s) \/ GatewayForgets(s)
      PROVE  AuthorInv'
  <2>1. UNCHANGED <<user, saved, wanted, queue>> /\ socket' \in {None, socket}
    BY <1>2 DEF OnMessage, Drop, CloseEnds, OnClose, GatewayForgets
  <2>2. \A r \in Sockets : /\ up'[r] \in {up[r], <<>>}
                           /\ bound'[r] \in {NoUser, bound[r]}
                           /\ conn'[r] = "unused" => conn[r] = "unused"
    BY <1>2 DEF OnMessage, Drop, CloseEnds, GatewayForgets, TypeOK
  <2> QED
    BY <1>0, <2>1, <2>2, QueueStays, SilenceKeepsVoice
<1>3. ASSUME (\E t \in Texts : AckTimeout(t)) \/ UNCHANGED vars PROVE AuthorInv'
  <2>1. UNCHANGED <<user, saved, wanted, queue, up, bound, conn, socket>>
    BY <1>3 DEF AckTimeout
  <2> QED
    BY <1>0, <2>1, QueueStays, SilenceKeepsVoice
<1> QED
  BY <1>0, <1>1, <1>2, <1>3, ScreensKeepAuthors, OnOpenKeepsAuthors, GatewayKeepsAuthors DEF Next

\* A chat message is stored under the account that wrote it, although it may have
\* waited for a connection while the account was switched (disconnectEchoClient,
\* ensureConnection, the gateway's sessions).
THEOREM StoredUnderItsAuthor == Spec => []SavedUnderAuthor
<1>1. Init => AuthorInv
  <2> SUFFICES ASSUME Init PROVE AuthorInv
    OBVIOUS
  <2>1. <<>> \in Seq(SaidBy(user)) /\ <<>> \in Seq(SaidBy(NoUser))
    OBVIOUS
  <2>2. \A s \in Sockets : OneVoice(s, NoUser)
    BY <2>1 DEF Init, OneVoice
  <2> QED
    BY <2>1, <2>2 DEF Init, AuthorInv, VoiceInv
<1>2. AuthorInv => SavedUnderAuthor
  BY DEF AuthorInv, SavedUnderAuthor
<1> QED
  BY <1>1, <1>2, AuthorStep, TypeCorrect, PTL DEF Spec

-----------------------------------------------------------------------------
(* What the messages under way will leave joined                           *)

Joining == {"subscribe", "subscribe.ack"}
Leaving == {"unsubscribe", "unsubscribe.ack"}

\* m is about the channel c.
On(m, c) == m.type \in Joining \cup Leaving /\ m.channel = c

\* The last message of q about c asks for it, or tells of its being joined.
EndsJoined(q, c) ==
  \E i \in 1..Len(q) : /\ On(q[i], c) /\ q[i].type \in Joining
                       /\ \A j \in 1..Len(q) : j > i => ~On(q[j], c)

Mentions(q, c) == \E i \in 1..Len(q) : On(q[i], c)

\* The channels that are joined once the messages of q are through, if those of A are now.
After(q, A) == {c \in Channels : IF Mentions(q, c) THEN EndsJoined(q, c) ELSE c \in A}

LEMMA AfterNothing ==
  ASSUME NEW A, A \subseteq Channels
  PROVE  After(<<>>, A) = A
BY DEF After, Mentions

LEMMA AfterMore ==
  ASSUME NEW q, NEW A, NEW B, A \subseteq B
  PROVE  After(q, A) \subseteq After(q, B)
BY DEF After

\* What is joined besides stays at most that.
LEMMA AfterBesides ==
  ASSUME NEW q, NEW A, NEW B
  PROVE  After(q, A \cup B) \subseteq After(q, A) \cup B
BY DEF After

LEMMA AfterBoth ==
  ASSUME NEW S, NEW q \in Seq(S), NEW r \in Seq(S), NEW A
  PROVE  After(q \o r, A) = After(r, After(q, A))
<1> DEFINE m == Len(q)
           n == Len(r)
           p == q \o r
<1>1. /\ m \in Nat /\ n \in Nat /\ Len(p) = m + n
      /\ \A i \in 1..m : p[i] = q[i]
      /\ \A i \in 1..n : p[m + i] = r[i]
  <2>1. m \in Nat /\ n \in Nat /\ Len(p) = m + n
    BY ConcatProperties, LenProperties
  <2>2. \A i \in 1..(m + n) : p[i] = IF i <= m THEN q[i] ELSE r[i - m]
    BY ConcatProperties
  <2> HIDE DEF m, n, p
  <2>3. ASSUME NEW i \in 1..m PROVE p[i] = q[i]
    <3>1. i \in 1..(m + n) /\ i <= m
      BY <2>1
    <3> QED
      BY <2>2, <3>1
  <2>4. ASSUME NEW i \in 1..n PROVE p[m + i] = r[i]
    <3>1. (m + i) \in 1..(m + n) /\ ~(m + i <= m) /\ (m + i) - m = i
      BY <2>1
    <3> QED
      BY <2>2, <3>1
  <2> QED
    BY <2>1, <2>3, <2>4
<1> HIDE DEF m, n, p
<1>2. \A i \in 1..(m + n) : i \in 1..m \/ \E k \in 1..n : i = m + k
  <2> SUFFICES ASSUME NEW i \in 1..(m + n), ~(i <= m) PROVE \E k \in 1..n : i = m + k
    BY <1>1
  <2>1. (i - m) \in 1..n /\ i = m + (i - m)
    BY <1>1
  <2> QED
    BY <2>1
<1>3. /\ \A i \in 1..m : i \in 1..(m + n)
      /\ \A k \in 1..n : (m + k) \in 1..(m + n) /\ \A i \in 1..m : m + k > i
  BY <1>1
<1>4. ASSUME NEW c PROVE Mentions(p, c) <=> Mentions(q, c) \/ Mentions(r, c)
  <2>1. ASSUME NEW i \in 1..(m + n), On(p[i], c) PROVE Mentions(q, c) \/ Mentions(r, c)
    BY <1>1, <1>2, <2>1 DEF Mentions, m, n
  <2>2. ASSUME NEW i \in 1..m, On(q[i], c) PROVE Mentions(p, c)
    BY <1>1, <1>3, <2>2 DEF Mentions
  <2>3. ASSUME NEW k \in 1..n, On(r[k], c) PROVE Mentions(p, c)
    <3>1. (m + k) \in 1..(m + n) /\ p[m + k] = r[k]
      BY <1>1, <1>3
    <3> QED
      BY <1>1, <2>3, <3>1 DEF Mentions
  <2> QED
    BY <1>1, <2>1, <2>2, <2>3 DEF Mentions, m, n
<1>5. ASSUME NEW c, Mentions(r, c) PROVE EndsJoined(p, c) <=> EndsJoined(r, c)
  <2>1. ASSUME EndsJoined(r, c) PROVE EndsJoined(p, c)
    <3>1. PICK k \in 1..n : /\ On(r[k], c) /\ r[k].type \in Joining
                            /\ \A j \in 1..n : j > k => ~On(r[j], c)
      BY <2>1 DEF EndsJoined, n
    <3>2. (m + k) \in 1..(m + n) /\ p[m + k] = r[k]
      BY <1>1, <1>3
    <3>3. ASSUME NEW j \in 1..(m + n), j > m + k PROVE ~On(p[j], c)
      <4>1. PICK l \in 1..n : j = m + l
        BY <1>1, <1>2, <3>3
      <4>2. l > k /\ p[j] = r[l]
        BY <1>1, <3>3, <4>1
      <4> QED
        BY <3>1, <4>2
    <3> QED
      BY <1>1, <3>1, <3>2, <3>3 DEF EndsJoined
  <2>2. ASSUME EndsJoined(p, c) PROVE EndsJoined(r, c)
    <3>1. PICK i \in 1..(m + n) : /\ On(p[i], c) /\ p[i].type \in Joining
                                  /\ \A j \in 1..(m + n) : j > i => ~On(p[j], c)
      BY <1>1, <2>2 DEF EndsJoined
    <3>2. PICK l \in 1..n : On(r[l], c)
      BY <1>5 DEF Mentions, n
    <3>3. ~(m + l > i)
      BY <1>1, <1>3, <3>1, <3>2
    <3>4. PICK k \in 1..n : i = m + k
      BY <1>1, <1>2, <1>3, <3>3
    <3>5. p[i] = r[k]
      BY <1>1, <3>4
    <3>6. ASSUME NEW j \in 1..n, j > k PROVE ~On(r[j], c)
      <4>1. (m + j) \in 1..(m + n) /\ m + j > i /\ p[m + j] = r[j]
        BY <1>1, <1>3, <3>4, <3>6
      <4> QED
        BY <3>1, <4>1
    <3> QED
      BY <3>1, <3>5, <3>6 DEF EndsJoined, n
  <2> QED
    BY <2>1, <2>2
<1>6. ASSUME NEW c, ~Mentions(r, c) PROVE EndsJoined(p, c) <=> EndsJoined(q, c)
  <2>1. \A k \in 1..n : ~On(p[m + k], c)
    BY <1>1, <1>6 DEF Mentions, n
  <2>2. ASSUME EndsJoined(q, c) PROVE EndsJoined(p, c)
    <3>1. PICK i \in 1..m : /\ On(q[i], c) /\ q[i].type \in Joining
                            /\ \A j \in 1..m : j > i => ~On(q[j], c)
      BY <2>2 DEF EndsJoined, m
    <3>2. i \in 1..(m + n) /\ p[i] = q[i]
      BY <1>1, <1>3
    <3>3. \A j \in 1..(m + n) : j > i => ~On(p[j], c)
      BY <1>1, <1>2, <2>1, <3>1
    <3> QED
      BY <1>1, <3>1, <3>2, <3>3 DEF EndsJoined
  <2>3. ASSUME EndsJoined(p, c) PROVE EndsJoined(q, c)
    <3>1. PICK i \in 1..(m + n) : /\ On(p[i], c) /\ p[i].type \in Joining
                                  /\ \A j \in 1..(m + n) : j > i => ~On(p[j], c)
      BY <1>1, <2>3 DEF EndsJoined
    <3>2. i \in 1..m /\ p[i] = q[i]
      BY <1>1, <1>2, <2>1, <3>1
    <3>3. \A j \in 1..m : j > i => ~On(q[j], c)
      BY <1>1, <1>3, <3>1
    <3> QED
      BY <3>1, <3>2, <3>3 DEF EndsJoined, m
  <2> QED
    BY <2>2, <2>3
<1>7. ASSUME NEW c, EndsJoined(q, c) PROVE Mentions(q, c)
  BY <1>7 DEF EndsJoined, Mentions
<1> QED
  BY <1>4, <1>5, <1>6 DEF After, p

\* What one message does.
Effect(m, A) ==
  IF m.type \in Joining THEN A \cup {m.channel}
  ELSE IF m.type \in Leaving THEN A \ {m.channel} ELSE A

LEMMA AfterOne ==
  ASSUME NEW m, NEW A, A \subseteq Channels, m.type \in Joining => m.channel \in Channels
  PROVE  After(<<m>>, A) = Effect(m, A)
<1>1. Len(<<m>>) = 1 /\ <<m>>[1] = m /\ 1..1 = {1}
  OBVIOUS
<1>2. \A c : Mentions(<<m>>, c) <=> On(m, c)
  BY <1>1 DEF Mentions
<1>3. \A c : EndsJoined(<<m>>, c) <=> On(m, c) /\ m.type \in Joining
  BY <1>1 DEF EndsJoined
<1>4. Joining \cap Leaving = {}
  BY DEF Joining, Leaving
<1> QED
  BY <1>2, <1>3, <1>4 DEF After, Effect, On

LEMMA AfterAppend ==
  ASSUME NEW S, NEW q \in Seq(S), NEW m \in S, NEW A, A \subseteq Channels,
         m.type \in Joining => m.channel \in Channels
  PROVE  After(Append(q, m), A) = Effect(m, After(q, A))
<1>1. PICK r : r = <<m>> /\ r \in Seq(S)
  BY Single
<1>2. PICK B : B = After(q, A) /\ B \subseteq Channels
  BY DEF After
<1>3. r \in Seq(S)
  BY <1>1
<1>4. After(q \o r, A) = After(r, After(q, A))
  BY <1>3, AfterBoth
<1>5. After(r, B) = Effect(m, B)
  BY <1>1, <1>2, AfterOne
<1>6. Append(q, m) = q \o r
  BY <1>1, AppendIsConcat
<1> QED
  BY <1>2, <1>4, <1>5, <1>6

LEMMA AfterFirst ==
  ASSUME NEW S, NEW q \in Seq(S), q # <<>>, NEW A, A \subseteq Channels,
         Head(q).type \in Joining => Head(q).channel \in Channels
  PROVE  After(q, A) = After(Tail(q), Effect(Head(q), A))
<1> DEFINE h == <<Head(q)>>
           t == Tail(q)
<1>1. Head(q) \in S /\ t \in Seq(S) /\ h \in Seq(S)
  BY Popped, Single
<1>2. q = h \o t
  <2>1. Len(q) \in Nat \ {0} /\ Len(h) = 1 /\ h[1] = q[1]
    BY EmptySeq, LenProperties
  <2>2. Len(t) = Len(q) - 1 /\ \A i \in 1..Len(t) : t[i] = q[i + 1]
    BY HeadTailProperties
  <2>3. h \o t \in Seq(S) /\ Len(h \o t) = Len(h) + Len(t)
    BY <1>1, ConcatProperties
  <2>4. \A i \in 1..(Len(h) + Len(t)) : (h \o t)[i] = IF i <= Len(h) THEN h[i] ELSE t[i - Len(h)]
    BY <1>1, ConcatProperties
  <2> HIDE DEF h, t
  <2>5. ASSUME NEW i \in 1..Len(q) PROVE q[i] = (h \o t)[i]
    <3>1. i \in 1..(Len(h) + Len(t))
      BY <2>1, <2>2
    <3>2. CASE i = 1
      <4>1. i <= Len(h)
        BY <2>1, <3>2
      <4> QED
        BY <2>1, <2>4, <3>1, <3>2, <4>1
    <3>3. CASE i # 1
      <4>1. (i - 1) \in 1..Len(t) /\ ~(i <= Len(h)) /\ (i - 1) + 1 = i
        BY <2>1, <2>2, <3>3
      <4> QED
        BY <2>1, <2>2, <2>4, <3>1, <4>1
    <3> QED
      BY <3>2, <3>3
  <2>6. Len(q) = Len(h \o t)
    BY <2>1, <2>2, <2>3
  <2> QED
    BY <2>3, <2>5, <2>6, SeqEqual
<1>3. After(h \o t, A) = After(t, After(h, A))
  <2>1. h \in Seq(S) /\ t \in Seq(S)
    BY <1>1
  <2> HIDE DEF h, t
  <2> QED
    BY <2>1, AfterBoth
<1>4. PICK m : m = Head(q)
  OBVIOUS
<1>5. After(<<m>>, A) = Effect(m, A)
  BY <1>4, AfterOne
<1> QED
  BY <1>2, <1>3, <1>4, <1>5

\* SetToSeq lists every element once.
LEMMA ListedOnce ==
  ASSUME NEW S, IsFiniteSet(S), NEW q, q = SetToSeq(S)
  PROVE  /\ \A x \in S : \E i \in 1..Len(q) : q[i] = x
         /\ \A i, j \in 1..Len(q) : q[i] = q[j] => i = j
<1> DEFINE n == Cardinality(S)
<1>1. n \in Nat /\ ExistsBijection(1..n, S)
  BY FS_CardinalityType
<1>2. \E f \in [1..n -> S] : IsInjective(f)
  BY <1>1 DEF ExistsBijection, Bijection, Injection
<1>3. q \in [1..n -> S] /\ IsInjective(q)
  BY <1>2 DEF SetToSeq
<1>4. q \in Injection(1..n, S)
  BY <1>3 DEF Injection
<1>5. Cardinality(1..n) = n
  BY <1>1, FS_Interval
<1>6. q \in Surjection(1..n, S)
  BY <1>4, <1>5, FS_Injection
<1>7. Len(q) = n
  BY <1>1, <1>3
<1> QED
  BY <1>3, <1>6, <1>7 DEF Surjection, IsInjective

\* A connection that opens joins what the screens want, and leaves nothing.
LEMMA AfterIntroduction ==
  ASSUME TypeOK, user # NoUser, NEW A, A \subseteq Channels
  PROVE  After(Introduction, A) = A \cup wanted
<1> DEFINE S == {SubscribeTo(c) : c \in wanted}
           f == [c \in wanted |-> SubscribeTo(c)]
<1>1. wanted \subseteq Channels /\ IsFiniteSet(S)
  <2>1. wanted \subseteq Channels /\ IsFiniteSet(wanted)
    BY EchoAssumption, FS_Subset DEF TypeOK
  <2>2. f \in Surjection(wanted, S)
    BY DEF Surjection
  <2> QED
    BY <2>1, <2>2, FS_Surjection
<1>2. PICK q : q = SetToSeq(S)
  OBVIOUS
<1>3. q \in Seq(S)
  BY <1>1, <1>2, Listed
<1>4. /\ \A x \in S : \E i \in 1..Len(q) : q[i] = x
      /\ \A i, j \in 1..Len(q) : q[i] = q[j] => i = j
  <2>1. \A T : IsFiniteSet(T) /\ q = SetToSeq(T) =>
          /\ \A x \in T : \E i \in 1..Len(q) : q[i] = x
          /\ \A i, j \in 1..Len(q) : q[i] = q[j] => i = j
    BY ListedOnce
  <2> HIDE DEF S
  <2> QED
    BY <1>1, <1>2, <2>1
<1>5. \A i \in 1..Len(q) : q[i] \in S
  BY <1>3, ElementOfSeq
<1>6. ASSUME NEW x \in S, NEW c PROVE x.type = "subscribe" /\ (On(x, c) <=> x = SubscribeTo(c))
  BY DEF On, SubscribeTo, Joining
<1>7. ASSUME NEW c \in Channels PROVE Mentions(q, c) <=> c \in wanted
  <2>1. c \in wanted => SubscribeTo(c) \in S
    OBVIOUS
  <2>2. SubscribeTo(c) \in S => c \in wanted
    BY DEF SubscribeTo
  <2> QED
    BY <1>4, <1>5, <1>6, <2>1, <2>2 DEF Mentions
<1>8. ASSUME NEW c \in Channels, Mentions(q, c) PROVE EndsJoined(q, c)
  <2>1. PICK i \in 1..Len(q) : On(q[i], c)
    BY <1>8 DEF Mentions
  <2>2. q[i].type \in Joining
    BY <1>5, <1>6 DEF Joining
  <2>3. ASSUME NEW j \in 1..Len(q), j > i PROVE ~On(q[j], c)
    <3>1. i # j
      BY <1>3, <2>3, LenProperties
    <3> QED
      BY <1>4, <1>5, <1>6, <2>1, <3>1
  <2> QED
    BY <2>1, <2>2, <2>3 DEF EndsJoined
<1>9. After(q, A) = A \cup wanted
  BY <1>1, <1>7, <1>8 DEF After
<1>10. After(<<Hello(user)>>, A) = A
  <2>1. Effect(Hello(user), A) = A /\ Hello(user).type \notin Joining
    BY DEF Effect, Hello, Joining, Leaving
  <2> QED
    BY <2>1, AfterOne
<1>11. q \in Seq(ClientMessage) /\ <<Hello(user)>> \in Seq(ClientMessage)
  <2>1. S \subseteq ClientMessage
    BY <1>1 DEF ClientMessage
  <2>2. Hello(user) \in ClientMessage
    BY DEF TypeOK, ClientMessage
  <2> QED
    BY <1>3, <2>1, <2>2, Wider, Single
<1>12. Introduction = <<Hello(user)>> \o q
  BY <1>2 DEF Introduction
<1>13. PICK h : h = <<Hello(user)>>
  OBVIOUS
<1>14. After(h \o q, A) = After(q, After(h, A))
  <2>1. h \in Seq(ClientMessage) /\ q \in Seq(ClientMessage)
    BY <1>11, <1>13
  <2> QED
    BY <2>1, AfterBoth
<1> QED
  BY <1>9, <1>10, <1>12, <1>13, <1>14

-----------------------------------------------------------------------------
(* Screens, flags and groups                                               *)

\* No other socket can bring a message any more.
Alone == \A s \in Sockets : s # socket => conn[s] \in {"unused", "closed"}

\* The current socket lives, nothing is queued once it is open, and a socket that has not
\* been open has nothing on its wires.
WiresInv ==
  /\ socket # None => Live(socket)
  /\ Open(socket) => queue = <<>>
  /\ \A s \in Sockets : conn[s] \in {"unused", "connecting"} =>
       up[s] = <<>> /\ down[s] = <<>> /\ member[s] = {}

\* What is queued ends in what the screens want.
QueueInv == After(queue, wanted) = wanted

\* So do the gateway's groups of the current socket, with what is under way to it.
GroupsInv ==
  Open(socket) =>
    /\ wanted \subseteq After(up[socket], member[socket])
    /\ After(up[socket], member[socket]) \subseteq wanted \cup Base

\* And the flags, with what is under way in either direction, when no other socket can
\* interfere; without a connection none is up.
FlagsInv ==
  Alone => IF Open(socket)
           THEN wanted \subseteq After(up[socket], After(down[socket], subscribed))
           ELSE subscribed = {}

JoinInv == WiresInv /\ QueueInv /\ GroupsInv /\ FlagsInv

LEMMA JoinInvImplies == TypeOK /\ JoinInv => QuietMeansJoined
<1> SUFFICES ASSUME TypeOK, JoinInv, Quiet
             PROVE  /\ subscribed = wanted /\ wanted \subseteq member[socket]
                    /\ member[socket] \subseteq wanted \cup Base
  BY DEF QuietMeansJoined
<1>1. Open(socket) /\ Alone /\ up[socket] = <<>> /\ down[socket] = <<>> /\ socket \in Sockets
  BY DEF Quiet, Alone, Open, TypeOK
<1>2. member[socket] \subseteq Channels /\ subscribed \subseteq Channels /\ subscribed \subseteq wanted
  BY <1>1 DEF TypeOK
<1>3. After(<<>>, member[socket]) = member[socket] /\ After(<<>>, subscribed) = subscribed
  BY <1>2, AfterNothing
<1> QED
  BY <1>1, <1>2, <1>3 DEF JoinInv, GroupsInv, FlagsInv

\* What is joined besides what is wanted can be left out.
LEMMA AfterWithout ==
  ASSUME NEW p, NEW q, NEW W, NEW A, NEW B, NEW D, D \cap W = {}, A \subseteq B \cup D,
         W \subseteq After(p, After(q, A))
  PROVE  W \subseteq After(p, After(q, B))
<1>1. After(q, A) \subseteq After(q, B) \cup D
  BY DEF After
<1>2. After(p, After(q, A)) \subseteq After(p, After(q, B)) \cup D
  BY <1>1 DEF After
<1> QED
  BY <1>2

LEMMA EffectBounds ==
  ASSUME NEW m, NEW A, NEW B
  PROVE  /\ A \subseteq B => Effect(m, A) \subseteq Effect(m, B)
         /\ Effect(m, A \cup B) \subseteq Effect(m, A) \cup B
BY DEF Effect

\* What is queued goes on saying what the screens want.
LEMMA QueueEffect ==
  ASSUME NEW q, NEW m, NEW W, After(q, W) = W, m.type \in Joining => m.channel \in Channels
  PROVE  Effect(m, After(q, Effect(m, W))) = Effect(m, W)
BY DEF After, Effect

LEMMA StillStep ==
  ASSUME JoinInv, UNCHANGED <<socket, conn, queue, wanted, subscribed, up, down, member>>
  PROVE  JoinInv'
<1>1. WiresInv' /\ QueueInv' /\ GroupsInv'
  BY DEF JoinInv, WiresInv, Live, Open, QueueInv, GroupsInv
<1>2. FlagsInv'
  BY DEF JoinInv, FlagsInv, Alone, Open
<1> QED
  BY <1>1, <1>2 DEF JoinInv

\* A new socket when none lives, or nothing new.
LEMMA ConnectStep ==
  ASSUME TypeOK, JoinInv, ConnectGatewaySocket
  PROVE  \/ UNCHANGED <<socket, conn>>
         \/ /\ socket = None /\ socket' \in Sockets /\ conn[socket'] = "unused"
            /\ conn' = [conn EXCEPT ![socket'] = "connecting"]
            /\ conn'[socket'] = "connecting"
            /\ \A s \in Sockets : s # socket' => conn'[s] = conn[s]
            /\ Alone' => Alone
BY DEF ConnectGatewaySocket, IsNext, JoinInv, WiresInv, TypeOK, Alone

\* A step that only may make a socket.
LEMMA OnlyConnects ==
  ASSUME TypeOK, JoinInv, ConnectGatewaySocket,
         UNCHANGED <<queue, wanted, subscribed, up, down, member>>
  PROVE  JoinInv'
<1>1. CASE UNCHANGED <<socket, conn>>
  BY <1>1, StillStep
<1>2. CASE /\ socket = None /\ socket' \in Sockets /\ conn[socket'] = "unused"
           /\ conn'[socket'] = "connecting"
           /\ \A s \in Sockets : s # socket' => conn'[s] = conn[s]
           /\ Alone' => Alone
  <2>1. ~Open(socket) /\ ~Open(socket)' /\ Live(socket)'
    BY <1>2 DEF Open, Live
  <2>2. WiresInv'
    BY <1>2, <2>1 DEF JoinInv, WiresInv
  <2>3. QueueInv' /\ GroupsInv' /\ FlagsInv'
    BY <1>2, <2>1 DEF JoinInv, QueueInv, GroupsInv, FlagsInv
  <2> QED
    BY <2>2, <2>3 DEF JoinInv
<1> QED
  BY <1>1, <1>2, ConnectStep

\* A screen says what it wants, on the current socket if it is open and in the queue
\* otherwise, and keeps the flags of what it still wants.
LEMMA SayStep ==
  ASSUME TypeOK, JoinInv, NEW m \in ClientMessage, SendOrQueue(<<m>>),
         ConnectGatewaySocket \/ UNCHANGED <<socket, conn>>,
         m.type \in Joining => m.channel \in Channels,
         wanted' = Effect(m, wanted), subscribed' = subscribed \cap wanted',
         UNCHANGED <<down, member>>
  PROVE  JoinInv'
<1>0. wanted \subseteq Channels /\ subscribed \subseteq Channels /\ wanted' \subseteq Channels
  BY DEF TypeOK, Effect
<1>1. CASE Open(socket)
  <2>1. UNCHANGED <<socket, conn, queue>> /\ socket \in Sockets /\ Open(socket)' /\ queue = <<>>
    BY <1>1 DEF ConnectGatewaySocket, Live, Open, SendOrQueue, TypeOK, JoinInv, WiresInv
  <2>2. PICK u : u = up[socket] /\ u \in Seq(ClientMessage)
    BY <2>1 DEF TypeOK
  <2>3. up'[socket] = u \o <<m>> /\ \A s \in Sockets : s # socket => up'[s] = up[s]
    BY <1>1, <2>1, <2>2 DEF SendOrQueue, TypeOK
  <2>4. up'[socket] = Append(u, m)
    BY <2>2, <2>3, AppendIsConcat
  <2>5. ASSUME NEW A, A \subseteq Channels PROVE After(up'[socket], A) = Effect(m, After(u, A))
    BY <2>2, <2>4, <2>5, AfterAppend
  <2>6. WiresInv'
    BY <2>1, <2>3 DEF JoinInv, WiresInv, Live, Open
  <2>7. QueueInv'
    BY <1>0, <2>1, AfterNothing DEF QueueInv
  <2>8. GroupsInv'
    <3>1. PICK g : g = member[socket] /\ g \subseteq Channels
      BY <2>1 DEF TypeOK
    <3>2. wanted \subseteq After(u, g) /\ After(u, g) \subseteq wanted \cup Base
      BY <1>1, <2>2, <3>1 DEF JoinInv, GroupsInv
    <3>3. Effect(m, wanted) \subseteq Effect(m, After(u, g))
      BY <3>2, EffectBounds
    <3>4. Effect(m, After(u, g)) \subseteq Effect(m, wanted \cup Base)
      BY <3>2, EffectBounds
    <3>5. Effect(m, wanted \cup Base) \subseteq Effect(m, wanted) \cup Base
      BY EffectBounds
    <3>6. After(up'[socket], g) = Effect(m, After(u, g))
      BY <2>5, <3>1
    <3> QED
      BY <2>1, <3>1, <3>3, <3>4, <3>5, <3>6 DEF GroupsInv
  <2>9. FlagsInv'
    <3>1. SUFFICES ASSUME Alone' PROVE wanted' \subseteq After(up'[socket], After(down[socket], subscribed'))
      BY <2>1 DEF FlagsInv
    <3>2. Alone
      BY <2>1, <3>1 DEF Alone
    <3>3. PICK d, D : d = down[socket] /\ D = subscribed \ wanted'
      OBVIOUS
    <3>4. PICK X, Y : X = After(u, After(d, subscribed)) /\ Y = After(u, After(d, subscribed'))
      OBVIOUS
    <3>5. wanted \subseteq X
      BY <1>1, <2>2, <3>2, <3>3, <3>4 DEF JoinInv, FlagsInv
    <3>6. X \subseteq Y \cup D
      <4>1. After(d, subscribed) \subseteq After(d, subscribed') \cup D
        BY <3>3 DEF After
      <4> QED
        BY <3>4, <4>1 DEF After
    <3>7. Effect(m, wanted) \subseteq Effect(m, X)
      BY <3>5, EffectBounds
    <3>8. Effect(m, X) \subseteq Effect(m, Y \cup D) /\ Effect(m, Y \cup D) \subseteq Effect(m, Y) \cup D
      BY <3>6, EffectBounds
    <3>9. wanted' \subseteq Effect(m, Y)
      BY <3>3, <3>7, <3>8
    <3>10. After(d, subscribed') \subseteq Channels
      BY DEF After
    <3>11. After(up'[socket], After(d, subscribed')) = Effect(m, Y)
      BY <2>5, <3>4, <3>10
    <3> QED
      BY <3>3, <3>9, <3>11
  <2> QED
    BY <2>6, <2>7, <2>8, <2>9 DEF JoinInv
<1>2. CASE ~Open(socket)
  <2>1. up' = up /\ queue' = queue \o <<m>>
    BY <1>2 DEF SendOrQueue
  <2>2. PICK q : q = queue /\ q \in Seq(ClientMessage)
    BY DEF TypeOK
  <2>3. queue' = Append(q, m)
    BY <2>1, <2>2, AppendIsConcat
  <2>4. After(queue', wanted') = Effect(m, After(q, wanted'))
    BY <1>0, <2>2, <2>3, AfterAppend
  <2>5. QueueInv'
    BY <2>2, <2>4, QueueEffect DEF JoinInv, QueueInv
  <2>6. subscribed = {} => subscribed' = {}
    OBVIOUS
  <2>7. CASE UNCHANGED <<socket, conn>>
    <3>1. WiresInv' /\ ~Open(socket)' /\ (Alone' => Alone)
      BY <1>2, <2>1, <2>7 DEF JoinInv, WiresInv, Live, Open, Alone
    <3> QED
      BY <1>2, <2>5, <2>6, <3>1 DEF JoinInv, GroupsInv, FlagsInv
  <2>8. CASE /\ socket = None /\ socket' \in Sockets /\ conn[socket'] = "unused"
             /\ conn'[socket'] = "connecting"
             /\ \A s \in Sockets : s # socket' => conn'[s] = conn[s]
             /\ Alone' => Alone
    <3>1. ~Open(socket)' /\ Live(socket)'
      BY <2>8 DEF Open, Live
    <3>2. WiresInv'
      BY <2>1, <2>8, <3>1 DEF JoinInv, WiresInv
    <3> QED
      BY <1>2, <2>5, <2>6, <2>8, <3>1, <3>2 DEF JoinInv, GroupsInv, FlagsInv
  <2> QED
    BY <2>7, <2>8, ConnectStep
<1> QED
  BY <1>1, <1>2

LEMMA ScreensKeepJoined ==
  ASSUME TypeOK, JoinInv, Screens
  PROVE  JoinInv'
<1>1. ASSUME NEW u \in Users, NEW c \in Channels, Private(u, c) PROVE JoinInv'
  <2>1. PICK m : m = SubscribeTo(c) /\ m \in ClientMessage
    BY DEF ClientMessage
  <2>2. m.type \in Joining /\ m.channel = c
    BY <2>1 DEF SubscribeTo, Joining
  <2>3. wanted' = Effect(m, wanted)
    BY <1>1, <2>2 DEF Private, Effect
  <2>4. subscribed' = subscribed \cap wanted'
    BY <1>1 DEF Private, TypeOK
  <2> QED
    BY <1>1, <2>1, <2>2, <2>3, <2>4, SayStep DEF Private
<1>2. ASSUME NEW c \in Channels, Leave(c) PROVE JoinInv'
  <2>1. PICK m : m = Unsubscribe(c) /\ m \in ClientMessage
    BY DEF ClientMessage
  <2>2. m.type \in Leaving /\ m.type \notin Joining /\ m.channel = c
    BY <2>1 DEF Unsubscribe, Joining, Leaving
  <2>3. wanted' = Effect(m, wanted)
    BY <1>2, <2>2 DEF Leave, Effect
  <2>4. subscribed' = subscribed \cap wanted'
    BY <1>2 DEF Leave, TypeOK
  <2> QED
    BY <1>2, <2>1, <2>2, <2>3, <2>4, SayStep DEF Leave
<1>3. ASSUME NEW t \in Texts, SendChatMessage(t) PROVE JoinInv'
  <2>1. PICK m : m = ChatSend(t) /\ m \in ClientMessage
    BY DEF ClientMessage
  <2>2. m.type \notin Leaving /\ m.type \notin Joining
    BY <2>1 DEF ChatSend, Joining, Leaving
  <2>3. wanted' = Effect(m, wanted)
    BY <1>3, <2>2 DEF SendChatMessage, Effect
  <2>4. subscribed' = subscribed \cap wanted'
    BY <1>3 DEF SendChatMessage, TypeOK
  <2> QED
    BY <1>3, <2>1, <2>2, <2>3, <2>4, SayStep DEF SendChatMessage
<1>4. ASSUME Disconnect \/ \E u \in Users : SwitchUser(u) PROVE JoinInv'
  <2>1. queue' = <<>> /\ wanted' = {} /\ subscribed' = {} /\ UNCHANGED <<up, down, member>>
    BY <1>4 DEF Disconnect, SwitchUser, Reset
  <2>2. /\ ~Open(socket)' /\ (socket' # None => Live(socket)')
        /\ \A s \in Sockets : conn'[s] \in {"unused", "connecting"} => conn[s] \in {"unused", "connecting"}
    BY <1>4 DEF Disconnect, SwitchUser, IsNext, ClosedByClient, Open, Live
  <2>3. QueueInv'
    BY <2>1, AfterNothing DEF QueueInv
  <2>4. WiresInv' /\ GroupsInv' /\ FlagsInv'
    BY <2>1, <2>2 DEF JoinInv, WiresInv, GroupsInv, FlagsInv
  <2> QED
    BY <2>3, <2>4 DEF JoinInv
<1> QED
  BY <1>1, <1>2, <1>3, <1>4 DEF Screens

\* A socket that opens says what the screens want, and what was queued meanwhile.
LEMMA OnOpenKeepsJoined ==
  ASSUME TypeOK, JoinInv, NEW s \in Sockets, OnOpen(s)
  PROVE  JoinInv'
<1>0. /\ user # NoUser /\ conn[s] = "connecting" /\ UNCHANGED <<socket, wanted, subscribed, down, member>>
      /\ wanted \subseteq Channels /\ subscribed \subseteq wanted
  BY DEF OnOpen, TypeOK
<1>1. conn'[s] = "open" /\ \A r \in Sockets : r # s => conn'[r] = conn[r]
  BY DEF OnOpen, TypeOK
<1>2. PICK i, q : /\ i = Introduction /\ i \in Seq(ClientMessage)
                  /\ q = queue /\ q \in Seq(ClientMessage)
  BY <1>0, IntroductionType DEF TypeOK
<1>3. ASSUME NEW A, A \subseteq Channels PROVE After(i, A) = A \cup wanted
  BY <1>0, <1>2, <1>3, AfterIntroduction
<1>4. After(q, wanted) = wanted
  BY <1>2 DEF JoinInv, QueueInv
<1>5. CASE socket = s \/ Open(socket)
  <2>1. socket \in Sockets /\ queue' = <<>>
    BY <1>5 DEF OnOpen, Open, TypeOK
  <2>2. PICK u : u = up[socket] /\ u \in Seq(ClientMessage)
    BY <2>1 DEF TypeOK
  <2>3. PICK v : v = u \o i /\ v \in Seq(ClientMessage)
    BY <1>2, <2>2, Joined
  <2>4. up'[socket] = v \o q /\ \A r \in Sockets : r # socket => up'[r] = up[r]
    BY <1>2, <1>5, <2>1, <2>2, <2>3 DEF OnOpen, TypeOK
  <2>5. ASSUME NEW A, A \subseteq Channels
        PROVE  After(up'[socket], A) = After(q, After(u, A) \cup wanted)
    <3>0. /\ u \in Seq(ClientMessage) /\ v \in Seq(ClientMessage)
          /\ i \in Seq(ClientMessage) /\ q \in Seq(ClientMessage)
      BY <1>2, <2>2, <2>3
    <3>1. After(v \o q, A) = After(q, After(v, A))
      BY <3>0, AfterBoth
    <3>2. After(u \o i, A) = After(i, After(u, A))
      BY <3>0, AfterBoth
    <3>3. PICK B : B = After(u, A) /\ B \subseteq Channels
      BY DEF After
    <3>4. After(i, B) = B \cup wanted
      BY <1>3, <3>3
    <3> QED
      BY <2>3, <2>4, <3>1, <3>2, <3>3, <3>4
  <2>6. Open(socket)'
    BY <1>0, <1>1, <1>5, <2>1 DEF Open
  <2>7. WiresInv'
    <3>1. socket' # None => Live(socket)'
      BY <2>6 DEF Live, Open
    <3>2. \A r \in Sockets : conn'[r] \in {"unused", "connecting"} =>
            up'[r] = <<>> /\ down'[r] = <<>> /\ member'[r] = {}
      BY <1>0, <1>1, <2>4, <2>6 DEF JoinInv, WiresInv, Open
    <3> QED
      BY <2>1, <3>1, <3>2 DEF WiresInv
  <2>8. QueueInv'
    BY <1>0, <2>1, AfterNothing DEF QueueInv
  <2>9. CASE socket = s
    <3>1. u = <<>> /\ down[socket] = <<>> /\ member[socket] = {}
      BY <1>0, <2>2, <2>9 DEF JoinInv, WiresInv
    <3>2. After(up'[socket], {}) = wanted
      <4>1. After(<<>>, {}) = {}
        BY AfterNothing
      <4> QED
        BY <1>4, <2>5, <3>1, <4>1
    <3>3. After(up'[socket], subscribed) = wanted
      <4>1. After(<<>>, subscribed) = subscribed /\ subscribed \subseteq Channels
        BY <1>0, AfterNothing
      <4>2. subscribed \cup wanted = wanted
        BY <1>0
      <4> QED
        BY <1>4, <2>5, <3>1, <4>1, <4>2
    <3>4. GroupsInv'
      BY <1>0, <3>1, <3>2 DEF GroupsInv
    <3>5. After(<<>>, subscribed) = subscribed
      BY <1>0, AfterNothing
    <3>6. FlagsInv'
      BY <1>0, <2>6, <3>1, <3>3, <3>5 DEF FlagsInv
    <3> QED
      BY <2>7, <2>8, <3>4, <3>6 DEF JoinInv
  <2>10. CASE socket # s
    <3>1. Open(socket) /\ q = <<>>
      BY <1>2, <1>5, <2>10 DEF JoinInv, WiresInv
    <3>2. PICK g, B : g = member[socket] /\ g \subseteq Channels /\ B = After(u, g) \cup wanted
      BY <2>1 DEF TypeOK
    <3>3. B \subseteq Channels
      BY <1>0, <3>2 DEF After
    <3>4. After(up'[socket], g) = B
      <4>1. After(up'[socket], g) = After(q, After(u, g) \cup wanted)
        BY <2>5, <3>2
      <4>2. After(<<>>, B) = B
        BY <3>3, AfterNothing
      <4> QED
        BY <3>1, <3>2, <4>1, <4>2
    <3>5. After(u, g) \subseteq wanted \cup Base
      BY <2>2, <3>1, <3>2 DEF JoinInv, GroupsInv
    <3>6. GroupsInv'
      BY <1>0, <3>2, <3>4, <3>5 DEF GroupsInv
    <3>7. ~Alone'
      BY <1>0, <1>1, <2>10 DEF Alone
    <3> QED
      BY <2>7, <2>8, <3>6, <3>7 DEF JoinInv, FlagsInv
  <2> QED
    BY <2>9, <2>10
<1>6. CASE ~(socket = s \/ Open(socket))
  <2>1. up' = up /\ queue' = q \o i
    BY <1>2, <1>6 DEF OnOpen
  <2>2. QueueInv'
    <3>1. After(q \o i, wanted) = After(i, After(q, wanted))
      BY <1>2, AfterBoth
    <3> QED
      BY <1>0, <1>3, <1>4, <2>1, <3>1 DEF QueueInv
  <2>3. ~Open(socket)' /\ (socket' # None => Live(socket)')
    BY <1>0, <1>1, <1>6 DEF Open, Live, JoinInv, WiresInv, TypeOK
  <2>4. ~Alone'
    BY <1>0, <1>1, <1>6 DEF Alone
  <2>5. WiresInv'
    BY <1>0, <1>1, <2>1, <2>3 DEF JoinInv, WiresInv
  <2> QED
    BY <2>2, <2>3, <2>4, <2>5 DEF JoinInv, GroupsInv, FlagsInv
<1> QED
  BY <1>5, <1>6

\* The kinds of the server's messages.
LEMMA AckKinds ==
  ASSUME NEW m \in ServerMessage
  PROVE  /\ m.type \in Joining \cup Leaving => m.channel \in Channels
         /\ m.type \in Joining <=> m.type = "subscribe.ack"
         /\ m.type \in Leaving <=> m.type = "unsubscribe.ack"
BY DEF ServerMessage, SendAck, SubscribeAck, UnsubscribeAck, GatewayError, Joining, Leaving

\* An acknowledgement does what it says, but for a channel that no screen wants.
LEMMA OnMessageKeepsJoined ==
  ASSUME TypeOK, JoinInv, NEW s \in Sockets, OnMessage(s)
  PROVE  JoinInv'
<1>1. PICK d, m : /\ d = down[s] /\ d \in Seq(ServerMessage) /\ d # <<>> /\ m = Head(d)
                  /\ m \in ServerMessage
  BY Popped DEF OnMessage, TypeOK
<1>2. /\ conn[s] = "open" /\ UNCHANGED <<socket, conn, queue, wanted, up, member>>
      /\ down'[s] = Tail(d) /\ \A r \in Sockets : r # s => down'[r] = down[r]
  BY <1>1 DEF OnMessage, TypeOK
<1>3. PICK D : D \cap wanted = {} /\ Effect(m, subscribed) \subseteq subscribed' \cup D
  <2>1. \/ m.type = "subscribe.ack" /\ subscribed' = subscribed \cup ({m.channel} \cap wanted)
        \/ m.type = "unsubscribe.ack" /\ subscribed' = subscribed \ {m.channel}
        \/ m.type \in {"chat.message.send.ack", "gateway.error"} /\ subscribed' = subscribed
    BY <1>1 DEF OnMessage, AckedChannel
  <2>2. Effect(m, subscribed) \subseteq subscribed' \cup ({m.channel} \ wanted)
    BY <2>1 DEF Effect, Joining, Leaving
  <2> QED
    BY <2>2
<1>4. WiresInv' /\ QueueInv' /\ GroupsInv'
  BY <1>2 DEF JoinInv, WiresInv, Live, Open, QueueInv, GroupsInv
<1>5. FlagsInv'
  <2>1. SUFFICES ASSUME Alone
                 PROVE  /\ Open(socket)
                        /\ wanted \subseteq After(up[socket], After(down'[socket], subscribed'))
    BY <1>2 DEF FlagsInv, Alone, Open
  <2>2. socket = s /\ Open(socket)
    BY <1>2, <2>1 DEF Alone, Open
  <2>3. PICK u : u = up[socket]
    OBVIOUS
  <2>4. wanted \subseteq After(u, After(d, subscribed))
    BY <1>1, <2>1, <2>2, <2>3 DEF JoinInv, FlagsInv
  <2>5. subscribed \subseteq Channels
    BY DEF TypeOK
  <2>6. After(d, subscribed) = After(Tail(d), Effect(m, subscribed))
    BY <1>1, <2>5, AckKinds, AfterFirst
  <2>7. wanted \subseteq After(u, After(Tail(d), subscribed'))
    BY <1>3, <2>4, <2>6, AfterWithout
  <2> QED
    BY <1>2, <2>2, <2>3, <2>7
<1> QED
  BY <1>4, <1>5 DEF JoinInv

\* A socket that is lost takes the flags along.
LEMMA ClosingKeepsJoined ==
  ASSUME TypeOK, JoinInv, NEW s \in Sockets, Drop(s) \/ CloseEnds(s)
  PROVE  JoinInv'
<1>1. socket' = None /\ subscribed' = {} /\ UNCHANGED <<queue, wanted, member>>
  BY DEF Drop, CloseEnds, OnClose
<1>2. /\ conn'[s] = "closed"
      /\ \A r \in Sockets : r # s => conn'[r] = conn[r] /\ up'[r] = up[r] /\ down'[r] = down[r]
  BY DEF Drop, CloseEnds, TypeOK
<1>3. ~Open(socket)'
  BY <1>1 DEF Open
<1>4. WiresInv'
  BY <1>1, <1>2, <1>3 DEF JoinInv, WiresInv
<1> QED
  BY <1>1, <1>3, <1>4 DEF JoinInv, QueueInv, GroupsInv, FlagsInv

\* The kinds of the client's messages.
LEMMA AskKinds ==
  ASSUME NEW m \in ClientMessage
  PROVE  /\ m.type \in Joining \cup Leaving => m.channel \in Channels
         /\ m.type \in Joining <=> m.type = "subscribe"
         /\ m.type \in Leaving <=> m.type = "unsubscribe"
BY DEF ClientMessage, Hello, SubscribeTo, Unsubscribe, ChatSend, Joining, Leaving

\* Of the groups g the message m leaves n, and of the answers d it leaves e.
Heard(m, g, n, d, e) ==
  /\ Effect(m, g) \subseteq n /\ n \subseteq Effect(m, g) \cup Base
  /\ \/ e = d /\ m.type \notin Joining \cup Leaving
     \/ \E a \in ServerMessage : e = Append(d, a) /\ \A A : Effect(a, A) = Effect(m, A)

\* The gateway does what a message says, hello joins the base channels besides, and the
\* answer on an open socket says the same to the client.
LEMMA HandlingSays ==
  ASSUME TypeOK, NEW s \in Sockets, GatewayHandles(s), NEW m, m = Head(up[s]),
         m \in ClientMessage, conn[s] = "open"
  PROVE  Heard(m, member[s], member'[s], down[s], down'[s])
<1> SUFFICES
      /\ Effect(m, member[s]) \subseteq member'[s]
      /\ member'[s] \subseteq Effect(m, member[s]) \cup Base
      /\ \/ down'[s] = down[s] /\ m.type \notin Joining \cup Leaving
         \/ \E a \in ServerMessage : /\ down'[s] = Append(down[s], a)
                                    /\ \A A : Effect(a, A) = Effect(m, A)
  BY DEF Heard
<1>1. CASE m.type = "hello"
  <2>1. m.type \notin Joining \cup Leaving
    BY <1>1, AskKinds
  <2>2. down' = down /\ member' = [member EXCEPT ![s] = @ \cup Base]
    BY <1>1 DEF GatewayHandles
  <2>3. member'[s] = member[s] \cup Base
    BY <2>2 DEF TypeOK
  <2>4. Effect(m, member[s]) = member[s]
    BY <2>1 DEF Effect
  <2> QED
    BY <2>1, <2>2, <2>3, <2>4
<1>2. CASE m.type = "subscribe"
  <2>1. /\ member'[s] = member[s] \cup {m.channel} /\ m.channel \in Channels
        /\ down'[s] = Append(down[s], SubscribeAck(m.channel))
    BY <1>2, ClientKinds DEF GatewayHandles, Answer, TypeOK
  <2>2. PICK a : a = SubscribeAck(m.channel)
    OBVIOUS
  <2>3. a \in ServerMessage /\ a.type = "subscribe.ack" /\ a.channel = m.channel
    BY <2>1, <2>2 DEF ServerMessage, SubscribeAck
  <2> QED
    BY <1>2, <2>1, <2>2, <2>3 DEF Effect, Joining, Leaving
<1>3. CASE m.type = "unsubscribe"
  <2>1. /\ member'[s] = member[s] \ {m.channel} /\ m.channel \in Channels
        /\ down'[s] = Append(down[s], UnsubscribeAck(m.channel))
    BY <1>3, ClientKinds DEF GatewayHandles, Answer, TypeOK
  <2>2. PICK a : a = UnsubscribeAck(m.channel)
    OBVIOUS
  <2>3. a \in ServerMessage /\ a.type = "unsubscribe.ack" /\ a.channel = m.channel
    BY <2>1, <2>2 DEF ServerMessage, UnsubscribeAck
  <2> QED
    BY <1>3, <2>1, <2>2, <2>3 DEF Effect, Joining, Leaving
<1>4. CASE m.type = "chat.message.send"
  <2>1. PICK a \in {SendAck(m.text), GatewayError} : Answer(s, a) /\ member' = member
    BY <1>4 DEF GatewayHandles
  <2>2. m.text \in Texts
    BY <1>4, ClientKinds
  <2>3. a \in ServerMessage /\ a.type \notin Joining \cup Leaving
    BY <2>1, <2>2 DEF ServerMessage, SendAck, GatewayError, Joining, Leaving
  <2>4. down'[s] = Append(down[s], a)
    BY <2>1 DEF Answer, TypeOK
  <2>5. m.type \notin Joining \cup Leaving
    BY <1>4 DEF Joining, Leaving
  <2> QED
    BY <2>1, <2>3, <2>4, <2>5 DEF Effect
<1> QED
  BY <1>1, <1>2, <1>3, <1>4 DEF GatewayHandles

LEMMA GatewayKeepsJoined ==
  ASSUME TypeOK, JoinInv, NEW s \in Sockets, GatewayHandles(s)
  PROVE  JoinInv'
<1>1. PICK u, m : /\ u = up[s] /\ u \in Seq(ClientMessage) /\ u # <<>> /\ m = Head(u)
                  /\ m \in ClientMessage
  BY Popped DEF GatewayHandles, TypeOK
<1>2. /\ UNCHANGED <<socket, conn, queue, wanted, subscribed>> /\ up'[s] = Tail(u)
      /\ \A r \in Sockets : r # s =>
           up'[r] = up[r] /\ down'[r] = down[r] /\ member'[r] = member[r]
  BY <1>1 DEF GatewayHandles, Answer, TypeOK
<1>3. conn[s] \notin {"unused", "connecting"}
  BY <1>1 DEF JoinInv, WiresInv
<1>4. WiresInv' /\ QueueInv'
  BY <1>2, <1>3 DEF JoinInv, WiresInv, Live, Open, QueueInv
<1>5. CASE s # socket \/ ~Open(socket)
  <2>1. Open(socket) => /\ up'[socket] = up[socket] /\ down'[socket] = down[socket]
                        /\ member'[socket] = member[socket]
    BY <1>2, <1>5 DEF Open, TypeOK
  <2> QED
    BY <1>2, <1>4, <2>1 DEF JoinInv, GroupsInv, FlagsInv, Alone, Open
<1>6. CASE s = socket /\ Open(socket)
  <2>1. PICK d, g, n : d = down[s] /\ g = member[s] /\ n = member'[s]
    OBVIOUS
  <2>2. d \in Seq(ServerMessage) /\ g \subseteq Channels /\ subscribed \subseteq Channels
    BY <2>1 DEF TypeOK
  <2>3. /\ Effect(m, g) \subseteq n /\ n \subseteq Effect(m, g) \cup Base
        /\ \/ down'[s] = d /\ m.type \notin Joining \cup Leaving
           \/ \E a \in ServerMessage : /\ down'[s] = Append(d, a)
                                      /\ \A A : Effect(a, A) = Effect(m, A)
    <3>1. conn[s] = "open"
      BY <1>6 DEF Open
    <3>2. m = Head(up[s]) /\ m \in ClientMessage
      BY <1>1
    <3>3. Heard(m, member[s], member'[s], down[s], down'[s])
      BY <3>1, <3>2, HandlingSays
    <3> QED
      BY <2>1, <3>3 DEF Heard
  <2>4. ASSUME NEW A, A \subseteq Channels PROVE After(u, A) = After(Tail(u), Effect(m, A))
    BY <1>1, <2>4, AskKinds, AfterFirst
  <2>5. GroupsInv'
    <3>1. wanted \subseteq After(u, g) /\ After(u, g) \subseteq wanted \cup Base
      BY <1>1, <1>6, <2>1 DEF JoinInv, GroupsInv
    <3>2. After(u, g) \subseteq After(Tail(u), n)
      BY <2>2, <2>3, <2>4, AfterMore
    <3>3. After(Tail(u), n) \subseteq After(u, g) \cup Base
      <4>1. PICK t, e : t = Tail(u) /\ e = Effect(m, g)
        OBVIOUS
      <4>2. After(t, n) \subseteq After(t, e \cup Base)
        BY <2>3, <4>1, AfterMore
      <4>3. After(t, e \cup Base) \subseteq After(t, e) \cup Base
        BY AfterBesides
      <4>4. After(u, g) = After(t, e)
        BY <2>2, <2>4, <4>1
      <4> QED
        BY <4>1, <4>2, <4>3, <4>4
    <3> QED
      BY <1>2, <1>6, <2>1, <3>1, <3>2, <3>3 DEF GroupsInv
  <2>6. FlagsInv'
    <3>1. After(down'[s], subscribed) = Effect(m, After(d, subscribed))
      <4>1. CASE down'[s] = d /\ m.type \notin Joining \cup Leaving
        BY <4>1 DEF Effect
      <4>2. ASSUME NEW a \in ServerMessage, down'[s] = Append(d, a),
                   \A A : Effect(a, A) = Effect(m, A)
            PROVE  After(down'[s], subscribed) = Effect(m, After(d, subscribed))
        <5>1. After(Append(d, a), subscribed) = Effect(a, After(d, subscribed))
          BY <2>2, AckKinds, AfterAppend
        <5> QED
          BY <4>2, <5>1
      <4> QED
        BY <2>3, <4>1, <4>2
    <3>2. After(d, subscribed) \subseteq Channels
      BY DEF After
    <3>3. After(u, After(d, subscribed)) = After(Tail(u), After(down'[s], subscribed))
      BY <2>4, <3>1, <3>2
    <3>4. Alone => wanted \subseteq After(u, After(d, subscribed))
      BY <1>1, <1>6, <2>1 DEF JoinInv, FlagsInv
    <3> QED
      BY <1>2, <1>6, <3>3, <3>4 DEF FlagsInv, Alone, Open
  <2> QED
    BY <1>4, <2>5, <2>6 DEF JoinInv
<1> QED
  BY <1>5, <1>6

LEMMA JoinStep == TypeOK /\ JoinInv /\ [Next]_vars => JoinInv'
<1> SUFFICES ASSUME TypeOK, JoinInv, [Next]_vars PROVE JoinInv'
  OBVIOUS
<1>1. ASSUME NEW t \in Texts, AckTimeout(t) PROVE JoinInv'
  BY <1>1, StillStep DEF AckTimeout, screenVars, socketVars
<1>2. CASE Reconnect
  <2>1. UNCHANGED <<queue, wanted, subscribed, up, down, member>>
    BY <1>2 DEF Reconnect, screenVars, serverVars
  <2>2. UNCHANGED <<socket, conn>> \/ ConnectGatewaySocket
    BY <1>2 DEF Reconnect
  <2> QED
    BY <2>1, <2>2, StillStep, OnlyConnects
<1>3. ASSUME NEW s \in Sockets, GatewayForgets(s) PROVE JoinInv'
  <2>1. /\ UNCHANGED <<socket, conn, queue, wanted, subscribed, up, down>> /\ conn[s] = "closed"
        /\ member'[s] = {} /\ \A r \in Sockets : r # s => member'[r] = member[r]
    BY <1>3 DEF GatewayForgets, screenVars, socketVars, TypeOK
  <2>2. Open(socket) => socket # s /\ socket \in Sockets
    BY <2>1 DEF Open, TypeOK
  <2> QED
    BY <2>1, <2>2 DEF JoinInv, WiresInv, Live, Open, QueueInv, GroupsInv, FlagsInv, Alone
<1>4. CASE UNCHANGED vars
  BY <1>4, StillStep DEF vars, screenVars, socketVars, serverVars
<1> QED
  BY <1>1, <1>2, <1>3, <1>4, ScreensKeepJoined, OnOpenKeepsJoined, OnMessageKeepsJoined,
     ClosingKeepsJoined, GatewayKeepsJoined DEF Next

\* Once nothing is under way, the screens, the client's flags and the gateway's groups agree
\* on the channels (private, leave, handleGatewayMessage, onopen, and the gateway's handlers).
THEOREM QuietIsJoined == Spec => []QuietMeansJoined
<1>1. Init => JoinInv
  <2>1. SUFFICES ASSUME Init PROVE JoinInv
    OBVIOUS
  <2>2. After(<<>>, {}) = {}
    BY AfterNothing
  <2> QED
    BY <2>1, <2>2 DEF Init, JoinInv, WiresInv, QueueInv, GroupsInv, FlagsInv, Open
<1> QED
  BY <1>1, TypeCorrect, JoinStep, JoinInvImplies, PTL DEF Spec

=============================================================================
