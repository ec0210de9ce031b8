----------------------------- MODULE HubProofs -----------------------------
(* The safety invariants of Hub, for every set of connections, users and   *)
(* chats, every capacity of the channels and every number of events.       *)
EXTENDS Hub, TLAPS

(* Every recipient set names the sender, so no recipient set is empty and  *)
(* Run never takes the branch that sends a message to everybody; what is   *)
(* buffered, queued or in a goroutine's hands obeys the memberships.       *)
ByMember(e) == UserOf[e.from] \in Members[e.chat]

Rightful(e, c) ==
  IF IsBroadcast(e) THEN UserOf[c] \in Members[e.chat] ELSE e.from = c

MembersInv ==
  /\ \A i \in DOMAIN broadcast : ByMember(broadcast[i])
  /\ \A c \in Clients : reader[c] = "broadcasting" => ByMember(pending[c])
  /\ \A c \in todo : UserOf[c] \in Members[current.chat]
  /\ todo # {} => hub # "select"
  /\ \A c \in Clients :
       /\ \A i \in DOMAIN wire[c] : Rightful(wire[c][i], c)
       /\ \A i \in DOMAIN send[c] : Rightful(send[c][i], c)

-----------------------------------------------------------------------------
(* What is put into a buffer is an event of the right type.                *)
LEMMA EventTypes ==
  ASSUME TypeOK, issued < MaxEvents, NEW c \in Clients, NEW chat \in Chats
  PROVE  /\ Event("new", c, chat) \in BroadcastEvent
         /\ Event("notice", c, chat) \in BroadcastEvent
         /\ Event("ack", c, chat) \in DirectEvent
         /\ Event("reply", c, NoEvent) \in DirectEvent
BY HubAssumption DEF TypeOK, Event, BroadcastEvent, DirectEvent

(* queueRaw leaves every buffer within its capacity.                       *)
LEMMA QueueEventTypes ==
  ASSUME TypeOK, NEW c \in Clients, NEW e \in DirectEvent, QueueEvent(c, e)
  PROVE  /\ send' \in [Clients -> Seq(DirectEvent \cup BroadcastEvent)]
         /\ \A d \in Clients : Len(send'[d]) <= SendCap
BY HubAssumption DEF TypeOK, QueueEvent

(* The type invariant, which includes the bounds of every buffered channel *)
(* and that a goroutine blocked on hub.broadcast holds a message.          *)
THEOREM TypeCorrect == Spec => []TypeOK
<1> USE HubAssumption, NoEventAssumption
<1>1. Init => TypeOK
  BY DEF Init, TypeOK, ReaderStates
<1>2. TypeOK /\ [Next]_vars => TypeOK'
  <2> SUFFICES ASSUME TypeOK, [Next]_vars PROVE TypeOK'
    OBVIOUS
  <2>1. CASE HubTake
    BY <2>1 DEF TypeOK, HubTake, clientVars
  <2>2. ASSUME NEW c \in Clients, HubRegister(c) PROVE TypeOK'
    BY <2>2 DEF TypeOK, HubRegister, ReaderStates
  <2>3. ASSUME NEW c \in Clients, HubUnregister(c) PROVE TypeOK'
    BY <2>3 DEF TypeOK, HubUnregister, Close, ReaderStates, history
  <2>4. ASSUME NEW c \in Clients, HubSend(c) PROVE TypeOK'
    BY <2>4 DEF TypeOK, HubSend, Reached, history
  <2>5. ASSUME NEW c \in Clients, HubDrop(c) PROVE TypeOK'
    BY <2>5 DEF TypeOK, HubDrop, Reached, Close, history
  <2>6. ASSUME NEW c \in Clients, HubPanic(c) PROVE TypeOK'
    BY <2>6 DEF TypeOK, HubPanic, Reached, clientVars, history
  <2>7. ASSUME NEW c \in Clients, Connect(c) PROVE TypeOK'
    BY <2>7 DEF TypeOK, Connect, ReaderStates, hubVars, history
  <2>8. ASSUME NEW c \in Clients, HandleReply(c) PROVE TypeOK'
    <3>1. Event("reply", c, NoEvent) \in DirectEvent
      BY <2>8 DEF HandleReply, TypeOK, Event, DirectEvent
    <3>2. /\ send' \in [Clients -> Seq(DirectEvent \cup BroadcastEvent)]
          /\ \A d \in Clients : Len(send'[d]) <= SendCap
      BY <2>8, <3>1, QueueEventTypes DEF HandleReply
    <3> QED
      BY <2>8, <3>2 DEF TypeOK, HandleReply, hubVars, history
  <2>9. ASSUME NEW c \in Clients, Broadcast(c) PROVE TypeOK'
    BY <2>9 DEF TypeOK, Broadcast, ReaderStates, hubVars, history
  <2>10. ASSUME NEW c \in Clients, ReadError(c) PROVE TypeOK'
    BY <2>10 DEF TypeOK, ReadError, ReaderStates, hubVars, history
  <2>11. ASSUME NEW c \in Clients, NEW chat \in Chats,
                HandleMessageSend(c, chat)
         PROVE  TypeOK'
    <3>1. /\ Event("ack", c, chat) \in DirectEvent
          /\ Event("new", c, chat) \in BroadcastEvent
      BY <2>11, EventTypes DEF HandleMessageSend
    <3>2. /\ send' \in [Clients -> Seq(DirectEvent \cup BroadcastEvent)]
          /\ \A d \in Clients : Len(send'[d]) <= SendCap
      BY <2>11, <3>1, QueueEventTypes DEF HandleMessageSend
    <3>3. /\ pending' \in [Clients -> BroadcastEvent \cup {NoEvent}]
          /\ \A d \in Clients : reader'[d] = "broadcasting" => pending'[d] # NoEvent
      BY <2>11, <3>1 DEF TypeOK, HandleMessageSend
    <3>4. reader' \in [Clients -> ReaderStates] /\ issued' \in 0..MaxEvents
      BY <2>11 DEF TypeOK, HandleMessageSend, ReaderStates
    <3> QED
      BY <2>11, <3>2, <3>3, <3>4 DEF TypeOK, HandleMessageSend, hubVars, history
  <2>12. ASSUME NEW c \in Clients, NEW chat \in Chats, HandleNotice(c, chat)
         PROVE  TypeOK'
    <3>1. Event("notice", c, chat) \in BroadcastEvent
      BY <2>12, EventTypes DEF HandleNotice
    <3> QED
      BY <2>12, <3>1 DEF TypeOK, HandleNotice, ReaderStates, hubVars, history
  <2>13. ASSUME NEW c \in Clients, WriteMessage(c) PROVE TypeOK'
    BY <2>13 DEF TypeOK, WriteMessage, hubVars
  <2>14. ASSUME NEW c \in Clients, WriteError(c) PROVE TypeOK'
    BY <2>14 DEF TypeOK, WriteError, Close, hubVars, history
  <2>15. ASSUME NEW c \in Clients, WriteClose(c) PROVE TypeOK'
    BY <2>15 DEF TypeOK, WriteClose, hubVars, history
  <2>16. ASSUME NEW c \in Clients, CloseConn(c) PROVE TypeOK'
    BY <2>16 DEF TypeOK, CloseConn, hubVars, history
  <2>17. CASE UNCHANGED vars
    BY <2>17 DEF TypeOK, vars
  <2> QED
    BY <2>1, <2>2, <2>3, <2>4, <2>5, <2>6, <2>7, <2>8, <2>9, <2>10, <2>11,
       <2>12, <2>13, <2>14, <2>15, <2>16, <2>17
    DEF Next, HubStep, ReaderStep, WriterStep
<1> QED
  BY <1>1, <1>2, PTL DEF Spec

-----------------------------------------------------------------------------
(* RegistryMatches is inductive beside the type invariant.                 *)
THEOREM RegistryCorrect == Spec => []RegistryMatches
<1>1. Init => RegistryMatches
  BY DEF Init, RegistryMatches, Registered
<1>2. TypeOK /\ RegistryMatches /\ [Next]_vars => RegistryMatches'
  <2> SUFFICES ASSUME TypeOK, RegistryMatches, [Next]_vars
               PROVE  RegistryMatches'
    OBVIOUS
  <2> USE DEF RegistryMatches, TypeOK, Registered, ReaderStates
  <2>1. CASE HubTake
    BY <2>1 DEF HubTake, clientVars
  <2>2. ASSUME NEW c \in Clients, HubStep(c) PROVE RegistryMatches'
    <3>1. CASE HubRegister(c)
      BY <3>1 DEF HubRegister
    <3>2. CASE HubUnregister(c)
      BY <3>2 DEF HubUnregister, Close, history
    <3>3. CASE HubSend(c)
      BY <3>3 DEF HubSend, Reached, history
    <3>4. CASE HubDrop(c)
      BY <3>4 DEF HubDrop, Reached, Close, history
    <3>5. CASE HubPanic(c)
      BY <3>5 DEF HubPanic, Reached, clientVars, history
    <3> QED
      BY <2>2, <3>1, <3>2, <3>3, <3>4, <3>5 DEF HubStep
  <2>3. ASSUME NEW c \in Clients, ReaderStep(c) PROVE RegistryMatches'
    <3>1. CASE Connect(c)
      BY <3>1 DEF Connect, hubVars, history
    <3>2. CASE HandleReply(c)
      BY <3>2 DEF HandleReply, hubVars, history
    <3>3. CASE Broadcast(c)
      BY <3>3 DEF Broadcast, hubVars, history
    <3>4. CASE ReadError(c)
      BY <3>4 DEF ReadError, hubVars, history
    <3>5. ASSUME NEW chat \in Chats, HandleMessageSend(c, chat)
          PROVE  RegistryMatches'
      BY <3>5 DEF HandleMessageSend, hubVars, history
    <3>6. ASSUME NEW chat \in Chats, HandleNotice(c, chat)
          PROVE  RegistryMatches'
      BY <3>6 DEF HandleNotice, hubVars, history
    <3> QED
      BY <2>3, <3>1, <3>2, <3>3, <3>4, <3>5, <3>6 DEF ReaderStep
  <2>4. ASSUME NEW c \in Clients, WriterStep(c) \/ CloseConn(c)
        PROVE  RegistryMatches'
    <3>1. CASE WriteMessage(c)
      BY <3>1 DEF WriteMessage, hubVars
    <3>2. CASE WriteError(c)
      BY <3>2 DEF WriteError, Close, hubVars, history
    <3>3. CASE WriteClose(c)
      BY <3>3 DEF WriteClose, hubVars, history
    <3>4. CASE CloseConn(c)
      BY <3>4 DEF CloseConn, hubVars, history
    <3> QED
      BY <2>4, <3>1, <3>2, <3>3, <3>4 DEF WriterStep
  <2>5. CASE UNCHANGED vars
    BY <2>5 DEF vars
  <2> QED
    BY <2>1, <2>2, <2>3, <2>4, <2>5 DEF Next
<1> QED
  BY <1>1, <1>2, TypeCorrect, PTL DEF Spec

-----------------------------------------------------------------------------
(* A recipient set that contains a sender's user is not empty.             *)
LEMMA AddressedMembers ==
  ASSUME NEW e, NEW c, ByMember(e), Addressed(e, c)
  PROVE  UserOf[c] \in Members[e.chat]
BY DEF ByMember, Addressed

(* queueRaw puts only the given event at the end of the connection's own   *)
(* buffer, so answers reach nobody else.                                   *)
LEMMA QueueEventRightful ==
  ASSUME TypeOK, MembersInv, NEW c \in Clients, NEW e \in DirectEvent,
         e.from = c, QueueEvent(c, e)
  PROVE  \A d \in Clients : \A i \in DOMAIN send'[d] : Rightful(send'[d][i], d)
<1>1. Rightful(e, c)
  BY DEF Rightful, IsBroadcast, DirectEvent
<1> QED
  BY <1>1 DEF TypeOK, MembersInv, QueueEvent

(* MembersInv is the strengthening: the messages on their way are those of *)
(* members, so that the recipients Run picks for one are members too.      *)
LEMMA MembersInvariant == Spec => []MembersInv
<1> USE HubAssumption, NoEventAssumption
<1>1. Init => MembersInv
  BY DEF Init, MembersInv
<1>2. TypeOK /\ MembersInv /\ [Next]_vars => MembersInv'
  <2> SUFFICES ASSUME TypeOK, MembersInv, [Next]_vars PROVE MembersInv'
    OBVIOUS
  <2>1. CASE HubTake
    <3>1. broadcast # <<>> /\ ByMember(Head(broadcast))
      BY <2>1 DEF HubTake, MembersInv, TypeOK
    <3>2. \A c \in todo' : UserOf[c] \in Members[current'.chat]
      BY <2>1, <3>1, AddressedMembers DEF HubTake, TypeOK
    <3>3. \A i \in DOMAIN broadcast' : ByMember(broadcast'[i])
      BY <2>1, <3>1 DEF HubTake, MembersInv, TypeOK
    <3>4. todo' # {} => hub' # "select"
      BY <2>1 DEF HubTake
    <3> QED
      BY <2>1, <3>2, <3>3, <3>4 DEF HubTake, MembersInv, clientVars
  <2>2. ASSUME NEW c \in Clients, HubStep(c) PROVE MembersInv'
    <3>1. CASE HubRegister(c)
      BY <3>1 DEF HubRegister, MembersInv, TypeOK
    <3>2. CASE HubUnregister(c)
      BY <3>2 DEF HubUnregister, MembersInv, TypeOK, history
    <3>3. CASE HubSend(c)
      <4>1. current \in BroadcastEvent
        BY <3>3 DEF HubSend, Reached, TypeOK
      <4>2. Rightful(current, c)
        BY <3>3, <4>1
        DEF HubSend, Reached, Rightful, IsBroadcast, BroadcastEvent, MembersInv
      <4>3. \A d \in Clients :
              \A i \in DOMAIN send'[d] : Rightful(send'[d][i], d)
        BY <3>3, <4>1, <4>2 DEF HubSend, MembersInv, TypeOK
      <4> QED
        BY <3>3, <4>3 DEF HubSend, Reached, MembersInv, TypeOK, history
    <3>4. CASE HubDrop(c)
      BY <3>4 DEF HubDrop, Reached, MembersInv, TypeOK, history
    <3>5. CASE HubPanic(c)
      BY <3>5 DEF HubPanic, Reached, MembersInv, TypeOK, clientVars, history
    <3> QED
      BY <2>2, <3>1, <3>2, <3>3, <3>4, <3>5 DEF HubStep
  <2>3. ASSUME NEW c \in Clients, ReaderStep(c) PROVE MembersInv'
    <3>1. CASE Connect(c)
      BY <3>1 DEF Connect, MembersInv, TypeOK, hubVars, history
    <3>2. CASE HandleReply(c)
      <4>1. Event("reply", c, NoEvent) \in DirectEvent
        BY <3>2 DEF HandleReply, TypeOK, Event, DirectEvent
      <4>2. \A d \in Clients :
              \A i \in DOMAIN send'[d] : Rightful(send'[d][i], d)
        BY <3>2, <4>1, QueueEventRightful DEF HandleReply, Event
      <4> QED
        BY <3>2, <4>2 DEF HandleReply, MembersInv, hubVars, history
    <3>3. CASE Broadcast(c)
      BY <3>3 DEF Broadcast, MembersInv, TypeOK, hubVars, history
    <3>4. CASE ReadError(c)
      BY <3>4 DEF ReadError, MembersInv, TypeOK, hubVars, history
    <3>5. ASSUME NEW chat \in Chats, HandleMessageSend(c, chat)
          PROVE  MembersInv'
      <4>1. Event("ack", c, chat) \in DirectEvent
        BY <3>5, EventTypes DEF HandleMessageSend
      <4>2. \A d \in Clients :
              \A i \in DOMAIN send'[d] : Rightful(send'[d][i], d)
        BY <3>5, <4>1, QueueEventRightful DEF HandleMessageSend, Event
      <4>3. ByMember(Event("new", c, chat))
        BY <3>5 DEF HandleMessageSend, ByMember, Event
      <4>4. \A d \in Clients :
              reader'[d] = "broadcasting" => ByMember(pending'[d])
        BY <3>5, <4>3 DEF HandleMessageSend, MembersInv, TypeOK
      <4> QED
        BY <3>5, <4>2, <4>4
        DEF HandleMessageSend, MembersInv, hubVars, history
    <3>6. ASSUME NEW chat \in Chats, HandleNotice(c, chat) PROVE MembersInv'
      <4>1. ByMember(Event("notice", c, chat))
        BY <3>6 DEF HandleNotice, ByMember, Event
      <4>2. \A d \in Clients :
              reader'[d] = "broadcasting" => ByMember(pending'[d])
        BY <3>6, <4>1 DEF HandleNotice, MembersInv, TypeOK
      <4> QED
        BY <3>6, <4>2 DEF HandleNotice, MembersInv, hubVars, history
    <3> QED
      BY <2>3, <3>1, <3>2, <3>3, <3>4, <3>5, <3>6 DEF ReaderStep
  <2>4. ASSUME NEW c \in Clients, WriterStep(c) \/ CloseConn(c)
        PROVE  MembersInv'
    <3>1. CASE WriteMessage(c)
      <4>1. \A d \in Clients :
              /\ \A i \in DOMAIN wire'[d] : Rightful(wire'[d][i], d)
              /\ \A i \in DOMAIN send'[d] : Rightful(send'[d][i], d)
        BY <3>1 DEF WriteMessage, MembersInv, TypeOK
      <4> QED
        BY <3>1, <4>1 DEF WriteMessage, MembersInv, hubVars
    <3>2. CASE WriteError(c)
      BY <3>2 DEF WriteError, MembersInv, TypeOK, hubVars, history
    <3>3. CASE WriteClose(c)
      BY <3>3 DEF WriteClose, MembersInv, hubVars, history
    <3>4. CASE CloseConn(c)
      BY <3>4 DEF CloseConn, MembersInv, hubVars, history
    <3> QED
      BY <2>4, <3>1, <3>2, <3>3, <3>4 DEF WriterStep
  <2>5. CASE UNCHANGED vars
    BY <2>5 DEF vars, MembersInv
  <2> QED
    BY <2>1, <2>2, <2>3, <2>4, <2>5 DEF Next
<1> QED
  BY <1>1, <1>2, TypeCorrect, PTL DEF Spec

(* No connection is given an event that is not for its user.               *)
THEOREM MembersCorrect == Spec => []MembersOnly
<1>1. TypeOK /\ MembersInv => MembersOnly
  <2> SUFFICES ASSUME TypeOK, MembersInv, NEW c \in Clients,
                      NEW i \in DOMAIN Stream(c)
               PROVE  Rightful(Stream(c)[i], c)
    BY DEF MembersOnly, Rightful
  <2> DEFINE S == DirectEvent \cup BroadcastEvent
             w == wire[c]
             q == send[c]
  <2>1. /\ w \in Seq(S) /\ q \in Seq(S) /\ i \in DOMAIN (w \o q)
        /\ Stream(c)[i] = (w \o q)[i]
    BY DEF TypeOK, Stream
  <2>2. /\ \A h \in DOMAIN w : Rightful(w[h], c)
        /\ \A h \in DOMAIN q : Rightful(q[h], c)
    BY DEF MembersInv
  <2> HIDE DEF S, w, q
  <2>3. \/ i \in DOMAIN w /\ (w \o q)[i] = w[i]
        \/ i - Len(w) \in DOMAIN q /\ (w \o q)[i] = q[i - Len(w)]
    BY <2>1
  <2> QED
    BY <2>1, <2>2, <2>3
<1> QED
  BY <1>1, TypeCorrect, MembersInvariant, PTL
-----------------------------------------------------------------------------
(* What hub.broadcast holds, and what a readPump is about to put into it,  *)
(* is later than what went before it from the same connection.             *)
Before(e, f) == e.from = f.from => e.n < f.n

OrderInv ==
  /\ \A i, j \in DOMAIN log : i < j => Before(log[i], log[j])
  /\ \A i, j \in DOMAIN broadcast : i < j => Before(broadcast[i], broadcast[j])
  /\ \A i \in DOMAIN log, j \in DOMAIN broadcast : Before(log[i], broadcast[j])
  /\ \A i \in DOMAIN log : log[i].n <= issued
  /\ \A i \in DOMAIN broadcast : broadcast[i].n <= issued
  /\ \A c \in Clients : reader[c] = "broadcasting" =>
       /\ pending[c].from = c /\ pending[c].n <= issued
       /\ \A i \in DOMAIN log : Before(log[i], pending[c])
       /\ \A i \in DOMAIN broadcast : Before(broadcast[i], pending[c])

(* Run takes the head of the channel, which every other event follows.     *)
LEMMA TakeInOrder ==
  ASSUME TypeOK, OrderInv, HubTake
  PROVE  OrderInv'
<1> DEFINE e == Head(broadcast)
<1>1. /\ log \in Seq(BroadcastEvent) /\ broadcast \in Seq(BroadcastEvent)
      /\ broadcast # <<>> /\ log' = Append(log, e) /\ broadcast' = Tail(broadcast)
      /\ UNCHANGED <<reader, pending, issued>>
  BY DEF TypeOK, HubTake, clientVars
<1>2. /\ e = broadcast[1] /\ 1 \in DOMAIN broadcast
      /\ \A i \in DOMAIN log' :
           \/ i \in DOMAIN log /\ log'[i] = log[i]
           \/ i = Len(log) + 1 /\ log'[i] = e
      /\ \A i \in DOMAIN broadcast' :
           i + 1 \in DOMAIN broadcast /\ broadcast'[i] = broadcast[i + 1]
      /\ \A i \in DOMAIN log : i \in Nat /\ i <= Len(log)
      /\ \A i \in DOMAIN log' : i \in Nat /\ i <= Len(log) + 1
      /\ \A i \in DOMAIN broadcast' : i \in Nat /\ i > 0
      /\ Len(log) \in Nat
  BY <1>1
<1> HIDE DEF e
<1>3. \A i, j \in DOMAIN log' : i < j => Before(log'[i], log'[j])
  BY <1>2 DEF OrderInv
<1>4. \A i, j \in DOMAIN broadcast' : i < j => Before(broadcast'[i], broadcast'[j])
  BY <1>2 DEF OrderInv
<1>5. \A i \in DOMAIN log', j \in DOMAIN broadcast' : Before(log'[i], broadcast'[j])
  BY <1>2 DEF OrderInv
<1>6. /\ \A i \in DOMAIN log' : log'[i].n <= issued'
      /\ \A i \in DOMAIN broadcast' : broadcast'[i].n <= issued'
  BY <1>1, <1>2 DEF OrderInv
<1>7. \A c \in Clients : reader'[c] = "broadcasting" =>
        /\ pending'[c].from = c /\ pending'[c].n <= issued'
        /\ \A i \in DOMAIN log' : Before(log'[i], pending'[c])
        /\ \A i \in DOMAIN broadcast' : Before(broadcast'[i], pending'[c])
  BY <1>1, <1>2 DEF OrderInv
<1> QED
  BY <1>3, <1>4, <1>5, <1>6, <1>7 DEF OrderInv, Before

(* broadcastEvent puts its event behind all the others.                    *)
LEMMA BroadcastInOrder ==
  ASSUME TypeOK, OrderInv, NEW c \in Clients, Broadcast(c)
  PROVE  OrderInv'
<1>1. /\ broadcast \in Seq(BroadcastEvent) /\ pending[c] \in BroadcastEvent
      /\ reader[c] = "broadcasting" /\ broadcast' = Append(broadcast, pending[c])
      /\ UNCHANGED <<log, issued>>
      /\ \A d \in Clients : reader'[d] = "broadcasting" =>
           d # c /\ reader[d] = "broadcasting" /\ pending'[d] = pending[d]
  BY DEF TypeOK, Broadcast, hubVars, history
<1>2. /\ \A i \in DOMAIN broadcast' :
           \/ i \in DOMAIN broadcast /\ broadcast'[i] = broadcast[i]
           \/ i = Len(broadcast) + 1 /\ broadcast'[i] = pending[c]
      /\ \A i \in DOMAIN broadcast : i \in Nat /\ i <= Len(broadcast)
      /\ Len(broadcast) \in Nat
  BY <1>1
<1>3. \A i, j \in DOMAIN broadcast' : i < j => Before(broadcast'[i], broadcast'[j])
  BY <1>1, <1>2 DEF OrderInv
<1>4. \A i \in DOMAIN log', j \in DOMAIN broadcast' : Before(log'[i], broadcast'[j])
  BY <1>1, <1>2 DEF OrderInv
<1>5. \A i \in DOMAIN broadcast' : broadcast'[i].n <= issued'
  BY <1>1, <1>2 DEF OrderInv
<1>6. \A d \in Clients : reader'[d] = "broadcasting" =>
        /\ pending'[d].from = d /\ pending'[d].n <= issued'
        /\ \A i \in DOMAIN log' : Before(log'[i], pending'[d])
        /\ \A i \in DOMAIN broadcast' : Before(broadcast'[i], pending'[d])
  BY <1>1, <1>2 DEF OrderInv, Before
<1> QED
  BY <1>1, <1>3, <1>4, <1>5, <1>6 DEF OrderInv, Before

(* A readPump reads one event at a time: the number it gets is new, and    *)
(* nothing of its connection is on its way.                                *)
LEMMA ReadInOrder ==
  ASSUME TypeOK, OrderInv, NEW c \in Clients, reader[c] = "reading",
         issued' = issued + 1, UNCHANGED <<log, broadcast>>,
         \A d \in Clients : d # c => reader'[d] = reader[d] /\ pending'[d] = pending[d],
         reader'[c] = "broadcasting" => pending'[c].from = c /\ pending'[c].n = issued + 1
  PROVE  OrderInv'
<1>1. /\ issued \in Nat
      /\ \A i \in DOMAIN log : log[i].n \in Nat /\ log[i].n <= issued
      /\ \A i \in DOMAIN broadcast : broadcast[i].n \in Nat /\ broadcast[i].n <= issued
  <2>1. /\ issued \in 0..MaxEvents /\ MaxEvents \in Nat
        /\ log \in Seq(BroadcastEvent) /\ broadcast \in Seq(BroadcastEvent)
    BY HubAssumption DEF TypeOK
  <2>2. /\ \A i \in DOMAIN log : log[i] \in BroadcastEvent
        /\ \A i \in DOMAIN broadcast : broadcast[i] \in BroadcastEvent
    BY <2>1
  <2>3. \A e \in BroadcastEvent : e.n \in Nat
    BY <2>1 DEF BroadcastEvent
  <2> QED
    BY <2>1, <2>2, <2>3 DEF OrderInv
<1>2. \A d \in Clients : reader'[d] = "broadcasting" =>
        /\ pending'[d].from = d /\ pending'[d].n <= issued'
        /\ \A i \in DOMAIN log : Before(log[i], pending'[d])
        /\ \A i \in DOMAIN broadcast : Before(broadcast[i], pending'[d])
  <2> SUFFICES ASSUME NEW d \in Clients, reader'[d] = "broadcasting"
               PROVE  /\ pending'[d].from = d /\ pending'[d].n <= issued'
                      /\ \A i \in DOMAIN log : Before(log[i], pending'[d])
                      /\ \A i \in DOMAIN broadcast : Before(broadcast[i], pending'[d])
    OBVIOUS
  <2>1. CASE d = c
    BY <1>1, <2>1 DEF Before
  <2>2. CASE d # c
    <3>1. pending[d] # NoEvent /\ pending[d] \in BroadcastEvent
      BY <2>2 DEF TypeOK
    <3>2. pending[d].n \in Nat
      BY <3>1 DEF BroadcastEvent
    <3> QED
      BY <1>1, <2>2, <3>2 DEF OrderInv
  <2> QED
    BY <2>1, <2>2
<1>3. \A i \in DOMAIN log : log[i].n <= issued'
  BY <1>1
<1>4. \A i \in DOMAIN broadcast : broadcast[i].n <= issued'
  BY <1>1
<1> QED
  BY <1>2, <1>3, <1>4 DEF OrderInv, Before

(* OrderInv holds in every reachable state.                                *)
LEMMA OrderInvariant == Spec => []OrderInv
<1>1. Init => OrderInv
  BY DEF Init, OrderInv
<1>2. TypeOK /\ OrderInv /\ [Next]_vars => OrderInv'
  <2> SUFFICES ASSUME TypeOK, OrderInv, [Next]_vars PROVE OrderInv'
    OBVIOUS
  <2>1. CASE HubTake
    BY <2>1, TakeInOrder
  <2>2. ASSUME NEW c \in Clients, Broadcast(c) PROVE OrderInv'
    BY <2>2, BroadcastInOrder
  <2>3. ASSUME NEW c \in Clients,
               \/ HandleReply(c)
               \/ \E chat \in Chats : HandleMessageSend(c, chat) \/ HandleNotice(c, chat)
        PROVE  OrderInv'
    <3>1. /\ reader[c] = "reading" /\ issued' = issued + 1 /\ UNCHANGED <<log, broadcast>>
          /\ \A d \in Clients : d # c => reader'[d] = reader[d] /\ pending'[d] = pending[d]
      BY <2>3
      DEF HandleReply, HandleMessageSend, HandleNotice, TypeOK, hubVars, history
    <3>2. reader'[c] = "broadcasting" => pending'[c].from = c /\ pending'[c].n = issued + 1
      <4>1. CASE HandleReply(c)
        BY <3>1, <4>1 DEF HandleReply
      <4>2. ASSUME NEW chat \in Chats, HandleMessageSend(c, chat)
            PROVE  pending'[c].from = c /\ pending'[c].n = issued + 1
        <5>1. pending'[c] = Event("new", c, chat)
          BY <4>2 DEF HandleMessageSend, TypeOK
        <5> QED
          BY <5>1 DEF Event
      <4>3. ASSUME NEW chat \in Chats, HandleNotice(c, chat)
            PROVE  pending'[c].from = c /\ pending'[c].n = issued + 1
        <5>1. pending'[c] = Event("notice", c, chat)
          BY <4>3 DEF HandleNotice, TypeOK
        <5> QED
          BY <5>1 DEF Event
      <4> QED
        BY <2>3, <4>1, <4>2, <4>3
    <3> QED
      BY <3>1, <3>2, ReadInOrder
  <2>4. CASE /\ UNCHANGED <<log, broadcast, pending, issued>>
             /\ \A d \in Clients :
                  reader'[d] = "broadcasting" => reader[d] = "broadcasting"
    BY <2>4 DEF OrderInv, Before
  <2>5. ASSUME NEW c \in Clients,
               \/ HubStep(c) \/ WriterStep(c) \/ CloseConn(c) \/ Connect(c) \/ ReadError(c)
        PROVE  OrderInv'
    <3>1. UNCHANGED <<log, broadcast, pending, issued>>
      BY <2>5
      DEF HubStep, WriterStep, CloseConn, Connect, ReadError, HubRegister, HubUnregister,
          HubSend, HubDrop, HubPanic, WriteMessage, WriteError, WriteClose, hubVars,
          clientVars, history
    <3>2. \A d \in Clients : reader'[d] = "broadcasting" => reader[d] = "broadcasting"
      BY <2>5
      DEF HubStep, WriterStep, CloseConn, Connect, ReadError, HubRegister, HubUnregister,
          HubSend, HubDrop, HubPanic, WriteMessage, WriteError, WriteClose, clientVars,
          TypeOK
    <3> QED
      BY <2>4, <3>1, <3>2
  <2>6. CASE UNCHANGED vars
    BY <2>4, <2>6 DEF vars
  <2> QED
    BY <2>1, <2>2, <2>3, <2>5, <2>6 DEF Next, ReaderStep
<1> QED
  BY <1>1, <1>2, TypeCorrect, PTL DEF Spec

(* The hub hands out what one connection sent in the order it was sent.    *)
THEOREM SendersInOrder == Spec => []SenderOrder
<1>1. OrderInv => SenderOrder
  BY DEF OrderInv, SenderOrder, Before
<1> QED
  BY <1>1, OrderInvariant, PTL
-----------------------------------------------------------------------------
(* A connection's stream against the log of the hub.  The parts of NoGap   *)
(* and NothingMissed that are about one connection, and what makes them    *)
(* inductive: what it was given is in the log, it has been given nothing   *)
(* before its registration, and the hub is handing out the last of the log *)
(* to connections that it has registered before.                           *)
Events == DirectEvent \cup BroadcastEvent

NoGapOf(c) ==
  \A k \in DOMAIN log, i \in DOMAIN Stream(c) :
    Stream(c)[i] = log[k] =>
      /\ k > joinedAt[c]
      /\ \A h \in 1..(i - 1) : Stream(c)[h] # log[k]
      /\ \A j \in (joinedAt[c] + 1)..(k - 1) :
           Addressed(log[j], c) => \E h \in 1..(i - 1) : Stream(c)[h] = log[j]

NothingMissedBy(c) ==
  \A k \in (joinedAt[c] + 1)..Len(log) :
    Addressed(log[k], c) =>
      \/ \E i \in DOMAIN Stream(c) : Stream(c)[i] = log[k]
      \/ c \in todo /\ k = Len(log)

GivenInv(c) ==
  /\ joinedAt[c] <= Len(log)
  /\ reader[c] \in {"idle", "registering"} => wire[c] = <<>> /\ send[c] = <<>>
  /\ \A i \in DOMAIN Stream(c) :
       IsBroadcast(Stream(c)[i]) => \E k \in DOMAIN log : Stream(c)[i] = log[k]
  /\ NoGapOf(c)
  /\ c \in todo => \A i \in DOMAIN Stream(c) : Stream(c)[i] # log[Len(log)]
  /\ c \in clients /\ ~sendClosed[c] => NothingMissedBy(c)

FanoutInv ==
  /\ todo # {} => hub # "select"
  /\ hub = "fanout" => log # <<>> /\ current = log[Len(log)]
  /\ \A c \in todo : c \in clients /\ joinedAt[c] < Len(log)

StreamsInv == FanoutInv /\ \A c \in Clients : GivenInv(c)

(* The elements of a stream, given as what is written and what is queued.  *)
LEMMA StreamElements ==
  ASSUME NEW w \in Seq(Events), NEW q \in Seq(Events)
  PROVE  /\ w \o q \in Seq(Events) /\ Len(w) \in Nat /\ Len(q) \in Nat
         /\ DOMAIN (w \o q) = 1..(Len(w) + Len(q))
         /\ \A i \in 1..(Len(w) + Len(q)) :
              (w \o q)[i] = IF i <= Len(w) THEN w[i] ELSE q[i - Len(w)]
OBVIOUS

(* An event queued for a connection comes after all it was given.          *)
LEMMA StreamAppend ==
  ASSUME NEW w \in Seq(Events), NEW q \in Seq(Events), NEW e \in Events
  PROVE  /\ Len(w \o q) \in Nat /\ DOMAIN (w \o q) = 1..Len(w \o q)
         /\ DOMAIN (w \o Append(q, e)) = 1..(Len(w \o q) + 1)
         /\ \A i \in 1..Len(w \o q) : (w \o Append(q, e))[i] = (w \o q)[i]
         /\ (w \o Append(q, e))[Len(w \o q) + 1] = e
OBVIOUS

(* What writePump writes stays where it was.                               *)
LEMMA StreamWrite ==
  ASSUME NEW w \in Seq(Events), NEW q \in Seq(Events), q # <<>>
  PROVE  /\ DOMAIN (Append(w, Head(q)) \o Tail(q)) = DOMAIN (w \o q)
         /\ \A i \in DOMAIN (w \o q) : (Append(w, Head(q)) \o Tail(q))[i] = (w \o q)[i]
<1>1. /\ Len(Append(w, Head(q))) = Len(w) + 1 /\ Len(Tail(q)) = Len(q) - 1
      /\ Append(w, Head(q)) \in Seq(Events) /\ Tail(q) \in Seq(Events)
      /\ Len(w) \in Nat /\ Len(q) \in Nat /\ Len(q) > 0
      /\ \A i \in 1..Len(w) : Append(w, Head(q))[i] = w[i]
      /\ Append(w, Head(q))[Len(w) + 1] = q[1]
      /\ \A i \in 1..(Len(q) - 1) : Tail(q)[i] = q[i + 1]
  OBVIOUS
<1>2. DOMAIN (Append(w, Head(q)) \o Tail(q)) = 1..(Len(w) + 1 + (Len(q) - 1))
  BY <1>1, StreamElements
<1>3. \A i \in 1..(Len(w) + Len(q)) :
        /\ (Append(w, Head(q)) \o Tail(q))[i] =
             IF i <= Len(w) + 1 THEN Append(w, Head(q))[i] ELSE Tail(q)[i - (Len(w) + 1)]
        /\ (w \o q)[i] = IF i <= Len(w) THEN w[i] ELSE q[i - Len(w)]
  BY <1>1, StreamElements
<1>4. \A i \in 1..(Len(w) + Len(q)) :
        (Append(w, Head(q)) \o Tail(q))[i] = (w \o q)[i]
  <2> SUFFICES ASSUME NEW i \in 1..(Len(w) + Len(q))
               PROVE  (Append(w, Head(q)) \o Tail(q))[i] = (w \o q)[i]
    OBVIOUS
  <2>1. CASE i <= Len(w)
    BY <1>1, <1>3, <2>1
  <2>2. CASE i = Len(w) + 1
    BY <1>1, <1>3, <2>2
  <2>3. CASE i > Len(w) + 1
    <3>1. i - (Len(w) + 1) \in 1..(Len(q) - 1)
      BY <1>1, <2>3
    <3>2. Tail(q)[i - (Len(w) + 1)] = q[i - (Len(w) + 1) + 1]
      BY <1>1, <3>1
    <3>3. i - (Len(w) + 1) + 1 = i - Len(w)
      BY <1>1
    <3> QED
      BY <1>1, <1>3, <2>3, <3>2, <3>3
  <2> QED
    BY <1>1, <2>1, <2>2, <2>3
<1> QED
  BY <1>1, <1>2, <1>4, StreamElements

(* What is written is what is left when the buffer is forgotten.           *)
LEMMA StreamCut ==
  ASSUME NEW w \in Seq(Events), NEW q \in Seq(Events)
  PROVE  \A i \in DOMAIN (w \o <<>>) :
           i \in DOMAIN (w \o q) /\ (w \o <<>>)[i] = (w \o q)[i]
OBVIOUS

(* What the stream of a connection is made of.                             *)
LEMMA StreamType ==
  ASSUME TypeOK, NEW c \in Clients
  PROVE  /\ Stream(c) \in Seq(Events) /\ wire[c] \in Seq(Events) /\ send[c] \in Seq(Events)
         /\ DOMAIN Stream(c) = 1..Len(Stream(c)) /\ Len(Stream(c)) \in Nat
         /\ log \in Seq(BroadcastEvent) /\ DOMAIN log = 1..Len(log) /\ Len(log) \in Nat
         /\ \A k \in DOMAIN log : log[k] \in BroadcastEvent
         /\ joinedAt[c] \in Nat
<1>1. wire[c] \in Seq(Events) /\ send[c] \in Seq(Events) /\ log \in Seq(BroadcastEvent)
      /\ joinedAt[c] \in Nat
  BY DEF TypeOK, Events
<1>2. Stream(c) \in Seq(Events)
  BY <1>1, StreamElements DEF Stream
<1> HIDE DEF Stream
<1> QED
  BY <1>1, <1>2

(* Only broadcast events are in the log, none of them twice.               *)
LEMMA LogIsUnique ==
  ASSUME TypeOK, OrderInv
  PROVE  /\ \A k \in DOMAIN log : IsBroadcast(log[k])
         /\ \A k, l \in DOMAIN log : log[k] = log[l] => k = l
<1>1. /\ log \in Seq(BroadcastEvent)
      /\ \A e \in BroadcastEvent : e.n \in Nat /\ e.kind \in {"new", "notice"}
  BY HubAssumption DEF TypeOK, BroadcastEvent
<1>2. \A k \in DOMAIN log : k \in Nat /\ log[k] \in BroadcastEvent
  BY <1>1
<1> QED
  BY <1>1, <1>2 DEF OrderInv, Before, IsBroadcast

(* What waits in the channel is not in the log yet.                        *)
LEMMA HeadIsNew ==
  ASSUME TypeOK, OrderInv, broadcast # <<>>
  PROVE  \A k \in DOMAIN log : log[k] # Head(broadcast)
<1> DEFINE e == Head(broadcast)
<1>1. e = broadcast[1] /\ 1 \in DOMAIN broadcast /\ e \in BroadcastEvent
  BY DEF TypeOK
<1>2. e.n \in Nat
  BY <1>1, HubAssumption DEF BroadcastEvent
<1>3. \A k \in DOMAIN log : Before(log[k], e)
  BY <1>1 DEF OrderInv
<1> QED
  BY <1>2, <1>3 DEF Before

(* A step that gives a connection at most an answer to its own events, or  *)
(* that forgets what was queued for a connection that it closes.           *)
LEMMA GivenKept ==
  ASSUME TypeOK, TypeOK', OrderInv, FanoutInv, NEW c \in Clients, GivenInv(c),
         UNCHANGED log, joinedAt'[c] = joinedAt[c],
         reader'[c] \in {"idle", "registering"} => wire'[c] = <<>> /\ send'[c] = <<>>,
         \A i \in DOMAIN Stream(c)' :
           \/ i \in DOMAIN Stream(c) /\ Stream(c)'[i] = Stream(c)[i]
           \/ i \notin DOMAIN Stream(c) /\ ~IsBroadcast(Stream(c)'[i]),
         c \in todo' => c \in todo,
         c \in clients' /\ ~sendClosed'[c] =>
           /\ c \in clients /\ ~sendClosed[c] /\ (c \in todo => c \in todo')
           /\ DOMAIN Stream(c) \subseteq DOMAIN Stream(c)'
  PROVE  GivenInv(c)'
<1>1. /\ DOMAIN Stream(c) = 1..Len(Stream(c)) /\ Len(Stream(c)) \in Nat
      /\ DOMAIN log = 1..Len(log) /\ Len(log) \in Nat /\ joinedAt[c] \in Nat
  BY StreamType
<1>2. DOMAIN Stream(c)' = 1..Len(Stream(c)') /\ Len(Stream(c)') \in Nat
  <2>1. wire'[c] \in Seq(Events) /\ send'[c] \in Seq(Events)
    BY DEF TypeOK, Events
  <2>2. Stream(c)' \in Seq(Events)
    BY <2>1, StreamElements DEF Stream
  <2> QED
    BY <2>2
<1>3. \A i \in DOMAIN Stream(c)' :
        IsBroadcast(Stream(c)'[i]) => i \in DOMAIN Stream(c) /\ Stream(c)'[i] = Stream(c)[i]
  OBVIOUS
<1>4. \A k \in DOMAIN log : IsBroadcast(log[k])
  BY LogIsUnique
<1>5. \A i \in DOMAIN Stream(c)' :
        IsBroadcast(Stream(c)'[i]) => \E k \in DOMAIN log' : Stream(c)'[i] = log'[k]
  BY <1>3 DEF GivenInv
<1>6. NoGapOf(c)'
  <2> SUFFICES ASSUME NEW k \in DOMAIN log, NEW i \in DOMAIN Stream(c)',
                      Stream(c)'[i] = log[k]
               PROVE  /\ k > joinedAt[c]
                      /\ \A h \in 1..(i - 1) : Stream(c)'[h] # log[k]
                      /\ \A j \in (joinedAt[c] + 1)..(k - 1) :
                           Addressed(log[j], c) =>
                             \E h \in 1..(i - 1) : Stream(c)'[h] = log[j]
    BY DEF NoGapOf, Addressed
  <2>1. i \in DOMAIN Stream(c) /\ Stream(c)[i] = log[k]
    BY <1>3, <1>4
  <2>2. /\ k > joinedAt[c]
        /\ \A h \in 1..(i - 1) : Stream(c)[h] # log[k]
        /\ \A j \in (joinedAt[c] + 1)..(k - 1) :
             Addressed(log[j], c) => \E h \in 1..(i - 1) : Stream(c)[h] = log[j]
    BY <2>1 DEF GivenInv, NoGapOf
  <2>3. \A h \in 1..(i - 1) : Stream(c)'[h] = Stream(c)[h]
    BY <1>1, <1>2, <2>1
  <2> QED
    BY <2>2, <2>3
<1>7. ASSUME c \in clients', ~sendClosed'[c] PROVE NothingMissedBy(c)'
  <2>1. NothingMissedBy(c)
    BY <1>7 DEF GivenInv
  <2>2. \A i \in DOMAIN Stream(c) : i \in DOMAIN Stream(c)' /\ Stream(c)'[i] = Stream(c)[i]
    BY <1>7
  <2> QED
    BY <1>7, <2>1, <2>2 DEF NothingMissedBy, Addressed
<1>8. c \in todo' => \A i \in DOMAIN Stream(c)' : Stream(c)'[i] # log[Len(log)]
  <2> SUFFICES ASSUME c \in todo', NEW i \in DOMAIN Stream(c)', Stream(c)'[i] = log[Len(log)]
               PROVE  FALSE
    OBVIOUS
  <2>1. c \in todo /\ joinedAt[c] < Len(log)
    BY DEF FanoutInv
  <2>2. Len(log) \in DOMAIN log
    BY <1>1, <2>1
  <2> QED
    BY <1>3, <1>4, <2>1, <2>2 DEF GivenInv
<1> QED
  BY <1>1, <1>5, <1>6, <1>7, <1>8 DEF GivenInv

(* A step that leaves the stream of a connection alone.                    *)
LEMMA GivenSame ==
  ASSUME TypeOK, TypeOK', OrderInv, FanoutInv, NEW c \in Clients, GivenInv(c),
         UNCHANGED log, joinedAt'[c] = joinedAt[c],
         wire'[c] = wire[c], send'[c] = send[c],
         reader'[c] \in {"idle", "registering"} => reader[c] \in {"idle", "registering"},
         c \in todo' => c \in todo,
         c \in clients' /\ ~sendClosed'[c] =>
           c \in clients /\ ~sendClosed[c] /\ (c \in todo => c \in todo')
  PROVE  GivenInv(c)'
<1>1. Stream(c)' = Stream(c)
  BY DEF Stream
<1>2. reader'[c] \in {"idle", "registering"} => wire'[c] = <<>> /\ send'[c] = <<>>
  BY DEF GivenInv
<1> QED
  BY <1>1, <1>2, GivenKept
(* queueRaw, for the answers of a connection's own events.                 *)
LEMMA GivenAnswer ==
  ASSUME TypeOK, TypeOK', OrderInv, FanoutInv, NEW c \in Clients, GivenInv(c),
         NEW e \in DirectEvent, QueueEvent(c, e),
         reader'[c] \notin {"idle", "registering"},
         UNCHANGED <<clients, todo, log, joinedAt, wire, sendClosed>>
  PROVE  GivenInv(c)'
<1>1. ~IsBroadcast(e) /\ e \in Events
  BY DEF IsBroadcast, DirectEvent, Events
<1>2. send'[c] = send[c] \/ send'[c] = Append(send[c], e)
  BY DEF QueueEvent, TypeOK
<1>3. wire[c] \in Seq(Events) /\ send[c] \in Seq(Events)
  BY StreamType
<1>4. /\ DOMAIN Stream(c) \subseteq DOMAIN Stream(c)'
      /\ \A i \in DOMAIN Stream(c)' :
           \/ i \in DOMAIN Stream(c) /\ Stream(c)'[i] = Stream(c)[i]
           \/ i \notin DOMAIN Stream(c) /\ ~IsBroadcast(Stream(c)'[i])
  <2>1. CASE send'[c] = send[c]
    BY <2>1 DEF Stream
  <2>2. CASE send'[c] = Append(send[c], e)
    <3> DEFINE w == wire[c]
               q == send[c]
               s == w \o q
               t == w \o Append(q, e)
    <3>w. w \in Seq(Events) /\ q \in Seq(Events)
      BY <1>3
    <3> HIDE DEF w, q
    <3>1. /\ Len(s) \in Nat /\ DOMAIN s = 1..Len(s) /\ DOMAIN t = 1..(Len(s) + 1)
          /\ \A i \in 1..Len(s) : t[i] = s[i]
          /\ t[Len(s) + 1] = e
      BY <1>1, <3>w, StreamAppend
    <3>2. Stream(c) = s /\ Stream(c)' = t
      BY <2>2 DEF Stream, w, q
    <3> HIDE DEF s, t
    <3>3. \A i \in DOMAIN t : i \in DOMAIN s \/ (i = Len(s) + 1 /\ i \notin DOMAIN s)
      BY <3>1
    <3>4. DOMAIN s \subseteq DOMAIN t
      BY <3>1
    <3> QED
      BY <1>1, <3>1, <3>2, <3>3, <3>4
  <2> QED
    BY <1>2, <2>1, <2>2
<1> QED
  BY <1>4, GivenKept

(* writePump takes the head of the buffer and writes it.                   *)
LEMMA GivenWrite ==
  ASSUME TypeOK, TypeOK', OrderInv, FanoutInv, NEW c \in Clients, GivenInv(c), WriteMessage(c)
  PROVE  GivenInv(c)'
<1>1. /\ wire'[c] = Append(wire[c], Head(send[c])) /\ send'[c] = Tail(send[c])
      /\ send[c] # <<>>
      /\ UNCHANGED <<clients, todo, log, joinedAt, reader, sendClosed>>
  BY DEF WriteMessage, TypeOK, hubVars
<1>2. wire[c] \in Seq(Events) /\ send[c] \in Seq(Events)
  BY StreamType
<1>3. /\ Stream(c) = wire[c] \o send[c]
      /\ Stream(c)' = Append(wire[c], Head(send[c])) \o Tail(send[c])
  BY <1>1 DEF Stream
<1>4. /\ DOMAIN Stream(c)' = DOMAIN Stream(c)
      /\ \A i \in DOMAIN Stream(c) : Stream(c)'[i] = Stream(c)[i]
  BY <1>1, <1>2, <1>3, StreamWrite
<1>5. reader'[c] \notin {"idle", "registering"}
  BY <1>1 DEF GivenInv
<1> QED
  BY <1>1, <1>4, <1>5, GivenKept

(* What writePump leaves in the buffer is never written.                   *)
LEMMA GivenForgotten ==
  ASSUME TypeOK, TypeOK', OrderInv, FanoutInv, NEW c \in Clients, GivenInv(c), WriteError(c)
  PROVE  GivenInv(c)'
<1>1. /\ wire'[c] = wire[c] /\ send'[c] = <<>> /\ sendClosed'[c] = TRUE
      /\ UNCHANGED <<clients, todo, log, joinedAt, reader>>
  BY DEF WriteError, TypeOK, Close, hubVars, history
<1>2. wire[c] \in Seq(Events) /\ send[c] \in Seq(Events) /\ <<>> \in Seq(Events)
  BY StreamType
<1>4. Stream(c) = wire[c] \o send[c] /\ Stream(c)' = wire[c] \o <<>>
  BY <1>1 DEF Stream
<1>5. \A i \in DOMAIN Stream(c)' :
        i \in DOMAIN Stream(c) /\ Stream(c)'[i] = Stream(c)[i]
  <2> DEFINE w == wire[c]
             q == send[c]
  <2>1. w \in Seq(Events) /\ q \in Seq(Events)
    BY <1>2
  <2>2. Stream(c) = w \o q /\ Stream(c)' = w \o <<>>
    BY <1>4
  <2> HIDE DEF w, q
  <2> QED
    BY <2>1, <2>2, StreamCut
<1>6. reader'[c] \in {"idle", "registering"} => wire'[c] = <<>> /\ send'[c] = <<>>
  BY <1>1 DEF GivenInv
<1> QED
  BY <1>1, <1>5, <1>6, GivenKept

(* A connection that registers has been given nothing.                     *)
LEMMA GivenRegistered ==
  ASSUME TypeOK, TypeOK', NEW c \in Clients, GivenInv(c), HubRegister(c)
  PROVE  GivenInv(c)'
<1>1. /\ wire'[c] = <<>> /\ send'[c] = <<>> /\ joinedAt'[c] = Len(log) /\ log' = log
      /\ reader'[c] = "reading"
  BY DEF HubRegister, GivenInv, TypeOK
<1>2. Stream(c)' = <<>>
  BY <1>1 DEF Stream
<1>3. DOMAIN Stream(c)' = {} /\ Len(log) \in Nat
  BY <1>2, StreamType
<1>4. NoGapOf(c)'
  BY <1>3 DEF NoGapOf
<1>5. (joinedAt[c] + 1)..Len(log) = {} => NothingMissedBy(c)
  BY DEF NothingMissedBy
<1>6. ((joinedAt[c] + 1)..Len(log) = {})'
  BY <1>1, <1>3
<1>7. NothingMissedBy(c)'
  BY <1>1, <1>3 DEF NothingMissedBy
<1> QED
  BY <1>1, <1>3, <1>4, <1>7 DEF GivenInv

(* The receive of Run makes a message the last of the log, and those who   *)
(* are to be given it are those of the registered that it is addressed to. *)
LEMMA GivenTake ==
  ASSUME TypeOK, TypeOK', OrderInv, FanoutInv, NEW c \in Clients, GivenInv(c), HubTake
  PROVE  GivenInv(c)'
<1> DEFINE e == Head(broadcast)
<1>1. /\ log' = Append(log, e) /\ hub = "select" /\ broadcast # <<>>
      /\ todo' = {d \in clients : Addressed(e, d)}
      /\ UNCHANGED <<clients, reader, sendClosed, wire, send, joinedAt>>
  BY DEF HubTake, clientVars
<1>2. /\ broadcast \in Seq(BroadcastEvent) /\ e = broadcast[1] /\ 1 \in DOMAIN broadcast
      /\ e \in BroadcastEvent
  BY <1>1 DEF TypeOK
<1>3. \A k \in DOMAIN log : log[k] # e
  BY <1>1, HeadIsNew
<1> HIDE DEF e
<1>4. /\ DOMAIN log = 1..Len(log) /\ Len(log) \in Nat /\ joinedAt[c] \in Nat
      /\ DOMAIN Stream(c) = 1..Len(Stream(c)) /\ Len(Stream(c)) \in Nat
      /\ log \in Seq(BroadcastEvent)
  BY StreamType
<1>5. /\ DOMAIN log' = 1..(Len(log) + 1) /\ Len(log') = Len(log) + 1
      /\ \A k \in DOMAIN log : log'[k] = log[k]
      /\ log'[Len(log) + 1] = e
  BY <1>1, <1>2, <1>4
<1>6. IsBroadcast(e)
  BY <1>2 DEF IsBroadcast, BroadcastEvent
<1>7. Stream(c)' = Stream(c)
  BY <1>1 DEF Stream
<1>8. \A i \in DOMAIN Stream(c) : Stream(c)[i] # e
  BY <1>3, <1>6 DEF GivenInv
<1>9. \A i \in DOMAIN Stream(c)' :
        IsBroadcast(Stream(c)'[i]) => \E k \in DOMAIN log' : Stream(c)'[i] = log'[k]
  BY <1>4, <1>5, <1>7 DEF GivenInv
<1>10. NoGapOf(c)'
  <2> SUFFICES ASSUME NEW k \in DOMAIN log', NEW i \in DOMAIN Stream(c),
                      Stream(c)[i] = log'[k]
               PROVE  /\ k > joinedAt[c]
                      /\ \A h \in 1..(i - 1) : Stream(c)[h] # log'[k]
                      /\ \A j \in (joinedAt[c] + 1)..(k - 1) :
                           Addressed(log'[j], c) =>
                             \E h \in 1..(i - 1) : Stream(c)[h] = log'[j]
    <3>1. joinedAt'[c] = joinedAt[c]
      BY <1>1
    <3> QED
      BY <1>7, <3>1 DEF NoGapOf, Addressed
  <2>1. k \in DOMAIN log /\ log'[k] = log[k]
    BY <1>4, <1>5, <1>8
  <2>2. \A j \in (joinedAt[c] + 1)..(k - 1) : j \in DOMAIN log /\ log'[j] = log[j]
    BY <1>4, <1>5, <2>1
  <2> QED
    BY <2>1, <2>2 DEF GivenInv, NoGapOf
<1>11. ASSUME c \in clients, ~sendClosed[c] PROVE NothingMissedBy(c)'
  <2> SUFFICES ASSUME NEW k \in (joinedAt[c] + 1)..Len(log'), Addressed(log'[k], c)
               PROVE  \/ \E i \in DOMAIN Stream(c) : Stream(c)[i] = log'[k]
                      \/ c \in todo' /\ k = Len(log')
    BY <1>1, <1>7 DEF NothingMissedBy, Addressed
  <2>1. CASE k = Len(log) + 1
    BY <1>1, <1>5, <1>11, <2>1
  <2>2. CASE k # Len(log) + 1
    <3>1. k \in (joinedAt[c] + 1)..Len(log) /\ log'[k] = log[k]
      BY <1>4, <1>5, <2>2
    <3>2. c \notin todo
      BY <1>1 DEF FanoutInv
    <3> QED
      BY <1>11, <3>1, <3>2 DEF GivenInv, NothingMissedBy
  <2> QED
    BY <2>1, <2>2
<1> QED
  BY <1>1, <1>4, <1>5, <1>7, <1>8, <1>9, <1>10, <1>11 DEF GivenInv

(* The message that is handed out follows all those before it.             *)
LEMMA GivenSend ==
  ASSUME TypeOK, TypeOK', RegistryMatches, OrderInv, FanoutInv, NEW c \in Clients,
         GivenInv(c), HubSend(c)
  PROVE  GivenInv(c)'
<1> DEFINE n == Len(Stream(c))
<1>1. /\ hub = "fanout" /\ c \in todo /\ c \in clients /\ ~sendClosed[c]
      /\ joinedAt[c] < Len(log) /\ current = log[Len(log)] /\ log # <<>>
      /\ send'[c] = Append(send[c], current) /\ wire'[c] = wire[c]
      /\ c \notin todo'
      /\ UNCHANGED <<clients, reader, sendClosed, log, joinedAt>>
  BY DEF HubSend, Reached, FanoutInv, TypeOK, history
<1>2. /\ DOMAIN Stream(c) = 1..n /\ n \in Nat
      /\ wire[c] \in Seq(Events) /\ send[c] \in Seq(Events)
      /\ DOMAIN log = 1..Len(log) /\ Len(log) \in Nat /\ joinedAt[c] \in Nat
      /\ \A k \in DOMAIN log : log[k] \in BroadcastEvent
  BY StreamType
<1>3. Len(log) \in DOMAIN log /\ current \in Events
  BY <1>1, <1>2 DEF Events
<1>4. /\ DOMAIN Stream(c)' = 1..(n + 1)
      /\ \A i \in 1..n : Stream(c)'[i] = Stream(c)[i]
      /\ Stream(c)'[n + 1] = current
  <2> DEFINE w == wire[c]
             q == send[c]
  <2>1. Stream(c) = w \o q /\ Stream(c)' = w \o Append(q, current)
    BY <1>1 DEF Stream
  <2>2. w \in Seq(Events) /\ q \in Seq(Events)
    BY <1>2
  <2> HIDE DEF w, q
  <2>3. /\ DOMAIN (w \o Append(q, current)) = 1..(Len(w \o q) + 1)
        /\ \A i \in 1..Len(w \o q) : (w \o Append(q, current))[i] = (w \o q)[i]
        /\ (w \o Append(q, current))[Len(w \o q) + 1] = current
    BY <1>3, <2>2, StreamAppend
  <2> QED
    BY <2>1, <2>3
<1> HIDE DEF n
<1>5. /\ \A k \in DOMAIN log : IsBroadcast(log[k])
      /\ \A k, l \in DOMAIN log : log[k] = log[l] => k = l
  BY LogIsUnique
<1>6. reader'[c] \notin {"idle", "registering"}
  BY <1>1 DEF RegistryMatches, Registered
<1>7. \A i \in DOMAIN Stream(c)' : i \in 1..n \/ i = n + 1
  BY <1>2, <1>4
<1>8. \A i \in DOMAIN Stream(c)' :
        IsBroadcast(Stream(c)'[i]) => \E k \in DOMAIN log' : Stream(c)'[i] = log'[k]
  BY <1>1, <1>2, <1>3, <1>4, <1>7 DEF GivenInv
<1>9. NothingMissedBy(c)
  BY <1>1 DEF GivenInv
<1>10. NoGapOf(c)'
  <2> SUFFICES ASSUME NEW k \in DOMAIN log, NEW i \in DOMAIN Stream(c)',
                      Stream(c)'[i] = log[k]
               PROVE  /\ k > joinedAt[c]
                      /\ \A h \in 1..(i - 1) : Stream(c)'[h] # log[k]
                      /\ \A j \in (joinedAt[c] + 1)..(k - 1) :
                           Addressed(log[j], c) =>
                             \E h \in 1..(i - 1) : Stream(c)'[h] = log[j]
    BY <1>1 DEF NoGapOf, Addressed
  <2>1. CASE i \in 1..n
    <3>1. /\ k > joinedAt[c]
          /\ \A h \in 1..(i - 1) : Stream(c)[h] # log[k]
          /\ \A j \in (joinedAt[c] + 1)..(k - 1) :
               Addressed(log[j], c) => \E h \in 1..(i - 1) : Stream(c)[h] = log[j]
      BY <1>2, <1>4, <2>1 DEF GivenInv, NoGapOf
    <3>2. \A h \in 1..(i - 1) : Stream(c)'[h] = Stream(c)[h]
      BY <1>2, <1>4, <2>1
    <3> QED
      BY <3>1, <3>2
  <2>2. CASE i = n + 1
    <3>1. k = Len(log)
      BY <1>1, <1>3, <1>4, <1>5, <2>2
    <3>2. \A j \in (joinedAt[c] + 1)..(k - 1) :
            Addressed(log[j], c) => \E h \in DOMAIN Stream(c) : Stream(c)[h] = log[j]
      <4> SUFFICES ASSUME NEW j \in (joinedAt[c] + 1)..(k - 1), Addressed(log[j], c)
                   PROVE  \E h \in DOMAIN Stream(c) : Stream(c)[h] = log[j]
        OBVIOUS
      <4> DEFINE last == Len(log)
                 first == joinedAt[c]
      <4>0. last \in Nat /\ first \in Nat /\ j \in (first + 1)..(last - 1)
        BY <1>2, <3>1
      <4> HIDE DEF last, first
      <4>1. j \in (first + 1)..last /\ j # last
        BY <4>0
      <4> QED
        BY <1>9, <4>1 DEF NothingMissedBy, last, first
    <3>3. (i - 1) = n /\ DOMAIN Stream(c) = 1..(i - 1)
      BY <1>2, <2>2
    <3>4. \A h \in 1..(i - 1) : Stream(c)'[h] = Stream(c)[h]
      BY <1>4, <3>3
    <3>5. \A h \in DOMAIN Stream(c) : Stream(c)[h] # log[k]
      BY <1>1, <3>1 DEF GivenInv
    <3> QED
      BY <1>1, <3>1, <3>2, <3>3, <3>4, <3>5
  <2> QED
    BY <1>7, <2>1, <2>2
<1>11. NothingMissedBy(c)'
  <2> SUFFICES ASSUME NEW k \in (joinedAt[c] + 1)..Len(log), Addressed(log[k], c)
               PROVE  \E i \in DOMAIN Stream(c)' : Stream(c)'[i] = log[k]
    BY <1>1 DEF NothingMissedBy, Addressed
  <2>1. CASE k = Len(log)
    BY <1>1, <1>2, <1>4, <2>1
  <2>2. CASE k # Len(log)
    <3>1. PICK i \in DOMAIN Stream(c) : Stream(c)[i] = log[k]
      BY <1>9, <2>2 DEF NothingMissedBy
    <3> QED
      BY <1>2, <1>4, <3>1
  <2> QED
    BY <2>1, <2>2
<1> QED
  BY <1>1, <1>6, <1>8, <1>10, <1>11 DEF GivenInv
(* Who is still to be given the current message is registered, and since   *)
(* before that message was taken.                                          *)
LEMMA FanoutStep ==
  ASSUME TypeOK, StreamsInv, [Next]_vars
  PROVE  FanoutInv'
<1> USE DEF FanoutInv, StreamsInv
<1>1. CASE HubTake
  <2>1. /\ log' = Append(log, Head(broadcast)) /\ current' = Head(broadcast)
        /\ todo' \subseteq clients
        /\ hub' = IF todo' = {} THEN "select" ELSE "fanout"
        /\ UNCHANGED <<clients, joinedAt>>
    BY <1>1 DEF HubTake
  <2>2. broadcast # <<>> /\ broadcast \in Seq(BroadcastEvent) /\ log \in Seq(BroadcastEvent)
    BY <1>1 DEF HubTake, TypeOK
  <2>3. /\ log' # <<>> /\ Len(log') = Len(log) + 1 /\ current' = log'[Len(log')]
        /\ Len(log) \in Nat
    BY <2>1, <2>2
  <2>4. \A c \in todo' : c \in clients' /\ joinedAt'[c] < Len(log')
    <3> SUFFICES ASSUME NEW c \in todo' PROVE c \in clients' /\ joinedAt'[c] < Len(log')
      OBVIOUS
    <3>1. c \in Clients /\ c \in clients
      BY <2>1 DEF TypeOK
    <3>2. joinedAt[c] <= Len(log) /\ joinedAt[c] \in Nat
      BY <3>1 DEF GivenInv, TypeOK
    <3> QED
      BY <2>1, <2>3, <3>1, <3>2
  <2> QED
    BY <2>1, <2>3, <2>4
<1>2. ASSUME NEW c \in Clients, HubRegister(c) \/ HubUnregister(c) PROVE FanoutInv'
  <2>1. todo = {} /\ todo' = {} /\ hub' = "select"
    BY <1>2 DEF HubRegister, HubUnregister
  <2> QED
    BY <2>1
<1>3. ASSUME NEW c \in Clients, HubSend(c) \/ HubDrop(c) \/ HubPanic(c) PROVE FanoutInv'
  <2>1. /\ hub = "fanout" /\ todo' = todo \ {c} /\ UNCHANGED <<current, log, joinedAt>>
        /\ clients' \in {clients, clients \ {c}}
        /\ todo' # {} => hub' # "select"
    BY <1>3
    DEF HubSend, HubDrop, HubPanic, Reached, history
  <2> QED
    BY <2>1
<1>4. CASE UNCHANGED <<clients, hub, current, todo, log, joinedAt>>
  BY <1>4
<1>5. ASSUME NEW c \in Clients, ReaderStep(c) \/ WriterStep(c) \/ CloseConn(c)
      PROVE  UNCHANGED <<clients, hub, current, todo, log, joinedAt>>
  BY <1>5
  DEF ReaderStep, WriterStep, CloseConn, Connect, HandleReply, Broadcast, ReadError,
      HandleMessageSend, HandleNotice, WriteMessage, WriteError, WriteClose, hubVars, history
<1> QED
  BY <1>1, <1>2, <1>3, <1>4, <1>5 DEF Next, HubStep, vars

(* A step of connection c is none of another connection d.                 *)
LEMMA OthersGiven ==
  ASSUME TypeOK, TypeOK', OrderInv, FanoutInv, NEW c \in Clients, NEW d \in Clients, c # d,
         GivenInv(d), HubStep(c) \/ ReaderStep(c) \/ WriterStep(c) \/ CloseConn(c)
  PROVE  GivenInv(d)'
<1>1. CASE HubStep(c)
  <2>1. /\ UNCHANGED log /\ joinedAt'[d] = joinedAt[d] /\ wire'[d] = wire[d]
        /\ send'[d] = send[d] /\ reader'[d] = reader[d] /\ sendClosed'[d] = sendClosed[d]
        /\ (d \in clients' => d \in clients) /\ (d \in todo <=> d \in todo')
    BY <1>1
    DEF HubStep, HubRegister, HubUnregister, HubSend, HubDrop, HubPanic, Reached, Close,
        clientVars, history, TypeOK
  <2> QED
    BY <2>1, GivenSame
<1>2. CASE ReaderStep(c)
  <2>1. /\ UNCHANGED <<log, joinedAt, wire, sendClosed, clients, todo>>
        /\ send'[d] = send[d] /\ reader'[d] = reader[d]
    BY <1>2
    DEF ReaderStep, Connect, HandleReply, Broadcast, ReadError, HandleMessageSend,
        HandleNotice, QueueEvent, hubVars, history, TypeOK
  <2> QED
    BY <2>1, GivenSame
<1>3. CASE WriterStep(c) \/ CloseConn(c)
  <2>1. /\ UNCHANGED <<log, joinedAt, clients, todo, reader>>
        /\ send'[d] = send[d] /\ wire'[d] = wire[d] /\ sendClosed'[d] = sendClosed[d]
    BY <1>3
    DEF WriterStep, CloseConn, WriteMessage, WriteError, WriteClose, Close, hubVars,
        history, TypeOK
  <2> QED
    BY <2>1, GivenSame
<1> QED
  BY <1>1, <1>2, <1>3

(* The steps of a connection's own goroutines.                             *)
LEMMA OwnGiven ==
  ASSUME TypeOK, TypeOK', OrderInv, FanoutInv, NEW c \in Clients, GivenInv(c),
         ReaderStep(c) \/ WriterStep(c) \/ CloseConn(c)
  PROVE  GivenInv(c)'
<1>1. CASE Connect(c) \/ Broadcast(c) \/ ReadError(c) \/ WriteClose(c) \/ CloseConn(c)
  <2>1. /\ UNCHANGED <<log, joinedAt, wire, send, sendClosed, clients, todo>>
        /\ reader'[c] \in {"idle", "registering"} => reader[c] \in {"idle", "registering"}
    BY <1>1
    DEF Connect, Broadcast, ReadError, WriteClose, CloseConn, hubVars, history, TypeOK
  <2> QED
    BY <2>1, GivenSame
<1>2. CASE HandleReply(c)
  <2>1. Event("reply", c, NoEvent) \in DirectEvent
    BY <1>2, HubAssumption DEF HandleReply, TypeOK, Event, DirectEvent
  <2>2. /\ UNCHANGED <<clients, todo, log, joinedAt, wire, sendClosed>>
        /\ reader'[c] \notin {"idle", "registering"}
    BY <1>2 DEF HandleReply, hubVars, history, TypeOK
  <2> QED
    BY <1>2, <2>1, <2>2, GivenAnswer DEF HandleReply
<1>3. ASSUME NEW chat \in Chats, HandleMessageSend(c, chat) PROVE GivenInv(c)'
  <2>1. Event("ack", c, chat) \in DirectEvent
    BY <1>3, EventTypes DEF HandleMessageSend
  <2>2. /\ UNCHANGED <<clients, todo, log, joinedAt, wire, sendClosed>>
        /\ reader'[c] \notin {"idle", "registering"}
    BY <1>3 DEF HandleMessageSend, hubVars, history, TypeOK
  <2> QED
    BY <1>3, <2>1, <2>2, GivenAnswer DEF HandleMessageSend
<1>4. ASSUME NEW chat \in Chats, HandleNotice(c, chat) PROVE GivenInv(c)'
  <2>1. /\ UNCHANGED <<log, joinedAt, wire, send, sendClosed, clients, todo>>
        /\ reader'[c] \notin {"idle", "registering"}
    BY <1>4 DEF HandleNotice, hubVars, history, TypeOK
  <2> QED
    BY <2>1, GivenSame
<1>5. CASE WriteMessage(c)
  BY <1>5, GivenWrite
<1>6. CASE WriteError(c)
  BY <1>6, GivenForgotten
<1> QED
  BY <1>1, <1>2, <1>3, <1>4, <1>5, <1>6 DEF ReaderStep, WriterStep

(* The steps of Run for a connection.                                      *)
LEMMA HubGiven ==
  ASSUME TypeOK, TypeOK', RegistryMatches, OrderInv, FanoutInv, NEW c \in Clients,
         GivenInv(c), HubStep(c)
  PROVE  GivenInv(c)'
<1>1. CASE HubRegister(c)
  BY <1>1, GivenRegistered
<1>2. CASE HubSend(c)
  BY <1>2, GivenSend
<1>3. CASE HubUnregister(c) \/ HubDrop(c) \/ HubPanic(c)
  <2>1. /\ UNCHANGED <<log, joinedAt, wire, send>>
        /\ reader'[c] \in {"idle", "registering"} => reader[c] \in {"idle", "registering"}
        /\ c \notin clients' \/ sendClosed'[c]
        /\ c \in todo' => c \in todo
    BY <1>3
    DEF HubUnregister, HubDrop, HubPanic, Reached, clientVars, history, TypeOK
  <2> QED
    BY <2>1, GivenSame
<1> QED
  BY <1>1, <1>2, <1>3 DEF HubStep

(* StreamsInv holds in every reachable state.                              *)
LEMMA StreamsInvariant == Spec => []StreamsInv
<1>1. Init => StreamsInv
  BY DEF Init, StreamsInv, FanoutInv, GivenInv, NoGapOf, NothingMissedBy, Stream
<1>2. TypeOK /\ TypeOK' /\ RegistryMatches /\ OrderInv /\ StreamsInv /\ [Next]_vars
      => StreamsInv'
  <2> SUFFICES ASSUME TypeOK, TypeOK', RegistryMatches, OrderInv, StreamsInv, [Next]_vars,
                      NEW d \in Clients
               PROVE  GivenInv(d)'
    BY FanoutStep DEF StreamsInv
  <2>1. FanoutInv /\ GivenInv(d)
    BY DEF StreamsInv
  <2>2. CASE HubTake
    BY <2>1, <2>2, GivenTake
  <2>3. ASSUME NEW c \in Clients,
               HubStep(c) \/ ReaderStep(c) \/ WriterStep(c) \/ CloseConn(c)
        PROVE  GivenInv(d)'
    BY <2>1, <2>3, OthersGiven, OwnGiven, HubGiven
  <2>4. CASE UNCHANGED vars
    BY <2>1, <2>4, GivenSame DEF vars
  <2> QED
    BY <2>2, <2>3, <2>4 DEF Next
<1> QED
  BY <1>1, <1>2, TypeCorrect, RegistryCorrect, OrderInvariant, PTL DEF Spec

(* The broadcast events a connection is given have no gap, for every size  *)
(* of the buffers and any number of connections.                           *)
THEOREM StreamsHaveNoGap == Spec => []NoGap
<1>1. StreamsInv => NoGap
  BY DEF StreamsInv, GivenInv, NoGapOf, NoGap
<1> QED
  BY <1>1, StreamsInvariant, PTL

(* A registered connection that is not closed has been given every message *)
(* since it registered, but the one that is being handed out.              *)
THEOREM StreamsMissNothing == Spec => []NothingMissed
<1>1. TypeOK /\ StreamsInv => NothingMissed
  BY DEF TypeOK, StreamsInv, GivenInv, NothingMissedBy, NothingMissed
<1> QED
  BY <1>1, TypeCorrect, StreamsInvariant, PTL
=============================================================================
