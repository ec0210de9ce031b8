---------------------------- MODULE FanoutProofs ----------------------------
(* That the hub, with its goroutines and channels, implements Fanout.  A   *)
(* broadcast is a publish, the receive of Run a take, a registration a     *)
(* join and a send of Run a give; a connection closes when its channel is  *)
(* closed, and every other step is a stutter.                              *)
EXTENDS HubProofs, SequenceTheorems

(* A connection that is not registered yet has no writePump, and so nobody *)
(* who would close it.                                                     *)
FreshInv ==
  \A c \in Clients : reader[c] \in {"idle", "registering"} =>
    ~sendClosed[c] /\ writer[c] = "idle"

(* No step gives an unregistered connection a writePump or closes it, for  *)
(* Run drops and unregisters registered connections only.                  *)
LEMMA FreshStep ==
  ASSUME TypeOK, RegistryMatches, FanoutInv, FreshInv, [Next]_vars
  PROVE  FreshInv'
<1>1. CASE HubTake
  BY <1>1 DEF HubTake, FreshInv, clientVars
<1>2. ASSUME NEW c \in Clients, HubStep(c) PROVE FreshInv'
  <2>1. CASE HubRegister(c)
    BY <2>1 DEF HubRegister, FreshInv, TypeOK
  <2>2. CASE HubUnregister(c)
    BY <2>2 DEF HubUnregister, Close, FreshInv, TypeOK
  <2>3. CASE HubSend(c)
    BY <2>3 DEF HubSend, FreshInv
  <2>4. CASE HubDrop(c)
    <3>1. reader[c] \notin {"idle", "registering"}
      BY <2>4 DEF HubDrop, Reached, FanoutInv, RegistryMatches, Registered
    <3> QED
      BY <2>4, <3>1 DEF HubDrop, Close, FreshInv, TypeOK
  <2>5. CASE HubPanic(c)
    BY <2>5 DEF HubPanic, FreshInv, clientVars
  <2> QED
    BY <1>2, <2>1, <2>2, <2>3, <2>4, <2>5 DEF HubStep
<1>3. ASSUME NEW c \in Clients, ReaderStep(c) PROVE FreshInv'
  BY <1>3
  DEF ReaderStep, Connect, HandleReply, Broadcast, ReadError, HandleMessageSend,
      HandleNotice, FreshInv, TypeOK
<1>4. ASSUME NEW c \in Clients, WriterStep(c) \/ CloseConn(c) PROVE FreshInv'
  BY <1>4
  DEF WriterStep, CloseConn, WriteMessage, WriteError, WriteClose, Close, FreshInv, TypeOK
<1>5. CASE UNCHANGED vars
  BY <1>5 DEF vars, FreshInv
<1> QED
  BY <1>1, <1>2, <1>3, <1>4, <1>5 DEF Next

(* So it holds in every state of the hub.                                  *)
LEMMA FreshInvariant == Spec => []FreshInv
<1>1. Init => FreshInv
  BY DEF Init, FreshInv
<1>2. StreamsInv => FanoutInv
  BY DEF StreamsInv
<1> QED
  BY <1>1, <1>2, FreshStep, TypeCorrect, RegistryCorrect, StreamsInvariant, PTL DEF Spec

(* All that the steps below are argued from.                               *)
HubInv ==
  /\ TypeOK /\ RegistryMatches /\ MembersInv /\ MembersOnly /\ OrderInv
  /\ StreamsInv /\ FreshInv

-----------------------------------------------------------------------------
(* The state of a connection, as the abstract hub sees it.                 *)
LEMMA StateOf ==
  \A c \in Clients :
    ConnectionState[c] = IF sendClosed[c] THEN "closed"
                         ELSE IF reader[c] \in {"idle", "registering"} THEN "absent"
                         ELSE "open"
BY DEF ConnectionState

(* What the abstract hub calls open is in Run's registry with its channel  *)
(* open.                                                                   *)
LEMMA OpenIsRegistered ==
  ASSUME HubInv, NEW c \in Clients, ConnectionState[c] = "open"
  PROVE  c \in clients /\ ~sendClosed[c]
BY StateOf DEF HubInv, RegistryMatches, TypeOK, ReaderStates, Registered

(* The log is the part of the published messages that is taken.            *)
LEMMA PublishedType ==
  ASSUME TypeOK
  PROVE  /\ log \o broadcast \in Seq(BroadcastEvent)
         /\ Len(log \o broadcast) = Len(log) + Len(broadcast)
         /\ log \in Seq(BroadcastEvent) /\ broadcast \in Seq(BroadcastEvent)
         /\ DOMAIN log = 1..Len(log) /\ Len(log) \in Nat /\ Len(broadcast) \in Nat
         /\ \A k \in DOMAIN log : (log \o broadcast)[k] = log[k] /\ log[k] \in BroadcastEvent
<1>1. log \in Seq(BroadcastEvent) /\ broadcast \in Seq(BroadcastEvent)
  BY DEF TypeOK
<1> QED
  BY <1>1, ConcatProperties

(* Moving the first message of the channel to the log moves nothing.       *)
LEMMA TakeConcat ==
  ASSUME NEW S, NEW s \in Seq(S), NEW t \in Seq(S), t # <<>>
  PROVE  Append(s, Head(t)) \o Tail(t) = s \o t
<1>1. Head(t) \in S /\ Tail(t) \in Seq(S) /\ <<Head(t)>> \in Seq(S)
  OBVIOUS
<1>2. Append(s, Head(t)) = s \o <<Head(t)>> /\ t = <<Head(t)>> \o Tail(t)
  BY <1>1
<1> QED
  BY <1>1, <1>2, ConcatAssociative

(* A send on the channel appends to all that is published.                 *)
LEMMA BroadcastConcat ==
  ASSUME NEW S, NEW s \in Seq(S), NEW t \in Seq(S), NEW e \in S
  PROVE  s \o Append(t, e) = Append(s \o t, e)
<1>1. <<e>> \in Seq(S) /\ s \o t \in Seq(S)
  BY ConcatProperties
<1>2. Append(t, e) = t \o <<e>> /\ Append(s \o t, e) = (s \o t) \o <<e>>
  BY <1>1
<1> QED
  BY <1>1, <1>2, ConcatAssociative

-----------------------------------------------------------------------------
(* What a connection is due, and what it was given, message by message.    *)
LEMMA DueElements ==
  ASSUME HubInv, NEW c \in Clients
  PROVE  \A k : k \in Promise!Due(c) <=>
                  k \in (joinedAt[c] + 1)..Len(log) /\ UserOf[c] \in Members[log[k].chat]
<1>1. /\ joinedAt[c] \in Nat /\ Len(log) \in Nat /\ DOMAIN log = 1..Len(log)
      /\ \A k \in DOMAIN log : (log \o broadcast)[k] = log[k] /\ log[k] \in BroadcastEvent
  BY PublishedType DEF HubInv, TypeOK
<1>2. \A k \in (joinedAt[c] + 1)..Len(log) : k \in DOMAIN log
  BY <1>1
<1>3. \A e \in BroadcastEvent : c \in Audience[e] <=> UserOf[c] \in Members[e.chat]
  BY DEF Audience
<1> QED
  BY <1>1, <1>2, <1>3 DEF Promise!Due

(* A message is given when it is in the stream, written or buffered.       *)
LEMMA GivenElements ==
  ASSUME NEW c \in Clients
  PROVE  \A k : k \in Given(c) <=>
                  k \in DOMAIN log /\ \E i \in DOMAIN Stream(c) : Stream(c)[i] = log[k]
BY DEF Given

(* Nothing is given that is not due.                                       *)
LEMMA GivenWasDue ==
  ASSUME HubInv, NEW c \in Clients, NEW k \in Given(c)
  PROVE  k \in Promise!Due(c)
<1>1. PICK i \in DOMAIN Stream(c) : k \in DOMAIN log /\ Stream(c)[i] = log[k]
  BY GivenElements
<1>2. IsBroadcast(Stream(c)[i])
  BY <1>1, LogIsUnique DEF HubInv
<1>3. UserOf[c] \in Members[log[k].chat]
  BY <1>1, <1>2 DEF HubInv, MembersOnly
<1>4. k > joinedAt[c]
  BY <1>1 DEF HubInv, StreamsInv, GivenInv, NoGapOf
<1>5. joinedAt[c] \in Nat /\ DOMAIN log = 1..Len(log) /\ Len(log) \in Nat
  BY PublishedType DEF HubInv, TypeOK
<1>6. k \in (joinedAt[c] + 1)..Len(log)
  BY <1>1, <1>4, <1>5
<1> QED
  BY <1>3, <1>6, DueElements

(* All that is due to an open connection was given to it, but the message  *)
(* that is being handed out.                                               *)
LEMMA DueIsGiven ==
  ASSUME HubInv, NEW c \in Clients, ConnectionState[c] = "open",
         NEW k \in Promise!Due(c)
  PROVE  k \in Given(c) \/ (c \in todo /\ k = Len(log))
<1>1. k \in (joinedAt[c] + 1)..Len(log) /\ UserOf[c] \in Members[log[k].chat]
  BY DueElements
<1>2. NothingMissedBy(c)
  BY OpenIsRegistered DEF HubInv, StreamsInv, GivenInv
<1>3. Addressed(log[k], c)
  BY <1>1 DEF Addressed
<1>4. \/ \E i \in DOMAIN Stream(c) : Stream(c)[i] = log[k]
      \/ c \in todo /\ k = Len(log)
  BY <1>1, <1>2, <1>3 DEF NothingMissedBy
<1>5. joinedAt[c] \in Nat /\ DOMAIN log = 1..Len(log) /\ Len(log) \in Nat
  BY PublishedType DEF HubInv, TypeOK
<1>6. k \in DOMAIN log
  BY <1>1, <1>5
<1> QED
  BY <1>4, <1>6, GivenElements

(* When the hub is in its select, nobody waits for a message.              *)
LEMMA AllGiven ==
  ASSUME HubInv, hub = "select", NEW c \in Clients, ConnectionState[c] = "open"
  PROVE  Given(c) = Promise!Due(c)
<1>1. todo = {}
  BY DEF HubInv, StreamsInv, FanoutInv
<1> QED
  BY <1>1, GivenWasDue, DueIsGiven

-----------------------------------------------------------------------------
(* What a step that touches neither the log nor a stream's broadcast       *)
(* events leaves alone.                                                    *)
LEMMA SameGiven ==
  ASSUME HubInv, log' = log, NEW c \in Clients,
         \A i \in DOMAIN Stream(c) :
           i \in DOMAIN Stream(c)' /\ Stream(c)'[i] = Stream(c)[i],
         \A i \in DOMAIN Stream(c)' : i \notin DOMAIN Stream(c) => ~IsBroadcast(Stream(c)'[i])
  PROVE  Given(c)' = Given(c)
<1>1. \A k \in DOMAIN log : IsBroadcast(log[k])
  BY LogIsUnique DEF HubInv
<1>2. \A k : k \in Given(c)' <=>
               k \in DOMAIN log /\ \E i \in DOMAIN Stream(c)' : Stream(c)'[i] = log[k]
  BY DEF Given
<1> QED
  BY <1>1, <1>2, GivenElements

(* A step that the abstract hub does not see.                              *)
LEMMA Unseen ==
  ASSUME HubInv, UNCHANGED <<log, broadcast, joinedAt, sendClosed>>,
         \A c \in Clients :
           /\ reader'[c] \in {"idle", "registering"} <=> reader[c] \in {"idle", "registering"}
           /\ Given(c)' = Given(c)
  PROVE  UNCHANGED Promise!vars
<1>1. ConnectionState' = ConnectionState
  BY DEF ConnectionState
<1> QED
  BY <1>1 DEF Promise!vars

-----------------------------------------------------------------------------
(* The steps of Run.                                                       *)
LEMMA TakeMaps ==
  ASSUME HubInv, HubTake
  PROVE  Promise!Take
<1>1. /\ hub = "select" /\ broadcast # <<>> /\ broadcast' = Tail(broadcast)
      /\ log' = Append(log, Head(broadcast))
      /\ UNCHANGED <<reader, sendClosed, wire, send, joinedAt>>
  BY DEF HubTake, clientVars
<1>2. /\ Len(log) \in Nat /\ Len(broadcast) \in Nat /\ Len(broadcast) > 0
      /\ log \in Seq(BroadcastEvent) /\ broadcast \in Seq(BroadcastEvent)
      /\ Head(broadcast) \in BroadcastEvent
      /\ Len(log \o broadcast) = Len(log) + Len(broadcast)
      /\ DOMAIN log = 1..Len(log)
  BY <1>1, PublishedType DEF HubInv
<1>3. (log \o broadcast)' = log \o broadcast
  BY <1>1, <1>2, TakeConcat
<1>4. Len(log)' = Len(log) + 1 /\ Len(log) < Len(log \o broadcast)
  BY <1>1, <1>2
<1>5. ConnectionState' = ConnectionState
  BY <1>1 DEF ConnectionState
<1>6. \A c \in Clients : Given(c)' = Given(c)
  <2> SUFFICES ASSUME NEW c \in Clients PROVE Given(c)' = Given(c)
    OBVIOUS
  <2>1. Stream(c)' = Stream(c)
    BY <1>1 DEF Stream
  <2>2. /\ DOMAIN log' = 1..(Len(log) + 1)
        /\ \A k \in DOMAIN log : log'[k] = log[k]
        /\ log'[Len(log) + 1] = Head(broadcast)
    BY <1>1, <1>2
  <2>3. \A i \in DOMAIN Stream(c) : Stream(c)[i] # Head(broadcast)
    <3>1. \A k \in DOMAIN log : log[k] # Head(broadcast)
      BY <1>1, HeadIsNew DEF HubInv
    <3>2. IsBroadcast(Head(broadcast))
      BY <1>2 DEF IsBroadcast, BroadcastEvent
    <3> QED
      BY <3>1, <3>2 DEF HubInv, StreamsInv, GivenInv
  <2>4. \A k : k \in DOMAIN log' <=> k \in DOMAIN log \/ k = Len(log) + 1
    BY <1>2, <2>2
  <2>5. \A k : k \in Given(c)' <=>
                 k \in DOMAIN log' /\ \E i \in DOMAIN Stream(c)' : Stream(c)'[i] = log'[k]
    BY DEF Given
  <2>6. \A k : k \in Given(c)' <=>
                 k \in DOMAIN log /\ \E i \in DOMAIN Stream(c) : Stream(c)[i] = log[k]
    BY <2>1, <2>2, <2>3, <2>4, <2>5
  <2> QED
    BY <2>6, GivenElements
<1>7. \A c \in Clients : ConnectionState[c] = "open" => Given(c) = Promise!Due(c)
  BY <1>1, AllGiven
<1> QED
  BY <1>1, <1>3, <1>4, <1>5, <1>6, <1>7 DEF Promise!Take

(* A registration is a join at the end of the log.                         *)
LEMMA RegisterMaps ==
  ASSUME HubInv, NEW c \in Clients, HubRegister(c)
  PROVE  Promise!Join(c)
<1>1. /\ hub = "select" /\ reader[c] = "registering"
      /\ reader' = [reader EXCEPT ![c] = "reading"]
      /\ joinedAt' = [joinedAt EXCEPT ![c] = Len(log)]
      /\ UNCHANGED <<broadcast, send, sendClosed, log, wire>>
  BY DEF HubRegister
<1>2. ~sendClosed[c]
  BY <1>1 DEF HubInv, FreshInv
<1>3. ConnectionState[c] = "absent"
  BY <1>1, <1>2, StateOf
<1>4. ConnectionState' = [ConnectionState EXCEPT ![c] = "open"]
  <2>1. reader'[c] = "reading" /\ \A d \in Clients : d # c => reader'[d] = reader[d]
    BY <1>1 DEF HubInv, TypeOK
  <2> QED
    BY <1>1, <1>2, <2>1 DEF ConnectionState
<1>5. \A d \in Clients : Given(d)' = Given(d)
  BY <1>1 DEF Given, Stream
<1>6. \A d \in Clients : ConnectionState[d] = "open" => Given(d) = Promise!Due(d)
  BY <1>1, AllGiven
<1> QED
  BY <1>1, <1>3, <1>4, <1>5, <1>6 DEF Promise!Join

(* A send of Run gives the message that is the first the connection lacks: *)
(* the hub is fanning out the last of the log and all before it was given. *)
LEMMA SendMaps ==
  ASSUME HubInv, NEW c \in Clients, HubSend(c)
  PROVE  Promise!Give(c)
<1> DEFINE last == Len(log)
<1>1. /\ hub = "fanout" /\ c \in todo /\ c \in clients /\ ~sendClosed[c]
      /\ joinedAt[c] < Len(log) /\ current = log[Len(log)] /\ log # <<>>
      /\ send' = [send EXCEPT ![c] = Append(send[c], current)]
      /\ UNCHANGED <<broadcast, reader, sendClosed, log, joinedAt, wire>>
  BY DEF HubSend, Reached, HubInv, StreamsInv, FanoutInv, history
<1>2. ConnectionState[c] = "open"
  <2>1. reader[c] \in Registered
    BY <1>1 DEF HubInv, RegistryMatches
  <2> QED
    BY <1>1, <2>1, StateOf DEF Registered
<1>3. joinedAt[c] \in Nat /\ DOMAIN log = 1..last /\ last \in Nat /\ last \in DOMAIN log
  <2>1. joinedAt[c] \in Nat /\ DOMAIN log = 1..last /\ last \in Nat
    BY PublishedType DEF HubInv, TypeOK
  <2> QED
    BY <1>1, <2>1
<1>4. last \in Promise!Due(c)
  <2>1. UserOf[c] \in Members[current.chat]
    BY <1>1 DEF HubInv, MembersInv
  <2>2. last \in (joinedAt[c] + 1)..last
    BY <1>1, <1>3
  <2> QED
    BY <1>1, <2>1, <2>2, DueElements
<1>5. last \notin Given(c)
  BY <1>1, GivenElements DEF HubInv, StreamsInv, GivenInv
<1>6. \A j \in Promise!Due(c) \ Given(c) : j = last
  BY <1>2, DueIsGiven
<1>7. Given(c)' = Given(c) \cup {last}
  <2>1. wire[c] \in Seq(Events) /\ send[c] \in Seq(Events) /\ current \in Events
    BY <1>1, <1>3, StreamType DEF HubInv, Events
  <2>2. Stream(c) = wire[c] \o send[c] /\ Stream(c)' = wire[c] \o Append(send[c], current)
    BY <1>1 DEF Stream, HubInv, TypeOK
  <2>3. /\ DOMAIN Stream(c) = 1..Len(Stream(c)) /\ Len(Stream(c)) \in Nat
        /\ DOMAIN Stream(c)' = 1..(Len(Stream(c)) + 1)
        /\ \A i \in 1..Len(Stream(c)) : Stream(c)'[i] = Stream(c)[i]
        /\ Stream(c)'[Len(Stream(c)) + 1] = current
    <3> DEFINE w == wire[c]
               q == send[c]
    <3>1. w \in Seq(Events) /\ q \in Seq(Events) /\ current \in Events
      BY <2>1
    <3>2. Stream(c) = w \o q /\ Stream(c)' = w \o Append(q, current)
      BY <2>2
    <3> HIDE DEF w, q
    <3>3. /\ DOMAIN (w \o q) = 1..Len(w \o q) /\ Len(w \o q) \in Nat
          /\ DOMAIN (w \o Append(q, current)) = 1..(Len(w \o q) + 1)
          /\ \A i \in 1..Len(w \o q) : (w \o Append(q, current))[i] = (w \o q)[i]
          /\ (w \o Append(q, current))[Len(w \o q) + 1] = current
      BY <3>1, StreamAppend
    <3> QED
      BY <3>2, <3>3
  <2>4. \A i : i \in DOMAIN Stream(c)' <=> i \in DOMAIN Stream(c) \/ i = Len(Stream(c)) + 1
    BY <2>3
  <2>5. \A k \in DOMAIN log : log[k] = current <=> k = last
    BY <1>1, <1>3, LogIsUnique DEF HubInv
  <2>6. \A k : k \in Given(c)' <=>
                 k \in DOMAIN log /\ \E i \in DOMAIN Stream(c)' : Stream(c)'[i] = log[k]
    BY <1>1 DEF Given
  <2>7. \A k \in DOMAIN log :
          (\E i \in DOMAIN Stream(c)' : Stream(c)'[i] = log[k]) <=>
            (\E i \in DOMAIN Stream(c) : Stream(c)[i] = log[k]) \/ k = last
    BY <2>3, <2>4, <2>5
  <2> QED
    BY <1>3, <2>6, <2>7, GivenElements
<1>8. \A d \in Clients : d # c => Given(d)' = Given(d)
  BY <1>1 DEF Given, Stream, HubInv, TypeOK
<1>9. ConnectionState' = ConnectionState
  BY <1>1 DEF ConnectionState
<1> DEFINE given == [d \in Clients |-> Given(d)]
<1>10. given' = [given EXCEPT ![c] = @ \cup {last}]
  BY <1>7, <1>8
<1> HIDE DEF last
<1>11. \E k \in Promise!Due(c) \ given[c] :
         /\ \A j \in Promise!Due(c) \ given[c] : k <= j
         /\ given' = [given EXCEPT ![c] = @ \cup {k}]
  <2>1. last <= last
    BY <1>3
  <2> QED
    BY <1>4, <1>5, <1>6, <1>10, <2>1
<1> QED
  BY <1>1, <1>2, <1>9, <1>11 DEF Promise!Give

(* A connection that is closed with all that was queued for it.            *)
LEMMA CloseMaps ==
  ASSUME HubInv, NEW c \in Clients, ConnectionState[c] = "open", Close(c),
         UNCHANGED <<broadcast, log, joinedAt, wire, send>>,
         \A d \in Clients : d # c => reader'[d] = reader[d]
  PROVE  Promise!Close(c)
<1>1. ConnectionState' = [ConnectionState EXCEPT ![c] = "closed"]
  <2>1. sendClosed' = [sendClosed EXCEPT ![c] = TRUE] /\ sendClosed \in [Clients -> BOOLEAN]
    BY DEF Close, HubInv, TypeOK
  <2> QED
    BY <2>1 DEF ConnectionState
<1>2. \A d \in Clients : Given(d)' = Given(d)
  BY DEF Given, Stream
<1> DEFINE given == [d \in Clients |-> Given(d)]
<1>3. given' = [given EXCEPT ![c] = Given(c)]
  BY <1>2
<1>4. Given(c) \in Promise!Parts(c)
  BY DEF Promise!Parts
<1> QED
  BY <1>1, <1>3, <1>4 DEF Promise!Close

(* A drop of Run closes; the stream stays as it is.                        *)
LEMMA DropMaps ==
  ASSUME HubInv, NEW c \in Clients, HubDrop(c)
  PROVE  Promise!Close(c)
<1>1. c \in todo /\ ~sendClosed[c] /\ c \in clients
  BY DEF HubDrop, Reached, HubInv, StreamsInv, FanoutInv
<1>2. reader[c] \in Registered
  BY <1>1 DEF HubInv, RegistryMatches
<1>3. ConnectionState[c] = "open"
  BY <1>1, <1>2, StateOf DEF Registered
<1> QED
  BY <1>3, CloseMaps DEF HubDrop, history

(* A connection that the hub has dropped, or that its own writePump has    *)
(* closed, is closed already.                                              *)
LEMMA UnregisterMaps ==
  ASSUME HubInv, NEW c \in Clients, HubUnregister(c)
  PROVE  Promise!Close(c) \/ UNCHANGED Promise!vars
<1>1. /\ reader[c] = "unregistering" /\ reader' = [reader EXCEPT ![c] = "gone"]
      /\ c \in clients => Close(c)
      /\ c \notin clients => sendClosed' = sendClosed
      /\ UNCHANGED <<broadcast, log, joinedAt, wire, send>>
  BY DEF HubUnregister, history
<1>2. c \notin clients => sendClosed[c]
  BY <1>1 DEF HubInv, RegistryMatches, Registered
<1>3. CASE ~sendClosed[c]
  <2>1. ConnectionState[c] = "open"
    BY <1>1, <1>3, StateOf
  <2> QED
    BY <1>1, <1>2, <1>3, <2>1, CloseMaps
<1>4. CASE sendClosed[c]
  <2>1. sendClosed' = sendClosed
    BY <1>1, <1>4 DEF Close, HubInv, TypeOK
  <2>2. \A d \in Clients :
          /\ reader'[d] \in {"idle", "registering"} <=> reader[d] \in {"idle", "registering"}
          /\ Given(d)' = Given(d)
    BY <1>1 DEF Given, Stream, HubInv, TypeOK
  <2> QED
    BY <1>1, <2>1, <2>2, Unseen
<1> QED
  BY <1>3, <1>4

-----------------------------------------------------------------------------
(* The steps of a connection's goroutines.                                 *)
LEMMA BroadcastMaps ==
  ASSUME HubInv, NEW c \in Clients, Broadcast(c)
  PROVE  \E e \in BroadcastEvent : Promise!Publish(e)
<1>1. /\ reader[c] = "broadcasting" /\ pending[c] \in BroadcastEvent
      /\ broadcast' = Append(broadcast, pending[c])
      /\ reader' = [reader EXCEPT ![c] = "reading"]
      /\ UNCHANGED <<log, joinedAt, wire, send, sendClosed>>
  BY DEF Broadcast, HubInv, TypeOK, hubVars, history
<1>2. (log \o broadcast)' = Append(log \o broadcast, pending[c])
  BY <1>1, PublishedType, BroadcastConcat DEF HubInv
<1>3. ConnectionState' = ConnectionState
  BY <1>1 DEF ConnectionState, HubInv, TypeOK
<1>4. \A d \in Clients : Given(d)' = Given(d)
  BY <1>1 DEF Given, Stream
<1> QED
  BY <1>1, <1>2, <1>3, <1>4 DEF Promise!Publish

(* What is left of a stream when its buffer is forgotten: what was written *)
(* is the first part of it.                                                *)
LEMMA ForgottenParts ==
  ASSUME HubInv, NEW c \in Clients, WriteError(c)
  PROVE  Given(c)' \in Promise!Parts(c)
<1>1. /\ wire'[c] = wire[c] /\ send'[c] = <<>> /\ log' = log
  BY DEF WriteError, HubInv, TypeOK, hubVars, history
<1>2. /\ \A i : i \in DOMAIN Stream(c)' <=> i \in DOMAIN wire[c]
      /\ \A i \in DOMAIN wire[c] : Stream(c)'[i] = wire[c][i]
      /\ \A i \in DOMAIN wire[c] : i \in DOMAIN Stream(c) /\ Stream(c)[i] = wire[c][i]
      /\ \A i \in DOMAIN wire[c] : \A h \in 1..(i - 1) : h \in DOMAIN wire[c]
  <2> DEFINE w == wire[c]
             q == send[c]
  <2>1. w \in Seq(Events) /\ q \in Seq(Events)
    BY StreamType DEF HubInv
  <2>2. Stream(c) = w \o q /\ Stream(c)' = w \o <<>>
    BY <1>1 DEF Stream
  <2> HIDE DEF w, q
  <2>3. w \o <<>> = w /\ DOMAIN w = 1..Len(w) /\ Len(w) \in Nat /\ Len(q) \in Nat
    BY <2>1
  <2>4. /\ DOMAIN (w \o q) = 1..(Len(w) + Len(q))
        /\ \A i \in 1..(Len(w) + Len(q)) :
             (w \o q)[i] = IF i <= Len(w) THEN w[i] ELSE q[i - Len(w)]
    BY <2>1, StreamElements
  <2>5. \A i \in DOMAIN w : i \in DOMAIN (w \o q) /\ (w \o q)[i] = w[i]
    BY <2>3, <2>4
  <2>6. \A i \in DOMAIN w : \A h \in 1..(i - 1) : h \in DOMAIN w
    BY <2>3
  <2> QED
    BY <2>2, <2>3, <2>5, <2>6 DEF w
<1>3. \A k : k \in Given(c)' <=>
               k \in DOMAIN log /\ \E i \in DOMAIN wire[c] : wire[c][i] = log[k]
  <2>1. \A k : k \in Given(c)' <=>
                 k \in DOMAIN log /\ \E i \in DOMAIN Stream(c)' : Stream(c)'[i] = log[k]
    BY <1>1 DEF Given
  <2> QED
    BY <1>2, <2>1
<1>4. Given(c)' \subseteq Given(c)
  BY <1>2, <1>3, GivenElements
<1>5. ASSUME NEW k \in Given(c)', NEW j \in Given(c), j <= k
      PROVE  j \in Given(c)'
  <2>1. PICK i \in DOMAIN wire[c] : k \in DOMAIN log /\ wire[c][i] = log[k]
    BY <1>3, <1>5
  <2>2. i \in DOMAIN Stream(c) /\ Stream(c)[i] = log[k]
    BY <1>2, <2>1
  <2>3. \A l \in (joinedAt[c] + 1)..(k - 1) :
          Addressed(log[l], c) => \E h \in 1..(i - 1) : Stream(c)[h] = log[l]
    BY <2>1, <2>2 DEF HubInv, StreamsInv, GivenInv, NoGapOf
  <2>4. j \in (joinedAt[c] + 1)..Len(log) /\ Addressed(log[j], c) /\ j \in DOMAIN log
    BY <1>5, GivenWasDue, DueElements, GivenElements DEF Addressed
  <2>5. CASE j = k
    BY <1>5, <2>5
  <2>6. CASE j # k
    <3>1. j \in (joinedAt[c] + 1)..(k - 1)
      <4>1. joinedAt[c] \in Nat /\ Len(log) \in Nat /\ k \in Nat
        BY <2>1, PublishedType DEF HubInv, TypeOK
      <4> QED
        BY <1>5, <2>4, <2>6, <4>1
    <3>2. PICK h \in 1..(i - 1) : Stream(c)[h] = log[j]
      BY <2>3, <2>4, <3>1
    <3>3. h \in DOMAIN wire[c] /\ wire[c][h] = log[j]
      BY <1>2, <2>1, <3>2
    <3> QED
      BY <1>3, <2>4, <3>3
  <2> QED
    BY <2>5, <2>6
<1> QED
  BY <1>4, <1>5 DEF Promise!Parts

(* A failed write closes the connection, or ends a closed one, and leaves  *)
(* of the stream what was written.                                         *)
LEMMA WriteErrorMaps ==
  ASSUME HubInv, NEW c \in Clients, WriteError(c)
  PROVE  Promise!Close(c) \/ Promise!Lose(c)
<1>1. /\ writer[c] = "running" /\ sendClosed' = [sendClosed EXCEPT ![c] = TRUE]
      /\ send' = [send EXCEPT ![c] = <<>>]
      /\ UNCHANGED <<broadcast, reader, log, joinedAt, wire>>
  BY DEF WriteError, Close, hubVars, history
<1>2. reader[c] \notin {"idle", "registering"}
  BY <1>1 DEF HubInv, FreshInv
<1>3. \A d \in Clients : d # c => Given(d)' = Given(d)
  BY <1>1 DEF Given, Stream, HubInv, TypeOK
<1> DEFINE given == [d \in Clients |-> Given(d)]
<1>4. given' = [given EXCEPT ![c] = Given(c)']
  BY <1>3
<1>5. \E part \in Promise!Parts(c) : given' = [given EXCEPT ![c] = part]
  BY <1>4, ForgottenParts
<1>6. CASE ~sendClosed[c]
  <2>1. ConnectionState[c] = "open"
    BY <1>2, <1>6, StateOf
  <2>2. ConnectionState' = [ConnectionState EXCEPT ![c] = "closed"]
    BY <1>1 DEF ConnectionState, HubInv, TypeOK
  <2> QED
    BY <1>1, <1>5, <2>1, <2>2 DEF Promise!Close
<1>7. CASE sendClosed[c]
  <2>1. ConnectionState[c] = "closed"
    BY <1>7, StateOf
  <2>2. ConnectionState' = ConnectionState
    BY <1>1, <1>7 DEF ConnectionState, HubInv, TypeOK
  <2> QED
    BY <1>1, <1>5, <2>1, <2>2 DEF Promise!Lose
<1> QED
  BY <1>6, <1>7

(* An answer in the buffer, a message moved from the buffer to the wire.   *)
LEMMA AnswerUnseen ==
  ASSUME HubInv, NEW c \in Clients, NEW e \in DirectEvent, QueueEvent(c, e),
         UNCHANGED <<log, wire>>
  PROVE  \A d \in Clients : Given(d)' = Given(d)
<1> SUFFICES ASSUME NEW d \in Clients PROVE Given(d)' = Given(d)
  OBVIOUS
<1>1. ~IsBroadcast(e) /\ e \in Events
  BY DEF IsBroadcast, DirectEvent, Events
<1>2. send'[d] = send[d] \/ send'[d] = Append(send[d], e)
  BY DEF QueueEvent, HubInv, TypeOK
<1>3. CASE send'[d] = send[d]
  BY <1>3 DEF Given, Stream
<1>4. CASE send'[d] = Append(send[d], e)
  <2> DEFINE w == wire[d]
             q == send[d]
  <2>1. w \in Seq(Events) /\ q \in Seq(Events)
    BY StreamType DEF HubInv
  <2>2. Stream(d) = w \o q /\ Stream(d)' = w \o Append(q, e)
    BY <1>4 DEF Stream
  <2> HIDE DEF w, q
  <2>3. /\ DOMAIN (w \o q) = 1..Len(w \o q) /\ Len(w \o q) \in Nat
        /\ DOMAIN (w \o Append(q, e)) = 1..(Len(w \o q) + 1)
        /\ \A i \in 1..Len(w \o q) : (w \o Append(q, e))[i] = (w \o q)[i]
        /\ (w \o Append(q, e))[Len(w \o q) + 1] = e
    BY <1>1, <2>1, StreamAppend
  <2>4. /\ \A i \in DOMAIN (w \o q) :
             i \in DOMAIN (w \o Append(q, e)) /\ (w \o Append(q, e))[i] = (w \o q)[i]
        /\ \A i \in DOMAIN (w \o Append(q, e)) :
             i \notin DOMAIN (w \o q) => (w \o Append(q, e))[i] = e
    BY <2>3
  <2> QED
    BY <1>1, <2>2, <2>4, SameGiven
<1> QED
  BY <1>2, <1>3, <1>4

(* A write moves a message within the stream.                              *)
LEMMA WriteUnseen ==
  ASSUME HubInv, NEW c \in Clients, WriteMessage(c)
  PROVE  \A d \in Clients : Given(d)' = Given(d)
<1> SUFFICES ASSUME NEW d \in Clients PROVE Given(d)' = Given(d)
  OBVIOUS
<1>1. /\ wire' = [wire EXCEPT ![c] = Append(@, Head(send[c]))]
      /\ send' = [send EXCEPT ![c] = Tail(@)] /\ send[c] # <<>> /\ log' = log
  BY DEF WriteMessage
<1>2. CASE d # c
  BY <1>1, <1>2 DEF Given, Stream, HubInv, TypeOK
<1>3. CASE d = c
  <2>1. wire[c] \in Seq(Events) /\ send[c] \in Seq(Events)
    BY StreamType DEF HubInv
  <2>2. /\ Stream(c) = wire[c] \o send[c]
        /\ Stream(c)' = Append(wire[c], Head(send[c])) \o Tail(send[c])
    BY <1>1 DEF Stream, HubInv, TypeOK
  <2>3. Stream(c)' = Stream(c)
    BY <1>1, <2>1, <2>2, TakeConcat
  <2> QED
    BY <1>1, <1>3, <2>3 DEF Given
<1> QED
  BY <1>2, <1>3

(* Every step of the goroutines of a connection.                           *)
LEMMA ConnectionMaps ==
  ASSUME HubInv, NEW c \in Clients, ReaderStep(c) \/ WriterStep(c) \/ CloseConn(c)
  PROVE  [Promise!Next]_(Promise!vars)
<1>1. CASE Broadcast(c)
  BY <1>1, BroadcastMaps DEF Promise!Next
<1>2. CASE WriteError(c)
  BY <1>2, WriteErrorMaps DEF Promise!Next
<1>3. CASE WriteMessage(c)
  <2>1. UNCHANGED <<log, broadcast, joinedAt, sendClosed, reader>>
    BY <1>3 DEF WriteMessage, hubVars
  <2> QED
    BY <1>3, <2>1, WriteUnseen, Unseen
<1>4. CASE Connect(c) \/ ReadError(c) \/ WriteClose(c) \/ CloseConn(c)
  <2>1. /\ UNCHANGED <<log, broadcast, joinedAt, sendClosed, wire, send>>
        /\ \A d \in Clients :
             reader'[d] \in {"idle", "registering"} <=> reader[d] \in {"idle", "registering"}
    BY <1>4
    DEF Connect, ReadError, WriteClose, CloseConn, HubInv, TypeOK, hubVars, history
  <2>2. \A d \in Clients : Given(d)' = Given(d)
    BY <2>1 DEF Given, Stream
  <2> QED
    BY <2>1, <2>2, Unseen
<1>5. ASSUME HandleReply(c) \/ \E chat \in Chats : HandleMessageSend(c, chat) \/ HandleNotice(c, chat)
      PROVE  /\ UNCHANGED <<log, broadcast, joinedAt, sendClosed, wire>>
             /\ \A d \in Clients :
                  reader'[d] \in {"idle", "registering"} <=>
                    reader[d] \in {"idle", "registering"}
  BY <1>5
  DEF HandleReply, HandleMessageSend, HandleNotice, HubInv, TypeOK, hubVars, history
<1>6. CASE HandleReply(c)
  <2>1. Event("reply", c, NoEvent) \in DirectEvent
    BY <1>6, HubAssumption DEF HandleReply, HubInv, TypeOK, Event, DirectEvent
  <2> QED
    BY <1>5, <1>6, <2>1, AnswerUnseen, Unseen DEF HandleReply
<1>7. ASSUME NEW chat \in Chats, HandleMessageSend(c, chat)
      PROVE  [Promise!Next]_(Promise!vars)
  <2>1. Event("ack", c, chat) \in DirectEvent
    BY <1>7, EventTypes DEF HandleMessageSend, HubInv
  <2> QED
    BY <1>5, <1>7, <2>1, AnswerUnseen, Unseen DEF HandleMessageSend
<1>8. ASSUME NEW chat \in Chats, HandleNotice(c, chat)
      PROVE  [Promise!Next]_(Promise!vars)
  <2>1. \A d \in Clients : Given(d)' = Given(d)
    BY <1>8 DEF HandleNotice, Given, Stream, history
  <2> QED
    BY <1>5, <1>8, <2>1, Unseen
<1> QED
  BY <1>1, <1>2, <1>3, <1>4, <1>6, <1>7, <1>8 DEF ReaderStep, WriterStep

-----------------------------------------------------------------------------
(* The refinement of the initial states and of the steps.                  *)
LEMMA InitMaps == Init => Promise!Init
<1> SUFFICES ASSUME Init PROVE Promise!Init
  OBVIOUS
<1>1. log \o broadcast = <<>> /\ Len(log) = 0
  BY DEF Init
<1>2. ConnectionState = [c \in Clients |-> "absent"]
  BY DEF Init, ConnectionState
<1>3. DOMAIN log = {}
  BY DEF Init
<1>4. \A c \in Clients : Given(c) = {}
  BY <1>3 DEF Given
<1> QED
  BY <1>1, <1>2, <1>4 DEF Init, Promise!Init

(* Each step of the hub is one of Fanout, or a stutter.                    *)
LEMMA NextMaps == HubInv /\ [Next]_vars => [Promise!Next]_(Promise!vars)
<1> SUFFICES ASSUME HubInv, [Next]_vars PROVE [Promise!Next]_(Promise!vars)
  OBVIOUS
<1>1. CASE HubTake
  BY <1>1, TakeMaps DEF Promise!Next
<1>2. ASSUME NEW c \in Clients, HubStep(c) PROVE [Promise!Next]_(Promise!vars)
  <2>1. CASE HubRegister(c)
    BY <2>1, RegisterMaps DEF Promise!Next
  <2>2. CASE HubUnregister(c)
    BY <2>2, UnregisterMaps DEF Promise!Next
  <2>3. CASE HubSend(c)
    BY <2>3, SendMaps DEF Promise!Next
  <2>4. CASE HubDrop(c)
    BY <2>4, DropMaps DEF Promise!Next
  <2>5. CASE HubPanic(c)
    <3>1. UNCHANGED <<log, broadcast, joinedAt, sendClosed, reader, wire, send>>
      BY <2>5 DEF HubPanic, clientVars, history
    <3>2. \A d \in Clients : Given(d)' = Given(d)
      BY <3>1 DEF Given, Stream
    <3> QED
      BY <3>1, <3>2, Unseen
  <2> QED
    BY <1>2, <2>1, <2>2, <2>3, <2>4, <2>5 DEF HubStep
<1>3. ASSUME NEW c \in Clients, ReaderStep(c) \/ WriterStep(c) \/ CloseConn(c)
      PROVE  [Promise!Next]_(Promise!vars)
  BY <1>3, ConnectionMaps
<1>4. CASE UNCHANGED vars
  <2>1. UNCHANGED <<log, broadcast, joinedAt, sendClosed, reader, wire, send>>
    BY <1>4 DEF vars
  <2>2. \A d \in Clients : Given(d)' = Given(d)
    BY <2>1 DEF Given, Stream
  <2> QED
    BY <2>1, <2>2, Unseen
<1> QED
  BY <1>1, <1>2, <1>3, <1>4 DEF Next

(* The hub, its channels and the goroutines of its connections keep the    *)
(* promise of Fanout, for any number of connections and any capacities.    *)
THEOREM Refinement == Spec => ImplementsFanout
<1>1. TypeOK /\ RegistryMatches /\ MembersInv /\ MembersOnly /\ OrderInv /\ StreamsInv
      /\ FreshInv => HubInv
  BY DEF HubInv
<1> QED
  BY <1>1, InitMaps, NextMaps, TypeCorrect, RegistryCorrect, MembersInvariant, MembersCorrect,
     OrderInvariant, StreamsInvariant, FreshInvariant, PTL
  DEF Spec, ImplementsFanout, Promise!Spec
=============================================================================
