-------------------------------- MODULE Hub --------------------------------
(***************************************************************************)
(* The realtime side of the server: ws.Hub, its one goroutine Run, and the *)
(* two goroutines of every WebSocket connection, readPump and writePump.   *)
(*                                                                         *)
(* A connection is a *Client value; a user may have several.  The hub      *)
(* keeps the set of registered connections and fans every message of the   *)
(* channel hub.broadcast out to those whose user is a recipient.  The      *)
(* chat service, which names the recipients, is here only as the fixed     *)
(* membership of the chats.                                                *)
(*                                                                         *)
(* Not modelled: the ctx.Done() case of Run.  Its context is cancelled     *)
(* only by a deferred call of main, and main leaves through log.Fatalf,    *)
(* which runs no deferred calls.                                           *)
(***************************************************************************)
EXTENDS Naturals, Sequences

CONSTANTS
  Clients,        \* the connections, one *Client each
  Users,
  UserOf,         \* Client.userID
  Chats,
  Members,        \* the users of each chat, as chatRecipients returns them
  SendCap,        \* capacity of Client.send       (256 in the code)
  BroadcastCap,   \* capacity of Hub.broadcast     (256 in the code)
  MaxEvents,      \* bound of the model: events read from all connections
  NoEvent

ASSUME HubAssumption ==
  /\ UserOf \in [Clients -> Users]
  /\ Members \in [Chats -> SUBSET Users]
  /\ SendCap \in Nat \ {0}
  /\ BroadcastCap \in Nat \ {0}
  /\ MaxEvents \in Nat

VARIABLES
  clients,     \* Hub.clients
  broadcast,   \* the buffer of the channel Hub.broadcast
  hub,         \* where Run is: in its select, fanning out, or panicked
  current,     \* the message being fanned out
  todo,        \* the recipients Run has not reached yet
  reader,      \* where the goroutine of Handle and readPump is
  writer,      \* where the goroutine of writePump is
  pending,     \* the message a readPump is putting into hub.broadcast
  send,        \* the buffer of the channel Client.send
  sendClosed,  \* Client.send has been closed
  connOpen,    \* Client.conn has not been closed on this side
  issued,      \* how many events the connections have sent in
  log,         \* history: the messages Run took, in its order
  joinedAt,    \* history: Len(log) when the connection was registered
  wire         \* history: what writePump wrote to the connection

hubVars    == <<clients, hub, current, todo>>
clientVars == <<reader, writer, pending, send, sendClosed, connOpen>>
history    == <<log, joinedAt, wire>>
vars == <<clients, broadcast, hub, current, todo, reader, writer, pending,
          send, sendClosed, connOpen, issued, log, joinedAt, wire>>

(* Direct events answer one connection; broadcast events go through Run.   *)
DirectEvent ==
  [kind : {"ack", "reply"}, from : Clients, n : 1..MaxEvents,
   chat : Chats \cup {NoEvent}]
BroadcastEvent ==
  [kind : {"new", "notice"}, from : Clients, n : 1..MaxEvents, chat : Chats]

ASSUME NoEventAssumption == NoEvent \notin Chats \cup BroadcastEvent

Event(kind, c, chat) ==
  [kind |-> kind, from |-> c, n |-> issued + 1, chat |-> chat]

ReaderStates ==
  {"idle", "registering", "reading", "broadcasting", "unregistering", "gone"}
Registered == {"reading", "broadcasting", "unregistering"}

(* Types, the capacities of the channels, and that a goroutine which is    *)
(* about to hand a message on has one (the buffered channels of NewHub and *)
(* Handle, the blocking send of broadcastEvent).                           *)
TypeOK ==
  /\ clients \subseteq Clients
  /\ broadcast \in Seq(BroadcastEvent) /\ Len(broadcast) <= BroadcastCap
  /\ hub \in {"select", "fanout", "panicked"}
  /\ current \in BroadcastEvent \cup {NoEvent}
  /\ todo \subseteq Clients
  /\ reader \in [Clients -> ReaderStates]
  /\ writer \in [Clients -> {"idle", "running", "gone"}]
  /\ pending \in [Clients -> BroadcastEvent \cup {NoEvent}]
  /\ \A c \in Clients : reader[c] = "broadcasting" => pending[c] # NoEvent
  /\ hub = "fanout" => current # NoEvent
  /\ send \in [Clients -> Seq(DirectEvent \cup BroadcastEvent)]
  /\ \A c \in Clients : Len(send[c]) <= SendCap
  /\ sendClosed \in [Clients -> BOOLEAN]
  /\ connOpen \in [Clients -> BOOLEAN]
  /\ issued \in 0..MaxEvents
  /\ log \in Seq(BroadcastEvent)
  /\ joinedAt \in [Clients -> Nat]
  /\ wire \in [Clients -> Seq(DirectEvent \cup BroadcastEvent)]

Init ==
  /\ clients = {}
  /\ broadcast = <<>>
  /\ hub = "select"
  /\ current = NoEvent
  /\ todo = {}
  /\ reader = [c \in Clients |-> "idle"]
  /\ writer = [c \in Clients |-> "idle"]
  /\ pending = [c \in Clients |-> NoEvent]
  /\ send = [c \in Clients |-> <<>>]
  /\ sendClosed = [c \in Clients |-> FALSE]
  /\ connOpen = [c \in Clients |-> FALSE]
  /\ issued = 0
  /\ log = <<>>
  /\ joinedAt = [c \in Clients |-> 0]
  /\ wire = [c \in Clients |-> <<>>]

(* A panic of Run is recovered by nobody: it ends the process.             *)
Running == hub # "panicked"

-----------------------------------------------------------------------------
(* Mutations.  Each is a definition below with a plausible mistake in it;  *)
(* PROJECT.json names the property that fails when it takes its place.     *)

AddressedAll(e, c) == TRUE

BroadcastFirst(c) ==
  /\ Running /\ reader[c] = "broadcasting" /\ Len(broadcast) < BroadcastCap
  /\ broadcast' = <<pending[c]>> \o broadcast
  /\ pending' = [pending EXCEPT ![c] = NoEvent]
  /\ reader' = [reader EXCEPT ![c] = "reading"]
  /\ UNCHANGED <<hubVars, writer, send, sendClosed, connOpen, issued, history>>

(* A queue without a limit.                                                *)
QueueEventBoundless(c, e) ==
  send' = [send EXCEPT ![c] = IF sendClosed[c] THEN @ ELSE Append(@, e)]

CloseChannelOnly(c) == FALSE

UnregisterKeepOpen(c) ==
  /\ hub = "select" /\ reader[c] = "unregistering"
  /\ reader' = [reader EXCEPT ![c] = "gone"]
  /\ clients' = clients \ {c}
  /\ UNCHANGED <<broadcast, hub, current, todo, writer, pending, send,
                 sendClosed, connOpen, issued, history>>

(* A slow connection misses the message and stays.                         *)
DropMessageOnly(c) ==
  /\ hub = "fanout" /\ c \in todo /\ ~sendClosed[c] /\ Len(send[c]) >= SendCap
  /\ todo' = todo \ {c}
  /\ hub' = IF todo = {c} THEN "select" ELSE "fanout"
  /\ UNCHANGED <<clients, broadcast, current, reader, writer, pending, send,
                 sendClosed, connOpen, issued, history>>

-----------------------------------------------------------------------------
(* Run skips a connection whose user is not in a non-empty recipient set.  *)
Addressed(e, c) == Members[e.chat] # {} => UserOf[c] \in Members[e.chat]

(* close, once per connection: the channel, and in a step of its own       *)
(* (CloseConn) the socket; writePump may still drain the channel between.  *)
Close(c) == sendClosed' = [sendClosed EXCEPT ![c] = TRUE]

(* queueRaw: a full buffer drops the event, a closed channel is recovered. *)
QueueEvent(c, e) ==
  send' = [send EXCEPT ![c] = IF sendClosed[c] \/ Len(@) >= SendCap
                              THEN @ ELSE Append(@, e)]

-----------------------------------------------------------------------------
(* The goroutine of a connection: Handle, then readPump.                   *)

(* The handshake is authenticated and upgraded; Handle blocks on register. *)
Connect(c) ==
  /\ Running /\ reader[c] = "idle"
  /\ reader' = [reader EXCEPT ![c] = "registering"]
  /\ connOpen' = [connOpen EXCEPT ![c] = TRUE]
  /\ UNCHANGED <<hubVars, broadcast, writer, pending, send, sendClosed,
                 issued, history>>

(* message.send committed by the chat service: the acknowledgement is      *)
(* queued and the readPump goes on to hub.broadcast.                       *)
HandleMessageSend(c, chat) ==
  /\ Running /\ reader[c] = "reading" /\ issued < MaxEvents
  /\ UserOf[c] \in Members[chat]
  /\ QueueEvent(c, Event("ack", c, chat))
  /\ pending' = [pending EXCEPT ![c] = Event("new", c, chat)]
  /\ reader' = [reader EXCEPT ![c] = "broadcasting"]
  /\ issued' = issued + 1
  /\ UNCHANGED <<hubVars, broadcast, writer, sendClosed, connOpen, history>>

(* message.read and typing.*: broadcast to the members, no acknowledgement. *)
HandleNotice(c, chat) ==
  /\ Running /\ reader[c] = "reading" /\ issued < MaxEvents
  /\ UserOf[c] \in Members[chat]
  /\ pending' = [pending EXCEPT ![c] = Event("notice", c, chat)]
  /\ reader' = [reader EXCEPT ![c] = "broadcasting"]
  /\ issued' = issued + 1
  /\ UNCHANGED <<hubVars, broadcast, writer, send, sendClosed, connOpen,
                 history>>

(* ping, an event of no known type or no JSON, an error of the service.    *)
HandleReply(c) ==
  /\ Running /\ reader[c] = "reading" /\ issued < MaxEvents
  /\ QueueEvent(c, Event("reply", c, NoEvent))
  /\ issued' = issued + 1
  /\ UNCHANGED <<hubVars, broadcast, reader, writer, pending, sendClosed,
                 connOpen, history>>

(* broadcastEvent: the send on hub.broadcast blocks while it is full.      *)
Broadcast(c) ==
  /\ Running /\ reader[c] = "broadcasting" /\ Len(broadcast) < BroadcastCap
  /\ broadcast' = Append(broadcast, pending[c])
  /\ pending' = [pending EXCEPT ![c] = NoEvent]
  /\ reader' = [reader EXCEPT ![c] = "reading"]
  /\ UNCHANGED <<hubVars, writer, send, sendClosed, connOpen, issued, history>>

(* ReadMessage fails: the peer left, its pong is late, or close() was      *)
(* called here.  The deferred send on hub.unregister follows.              *)
ReadError(c) ==
  /\ Running /\ reader[c] = "reading"
  /\ reader' = [reader EXCEPT ![c] = "unregistering"]
  /\ UNCHANGED <<hubVars, broadcast, writer, pending, send, sendClosed,
                 connOpen, issued, history>>

-----------------------------------------------------------------------------
(* The goroutine of writePump.                                             *)

WriteMessage(c) ==
  /\ Running /\ writer[c] = "running" /\ connOpen[c] /\ send[c] # <<>>
  /\ wire' = [wire EXCEPT ![c] = Append(@, Head(send[c]))]
  /\ send' = [send EXCEPT ![c] = Tail(@)]
  /\ UNCHANGED <<hubVars, broadcast, reader, writer, pending, sendClosed,
                 connOpen, issued, log, joinedAt>>

(* Writing a message or a ping fails: writePump returns and closes the     *)
(* connection, whether or not the hub still has it registered.  Nothing    *)
(* reads c.send after this: what is left in it is forgotten here.          *)
WriteError(c) ==
  /\ Running /\ writer[c] = "running"
  /\ writer' = [writer EXCEPT ![c] = "gone"]
  /\ send' = [send EXCEPT ![c] = <<>>]
  /\ Close(c)
  /\ UNCHANGED <<hubVars, broadcast, reader, pending, connOpen, issued,
                 history>>

(* The channel is closed and drained: the close frame, and writePump ends. *)
WriteClose(c) ==
  /\ Running /\ writer[c] = "running" /\ sendClosed[c] /\ send[c] = <<>>
  /\ writer' = [writer EXCEPT ![c] = "gone"]
  /\ UNCHANGED <<hubVars, broadcast, reader, pending, send, sendClosed,
                 connOpen, issued, history>>

(* The second half of close, by writePump or Run.                          *)
CloseConn(c) ==
  /\ Running /\ sendClosed[c] /\ connOpen[c]
  /\ connOpen' = [connOpen EXCEPT ![c] = FALSE]
  /\ UNCHANGED <<hubVars, broadcast, reader, writer, pending, send, sendClosed,
                 issued, history>>

-----------------------------------------------------------------------------
(* The goroutine of Run.                                                   *)

(* register is unbuffered: Handle goes on in the same step, starting       *)
(* writePump and readPump.                                                 *)
HubRegister(c) ==
  /\ hub = "select" /\ reader[c] = "registering"
  /\ clients' = clients \cup {c}
  /\ reader' = [reader EXCEPT ![c] = "reading"]
  /\ writer' = [writer EXCEPT ![c] = "running"]
  /\ joinedAt' = [joinedAt EXCEPT ![c] = Len(log)]
  /\ UNCHANGED <<broadcast, hub, current, todo, pending, send, sendClosed,
                 connOpen, issued, log, wire>>

(* unregister: a connection that was dropped before is closed already.     *)
HubUnregister(c) ==
  /\ hub = "select" /\ reader[c] = "unregistering"
  /\ reader' = [reader EXCEPT ![c] = "gone"]
  /\ clients' = clients \ {c}
  /\ IF c \in clients THEN Close(c) ELSE UNCHANGED sendClosed
  /\ UNCHANGED <<broadcast, hub, current, todo, writer, pending, send,
                 connOpen, issued, history>>

(* The receive from hub.broadcast; Run has no other way to block.          *)
HubTake ==
  /\ hub = "select" /\ broadcast # <<>>
  /\ broadcast' = Tail(broadcast)
  /\ current' = Head(broadcast)
  /\ log' = Append(log, Head(broadcast))
  /\ todo' = {c \in clients : Addressed(Head(broadcast), c)}
  /\ hub' = IF todo' = {} THEN "select" ELSE "fanout"
  /\ UNCHANGED <<clients, clientVars, issued, joinedAt, wire>>

Reached(c) ==
  /\ hub = "fanout" /\ c \in todo
  /\ todo' = todo \ {c}

HubSend(c) ==
  /\ Reached(c) /\ ~sendClosed[c] /\ Len(send[c]) < SendCap
  /\ send' = [send EXCEPT ![c] = Append(@, current)]
  /\ hub' = IF todo = {c} THEN "select" ELSE "fanout"
  /\ UNCHANGED <<clients, broadcast, current, reader, writer, pending,
                 sendClosed, connOpen, issued, history>>

(* The default case: a connection whose buffer is full is dropped.         *)
HubDrop(c) ==
  /\ Reached(c) /\ ~sendClosed[c] /\ Len(send[c]) >= SendCap
  /\ clients' = clients \ {c}
  /\ Close(c)
  /\ hub' = IF todo = {c} THEN "select" ELSE "fanout"
  /\ UNCHANGED <<broadcast, current, reader, writer, pending, send, connOpen,
                 issued, history>>

(* A send case of a select on a closed channel panics, default or not.     *)
HubPanic(c) ==
  /\ Reached(c) /\ sendClosed[c]
  /\ hub' = "panicked"
  /\ UNCHANGED <<clients, broadcast, current, clientVars, issued, history>>

-----------------------------------------------------------------------------
HubStep(c) ==
  \/ HubRegister(c) \/ HubUnregister(c)
  \/ HubSend(c) \/ HubDrop(c) \/ HubPanic(c)

ReaderStep(c) ==
  \/ Connect(c) \/ HandleReply(c) \/ Broadcast(c) \/ ReadError(c)
  \/ \E chat \in Chats : HandleMessageSend(c, chat) \/ HandleNotice(c, chat)

WriterStep(c) == WriteMessage(c) \/ WriteError(c) \/ WriteClose(c)

Next ==
  \/ HubTake
  \/ \E c \in Clients : HubStep(c) \/ ReaderStep(c) \/ WriterStep(c) \/ CloseConn(c)

Spec == Init /\ [][Next]_vars

(* Go's select picks at random among its ready cases and its channels      *)
(* serve their waiting senders in order, so Run starves neither a case nor *)
(* a sender (strong fairness).  A goroutine that can go on does (weak).    *)
(* Nothing obliges a peer to connect, to send an event or to disconnect,   *)
(* but ReadMessage does fail once the connection is closed on this side,   *)
(* and a write ends or fails within its deadline.                          *)
Fairness ==
  /\ SF_vars(HubTake)
  /\ \A c \in Clients :
       /\ SF_vars(HubRegister(c) \/ HubUnregister(c))
       /\ WF_vars(HubSend(c) \/ HubDrop(c) \/ HubPanic(c))
       /\ SF_vars(Broadcast(c))
       /\ WF_vars(CloseConn(c))
       /\ WF_vars(~connOpen[c] /\ ReadError(c))
       /\ WF_vars((send[c] # <<>> \/ sendClosed[c]) /\ WriterStep(c))

FairSpec == Spec /\ Fairness

-----------------------------------------------------------------------------
(* What a connection has been given so far, written or still buffered.     *)
Stream(c) == wire[c] \o send[c]

IsBroadcast(e) == e.kind \in {"new", "notice"}

(* The hub's registry and the goroutines agree.  A registered connection   *)
(* still has a readPump that will unregister it, and a connection the hub  *)
(* has forgotten is being closed, so that no goroutine stays behind on a   *)
(* connection that will never hear anything (Hub.Run, the deferred         *)
(* unregister of readPump).                                                *)
RegistryMatches ==
  /\ \A c \in clients : reader[c] \in Registered
  /\ \A c \in Clients :
       reader[c] \in Registered \cup {"gone"} /\ c \notin clients =>
         sendClosed[c]

(* A connection is given only events of its user's chats and the answers   *)
(* to its own events (the recipient check of Run).                         *)
MembersOnly ==
  \A c \in Clients : \A i \in DOMAIN Stream(c) :
    LET e == Stream(c)[i]
    IN  IF IsBroadcast(e) THEN UserOf[c] \in Members[e.chat] ELSE e.from = c

(* The broadcast events a connection is given have no gap and no repeat:   *)
(* one that has the k-th message of the hub was given, once and before it, *)
(* every earlier message that is addressed to it and came after its        *)
(* registration.  A slow connection is closed and never skipped over (the  *)
(* default case of Run).                                                   *)
NoGap ==
  \A c \in Clients : \A k \in DOMAIN log, i \in DOMAIN Stream(c) :
    Stream(c)[i] = log[k] =>
      /\ k > joinedAt[c]
      /\ \A h \in 1..(i - 1) : Stream(c)[h] # log[k]
      /\ \A j \in (joinedAt[c] + 1)..(k - 1) :
           Addressed(log[j], c) => \E h \in 1..(i - 1) : Stream(c)[h] = log[j]

(* A registered connection has been given every message that the hub took  *)
(* since it registered, but the one the hub is handing out now, unless its *)
(* own writePump closed it.                                                *)
NothingMissed ==
  \A c \in clients : ~sendClosed[c] =>
    \A k \in (joinedAt[c] + 1)..Len(log) :
      Addressed(log[k], c) =>
        \/ \E i \in DOMAIN Stream(c) : Stream(c)[i] = log[k]
        \/ c \in todo /\ k = Len(log)

(* The hub hands out what one connection sent in the order it was sent:    *)
(* readPump handles one event at a time and hub.broadcast is a queue.      *)
SenderOrder ==
  \A i, j \in DOMAIN log :
    i < j /\ log[i].from = log[j].from => log[i].n < log[j].n

(* Once its channel is closed, by whichever side, both goroutines of a     *)
(* connection end: readPump is never stuck on hub.broadcast or             *)
(* hub.unregister (a panic of the hub ends them too).                      *)
ClosedCleansUp ==
  \A c \in Clients :
    sendClosed[c] ~> ~Running \/ (reader[c] = "gone" /\ writer[c] = "gone")

(* A message handed to a connection is written to it or the connection is  *)
(* closed (writePump, Run).                                                *)
Delivered ==
  \A c \in Clients, n \in 1..MaxEvents :
    (hub = "fanout" /\ c \in todo /\ current.n = n) ~>
      \/ ~Running \/ ~connOpen[c]
      \/ \E i \in DOMAIN wire[c] : IsBroadcast(wire[c][i]) /\ wire[c][i].n = n

(* To the abstract hub a connection is open from its registration until    *)
(* its channel is closed.                                                  *)
Audience == [e \in BroadcastEvent |-> {c \in Clients : UserOf[c] \in Members[e.chat]}]

ConnectionState ==
  [c \in Clients |->
     IF sendClosed[c] THEN "closed"
     ELSE IF reader[c] \in {"idle", "registering"} THEN "absent" ELSE "open"]

(* Which messages of the log a connection was given; NoGap has their order. *)
Given(c) == {k \in DOMAIN log : \E i \in DOMAIN Stream(c) : Stream(c)[i] = log[k]}

Promise == INSTANCE Fanout
             WITH Messages  <- BroadcastEvent,
                  published <- log \o broadcast,
                  taken     <- Len(log),
                  state     <- ConnectionState,
                  joined    <- joinedAt,
                  given     <- [c \in Clients |-> Given(c)]

(* Whatever its goroutines do, each connection is given the messages of    *)
(* its chats from its registration on, in the order of the hub and without *)
(* a gap, until it is closed; none reaches it out of turn and the hub goes *)
(* on to the next when all have it (Run, its channels, and close).         *)
ImplementsFanout == Promise!Spec

(* queueRaw recovers from a send on a closed channel, so that a connection *)
(* that closes under its sender hurts nobody; the hub should survive one   *)
(* as well.                                                                *)
HubSurvives == hub # "panicked"
=============================================================================
