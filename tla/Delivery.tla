------------------------------ MODULE Delivery ------------------------------
(***************************************************************************)
(* What a member of a chat gets to know of it: the message store and the   *)
(* hub composed, with the clients that load the history and listen.  The   *)
(* store is MessageLog and the hub is Fanout, the specifications that      *)
(* Messages and Hub implement.                                             *)
(*                                                                         *)
(* A message is sent by REST, which tells the hub nothing, or over a       *)
(* connection, whose readPump announces it once SendMessage has answered.  *)
(* The process may die at any time: the tables stay, and everything in     *)
(* memory, with the connections, is lost.                                  *)
(***************************************************************************)
EXTENDS Naturals, Sequences, FiniteSets

CONSTANTS
  Calls, Users, Chats, Members, Keys, NoKey, None, Failed,   \* of MessageLog
  Clients, UserOf,   \* the connections, each made once
  Rest,              \* a call that is made by no connection
  MaxCrashes         \* bound of the model: how often the process dies

ASSUME DeliveryAssumption ==
  /\ Members \in [Chats -> SUBSET Users]
  /\ UserOf \in [Clients -> Users]
  /\ Rest \notin Clients
  /\ None \notin Calls /\ Failed \notin Calls
  /\ MaxCrashes \in Nat

VARIABLES
  asked, posted, answer,                    \* the store
  published, taken, state, joined, given,   \* the hub
  via,         \* the connection each call is made over, or Rest
  announcing,  \* the calls that readPump goes on from to hub.broadcast
  reading,     \* the connections whose readPump still takes what comes in
  loaded,      \* the messages a client found in the history, None before
  crashes      \* how often the process has died

store == <<asked, posted, answer>>
hub   == <<published, taken, state, joined, given>>
vars  == <<asked, posted, answer, published, taken, state, joined, given,
           via, announcing, loaded, reading, crashes>>

(* The event message.new.                                                  *)
Announcement == [id : Calls, chat : Chats]

Audience ==
  [e \in Announcement |-> {d \in Clients : UserOf[d] \in Members[e.chat]}]

Store  == INSTANCE MessageLog WITH Time <- {0}
Stream == INSTANCE Fanout WITH Messages <- Announcement

TypeOK ==
  /\ asked \in [Calls -> Store!Sends \cup {None}]
  /\ answer \in [Calls -> Calls \cup {None, Failed}]
  /\ published \in Seq(Announcement) /\ taken \in 0..Len(published)
  /\ state \in [Clients -> {"absent", "open", "closed"}]
  /\ \A d \in Clients : joined[d] <= taken /\ given[d] \subseteq 1..taken
  /\ via \in [Calls -> Clients \cup {Rest}]
  /\ \A c \in announcing : answer[c] \in Calls /\ via[c] \in Clients
  /\ \A d \in Clients : loaded[d] # None => loaded[d] \subseteq Calls
  /\ reading \subseteq Clients
  /\ crashes \in 0..MaxCrashes

Init ==
  /\ Store!Init /\ Stream!Init
  /\ via = [c \in Calls |-> Rest]
  /\ announcing = {}
  /\ loaded = [d \in Clients |-> None]
  /\ reading = {}
  /\ crashes = 0

(* readPump handles one event at a time.                                   *)
Busy(d) ==
  \E c \in Calls : /\ via[c] = d /\ asked[c] # None
                   /\ answer[c] = None \/ c \in announcing

Of(d) == {row \in posted : UserOf[d] \in Members[row.chat]}

-----------------------------------------------------------------------------
(* Mutations.  Each is a definition below with a plausible mistake in it;  *)
(* PROJECT.json names the property that fails when it takes its place.     *)

(* The history is loaded once the handshake is done, registered or not, as *)
(* in the order of the steps 3 and 4 of the README.                        *)
LoadHistoryAtOnce(d) ==
  /\ state[d] # "closed" /\ loaded[d] = None
  /\ loaded' = [loaded EXCEPT ![d] = {row.id : row \in Of(d)}]
  /\ UNCHANGED <<store, hub, via, announcing, reading, crashes>>

(* The event is built from what the client sent.                           *)
AnnounceUnanswered(c) ==
  /\ via[c] \in Clients /\ asked[c] # None
  /\ Stream!Publish([id |-> c, chat |-> asked[c].chat])
  /\ announcing' = announcing \ {c}
  /\ UNCHANGED <<store, via, loaded, reading, crashes>>

(* A publish that is repeated.                                             *)
AnnounceAgain(c) ==
  /\ c \in announcing /\ Len(published) < 3
  /\ Stream!Publish([id |-> answer[c], chat |-> asked[c].chat])
  /\ announcing' \in {announcing, announcing \ {c}}
  /\ UNCHANGED <<store, via, loaded, reading, crashes>>

(* A readPump whose connection is gone announces nothing.                  *)
AnnounceIfOpen(c) ==
  /\ c \in announcing /\ state[via[c]] = "open"
  /\ Stream!Publish([id |-> answer[c], chat |-> asked[c].chat])
  /\ announcing' = announcing \ {c}
  /\ UNCHANGED <<store, via, loaded, reading, crashes>>

(* No return after the error.                                              *)
FailGoesOn(c) ==
  /\ Store!Fail(c)
  /\ announcing' = announcing \cup (IF via[c] = Rest THEN {} ELSE {c})
  /\ UNCHANGED <<hub, via, loaded, reading, crashes>>

-----------------------------------------------------------------------------
(* Calls of SendMessage.                                                   *)

SendByRest(c) ==
  /\ Store!Ask(c)
  /\ UNCHANGED <<hub, via, announcing, loaded, reading, crashes>>

(* A readPump goes on with what its socket holds when Run has closed the   *)
(* connection, until it meets an error.                                    *)
SendByConnection(c, d) ==
  /\ d \in reading /\ ~Busy(d)
  /\ Store!Ask(c)
  /\ asked'[c].user = UserOf[d]
  /\ via' = [via EXCEPT ![c] = d]
  /\ UNCHANGED <<hub, announcing, loaded, reading, crashes>>

Post(c) ==
  /\ Store!Post(c)
  /\ UNCHANGED <<hub, via, announcing, loaded, reading, crashes>>

(* The answer goes to the caller of the handler; a readPump that has one   *)
(* queues its message.ack and goes on to the broadcast.                    *)
Answer(c) ==
  /\ Store!Answer(c)
  /\ announcing' = announcing \cup (IF via[c] = Rest THEN {} ELSE {c})
  /\ UNCHANGED <<hub, via, loaded, reading, crashes>>

(* An error, before or after the message was posted: nothing is announced. *)
Fail(c) ==
  /\ Store!Fail(c)
  /\ UNCHANGED <<hub, via, announcing, loaded, reading, crashes>>

(* broadcastEvent, also of a readPump whose connection has been closed.    *)
Announce(c) ==
  /\ c \in announcing
  /\ Stream!Publish([id |-> answer[c], chat |-> asked[c].chat])
  /\ announcing' = announcing \ {c}
  /\ UNCHANGED <<store, via, loaded, reading, crashes>>

-----------------------------------------------------------------------------
(* The hub and the connections.                                            *)

Take ==
  /\ Stream!Take
  /\ UNCHANGED <<store, via, announcing, loaded, reading, crashes>>

Join(d) ==
  /\ Stream!Join(d)
  /\ reading' = reading \cup {d}
  /\ UNCHANGED <<store, via, announcing, loaded, crashes>>

Give(d) ==
  /\ Stream!Give(d)
  /\ UNCHANGED <<store, via, announcing, loaded, reading, crashes>>

Close(d) ==
  /\ Stream!Close(d)
  /\ UNCHANGED <<store, via, announcing, loaded, reading, crashes>>

(* ListMessages of a client that knows that its connection is registered:  *)
(* something has come over it, the pong of a ping for instance.  A client  *)
(* does it once for each connection and listens from then on.              *)
LoadHistory(d) ==
  /\ state[d] = "open" /\ loaded[d] = None
  /\ loaded' = [loaded EXCEPT ![d] = {row.id : row \in Of(d)}]
  /\ UNCHANGED <<store, hub, via, announcing, reading, crashes>>

-----------------------------------------------------------------------------
(* The process dies, by the panic of Run or otherwise, and is started      *)
(* again: open transactions are rolled back, and answers that were not     *)
(* sent, hub.broadcast and all connections are gone.                       *)
Crash ==
  /\ crashes < MaxCrashes
  /\ crashes' = crashes + 1
  /\ answer' = [c \in Calls |-> IF asked[c] # None /\ answer[c] = None
                                THEN Failed ELSE answer[c]]
  /\ announcing' = {} /\ reading' = {}
  /\ published' = SubSeq(published, 1, taken)
  /\ state' = [d \in Clients |-> IF state[d] = "open" THEN "closed" ELSE state[d]]
  /\ UNCHANGED <<asked, posted, taken, joined, given, via, loaded>>

Next ==
  \/ Crash \/ Take
  \/ \E c \in Calls :
       \/ SendByRest(c) \/ Post(c) \/ Answer(c) \/ Fail(c) \/ Announce(c)
       \/ \E d \in Clients : SendByConnection(c, d)
  \/ \E d \in Clients : Join(d) \/ Give(d) \/ Close(d) \/ LoadHistory(d)

Spec == Init /\ [][Next]_vars

(* As in Hub: Run takes what is in its channel, hands it out, and a        *)
(* readPump that waits for room in it gets its turn.                       *)
FairSpec ==
  /\ Spec
  /\ WF_vars(Take)
  /\ \A d \in Clients : WF_vars(Give(d))
  /\ WF_vars(\E c \in Calls : Announce(c))

-----------------------------------------------------------------------------
(* The messages a client has been told of, and those it will be.           *)
Told(d)   == {published[k].id : k \in given[d]}
Coming(d) == {published[k].id : k \in (joined[d] + 1)..Len(published)}
               \cup {answer[c] : c \in announcing}
Known(d)  == (IF loaded[d] = None THEN {} ELSE loaded[d]) \cup Told(d)

AnsweredOver(c) == via[c] \in Clients /\ answer[c] \in Calls

(* A client that listens first and then loads the history misses no        *)
(* message that was acknowledged over a connection, however the load, the  *)
(* commit, the broadcast and a restart fall: what it lacks is on its way   *)
(* to it, or was sent by REST, or failed for its sender after the commit.  *)
OnlySilentSendsAreMissed ==
  \A d \in Clients : state[d] = "open" /\ loaded[d] # None =>
    \A row \in Of(d) :
      row.id \notin Known(d) \cup Coming(d) =>
        ~ \E c \in Calls : AnsweredOver(c) /\ answer[c] = row.id

(* No client is told of a message that it could not load: what the hub     *)
(* gives is committed, in a chat of the user, and stays so when the        *)
(* process dies (the broadcast follows the commit).                        *)
NoPhantom ==
  \A d \in Clients : \A k \in given[d] :
    \E row \in Of(d) : row.id = published[k].id /\ row.chat = published[k].chat

(* A connection is told of a message once for each call that was answered  *)
(* with it, so that only the repeats of a client_msg_id make it hear a     *)
(* message again.                                                          *)
ToldOncePerAnswer ==
  \A d \in Clients, m \in Calls :
    Cardinality({k \in given[d] : published[k].id = m})
      <= Cardinality({c \in Calls : AnsweredOver(c) /\ answer[c] = m})

(* When the sending stops, every connection that is open has been given    *)
(* all that was acknowledged over a connection while it was, or is closed: *)
(* nothing stays behind in a readPump, the channel or the hub, though      *)
(* senders and receivers leave at any time (the calls here are finitely    *)
(* many, so the sending does stop).                                        *)
CatchesUp ==
  \A d \in Clients :
    state[d] = "open" ~>
      \/ state[d] = "closed"
      \/ /\ announcing = {} /\ taken = Len(published)
         /\ given[d] = Stream!Due(d)
=============================================================================
