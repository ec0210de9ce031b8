# A verification project for chat-backend-go

TLA+ modules that model the chat backend in `src/`, TLC runs that check them on
small instances, and TLAPS proofs of what matters most for every instance. The
program has no tests of its own; what is stated here is what its code, its
schema and its README say that it does.

`PROJECT.json` is the index: components, runs, the mutated definitions that show
each property can fail, the source lines of every definition, findings, hazards,
theorems.

## The system

One Go process, PostgreSQL behind it, REST and WebSocket clients in front.

| Component | State | Operations | What makes it correct |
|---|---|---|---|
| WebSocket hub (`ws/hub.go`) | `Hub.clients`, the channels `register`, `unregister`, `broadcast` (256) | `Run`: register, unregister, fan out | its registry matches the goroutines; only members hear a chat; nobody is skipped; it never stops |
| Connections (`ws/handler.go`) | `Client.send` (256), `closeOnce`, the socket, two goroutines | `Handle`, `readPump` and its handlers, `writePump`, `close` | a closed connection ends both goroutines; events keep their sender's order |
| Messages and read state (`chat/service.go`) | tables `messages`, `message_reads`, columns `chats.last_message_at`, `chat_members.last_read_*` | `SendMessage`, `MarkRead`, what `ListChats` derives | one message per `client_msg_id`; what is answered is durable; read positions go forward |
| Chats and membership (`chat/service.go`) | tables `chats`, `chat_members` | `CreateDirectChat`, `CreateGroupChat`, `ListChats`, `GetChatForUser` | chats are seen whole; one direct chat of two users; members are served |
| Message history (`chat/service.go`, `http/chat.go`) | none of its own | `ListMessages` with the cursor `before` | paging descends, ends, and skips only what the cursor's precision costs |
| Sessions and accounts (`auth/service.go`) | tables `users`, `refresh_tokens` | `Register`, `Login`, `Refresh`, `Logout` | one usable token per login; revoked for good |
| Access tokens (`auth/service.go`, `auth/middleware.go`) | none | `ValidateAccessToken`, `Middleware` | they outlive their refresh token by their own lifetime at most |
| Delivery to clients (all of the above) | none of its own | send by REST or WebSocket, announce, listen, load the history, restart | who listens and then loads misses nothing that was acknowledged to a connection |
| REST handlers (`http/*.go`) | none | one service call each | they answer with what the service returned |
| Process start, configuration, stores, health | connections | once, or a ping | |

How they interact. A REST handler or a `readPump` calls a service; every call of
a service is one goroutine that sends statements to PostgreSQL, so any number of
them interleave at the statements. A `readPump` then puts the event that
announces the result into `hub.broadcast`, with the recipients the service
returned; `Run` copies it into the `send` channels of the connections; each
`writePump` writes its own to its socket. Calls by REST broadcast nothing.
`Client.close` is called by `Run` and by `writePump`.

What is hard. Three goroutines share a connection and two of them close it;
channels are bounded, and one side of each blocks while the other drops;
`Run` must never block, since everything waits for it. Transactions at READ
COMMITTED see each other's commits between two of their statements; `NOW()` is
the time at which a transaction began, so times and commits are ordered
differently; answers get lost after the commit, and clients repeat what was
already done. The full list, each at its line, is under `hazards` in
`PROJECT.json`.

## Modules

| Module | Models |
|---|---|
| `Hub` | `ws.Hub` and the goroutines of every connection |
| `HubProofs` | its invariants, proved |
| `Messages` | `SendMessage` and `MarkRead`, one step per SQL statement |
| `MessageLog` | what `SendMessage` promises: the abstract specification |
| `MessagesProofs` | its invariants, proved, and that it implements `MessageLog` |
| `Fanout` | what the hub promises: the abstract specification that `Hub` implements |
| `FanoutProofs` | that it does |
| `Delivery` | `MessageLog` and `Fanout` composed with clients, REST and restarts |
| `DeliveryProofs` | its invariants, proved |
| `Paging` | `ListMessages` and its cursor over a log that grows |
| `PagingProofs` | its invariants, proved |
| `Chats` | creating chats and finding them again |
| `ChatsProofs` | its invariants, proved |
| `Sessions` | accounts and refresh tokens |
| `SessionsProofs` | its invariants, proved |
| `MCHub`, `MCMessages`, `MCChats`, `MCSessions`, `MCPaging`, `MCDelivery` | the instances for TLC |

Each module has a section "Mutations": copies of its definitions with a
plausible bug, used only to show that a property notices it.

### Hub

A connection is a `*Client`; `reader` and `writer` are where its two goroutines
are, `send` and `sendClosed` its channel, `connOpen` its socket. `register` and
`unregister` are unbuffered, so a send on them and its receipt by `Run` are one
step (`HubRegister`, `HubUnregister`) and waiting for it is a state of the
reader. `hub.broadcast` is a bounded sequence. The fan-out is a loop of `Run`
over a map: `HubTake` receives a message and fixes the set `todo` of addressed
connections, then `HubSend`, `HubDrop` or `HubPanic` handles them one by one in
any order, with the other goroutines in between. `Run` alone changes `clients`,
so fixing `todo` at the start is exact. `close` is two steps, the channel
(`Close`, in the action that calls it) and the socket (`CloseConn`), because a
`writePump` may drain the closed channel in between.

`HandleMessageSend`, `HandleNotice` and `HandleReply` are the handlers of
`readPump`: what they queue to their own connection, and the broadcast they go
on to, which may block. `log`, `joinedAt` and `wire` are history, read by
properties alone. Not modelled: the `ctx.Done()` case of `Run`; its context is
cancelled only by a deferred call of `main`, which leaves through `log.Fatalf`.

`Fanout` states the hub without channels and goroutines: a sequence of published
messages, how many of them are taken, and for each connection whether it is open,
when it joined and which of them, by their places in the sequence, it has been
given. What it is due is given in turn, and it keeps a first part of that when it
ends. Under the mapping, `published` is `log \o broadcast`, a connection is open
from `HubRegister` until `sendClosed`, and `given` is the set of places in `log` of
the messages in `wire \o send` (`Given`); that a place is not given twice is part of
`NoGap`. `Broadcast` is a publish, `HubTake` a take, `HubSend` a give;
`HubDrop`, `HubUnregister` and `WriteError` close; the panic, after which nothing
happens, and all else are stutters.

### Messages

Every call of `SendMessage` or `MarkRead` is a process; `pc` names its next
statement. A step is a statement, the last one a commit that publishes what the
transaction wrote. What a transaction wrote before its commit is kept by `pc`
and `args` alone: `Inserted`, `ChatLocked`, `ReceiptLocked` and `MemberLocked`
say from them which key and rows it holds. An `INSERT ... ON CONFLICT DO
NOTHING` waits for a transaction that holds its key, then inserts or finds the
row. `Abort` is the deferred `Rollback`; `LoseAnswer` is a failure after the
commit. Rows are never deleted and the members of a chat never change, which is
true of the program.

`MessageLog` is the promise to callers: asked, posted, answered, failed, with a
post that is one step and at most once per `client_msg_id`. Under the mapping
(`Asked`, `messages`, `Answers`), `CommitSend` of a new row is a post,
`LoadRecipients` an answer, every other statement a stutter.

### Delivery

The composition uses the two abstract specifications, `Store == INSTANCE
MessageLog` and `Stream == INSTANCE Fanout`, which `Messages` and `Hub` are
checked and proved to implement, and adds what ties them together. A call is made by REST
(`via[c] = Rest`) or by the `readPump` of a connection, one at a time (`Busy`).
When `SendMessage` has answered a `readPump`, the call is in `announcing` until
its `message.new` is in `hub.broadcast`, whether or not its connection still
lives. An error, also one after the commit, announces nothing, and neither does
REST. `LoadHistory` is the client's `ListMessages`. It comes once something has
come over the connection: the handshake ends before the connection is registered
(`handler.go:78`, `:92`), and between the two nothing is sent to it. `Crash` keeps the
tables and loses open calls, `announcing`, the queue and all connections. A
`readPump` goes on taking what its socket holds after its connection was closed
by the hub: `reading` are the connections whose `readPump` the process still has,
open or closed, and a send comes over one of these.

### Paging

`messages` are the committed rows, `drafts` those of open transactions, whose
`sent_at` is the time they began, so that a row may appear behind newer ones.
`ListMessages` is the handler and the service: size of the page, rows before the
cursor in the order of the query, one more than the page, `has_more`. The rows of
the query are stated by what they are, not computed: a sequence in the order of the
query that leaves out nothing that comes before its end (`Selects`). `NextPage`
is the client, with `next_before` (cut to a multiple of `Second`) or with the
exact `sent_at` of its last message. `given`, `cuts` and `atStart` are history.

### Chats

A creation searches in statements of their own (`FindExisting`), then inserts in
one transaction: the chat, both members of a direct chat in one statement, those
of a group in one each (`InsertMembers`). Every creation ends with
`GetChatForUser`, which is `ListChats` with a page: `FirstPages` are the pages
that the `ORDER BY` allows, cut at what the limit is clamped to.
`MessageSent` is `SendMessage` reduced to its effect on the order of that list.

Go compares identifiers as texts, PostgreSQL as `uuid`, and a `uuid` can be
written in several ways. What a request names is therefore a record of an `id`
and its `spelling` (`Texts`); what comes from the database, and so from an access
token, is spelled in the one way in which PostgreSQL prints it (`Printed`). Three
places compare texts: `CreateDirectChat` to refuse a chat with oneself
(`service.go:120`), `uniqueIDs` for the list of a group, and `GetChatForUser`
(`service.go:350`). A caller that names itself in another spelling (`NamesItself`)
passes the first; the search then finds any direct chat of the caller, and when
there is none, the insert of one member twice breaks a primary key.

### Sessions

`Refresh` is a transaction whose first statement locks the row of the token with
`FOR UPDATE`; `Locked` says who holds it. `RejectExpired` is the error return
that rolls back the revocation. `Register`, `Login` and `Logout` are statements
that commit by themselves. A token is presented only by a caller that was given
it, or is one that does not exist. An access token is issued in the same step as
the refresh token it comes with and is kept nowhere, so its expiry is derived
(`AccessExpires`) and `Authorized` is `ValidateAccessToken`. `Root` is the login a token descends from.

## What TLC checks

| Run | Instance | Shows |
|---|---|---|
| `Hub_safe` | 2 connections of 2 users, a chat of both and one of alice alone, `send` 1, `broadcast` 2, 2 events | types and capacities; `RegistryMatches`, `MembersOnly`, `SenderOrder`, `NoGap`, `NothingMissed`; that `Fanout` is implemented |
| `Hub_live` | 1 connection, channels of 1, 3 events | `ClosedCleansUp`, `Delivered` |
| `Messages_send` | 3 calls of 2 members and an outsider, one `client_msg_id` | `IdempotentKey`, `AnswerIsDurable`, that `MessageLog` is implemented, and `EveryCallEnds` |
| `Messages_read` | 4 calls of 2 members without keys, 2 instants | types; `ReadPosition`, `LastMessageAtExists`, `StaysRead` |
| `Sessions_rotate` | 4 calls on one account, tokens of both kinds that live 1 tick of 2 | types; `OneLivePerLogin`, `RotationLinks`, `LogoutRevokes`, `AccessEnds`, `RevokedForGood` |
| `Chats_safe` | 3 calls of 2 users, one identifier of no user, 2 spellings, pages of 1 chat, 2 instants | types; `WholeChats`, `ServedChats`, `NoLateDuplicate`, `ForbiddenOnlyOffPage` |
| `Paging_pages` | 4 messages, 3 instants of which 2 are one second, limits 0 and 3 with a default of 1 and a maximum of 2, a member and an outsider | types; `Descending`, `SkipsOnlyAtCuts`, `PagingEnds` |
| `Delivery_reach` | 2 calls of 2 members, 2 connections of one of them, one `client_msg_id`, 1 crash | types; `OnlySilentSendsAreMissed`, `NoPhantom`, `ToldOncePerAnswer`, `CatchesUp` |

The bounds. A channel of capacity one or two is full as soon as the hub is one
message behind, which is the case the capacity 256 makes rare. Three calls are
enough for two that conflict and one that finds what they left; `Messages_read`
has four, since crossing read positions needs two messages and two reads; a
rotation chain with a competitor needs four as well. `Messages_send` has a
single instant: nothing it checks compares times (the proofs have no such
bound). `Paging_pages` has messages enough for a page that is cut inside a
second, with one of that second left behind and a page after it. In `Chats_safe`
a list can name a user twice; the runs that show a finding of `Chats` have one
spelling, so that what they show does not come from another. In `Delivery_reach`
both connections are of one member, so that a send and its repeat can overlap on
the two, and the other member sends by REST; a connection that is not made
before the crash is the one made after it, two calls are a send and its repeat,
or two that cross, and each connection loads once. `MaxEvents`, `MaxTime`,
`MaxCrashes` and the numbers of calls and messages are the only bounds that are
not in the code. Calls, and in `Chats` users, are interchangeable, and symmetry
is used only in runs without liveness.

`CHECK_DEADLOCK FALSE` is set everywhere: a server without requests may stop,
and in the models the requests run out.

### Fairness

`Hub`: Go's `select` chooses at random among its ready cases, and senders that
wait for a channel are served in order, so the receipts of `Run` and the sends
on its channels are strongly fair; a goroutine that can go on does (weak
fairness), including a `writePump` with something to write, whose deadline of
10 seconds ends a stuck write, and a `readPump` whose socket has been closed.
Nothing obliges a peer to connect, to send or to leave. `Messages`: a statement
whose lock is free is executed; no call has to be made, and none is counted on
to fail. `Paging`: the server answers and a client that has begun goes on.
`Delivery`: the steps of the hub and of a `readPump` that waits to broadcast,
which is what the fairness of `Hub` gives; no call is made or ends by fairness,
and connections need not stay. `Chats` and `Sessions` state no liveness: their
transactions hold one lock at a time.

### Findings

Each is a run that TLC refutes; the counterexample is what the code does.

- `Hub_panic`: `writePump` closes the channel of a connection that `Run` still
  has registered, and the next message to it panics `Run`, which ends the
  process. `RegistryMatches` is the weaker fact that does hold.
- `Messages_newest`: `last_message_at` can be set back.
- `Chats_direct`: two creations that overlap make two direct chats of the same
  users. `NoLateDuplicate` says that nothing else does.
- `Chats_served`: a member of more chats than one page is told that the others
  are forbidden. `ForbiddenOnlyOffPage` says when else: only when the chat is not
  spelled as PostgreSQL prints it.

Not refuted by a run of their own, but worth knowing: a caller that asks for a
direct chat with itself, its identifier in capitals, is not refused as the message
at `service.go:121` has it ("direct chat requires another user"), but answered
with a direct chat of its own with some other user, or with an internal error when
it has none (the exception in `ServedChats`); `GET /chats/<id>` refuses a member
that spells the chat's identifier in capitals, which every other endpoint accepts
(the exception in `ForbiddenOnlyOffPage`); `Refresh` marks an expired token revoked and its
own rollback undoes it (`RejectExpired`; the expiry keeps the token out all the
same, `RotationLinks`); a client in the order of `src/README.md:145-146`, history
first and connection second, misses what is broadcast in between (the mutant of
`OnlySilentSendsAreMissed`); a page that ends inside a second hides the rest of
that second from a client that uses `next_before` (`SkipsOnlyAtCuts` is exact
about which).

The hub properties hold up to the panic; liveness is stated with it as an
accepted end.

## What is proved

Every invariant, every action property and both refinements that the runs check,
for every set of connections, users, chats, calls, keys and messages, every
capacity, limit and lifetime, and every bound. The assumptions are those on the
constants, and TLC evaluates each on its instance: `HubAssumption`,
`NoEventAssumption`; `MessagesAssumption`, `SessionsAssumption`, and a
`NoneAssumption` in both modules and in `Chats`; `ChatsAssumption`;
`PagingAssumption`; `DeliveryAssumption`.

Each property follows from an invariant that is inductive, which it seldom is by
itself. TLC can look for a violation of these invariants on the instances (all but
`RootsInv`, which quantifies over functions on no set), by an `MC` module that extends
the module of the proofs.

**Hub** (`HubProofs`, `FanoutProofs`)

| Theorem | Argument |
|---|---|
| `TypeCorrect` | `TypeOK` is inductive: it has the capacities, and that a reader at `"broadcasting"` and a hub at `"fanout"` hold a message |
| `RegistryCorrect` | `RegistryMatches` is inductive given `TypeOK`: registration and unregistration move both sides in one step, and only `HubDrop`, which closes, removes a connection otherwise |
| `MembersCorrect` | by `MembersInv`, which follows an event through the places it passes: the pending message of a reader, the broadcast buffer, the message being fanned out and its `todo`, `send`, `wire` |
| `SendersInOrder` | by `OrderInv`: `log`, then `broadcast`, then what a `readPump` waits to put there, are in the order of their sender. It also makes the messages of `log` distinct, which the next ones need |
| `StreamsHaveNoGap`, `StreamsMissNothing` | by `StreamsInv`. `FanoutInv`: `current` is the last of `log`, and `todo` are registered connections that joined before it. `GivenInv`: a connection was given only what is in `log`, after `joinedAt`, once and without a gap, nothing before it registered, and not yet the last of `log` while it is in `todo`; while it is open it lacks nothing. The steps to watch are `HubSend`, where the last of `log` follows all the others, and `WriteError`, which cuts the stream at its end |
| `Refinement` | every step maps to a step of `Fanout` or a stutter (`TakeMaps` to `ConnectionMaps`). Beyond the invariants above it needs `FreshInv`: a connection that is not registered has nobody who would close it. `HubTake` and `HubRegister` are possible only at `"select"`, where `todo` is empty, so every open connection has what it is due; the panic is a stutter |

**Messages** (`MessagesProofs`)

| Theorem | Argument |
|---|---|
| `TypeCorrect` | `TypeOK` is inductive |
| `KeysAreIdempotent` | by `MessagesInv`: a row names the call that inserted it and has its arguments (`RowsInv`), a call past its insert knows a row with its own key (`CallsInv`), and no two rows, committed or inserted, share a key. The last is not inductive without the others: the step to watch is `InsertMessage`, whose guard rules out both kinds of row |
| `AnswersAreDurable` | from `MessagesInv` |
| `ChatTimeIsOfMessage` | with `MessagesInv`: a call at its commit has inserted, or found, a message of the time it sets |
| `PositionIsNewestRead` | by `ReadsInv`: a `MarkRead` past its first statement holds the time of a message of its chat (`Loaded`), and only messages have been read. Its commit adds one message and takes the greater of two times, whatever was committed since it loaded the message |
| `ReadStaysRead` | from `TypeOK`: only `CommitRead` moves a position, to the greater of two times |
| `Refinement` | every step maps to a step of `MessageLog` or a stutter; `MessagesInv` gives that a commit posts a message that is not there yet and that an answer fits its call |

**Sessions** (`SessionsProofs`)

| Theorem | Argument |
|---|---|
| `TypeCorrect`, `RotationsLinked`, `LogoutHolds` | by `SessionsInv`: where a call is tells what it holds (`CallInv`): the row that a `Refresh` has locked stays live until it commits; a row says how its call ended (`TokenInv`); one transaction at a time rotates a token (`LocksInv`); and the links themselves |
| `RevokedStays` | from `SessionsInv`: only a transaction that holds a live row writes to it |
| `AccessIsBounded` | by `TimesInv`: a token was presented, and revoked, no earlier than it was issued |
| `OneTokenPerLogin` | by `RootsInv`. `Root` follows a chain of rotations, about which the prover can do no induction. Instead a function that satisfies its equation is called a `Rooting`: every state has one, and for each of them a login has one live token at most. Every step keeps this, for a rotation revokes the live token of the login whose next one it inserts; `Root` is a `Rooting` |

**Chats** (`ChatsProofs`)

| Theorem | Argument |
|---|---|
| `TypeCorrect`, `ChatsAreWhole`, `ChatsAreServed` | by `ChatsInv`: a chat was committed by the call that is its identifier, which does not commit again, with the members it was asked for (`ChatInv`); a call that looks its chat up is to find one that fits, and a call that commits does not name itself (`CallInv`); identifiers are unique and chats finitely many |
| `DuplicatesOverlap` | only `CommitChat` adds a chat, by a call that is under way, and `FindExisting` lets no call get under way when a chat of the pair is there |
| `ForbiddenOffPage` | a first page that is not all of the caller's chats is full, and then they are more than `PageLimit`: this counts, so the chats have to be finitely many. A creation looks for a text that the database returned (`CallInv`), so that only who asks by `GET` can have spelled it otherwise |

**Paging** (`PagingProofs`)

| Theorem | Argument |
|---|---|
| `TypeCorrect`, `SkippedOnlyAtCuts` | by `PagesInv`: what was there at the start and was not given is before the cursor, or was skipped at a cut; nothing that was given is before it. `Seconds` says what cutting a time down costs |
| `PagesDescend` | from `PagesInv`: what is found is before the cursor, and what was given is not |

**Delivery** (`DeliveryProofs`)

| Theorem | Argument |
|---|---|
| `NothingElseMissed` | by `Inv`: who is absent has loaded nothing; an answer names a committed message (`AnswersArePosted`), so a later commit is never of a message that was already announced; and what an open connection did not load and a connection was answered is announced after it was registered, or still to be (`LoadedOrComing`). The steps to watch are `Answer`, which hands the message to `readPump`, `Announce`, which moves it to the channel, and `Post` |
| `TypeCorrect`, `GivenIsCommitted` | by `ToldInv`: behind each announcement is a call of its own, answered over a connection with that message and done with announcing (`CallsBehind`); an answer is of a message of the chat that was asked for (`AnswersFit`); and a connection is given what is addressed to it (`GivenFits`). A crash shortens the channel and leaves each message in it its call |
| `NoRepeats` | from `ToldInv`: the calls behind what a connection is told of are different ones, so there are at least as many; only finitely many calls have been answered, so the two can be counted |

Only model-checked: liveness (`ClosedCleansUp`, `Delivered`, `EveryCallEnds`,
`PagingEnds`, `CatchesUp`), for neither fairness nor `ENABLED` is within reach of
the prover; and the four findings, which are counterexamples.

## Not modelled, and why

User search, health, configuration and start keep no state that another step
relies on; of access tokens and the REST handlers only what a property needs is
there. Formats, validation messages and passwords are data. PostgreSQL is
modelled by the statements the code sends: read committed snapshots, row locks
and unique keys; its failures are `Abort`. A restart is `Abort` of every open
call for the database, and `Crash` of `Delivery` for the whole. Pages of chats
after the first (`ListChats` with an offset) are listed as a hazard: nothing in
the program reads them. `message.read` and `typing.*` are in `Hub` as notices
and not in `Delivery`, since nothing is recovered from them.

## Plan

1. The safety of the composition at the level of the code: that `MessageLog`
   and `Fanout`, as `Delivery` instantiates them, are what `Refinement` of
   `MessagesProofs` and of `FanoutProofs` give, under one mapping of
   identifiers (`BroadcastEvent` has sender and number, `Announcement` the message).
2. What liveness rests on: the invariants that say which step is enabled (a
   blocked `readPump` has a full channel, a waiting transaction a holder that does
   not wait), as safety properties of their own.
3. Pages of chats after the first (`ListChats` with an offset), if a client
   comes to rely on them.
