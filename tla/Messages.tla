------------------------------ MODULE Messages ------------------------------
(***************************************************************************)
(* chat.Service.SendMessage and MarkRead against PostgreSQL.  Every call   *)
(* is one transaction at READ COMMITTED, the default of pgx, and one step  *)
(* here is one statement of it.  Any number of calls run at once, from     *)
(* REST and from WebSocket connections alike.                              *)
(*                                                                         *)
(* What the database does is modelled from the statements: a statement     *)
(* sees the committed rows and its own; a row that a transaction has       *)
(* written is locked until it ends; an INSERT ... ON CONFLICT waits for a  *)
(* transaction that has inserted the same key; NOW() is the time at which  *)
(* the transaction began.  Foreign keys lock nothing that matters here.    *)
(*                                                                         *)
(* A message is identified by the call that inserted it.  No operation of  *)
(* the program removes a message or changes the members of a chat.         *)
(***************************************************************************)
EXTENDS Integers, FiniteSets

CONSTANTS
  Calls,      \* the calls of SendMessage and MarkRead
  Users, Chats,
  Members,    \* the users of each chat, the rows of chat_members
  Keys,       \* the values of client_msg_id
  NoKey,      \* a message without client_msg_id
  MaxTime,    \* bound of the model: the last time of the clock
  None,       \* NULL in a column of identifiers
  Failed      \* the answer of a call that returned an error

ASSUME MessagesAssumption ==
  /\ Members \in [Chats -> SUBSET Users]
  /\ NoKey \notin Keys
  /\ MaxTime \in Nat
  /\ None \notin Calls /\ Failed \notin Calls /\ None # Failed

VARIABLES
  clock,          \* the time, of the database and of the server
  pc,             \* the next statement of every call
  args,           \* its arguments and what it has read so far
  messages,       \* the committed rows of messages
  lastMessageAt,  \* chats.last_message_at
  readAt,         \* message_reads: when a user read a message
  lastRead        \* chat_members.last_read_message_id and last_read_at

calls == <<pc, args>>
vars  == <<clock, pc, args, messages, lastMessageAt, readAt, lastRead>>

Time  == 0..MaxTime
Never == -1       \* NULL in a column of timestamps

(* A row of messages, and what a call knows: message and at are of the row *)
(* it inserted, found or reads; at is NOW() before that; seen is readAt.   *)
Row == [id : Calls, chat : Chats, sender : Users, key : Keys \cup {NoKey},
        sentAt : Time]
Arguments ==
  [op : {"send", "read"}, user : Users, chat : Chats,
   key : Keys \cup {NoKey}, message : Calls \cup {None},
   at : Time \cup {Never}, seen : Time \cup {Never}]

ASSUME NoneAssumption ==
  /\ None \notin Arguments
  /\ None \notin [user : Users, chat : Chats, key : Keys \cup {NoKey}]

SendStates == {"insert", "existing", "update", "commit"}
ReadStates == {"load", "upsert", "member", "commitRead"}
InTransaction == SendStates \cup ReadStates
States == InTransaction \cup
  {"idle", "recipients", "done", "failed"}

TypeOK ==
  /\ clock \in Time
  /\ pc \in [Calls -> States]
  /\ args \in [Calls -> Arguments \cup {None}]
  /\ \A c \in Calls : pc[c] # "idle" => args[c] # None
  /\ messages \subseteq Row
  /\ lastMessageAt \in [Chats -> Time \cup {Never}]
  /\ readAt \in [Calls \X Users -> Time \cup {Never}]
  /\ lastRead \in [Chats \X Users -> [message : Calls \cup {None},
                                      at : Time \cup {Never}]]

Init ==
  /\ clock = 0
  /\ pc = [c \in Calls |-> "idle"]
  /\ args = [c \in Calls |-> None]
  /\ messages = {}
  /\ lastMessageAt = [chat \in Chats |-> Never]
  /\ readAt = [r \in Calls \X Users |-> Never]
  /\ lastRead = [m \in Chats \X Users |-> [message |-> None, at |-> Never]]

-----------------------------------------------------------------------------
(* Who holds what, until its transaction ends.                             *)

IsSend(c) == pc[c] # "idle" /\ args[c].op = "send"

(* The row a call has inserted and not committed.                          *)
RowOf(c) ==
  [id |-> c, chat |-> args[c].chat, sender |-> args[c].user,
   key |-> args[c].key, sentAt |-> args[c].at]

Inserted(c) == pc[c] \in {"update", "commit"} /\ args[c].message = c

-----------------------------------------------------------------------------
(* Mutations.  Each is a definition below with a plausible mistake in it;  *)
(* PROJECT.json names the property that fails when it takes its place.     *)

(* An index on (chat_id, client_msg_id).                                   *)
SameKeyAnySender(row, c) ==
  /\ args[c].key # NoKey /\ row.key = args[c].key
  /\ row.chat = args[c].chat

(* No unique index: an insert sees only what is committed.                 *)
KeyLockedNever(c) == FALSE

(* An advisory lock of the session, never released.                        *)
ChatLockedForGood(chat) ==
  \E d \in Calls : /\ pc[d] \in {"commit", "recipients", "done"}
                   /\ args[d].chat = chat

(* The time of the message is left to a column without a default.          *)
BeginSendUntimed(c, user, chat, key) ==
  /\ pc[c] = "idle"
  /\ args' = [args EXCEPT ![c] =
       [op |-> "send", user |-> user, chat |-> chat, key |-> key,
        message |-> None, at |-> Never, seen |-> Never]]
  /\ pc' = [pc EXCEPT ![c] =
       IF user \in Members[chat] THEN "insert" ELSE "failed"]
  /\ UNCHANGED <<clock, messages, lastMessageAt, readAt, lastRead>>

(* last_message_at is the time of the update.                              *)
CommitSendNow(c) ==
  /\ pc[c] = "commit"
  /\ messages' = messages \cup (IF Inserted(c) THEN {RowOf(c)} ELSE {})
  /\ lastMessageAt' = [lastMessageAt EXCEPT ![args[c].chat] = clock]
  /\ pc' = [pc EXCEPT ![c] = "recipients"]
  /\ UNCHANGED <<clock, args, readAt, lastRead>>

(* last_read_at = $4                                                       *)
GreatestNot(t, u) == u

-----------------------------------------------------------------------------
(* The unique index of messages, partial on client_msg_id.                 *)
SameKey(row, c) ==
  /\ args[c].key # NoKey /\ row.key = args[c].key
  /\ row.chat = args[c].chat /\ row.sender = args[c].user

KeyLocked(c) == \E d \in Calls : Inserted(d) /\ SameKey(RowOf(d), c)
Existing(c)  == {row \in messages : SameKey(row, c)}

ChatLocked(chat) == \E d \in Calls : pc[d] = "commit" /\ args[d].chat = chat

ReceiptLocked(c) ==
  \E d \in Calls : /\ pc[d] \in {"member", "commitRead"}
                   /\ args[d].message = args[c].message
                   /\ args[d].user = args[c].user

MemberLocked(c) ==
  \E d \in Calls : /\ pc[d] = "commitRead"
                   /\ args[d].chat = args[c].chat /\ args[d].user = args[c].user

-----------------------------------------------------------------------------
(* SendMessage *)

(* BeginTx and isMemberTx; the answer to a user who is no member is an     *)
(* error.                                                                  *)
BeginSend(c, user, chat, key) ==
  /\ pc[c] = "idle"
  /\ args' = [args EXCEPT ![c] =
       [op |-> "send", user |-> user, chat |-> chat, key |-> key,
        message |-> None, at |-> clock, seen |-> Never]]
  /\ pc' = [pc EXCEPT ![c] =
       IF user \in Members[chat] THEN "insert" ELSE "failed"]
  /\ UNCHANGED <<clock, messages, lastMessageAt, readAt, lastRead>>

(* insertMessageTx: a row with sent_at = NOW(), if its key is free.        *)
InsertMessage(c) ==
  /\ pc[c] = "insert" /\ ~KeyLocked(c) /\ Existing(c) = {}
  /\ args' = [args EXCEPT ![c].message = c]
  /\ pc' = [pc EXCEPT ![c] = "update"]
  /\ UNCHANGED <<clock, messages, lastMessageAt, readAt, lastRead>>

(* DO NOTHING returns no row.                                              *)
InsertConflict(c) ==
  /\ pc[c] = "insert" /\ ~KeyLocked(c) /\ Existing(c) # {}
  /\ pc' = [pc EXCEPT ![c] = "existing"]
  /\ UNCHANGED <<clock, args, messages, lastMessageAt, readAt, lastRead>>

LoadExisting(c) ==
  /\ pc[c] = "existing"
  /\ \E row \in Existing(c) :
       args' = [args EXCEPT ![c].message = row.id, ![c].at = row.sentAt]
  /\ pc' = [pc EXCEPT ![c] = "update"]
  /\ UNCHANGED <<clock, messages, lastMessageAt, readAt, lastRead>>

(* UPDATE chats: waits for the row, holds it until the commit.             *)
UpdateChat(c) ==
  /\ pc[c] = "update" /\ ~ChatLocked(args[c].chat)
  /\ pc' = [pc EXCEPT ![c] = "commit"]
  /\ UNCHANGED <<clock, args, messages, lastMessageAt, readAt, lastRead>>

CommitSend(c) ==
  /\ pc[c] = "commit"
  /\ messages' = messages \cup (IF Inserted(c) THEN {RowOf(c)} ELSE {})
  /\ lastMessageAt' = [lastMessageAt EXCEPT ![args[c].chat] = args[c].at]
  /\ pc' = [pc EXCEPT ![c] = "recipients"]
  /\ UNCHANGED <<clock, args, readAt, lastRead>>

-----------------------------------------------------------------------------
(* MarkRead *)

BeginRead(c, user, chat, message) ==
  /\ pc[c] = "idle"
  /\ args' = [args EXCEPT ![c] =
       [op |-> "read", user |-> user, chat |-> chat, key |-> NoKey,
        message |-> message, at |-> Never, seen |-> Never]]
  /\ pc' = [pc EXCEPT ![c] =
       IF user \in Members[chat] THEN "load" ELSE "failed"]
  /\ UNCHANGED <<clock, messages, lastMessageAt, readAt, lastRead>>

(* The message must be visible and of that chat; readAt is taken here,     *)
(* before the statements that may have to wait.                            *)
LoadMessage(c) ==
  /\ pc[c] = "load"
  /\ LET found == {row \in messages : /\ row.id = args[c].message
                                      /\ row.chat = args[c].chat}
     IN  \/ /\ found = {}
            /\ pc' = [pc EXCEPT ![c] = "failed"]
            /\ UNCHANGED args
         \/ \E row \in found :
              /\ args' = [args EXCEPT ![c].at = row.sentAt, ![c].seen = clock]
              /\ pc' = [pc EXCEPT ![c] = "upsert"]
  /\ UNCHANGED <<clock, messages, lastMessageAt, readAt, lastRead>>

UpsertReceipt(c) ==
  /\ pc[c] = "upsert" /\ ~ReceiptLocked(c)
  /\ pc' = [pc EXCEPT ![c] = "member"]
  /\ UNCHANGED <<clock, args, messages, lastMessageAt, readAt, lastRead>>

UpdateMember(c) ==
  /\ pc[c] = "member" /\ ~MemberLocked(c)
  /\ pc' = [pc EXCEPT ![c] = "commitRead"]
  /\ UNCHANGED <<clock, args, messages, lastMessageAt, readAt, lastRead>>

(* GREATEST(COALESCE(last_read_at, $4), $4).                               *)
Greatest(t, u) == IF t > u THEN t ELSE u

CommitRead(c) ==
  /\ pc[c] = "commitRead"
  /\ readAt' = [readAt EXCEPT ![<<args[c].message, args[c].user>>] = args[c].seen]
  /\ lastRead' = [lastRead EXCEPT ![<<args[c].chat, args[c].user>>] =
       [message |-> args[c].message, at |-> Greatest(@.at, args[c].at)]]
  /\ pc' = [pc EXCEPT ![c] = "recipients"]
  /\ UNCHANGED <<clock, args, messages, lastMessageAt>>

-----------------------------------------------------------------------------
(* The deferred Rollback: a statement failed, the context of the call      *)
(* expired, or the process died.                                           *)
Abort(c) ==
  /\ pc[c] \in InTransaction
  /\ pc' = [pc EXCEPT ![c] = "failed"]
  /\ UNCHANGED <<clock, args, messages, lastMessageAt, readAt, lastRead>>

(* chatRecipients runs after the commit: its failure, or that of the       *)
(* commit's own answer, is the failure of a call that took effect.         *)
LoadRecipients(c) ==
  /\ pc[c] = "recipients"
  /\ pc' = [pc EXCEPT ![c] = "done"]
  /\ UNCHANGED <<clock, args, messages, lastMessageAt, readAt, lastRead>>

LoseAnswer(c) ==
  /\ pc[c] = "recipients"
  /\ pc' = [pc EXCEPT ![c] = "failed"]
  /\ UNCHANGED <<clock, args, messages, lastMessageAt, readAt, lastRead>>

Tick ==
  /\ clock < MaxTime
  /\ clock' = clock + 1
  /\ UNCHANGED <<calls, messages, lastMessageAt, readAt, lastRead>>

SendStep(c) ==
  \/ InsertMessage(c) \/ InsertConflict(c) \/ LoadExisting(c)
  \/ UpdateChat(c) \/ CommitSend(c)

ReadStep(c) ==
  LoadMessage(c) \/ UpsertReceipt(c) \/ UpdateMember(c) \/ CommitRead(c)

BeginCall(c) ==
  \E user \in Users, chat \in Chats :
    \/ \E key \in Keys \cup {NoKey} : BeginSend(c, user, chat, key)
    \/ \E message \in Calls : BeginRead(c, user, chat, message)

Next ==
  \/ Tick
  \/ \E c \in Calls :
       \/ BeginCall(c) \/ SendStep(c) \/ ReadStep(c)
       \/ LoadRecipients(c) \/ Abort(c) \/ LoseAnswer(c)

Spec == Init /\ [][Next]_vars

(* A statement whose lock is free is executed.  Nothing obliges a call to  *)
(* be made, and no call is counted on to fail.                             *)
FairSpec ==
  /\ Spec
  /\ \A c \in Calls : WF_vars(SendStep(c) \/ ReadStep(c) \/ LoadRecipients(c))
-----------------------------------------------------------------------------
(* What GET /chats derives for one member (ListChats): the message shown   *)
(* with a chat, and those counted in unread_count.                         *)
LastMessage(chat) ==
  {row \in messages : /\ row.chat = chat
                      /\ \A other \in messages :
                           other.chat = chat => other.sentAt <= row.sentAt}
Unread(user, chat) ==
  {row \in messages : /\ row.chat = chat /\ row.sender # user
                      /\ row.sentAt > lastRead[<<chat, user>>].at}

ReadBy(user, chat) ==
  {row \in messages : row.chat = chat /\ readAt[<<row.id, user>>] # Never}

Rows == messages \cup {RowOf(c) : c \in {d \in Calls : Inserted(d)}}

(* One message per client_msg_id of a sender in a chat, whatever calls     *)
(* with that identifier overlap, committed or about to be (the unique      *)
(* index and the waiting of ON CONFLICT).                                  *)
IdempotentKey ==
  \A row, other \in Rows :
    /\ row.key # NoKey /\ row.key = other.key
    /\ row.chat = other.chat /\ row.sender = other.sender
    => row = other

Answering(c) == IsSend(c) /\ pc[c] \in {"recipients", "done"}

(* What SendMessage answers is durable and is the caller's own: a message  *)
(* of that chat and sender with that client_msg_id, the same for every     *)
(* retry.                                                                  *)
AnswerIsDurable ==
  \A c \in Calls : Answering(c) =>
    \E row \in messages :
      /\ row.id = args[c].message /\ row.sentAt = args[c].at
      /\ row.chat = args[c].chat /\ row.sender = args[c].user
      /\ row.key = args[c].key
      /\ \A d \in Calls :
           Answering(d) /\ SameKey(row, d) => args[d].message = row.id

(* last_read_at of a member is the time of the newest message it has read, *)
(* whatever order its MarkReads commit in, and last_read_message_id is one *)
(* of those (the GREATEST of MarkRead and the lock of the row).            *)
ReadPosition ==
  \A chat \in Chats : \A user \in Members[chat] :
    LET read == ReadBy(user, chat)
        last == lastRead[<<chat, user>>]
    IN  IF read = {} THEN last = [message |-> None, at |-> Never]
        ELSE /\ \E row \in read : row.id = last.message
             /\ \E row \in read : row.sentAt = last.at
             /\ \A row \in read : row.sentAt <= last.at

(* last_message_at is set as soon as a chat has a message and is the time  *)
(* of one of them, so that ListChats sorts every chat that has messages by *)
(* a message (the update and the insert of SendMessage are one commit).    *)
LastMessageAtExists ==
  \A chat \in Chats :
    LET sent == {row.sentAt : row \in {m \in messages : m.chat = chat}}
    IN  IF sent = {} THEN lastMessageAt[chat] = Never
        ELSE lastMessageAt[chat] \in sent

(* A message that a member has not been counted as behind on is never      *)
(* counted again: unread_count grows by new messages only (MarkRead moves  *)
(* last_read_at forward only).                                             *)
StaysRead ==
  [][\A chat \in Chats : \A user \in Members[chat] :
       Unread(user, chat)' \cap messages \subseteq Unread(user, chat)]_vars

(* The transactions never need the database's deadlock detector: of the    *)
(* calls that are waiting for each other's locks, some one is not.  Every  *)
(* call that has begun ends without failing being counted on.              *)
EveryCallEnds ==
  \A c \in Calls : pc[c] # "idle" ~> pc[c] \in {"done", "failed"}

(* ListChats sorts the chats by last_message_at and shows the newest       *)
(* message beside it: the two are of the same time.                        *)
LastMessageIsNewest ==
  \A chat \in Chats : \A row \in LastMessage(chat) :
    row.sentAt = lastMessageAt[chat]

-----------------------------------------------------------------------------
(* SendMessage implements MessageLog: a message is posted by the commit,   *)
(* and a call is answered when its recipients have been loaded.            *)
Asked ==
  [c \in Calls |->
     IF IsSend(c)
     THEN [user |-> args[c].user, chat |-> args[c].chat, key |-> args[c].key]
     ELSE None]

Answers ==
  [c \in Calls |->
     CASE IsSend(c) /\ pc[c] = "done"   -> args[c].message
       [] IsSend(c) /\ pc[c] = "failed" -> Failed
       [] OTHER                         -> None]

Log == INSTANCE MessageLog
         WITH asked <- Asked, posted <- messages, answer <- Answers

(* Whatever overlaps, fails or is repeated, SendMessage behaves as if each *)
(* message were added in one step, once per client_msg_id (the transaction *)
(* of SendMessage and the unique index).                                   *)
ImplementsLog == Log!Spec
=============================================================================
