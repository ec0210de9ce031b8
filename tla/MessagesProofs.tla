--------------------------- MODULE MessagesProofs ---------------------------
(* What Messages promises of client_msg_id, of read positions and of the   *)
(* time of a chat, and that it implements MessageLog, for any number of    *)
(* calls, users and chats and any clock.                                   *)
EXTENDS Messages, TLAPS

(* The row in the table that a call inserted or found.                     *)
Found(c) ==
  \E row \in messages :
    /\ row.id = args[c].message /\ row.sentAt = args[c].at
    /\ row.chat = args[c].chat /\ row.sender = args[c].user
    /\ row.key = args[c].key

(* The strengthening: a committed row is what its own call still holds, so *)
(* that a row and a call are never confused, and a call that is past its   *)
(* insert holds either its own row or one that is in the table.            *)
RowsInv ==
  \A row \in messages :
    /\ pc[row.id] \in {"recipients", "done", "failed"}
    /\ row = RowOf(row.id)

CallsInv ==
  \A c \in Calls :
    /\ pc[c] \in SendStates => args[c].op = "send" /\ args[c].at \in Time
    /\ pc[c] \in ReadStates => args[c].op = "read"
    /\ IsSend(c) /\ pc[c] \in {"insert", "existing"} => args[c].message = None
    /\ pc[c] \in {"update", "commit"} => Inserted(c) \/ Found(c)
    /\ Answering(c) => Found(c)
    /\ (pc[c] \in {"update", "commit"} \/ Answering(c)) /\ args[c].key = NoKey
       => args[c].message = c

MessagesInv == RowsInv /\ CallsInv /\ IdempotentKey

-----------------------------------------------------------------------------
(* The time of nothing is no time, and less than none.                     *)
LEMMA NeverProperties == Never \notin Time /\ Never \in Int /\ Time \subseteq Nat
BY MessagesAssumption DEF Never, Time

(* A call that is past its update holds the time of a message.             *)
THEOREM TypeCorrect == Spec => []TypeOK
<1> USE MessagesAssumption
<1> DEFINE TInv == /\ TypeOK
                   /\ \A c \in Calls :
                        /\ pc[c] \in SendStates => args[c].at \in Time
                        /\ pc[c] \in {"upsert", "member", "commitRead"} =>
                             /\ args[c].at \in Time /\ args[c].seen \in Time
                             /\ args[c].message \in Calls
                        /\ pc[c] = "load" => args[c].message \in Calls
<1>1. Init => TInv
  BY DEF Init, TypeOK, States, Time, Never, SendStates
<1>2. TInv /\ [Next]_vars => TInv'
  <2> SUFFICES ASSUME TInv, [Next]_vars PROVE TInv'
    OBVIOUS
  <2> USE DEF TypeOK, States, InTransaction, SendStates, ReadStates
  <2>1. CASE Tick
    BY <2>1 DEF Tick, calls, Time
  <2>2. ASSUME NEW c \in Calls, NEW user \in Users, NEW chat \in Chats,
               NEW key \in Keys \cup {NoKey}, BeginSend(c, user, chat, key)
        PROVE  TInv'
    <3> DEFINE new == [op |-> "send", user |-> user, chat |-> chat, key |-> key,
                       message |-> None, at |-> clock, seen |-> Never]
    <3>1. new \in Arguments /\ new.at \in Time
      BY DEF Arguments
    <3>2. args' = [args EXCEPT ![c] = new]
      BY <2>2 DEF BeginSend
    <3> HIDE DEF new
    <3>3. args' \in [Calls -> Arguments \cup {None}] /\ args'[c] # None
      BY <3>1, <3>2, NoneAssumption
    <3> QED
      BY <2>2, <3>1, <3>2, <3>3 DEF BeginSend
  <2>3. ASSUME NEW c \in Calls, NEW user \in Users, NEW chat \in Chats,
               NEW message \in Calls, BeginRead(c, user, chat, message)
        PROVE  TInv'
    <3> DEFINE new == [op |-> "read", user |-> user, chat |-> chat,
                       key |-> NoKey, message |-> message, at |-> Never,
                       seen |-> Never]
    <3>1. new \in Arguments /\ new.message \in Calls
      BY DEF Arguments
    <3>2. args' = [args EXCEPT ![c] = new]
      BY <2>3 DEF BeginRead
    <3> HIDE DEF new
    <3>3. args' \in [Calls -> Arguments \cup {None}] /\ args'[c] # None
      BY <3>1, <3>2, NoneAssumption
    <3> QED
      BY <2>3, <3>1, <3>2, <3>3 DEF BeginRead
  <2>4. ASSUME NEW c \in Calls, InsertMessage(c) PROVE TInv'
    <3> DEFINE new == [args[c] EXCEPT !.message = c]
    <3>1. args[c] \in Arguments /\ args[c].at \in Time
      BY <2>4 DEF InsertMessage
    <3>2. new \in Arguments /\ new.at \in Time
      BY <3>1 DEF Arguments
    <3>3. args' = [args EXCEPT ![c] = new]
      BY <2>4 DEF InsertMessage
    <3> HIDE DEF new
    <3>4. args' \in [Calls -> Arguments \cup {None}] /\ args'[c] = new
      BY <3>2, <3>3
    <3>5. new # None
      BY <3>2, NoneAssumption
    <3> QED
      BY <2>4, <3>2, <3>3, <3>4, <3>5 DEF InsertMessage
  <2>5. ASSUME NEW c \in Calls, InsertConflict(c) PROVE TInv'
    BY <2>5 DEF InsertConflict
  <2>6. ASSUME NEW c \in Calls, LoadExisting(c) PROVE TInv'
    <3>1. PICK row \in messages :
            args' = [args EXCEPT ![c].message = row.id, ![c].at = row.sentAt]
      BY <2>6 DEF LoadExisting, Existing
    <3> DEFINE new == [args[c] EXCEPT !.message = row.id, !.at = row.sentAt]
    <3>2. args[c] \in Arguments
      BY <2>6 DEF LoadExisting
    <3>3. row.id \in Calls /\ row.sentAt \in Time
      BY DEF Row
    <3>4. new \in Arguments /\ new.at \in Time
      BY <3>2, <3>3 DEF Arguments
    <3>5. args' = [args EXCEPT ![c] = new]
      BY <3>1
    <3> HIDE DEF new
    <3>6. args' \in [Calls -> Arguments \cup {None}] /\ args'[c] = new
      BY <3>4, <3>5
    <3>7. new # None
      BY <3>4, NoneAssumption
    <3> QED
      BY <2>6, <3>4, <3>5, <3>6, <3>7 DEF LoadExisting
  <2>7. ASSUME NEW c \in Calls, UpdateChat(c) PROVE TInv'
    BY <2>7 DEF UpdateChat
  <2>8. ASSUME NEW c \in Calls, CommitSend(c) PROVE TInv'
    <3>1. args[c] \in Arguments /\ args[c].at \in Time
      BY <2>8 DEF CommitSend
    <3>2. RowOf(c) \in Row
      BY <3>1 DEF RowOf, Row, Arguments
    <3>3. messages' \subseteq Row
      BY <2>8, <3>2 DEF CommitSend
    <3>4. lastMessageAt' \in [Chats -> Time \cup {Never}]
      BY <2>8, <3>1 DEF CommitSend, Arguments
    <3> QED
      BY <2>8, <3>3, <3>4 DEF CommitSend
  <2>9. ASSUME NEW c \in Calls, LoadMessage(c) PROVE TInv'
    <3>1. CASE UNCHANGED args /\ pc' = [pc EXCEPT ![c] = "failed"]
      BY <2>9, <3>1 DEF LoadMessage
    <3>2. ASSUME NEW row \in messages,
                 args' = [args EXCEPT ![c].at = row.sentAt, ![c].seen = clock],
                 pc' = [pc EXCEPT ![c] = "upsert"]
          PROVE  TInv'
      <4> DEFINE new == [args[c] EXCEPT !.at = row.sentAt, !.seen = clock]
      <4>1. args[c] \in Arguments /\ args[c].message \in Calls
        BY <2>9 DEF LoadMessage
      <4>2. row.sentAt \in Time
        BY DEF Row
      <4>3. /\ new \in Arguments /\ new.at \in Time /\ new.seen \in Time
            /\ new.message \in Calls
        BY <4>1, <4>2 DEF Arguments
      <4>4. args' = [args EXCEPT ![c] = new]
        BY <3>2
      <4> HIDE DEF new
      <4>5. UNCHANGED <<clock, messages, lastMessageAt, readAt, lastRead>>
        BY <2>9 DEF LoadMessage
      <4>6. args' \in [Calls -> Arguments \cup {None}] /\ args'[c] = new
        BY <4>3, <4>4
      <4>7. \A d \in Calls \ {c} : args'[d] = args[d] /\ pc'[d] = pc[d]
        BY <3>2, <4>4
      <4> QED
        BY <3>2, <4>3, <4>5, <4>6, <4>7, NoneAssumption
    <3> QED
      BY <2>9, <3>1, <3>2 DEF LoadMessage
  <2>10. ASSUME NEW c \in Calls, UpsertReceipt(c) PROVE TInv'
    BY <2>10 DEF UpsertReceipt
  <2>11. ASSUME NEW c \in Calls, UpdateMember(c) PROVE TInv'
    BY <2>11 DEF UpdateMember
  <2>12. ASSUME NEW c \in Calls, CommitRead(c) PROVE TInv'
    <3>1. /\ args[c] \in Arguments /\ args[c].at \in Time
          /\ args[c].seen \in Time /\ args[c].message \in Calls
      BY <2>12 DEF CommitRead
    <3>2. readAt' \in [Calls \X Users -> Time \cup {Never}]
      BY <2>12, <3>1 DEF CommitRead, Arguments
    <3>3. lastRead' \in [Chats \X Users -> [message : Calls \cup {None},
                                            at : Time \cup {Never}]]
      BY <2>12, <3>1 DEF CommitRead, Arguments, Greatest
    <3> QED
      BY <2>12, <3>2, <3>3 DEF CommitRead
  <2>13. ASSUME NEW c \in Calls, Abort(c) \/ LoadRecipients(c) \/ LoseAnswer(c)
         PROVE  TInv'
    BY <2>13 DEF Abort, LoadRecipients, LoseAnswer
  <2>14. CASE UNCHANGED vars
    BY <2>14 DEF vars, calls
  <2> QED
    BY <2>1, <2>2, <2>3, <2>4, <2>5, <2>6, <2>7, <2>8, <2>9, <2>10, <2>11,
       <2>12, <2>13, <2>14
    DEF Next, BeginCall, SendStep, ReadStep
<1> QED
  BY <1>1, <1>2, PTL DEF Spec

-----------------------------------------------------------------------------
(* A step of a call that is not over, in which the call inserts no row and *)
(* the table does not change, keeps the rows and the uniqueness of keys.   *)
LEMMA NoNewRow ==
  ASSUME TypeOK, RowsInv, IdempotentKey, NEW c \in Calls,
         pc[c] \notin {"recipients", "done", "failed"},
         messages' = messages, pc' \in [Calls -> States],
         \A d \in Calls \ {c} : pc'[d] = pc[d] /\ args'[d] = args[d],
         Inserted(c)' => Inserted(c) /\ args'[c] = args[c]
  PROVE  RowsInv' /\ IdempotentKey'
<1>1. \A d \in Calls \ {c} : RowOf(d)' = RowOf(d) /\ Inserted(d)' = Inserted(d)
  BY DEF RowOf, Inserted
<1>2. \A row \in messages : row.id \in Calls \ {c}
  BY DEF RowsInv, TypeOK, Row
<1>3. RowsInv'
  BY <1>1, <1>2 DEF RowsInv
<1>4. Inserted(c)' => RowOf(c)' = RowOf(c)
  BY DEF RowOf
<1>5. Rows' \subseteq Rows
  BY <1>1, <1>4 DEF Rows
<1> QED
  BY <1>3, <1>5 DEF IdempotentKey

(* A step that only moves the pc of a call that is answered or has failed. *)
LEMMA FinalStep ==
  ASSUME TypeOK, RowsInv, IdempotentKey, NEW c \in Calls,
         pc[c] = "recipients", NEW p \in {"done", "failed"},
         pc' = [pc EXCEPT ![c] = p], UNCHANGED <<args, messages>>
  PROVE  RowsInv' /\ IdempotentKey'
<1>1. \A d \in Calls : RowOf(d)' = RowOf(d) /\ Inserted(d)' = Inserted(d)
  BY DEF RowOf, Inserted, TypeOK
<1>2. RowsInv'
  BY <1>1 DEF RowsInv, TypeOK, Row
<1>3. Rows' = Rows
  BY <1>1 DEF Rows
<1> QED
  BY <1>2, <1>3 DEF IdempotentKey

(* A row found in the table stays there, so that other calls keep theirs.  *)
LEMMA OthersKeepRows ==
  ASSUME TypeOK, CallsInv, NEW c \in Calls, messages \subseteq messages',
         \A d \in Calls \ {c} : pc'[d] = pc[d] /\ args'[d] = args[d],
         /\ pc'[c] \in SendStates => args'[c].op = "send" /\ args'[c].at \in Time
         /\ pc'[c] \in ReadStates => args'[c].op = "read"
         /\ IsSend(c)' /\ pc'[c] \in {"insert", "existing"} =>
              args'[c].message = None
         /\ pc'[c] \in {"update", "commit"} => Inserted(c)' \/ Found(c)'
         /\ Answering(c)' => Found(c)'
         /\ (pc'[c] \in {"update", "commit"} \/ Answering(c)')
               /\ args'[c].key = NoKey => args'[c].message = c
  PROVE  CallsInv'
<1>1. \A d \in Calls \ {c} :
        /\ Inserted(d)' = Inserted(d) /\ IsSend(d)' = IsSend(d)
        /\ Answering(d)' = Answering(d) /\ (Found(d) => Found(d)')
  BY DEF Inserted, IsSend, Answering, Found
<1> QED
  BY <1>1 DEF CallsInv

(* TypeOK and MessagesInv hold in every reachable state.                   *)
LEMMA Invariant == Spec => [](TypeOK /\ MessagesInv)
<1> USE MessagesAssumption, NoneAssumption
<1>1. Init => MessagesInv
  BY DEF Init, MessagesInv, RowsInv, CallsInv, IdempotentKey, Rows, Inserted,
         IsSend, Answering, SendStates, ReadStates
<1>2. TypeOK /\ TypeOK' /\ MessagesInv /\ [Next]_vars => MessagesInv'
  <2> SUFFICES ASSUME TypeOK, TypeOK', MessagesInv, [Next]_vars
               PROVE  MessagesInv'
    OBVIOUS
  <2> USE DEF MessagesInv
  <2>t. pc' \in [Calls -> States]
    BY DEF TypeOK
  <2>1. CASE UNCHANGED <<pc, args, messages>>
    BY <2>1 DEF RowsInv, CallsInv, IdempotentKey, Rows, RowOf, Inserted, IsSend,
                Answering, Found
  <2>2. ASSUME NEW c \in Calls, NEW user \in Users, NEW chat \in Chats,
               NEW key \in Keys \cup {NoKey}, BeginSend(c, user, chat, key)
        PROVE  MessagesInv'
    <3>1. /\ pc[c] = "idle" /\ messages' = messages
          /\ pc'[c] \in {"insert", "failed"}
          /\ args'[c].op = "send" /\ args'[c].message = None
          /\ args'[c].at \in Time
          /\ \A d \in Calls \ {c} : pc'[d] = pc[d] /\ args'[d] = args[d]
      BY <2>2 DEF BeginSend, TypeOK
    <3>2. RowsInv' /\ IdempotentKey'
      BY <2>t, <3>1, NoNewRow DEF Inserted
    <3>3. CallsInv'
      BY <3>1, OthersKeepRows DEF SendStates, ReadStates, IsSend, Answering
    <3> QED
      BY <3>2, <3>3
  <2>3. ASSUME NEW c \in Calls, NEW user \in Users, NEW chat \in Chats,
               NEW message \in Calls, BeginRead(c, user, chat, message)
        PROVE  MessagesInv'
    <3>1. /\ pc[c] = "idle" /\ messages' = messages
          /\ pc'[c] \in {"load", "failed"}
          /\ args'[c].op = "read"
          /\ \A d \in Calls \ {c} : pc'[d] = pc[d] /\ args'[d] = args[d]
      BY <2>3 DEF BeginRead, TypeOK
    <3>2. RowsInv' /\ IdempotentKey'
      BY <2>t, <3>1, NoNewRow DEF Inserted
    <3>3. CallsInv'
      BY <3>1, OthersKeepRows DEF SendStates, ReadStates, IsSend, Answering
    <3> QED
      BY <3>2, <3>3
  <2>4. ASSUME NEW c \in Calls, InsertMessage(c) PROVE MessagesInv'
    <3>1. /\ pc[c] = "insert" /\ messages' = messages /\ pc'[c] = "update"
          /\ args[c].op = "send" /\ args[c].at \in Time
          /\ args[c] \in Arguments
      BY <2>4 DEF InsertMessage, TypeOK, CallsInv, SendStates
    <3>2. /\ args'[c] = [args[c] EXCEPT !.message = c]
          /\ \A d \in Calls \ {c} : pc'[d] = pc[d] /\ args'[d] = args[d]
      BY <2>4 DEF InsertMessage, TypeOK
    <3>3. /\ args'[c].message = c /\ args'[c].op = "send"
          /\ args'[c].at = args[c].at /\ args'[c].key = args[c].key
          /\ args'[c].chat = args[c].chat /\ args'[c].user = args[c].user
      BY <3>1, <3>2 DEF Arguments
    <3>4. /\ \A d \in Calls \ {c} :
               RowOf(d)' = RowOf(d) /\ Inserted(d)' = Inserted(d)
          /\ RowOf(c)' = RowOf(c) /\ Inserted(c)' /\ ~Inserted(c)
      BY <3>1, <3>2, <3>3 DEF RowOf, Inserted
    <3>5. RowsInv'
      BY <3>1, <3>2, <3>4 DEF RowsInv, TypeOK, Row
    <3>6. Rows' = Rows \cup {RowOf(c)}
      BY <3>1, <3>4 DEF Rows
    <3>7. \A row \in Rows : ~SameKey(row, c)
      BY <2>4 DEF InsertMessage, KeyLocked, Existing, Rows
    <3>8. IdempotentKey'
      <4>1. \A row \in Rows : ~ (/\ row.key # NoKey /\ row.key = RowOf(c).key
                                 /\ row.chat = RowOf(c).chat
                                 /\ row.sender = RowOf(c).sender)
        BY <3>7 DEF SameKey, RowOf
      <4> QED
        BY <3>6, <4>1 DEF IdempotentKey
    <3>9. CallsInv'
      BY <3>1, <3>2, <3>3, <3>4, OthersKeepRows
      DEF SendStates, ReadStates, IsSend, Answering
    <3> QED
      BY <3>5, <3>8, <3>9
  <2>5. ASSUME NEW c \in Calls, LoadExisting(c) PROVE MessagesInv'
    <3>1. /\ pc[c] = "existing" /\ messages' = messages /\ pc'[c] = "update"
          /\ args[c].op = "send" /\ args[c] \in Arguments
      BY <2>5 DEF LoadExisting, TypeOK, CallsInv, SendStates
    <3>2. PICK row \in Existing(c) :
            args' = [args EXCEPT ![c].message = row.id, ![c].at = row.sentAt]
      BY <2>5 DEF LoadExisting
    <3>3. row \in messages /\ row \in Row /\ SameKey(row, c)
      BY <3>2 DEF Existing, TypeOK
    <3>4. /\ args'[c] = [args[c] EXCEPT !.message = row.id, !.at = row.sentAt]
          /\ \A d \in Calls \ {c} : pc'[d] = pc[d] /\ args'[d] = args[d]
      BY <2>5, <3>2 DEF LoadExisting, TypeOK
    <3>5. /\ args'[c].message = row.id /\ args'[c].op = "send"
          /\ args'[c].at = row.sentAt /\ args'[c].key = row.key
          /\ args'[c].chat = row.chat /\ args'[c].user = row.sender
          /\ row.key # NoKey
      BY <3>1, <3>3, <3>4 DEF Arguments, SameKey
    <3>6. row.id # c
      BY <3>1, <3>3 DEF RowsInv
    <3>7. Found(c)' /\ ~Inserted(c)'
      BY <3>1, <3>3, <3>5, <3>6 DEF Found, Inserted
    <3>8. RowsInv' /\ IdempotentKey'
      BY <2>t, <3>1, <3>4, <3>7, NoNewRow
    <3>9. row.sentAt \in Time
      BY <3>3 DEF Row
    <3>10. CallsInv'
      BY <3>1, <3>4, <3>5, <3>7, <3>9, OthersKeepRows
      DEF SendStates, ReadStates, IsSend, Answering
    <3> QED
      BY <3>8, <3>10
  <2>6. ASSUME NEW c \in Calls, CommitSend(c) PROVE MessagesInv'
    <3>1. /\ pc[c] = "commit" /\ pc'[c] = "recipients" /\ args' = args
          /\ args[c].op = "send"
          /\ \A d \in Calls \ {c} : pc'[d] = pc[d]
      BY <2>6 DEF CommitSend, TypeOK, CallsInv, SendStates
    <3>2. \A d \in Calls : RowOf(d)' = RowOf(d)
      BY <3>1 DEF RowOf
    <3>3. /\ \A d \in Calls \ {c} : Inserted(d)' = Inserted(d)
          /\ ~Inserted(c)'
      BY <3>1 DEF Inserted
    <3>4. messages' = messages \cup (IF Inserted(c) THEN {RowOf(c)} ELSE {})
      BY <2>6 DEF CommitSend
    <3>5. RowOf(c).id = c
      BY DEF RowOf
    <3>6. RowsInv'
      BY <3>1, <3>2, <3>4, <3>5 DEF RowsInv, TypeOK, Row
    <3>7. Rows' = Rows
      BY <3>2, <3>3, <3>4 DEF Rows
    <3>8. IdempotentKey'
      BY <3>7 DEF IdempotentKey
    <3>9. Found(c)'
      <4>1. CASE Inserted(c)
        <5>1. RowOf(c) \in messages'
          BY <3>4, <4>1
        <5>2. /\ RowOf(c).id = args'[c].message /\ RowOf(c).sentAt = args'[c].at
              /\ RowOf(c).chat = args'[c].chat /\ RowOf(c).key = args'[c].key
              /\ RowOf(c).sender = args'[c].user
          BY <3>1, <4>1 DEF RowOf, Inserted
        <5> QED
          BY <5>1, <5>2 DEF Found
      <4>2. CASE ~Inserted(c)
        BY <3>1, <3>4, <4>2 DEF Found, CallsInv
      <4> QED
        BY <4>1, <4>2
    <3>10. CallsInv'
      <4>1. args[c].key = NoKey => args[c].message = c
        BY <3>1 DEF CallsInv
      <4> QED
        BY <3>1, <3>4, <3>9, <4>1, OthersKeepRows
        DEF SendStates, ReadStates, IsSend, Answering
    <3> QED
      BY <3>6, <3>8, <3>10
  <2>7. ASSUME NEW c \in Calls, LoadMessage(c) PROVE MessagesInv'
    <3>1. /\ pc[c] = "load" /\ messages' = messages
          /\ pc'[c] \in {"upsert", "failed"}
          /\ args[c].op = "read" /\ args[c] \in Arguments
          /\ \A d \in Calls \ {c} : pc'[d] = pc[d] /\ args'[d] = args[d]
      BY <2>7 DEF LoadMessage, TypeOK, CallsInv, ReadStates
    <3>2. args'[c].op = "read"
      <4>1. CASE UNCHANGED args
        BY <3>1, <4>1
      <4>2. ASSUME NEW row \in messages,
                   args' = [args EXCEPT ![c].at = row.sentAt, ![c].seen = clock]
            PROVE  args'[c].op = "read"
        <5>1. args'[c] = [args[c] EXCEPT !.at = row.sentAt, !.seen = clock]
          BY <4>2 DEF TypeOK
        <5> QED
          BY <3>1, <5>1 DEF Arguments
      <4> QED
        BY <2>7, <4>1, <4>2 DEF LoadMessage
    <3>3. RowsInv' /\ IdempotentKey'
      BY <2>t, <3>1, NoNewRow DEF Inserted
    <3>4. CallsInv'
      BY <3>1, <3>2, OthersKeepRows DEF SendStates, ReadStates, IsSend, Answering
    <3> QED
      BY <3>3, <3>4
  <2>8. ASSUME NEW c \in Calls,
               \/ InsertConflict(c) \/ UpdateChat(c) \/ Abort(c)
               \/ UpsertReceipt(c) \/ UpdateMember(c) \/ CommitRead(c)
        PROVE  MessagesInv'
    <3>1. /\ pc[c] \in InTransaction /\ messages' = messages /\ args' = args
          /\ \A d \in Calls \ {c} : pc'[d] = pc[d]
          /\ \/ pc[c] = "insert" /\ pc'[c] = "existing"
             \/ pc[c] = "update" /\ pc'[c] = "commit"
             \/ pc[c] \in ReadStates /\ pc'[c] \in {"member", "commitRead", "recipients"}
             \/ pc'[c] = "failed"
      BY <2>8
      DEF InsertConflict, UpdateChat, Abort, UpsertReceipt, UpdateMember,
          CommitRead, TypeOK, InTransaction, SendStates, ReadStates
    <3>2. Inserted(c)' => Inserted(c)
      BY <3>1 DEF Inserted
    <3>3. RowsInv' /\ IdempotentKey'
      BY <2>t, <3>1, <3>2, NoNewRow DEF InTransaction, SendStates, ReadStates
    <3>4. Found(c)' = Found(c)
      BY <3>1 DEF Found
    <3>5. pc[c] = "update" => Inserted(c)' = Inserted(c) \/ pc'[c] = "failed"
      BY <3>1 DEF Inserted, ReadStates
    <3>6. CallsInv'
      BY <3>1, <3>4, <3>5, OthersKeepRows
      DEF SendStates, ReadStates, IsSend, Answering, CallsInv
    <3> QED
      BY <3>3, <3>6
  <2>9. ASSUME NEW c \in Calls, LoadRecipients(c) \/ LoseAnswer(c)
        PROVE  MessagesInv'
    <3>1. PICK p \in {"done", "failed"} :
            /\ pc[c] = "recipients" /\ pc' = [pc EXCEPT ![c] = p]
            /\ UNCHANGED <<args, messages>>
      BY <2>9 DEF LoadRecipients, LoseAnswer
    <3>2. RowsInv' /\ IdempotentKey'
      BY <3>1, FinalStep
    <3>3. CallsInv'
      BY <3>1, OthersKeepRows
      DEF SendStates, ReadStates, IsSend, Answering, CallsInv, Found, TypeOK
    <3> QED
      BY <3>2, <3>3
  <2>10. CASE UNCHANGED vars
    BY <2>1, <2>10 DEF vars, calls
  <2>11. CASE Tick
    BY <2>1, <2>11 DEF Tick, calls
  <2> QED
    BY <2>2, <2>3, <2>4, <2>5, <2>6, <2>7, <2>8, <2>9, <2>10, <2>11
    DEF Next, BeginCall, SendStep, ReadStep
<1> QED
  BY <1>1, <1>2, TypeCorrect, PTL DEF Spec

(* The unique client_msg_id, for every number of overlapping calls.        *)
THEOREM KeysAreIdempotent == Spec => []IdempotentKey
BY Invariant, PTL DEF MessagesInv

(* Every answer of SendMessage is a durable message of its own caller.     *)
THEOREM AnswersAreDurable == Spec => []AnswerIsDurable
<1>1. TypeOK /\ MessagesInv => AnswerIsDurable
  <2> SUFFICES ASSUME TypeOK, MessagesInv, NEW c \in Calls, Answering(c)
               PROVE  \E row \in messages :
                        /\ row.id = args[c].message /\ row.sentAt = args[c].at
                        /\ row.chat = args[c].chat /\ row.sender = args[c].user
                        /\ row.key = args[c].key
                        /\ \A d \in Calls :
                             Answering(d) /\ SameKey(row, d) =>
                               args[d].message = row.id
    BY DEF AnswerIsDurable
  <2>1. PICK row \in messages :
          /\ row.id = args[c].message /\ row.sentAt = args[c].at
          /\ row.chat = args[c].chat /\ row.sender = args[c].user
          /\ row.key = args[c].key
    BY DEF MessagesInv, CallsInv, Found
  <2>2. ASSUME NEW d \in Calls, Answering(d), SameKey(row, d)
        PROVE  args[d].message = row.id
    <3>1. PICK other \in messages :
            /\ other.id = args[d].message /\ other.chat = args[d].chat
            /\ other.sender = args[d].user /\ other.key = args[d].key
      BY <2>2 DEF MessagesInv, CallsInv, Found
    <3>2. row = other
      BY <2>2, <3>1 DEF MessagesInv, IdempotentKey, Rows, SameKey
    <3> QED
      BY <3>1, <3>2
  <2> QED
    BY <2>1, <2>2
<1> QED
  BY <1>1, Invariant, PTL

-----------------------------------------------------------------------------
(* What MessageLog sees of one call.                                       *)
LEMMA Seen ==
  ASSUME NEW c \in Calls
  PROVE  /\ ~IsSend(c) => Asked[c] = None /\ Answers[c] = None
         /\ IsSend(c) => /\ Asked[c] = [user |-> args[c].user,
                                         chat |-> args[c].chat,
                                         key |-> args[c].key]
                         /\ pc[c] = "done" => Answers[c] = args[c].message
                         /\ pc[c] = "failed" => Answers[c] = Failed
                         /\ pc[c] \notin {"done", "failed"} => Answers[c] = None
BY DEF Asked, Answers

(* What a send asks for is not the value of a call that asked nothing.     *)
LEMMA RecordIsNotNone ==
  ASSUME TypeOK, NEW c \in Calls, IsSend(c)
  PROVE  [user |-> args[c].user, chat |-> args[c].chat, key |-> args[c].key] # None
<1>1. args[c] \in Arguments
  BY DEF TypeOK, IsSend
<1> QED
  BY <1>1, NoneAssumption DEF Arguments

(* A step that no send takes a visible part in is a stutter of MessageLog. *)
LEMMA Stutter ==
  ASSUME messages' = messages,
         \A c \in Calls :
           /\ IsSend(c)' = IsSend(c)
           /\ IsSend(c) =>
                /\ args'[c].user = args[c].user /\ args'[c].chat = args[c].chat
                /\ args'[c].key = args[c].key
                /\ pc'[c] = "done" <=> pc[c] = "done"
                /\ pc'[c] = "failed" <=> pc[c] = "failed"
                /\ pc[c] = "done" => args'[c].message = args[c].message
  PROVE  UNCHANGED <<Asked, messages, Answers>>
<1>1. Asked' = Asked
  BY DEF Asked
<1>2. Answers' = Answers
  BY DEF Answers
<1> QED
  BY <1>1, <1>2

(* Every step of SendMessage maps to a step of MessageLog or to none.      *)
THEOREM Refinement == Spec => ImplementsLog
<1> USE MessagesAssumption, NoneAssumption
<1>1. Init => Log!Init
  BY DEF Init, Log!Init, Asked, Answers, IsSend
<1>2. /\ TypeOK /\ TypeOK' /\ MessagesInv /\ MessagesInv' /\ [Next]_vars
      => [Log!Next]_(Log!vars)
  <2> SUFFICES ASSUME TypeOK, TypeOK', MessagesInv, MessagesInv', [Next]_vars
               PROVE  Log!Next \/ UNCHANGED Log!vars
    OBVIOUS
  <2> USE DEF MessagesInv
  <2>1. CASE UNCHANGED <<pc, args, messages>>
    BY <2>1, Stutter DEF IsSend, Log!vars
  <2>2. ASSUME NEW c \in Calls, NEW user \in Users, NEW chat \in Chats,
               NEW key \in Keys \cup {NoKey}, BeginSend(c, user, chat, key)
        PROVE  Log!Ask(c)
    <3> DEFINE send == [user |-> user, chat |-> chat, key |-> key]
    <3>1. /\ pc[c] = "idle" /\ messages' = messages
          /\ pc'[c] = IF user \in Members[chat] THEN "insert" ELSE "failed"
          /\ args'[c].op = "send" /\ args'[c].user = user
          /\ args'[c].chat = chat /\ args'[c].key = key
          /\ \A d \in Calls \ {c} : pc'[d] = pc[d] /\ args'[d] = args[d]
      BY <2>2 DEF BeginSend, TypeOK
    <3>2. ~IsSend(c) /\ IsSend(c)'
      BY <3>1 DEF IsSend
    <3>3. Asked[c] = None
      BY <3>2, Seen
    <3>4. Asked' = [Asked EXCEPT ![c] = send]
      BY <3>1, <3>2 DEF Asked, IsSend
    <3>5. Answers' = [Answers EXCEPT ![c] =
            IF user \in Members[chat] THEN @ ELSE Failed]
      BY <3>1, <3>2 DEF Answers, IsSend
    <3>6. Asked'[c].user = user /\ Asked'[c].chat = chat
      BY <3>4 DEF Asked
    <3>7. send \in Log!Sends
      BY DEF Log!Sends
    <3> QED
      BY <3>1, <3>3, <3>4, <3>5, <3>6, <3>7 DEF Log!Ask
  <2>3. ASSUME NEW c \in Calls, NEW user \in Users, NEW chat \in Chats,
               NEW message \in Calls, BeginRead(c, user, chat, message)
        PROVE  UNCHANGED Log!vars
    <3>1. /\ pc[c] = "idle" /\ messages' = messages /\ args'[c].op = "read"
          /\ \A d \in Calls \ {c} : pc'[d] = pc[d] /\ args'[d] = args[d]
      BY <2>3 DEF BeginRead, TypeOK
    <3> QED
      BY <3>1, Stutter DEF IsSend, Log!vars
  <2>4. ASSUME NEW c \in Calls,
               \/ InsertMessage(c) \/ InsertConflict(c) \/ LoadExisting(c)
               \/ UpdateChat(c)
        PROVE  UNCHANGED Log!vars
    <3>1. /\ pc[c] \in SendStates /\ messages' = messages
          /\ pc'[c] \in SendStates
          /\ args[c] \in Arguments /\ args'[c].op = args[c].op
          /\ args'[c].user = args[c].user /\ args'[c].chat = args[c].chat
          /\ args'[c].key = args[c].key
          /\ \A d \in Calls \ {c} : pc'[d] = pc[d] /\ args'[d] = args[d]
      <4>1. args[c] \in Arguments
        BY <2>4
        DEF TypeOK, InsertMessage, InsertConflict, LoadExisting, UpdateChat
      <4>2. CASE InsertMessage(c)
        <5>1. args'[c] = [args[c] EXCEPT !.message = c]
          BY <4>2 DEF InsertMessage, TypeOK
        <5> QED
          BY <4>1, <4>2, <5>1 DEF InsertMessage, TypeOK, Arguments, SendStates
      <4>3. CASE LoadExisting(c)
        <5>1. PICK row \in Existing(c) :
                args' = [args EXCEPT ![c].message = row.id, ![c].at = row.sentAt]
          BY <4>3 DEF LoadExisting
        <5>2. args'[c] = [args[c] EXCEPT !.message = row.id, !.at = row.sentAt]
          BY <5>1 DEF TypeOK
        <5>3. \A d \in Calls \ {c} : args'[d] = args[d]
          BY <5>1 DEF TypeOK
        <5> QED
          BY <4>1, <4>3, <5>2, <5>3
          DEF LoadExisting, TypeOK, Arguments, SendStates
      <4>4. CASE InsertConflict(c) \/ UpdateChat(c)
        BY <4>1, <4>4 DEF InsertConflict, UpdateChat, TypeOK, SendStates
      <4> QED
        BY <2>4, <4>2, <4>3, <4>4
    <3> QED
      BY <3>1, Stutter DEF IsSend, Log!vars, SendStates
  <2>5. ASSUME NEW c \in Calls, CommitSend(c)
        PROVE  Log!Post(c) \/ UNCHANGED Log!vars
    <3>1. /\ pc[c] = "commit" /\ pc'[c] = "recipients" /\ args' = args
          /\ args[c].op = "send" /\ args[c].at \in Time
          /\ \A d \in Calls \ {c} : pc'[d] = pc[d]
          /\ messages' = messages \cup (IF Inserted(c) THEN {RowOf(c)} ELSE {})
      BY <2>5 DEF CommitSend, TypeOK, CallsInv, SendStates
    <3>2. Asked' = Asked /\ Answers' = Answers
      BY <3>1 DEF Asked, Answers, IsSend
    <3>3. CASE ~Inserted(c)
      BY <3>1, <3>2, <3>3 DEF Log!vars
    <3>4. CASE Inserted(c)
      <4>1. /\ Asked[c] = [user |-> args[c].user, chat |-> args[c].chat,
                           key |-> args[c].key]
            /\ Answers[c] = None
        BY <3>1, Seen DEF IsSend
      <4>2. Asked[c] # None
        BY <3>1, <4>1, RecordIsNotNone DEF IsSend
      <4>3. messages' = messages \cup
              {[id |-> c, chat |-> Asked[c].chat, sender |-> Asked[c].user,
                key |-> Asked[c].key, sentAt |-> args[c].at]}
        BY <3>1, <3>4, <4>1 DEF RowOf
      <4>4. ASSUME NEW row \in messages, row.id = c \/ Log!Fits(row, c)
            PROVE  FALSE
        <5>1. row.id # c
          BY <3>1 DEF RowsInv
        <5>2. /\ row.sender = args[c].user /\ row.chat = args[c].chat
              /\ row.key = args[c].key /\ row.key # NoKey
          BY <4>1, <4>4, <5>1 DEF Log!Fits
        <5>3. row \in Rows /\ RowOf(c) \in Rows
          BY <3>4 DEF Rows
        <5>4. /\ RowOf(c).sender = args[c].user /\ RowOf(c).chat = args[c].chat
              /\ RowOf(c).key = args[c].key /\ RowOf(c).id = c
          BY DEF RowOf
        <5> QED
          BY <5>1, <5>2, <5>3, <5>4 DEF IdempotentKey
      <4> QED
        BY <3>1, <3>2, <4>1, <4>2, <4>3, <4>4 DEF Log!Post
    <3> QED
      BY <3>3, <3>4
  <2>6. ASSUME NEW c \in Calls, ReadStep(c)
        PROVE  UNCHANGED Log!vars
    <3>1. /\ messages' = messages /\ ~IsSend(c) /\ ~IsSend(c)'
          /\ \A d \in Calls \ {c} : pc'[d] = pc[d] /\ args'[d] = args[d]
      <4>1. pc[c] \in ReadStates /\ args[c] \in Arguments /\ args[c].op = "read"
        BY <2>6 DEF ReadStep, LoadMessage, UpsertReceipt, UpdateMember,
                    CommitRead, ReadStates, CallsInv, TypeOK
      <4>2. CASE LoadMessage(c)
        <5>1. CASE UNCHANGED args
          BY <4>1, <4>2, <5>1 DEF LoadMessage, TypeOK, IsSend
        <5>2. ASSUME NEW row \in messages,
                     args' = [args EXCEPT ![c].at = row.sentAt,
                                          ![c].seen = clock]
              PROVE  /\ args'[c].op = "read"
                     /\ \A d \in Calls \ {c} : args'[d] = args[d]
          <6>1. args'[c] = [args[c] EXCEPT !.at = row.sentAt, !.seen = clock]
            BY <5>2 DEF TypeOK
          <6> QED
            BY <4>1, <5>2, <6>1 DEF Arguments, TypeOK
        <5> QED
          BY <4>1, <4>2, <5>1, <5>2 DEF LoadMessage, TypeOK, IsSend
      <4>3. CASE UpsertReceipt(c) \/ UpdateMember(c) \/ CommitRead(c)
        BY <4>1, <4>3
        DEF UpsertReceipt, UpdateMember, CommitRead, TypeOK, IsSend
      <4> QED
        BY <2>6, <4>2, <4>3 DEF ReadStep
    <3> QED
      BY <3>1, Stutter DEF IsSend, Log!vars
  <2>7. ASSUME NEW c \in Calls, Abort(c) \/ LoadRecipients(c) \/ LoseAnswer(c)
        PROVE  Log!Fail(c) \/ Log!Answer(c) \/ UNCHANGED Log!vars
    <3>1. /\ messages' = messages /\ args' = args
          /\ pc[c] \notin {"idle", "done", "failed"}
          /\ \/ pc'[c] = "failed"
             \/ pc[c] = "recipients" /\ pc'[c] = "done"
          /\ \A d \in Calls \ {c} : pc'[d] = pc[d]
      BY <2>7 DEF Abort, LoadRecipients, LoseAnswer, TypeOK, InTransaction,
                  SendStates, ReadStates
    <3>2. CASE ~IsSend(c)
      <4>1. ~IsSend(c)'
        BY <3>1, <3>2 DEF IsSend
      <4> QED
        BY <3>1, <3>2, <4>1, Stutter DEF IsSend, Log!vars
    <3>3. CASE IsSend(c)
      <4>1. /\ Asked[c] = [user |-> args[c].user, chat |-> args[c].chat,
                           key |-> args[c].key]
            /\ Answers[c] = None
        BY <3>1, <3>3, Seen
      <4>2. Asked[c] # None
        BY <3>3, <4>1, RecordIsNotNone
      <4>3. Asked' = Asked
        BY <3>1, <3>3 DEF Asked, IsSend
      <4>4. CASE pc'[c] = "failed"
        <5>1. Answers' = [Answers EXCEPT ![c] = Failed]
          BY <3>1, <3>3, <4>4 DEF Answers, IsSend
        <5> QED
          BY <3>1, <4>1, <4>2, <4>3, <5>1 DEF Log!Fail
      <4>5. CASE pc[c] = "recipients" /\ pc'[c] = "done"
        <5>1. Answers' = [Answers EXCEPT ![c] = args[c].message]
          BY <3>1, <3>3, <4>5 DEF Answers, IsSend
        <5>2. Answering(c)
          BY <3>3, <4>5 DEF Answering
        <5>3. PICK row \in messages :
                /\ row.id = args[c].message /\ row.chat = args[c].chat
                /\ row.sender = args[c].user /\ row.key = args[c].key
          BY <5>2 DEF CallsInv, Found
        <5>4. row.key = NoKey => row.id = c
          BY <5>2, <5>3 DEF CallsInv
        <5>5. Log!Fits(row, c)
          BY <4>1, <5>3, <5>4 DEF Log!Fits
        <5> QED
          BY <3>1, <4>1, <4>2, <4>3, <5>1, <5>3, <5>5 DEF Log!Answer
      <4> QED
        BY <3>1, <4>4, <4>5
    <3> QED
      BY <3>2, <3>3
  <2>8. CASE UNCHANGED vars \/ Tick
    BY <2>1, <2>8 DEF vars, Tick, calls
  <2> QED
    BY <2>2, <2>3, <2>4, <2>5, <2>6, <2>7, <2>8
    DEF Next, BeginCall, SendStep, Log!Next
<1> QED
  BY <1>1, <1>2, Invariant, PTL DEF Spec, ImplementsLog, Log!Spec
-----------------------------------------------------------------------------
(* LastMessageAtExists without its set of times.                           *)
TimeOfMessage(chat) ==
  \/ lastMessageAt[chat] = Never /\ \A row \in messages : row.chat # chat
  \/ \E row \in messages : row.chat = chat /\ row.sentAt = lastMessageAt[chat]

(* TimeOfMessage says the same, chat by chat.                              *)
LEMMA TimesOfMessages ==
  LastMessageAtExists <=> \A chat \in Chats : TimeOfMessage(chat)
<1> DEFINE Sent(chat) == {row.sentAt : row \in {m \in messages : m.chat = chat}}
<1>1. \A chat : Sent(chat) = {} <=> \A row \in messages : row.chat # chat
  OBVIOUS
<1>2. \A chat, t : t \in Sent(chat) <=> \E row \in messages : row.chat = chat /\ row.sentAt = t
  OBVIOUS
<1>3. LastMessageAtExists <=>
        \A chat \in Chats : IF Sent(chat) = {} THEN lastMessageAt[chat] = Never
                            ELSE lastMessageAt[chat] \in Sent(chat)
  BY DEF LastMessageAtExists
<1> HIDE DEF Sent
<1> QED
  BY <1>1, <1>2, <1>3 DEF TimeOfMessage

(* last_message_at is set by the commit that makes a message visible, to   *)
(* the time of that message or of the one found under its key.             *)
LEMMA CommitSendSetsTime ==
  ASSUME TypeOK, MessagesInv, LastMessageAtExists, NEW c \in Calls, CommitSend(c)
  PROVE  LastMessageAtExists'
<1>1. /\ pc[c] = "commit" /\ args[c] \in Arguments
      /\ messages' = messages \cup (IF Inserted(c) THEN {RowOf(c)} ELSE {})
      /\ lastMessageAt' = [lastMessageAt EXCEPT ![args[c].chat] = args[c].at]
  BY DEF CommitSend, TypeOK
<1>2. RowOf(c).chat = args[c].chat /\ RowOf(c).sentAt = args[c].at
  BY DEF RowOf
<1>3. Inserted(c) \/ Found(c)
  BY <1>1 DEF MessagesInv, CallsInv
<1>4. \E row \in messages' : row.chat = args[c].chat /\ row.sentAt = args[c].at
  BY <1>1, <1>2, <1>3 DEF Found
<1>5. \A chat \in Chats : chat # args[c].chat =>
        \A row : row \in messages' /\ row.chat = chat <=> row \in messages /\ row.chat = chat
  BY <1>1, <1>2
<1>6. args[c].chat \in Chats
  BY <1>1 DEF Arguments
<1>7. /\ lastMessageAt'[args[c].chat] = args[c].at
      /\ \A chat \in Chats : chat # args[c].chat => lastMessageAt'[chat] = lastMessageAt[chat]
  BY <1>1, <1>6 DEF TypeOK
<1>8. \A chat \in Chats : TimeOfMessage(chat)
  BY TimesOfMessages
<1>9. \A chat \in Chats : TimeOfMessage(chat)'
  BY <1>4, <1>5, <1>7, <1>8 DEF TimeOfMessage
<1>10. (\A chat \in Chats : TimeOfMessage(chat))'
  BY <1>9
<1> QED
  BY <1>10, TimesOfMessages, PTL

(* ListChats sorts a chat by the time of one of its messages, for every    *)
(* number of overlapping calls.                                            *)
THEOREM ChatTimeIsOfMessage == Spec => []LastMessageAtExists
<1>1. Init => LastMessageAtExists
  BY DEF Init, LastMessageAtExists
<1>2. TypeOK /\ MessagesInv /\ LastMessageAtExists /\ [Next]_vars => LastMessageAtExists'
  <2> SUFFICES ASSUME TypeOK, MessagesInv, LastMessageAtExists, [Next]_vars
               PROVE  LastMessageAtExists'
    OBVIOUS
  <2>1. CASE UNCHANGED <<messages, lastMessageAt>>
    BY <2>1 DEF LastMessageAtExists
  <2>2. ASSUME NEW c \in Calls, CommitSend(c) PROVE LastMessageAtExists'
    BY <2>2, CommitSendSetsTime
  <2> QED
    BY <2>1, <2>2
    DEF Next, vars, Tick, BeginCall, BeginSend, BeginRead, SendStep, InsertMessage,
        InsertConflict, LoadExisting, UpdateChat, ReadStep, LoadMessage, UpsertReceipt,
        UpdateMember, CommitRead, LoadRecipients, Abort, LoseAnswer
<1> QED
  BY <1>1, <1>2, Invariant, PTL DEF Spec

-----------------------------------------------------------------------------
(* MarkRead.  A call that has loaded its message still holds the time of a *)
(* row of that chat, and only messages in the table have been read.        *)
Reading == {"upsert", "member", "commitRead"}

Loaded(c) ==
  /\ args[c].seen \in Time
  /\ \E row \in messages :
       /\ row.id = args[c].message /\ row.chat = args[c].chat
       /\ row.sentAt = args[c].at

ReadExists ==
  \A m \in Calls : \A user \in Users :
    readAt[<<m, user>>] # Never => \E row \in messages : row.id = m

ReadsInv ==
  /\ \A c \in Calls : pc[c] \in Reading => Loaded(c)
  /\ ReadExists
  /\ ReadPosition

(* A step that commits no receipt: a message that it makes visible has not *)
(* been read by anybody.                                                   *)
LEMMA ReceiptsKept ==
  ASSUME TypeOK, RowsInv, ReadsInv, NEW c \in Calls,
         UNCHANGED <<readAt, lastRead>>, messages \subseteq messages',
         \A row \in messages' \ messages : row.id = c /\ pc[c] = "commit",
         \A d \in Calls \ {c} : pc'[d] = pc[d] /\ args'[d] = args[d],
         pc'[c] \in Reading => Loaded(c)'
  PROVE  ReadsInv'
<1>1. \A d \in Calls : pc'[d] \in Reading => Loaded(d)'
  BY DEF ReadsInv, Loaded
<1>2. ReadExists'
  BY DEF ReadsInv, ReadExists
<1>3. \A user \in Users : \A row \in messages' \ messages : readAt[<<row.id, user>>] = Never
  BY DEF ReadsInv, ReadExists, RowsInv
<1>4. \A chat \in Chats : \A user \in Users : ReadBy(user, chat)' = ReadBy(user, chat)
  BY <1>3 DEF ReadBy
<1>5. ReadPosition'
  BY <1>4, MessagesAssumption DEF ReadsInv, ReadPosition
<1> QED
  BY <1>1, <1>2, <1>5 DEF ReadsInv

(* A receipt and the position of its member are committed together, and    *)
(* GREATEST keeps the newest time whatever order the commits have.         *)
LEMMA CommitReadInv ==
  ASSUME TypeOK, RowsInv, ReadsInv, NEW c \in Calls, CommitRead(c)
  PROVE  ReadsInv'
<1> USE NeverProperties, MessagesAssumption
<1>1. /\ pc[c] = "commitRead" /\ args[c] \in Arguments /\ Loaded(c)
      /\ pc' = [pc EXCEPT ![c] = "recipients"]
      /\ UNCHANGED <<clock, args, messages, lastMessageAt>>
  BY DEF CommitRead, TypeOK, ReadsInv, Reading
<1>2. PICK chat \in Chats, user \in Users, row \in messages :
        /\ chat = args[c].chat /\ user = args[c].user
        /\ row.id = args[c].message /\ row.chat = chat /\ row.sentAt = args[c].at
  BY <1>1 DEF Loaded, Arguments
<1>3. row \in Row /\ row.id \in Calls /\ row.sentAt \in Time
  BY DEF TypeOK, Row
<1>4. args[c].seen # Never
  BY <1>1 DEF Loaded
<1>5. readAt' = [readAt EXCEPT ![<<row.id, user>>] = args[c].seen]
  BY <1>2 DEF CommitRead
<1>6. \A m \in Calls : \A u \in Users :
        readAt'[<<m, u>>] = IF m = row.id /\ u = user THEN args[c].seen ELSE readAt[<<m, u>>]
  BY <1>3, <1>5 DEF TypeOK
<1>7. lastRead' = [lastRead EXCEPT ![<<chat, user>>] =
                     [message |-> row.id, at |-> Greatest(@.at, row.sentAt)]]
  BY <1>2 DEF CommitRead
<1>8. \A x \in Chats : \A u \in Users :
        lastRead'[<<x, u>>] =
          IF x = chat /\ u = user
          THEN [message |-> row.id, at |-> Greatest(lastRead[<<x, u>>].at, row.sentAt)]
          ELSE lastRead[<<x, u>>]
  BY <1>7 DEF TypeOK
<1>9. \A d \in Calls : pc'[d] \in Reading => Loaded(d)'
  BY <1>1 DEF ReadsInv, Loaded, Reading, TypeOK
<1>10. ReadExists'
  BY <1>1, <1>6 DEF ReadsInv, ReadExists
<1>11. \A other \in messages : other.id \in Calls /\ (other.id = row.id => other = row)
  BY DEF RowsInv, TypeOK, Row
<1>12. ReadBy(user, chat)' = ReadBy(user, chat) \cup {row}
  BY <1>1, <1>2, <1>4, <1>6, <1>11 DEF ReadBy
<1>13. \A x \in Chats : \A u \in Users :
         x # chat \/ u # user => ReadBy(u, x)' = ReadBy(u, x)
  BY <1>1, <1>2, <1>6, <1>11 DEF ReadBy
<1>14. ASSUME NEW x \in Chats, NEW u \in Members[x]
       PROVE  IF ReadBy(u, x)' = {} THEN lastRead'[<<x, u>>] = [message |-> None, at |-> Never]
              ELSE /\ \E other \in ReadBy(u, x)' : other.id = lastRead'[<<x, u>>].message
                   /\ \E other \in ReadBy(u, x)' : other.sentAt = lastRead'[<<x, u>>].at
                   /\ \A other \in ReadBy(u, x)' : other.sentAt <= lastRead'[<<x, u>>].at
  <2>1. u \in Users
    OBVIOUS
  <2>2. CASE x # chat \/ u # user
    <3>1. ReadBy(u, x)' = ReadBy(u, x)
      BY <1>13, <2>1, <2>2
    <3>2. lastRead'[<<x, u>>] = lastRead[<<x, u>>]
      BY <1>8, <2>1, <2>2
    <3> QED
      BY <3>1, <3>2 DEF ReadsInv, ReadPosition
  <2>3. CASE x = chat /\ u = user
    <3>1. /\ lastRead'[<<x, u>>].message = row.id
          /\ lastRead'[<<x, u>>].at = Greatest(lastRead[<<x, u>>].at, row.sentAt)
      <4>1. lastRead'[<<x, u>>] =
              [message |-> row.id, at |-> Greatest(lastRead[<<x, u>>].at, row.sentAt)]
        BY <1>8, <2>1, <2>3
      <4> QED
        BY <4>1
    <3>2. lastRead[<<x, u>>].at \in Time \cup {Never}
      BY <2>1 DEF TypeOK
    <3>3. \A other \in ReadBy(u, x) : other.sentAt \in Time
      BY DEF ReadBy, TypeOK, Row
    <3>4. IF ReadBy(u, x) = {} THEN lastRead[<<x, u>>].at = Never
          ELSE /\ \E other \in ReadBy(u, x) : other.sentAt = lastRead[<<x, u>>].at
               /\ \A other \in ReadBy(u, x) : other.sentAt <= lastRead[<<x, u>>].at
      BY DEF ReadsInv, ReadPosition
    <3>5. row \in ReadBy(u, x)' /\ ReadBy(u, x)' = ReadBy(u, x) \cup {row}
      BY <1>12, <2>3
    <3>6. \E other \in ReadBy(u, x)' : other.sentAt = lastRead'[<<x, u>>].at
      BY <1>3, <3>1, <3>2, <3>3, <3>4, <3>5 DEF Greatest, Never, Time
    <3>7. \A other \in ReadBy(u, x)' : other.sentAt <= lastRead'[<<x, u>>].at
      BY <1>3, <3>1, <3>2, <3>3, <3>4, <3>5 DEF Greatest, Never, Time
    <3> QED
      BY <3>1, <3>5, <3>6, <3>7
  <2> QED
    BY <2>2, <2>3
<1>15. ReadPosition'
  BY <1>14 DEF ReadPosition
<1> QED
  BY <1>9, <1>10, <1>15 DEF ReadsInv

(* Only LoadMessage hands a call to the statements of MarkRead that wait.  *)
LEMMA LoadMessageInv ==
  ASSUME TypeOK, RowsInv, ReadsInv, NEW c \in Calls, LoadMessage(c)
  PROVE  ReadsInv'
<1>1. /\ UNCHANGED <<readAt, lastRead, messages>>
      /\ \A d \in Calls \ {c} : pc'[d] = pc[d] /\ args'[d] = args[d]
  BY DEF LoadMessage, TypeOK
<1>2. pc'[c] \in Reading => Loaded(c)'
  <2> SUFFICES ASSUME pc'[c] \in Reading PROVE Loaded(c)'
    OBVIOUS
  <2>1. PICK row \in messages :
          /\ row.id = args[c].message /\ row.chat = args[c].chat
          /\ args' = [args EXCEPT ![c].at = row.sentAt, ![c].seen = clock]
    BY DEF LoadMessage, TypeOK, Reading
  <2>2. args[c] \in Arguments /\ clock \in Time
    BY DEF LoadMessage, TypeOK
  <2>3. args'[c] = [args[c] EXCEPT !.at = row.sentAt, !.seen = clock]
    BY <2>1 DEF TypeOK
  <2>4. /\ args'[c].seen = clock /\ args'[c].at = row.sentAt
        /\ args'[c].message = args[c].message /\ args'[c].chat = args[c].chat
    BY <2>2, <2>3 DEF Arguments
  <2> QED
    BY <1>1, <2>1, <2>2, <2>4 DEF Loaded
<1> QED
  BY <1>1, <1>2, ReceiptsKept

(* ReadsInv holds in every reachable state.                                *)
LEMMA ReadsInvariant == Spec => []ReadsInv
<1>1. Init => ReadsInv
  BY MessagesAssumption
  DEF Init, ReadsInv, Reading, ReadExists, ReadPosition, ReadBy
<1>2. TypeOK /\ MessagesInv /\ ReadsInv /\ [Next]_vars => ReadsInv'
  <2> SUFFICES ASSUME TypeOK, RowsInv, ReadsInv, [Next]_vars PROVE ReadsInv'
    BY DEF MessagesInv
  <2>1. CASE UNCHANGED <<pc, args, messages, readAt, lastRead>>
    <3>1. \A chat, user : ReadBy(user, chat)' = ReadBy(user, chat)
      BY <2>1 DEF ReadBy
    <3>2. ReadPosition'
      BY <2>1, <3>1 DEF ReadsInv, ReadPosition
    <3> QED
      BY <2>1, <3>2 DEF ReadsInv, Loaded, ReadExists
  <2>2. ASSUME NEW c \in Calls, BeginCall(c) \/ InsertMessage(c) \/ LoadExisting(c)
        PROVE  ReadsInv'
    <3>1. /\ UNCHANGED <<readAt, lastRead, messages>>
          /\ \A d \in Calls \ {c} : pc'[d] = pc[d] /\ args'[d] = args[d]
          /\ pc'[c] \notin Reading
      BY <2>2
      DEF BeginCall, BeginSend, BeginRead, InsertMessage, LoadExisting, TypeOK, Reading
    <3> QED
      BY <3>1, ReceiptsKept
  <2>3. ASSUME NEW c \in Calls,
               \/ InsertConflict(c) \/ UpdateChat(c) \/ UpsertReceipt(c) \/ UpdateMember(c)
               \/ LoadRecipients(c) \/ Abort(c) \/ LoseAnswer(c)
        PROVE  ReadsInv'
    <3>1. /\ UNCHANGED <<args, readAt, lastRead, messages>>
          /\ \A d \in Calls \ {c} : pc'[d] = pc[d]
          /\ pc'[c] \in Reading => pc[c] \in Reading
      BY <2>3
      DEF InsertConflict, UpdateChat, UpsertReceipt, UpdateMember, LoadRecipients, Abort,
          LoseAnswer, TypeOK, Reading
    <3>2. Loaded(c)' = Loaded(c)
      BY <3>1 DEF Loaded
    <3>3. pc'[c] \in Reading => Loaded(c)'
      BY <3>1, <3>2 DEF ReadsInv
    <3> QED
      BY <3>1, <3>3, ReceiptsKept
  <2>4. ASSUME NEW c \in Calls, CommitSend(c) PROVE ReadsInv'
    <3>1. /\ UNCHANGED <<args, readAt, lastRead>> /\ pc[c] = "commit"
          /\ \A d \in Calls \ {c} : pc'[d] = pc[d]
          /\ pc'[c] \notin Reading
          /\ messages \subseteq messages' /\ messages' \subseteq messages \cup {RowOf(c)}
      BY <2>4 DEF CommitSend, TypeOK, Reading
    <3>2. RowOf(c).id = c
      BY DEF RowOf
    <3>3. \A row \in messages' \ messages : row.id = c
      BY <3>1, <3>2
    <3> QED
      BY <3>1, <3>3, ReceiptsKept
  <2>5. ASSUME NEW c \in Calls, LoadMessage(c) PROVE ReadsInv'
    BY <2>5, LoadMessageInv
  <2>6. ASSUME NEW c \in Calls, CommitRead(c) PROVE ReadsInv'
    BY <2>6, CommitReadInv
  <2> QED
    BY <2>1, <2>2, <2>3, <2>4, <2>5, <2>6
    DEF Next, vars, calls, Tick, SendStep, ReadStep
<1> QED
  BY <1>1, <1>2, Invariant, PTL DEF Spec

(* last_read_at is the time of the newest message that the member has      *)
(* read, for every number of overlapping calls of MarkRead.                *)
THEOREM PositionIsNewestRead == Spec => []ReadPosition
BY ReadsInvariant, PTL DEF ReadsInv

(* What a member has not been counted as behind on is never counted again. *)
THEOREM ReadStaysRead == Spec => StaysRead
<1>1. TypeOK /\ TypeOK' /\ [Next]_vars =>
        [\A chat \in Chats : \A user \in Members[chat] :
           Unread(user, chat)' \cap messages \subseteq Unread(user, chat)]_vars
  <2> SUFFICES ASSUME TypeOK, TypeOK', [Next]_vars, NEW chat \in Chats,
                      NEW user \in Members[chat], NEW row \in messages,
                      row \in Unread(user, chat)'
               PROVE  row \in Unread(user, chat)
    OBVIOUS
  <2>1. user \in Users
    BY MessagesAssumption
  <2>2. lastRead'[<<chat, user>>].at >= lastRead[<<chat, user>>].at
    <3>1. /\ lastRead[<<chat, user>>].at \in Time \cup {Never}
          /\ lastRead'[<<chat, user>>].at \in Time \cup {Never}
      BY <2>1 DEF TypeOK
    <3>2. CASE UNCHANGED lastRead
      BY <3>1, <3>2 DEF Never, Time
    <3>3. ASSUME NEW c \in Calls, CommitRead(c)
          PROVE  lastRead'[<<chat, user>>].at >= lastRead[<<chat, user>>].at
      <4>1. lastRead' = [lastRead EXCEPT ![<<args[c].chat, args[c].user>>] =
                           [message |-> args[c].message, at |-> Greatest(@.at, args[c].at)]]
        BY <3>3 DEF CommitRead
      <4>2. \/ lastRead'[<<chat, user>>] = lastRead[<<chat, user>>]
            \/ lastRead'[<<chat, user>>].at = Greatest(lastRead[<<chat, user>>].at, args[c].at)
        BY <2>1, <4>1 DEF TypeOK
      <4>3. args[c].at \in Time \cup {Never}
        BY <3>3 DEF CommitRead, TypeOK, Arguments
      <4> QED
        BY <3>1, <4>2, <4>3 DEF Greatest, Never, Time
    <3> QED
      BY <3>2, <3>3
      DEF Next, vars, Tick, BeginCall, BeginSend, BeginRead, SendStep, InsertMessage,
          InsertConflict, LoadExisting, UpdateChat, CommitSend, ReadStep, LoadMessage,
          UpsertReceipt, UpdateMember, LoadRecipients, Abort, LoseAnswer
  <2>3. /\ row.sentAt \in Time
        /\ lastRead[<<chat, user>>].at \in Time \cup {Never}
        /\ lastRead'[<<chat, user>>].at \in Time \cup {Never}
    BY <2>1 DEF TypeOK, Row
  <2>4. row.chat = chat /\ row.sender # user /\ row.sentAt > lastRead'[<<chat, user>>].at
    BY DEF Unread
  <2>5. row.sentAt > lastRead[<<chat, user>>].at
    BY <2>2, <2>3, <2>4 DEF Never, Time
  <2> QED
    BY <2>4, <2>5 DEF Unread
<1> QED
  BY <1>1, TypeCorrect, PTL DEF Spec, StaysRead
=============================================================================
