--------------------------- MODULE DeliveryProofs ---------------------------
(* Which messages a member of a chat can miss, and what it is told of, for *)
(* every set of calls, users, chats and connections and any number of      *)
(* restarts.                                                               *)
EXTENDS Delivery, TLAPS, FiniteSetTheorems, FunctionTheorems

(* The part of the types the argument needs.                               *)
Types ==
  /\ asked \in [Calls -> Store!Sends \cup {None}]
  /\ answer \in [Calls -> Calls \cup {None, Failed}]
  /\ published \in Seq(Announcement) /\ taken \in 0..Len(published)
  /\ state \in [Clients -> {"absent", "open", "closed"}]
  /\ joined \in [Clients -> 0..taken]
  /\ DOMAIN loaded = Clients
  /\ announcing \subseteq Calls

(* A call that is answered was asked, and is answered with a committed     *)
(* message, so that no later commit is of a message somebody was told of.  *)
AnswersArePosted ==
  /\ \A row \in posted : row.id \in Calls
  /\ \A c \in Calls : answer[c] \in Calls =>
       /\ asked[c] # None
       /\ \E row \in posted : row.id = answer[c]
  /\ \A c \in announcing : answer[c] \in Calls /\ asked[c] \in Store!Sends

(* What an open connection did not load of the answered messages of its    *)
(* chats comes after it was registered, in the order of the hub.           *)
LoadedOrComing ==
  \A d \in Clients : state[d] = "open" /\ loaded[d] # None =>
    \A row \in Of(d), c \in Calls :
      AnsweredOver(c) /\ answer[c] = row.id => row.id \in loaded[d] \cup Coming(d)

Inv ==
  /\ Types
  /\ AnswersArePosted
  /\ \A d \in Clients : state[d] = "absent" => loaded[d] = None
  /\ LoadedOrComing

-----------------------------------------------------------------------------
(* What a connection has already been given is among what was to come      *)
(* when it was registered, so the invariant is the stronger statement.     *)
LEMMA InvSuffices == Inv => OnlySilentSendsAreMissed
BY DEF Inv, LoadedOrComing, OnlySilentSendsAreMissed, Known

(* The initial states satisfy the invariant.                               *)
LEMMA InitInv == Init => Inv
<1> SUFFICES ASSUME Init PROVE Inv
  OBVIOUS
<1>1. Types
  BY DeliveryAssumption DEF Init, Store!Init, Stream!Init, Types
<1>2. AnswersArePosted
  BY DeliveryAssumption DEF Init, Store!Init, AnswersArePosted
<1>3. \A d \in Clients : state[d] = "absent" /\ loaded[d] = None
  BY DEF Init, Stream!Init
<1> QED
  BY <1>1, <1>2, <1>3 DEF Inv, LoadedOrComing

-----------------------------------------------------------------------------
(* The steps of the store.                                                 *)

(* A call that is asked, over a connection or not, is not answered yet.    *)
LEMMA AskInv ==
  ASSUME Inv, NEW c \in Calls, Store!Ask(c),
         UNCHANGED <<hub, announcing, loaded>>,
         \A x \in Calls : x # c => via'[x] = via[x]
  PROVE  Inv'
<1>1. asked[c] = None /\ answer[c] \notin Calls
  BY DEF Inv, AnswersArePosted, Store!Ask
<1>2. /\ \A x \in Calls : x # c => asked'[x] = asked[x] /\ answer'[x] = answer[x]
      /\ asked'[c] \in Store!Sends
      /\ answer'[c] \notin Calls
      /\ answer'[c] \in {answer[c], Failed}
  BY <1>1, DeliveryAssumption DEF Store!Ask, Inv, Types
<1>3. Types'
  BY <1>2 DEF Inv, Types, Store!Ask, hub
<1>4. AnswersArePosted'
  BY <1>1, <1>2 DEF Inv, Types, AnswersArePosted, Store!Ask
<1>5. LoadedOrComing'
  <2>1. \A d \in Clients : Coming(d)' = Coming(d)
    <3>1. \A x \in announcing : x \in Calls /\ x # c
      BY <1>1 DEF Inv, Types, AnswersArePosted
    <3> QED
      BY <3>1, <1>2 DEF Coming, hub
  <2>2. \A x \in Calls : AnsweredOver(x)' => AnsweredOver(x) /\ answer'[x] = answer[x]
    BY <1>2 DEF AnsweredOver
  <2> QED
    BY <2>1, <2>2 DEF Inv, LoadedOrComing, Of, Store!Ask, hub
<1> QED
  BY <1>3, <1>4, <1>5 DEF Inv, hub

(* A new message has a new id, with which no call has been answered.       *)
LEMMA PostInv ==
  ASSUME Inv, NEW c \in Calls, Post(c)
  PROVE  Inv'
<1> DEFINE row == [id |-> c, chat |-> asked[c].chat, sender |-> asked[c].user,
                   key |-> asked[c].key, sentAt |-> 0]
<1>1. posted' = posted \cup {row} /\ row.id = c
  BY DEF Post, Store!Post
<1> HIDE DEF row
<1>2. \A x \in Calls : answer[x] # c
  BY DEF Inv, AnswersArePosted, Post, Store!Post
<1>3. Types' /\ \A d \in Clients : (state[d] = "absent" => loaded[d] = None)'
  BY DEF Inv, Types, Post, Store!Post, hub
<1>4. AnswersArePosted'
  BY <1>1 DEF Inv, AnswersArePosted, Post, Store!Post
<1>5. LoadedOrComing'
  <2>1. \A d \in Clients : Coming(d)' = Coming(d)
    BY DEF Coming, Post, Store!Post, hub
  <2>2. \A d \in Clients : Of(d)' \subseteq Of(d) \cup {row}
    BY <1>1 DEF Of
  <2> QED
    BY <1>1, <1>2, <2>1, <2>2
    DEF Inv, LoadedOrComing, AnsweredOver, Post, Store!Post, hub
<1> QED
  BY <1>3, <1>4, <1>5 DEF Inv

(* The answer of a call over a connection is on its way to the listeners.  *)
LEMMA AnswerInv ==
  ASSUME Inv, NEW c \in Calls, Answer(c)
  PROVE  Inv'
<1>1. PICK row \in posted : answer' = [answer EXCEPT ![c] = row.id]
  BY DEF Answer, Store!Answer
<1>2. /\ asked[c] # None /\ answer[c] = None /\ c \notin announcing
      /\ UNCHANGED <<asked, posted, hub, via, loaded>>
      /\ announcing' = announcing \cup (IF via[c] = Rest THEN {} ELSE {c})
  BY DeliveryAssumption DEF Answer, Store!Answer, Inv, AnswersArePosted
<1>3. /\ row.id \in Calls
      /\ answer'[c] = row.id
      /\ \A x \in Calls : x # c => answer'[x] = answer[x]
  BY <1>1 DEF Inv, Types, AnswersArePosted
<1>4. Types'
  BY <1>1, <1>2, <1>3 DEF Inv, Types, hub
<1>5. AnswersArePosted'
  BY <1>2, <1>3 DEF Inv, Types, AnswersArePosted
<1>6. LoadedOrComing'
  <2>1. \A d \in Clients : Coming(d) \subseteq Coming(d)'
    BY <1>2, <1>3 DEF Coming, Inv, Types, hub
  <2>2. \A d \in Clients : via[c] \in Clients => answer'[c] \in Coming(d)'
    BY <1>2, DeliveryAssumption DEF Coming
  <2>3. ASSUME NEW d \in Clients, state[d] = "open", loaded[d] # None,
               NEW r \in Of(d), NEW x \in Calls, AnsweredOver(x)', answer'[x] = r.id
        PROVE  r.id \in loaded[d] \cup Coming(d)'
    <3>1. CASE x = c
      BY <3>1, <2>2, <2>3, <1>2 DEF AnsweredOver
    <3>2. CASE x # c
      BY <3>2, <2>1, <2>3, <1>2, <1>3 DEF AnsweredOver, Inv, LoadedOrComing
    <3> QED
      BY <3>1, <3>2
  <2> QED
    BY <2>3, <1>2 DEF LoadedOrComing, Of, hub
<1> QED
  BY <1>2, <1>4, <1>5, <1>6 DEF Inv, hub

(* A call that fails is never announced.                                   *)
LEMMA FailInv ==
  ASSUME Inv, NEW c \in Calls, Fail(c)
  PROVE  Inv'
<1>1. /\ c \notin announcing
      /\ answer'[c] = Failed
      /\ \A x \in Calls : x # c => answer'[x] = answer[x]
      /\ UNCHANGED <<asked, posted, hub, via, announcing, loaded>>
  BY DeliveryAssumption DEF Inv, Types, AnswersArePosted, Fail, Store!Fail
<1>2. Types' /\ AnswersArePosted'
  BY <1>1, DeliveryAssumption
  DEF Inv, Types, AnswersArePosted, Fail, Store!Fail, hub
<1>3. \A d \in Clients : Coming(d)' = Coming(d)
  BY <1>1 DEF Coming, Inv, Types, hub
<1>4. \A x \in Calls : AnsweredOver(x)' => AnsweredOver(x) /\ answer'[x] = answer[x]
  BY <1>1, DeliveryAssumption DEF AnsweredOver
<1> QED
  BY <1>1, <1>2, <1>3, <1>4 DEF Inv, LoadedOrComing, Of, hub

-----------------------------------------------------------------------------
(* The steps of the hub and of the connections.                            *)

(* What was in the hands of a readPump is in the channel.                  *)
LEMMA AnnounceInv ==
  ASSUME Inv, NEW c \in Calls, Announce(c)
  PROVE  Inv'
<1> DEFINE e == [id |-> answer[c], chat |-> asked[c].chat]
<1>1. /\ published' = Append(published, e)
      /\ announcing' = announcing \ {c}
      /\ UNCHANGED <<store, taken, state, joined, given, via, loaded>>
  BY DEF Announce, Stream!Publish
<1>2. e \in Announcement
  BY DEF Inv, AnswersArePosted, Announce, Announcement, Store!Sends
<1>3. /\ published' \in Seq(Announcement)
      /\ Len(published') = Len(published) + 1
      /\ published'[Len(published) + 1] = e
      /\ \A k \in 1..Len(published) : published'[k] = published[k]
  BY <1>1, <1>2 DEF Inv, Types
<1>4. Types'
  BY <1>1, <1>3 DEF Inv, Types, store
<1>5. AnswersArePosted'
  BY <1>1 DEF Inv, AnswersArePosted, store
<1>6. \A d \in Clients : Coming(d) \subseteq Coming(d)'
  <2> SUFFICES ASSUME NEW d \in Clients, NEW m \in Coming(d)
               PROVE  m \in Coming(d)'
    OBVIOUS
  <2> joined[d] \in Nat /\ joined[d] <= Len(published) /\ joined'[d] = joined[d]
      /\ Len(published) \in Nat
    BY <1>1 DEF Inv, Types
  <2>1. CASE m = answer[c]
    <3>1. Len(published) + 1 \in (joined[d] + 1)..Len(published')
      BY <1>3
    <3>2. published'[Len(published) + 1].id = m
      BY <1>3, <2>1
    <3> QED
      BY <3>1, <3>2 DEF Coming
  <2>2. CASE \E x \in announcing : x # c /\ m = answer[x]
    BY <2>2, <1>1 DEF Coming, store
  <2>3. CASE \E k \in (joined[d] + 1)..Len(published) : m = published[k].id
    <3>1. PICK k \in (joined[d] + 1)..Len(published) : m = published[k].id
      BY <2>3
    <3>2. k \in (joined'[d] + 1)..Len(published') /\ published'[k].id = m
      BY <3>1, <1>3
    <3> QED
      BY <3>2 DEF Coming
  <2> QED
    BY <2>1, <2>2, <2>3 DEF Coming
<1> QED
  BY <1>1, <1>4, <1>5, <1>6 DEF Inv, LoadedOrComing, Of, AnsweredOver, store

(* Run moves on, hands out or closes: nothing that is coming changes.      *)
LEMMA HubInv ==
  ASSUME Inv, UNCHANGED <<store, via, announcing, loaded>>,
         \/ Stream!Take
         \/ \E d \in Clients : Stream!Join(d) \/ Stream!Give(d) \/ Stream!Close(d)
  PROVE  Inv'
<1>1. AnswersArePosted'
  BY DEF Inv, AnswersArePosted, store
<1>2. /\ published' = published
      /\ \A d \in Clients : Of(d)' = Of(d)
      /\ \A c \in Calls : AnsweredOver(c)' = AnsweredOver(c)
  BY DEF Of, AnsweredOver, store, Stream!Take, Stream!Join, Stream!Give, Stream!Close
<1>3. CASE Stream!Take
  <2>1. Types'
    BY <1>3 DEF Inv, Types, Stream!Take, store
  <2> QED
    BY <2>1, <1>1, <1>2, <1>3 DEF Inv, LoadedOrComing, Coming, Stream!Take, store
<1>4. ASSUME NEW d \in Clients, Stream!Join(d) PROVE Inv'
  <2>1. Types'
    BY <1>4 DEF Inv, Types, Stream!Join, store
  <2>2. loaded[d] = None
    BY <1>4 DEF Inv, Stream!Join
  <2>3. \A x \in Clients : x # d => state'[x] = state[x] /\ joined'[x] = joined[x]
    BY <1>4 DEF Inv, Types, Stream!Join
  <2>4. \A x \in Clients : state'[x] = "absent" => state[x] = "absent"
    BY <1>4 DEF Inv, Types, Stream!Join
  <2>5. LoadedOrComing'
    BY <2>2, <2>3, <1>2 DEF Inv, LoadedOrComing, Coming, store
  <2> QED
    BY <2>1, <2>4, <2>5, <1>1 DEF Inv
<1>5. ASSUME NEW d \in Clients, Stream!Give(d) PROVE Inv'
  <2>1. UNCHANGED <<published, taken, state, joined>>
    BY <1>5 DEF Stream!Give
  <2>2. Types'
    BY <2>1 DEF Inv, Types, store
  <2> QED
    BY <2>1, <2>2, <1>1, <1>2 DEF Inv, LoadedOrComing, Coming, store
<1>6. ASSUME NEW d \in Clients, Stream!Close(d) PROVE Inv'
  <2>1. UNCHANGED <<published, taken, joined>>
    BY <1>6 DEF Stream!Close
  <2>2. Types'
    BY <1>6 DEF Inv, Types, Stream!Close, store
  <2>3. \A x \in Clients : state'[x] \in {state[x], "closed"}
    BY <1>6 DEF Inv, Types, Stream!Close
  <2> QED
    BY <2>1, <2>2, <2>3, <1>1, <1>2 DEF Inv, LoadedOrComing, Coming, store
<1> QED
  BY <1>3, <1>4, <1>5, <1>6

(* A client that loads finds all that is committed, and so all that has    *)
(* been answered.                                                          *)
LEMMA LoadHistoryInv ==
  ASSUME Inv, NEW d \in Clients, LoadHistory(d)
  PROVE  Inv'
<1>1. /\ loaded'[d] = {row.id : row \in Of(d)} /\ state[d] = "open"
      /\ \A x \in Clients : x # d => loaded'[x] = loaded[x]
      /\ DOMAIN loaded' = Clients
      /\ UNCHANGED <<store, hub, via, announcing>>
  BY DEF Inv, Types, LoadHistory
<1>2. Types' /\ AnswersArePosted'
  BY <1>1 DEF Inv, Types, AnswersArePosted, store, hub
<1>3. \A x \in Clients : Of(x)' = Of(x) /\ Coming(x)' = Coming(x)
  BY <1>1 DEF Of, Coming, store, hub
<1>4. \A c \in Calls : AnsweredOver(c)' = AnsweredOver(c)
  BY <1>1 DEF AnsweredOver, store
<1>5. LoadedOrComing'
  BY <1>1, <1>3, <1>4 DEF Inv, LoadedOrComing, store, hub
<1> QED
  BY <1>1, <1>2, <1>5 DEF Inv, hub

(* No connection outlives the process, and the tables do.                  *)
LEMMA CrashInv ==
  ASSUME Inv, Crash
  PROVE  Inv'
<1>1. /\ asked' = asked /\ posted' = posted /\ taken' = taken
      /\ joined' = joined /\ loaded' = loaded /\ announcing' = {}
      /\ published' = SubSeq(published, 1, taken)
      /\ answer' = [c \in Calls |-> IF asked[c] # None /\ answer[c] = None
                                    THEN Failed ELSE answer[c]]
      /\ state' = [d \in Clients |-> IF state[d] = "open" THEN "closed" ELSE state[d]]
  BY DEF Crash
<1>2. published' \in Seq(Announcement) /\ Len(published') = taken
  BY <1>1 DEF Inv, Types
<1>3. Types'
  BY <1>1, <1>2 DEF Inv, Types
<1>4. AnswersArePosted'
  BY <1>1, DeliveryAssumption DEF Inv, AnswersArePosted
<1>5. \A d \in Clients : /\ state'[d] # "open"
                         /\ state'[d] = "absent" => state[d] = "absent"
  BY <1>1 DEF Inv, Types
<1> QED
  BY <1>1, <1>3, <1>4, <1>5 DEF Inv, LoadedOrComing

-----------------------------------------------------------------------------
(* Every step preserves the invariant.                                     *)
LEMMA NextInv == Inv /\ [Next]_vars => Inv'
<1> SUFFICES ASSUME Inv, [Next]_vars PROVE Inv'
  OBVIOUS
<1>1. CASE Crash
  BY <1>1, CrashInv
<1>2. CASE Take
  BY <1>2, HubInv DEF Take
<1>3. ASSUME NEW c \in Calls, SendByRest(c) PROVE Inv'
  BY <1>3, AskInv DEF SendByRest
<1>4. ASSUME NEW c \in Calls, NEW d \in Clients, SendByConnection(c, d) PROVE Inv'
  <2>1. \A x \in Calls : x # c => via'[x] = via[x]
    BY <1>4 DEF SendByConnection
  <2> QED
    BY <1>4, <2>1, AskInv DEF SendByConnection
<1>5. ASSUME NEW c \in Calls, Post(c) PROVE Inv'
  BY <1>5, PostInv
<1>6. ASSUME NEW c \in Calls, Answer(c) PROVE Inv'
  BY <1>6, AnswerInv
<1>7. ASSUME NEW c \in Calls, Fail(c) PROVE Inv'
  BY <1>7, FailInv
<1>8. ASSUME NEW c \in Calls, Announce(c) PROVE Inv'
  BY <1>8, AnnounceInv
<1>9. ASSUME NEW d \in Clients, Join(d) \/ Give(d) \/ Close(d) PROVE Inv'
  BY <1>9, HubInv DEF Join, Give, Close
<1>10. ASSUME NEW d \in Clients, LoadHistory(d) PROVE Inv'
  BY <1>10, LoadHistoryInv
<1>11. CASE UNCHANGED vars
  <2>1. Types' /\ AnswersArePosted'
    BY <1>11 DEF Inv, Types, AnswersArePosted, vars
  <2>2. LoadedOrComing'
    BY <1>11 DEF Inv, LoadedOrComing, Of, Coming, AnsweredOver, vars
  <2> QED
    BY <1>11, <2>1, <2>2 DEF Inv, vars
<1> QED
  BY <1>1, <1>2, <1>3, <1>4, <1>5, <1>6, <1>7, <1>8, <1>9, <1>10, <1>11 DEF Next

(* A client that listens and then loads the history lacks no message that  *)
(* was acknowledged over a connection unless it is on its way to it:       *)
(* readPump announces after the commit and before its next event, and Run  *)
(* hands out all that comes after a registration.                          *)
THEOREM NothingElseMissed == Spec => []OnlySilentSendsAreMissed
BY InitInv, NextInv, InvSuffices, PTL DEF Spec
-----------------------------------------------------------------------------
(* What the clients are told of.                                           *)

(* A call is answered with a message of the chat it asked for.             *)
AnswersFit ==
  \A c \in Calls : answer[c] \in Calls =>
    \E row \in posted : row.id = answer[c] /\ row.chat = asked[c].chat

(* A connection is given what is addressed to it.                          *)
GivenFits ==
  /\ given \in [Clients -> SUBSET (1..taken)]
  /\ \A d \in Clients : \A k \in given[d] : UserOf[d] \in Members[published[k].chat]

(* Behind each announcement is a call of its own: answered over a          *)
(* connection, with that message, and done with announcing.                *)
Behind(f) ==
  /\ \A k, h \in 1..Len(published) : f[k] = f[h] => k = h
  /\ \A k \in 1..Len(published) :
       /\ AnsweredOver(f[k]) /\ f[k] \notin announcing
       /\ published[k].id = answer[f[k]] /\ published[k].chat = asked[f[k]].chat

CallsBehind == \E f \in [1..Len(published) -> Calls] : Behind(f)

Answered == {c \in Calls : answer[c] \in Calls}

ToldInv ==
  /\ TypeOK /\ AnswersFit /\ GivenFits /\ CallsBehind
  /\ IsFiniteSet(Answered)

(* An answer is final, and so is a commit.                                 *)
LEMMA AnswersStay ==
  ASSUME Inv, TypeOK, [Next]_vars
  PROVE  /\ posted \subseteq posted'
         /\ \A x \in Calls : answer[x] \in Calls =>
              answer'[x] = answer[x] /\ asked'[x] = asked[x] /\ via'[x] = via[x]
<1>1. ASSUME NEW c \in Calls, Store!Ask(c),
             \A x \in Calls : x # c => via'[x] = via[x]
      PROVE  /\ posted \subseteq posted'
             /\ \A x \in Calls : answer[x] \in Calls =>
                  answer'[x] = answer[x] /\ asked'[x] = asked[x] /\ via'[x] = via[x]
  <2>1. asked[c] = None /\ answer[c] \notin Calls /\ posted' = posted
    BY <1>1 DEF Store!Ask, Inv, AnswersArePosted
  <2>2. \A x \in Calls : x # c => asked'[x] = asked[x] /\ answer'[x] = answer[x]
    BY <1>1 DEF Store!Ask, TypeOK
  <2> QED
    BY <1>1, <2>1, <2>2
<1>2. ASSUME NEW c \in Calls, Post(c) \/ Answer(c) \/ Fail(c) \/ Announce(c)
      PROVE  /\ posted \subseteq posted'
             /\ \A x \in Calls : answer[x] \in Calls =>
                  answer'[x] = answer[x] /\ asked'[x] = asked[x] /\ via'[x] = via[x]
  BY <1>2, DeliveryAssumption
  DEF Post, Answer, Fail, Announce, Store!Post, Store!Answer, Store!Fail, TypeOK, store
<1>3. CASE Crash
  BY <1>3, DeliveryAssumption DEF Crash
<1>4. CASE Take \/ (\E d \in Clients : Join(d) \/ Give(d) \/ Close(d) \/ LoadHistory(d))
           \/ UNCHANGED vars
  BY <1>4 DEF Take, Join, Give, Close, LoadHistory, store, vars
<1>5. ASSUME NEW c \in Calls, SendByRest(c)
      PROVE  /\ posted \subseteq posted'
             /\ \A x \in Calls : answer[x] \in Calls =>
                  answer'[x] = answer[x] /\ asked'[x] = asked[x] /\ via'[x] = via[x]
  BY <1>1, <1>5 DEF SendByRest
<1>6. ASSUME NEW c \in Calls, NEW d \in Clients, SendByConnection(c, d)
      PROVE  /\ posted \subseteq posted'
             /\ \A x \in Calls : answer[x] \in Calls =>
                  answer'[x] = answer[x] /\ asked'[x] = asked[x] /\ via'[x] = via[x]
  <2>1. \A x \in Calls : x # c => via'[x] = via[x]
    BY <1>6 DEF SendByConnection, TypeOK
  <2> QED
    BY <1>1, <1>6, <2>1 DEF SendByConnection
<1> QED
  BY <1>2, <1>3, <1>4, <1>5, <1>6 DEF Next

(* Only Answer answers a call with a message.                              *)
LEMMA NewAnswer ==
  ASSUME Inv, TypeOK, [Next]_vars, NEW x \in Calls,
         answer[x] \notin Calls, answer'[x] \in Calls
  PROVE  Answer(x)
<1>1. ASSUME NEW c \in Calls, Store!Ask(c) PROVE FALSE
  BY <1>1, DeliveryAssumption DEF Store!Ask, TypeOK
<1>2. ASSUME NEW c \in Calls, Post(c) \/ Fail(c) \/ Announce(c) PROVE FALSE
  BY <1>2, DeliveryAssumption
  DEF Post, Fail, Announce, Store!Post, Store!Fail, TypeOK, store
<1>3. ASSUME NEW c \in Calls, Answer(c) PROVE c = x
  BY <1>3 DEF Answer, Store!Answer, TypeOK
<1>4. ~ Crash
  BY DeliveryAssumption DEF Crash
<1>5. ~ (Take \/ (\E d \in Clients : Join(d) \/ Give(d) \/ Close(d) \/ LoadHistory(d))
         \/ UNCHANGED vars)
  BY DEF Take, Join, Give, Close, LoadHistory, store, vars
<1> QED
  BY <1>1, <1>2, <1>3, <1>4, <1>5 DEF Next, SendByRest, SendByConnection

(* A new answer fits, and there is at most one of them at a time.          *)
LEMMA AnswersFitStep ==
  ASSUME Inv, TypeOK, AnswersFit, [Next]_vars
  PROVE  AnswersFit' /\ (IsFiniteSet(Answered) => IsFiniteSet(Answered'))
<1>1. ASSUME NEW x \in Calls, answer'[x] \in Calls
      PROVE  \E row \in posted' : row.id = answer'[x] /\ row.chat = asked'[x].chat
  <2>1. CASE answer[x] \in Calls
    BY <1>1, <2>1, AnswersStay DEF AnswersFit
  <2>2. CASE answer[x] \notin Calls
    BY <1>1, <2>2, NewAnswer DEF Answer, Store!Answer, Store!Fits, TypeOK
  <2> QED
    BY <2>1, <2>2
<1>2. ASSUME IsFiniteSet(Answered) PROVE IsFiniteSet(Answered')
  <2>1. CASE Answered' \subseteq Answered
    BY <1>2, <2>1, FS_Subset
  <2>2. CASE ~(Answered' \subseteq Answered)
    <3>1. PICK x \in Calls : answer'[x] \in Calls /\ answer[x] \notin Calls
      BY <2>2 DEF Answered
    <3>2. \A y \in Calls : y # x => answer'[y] = answer[y]
      BY <3>1, NewAnswer DEF Answer, Store!Answer, TypeOK
    <3>3. Answered' \subseteq Answered \cup {x}
      BY <3>2 DEF Answered
    <3> QED
      BY <1>2, <3>3, FS_AddElement, FS_Subset
  <2> QED
    BY <2>1, <2>2
<1> QED
  BY <1>1, <1>2 DEF AnswersFit

-----------------------------------------------------------------------------
(* What is taken keeps its place.                                          *)
LEMMA TakenStays ==
  ASSUME Inv, TypeOK, [Next]_vars
  PROVE  /\ published' \in Seq(Announcement) /\ taken' \in 0..Len(published')
         /\ taken \in Nat /\ taken <= taken' /\ taken <= Len(published)
         /\ \A k \in 1..taken : published'[k] = published[k]
<1>1. published \in Seq(Announcement) /\ taken \in 0..Len(published)
  BY DEF TypeOK
<1>2. CASE Crash
  <2>1. published' = SubSeq(published, 1, taken) /\ taken' = taken
    BY <1>2 DEF Crash
  <2> QED
    BY <1>1, <2>1
<1>3. ASSUME NEW c \in Calls, Announce(c)
      PROVE  /\ published' \in Seq(Announcement) /\ taken' = taken
             /\ Len(published') = Len(published) + 1
             /\ \A k \in 1..Len(published) : published'[k] = published[k]
  <2>1. /\ published' = Append(published, [id |-> answer[c], chat |-> asked[c].chat])
        /\ taken' = taken
    BY <1>3 DEF Announce, Stream!Publish
  <2>2. [id |-> answer[c], chat |-> asked[c].chat] \in Announcement
    BY <1>3 DEF Inv, AnswersArePosted, Announce, Announcement, Store!Sends
  <2> QED
    BY <1>1, <2>1, <2>2
<1>4. CASE Take
  BY <1>1, <1>4 DEF Take, Stream!Take
<1>5. CASE \E c \in Calls :
             \/ SendByRest(c) \/ Post(c) \/ Answer(c) \/ Fail(c)
             \/ \E d \in Clients : SendByConnection(c, d)
  BY <1>1, <1>5 DEF SendByRest, Post, Answer, Fail, SendByConnection, hub
<1>6. CASE UNCHANGED vars \/ \E d \in Clients : Join(d) \/ Give(d) \/ Close(d) \/ LoadHistory(d)
  BY <1>1, <1>6
  DEF Join, Give, Close, LoadHistory, Stream!Join, Stream!Give, Stream!Close, hub, vars
<1> QED
  BY <1>1, <1>2, <1>3, <1>4, <1>5, <1>6 DEF Next

(* Only what is due is given.                                              *)
LEMMA GivenStep ==
  ASSUME Inv, TypeOK, GivenFits, [Next]_vars
  PROVE  GivenFits'
<1>1. /\ taken \in Nat /\ taken' \in Nat /\ taken <= taken' /\ taken <= Len(published)
      /\ \A k \in 1..taken : published'[k] = published[k]
      /\ \A k \in 1..taken : published[k] \in Announcement
  BY TakenStays DEF TypeOK
<1>2. ASSUME \A d \in Clients : \A k \in given'[d] :
               k \in 1..taken /\ UserOf[d] \in Members[published[k].chat],
             DOMAIN given' = Clients, given' = [d \in Clients |-> given'[d]]
      PROVE  GivenFits'
  BY <1>1, <1>2 DEF GivenFits
<1>3. CASE UNCHANGED given
  BY <1>2, <1>3 DEF GivenFits
<1>4. ASSUME NEW d \in Clients, Stream!Give(d) PROVE GivenFits'
  <2>1. PICK k \in Stream!Due(d) : given' = [given EXCEPT ![d] = @ \cup {k}]
    BY <1>4 DEF Stream!Give
  <2>2. k \in 1..taken /\ UserOf[d] \in Members[published[k].chat]
    BY <1>1, <2>1 DEF Stream!Due, Audience, Inv, Types
  <2>3. \A x \in Clients : given'[x] = IF x = d THEN given[d] \cup {k} ELSE given[x]
    BY <2>1 DEF GivenFits
  <2> QED
    BY <1>2, <2>1, <2>2, <2>3 DEF GivenFits
<1>5. ASSUME NEW d \in Clients, Stream!Close(d) PROVE GivenFits'
  <2>1. PICK part \in Stream!Parts(d) : given' = [given EXCEPT ![d] = part]
    BY <1>5 DEF Stream!Close
  <2>2. part \subseteq given[d]
    BY DEF Stream!Parts
  <2>3. \A x \in Clients : given'[x] = IF x = d THEN part ELSE given[x]
    BY <2>1 DEF GivenFits
  <2> QED
    BY <1>2, <2>1, <2>2, <2>3 DEF GivenFits
<1>6. CASE Crash \/ Take \/ UNCHANGED vars
  BY <1>3, <1>6 DEF Crash, Take, Stream!Take, vars
<1>7. ASSUME NEW c \in Calls,
             \/ SendByRest(c) \/ Post(c) \/ Answer(c) \/ Fail(c) \/ Announce(c)
             \/ \E d \in Clients : SendByConnection(c, d)
      PROVE  GivenFits'
  BY <1>3, <1>7
  DEF SendByRest, Post, Answer, Fail, Announce, SendByConnection, Stream!Publish, hub
<1>8. ASSUME NEW d \in Clients, Join(d) \/ LoadHistory(d) PROVE GivenFits'
  BY <1>3, <1>8 DEF Join, LoadHistory, Stream!Join, hub
<1> QED
  BY <1>4, <1>5, <1>6, <1>7, <1>8 DEF Next, Give, Close
-----------------------------------------------------------------------------
(* An announcement takes its call out of announcing, for good.             *)
LEMMA BehindAnnounce ==
  ASSUME Inv, TypeOK, NEW c \in Calls, Announce(c),
         NEW f \in [1..Len(published) -> Calls], Behind(f)
  PROVE  CallsBehind'
<1> DEFINE e == [id |-> answer[c], chat |-> asked[c].chat]
<1>1. /\ published \in Seq(Announcement) /\ published' = Append(published, e)
      /\ announcing' = announcing \ {c} /\ c \in announcing
      /\ asked' = asked /\ answer' = answer /\ via' = via
  BY DEF Announce, Stream!Publish, TypeOK, store
<1>2. e \in Announcement
  BY DEF Inv, AnswersArePosted, Announce, Announcement, Store!Sends
<1> PICK n \in Nat : n = Len(published)
  BY <1>1
<1>3. /\ Len(published') = n + 1 /\ published'[n + 1] = e
      /\ \A k \in 1..n : published'[k] = published[k]
  BY <1>1, <1>2
<1>4. PICK g \in [1..(n + 1) -> Calls] :
        g[n + 1] = c /\ \A k \in 1..n : g[k] = f[k] /\ g[k] # c
  <2> DEFINE h == [k \in 1..(n + 1) |-> IF k = n + 1 THEN c ELSE f[k]]
  <2>1. h \in [1..(n + 1) -> Calls]
    OBVIOUS
  <2>2. h[n + 1] = c /\ \A k \in 1..n : h[k] = f[k] /\ h[k] # c
    BY <1>1 DEF Behind
  <2> QED
    BY <2>1, <2>2
<1>5. AnsweredOver(c)
  BY <1>1 DEF TypeOK, AnsweredOver
<1>6. \A x \in Calls : AnsweredOver(x)' = AnsweredOver(x)
  BY <1>1 DEF AnsweredOver
<1>7. \A k \in 1..(n + 1) : k = n + 1 \/ k \in 1..n
  BY <1>3
<1>8. \A k, h \in 1..(n + 1) : g[k] = g[h] => k = h
  BY <1>4, <1>7 DEF Behind
<1>9. ASSUME NEW k \in 1..(n + 1)
      PROVE  /\ AnsweredOver(g[k])' /\ g[k] \notin announcing'
             /\ published'[k].id = answer'[g[k]] /\ published'[k].chat = asked'[g[k]].chat
  <2>1. CASE k = n + 1
    BY <1>1, <1>3, <1>4, <1>5, <1>6, <2>1
  <2>2. CASE k \in 1..n
    <3>1. /\ AnsweredOver(f[k]) /\ f[k] \notin announcing /\ f[k] \in Calls
          /\ published[k].id = answer[f[k]] /\ published[k].chat = asked[f[k]].chat
      BY <2>2 DEF Behind
    <3> QED
      BY <1>1, <1>3, <1>4, <1>6, <2>2, <3>1
  <2> QED
    BY <1>7, <2>1, <2>2
<1>10. Behind(g)'
  BY <1>3, <1>8, <1>9 DEF Behind
<1> QED
  BY <1>3, <1>4, <1>10 DEF CallsBehind

(* The first messages have the calls that they had.                        *)
LEMMA BehindKept ==
  ASSUME Inv, TypeOK, [Next]_vars, NEW f \in [1..Len(published) -> Calls], Behind(f),
         NEW n \in Nat, n <= Len(published), Len(published') = n,
         \A k \in 1..n : published'[k] = published[k],
         announcing' \subseteq announcing \cup {x \in Calls : answer[x] \notin Calls}
  PROVE  CallsBehind'
<1> DEFINE g == [k \in 1..n |-> f[k]]
<1>1. Len(published) \in Nat
  BY DEF TypeOK
<1>2. 1..n \subseteq 1..Len(published)
  BY <1>1
<1>3. g \in [1..n -> Calls] /\ \A k \in 1..n : g[k] = f[k]
  BY <1>2
<1> HIDE DEF g
<1>4. \A k, h \in 1..n : g[k] = g[h] => k = h
  BY <1>2, <1>3 DEF Behind
<1>5. ASSUME NEW k \in 1..n
      PROVE  /\ AnsweredOver(g[k])' /\ g[k] \notin announcing'
             /\ published'[k].id = answer'[g[k]] /\ published'[k].chat = asked'[g[k]].chat
  <2>1. /\ AnsweredOver(f[k]) /\ f[k] \notin announcing /\ f[k] \in Calls
        /\ published[k].id = answer[f[k]] /\ published[k].chat = asked[f[k]].chat
    BY <1>2 DEF Behind
  <2>2. answer[f[k]] \in Calls
    BY <2>1 DEF AnsweredOver
  <2>3. /\ answer'[f[k]] = answer[f[k]] /\ asked'[f[k]] = asked[f[k]]
        /\ via'[f[k]] = via[f[k]]
    BY <2>1, <2>2, AnswersStay
  <2> QED
    BY <1>3, <2>1, <2>2, <2>3 DEF AnsweredOver
<1>6. Behind(g)'
  BY <1>4, <1>5 DEF Behind
<1> QED
  BY <1>3, <1>6 DEF CallsBehind

(* Every announcement keeps its call, and a new one has one of its own.    *)
LEMMA BehindStep ==
  ASSUME Inv, TypeOK, CallsBehind, [Next]_vars
  PROVE  CallsBehind'
<1>1. PICK f \in [1..Len(published) -> Calls] : Behind(f)
  BY DEF CallsBehind
<1>2. Len(published) \in Nat /\ taken \in 0..Len(published)
  BY DEF TypeOK
<1>3. ASSUME published' = published,
             announcing' \subseteq announcing \cup {x \in Calls : answer[x] \notin Calls}
      PROVE  CallsBehind'
  BY <1>1, <1>2, <1>3, BehindKept
<1>4. CASE Crash
  <2>1. published' = SubSeq(published, 1, taken) /\ announcing' = {}
    BY <1>4 DEF Crash
  <2>2. Len(published') = taken /\ \A k \in 1..taken : published'[k] = published[k]
    BY <1>2, <2>1 DEF TypeOK
  <2> QED
    BY <1>1, <1>2, <2>1, <2>2, BehindKept
<1>5. ASSUME NEW c \in Calls, Answer(c) PROVE CallsBehind'
  BY <1>3, <1>5, DeliveryAssumption DEF Answer, Store!Answer, hub
<1>6. ASSUME NEW c \in Calls, Announce(c) PROVE CallsBehind'
  BY <1>1, <1>6, BehindAnnounce
<1>7. CASE \E c \in Calls :
             \/ SendByRest(c) \/ Post(c) \/ Fail(c)
             \/ \E d \in Clients : SendByConnection(c, d)
  BY <1>3, <1>7 DEF SendByRest, Post, Fail, SendByConnection, hub
<1>8. CASE \/ Take \/ UNCHANGED vars
           \/ \E d \in Clients : Join(d) \/ Give(d) \/ Close(d) \/ LoadHistory(d)
  BY <1>3, <1>8
  DEF Take, Join, Give, Close, LoadHistory, Stream!Take, Stream!Join, Stream!Give,
      Stream!Close, hub, vars
<1> QED
  BY <1>4, <1>5, <1>6, <1>7, <1>8 DEF Next

-----------------------------------------------------------------------------
(* The types.                                                              *)
LEMMA TypeStep ==
  ASSUME Inv, Inv', TypeOK, GivenFits', [Next]_vars
  PROVE  TypeOK'
<1>1. /\ asked' \in [Calls -> Store!Sends \cup {None}]
      /\ answer' \in [Calls -> Calls \cup {None, Failed}]
      /\ published' \in Seq(Announcement) /\ taken' \in 0..Len(published')
      /\ state' \in [Clients -> {"absent", "open", "closed"}]
      /\ announcing' \subseteq Calls
      /\ \A c \in announcing' : answer'[c] \in Calls
  BY DEF Inv, Types, AnswersArePosted
<1>2. \A d \in Clients : joined'[d] <= taken' /\ given'[d] \subseteq 1..taken'
  BY DEF Inv, Types, GivenFits
<1>3. via' \in [Calls -> Clients \cup {Rest}] /\ crashes' \in 0..MaxCrashes
  <2>1. CASE Crash
    BY <2>1, DeliveryAssumption DEF Crash, TypeOK
  <2>2. ASSUME NEW c \in Calls, NEW d \in Clients, SendByConnection(c, d)
        PROVE  via' \in [Calls -> Clients \cup {Rest}] /\ crashes' = crashes
    BY <2>2 DEF SendByConnection, TypeOK
  <2>3. CASE \E c \in Calls : SendByRest(c) \/ Post(c) \/ Answer(c) \/ Fail(c) \/ Announce(c)
    BY <2>3 DEF SendByRest, Post, Answer, Fail, Announce, TypeOK
  <2>4. CASE \/ Take \/ UNCHANGED vars
             \/ \E d \in Clients : Join(d) \/ Give(d) \/ Close(d) \/ LoadHistory(d)
    BY <2>4 DEF Take, Join, Give, Close, LoadHistory, TypeOK, vars
  <2> QED
    BY <2>1, <2>2, <2>3, <2>4 DEF Next, TypeOK
<1>4. \A c \in announcing' : via'[c] \in Clients
  <2> SUFFICES ASSUME NEW c \in announcing' PROVE via'[c] \in Clients
    OBVIOUS
  <2>1. CASE c \in announcing
    BY <1>1, <2>1, AnswersStay DEF TypeOK
  <2>2. CASE c \notin announcing
    <3>1. PICK x \in Calls : Answer(x)
      BY <2>2
      DEF Next, Crash, Take, SendByRest, Post, Fail, Announce, SendByConnection, Join, Give,
          Close, LoadHistory, vars
    <3> QED
      BY <2>2, <3>1 DEF Answer, TypeOK
  <2> QED
    BY <2>1, <2>2
<1>5. \A d \in Clients : loaded'[d] # None => loaded'[d] \subseteq Calls
  <2>1. CASE UNCHANGED loaded
    BY <2>1 DEF TypeOK
  <2>2. ASSUME NEW d \in Clients, LoadHistory(d)
        PROVE  \A x \in Clients : loaded'[x] # None => loaded'[x] \subseteq Calls
    <3>1. {row.id : row \in Of(d)} \subseteq Calls
      BY DEF Of, Inv, AnswersArePosted
    <3> QED
      BY <2>2, <3>1 DEF LoadHistory, Inv, Types, TypeOK
  <2> QED
    BY <2>1, <2>2
    DEF Next, Crash, Take, SendByRest, Post, Answer, Fail, Announce, SendByConnection, Join,
        Give, Close, vars
<1>6. reading' \subseteq Clients
  BY DEF TypeOK, Next, Crash, Take, SendByRest, Post, Answer, Fail, Announce,
         SendByConnection, Join, Give, Close, LoadHistory, vars
<1> QED
  BY <1>1, <1>2, <1>3, <1>4, <1>5, <1>6 DEF TypeOK

(* The initial states satisfy all of it.                                   *)
LEMMA InitTold == Init => ToldInv
<1> SUFFICES ASSUME Init PROVE ToldInv
  OBVIOUS
<1>1. TypeOK /\ AnswersFit /\ GivenFits
  BY DeliveryAssumption
  DEF Init, Store!Init, Stream!Init, TypeOK, AnswersFit, GivenFits
<1>2. CallsBehind
  <2>1. 1..Len(published) = {}
    BY DEF Init, Stream!Init
  <2>2. [k \in 1..Len(published) |-> k] \in [1..Len(published) -> Calls]
    BY <2>1
  <2> QED
    BY <2>1, <2>2 DEF CallsBehind, Behind
<1>3. Answered = {}
  BY DeliveryAssumption DEF Init, Store!Init, Answered
<1> QED
  BY <1>1, <1>2, <1>3, FS_EmptySet DEF ToldInv

(* And every step preserves it.                                            *)
LEMMA NextTold == Inv /\ Inv' /\ ToldInv /\ [Next]_vars => ToldInv'
BY AnswersFitStep, GivenStep, BehindStep, TypeStep DEF ToldInv

(* So both invariants hold in every state.                                 *)
LEMMA SpecTold == Spec => [](Inv /\ ToldInv)
BY InitInv, NextInv, InitTold, NextTold, PTL DEF Spec

-----------------------------------------------------------------------------
(* The types of the variables.                                             *)
THEOREM TypeCorrect == Spec => []TypeOK
<1>1. ToldInv => TypeOK
  BY DEF ToldInv
<1> QED
  BY <1>1, SpecTold, PTL

(* What a connection is given is a committed message of a chat of its      *)
(* user: behind each announcement is a call that was answered with it,     *)
(* after the commit, and a restart takes no commit back.                   *)
THEOREM GivenIsCommitted == Spec => []NoPhantom
<1>1. ASSUME ToldInv PROVE NoPhantom
  <2> SUFFICES ASSUME NEW d \in Clients, NEW k \in given[d]
               PROVE  \E row \in Of(d) : row.id = published[k].id /\ row.chat = published[k].chat
    BY DEF NoPhantom
  <2>1. PICK f \in [1..Len(published) -> Calls] : Behind(f)
    BY <1>1 DEF ToldInv, CallsBehind
  <2>2. k \in 1..Len(published) /\ UserOf[d] \in Members[published[k].chat]
    BY <1>1 DEF ToldInv, TypeOK, GivenFits
  <2>3. /\ f[k] \in Calls /\ answer[f[k]] \in Calls
        /\ published[k].id = answer[f[k]] /\ published[k].chat = asked[f[k]].chat
    BY <2>1, <2>2 DEF Behind, AnsweredOver
  <2>4. PICK row \in posted : row.id = published[k].id /\ row.chat = published[k].chat
    BY <1>1, <2>3 DEF ToldInv, AnswersFit
  <2> QED
    BY <2>2, <2>4 DEF Of
<1> QED
  BY <1>1, SpecTold, PTL

(* A connection is told of a message no more often than calls were         *)
(* answered with it over connections: each of them announces once.         *)
THEOREM NoRepeats == Spec => []ToldOncePerAnswer
<1>1. ASSUME ToldInv PROVE ToldOncePerAnswer
  <2> SUFFICES ASSUME NEW d \in Clients, NEW m \in Calls
               PROVE  Cardinality({k \in given[d] : published[k].id = m})
                        <= Cardinality({c \in Calls : AnsweredOver(c) /\ answer[c] = m})
    BY DEF ToldOncePerAnswer
  <2> DEFINE told  == {k \in given[d] : published[k].id = m}
             calls == {c \in Calls : AnsweredOver(c) /\ answer[c] = m}
  <2>1. PICK f \in [1..Len(published) -> Calls] : Behind(f)
    BY <1>1 DEF ToldInv, CallsBehind
  <2>2. told \subseteq 1..Len(published)
    BY <1>1 DEF ToldInv, TypeOK
  <2>3. \A k \in told : f[k] \in calls
    BY <2>1, <2>2 DEF Behind
  <2>4. IsFiniteSet(calls)
    BY <1>1, FS_Subset DEF ToldInv, Answered
  <2> DEFINE g == [k \in told |-> f[k]]
  <2>5. g \in [told -> calls] /\ \A k, h \in told : g[k] = g[h] => k = h
    BY <2>1, <2>2, <2>3 DEF Behind
  <2> HIDE DEF told, calls, g
  <2>6. g \in Injection(told, calls)
    BY <2>5, Fun_IsInj
  <2>7. Cardinality(told) <= Cardinality(calls)
    BY <2>4, <2>6, FS_Injection
  <2> QED
    BY <2>7 DEF told, calls
<1> QED
  BY <1>1, SpecTold, PTL
=============================================================================
