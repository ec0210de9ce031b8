----------------------------- MODULE ChatsProofs -----------------------------
(* The safety properties of Chats, for every set of calls and users, every *)
(* size of a page and any length of the run.                               *)
EXTENDS Chats, FiniteSetTheorems, TLAPS

Creating == {"begin", "insert", "members", "commit"}

(* The chat a creation answers with, its own or one that was there.        *)
Answers(c, chat) ==
  /\ Printed(chat.id) = args[c].chat
  /\ args[c].op # "get" =>
       /\ chat.type = args[c].op
       /\ IF NamesItself(c) THEN chat.id # c ELSE chat.members = Pair(c)

(* What a call knows of what it was asked, and of what it has inserted.    *)
CallInv(c) ==
  /\ pc[c] = "find" => args[c].op = "direct"
  /\ pc[c] \in Creating => args[c].op \in {"direct", "group"}
  /\ pc[c] # "failed" /\ args[c].op = "direct" =>
       \E peer \in Users : args[c].others = {peer}
  /\ pc[c] # "failed" /\ args[c].op = "group" =>
       ~NamesItself(c) /\ Cardinality(Pair(c)) >= 2
  /\ pc[c] \in {"insert", "members", "commit"} => args[c].began \in Time
  /\ pc[c] \in {"members", "commit"} => args[c].chat = Printed(c)
  /\ pc[c] = "commit" => draft[c] = Pair(c) /\ ~NamesItself(c)
  /\ pc[c] = "get" => args[c].chat \in Texts(Calls)
  /\ pc[c] = "get" /\ args[c].op # "get" => \E chat \in chats : Answers(c, chat)
  /\ pc[c] = "done" =>
       \E chat \in chats : Answers(c, chat) /\ args[c].user \in chat.members

(* A chat was committed by the call that is its identifier, which does not *)
(* commit again, with the members that call was asked for.                 *)
ChatInv(chat) ==
  /\ pc[chat.id] \in {"get", "done", "forbidden", "failed"}
  /\ chat.type = args[chat.id].op /\ chat.createdBy = args[chat.id].user
  /\ chat.members = Pair(chat.id)
  /\ Cardinality(chat.members) >= 2
  /\ chat.type = "direct" =>
       IsFiniteSet(chat.members) /\ Cardinality(chat.members) = 2

ChatsInv ==
  /\ TypeOK
  /\ \A c \in Calls : pc[c] # "idle" => CallInv(c)
  /\ \A chat \in chats : ChatInv(chat)
  /\ \A x, y \in chats : x.id = y.id => x = y
  /\ IsFiniteSet(chats)

-----------------------------------------------------------------------------
(* A pair of two is a set of two, and the only one that contains both.     *)
LEMMA Pairs ==
  ASSUME NEW x, NEW y, x # y
  PROVE  /\ IsFiniteSet({x, y}) /\ Cardinality({x, y}) = 2
         /\ \A S : IsFiniteSet(S) /\ Cardinality(S) = 2 /\ {x, y} \subseteq S => S = {x, y}
<1>1. IsFiniteSet({x}) /\ Cardinality({x}) = 1
  BY FS_Singleton
<1>2. {x, y} = {x} \cup {y}
  OBVIOUS
<1>3. IsFiniteSet({x, y}) /\ Cardinality({x, y}) = 2
  BY <1>1, <1>2, FS_AddElement
<1>4. ASSUME NEW S, IsFiniteSet(S), Cardinality(S) = 2, {x, y} \subseteq S
      PROVE  S = {x, y}
  BY <1>3, <1>4, FS_Subset
<1> QED
  BY <1>3, <1>4

(* A call that has begun has arguments.                                    *)
LEMMA BusyArguments ==
  ASSUME TypeOK, NEW c \in Calls, pc[c] # "idle"
  PROVE  args[c] \in Arguments
BY DEF TypeOK

(* The initial states satisfy the invariant.                               *)
LEMMA InitInv == Init => ChatsInv
BY ChatsAssumption, FS_EmptySet DEF Init, ChatsInv, TypeOK, Time, States

-----------------------------------------------------------------------------
(* A step of one call that commits nothing.                                *)
LEMMA CallStepInv ==
  ASSUME ChatsInv, NEW c \in Calls, TypeOK', UNCHANGED chats,
         \A d \in Calls : d # c =>
           pc'[d] = pc[d] /\ args'[d] = args[d] /\ draft'[d] = draft[d],
         pc[c] # "idle" =>
           /\ args'[c].op = args[c].op /\ args'[c].user = args[c].user
           /\ args'[c].others = args[c].others,
         pc[c] \in {"get", "done", "forbidden", "failed"} =>
           pc'[c] \in {"get", "done", "forbidden", "failed"},
         pc'[c] # "idle" => CallInv(c)'
  PROVE  ChatsInv'
<1>1. ASSUME NEW d \in Calls, pc'[d] # "idle" PROVE CallInv(d)'
  <2>1. CASE d # c
    <3>1. pc'[d] = pc[d] /\ args'[d] = args[d] /\ draft'[d] = draft[d] /\ Pair(d)' = Pair(d)
      BY <2>1 DEF Pair
    <3>2. /\ \A chat \in chats : Answers(d, chat)' = Answers(d, chat)
          /\ NamesItself(d)' = NamesItself(d)
      BY <3>1 DEF Answers, NamesItself
    <3>3. CallInv(d)
      BY <1>1, <3>1 DEF ChatsInv
    <3> QED
      BY <3>1, <3>2, <3>3 DEF CallInv
  <2> QED
    BY <1>1, <2>1
<1>2. ASSUME NEW chat \in chats PROVE ChatInv(chat)'
  <2>1. chat.id \in Calls /\ ChatInv(chat)
    BY DEF ChatsInv, TypeOK, Chat
  <2> QED
    BY <2>1 DEF ChatInv, Pair
<1> QED
  BY <1>1, <1>2 DEF ChatsInv

(* A call begins, with what its validation has let through.                *)
LEMMA StartInv ==
  ASSUME ChatsInv, NEW c \in Calls, NEW op \in {"direct", "group", "get"},
         NEW user \in Users, NEW others \in SUBSET Users,
         NEW chat \in Texts(Calls) \cup {None}, NEW s \in {"find", "begin", "get", "failed"},
         pc[c] = "idle", Start(c, op, user, others, chat, s),
         s = "find" => op = "direct",
         s = "begin" => op = "group",
         s = "get" => op = "get" /\ chat \in Texts(Calls),
         s # "failed" /\ op = "direct" => \E peer \in Users : others = {peer},
         s # "failed" /\ op = "group" =>
           user \notin others /\ Cardinality({user} \cup others) >= 2
  PROVE  ChatsInv'
<1> DEFINE call == [op |-> op, user |-> user, others |-> others, chat |-> chat, began |-> Never]
<1>1. /\ pc[c] = "idle" /\ pc'[c] = s /\ args'[c] = call
      /\ \A d \in Calls : d # c =>
           pc'[d] = pc[d] /\ args'[d] = args[d] /\ draft'[d] = draft[d]
      /\ UNCHANGED <<clock, draft, chats>>
  BY DEF Start, ChatsInv, TypeOK
<1>2. call \in Arguments
  BY DEF Arguments
<1>3. TypeOK'
  BY <1>1, <1>2, NoneAssumption DEF Start, ChatsInv, TypeOK, States
<1>4. CallInv(c)'
  BY <1>1 DEF CallInv, Pair, NamesItself, Creating
<1> QED
  BY <1>1, <1>3, <1>4, CallStepInv

(* A call begins: a direct creation only with a peer, a group only with    *)
(* others.                                                                 *)
LEMMA BeginInv ==
  ASSUME ChatsInv, NEW c \in Calls, Begin(c)
  PROVE  ChatsInv'
<1>1. PICK user \in Users :
        \/ \E peer \in Texts(Users \cup Strangers) : CreateDirectChat(c, user, peer)
        \/ \E listed \in Lists : CreateGroupChat(c, user, listed)
        \/ \E chat \in Texts(Calls) : AskForChat(c, user, chat)
  BY DEF Begin
<1> pc[c] = "idle"
  BY DEF Begin
<1>2. ASSUME NEW peer \in Texts(Users \cup Strangers), CreateDirectChat(c, user, peer)
      PROVE  ChatsInv'
  BY <1>2, StartInv DEF CreateDirectChat
<1>3. ASSUME NEW listed \in Lists, CreateGroupChat(c, user, listed)
      PROVE  ChatsInv'
  <2> DEFINE texts == listed \cup {Printed(user)}
  <2>1. CASE Cardinality(texts) >= 2 /\ EnsureUsersExist(texts)
    <3>1. Start(c, "group", user, UsersOf(texts) \ {user}, None, "begin")
      BY <1>3, <2>1 DEF CreateGroupChat
    <3>2. user \in UsersOf(texts) /\ UsersOf(texts) \subseteq Users
      <4>1. Printed(user).id = user
        BY DEF Printed
      <4> QED
        BY <4>1 DEF UsersOf
    <3>3. {user} \cup (UsersOf(texts) \ {user}) = UsersOf(texts)
      BY <3>2
    <3>4. Cardinality(UsersOf(texts)) >= 2
      BY <2>1 DEF EnsureUsersExist
    <3> HIDE DEF texts
    <3> QED
      BY <3>1, <3>2, <3>3, <3>4, StartInv
  <2>2. CASE ~(Cardinality(texts) >= 2 /\ EnsureUsersExist(texts))
    BY <1>3, <2>2, StartInv DEF CreateGroupChat
  <2> QED
    BY <2>1, <2>2
<1>4. ASSUME NEW chat \in Texts(Calls), AskForChat(c, user, chat) PROVE ChatsInv'
  BY <1>4, StartInv DEF AskForChat
<1> QED
  BY <1>1, <1>2, <1>3, <1>4

(* The one direct chat of two members that contains both is theirs, and it *)
(* is found; who names itself finds others.                                *)
LEMMA ExistingIsTheirs ==
  ASSUME ChatsInv, NEW c \in Calls, pc[c] = "find", NEW chat \in chats
  PROVE  /\ chat \in Existing(c) =>
              chat.type = "direct" /\ (NamesItself(c) \/ chat.members = Pair(c))
         /\ chat.type = "direct" /\ chat.members = Pair(c) => chat \in Existing(c)
<1>1. PICK peer \in Users : args[c].others = {peer}
  BY DEF ChatsInv, CallInv
<1>2. Pair(c) = {args[c].user, peer}
  BY <1>1 DEF Pair
<1>3. ~NamesItself(c) => args[c].user # peer
  BY <1>1 DEF NamesItself
<1>4. ChatInv(chat)
  BY DEF ChatsInv
<1>5. chat \in Existing(c) <=> /\ chat.type = "direct" /\ Pair(c) \subseteq chat.members
                               /\ Cardinality(chat.members) = 2
  BY DEF Existing
<1> QED
  BY <1>2, <1>3, <1>4, <1>5, Pairs DEF ChatInv

(* What a direct creation finds is the chat of its two users, or one that  *)
(* is not its own.                                                         *)
LEMMA FindExistingInv ==
  ASSUME ChatsInv, NEW c \in Calls, FindExisting(c)
  PROVE  ChatsInv'
<1>1. pc[c] = "find" /\ args[c] \in Arguments /\ args[c].op = "direct"
  BY BusyArguments DEF FindExisting, ChatsInv, CallInv
<1>2. CASE Goto(c, "begin") /\ UNCHANGED <<clock, args, draft, chats>>
  <2>1. pc'[c] = "begin" /\ \A d \in Calls : d # c => pc'[d] = pc[d]
    BY <1>2 DEF Goto, ChatsInv, TypeOK
  <2>2. TypeOK'
    BY <1>1, <1>2, <2>1 DEF Goto, ChatsInv, TypeOK, States
  <2>3. CallInv(c)'
    BY <1>1, <1>2, <2>1 DEF ChatsInv, CallInv, Creating, Pair, NamesItself
  <2> QED
    BY <1>1, <1>2, <2>1, <2>2, <2>3, CallStepInv
<1>3. ASSUME NEW chat \in Existing(c), args' = [args EXCEPT ![c].chat = Printed(chat.id)],
             Goto(c, "get"), UNCHANGED <<clock, draft, chats>>
      PROVE  ChatsInv'
  <2>1. /\ chat \in chats /\ chat.id \in Calls /\ Printed(chat.id) \in Texts(Calls)
        /\ chat.type = "direct" /\ (NamesItself(c) \/ chat.members = Pair(c))
    BY <1>1, ExistingIsTheirs, ChatsAssumption
    DEF Existing, ChatsInv, TypeOK, Chat, Printed, Texts
  <2>2. chat.id # c
    BY <1>1, <2>1 DEF ChatsInv, ChatInv
  <2>3. /\ pc'[c] = "get" /\ args'[c] = [args[c] EXCEPT !.chat = Printed(chat.id)]
        /\ \A d \in Calls : d # c => pc'[d] = pc[d] /\ args'[d] = args[d]
    BY <1>3 DEF Goto, ChatsInv, TypeOK
  <2>4. /\ args'[c] \in Arguments /\ args'[c].chat = Printed(chat.id)
        /\ args'[c].op = args[c].op /\ args'[c].user = args[c].user
        /\ args'[c].others = args[c].others
    BY <1>1, <2>1, <2>3 DEF Arguments
  <2>5. TypeOK'
    BY <1>3, <2>3, <2>4, NoneAssumption DEF Goto, ChatsInv, TypeOK, States
  <2>6. Pair(c)' = Pair(c) /\ NamesItself(c)' = NamesItself(c)
    BY <2>4 DEF Pair, NamesItself
  <2>7. Answers(c, chat)'
    BY <1>1, <2>1, <2>4, <2>2, <2>6 DEF Answers
  <2>8. CallInv(c)'
    BY <1>1, <1>3, <2>1, <2>3, <2>4, <2>6, <2>7 DEF ChatsInv, CallInv, Creating
  <2> QED
    BY <1>1, <1>3, <2>3, <2>4, <2>5, <2>8, CallStepInv
<1> QED
  BY <1>2, <1>3 DEF FindExisting

(* A transaction that begins has inserted nobody yet.                      *)
LEMMA BeginCreateInv ==
  ASSUME ChatsInv, NEW c \in Calls, BeginCreate(c) \/ InsertChat(c)
  PROVE  ChatsInv'
<1>1. /\ pc[c] \in {"begin", "insert"} /\ args[c] \in Arguments
      /\ UNCHANGED <<clock, draft, chats>>
  BY BusyArguments DEF BeginCreate, InsertChat, ChatsInv
<1>2. /\ pc'[c] \in {"insert", "members"}
      /\ args'[c] \in {[args[c] EXCEPT !.began = clock], [args[c] EXCEPT !.chat = Printed(c)]}
      /\ pc'[c] = "members" => args'[c] = [args[c] EXCEPT !.chat = Printed(c)]
      /\ \A d \in Calls : d # c => pc'[d] = pc[d] /\ args'[d] = args[d]
  BY DEF BeginCreate, InsertChat, Goto, ChatsInv, TypeOK
<1>3. /\ args'[c] \in Arguments /\ args'[c].began \in Time
      /\ pc'[c] = "members" => args'[c].chat = Printed(c)
      /\ args'[c].op = args[c].op /\ args'[c].user = args[c].user
      /\ args'[c].others = args[c].others
  <2>1. Printed(c) \in Texts(Calls) /\ clock \in Time /\ CallInv(c)
    BY <1>1, ChatsAssumption DEF Printed, Texts, ChatsInv, TypeOK
  <2>2. CASE pc[c] = "begin"
    BY <1>1, <2>1, <2>2 DEF Arguments, BeginCreate, InsertChat, Goto, ChatsInv, TypeOK
  <2>3. CASE pc[c] = "insert"
    BY <1>1, <1>2, <2>1, <2>3 DEF Arguments, CallInv, BeginCreate, InsertChat, ChatsInv, TypeOK
  <2> QED
    BY <1>1, <2>2, <2>3
<1>4. TypeOK'
  BY <1>1, <1>2, <1>3, NoneAssumption
  DEF BeginCreate, InsertChat, Goto, ChatsInv, TypeOK, States
<1>5. CallInv(c)'
  <2>1. CallInv(c) /\ Pair(c)' = Pair(c) /\ NamesItself(c)' = NamesItself(c)
    BY <1>1, <1>3 DEF ChatsInv, Pair, NamesItself
  <2> QED
    BY <2>1, <1>1, <1>2, <1>3 DEF CallInv, Creating
<1> QED
  BY <1>1, <1>2, <1>3, <1>4, <1>5, CallStepInv

(* The members are inserted until all that were asked for are there.       *)
LEMMA InsertMembersInv ==
  ASSUME ChatsInv, NEW c \in Calls, InsertMembers(c)
  PROVE  ChatsInv'
<1>1. pc[c] = "members" /\ args[c] \in Arguments /\ UNCHANGED <<clock, args, chats>>
  BY BusyArguments DEF InsertMembers, ChatsInv
<1>2. /\ pc'[c] = IF draft'[c] = Pair(c) THEN "commit" ELSE "members"
      /\ \A d \in Calls : d # c => pc'[d] = pc[d] /\ draft'[d] = draft[d]
  BY DEF InsertMembers, Goto, ChatsInv, TypeOK
<1>3. Pair(c) \subseteq Users
  BY <1>1 DEF Pair, Arguments
<1>4. TypeOK'
  BY <1>1, <1>2, <1>3 DEF InsertMembers, Goto, ChatsInv, TypeOK, States
<1>5. CallInv(c)'
  <2>1. CallInv(c) /\ Pair(c)' = Pair(c) /\ NamesItself(c)' = NamesItself(c)
    BY <1>1 DEF ChatsInv, Pair, NamesItself
  <2>2. pc'[c] = "commit" => draft'[c] = Pair(c) /\ ~NamesItself(c)
    BY <1>1, <1>2, <2>1 DEF InsertMembers, CallInv
  <2> QED
    BY <1>1, <1>2, <2>1, <2>2 DEF CallInv, Creating
<1> QED
  BY <1>1, <1>2, <1>4, <1>5, CallStepInv

(* The members are all there when the chat is committed, and not before.   *)
LEMMA CommitChatInv ==
  ASSUME ChatsInv, NEW c \in Calls, CommitChat(c)
  PROVE  ChatsInv'
<1>1. PICK new : new = [id |-> c, type |-> args[c].op, createdBy |-> args[c].user,
                        members |-> draft[c], createdAt |-> args[c].began,
                        lastMessageAt |-> Never]
  OBVIOUS
<1>2. /\ pc[c] = "commit" /\ args[c] \in Arguments
      /\ args[c].op \in {"direct", "group"} /\ args[c].began \in Time
      /\ draft[c] = Pair(c) /\ ~NamesItself(c)
      /\ chats' = chats \cup {new} /\ UNCHANGED <<clock, args>>
  BY <1>1, BusyArguments DEF CommitChat, ChatsInv, CallInv, Creating
<1>3. /\ pc'[c] = "get"
      /\ \A d \in Calls : d # c => pc'[d] = pc[d] /\ draft'[d] = draft[d]
  BY DEF CommitChat, Goto, ChatsInv, TypeOK
<1>4. new \in Chat
  BY <1>1, <1>2 DEF Chat, Arguments, Pair, ChatsInv, TypeOK
<1>5. TypeOK'
  BY <1>2, <1>3, <1>4 DEF CommitChat, Goto, ChatsInv, TypeOK, States
<1>6. \A chat \in chats : chat.id \in Calls \ {c}
  BY <1>2 DEF ChatsInv, TypeOK, Chat, ChatInv
<1>7. ASSUME NEW d \in Calls, pc'[d] # "idle" PROVE CallInv(d)'
  <2>1. CASE d = c
    <3>1. args[c].chat = Printed(c)
      BY <1>2 DEF ChatsInv, CallInv
    <3>2. CallInv(c) /\ Pair(c)' = Pair(c) /\ NamesItself(c)' = NamesItself(c)
      BY <1>2 DEF ChatsInv, Pair, NamesItself
    <3>3. Answers(c, new)' /\ new \in chats'
      BY <3>1, <3>2, <1>1, <1>2 DEF Answers
    <3>4. \E chat \in chats' : Answers(c, chat)'
      BY <3>3
    <3>5. Printed(c) \in Texts(Calls)
      BY ChatsAssumption DEF Printed, Texts
    <3> QED
      BY <2>1, <3>1, <3>2, <3>4, <3>5, <1>2, <1>3 DEF CallInv, Creating
  <2>2. CASE d # c
    <3>1. /\ CallInv(d) /\ pc'[d] = pc[d] /\ args'[d] = args[d] /\ draft'[d] = draft[d]
          /\ Pair(d)' = Pair(d) /\ NamesItself(d)' = NamesItself(d)
      BY <2>2, <1>7, <1>2, <1>3 DEF ChatsInv, Pair, NamesItself
    <3>2. \A chat \in chats : chat \in chats' /\ Answers(d, chat)' = Answers(d, chat)
      BY <3>1, <1>2 DEF Answers
    <3> QED
      BY <3>1, <3>2 DEF CallInv, Creating
  <2> QED
    BY <2>1, <2>2
<1>8. ChatInv(new)'
  <2>1. Cardinality(Pair(c)) >= 2
        /\ (args[c].op = "direct" => IsFiniteSet(Pair(c)) /\ Cardinality(Pair(c)) = 2)
    <3>1. CASE args[c].op = "direct"
      <4>1. PICK peer \in Users : peer # args[c].user /\ args[c].others = {peer}
        BY <3>1, <1>2 DEF ChatsInv, CallInv, NamesItself
      <4>2. Pair(c) = {args[c].user, peer}
        BY <4>1 DEF Pair
      <4>3. IsFiniteSet({args[c].user, peer}) /\ Cardinality({args[c].user, peer}) = 2
        BY <4>1, Pairs
      <4> QED
        BY <4>2, <4>3
    <3>2. CASE args[c].op = "group"
      BY <3>2, <1>2 DEF ChatsInv, CallInv
    <3> QED
      BY <3>1, <3>2, <1>2
  <2>2. Pair(c)' = Pair(c)
    BY <1>2 DEF Pair
  <2> QED
    BY <2>1, <2>2, <1>1, <1>2, <1>3 DEF ChatInv
<1>9. ASSUME NEW chat \in chats PROVE ChatInv(chat)'
  BY <1>2, <1>3, <1>6 DEF ChatsInv, ChatInv, Pair
<1>10. IsFiniteSet(chats')
  BY <1>2, FS_AddElement DEF ChatsInv
<1>11. \A x, y \in chats' : x.id = y.id => x = y
  BY <1>1, <1>2, <1>6 DEF ChatsInv
<1> QED
  BY <1>2, <1>5, <1>7, <1>8, <1>9, <1>10, <1>11 DEF ChatsInv

(* Only a member finds the chat on a page of its own.                      *)
LEMMA GetChatForUserInv ==
  ASSUME ChatsInv, NEW c \in Calls, GetChatForUser(c)
  PROVE  ChatsInv'
<1>1. /\ pc[c] = "get" /\ UNCHANGED <<clock, args, draft, chats>>
      /\ pc' = [pc EXCEPT ![c] = pc'[c]] /\ pc'[c] \in {"done", "forbidden"}
      /\ pc'[c] = "done" => \E chat \in ChatsOf(args[c].user) : Printed(chat.id) = args[c].chat
  BY DEF GetChatForUser, FirstPages, Goto, ChatsInv, TypeOK
<1>2. TypeOK' /\ \A d \in Calls : d # c => pc'[d] = pc[d]
  BY <1>1 DEF ChatsInv, TypeOK, States
<1>3. /\ CallInv(c) /\ Pair(c)' = Pair(c) /\ NamesItself(c)' = NamesItself(c)
      /\ \A chat \in chats : Answers(c, chat)' = Answers(c, chat)
  BY <1>1 DEF ChatsInv, Pair, Answers, NamesItself
<1>4. pc'[c] = "done" =>
        \E chat \in chats : Answers(c, chat) /\ args[c].user \in chat.members
  <2> SUFFICES ASSUME pc'[c] = "done"
               PROVE  \E chat \in chats : Answers(c, chat) /\ args[c].user \in chat.members
    OBVIOUS
  <2>1. PICK chat \in chats : Printed(chat.id) = args[c].chat /\ args[c].user \in chat.members
    BY <1>1 DEF ChatsOf
  <2>2. CASE args[c].op = "get"
    BY <2>1, <2>2 DEF Answers
  <2>3. CASE args[c].op # "get"
    <3>1. PICK answer \in chats : Answers(c, answer)
      BY <1>1, <1>3, <2>3 DEF CallInv
    <3>2. answer = chat
      BY <2>1, <3>1 DEF Answers, Printed, ChatsInv
    <3> QED
      BY <2>1, <3>1, <3>2
  <2> QED
    BY <2>2, <2>3
<1>5. CallInv(c)'
  BY <1>1, <1>3, <1>4 DEF CallInv, Creating
<1> QED
  BY <1>1, <1>2, <1>5, CallStepInv

(* A transaction that is rolled back leaves no chat.                       *)
LEMMA AbortInv ==
  ASSUME ChatsInv, NEW c \in Calls, Abort(c)
  PROVE  ChatsInv'
<1>1. /\ pc[c] # "idle" /\ UNCHANGED <<clock, args, chats>> /\ pc'[c] = "failed"
      /\ \A d \in Calls : d # c => pc'[d] = pc[d] /\ draft'[d] = draft[d]
  BY DEF Abort, Goto, ChatsInv, TypeOK
<1>2. TypeOK'
  BY <1>1 DEF Abort, Goto, ChatsInv, TypeOK, States
<1>3. CallInv(c)'
  BY <1>1 DEF CallInv, Creating, NamesItself
<1> QED
  BY <1>1, <1>2, <1>3, CallStepInv

(* A message changes what ListChats sorts by, and nothing of who is served. *)
LEMMA MessageSentInv ==
  ASSUME ChatsInv, NEW chat \in chats, NEW t \in Time, MessageSent(chat, t)
  PROVE  ChatsInv'
<1> DEFINE new == [chat EXCEPT !.lastMessageAt = t]
<1>1. /\ chats' = (chats \ {chat}) \cup {new} /\ UNCHANGED <<clock, pc, args, draft>>
      /\ new \in Chat /\ new.id = chat.id /\ new.type = chat.type
      /\ new.createdBy = chat.createdBy /\ new.members = chat.members
  BY DEF MessageSent, ChatsInv, TypeOK, Chat
<1> HIDE DEF new
<1>2. TypeOK'
  BY <1>1 DEF ChatsInv, TypeOK
<1>3. \A c \in Calls : Pair(c)' = Pair(c) /\ NamesItself(c)' = NamesItself(c)
  BY <1>1 DEF Pair, NamesItself
<1>4. \A x \in chats : \E y \in chats' :
        y.id = x.id /\ y.type = x.type /\ y.members = x.members
  BY <1>1
<1>5. ASSUME NEW c \in Calls, pc'[c] # "idle" PROVE CallInv(c)'
  <2>1. CallInv(c)
    BY <1>1, <1>5 DEF ChatsInv
  <2>2. (\E x \in chats : Answers(c, x)) => (\E y \in chats' : Answers(c, y)')
    BY <1>1, <1>3, <1>4 DEF Answers
  <2>3. (\E x \in chats : Answers(c, x) /\ args[c].user \in x.members) =>
          (\E y \in chats' : Answers(c, y)' /\ args'[c].user \in y.members)
    BY <1>1, <1>3, <1>4 DEF Answers
  <2> QED
    BY <2>1, <2>2, <2>3, <1>1, <1>3 DEF CallInv
<1>6. ASSUME NEW x \in chats' PROVE ChatInv(x)'
  <2>1. PICK y \in chats : y.id = x.id /\ y.type = x.type /\ y.members = x.members
                           /\ y.createdBy = x.createdBy
    BY <1>1
  <2>2. ChatInv(y) /\ y.id \in Calls
    BY DEF ChatsInv, TypeOK, Chat
  <2> QED
    BY <2>1, <2>2, <1>1, <1>3 DEF ChatInv
<1>7. \A x, y \in chats' : x.id = y.id => x = y
  BY <1>1 DEF ChatsInv
<1>8. IsFiniteSet(chats')
  <2>1. IsFiniteSet(chats \ {chat})
    BY FS_RemoveElement DEF ChatsInv
  <2> QED
    BY <2>1, <1>1, FS_AddElement
<1> QED
  BY <1>2, <1>5, <1>6, <1>7, <1>8 DEF ChatsInv

(* Every step preserves the invariant.                                     *)
LEMMA NextInv == ChatsInv /\ [Next]_vars => ChatsInv'
<1> SUFFICES ASSUME ChatsInv, [Next]_vars PROVE ChatsInv'
  OBVIOUS
<1>1. CASE Tick \/ UNCHANGED vars
  <2>1. TypeOK'
    BY <1>1, ChatsAssumption DEF Tick, vars, ChatsInv, TypeOK, Time
  <2>2. UNCHANGED <<pc, args, draft, chats>>
    BY <1>1 DEF Tick, vars
  <2> QED
    BY <2>1, <2>2 DEF ChatsInv, CallInv, ChatInv, Answers, Pair, NamesItself
<1> QED
  BY <1>1, BeginInv, FindExistingInv, BeginCreateInv, InsertMembersInv, CommitChatInv,
     GetChatForUserInv, AbortInv, MessageSentInv DEF Next, Step

(* So it holds in every reachable state.                                   *)
LEMMA SpecInv == Spec => []ChatsInv
BY InitInv, NextInv, PTL DEF Spec

(* The rows and the calls have their types.                                *)
THEOREM TypeCorrect == Spec => []TypeOK
<1>1. ChatsInv => TypeOK
  BY DEF ChatsInv
<1> QED
  BY <1>1, SpecInv, PTL

(* A chat is seen with all of its members or not at all, however many      *)
(* statements insert them and wherever a creation is broken off.           *)
THEOREM ChatsAreWhole == Spec => []WholeChats
<1>1. ChatsInv => WholeChats
  <2> SUFFICES ASSUME ChatsInv, NEW chat \in chats
               PROVE  /\ chat.members = Pair(chat.id) /\ chat.createdBy \in chat.members
                      /\ Cardinality(chat.members) >= 2
                      /\ chat.type = "direct" => Cardinality(chat.members) = 2
    BY DEF WholeChats
  <2> QED
    BY DEF ChatsInv, ChatInv, Pair
<1> QED
  BY <1>1, SpecInv, PTL

(* Who is answered with a chat is a member of it, and a creation is        *)
(* answered with the chat it asked for.                                    *)
THEOREM ChatsAreServed == Spec => []ServedChats
<1>1. ChatsInv => ServedChats
  BY DEF ChatsInv, CallInv, Answers, ServedChats
<1> QED
  BY <1>1, SpecInv, PTL

-----------------------------------------------------------------------------
(* A call that begins inserts nothing yet.                                 *)
LEMMA BeginEffect ==
  ASSUME ChatsInv, NEW c \in Calls, Begin(c)
  PROVE  /\ pc[c] = "idle" /\ pc'[c] \in {"find", "begin", "get", "failed"}
         /\ pc'[c] = "begin" => args'[c].op = "group"
         /\ chats' = chats
         /\ \A d \in Calls : d # c => pc'[d] = pc[d] /\ args'[d] = args[d]
<1>1. ASSUME NEW op, NEW user, NEW others, NEW chat,
             NEW s \in {"find", "begin", "get", "failed"},
             Start(c, op, user, others, chat, s), s = "begin" => op = "group"
      PROVE  /\ pc'[c] \in {"find", "begin", "get", "failed"}
             /\ pc'[c] = "begin" => args'[c].op = "group"
             /\ chats' = chats
             /\ \A d \in Calls : d # c => pc'[d] = pc[d] /\ args'[d] = args[d]
  BY <1>1 DEF Start, ChatsInv, TypeOK
<1> QED
  BY <1>1 DEF Begin, CreateDirectChat, CreateGroupChat, AskForChat

(* A creation that looks for the chat of a pair that has one finds it, so  *)
(* that only one that had looked before can commit another.                *)
THEOREM DuplicatesOverlap == Spec => NoLateDuplicate
<1>1. ASSUME ChatsInv, [Next]_vars, NEW pair \in SUBSET Users,
             DirectChats(pair) # {}, UnderWay(pair) = {}
      PROVE  DirectChats(pair)' = DirectChats(pair) /\ UnderWay(pair)' = {}
  <2> USE <1>1
  <2> DEFINE Moves(d) == /\ pc[d] # "idle" /\ args'[d].op = args[d].op /\ Pair(d)' = Pair(d)
                         /\ pc'[d] \in Creating => pc[d] \in Creating
  <2>1. ASSUME NEW c \in Calls, \A d \in Calls : d # c => pc'[d] = pc[d] /\ args'[d] = args[d],
               ~(pc'[c] \in Creating /\ args'[c].op = "direct" /\ Pair(c)' = pair)
        PROVE  UnderWay(pair)' = {}
    <3>1. \A d \in Calls : d # c => Pair(d)' = Pair(d)
      BY <2>1 DEF Pair
    <3> QED
      BY <2>1, <3>1 DEF UnderWay, Creating
  <2>2. ASSUME NEW c \in Calls, Moves(c)
        PROVE  ~(pc'[c] \in Creating /\ args'[c].op = "direct" /\ Pair(c)' = pair)
    BY <2>2 DEF UnderWay, Creating
  <2>3. ASSUME NEW c \in Calls, Begin(c)
        PROVE  DirectChats(pair)' = DirectChats(pair) /\ UnderWay(pair)' = {}
    <3>1. /\ chats' = chats /\ \A d \in Calls : d # c => pc'[d] = pc[d] /\ args'[d] = args[d]
          /\ pc'[c] \in Creating => args'[c].op # "direct"
      BY <2>3, BeginEffect DEF Creating
    <3> QED
      BY <3>1, <2>1 DEF DirectChats
  <2>4. ASSUME NEW c \in Calls, FindExisting(c)
        PROVE  DirectChats(pair)' = DirectChats(pair) /\ UnderWay(pair)' = {}
    <3>1. /\ pc[c] = "find" /\ chats' = chats
          /\ \A d \in Calls : d # c => pc'[d] = pc[d] /\ args'[d] = args[d]
          /\ pc'[c] \in Creating => Existing(c) = {} /\ args' = args
      BY <2>4 DEF FindExisting, Goto, ChatsInv, TypeOK, Creating
    <3>2. ASSUME pc'[c] \in Creating, Pair(c)' = pair PROVE FALSE
      <4>1. Pair(c) = pair
        BY <3>1, <3>2 DEF Pair
      <4>2. PICK chat \in chats : chat.type = "direct" /\ chat.members = pair
        BY DEF DirectChats
      <4>3. chat \in Existing(c)
        BY <3>1, <4>1, <4>2, ExistingIsTheirs
      <4> QED
        BY <3>1, <3>2, <4>3
    <3> QED
      BY <3>1, <3>2, <2>1 DEF DirectChats
  <2>5. ASSUME NEW c \in Calls, BeginCreate(c) \/ InsertChat(c)
        PROVE  DirectChats(pair)' = DirectChats(pair) /\ UnderWay(pair)' = {}
    <3>1. /\ pc[c] \in Creating /\ args[c] \in Arguments /\ chats' = chats
          /\ args'[c] \in {[args[c] EXCEPT !.began = clock], [args[c] EXCEPT !.chat = Printed(c)]}
          /\ \A d \in Calls : d # c => pc'[d] = pc[d] /\ args'[d] = args[d]
      BY <2>5, BusyArguments DEF BeginCreate, InsertChat, Goto, ChatsInv, TypeOK, Creating
    <3>2. /\ args'[c].op = args[c].op /\ args'[c].user = args[c].user
          /\ args'[c].others = args[c].others
      BY <3>1 DEF Arguments
    <3>3. Moves(c)
      BY <3>1, <3>2 DEF Pair, Creating
    <3> QED
      BY <3>1, <3>3, <2>1, <2>2 DEF DirectChats
  <2>6. ASSUME NEW c \in Calls, InsertMembers(c) \/ GetChatForUser(c) \/ Abort(c)
        PROVE  DirectChats(pair)' = DirectChats(pair) /\ UnderWay(pair)' = {}
    <3>1. /\ chats' = chats /\ \A d \in Calls : d # c => pc'[d] = pc[d] /\ args'[d] = args[d]
      BY <2>6 DEF InsertMembers, GetChatForUser, Abort, Goto, ChatsInv, TypeOK
    <3>2. Moves(c)
      BY <2>6 DEF InsertMembers, GetChatForUser, Abort, Goto, Pair, ChatsInv, TypeOK, Creating
    <3> QED
      BY <3>1, <3>2, <2>1, <2>2 DEF DirectChats
  <2>7. ASSUME NEW c \in Calls, CommitChat(c)
        PROVE  DirectChats(pair)' = DirectChats(pair) /\ UnderWay(pair)' = {}
    <3>1. /\ pc[c] = "commit" /\ pc'[c] = "get" /\ args' = args /\ draft[c] = Pair(c)
          /\ \A d \in Calls : d # c => pc'[d] = pc[d]
      BY <2>7 DEF CommitChat, Goto, ChatsInv, TypeOK, CallInv
    <3>2. ~(args[c].op = "direct" /\ Pair(c) = pair)
      BY <3>1 DEF UnderWay
    <3>3. PICK new : /\ chats' = chats \cup {new}
                     /\ new.type = args[c].op /\ new.members = Pair(c)
      <4> DEFINE row == [id |-> c, type |-> args[c].op, createdBy |-> args[c].user,
                         members |-> draft[c], createdAt |-> args[c].began,
                         lastMessageAt |-> Never]
      <4>1. row.type = args[c].op /\ row.members = Pair(c)
        BY <3>1
      <4>2. chats' = chats \cup {row}
        BY <2>7 DEF CommitChat
      <4> QED
        BY <4>1, <4>2
    <3>4. DirectChats(pair)' = DirectChats(pair)
      BY <3>2, <3>3 DEF DirectChats
    <3> QED
      BY <3>1, <3>4, <2>1 DEF Creating
  <2>8. ASSUME NEW chat \in chats, NEW t \in Time, MessageSent(chat, t)
        PROVE  DirectChats(pair)' = DirectChats(pair) /\ UnderWay(pair)' = {}
    <3>1. PICK new : /\ chats' = (chats \ {chat}) \cup {new}
                     /\ new.id = chat.id /\ new.type = chat.type /\ new.members = chat.members
      <4> DEFINE row == [chat EXCEPT !.lastMessageAt = t]
      <4>1. row.id = chat.id /\ row.type = chat.type /\ row.members = chat.members
        BY DEF ChatsInv, TypeOK, Chat
      <4>2. chats' = (chats \ {chat}) \cup {row}
        BY <2>8 DEF MessageSent
      <4> QED
        BY <4>1, <4>2
    <3>2. UNCHANGED <<pc, args>>
      BY <2>8 DEF MessageSent
    <3> QED
      BY <3>1, <3>2 DEF DirectChats, UnderWay, Pair
  <2>9. CASE Tick \/ UNCHANGED vars
    BY <2>9 DEF Tick, vars, DirectChats, UnderWay, Pair
  <2> QED
    BY <2>3, <2>4, <2>5, <2>6, <2>7, <2>8, <2>9 DEF Next, Step
<1>2. ChatsInv /\ [Next]_vars =>
        \A pair \in SUBSET Users :
          DirectChats(pair) # {} /\ UnderWay(pair) = {} =>
            DirectChats(pair)' = DirectChats(pair) /\ UnderWay(pair)' = {}
  BY <1>1
<1> QED
  BY <1>2, SpecInv, PTL DEF Spec, NoLateDuplicate

(* Who has no more chats than one page holds, and asks for a chat by the   *)
(* text that PostgreSQL returned, is told "forbidden" only of a chat that  *)
(* is not one of theirs.                                                   *)
THEOREM ForbiddenOffPage == Spec => ForbiddenOnlyOffPage
<1>1. ASSUME ChatsInv, [Next]_vars, NEW c \in Calls, pc[c] = "get", pc'[c] = "forbidden"
      PROVE  \/ Cardinality(ChatsOf(args[c].user)) > PageLimit
             \/ args[c].op = "get" /\ args[c].chat.spelling # Canonical
             \/ \A chat \in ChatsOf(args[c].user) : chat.id # args[c].chat.id
  <2> USE <1>1
  <2>1. GetChatForUser(c)
    <3>1. ASSUME NEW d \in Calls, Begin(d) PROVE FALSE
      BY <3>1, BeginEffect
    <3>2. ASSUME NEW d \in Calls, Step(d) \/ Abort(d), ~GetChatForUser(d) PROVE FALSE
      <4>1. /\ \A x \in Calls : x # d => pc'[x] = pc[x]
            /\ pc'[d] # "forbidden"
        BY <3>2 DEF Step, FindExisting, BeginCreate, InsertChat, InsertMembers,
                    CommitChat, Abort, Goto, ChatsInv, TypeOK
      <4> QED
        BY <4>1
    <3>3. ASSUME NEW d \in Calls, GetChatForUser(d) PROVE d = c
      BY <3>3 DEF GetChatForUser, Goto, ChatsInv, TypeOK
    <3>4. CASE UNCHANGED pc
      BY <3>4
    <3> QED
      BY <3>1, <3>2, <3>3, <3>4 DEF Next, vars, Tick, MessageSent, Step
  <2>2. PICK page \in FirstPages(args[c].user, 2 * PageLimit) :
          Goto(c, IF \E chat \in page : Printed(chat.id) = args[c].chat THEN "done" ELSE "forbidden")
    BY <2>1 DEF GetChatForUser
  <2>3. \A chat \in page : Printed(chat.id) # args[c].chat
    BY <2>2 DEF Goto, ChatsInv, TypeOK
  <2>4. Clamp(2 * PageLimit) = PageLimit
    BY ChatsAssumption DEF Clamp
  <2>5. IsFiniteSet(ChatsOf(args[c].user))
    BY FS_Subset DEF ChatsOf, ChatsInv
  <2>6. \/ args[c].op = "get" /\ args[c].chat.spelling # Canonical
        \/ \A chat \in page : chat.id # args[c].chat.id
    <3>1. /\ args[c].chat \in Texts(Calls)
          /\ args[c].op # "get" => \E chat \in chats : Printed(chat.id) = args[c].chat
      BY DEF ChatsInv, CallInv, Answers
    <3>2. ASSUME args[c].op # "get" PROVE args[c].chat.spelling = Canonical
      <4>1. PICK chat \in chats : Printed(chat.id) = args[c].chat
        BY <3>1, <3>2
      <4>2. Printed(chat.id).spelling = Canonical
        BY DEF Printed
      <4> QED
        BY <4>1, <4>2
    <3>3. args[c].chat.spelling = Canonical => args[c].chat = Printed(args[c].chat.id)
      BY <3>1 DEF Printed, Texts
    <3> QED
      BY <2>3, <3>2, <3>3
  <2>7. CASE page = ChatsOf(args[c].user)
    BY <2>7, <2>6
  <2>8. CASE page # ChatsOf(args[c].user)
    <3>1. page \in SUBSET ChatsOf(args[c].user) /\ Cardinality(page) = PageLimit
      BY <2>2, <2>4, <2>8 DEF FirstPages
    <3>2. /\ Cardinality(page) <= Cardinality(ChatsOf(args[c].user))
          /\ Cardinality(page) # Cardinality(ChatsOf(args[c].user))
      BY <2>5, <2>8, <3>1, FS_Subset
    <3>3. Cardinality(ChatsOf(args[c].user)) \in Nat
      BY <2>5, FS_CardinalityType
    <3> QED
      BY <3>1, <3>2, <3>3, ChatsAssumption
  <2> QED
    BY <2>7, <2>8
<1>2. ChatsInv /\ [Next]_vars =>
        \A c \in Calls : pc[c] = "get" /\ pc'[c] = "forbidden" =>
          \/ Cardinality(ChatsOf(args[c].user)) > PageLimit
          \/ args[c].op = "get" /\ args[c].chat.spelling # Canonical
          \/ \A chat \in ChatsOf(args[c].user) : chat.id # args[c].chat.id
  BY <1>1
<1> QED
  BY <1>2, SpecInv, PTL DEF Spec, ForbiddenOnlyOffPage
=============================================================================
