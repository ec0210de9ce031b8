------------------------------- MODULE Chats -------------------------------
(***************************************************************************)
(* chat.Service.CreateDirectChat, CreateGroupChat and GetChatForUser: how  *)
(* chats come to be and how they are looked up again.  A creation looks    *)
(* for what exists in statements of their own, then inserts in one         *)
(* transaction; every creation ends with GetChatForUser, which searches    *)
(* the first page of ListChats for the chat.                               *)
(*                                                                         *)
(* A chat is identified by the call that inserted it.  No operation adds a *)
(* member to a chat, removes one, or removes a chat.                       *)
(*                                                                         *)
(* PostgreSQL compares identifiers as uuid, in Go they are texts, and a    *)
(* uuid can be spelled in several ways (in capitals, for one).             *)
(***************************************************************************)
EXTENDS Integers, FiniteSets

CONSTANTS
  Calls,
  Users,      \* the active users
  Strangers,  \* identifiers of no user
  Spellings,  \* the ways to write an identifier
  Canonical,  \* the one in which PostgreSQL returns it
  PageLimit,  \* what ListChats clamps its limit to (100 in the code)
  MaxTime,    \* bound of the model: the last time of the clock
  None

ASSUME ChatsAssumption ==
  /\ Users \cap Strangers = {}
  /\ Canonical \in Spellings
  /\ PageLimit \in Nat \ {0}
  /\ MaxTime \in Nat
  /\ None \notin Calls \cup Users

VARIABLES
  clock,
  pc,      \* the next statement of every call
  args,    \* its arguments, the chat it found or inserts, and its NOW(),
           \* Never before its transaction begins
  draft,   \* the rows of chat_members in its open transaction
  chats    \* the committed rows of chats, with their members

vars == <<clock, pc, args, draft, chats>>

Time  == 0..MaxTime
Never == -1

(* Identifiers as requests spell them, and one that came from the database *)
(* (the caller's own, from its access token, is one of these).             *)
Texts(ids)  == [id : ids, spelling : Spellings]
Printed(id) == [id |-> id, spelling |-> Canonical]

(* What a request for a group may list.                                    *)
Lists == {listed \in SUBSET Texts(Users \cup Strangers) : IsFiniteSet(listed)}

Chat == [id : Calls, type : {"direct", "group"}, createdBy : Users,
         members : SUBSET Users, createdAt : Time,
         lastMessageAt : Time \cup {Never}]
Arguments ==
  [op : {"direct", "group", "get"}, user : Users, others : SUBSET Users,
   chat : Texts(Calls) \cup {None}, began : Time \cup {Never}]

ASSUME NoneAssumption == None \notin Arguments

States == {"idle", "find", "begin", "insert", "members", "commit", "get",
           "done", "forbidden", "failed"}

TypeOK ==
  /\ clock \in Time
  /\ pc \in [Calls -> States]
  /\ args \in [Calls -> Arguments \cup {None}]
  /\ \A c \in Calls : pc[c] # "idle" => args[c] # None
  /\ draft \in [Calls -> SUBSET Users]
  /\ chats \subseteq Chat

Init ==
  /\ clock = 0
  /\ pc = [c \in Calls |-> "idle"]
  /\ args = [c \in Calls |-> None]
  /\ draft = [c \in Calls |-> {}]
  /\ chats = {}

Start(c, op, user, others, chat, state) ==
  /\ args' = [args EXCEPT ![c] = [op |-> op, user |-> user, others |-> others,
                                  chat |-> chat, began |-> Never]]
  /\ pc' = [pc EXCEPT ![c] = state]
  /\ UNCHANGED <<clock, draft, chats>>

Goto(c, state) == pc' = [pc EXCEPT ![c] = state]

Pair(c) == {args[c].user} \cup args[c].others

-----------------------------------------------------------------------------
(* Mutations.  Each is a definition below with a plausible mistake in it;  *)
(* PROJECT.json names the property that fails when it takes its place.     *)

(* Only the chats that the caller itself created.                          *)
ExistingOwn(c) ==
  {chat \in chats : /\ chat.type = "direct" /\ chat.members = Pair(c)
                    /\ chat.createdBy = args[c].user}

(* Any chat of the two.                                                    *)
ExistingAny(c) == {chat \in chats : chat.members = Pair(c)}

(* No ensureUsersExist.                                                    *)
CreateGroupChatUnchecked(c, user, listed) ==
  LET texts == listed \cup {Printed(user)}
  IN  IF Cardinality(texts) >= 2
      THEN Start(c, "group", user, {text.id : text \in texts} \ {user}, None, "begin")
      ELSE Start(c, "group", user, {}, None, "failed")

(* A member that cannot be inserted is passed over.                        *)
InsertMembersSome(c) ==
  /\ pc[c] = "members"
  /\ \E inserted \in SUBSET Pair(c) :
       draft' = [draft EXCEPT ![c] = inserted]
  /\ Goto(c, "commit")
  /\ UNCHANGED <<clock, args, chats>>

(* JOIN LATERAL in place of LEFT JOIN LATERAL.                             *)
FirstPagesSpoken(user, limit) ==
  LET spoken == {chat \in chats : user \in chat.members /\ chat.lastMessageAt # Never}
  IN  {page \in SUBSET spoken :
         /\ \A x \in page, y \in spoken \ page : x.lastMessageAt >= y.lastMessageAt
         /\ Cardinality(page) <= PageLimit
         /\ page = spoken \/ Cardinality(page) = PageLimit}

-----------------------------------------------------------------------------
(* The validation of CreateDirectChat, of texts, and userExists, of uuids. *)
(* The caller itself passes both when its identifier is spelled otherwise. *)
CreateDirectChat(c, user, peer) ==
  IF peer # Printed(user) /\ peer.id \in Users
  THEN Start(c, "direct", user, {peer.id}, None, "find")
  ELSE Start(c, "direct", user, {}, None, "failed")

NamesItself(c) == args[c].user \in args[c].others

(* findExistingDirectChat: a direct chat of two members, these among them; *)
(* both joins find the row of a caller that names itself.                  *)
Existing(c) ==
  {chat \in chats : /\ chat.type = "direct" /\ Pair(c) \subseteq chat.members
                    /\ Cardinality(chat.members) = 2}

FindExisting(c) ==
  /\ pc[c] = "find"
  /\ \/ /\ Existing(c) = {}
        /\ Goto(c, "begin")
        /\ UNCHANGED args
     \/ \E chat \in Existing(c) :
          /\ args' = [args EXCEPT ![c].chat = Printed(chat.id)]
          /\ Goto(c, "get")
  /\ UNCHANGED <<clock, draft, chats>>

(* As many users as there are texts: a user who is listed in two spellings *)
(* counts once.                                                            *)
UsersOf(texts)          == {text.id : text \in texts} \cap Users
EnsureUsersExist(texts) == Cardinality(UsersOf(texts)) = Cardinality(texts)

(* The list of members is made of distinct texts (uniqueIDs), the          *)
(* creator's among them, and a group needs two.                            *)
CreateGroupChat(c, user, listed) ==
  LET texts == listed \cup {Printed(user)}
  IN  IF Cardinality(texts) >= 2 /\ EnsureUsersExist(texts)
      THEN Start(c, "group", user, UsersOf(texts) \ {user}, None, "begin")
      ELSE Start(c, "group", user, {}, None, "failed")

BeginCreate(c) ==
  /\ pc[c] = "begin"
  /\ args' = [args EXCEPT ![c].began = clock]
  /\ Goto(c, "insert")
  /\ UNCHANGED <<clock, draft, chats>>

InsertChat(c) ==
  /\ pc[c] = "insert"
  /\ args' = [args EXCEPT ![c].chat = Printed(c)]
  /\ Goto(c, "members")
  /\ UNCHANGED <<clock, draft, chats>>

(* Both members of a direct chat at once, those of a group one by one.  A  *)
(* member twice breaks the primary key of chat_members: Abort is left.     *)
InsertMembers(c) ==
  /\ pc[c] = "members"
  /\ \/ /\ args[c].op = "direct" /\ ~NamesItself(c)
        /\ draft' = [draft EXCEPT ![c] = Pair(c)]
     \/ /\ args[c].op = "group"
        /\ \E user \in Pair(c) \ draft[c] :
             draft' = [draft EXCEPT ![c] = @ \cup {user}]
  /\ Goto(c, IF draft'[c] = Pair(c) THEN "commit" ELSE "members")
  /\ UNCHANGED <<clock, args, chats>>

CommitChat(c) ==
  /\ pc[c] = "commit"
  /\ chats' = chats \cup
       {[id |-> c, type |-> args[c].op, createdBy |-> args[c].user,
         members |-> draft[c], createdAt |-> args[c].began,
         lastMessageAt |-> Never]}
  /\ draft' = [draft EXCEPT ![c] = {}]
  /\ Goto(c, "get")
  /\ UNCHANGED <<clock, args>>

-----------------------------------------------------------------------------
(* ListChats: the user's chats, latest first by the time of the last       *)
(* message or else of the creation, cut at the limit; equal times come in  *)
(* any order.                                                              *)
SortTime(chat) ==
  IF chat.lastMessageAt = Never THEN chat.createdAt ELSE chat.lastMessageAt

ChatsOf(user) == {chat \in chats : user \in chat.members}

Clamp(limit) == IF limit > PageLimit THEN PageLimit ELSE limit

FirstPages(user, limit) ==
  {page \in SUBSET ChatsOf(user) :
     /\ \A x \in page, y \in ChatsOf(user) \ page : SortTime(x) >= SortTime(y)
     /\ \/ Cardinality(page) = Clamp(limit)
        \/ page = ChatsOf(user) /\ Cardinality(page) <= Clamp(limit)}

(* GET /chats/:chat_id asks for any identifier, of a chat or not, as the   *)
(* request spells it.                                                      *)
AskForChat(c, user, chat) == Start(c, "get", user, {}, chat, "get")

(* GetChatForUser asks for twice the limit of ListChats and takes a chat   *)
(* whose text is not on the page for one the user is no member of.         *)
GetChatForUser(c) ==
  /\ pc[c] = "get"
  /\ \E page \in FirstPages(args[c].user, 2 * PageLimit) :
       Goto(c, IF \E chat \in page : Printed(chat.id) = args[c].chat
               THEN "done" ELSE "forbidden")
  /\ UNCHANGED <<clock, args, draft, chats>>

-----------------------------------------------------------------------------
(* A statement fails, the request is cancelled or the process dies.        *)
Abort(c) ==
  /\ pc[c] \in {"find", "begin", "insert", "members", "commit", "get"}
  /\ Goto(c, "failed")
  /\ draft' = [draft EXCEPT ![c] = {}]
  /\ UNCHANGED <<clock, args, chats>>

(* SendMessage, seen from here: last_message_at becomes the time at which  *)
(* its transaction began, which others may have overtaken (Messages).      *)
MessageSent(chat, t) ==
  /\ t \in chat.createdAt..clock
  /\ chats' = (chats \ {chat}) \cup {[chat EXCEPT !.lastMessageAt = t]}
  /\ UNCHANGED <<clock, pc, args, draft>>

Tick ==
  /\ clock < MaxTime
  /\ clock' = clock + 1
  /\ UNCHANGED <<pc, args, draft, chats>>

Begin(c) ==
  /\ pc[c] = "idle"
  /\ \E user \in Users :
       \/ \E peer \in Texts(Users \cup Strangers) : CreateDirectChat(c, user, peer)
       \/ \E listed \in Lists : CreateGroupChat(c, user, listed)
       \/ \E chat \in Texts(Calls) : AskForChat(c, user, chat)

Step(c) ==
  \/ FindExisting(c) \/ BeginCreate(c) \/ InsertChat(c) \/ InsertMembers(c)
  \/ CommitChat(c) \/ GetChatForUser(c)

Next ==
  \/ Tick
  \/ \E chat \in chats, t \in Time : MessageSent(chat, t)
  \/ \E c \in Calls : Begin(c) \/ Step(c) \/ Abort(c)

Spec == Init /\ [][Next]_vars

-----------------------------------------------------------------------------
(* A chat is seen whole or not at all: a direct chat with its two members, *)
(* a group with its creator and at least one more, and exactly the members *)
(* the call named, though they are inserted one by one (the transactions   *)
(* of CreateDirectChat and CreateGroupChat).                               *)
WholeChats ==
  \A chat \in chats :
    /\ chat.members = Pair(chat.id) /\ chat.createdBy \in chat.members
    /\ Cardinality(chat.members) >= 2
    /\ chat.type = "direct" => Cardinality(chat.members) = 2

(* A creation that succeeds answers with a chat that is there, of the type *)
(* and with the members that were asked for, whether this call or an       *)
(* earlier one inserted it, and a chat is served to its members only.  The *)
(* one exception is a caller that asks for a direct chat with itself, in   *)
(* another spelling: what it is answered is a direct chat it has with some *)
(* other user, and nothing is created for it.                              *)
ServedChats ==
  \A c \in Calls : pc[c] = "done" =>
    \E chat \in chats :
      /\ Printed(chat.id) = args[c].chat /\ args[c].user \in chat.members
      /\ args[c].op # "get" =>
           /\ chat.type = args[c].op
           /\ IF NamesItself(c) THEN chat.id # c ELSE chat.members = Pair(c)

DirectChats(pair) ==
  {chat.id : chat \in {x \in chats : x.type = "direct" /\ x.members = pair}}

UnderWay(pair) ==
  {c \in Calls : /\ pc[c] \in {"begin", "insert", "members", "commit"}
                 /\ args[c].op = "direct" /\ Pair(c) = pair}

(* Once two users have a direct chat and none of their creations is past   *)
(* its search, they get no other one, whichever of them asks and whatever  *)
(* else happens: only creations that overlap make duplicates               *)
(* (findExistingDirectChat).                                               *)
NoLateDuplicate ==
  [][\A pair \in SUBSET Users :
       DirectChats(pair) # {} /\ UnderWay(pair) = {} =>
         DirectChats(pair)' = DirectChats(pair) /\ UnderWay(pair)' = {}]_vars

(* A member is told that its chat is forbidden only when it has more chats *)
(* than ListChats returns at once, or when it did not spell the identifier *)
(* as PostgreSQL does; a creation of its first chats always answers with   *)
(* the chat, whatever other calls do before it is looked up                *)
(* (GetChatForUser).                                                       *)
ForbiddenOnlyOffPage ==
  [][\A c \in Calls : pc[c] = "get" /\ pc'[c] = "forbidden" =>
       \/ Cardinality(ChatsOf(args[c].user)) > PageLimit
       \/ args[c].op = "get" /\ args[c].chat.spelling # Canonical
       \/ \A chat \in ChatsOf(args[c].user) : chat.id # args[c].chat.id]_vars

(* Two users have one direct chat.                                         *)
OneDirectChat ==
  \A x, y \in chats :
    x.type = "direct" /\ y.type = "direct" /\ x.members = y.members => x = y

(* A member that asks for a chat is not told that it is forbidden.         *)
MembersAreServed ==
  [][\A c \in Calls : pc[c] = "get" /\ pc'[c] = "forbidden" =>
       ~ \E chat \in chats :
           chat.id = args[c].chat.id /\ args[c].user \in chat.members]_vars
=============================================================================
