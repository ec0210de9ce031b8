----------------------------- MODULE MessageLog -----------------------------
(* What SendMessage promises its callers: a chat is a set of messages that *)
(* only grows; a call adds at most one message, in one step; a call is     *)
(* answered with a message of its own caller, or fails, and may fail after *)
(* it has added its message; calls with the same client_msg_id are         *)
(* answered with one and the same message, added once.                     *)
EXTENDS Naturals

CONSTANTS Calls, Users, Chats, Members, Keys, NoKey, Time, None, Failed

VARIABLES
  asked,     \* the arguments of each call of SendMessage
  posted,    \* the messages
  answer     \* the message a call was answered with, or Failed

vars == <<asked, posted, answer>>

Sends == [user : Users, chat : Chats, key : Keys \cup {NoKey}]

Init ==
  /\ asked = [c \in Calls |-> None]
  /\ posted = {}
  /\ answer = [c \in Calls |-> None]

(* A message that is what call c asks for.                                 *)
Fits(row, c) ==
  /\ row.sender = asked[c].user /\ row.chat = asked[c].chat
  /\ row.key = asked[c].key
  /\ row.key = NoKey => row.id = c

Ask(c) ==
  /\ asked[c] = None
  /\ asked' \in {[asked EXCEPT ![c] = send] : send \in Sends}
  /\ UNCHANGED posted
  /\ answer' = [answer EXCEPT ![c] =
       IF asked'[c].user \in Members[asked'[c].chat] THEN @ ELSE Failed]

Post(c) ==
  /\ asked[c] # None /\ answer[c] = None
  /\ ~ \E row \in posted : row.id = c \/ Fits(row, c)
  /\ \E t \in Time :
       posted' = posted \cup {[id |-> c, chat |-> asked[c].chat,
                               sender |-> asked[c].user,
                               key |-> asked[c].key, sentAt |-> t]}
  /\ UNCHANGED <<asked, answer>>

Answer(c) ==
  /\ asked[c] # None /\ answer[c] = None
  /\ \E row \in posted : /\ Fits(row, c)
                         /\ answer' = [answer EXCEPT ![c] = row.id]
  /\ UNCHANGED <<asked, posted>>

Fail(c) ==
  /\ asked[c] # None /\ answer[c] = None
  /\ answer' = [answer EXCEPT ![c] = Failed]
  /\ UNCHANGED <<asked, posted>>

Next == \E c \in Calls : Ask(c) \/ Post(c) \/ Answer(c) \/ Fail(c)

Spec == Init /\ [][Next]_vars
=============================================================================
