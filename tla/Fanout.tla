------------------------------- MODULE Fanout -------------------------------
(* What the hub promises to those who publish and those who listen: every  *)
(* message that is published is taken in turn; a connection that joins is  *)
(* given, in that order and without a gap, the messages addressed to it    *)
(* that are taken from then on.  It may lose the rest of them at any time, *)
(* and then it is closed.                                                  *)
EXTENDS Naturals, Sequences

CONSTANTS
  Clients, Messages,
  Audience      \* the connections each message is addressed to

VARIABLES
  published,   \* all messages in the order of the hub
  taken,       \* how many of them the hub has taken
  state,       \* of each connection: "absent", "open" or "closed"
  joined,      \* how many were taken when it joined
  given        \* which of them, by their places, it has been given

vars == <<published, taken, state, joined, given>>

Init ==
  /\ published = <<>>
  /\ taken = 0
  /\ state = [c \in Clients |-> "absent"]
  /\ joined = [c \in Clients |-> 0]
  /\ given = [c \in Clients |-> {}]

(* What a connection ought to have been given once the hub is done.        *)
Due(c) == {k \in (joined[c] + 1)..taken : c \in Audience[published[k]]}

(* A connection that ends keeps the first part of what it was given.       *)
Parts(c) ==
  {part \in SUBSET given[c] :
     \A k \in part, j \in given[c] : j <= k => j \in part}

Publish(e) ==
  /\ published' = Append(published, e)
  /\ UNCHANGED <<taken, state, joined, given>>

(* The hub takes a message when it is done with the one before.            *)
Take ==
  /\ taken < Len(published)
  /\ \A c \in Clients : state[c] = "open" => given[c] = Due(c)
  /\ taken' = taken + 1
  /\ UNCHANGED <<published, state, joined, given>>

Join(c) ==
  /\ state[c] = "absent"
  /\ \A d \in Clients : state[d] = "open" => given[d] = Due(d)
  /\ state' = [state EXCEPT ![c] = "open"]
  /\ joined' = [joined EXCEPT ![c] = taken]
  /\ UNCHANGED <<published, taken, given>>

(* What is due is given in turn.                                           *)
Give(c) ==
  /\ state[c] = "open"
  /\ \E k \in Due(c) \ given[c] :
       /\ \A j \in Due(c) \ given[c] : k <= j
       /\ given' = [given EXCEPT ![c] = @ \cup {k}]
  /\ UNCHANGED <<published, taken, state, joined>>

(* A connection ends, and with it what was given and not yet written.      *)
Close(c) ==
  /\ state[c] = "open"
  /\ state' = [state EXCEPT ![c] = "closed"]
  /\ \E part \in Parts(c) : given' = [given EXCEPT ![c] = part]
  /\ UNCHANGED <<published, taken, joined>>

Lose(c) ==
  /\ state[c] = "closed"
  /\ \E part \in Parts(c) : given' = [given EXCEPT ![c] = part]
  /\ UNCHANGED <<published, taken, state, joined>>

Next ==
  \/ Take
  \/ \E e \in Messages : Publish(e)
  \/ \E c \in Clients : Join(c) \/ Give(c) \/ Close(c) \/ Lose(c)

Spec == Init /\ [][Next]_vars
=============================================================================
