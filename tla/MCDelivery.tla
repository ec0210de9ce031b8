----------------------------- MODULE MCDelivery -----------------------------
(* An instance of Delivery: a chat of two users, two connections of one of *)
(* them, and a client_msg_id that both calls may carry, so that a send and *)
(* its repeat can overlap on two connections.                              *)
EXTENDS Delivery, TLC

CONSTANTS c1, c2, a1, a2, alice, bob, pair, k

TwoCalls == {c1, c2}
Couple == {alice, bob}
OneChat == {pair}
PairMembers == pair :> {alice, bob}
OneKey == {k}
TwoClients == {a1, a2}
UserOfTwo == a1 :> alice @@ a2 :> alice
=============================================================================
