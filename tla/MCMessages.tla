----------------------------- MODULE MCMessages -----------------------------
(* Instances of Messages: two members of a chat, an outsider, a client_msg_id. *)
EXTENDS Messages, TLC

CONSTANTS c1, c2, c3, c4, alice, bob, eve, pair, k

ThreeCalls == {c1, c2, c3}
FourCalls == {c1, c2, c3, c4}
Couple == {alice, bob}
OneChat == {pair}
PairMembers == pair :> {alice, bob}
Trio == {alice, bob, eve}
OneKey == {k}
NoKeys == {}

(* Calls are interchangeable.                                              *)
CallSymmetry == Permutations(Calls)
=============================================================================
