------------------------------- MODULE MCHub -------------------------------
(* Instances of Hub: a connection each of one or two users.                *)
EXTENDS Hub, TLC

CONSTANTS a1, b1, alice, bob, pair, solo

OneClient == {a1}
TwoClients == {a1, b1}
MCUsers == {alice, bob}
UserOfOne == a1 :> alice
UserOfTwo == a1 :> alice @@ b1 :> bob

(* A chat of both users and one that bob is not in.                        *)
MCChats == {pair, solo}
MCMembers == pair :> {alice, bob} @@ solo :> {alice}
OneChat == {pair}
OneMembers == pair :> {alice, bob}
=============================================================================
