------------------------------ MODULE MCChats ------------------------------
(* Instances of Chats: calls that create and look up the chats of two      *)
(* users, with pages of one chat, an identifier of no user, and one        *)
(* spelling of an identifier or two.                                       *)
EXTENDS Chats, TLC

CONSTANTS c1, c2, c3, alice, bob, nobody, lower, upper

TwoCalls == {c1, c2}
ThreeCalls == {c1, c2, c3}
Couple == {alice, bob}
OneStranger == {nobody}
OneSpelling == {lower}
TwoSpellings == {lower, upper}

(* Calls are interchangeable, and so are users.                            *)
Symmetry == Permutations(Calls) \cup Permutations(Users)
=============================================================================
