----------------------------- MODULE MCSessions -----------------------------
(* An instance of Sessions: one account, and calls that log in, refresh    *)
(* its tokens and log out.                                                 *)
EXTENDS Sessions, TLC

CONSTANTS c1, c2, c3, c4, e1, n1

FourCalls == {c1, c2, c3, c4}
OneEmail == {e1}
OneName == {n1}

(* Calls are interchangeable.                                              *)
CallSymmetry == Permutations(Calls)
=============================================================================
