------------------------------ MODULE MCPaging ------------------------------
(* An instance of Paging: a member and an outsider.                        *)
EXTENDS Paging, TLC

CONSTANTS alice, eve

MCUsers == {alice, eve}
OneMember == {alice}
MCIds == 1..4
MCLimits == {0, 3}
=============================================================================
