------------------------------- MODULE MCLists -------------------------------
(***************************************************************************)
(* The instance of Lists TLC checks: two validators; the canonical stake   *)
(* account of one of them and a user's account with it, and a user's       *)
(* account with the other; a list fits all three records or lacks room for *)
(* one.  A merge whose source comes before the canonical account in the    *)
(* list takes three slots.                                                 *)
(***************************************************************************)
EXTENDS Lists

CONSTANTS v1, v2, c1, c2, s1, s2

\* c2 is not in Stake: nobody creates it.
MCCanonicalStake == [v \in Validator |-> IF v = v1 THEN c1 ELSE c2]

MCMayDelegate == [s \in Stake |-> IF s = s2 THEN {v2} ELSE {v1}]

MCLamports == [s \in Stake |-> IF s = c1 THEN {1, 2} ELSE {1}]
=============================================================================
