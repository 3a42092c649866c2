----------------------------- MODULE MCRollout -----------------------------
(***************************************************************************)
(* Small instances of Rollout.                                             *)
(***************************************************************************)
EXTENDS Rollout

CONSTANTS v1, v2

OnePool == {1}
TwoPools == {1, 2}
TwoNodes == {1, 2}

\* Every node is a member of the one pool.
AllInOne == [p \in OnePool |-> Nodes]

\* Node 2 belongs to no pool yet, and the second pool is empty.
SecondEmpty == [p \in TwoPools |-> IF p = 1 THEN Nodes \ {2} ELSE {}]
============================================================================
