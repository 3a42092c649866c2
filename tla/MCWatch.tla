------------------------------ MODULE MCWatch ------------------------------
(***************************************************************************)
(* Small instances of Store and Watch.  Requests are interchangeable.      *)
(***************************************************************************)
EXTENDS Watch, TLC

CONSTANTS c1, c2, w1

ClientSymmetry == Permutations(Clients)
============================================================================
