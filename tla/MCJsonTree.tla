----------------------------- MODULE MCJsonTree -----------------------------
(***************************************************************************)
(* JsonTree over a few nodes, with two names that differ in case only. Any *)
(* free node may be the one that is allocated next: no state tells one     *)
(* from another, which is what makes the symmetry sound.                   *)
(***************************************************************************)
EXTENDS JsonTree

CONSTANTS n1, n2, n3, n4

MCFold == [s \in Name |-> "a"]
Symmetric == Permutations(Node)
=============================================================================
