------------------------------ MODULE MCKeySet ------------------------------
(***************************************************************************)
(* KeySet over a few keys that collide: in the first table of 5 cells, in  *)
(* the next one of 11, or in both; and two texts of the same number.       *)
(***************************************************************************)
EXTENDS KeySet

CONSTANTS a, b, c, d, one, uno

MCValue == [k \in Key |-> IF k = uno THEN one ELSE k]

MCHash == [k \in Key |->
  CASE k = a -> 4
    [] k = b -> 15
    [] k = c -> 9
    [] k = d -> 26
    [] k \in {one, uno} -> 14]
=============================================================================
