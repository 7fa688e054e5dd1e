---------------------------- MODULE KeyRegistry ----------------------------
(***************************************************************************)
(* What the set of keys of a table promises: a set of values that only     *)
(* grows, with an answer to whether a value is in it, an answer to whether *)
(* a value was put in, and a listing of what it held when the listing      *)
(* began.                                                                  *)
(*                                                                         *)
(* KeySet.tla, the specification of src/src/ekeyset.c, implements this     *)
(* module when looking a key up cannot fail.                               *)
(***************************************************************************)
EXTENDS Naturals

CONSTANT Val       (* the values keys have                                  *)

VARIABLES
  members,  (* the values in the set                                        *)
  left,     (* the values the listing has still to show                     *)
  result    (* the last call that finished, for which value, and its answer *)

vars == <<members, left, result>>

NoCall == [call |-> "none"]
Answered(call, v, answer) == [call |-> call, val |-> v, answer |-> answer]

Init ==
  /\ members = {}
  /\ left = {}
  /\ result = NoCall

HasKey(v) ==
  /\ result' = Answered("has_key", v, v \in members)
  /\ UNCHANGED <<members, left>>

(* TRUE only for a value that was not there and is now; FALSE changes      *)
(* nothing: the value was there, or there is no room for it.               *)
AddKey(v) ==
  \/ /\ v \notin members
     /\ members' = members \cup {v}
     /\ result' = Answered("add_key", v, TRUE)
     /\ UNCHANGED left
  \/ /\ result' = Answered("add_key", v, FALSE)
     /\ UNCHANGED <<members, left>>

List ==
  /\ left' = members
  /\ UNCHANGED <<members, result>>

(* The listing shows every value once. *)
Show(v) ==
  /\ v \in left
  /\ left' = left \ {v}
  /\ UNCHANGED <<members, result>>

Next ==
  \/ \E v \in Val : HasKey(v) \/ AddKey(v) \/ Show(v)
  \/ List

Spec == Init /\ [][Next]_vars

=============================================================================
