----------------------------- MODULE ItemForest -----------------------------
(***************************************************************************)
(* What the arrays and objects of cJSON promise a client, with no list in  *)
(* them: every item has a sequence of items in it, an item is in no more   *)
(* than one place, and an operation changes one sequence in one place.     *)
(*                                                                         *)
(* JsonTree.tla, the specification of the items of                         *)
(* src/examples/json/cJSON.c, implements this module.                      *)
(***************************************************************************)
EXTENDS Integers, Sequences, FiniteSets, SequencesExt, TLC

CONSTANT Node    (* the items there can be                                  *)

VARIABLE kids    (* the items there are, each with what is in it            *)

Members(f, n) == Range(f[n])
Parentless(f) == DOMAIN f \ UNION {Members(f, n) : n \in DOMAIN f}
Below(f, n) ==
  LET R[k \in Nat] ==
        IF k = 0 THEN {n} ELSE R[k - 1] \cup UNION {Members(f, m) : m \in R[k - 1]}
  IN R[Cardinality(DOMAIN f)]

(* The forest f without n and what is below it. *)
Without(f, n) == [m \in DOMAIN f \ Below(f, n) |-> f[m]]

Init == kids = [n \in {} |-> <<>>]

(* The steps, from a forest f to a forest g.                               *)

(* New items, all below one of them. *)
Create(f, g) ==
  LET new == DOMAIN g \ DOMAIN f IN
  /\ new # {} /\ \A n \in DOMAIN f : n \in DOMAIN g /\ g[n] = f[n]
  /\ \E top \in new : new = Below(g, top) /\ top \in Parentless(g)

Insert(f, g, c, at, n) ==
  /\ g = [f EXCEPT ![c] = InsertAt(@, at, n)]
  /\ n \in Parentless(f) /\ c \notin Below(f, n)

(* An item made to be put at the end of another one. *)
CreateIn(f, g, c, n) == g = [f EXCEPT ![c] = Append(@, n)] @@ (n :> <<>>)

TakeOut(f, g, c, at) == g = [f EXCEPT ![c] = RemoveAt(@, at)]
Drop(f, g, n)        == n \in Parentless(f) /\ g = Without(f, n)
Delete(f, g, c, at)  == g = Without([f EXCEPT ![c] = RemoveAt(@, at)], f[c][at])

Replace(f, g, c, at, n) ==
  /\ n \in Parentless(f) /\ c \notin Below(f, n)
  /\ g = Without([f EXCEPT ![c] = ReplaceAt(@, at, n)], f[c][at])

Step(f, g) ==
  \/ Create(f, g)
  \/ \E c \in DOMAIN f \cap DOMAIN g :
       /\ f[c] # g[c]
       /\ \/ \E n \in DOMAIN g \ DOMAIN f : CreateIn(f, g, c, n)
          \/ \E n \in DOMAIN f, at \in 1 .. Len(f[c]) + 1 : Insert(f, g, c, at, n)
          \/ \E at \in DOMAIN f[c] :
               \/ TakeOut(f, g, c, at) \/ Delete(f, g, c, at)
               \/ \E n \in DOMAIN f : Replace(f, g, c, at, n)
  \/ \E n \in DOMAIN f \ DOMAIN g : Drop(f, g, n)

Next == Step(kids, kids')

Spec == Init /\ [][Next]_kids

=============================================================================
