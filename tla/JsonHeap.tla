------------------------------ MODULE JsonHeap ------------------------------
(***************************************************************************)
(* What the functions of src/examples/json/cJSON.c do to the nodes they    *)
(* get: nodes linked by next and prev, the first of a list being the child *)
(* of an array or object and its prev the last.  h is the memory, a        *)
(* function from the nodes there are to what is in them.                   *)
(***************************************************************************)
EXTENDS Integers, Sequences, FiniteSets, SequencesExt

CONSTANTS
  Node,    (* the addresses of nodes                                        *)
  Name,    (* the texts of keys                                             *)
  Fold,    (* tolower on them                                               *)
  Nil      (* NULL                                                          *)

Containers == {"Array", "Object"}

(* cJSON_New_Item; ref and const are the flags cJSON_IsReference and       *)
(* cJSON_StringIsConst of the type.                                        *)
NewItem(type, ref, text, child) ==
  [type |-> type, ref |-> ref, const |-> FALSE, name |-> Nil, text |-> text,
   next |-> Nil, prev |-> Nil, child |-> child]

Put(h, n, record) == [m \in DOMAIN h \cup {n} |-> IF m = n THEN record ELSE h[m]]

-----------------------------------------------------------------------------
(* Lists.                                                                  *)

(* The nodes from n on; no more than there are, should they run in a ring. *)
RECURSIVE ListFrom(_, _, _)
ListFrom(h, n, most) ==
  IF n = Nil \/ most = 0 THEN <<>> ELSE <<n>> \o ListFrom(h, h[n].next, most - 1)

Items(h, c) == ListFrom(h, h[c].child, Cardinality(Node) + 1)

RECURSIVE Reach(_, _, _)
Reach(h, n, deep) ==
  {n} \cup (IF deep = 0 THEN {}
            ELSE UNION {Reach(h, m, deep - 1) : m \in Range(Items(h, n))})
Within(h, n) == Reach(h, n, Cardinality(Node))

(* get_array_item, counting from 0. *)
ArrayItem(h, c, i) ==
  IF i < Len(Items(h, c)) THEN Items(h, c)[i + 1] ELSE Nil

(* get_object_item: a node without a name ends the search that heeds case, *)
(* and only that.                                                          *)
ObjectItem(h, c, s, heeds) ==
  LET list  == Items(h, c)
      Name_(k) == h[list[k]].name
      stops == {k \in DOMAIN list :
                  IF heeds THEN Name_(k) \in {s, Nil}
                  ELSE Name_(k) # Nil /\ Fold[Name_(k)] = Fold[s]}
      first == CHOOSE k \in stops : \A j \in stops : k <= j
  IN IF stops = {} \/ Name_(first) = Nil THEN Nil ELSE list[first]

(* Mutant: the first node is not told of the new last one. *)
AddedUntold(h, c, n) ==
  IF h[c].child = Nil
  THEN [h EXCEPT ![c].child = n, ![n].prev = n, ![n].next = Nil]
  ELSE LET last == h[h[c].child].prev IN
       [h EXCEPT ![last].next = n, ![n].prev = last]

(* add_item_to_array and suffix_object. *)
Added(h, c, n) ==
  LET first == h[c].child
      last  == h[first].prev
  IN IF first = Nil
     THEN [h EXCEPT ![c].child = n, ![n].prev = n, ![n].next = Nil]
     ELSE IF last = Nil THEN h
     ELSE [h EXCEPT ![last].next = n, ![n].prev = last, ![first].prev = n]

(* cJSON_DetachItemViaPointer, n being in the list of c. *)
Detached(h, c, n) ==
  LET h1 == IF n # h[c].child THEN [h EXCEPT ![h[n].prev].next = h[n].next] ELSE h
      h2 == IF h[n].next # Nil THEN [h1 EXCEPT ![h[n].next].prev = h[n].prev] ELSE h1
      h3 == IF n = h[c].child THEN [h2 EXCEPT ![c].child = h[n].next]
            ELSE IF h[n].next = Nil THEN [h2 EXCEPT ![h[c].child].prev = h[n].prev]
            ELSE h2
  IN [h3 EXCEPT ![n].prev = Nil, ![n].next = Nil]

(* Mutant: what is inserted comes first, wherever it is inserted. *)
InsertedAsFirst(h, c, at, n) ==
  [h EXCEPT ![n].next = at, ![n].prev = h[at].prev, ![at].prev = n, ![c].child = n]

(* cJSON_InsertItemInArray, at an item of the list of c. *)
Inserted(h, c, at, n) ==
  LET h1 == [h EXCEPT ![n].next = at, ![n].prev = h[at].prev, ![at].prev = n] IN
  IF at = h[c].child THEN [h1 EXCEPT ![c].child = n]
  ELSE [h1 EXCEPT ![h1[n].prev].next = n]

(* Mutant: the only item of a list is replaced like any other. *)
ReplacedAlike(h, c, old, n) ==
  LET h1 == [h EXCEPT ![n].next = h[old].next, ![n].prev = h[old].prev]
      h2 == IF h1[n].next # Nil THEN [h1 EXCEPT ![h1[n].next].prev = n] ELSE h1
  IN [IF h[c].child = old THEN [h2 EXCEPT ![c].child = n]
      ELSE [h2 EXCEPT ![h2[n].prev].next = n,
                      ![h[c].child].prev = IF h2[n].next = Nil THEN n ELSE @]
      EXCEPT ![old].next = Nil, ![old].prev = Nil]

(* cJSON_ReplaceItemViaPointer, up to the deletion of old. *)
Replaced(h, c, old, n) ==
  LET h1 == [h EXCEPT ![n].next = h[old].next, ![n].prev = h[old].prev]
      h2 == IF h1[n].next # Nil THEN [h1 EXCEPT ![h1[n].next].prev = n] ELSE h1
      h3 == IF h[c].child = old
            THEN [h2 EXCEPT ![n].prev = IF h2[old].prev = old THEN n ELSE @,
                            ![c].child = n]
            ELSE [h2 EXCEPT ![h2[n].prev].next = n,
                            ![h[c].child].prev = IF h2[n].next = Nil THEN n ELSE @]
  IN [h3 EXCEPT ![old].next = Nil, ![old].prev = Nil]

-----------------------------------------------------------------------------
(* Deletion, names, copies and comparison.                                 *)

(* Deleting a node deletes the ones behind it and, unless it is a          *)
(* reference, the ones in it.                                              *)
RECURSIVE Doomed(_, _, _)
Doomed(h, n, deep) ==
  IF n = Nil \/ deep = 0 THEN {}
  ELSE {n} \cup Doomed(h, h[n].next, deep - 1)
           \cup (IF h[n].ref THEN {} ELSE Doomed(h, h[n].child, deep - 1))

Gone(h, n) == Doomed(h, n, 2 * Cardinality(Node))

(* add_item_to_object gives n the name s. *)
Named(h, n, s, constant) == [h EXCEPT ![n].name = s, ![n].const = constant]

(* cJSON_Duplicate: the copies of a node and of all in it, made one by     *)
(* one; job is the heap with the copies, and the nodes left to make them   *)
(* of.                                                                     *)
RECURSIVE CopyOf(_, _, _), CopyList(_, _, _, _)
CopyOf(job, n, recurse) ==
  LET copy  == Head(job.left)
      bare  == [job.heap[n] EXCEPT !.ref = FALSE, !.next = Nil, !.prev = Nil,
                                   !.child = Nil]
      alone == [heap |-> Put(job.heap, copy, bare), left |-> Tail(job.left)]
  IN IF recurse THEN CopyList(alone, copy, Items(job.heap, n), Nil) ELSE alone

(* Mutant: what is in the items of a list is not copied. *)
CopyListShallow(job, copy, list, last) ==
  IF list = <<>>
  THEN [job EXCEPT !.heap =
          IF last = Nil THEN @ ELSE [@ EXCEPT ![@[copy].child].prev = last]]
  ELSE LET new  == Head(job.left)
           done == CopyOf(job, Head(list), FALSE)
           h    == IF last = Nil THEN [done.heap EXCEPT ![copy].child = new]
                   ELSE [done.heap EXCEPT ![last].next = new, ![new].prev = last]
       IN CopyList([done EXCEPT !.heap = h], copy, Tail(list), new)

(* The copies are put in copy; last is the one put in before. *)
CopyList(job, copy, list, last) ==
  IF list = <<>>
  THEN [job EXCEPT !.heap =
          IF last = Nil THEN @ ELSE [@ EXCEPT ![@[copy].child].prev = last]]
  ELSE LET new  == Head(job.left)
           done == CopyOf(job, Head(list), TRUE)
           h    == IF last = Nil THEN [done.heap EXCEPT ![copy].child = new]
                   ELSE [done.heap EXCEPT ![last].next = new, ![new].prev = last]
       IN CopyList([done EXCEPT !.heap = h], copy, Tail(list), new)

(* cJSON_Compare. *)
RECURSIVE Same(_, _, _, _)

(* Mutant: what the second object has and the first has not goes unseen. *)
SameOneWay(h, a, b, heeds) ==
  LET la == Items(h, a)  lb == Items(h, b) IN
  /\ h[a].type = h[b].type
  /\ \/ h[a].type = "String" /\ h[a].text = h[b].text
     \/ /\ h[a].type = "Array" /\ Len(la) = Len(lb)
        /\ \A k \in DOMAIN la : Same(h, la[k], lb[k], heeds)
     \/ /\ h[a].type = "Object"
        /\ \A m \in Range(la) : LET o == ObjectItem(h, b, h[m].name, heeds) IN
                                  o # Nil /\ Same(h, m, o, heeds)

Same(h, a, b, heeds) ==
  LET la == Items(h, a)  lb == Items(h, b)
      Covers(x, y) ==
        \A k \in DOMAIN Items(h, x) :
          LET m == Items(h, x)[k]
              o == IF h[m].name = Nil THEN Nil ELSE ObjectItem(h, y, h[m].name, heeds)
          IN o # Nil /\ Same(h, m, o, heeds)
  IN /\ h[a].type = h[b].type
     /\ \/ a = b
        \/ h[a].type = "String" /\ h[a].text = h[b].text
        \/ /\ h[a].type = "Array" /\ Len(la) = Len(lb)
           /\ \A k \in DOMAIN la : Same(h, la[k], lb[k], heeds)
        \/ h[a].type = "Object" /\ Covers(a, b) /\ Covers(b, a)

-----------------------------------------------------------------------------
(* The value a node stands for: an array is a sequence, and the order of   *)
(* the members of an object does not count.                                *)
RECURSIVE ValueOf(_, _)
ValueOf(h, n) ==
  LET list == Items(h, n) IN
  [type |-> h[n].type,
   has  |-> IF h[n].type = "String" THEN {<<h[n].text, Nil>>}
            ELSE IF h[n].type = "Array"
            THEN {<<k, ValueOf(h, list[k])>> : k \in DOMAIN list}
            ELSE {<<h[m].name, ValueOf(h, m)>> : m \in Range(list)}]
NamesDiffer(h, c) ==
  LET list == Items(h, c) IN
  h[c].type = "Object" =>
    \A i, j \in DOMAIN list : i # j => h[list[i]].name # h[list[j]].name
Regular(h, n) == \A m \in Within(h, n) : NamesDiffer(h, m)

=============================================================================
