------------------------------ MODULE JsonTree ------------------------------
(***************************************************************************)
(* The items of cJSON (src/examples/json/cJSON.c), which json2eltn reads   *)
(* its documents into, and the clients that build and change them.         *)
(*                                                                         *)
(* A client calls one function after another; any allocation may fail.  It *)
(* adds and deletes only items it has and that are in no list, puts none   *)
(* below itself, and leaves alone a list that a reference shares, as a     *)
(* reference is a second pointer to the same nodes.                        *)
(***************************************************************************)
EXTENDS JsonHeap

CONSTANTS
  Text,       (* the texts of strings                                       *)
  MaxRoots,   (* bound: the most nodes in no list at a time                 *)
  MaxStrings, (* bound: the most copies of strings at a time                *)
  MaxFlagged  (* bound: the most references and constant names at a time    *)

VARIABLES
  heap,    (* the nodes there are: struct cJSON                             *)
  strings, (* how many allocated copies of strings there are                *)
  lost     (* how many nodes there are besides that nobody has a pointer to *)

vars == <<heap, strings, lost>>

Free     == Node \ DOMAIN heap
Taken(k) == SetToSeq(Free)[k]          (* the k-th node allocated next      *)
CanMake(k) == Cardinality(Free) >= lost + k   (* there is memory for more    *)

OwnsName(r) == r.name # Nil /\ ~r.const
OwnsText(r) == r.text # Nil /\ ~r.ref
Owned(r) == (IF OwnsName(r) THEN 1 ELSE 0) + (IF OwnsText(r) THEN 1 ELSE 0)
OwnedIn(h, S) == FoldSet(LAMBDA n, sum : sum + Owned(h[n]), 0, S)

(* The nodes as h has them, less n and what goes with it; made strings     *)
(* have been allocated or freed on the way.                                *)
DeleteFrom(h, n, made) ==
  /\ heap' = [m \in DOMAIN h \ Gone(h, n) |-> h[m]]
  /\ strings' = strings + made - OwnedIn(h, Gone(h, n))
  /\ UNCHANGED lost

InLists(h) == UNION {Range(Items(h, n)) : n \in DOMAIN h}

Become(h, made) ==
  /\ strings + made <= MaxStrings
  /\ Cardinality({n \in DOMAIN h : h[n].ref \/ h[n].const}) <= MaxFlagged
  /\ Cardinality(DOMAIN h \ InLists(h)) <= MaxRoots
  /\ heap' = h
  /\ strings' = strings + made
  /\ UNCHANGED lost

-----------------------------------------------------------------------------
(* What a client does with the items it has.                               *)

Held == DOMAIN heap \ InLists(heap)
Sharing(n) == {r \in DOMAIN heap : heap[r].ref /\ heap[r].child = n}
Shared(c)  == \E n \in Range(Items(heap, c)) : Sharing(n) # {}
MayChange(c)  == heap[c].type \in Containers /\ ~heap[c].ref /\ ~Shared(c)
MayChangeAs(c, type) == MayChange(c) /\ heap[c].type = type
MayPut(c, n)  == n \in Held /\ c \notin Within(heap, n)
MayDelete(h, n) ==
  \A m \in Gone(h, n) : Sharing(m) \subseteq Gone(h, n)

Init ==
  /\ heap = [n \in {} |-> NewItem("Array", FALSE, Nil, Nil)]
  /\ strings = 0
  /\ lost = 0

(* cJSON_CreateArray, cJSON_CreateObject, and cJSON_CreateString. *)
CreateContainer(type) ==
  /\ CanMake(1)
  /\ Become(Put(heap, Taken(1), NewItem(type, FALSE, Nil, Nil)), 0)

CreateString(t) ==
  /\ CanMake(1)
  /\ Become(Put(heap, Taken(1), NewItem("String", FALSE, t, Nil)), 1)

CreateStringReference(t) ==
  /\ CanMake(1)
  /\ Become(Put(heap, Taken(1), NewItem("String", TRUE, t, Nil)), 0)

(* cJSON_CreateArrayReference and cJSON_CreateObjectReference, to the      *)
(* items of c.                                                             *)
CreateReference(c) ==
  /\ CanMake(1) /\ heap[c].type \in Containers /\ heap[c].child # Nil
  /\ Become(Put(heap, Taken(1), NewItem(heap[c].type, TRUE, Nil, heap[c].child)), 0)

(* cJSON_CreateStringArray, of two strings; one that fails deletes what it *)
(* has made.                                                               *)
CreateStringArray(t1, t2) ==
  /\ CanMake(3)
  /\ LET array == Taken(1)  first == Taken(2)  second == Taken(3) IN
     Become(Put(Put(Put(heap,
              array, NewItem("Array", FALSE, Nil, first)),
              first, [NewItem("String", FALSE, t1, Nil) EXCEPT !.next = second,
                                                               !.prev = second]),
              second, [NewItem("String", FALSE, t2, Nil) EXCEPT !.prev = first]), 2)

AddToArray(c, n) ==
  /\ MayChangeAs(c, "Array") /\ MayPut(c, n)
  /\ Become(Added(heap, c, n), 0)

(* Mutant: the name a node has is dropped when it is given another one. *)
MadeByNamingOnce(h, n, constant) == IF constant THEN 0 ELSE 1

(* How many strings it makes to name n. *)
MadeByNaming(h, n, constant) ==
  (IF constant THEN 0 ELSE 1) - (IF OwnsName(h[n]) THEN 1 ELSE 0)

(* cJSON_AddItemToObject and cJSON_AddItemToObjectCS. *)
AddToObject(c, s, n, constant) ==
  /\ MayChangeAs(c, "Object") /\ MayPut(c, n)
  /\ Become(Added(Named(heap, n, s, constant), c, n), MadeByNaming(heap, n, constant))

(* cJSON_AddArrayToObject, cJSON_AddStringToObject and the like. *)
AddNewToObject(c, s, type, t) ==
  /\ MayChangeAs(c, "Object") /\ CanMake(1)
  /\ LET n == Taken(1)
         h == Put(heap, n, NewItem(type, FALSE, t, Nil))
     IN Become(Added(Named(h, n, s, FALSE), c, n), Owned(h[n]) + 1)

(* create_reference: the flags of n come with it, its name does not. *)
ReferenceTo(n) ==
  [heap[n] EXCEPT !.name = Nil, !.ref = TRUE, !.next = Nil, !.prev = Nil]

(* c is not to be found again in what it refers to. *)
MayRefer(c, n) ==
  /\ c \notin Within(heap, n)
  /\ heap[n].child = Nil \/ heap[n].child \notin Range(Items(heap, c))

AddReferenceToArray(c, n) ==
  /\ MayChangeAs(c, "Array") /\ CanMake(1) /\ MayRefer(c, n)
  /\ Become(Added(Put(heap, Taken(1), ReferenceTo(n)), c, Taken(1)), 0)

(* cJSON_AddItemReferenceToObject: a reference whose name finds no memory  *)
(* is neither put in the object nor deleted.                               *)
AddReferenceToObject(c, s, n) ==
  /\ MayChangeAs(c, "Object") /\ CanMake(1) /\ MayRefer(c, n)
  /\ LET r == Taken(1)  h == Put(heap, r, ReferenceTo(n)) IN
     \/ Become(Added(Named(h, r, s, FALSE), c, r), 1)
     \/ lost' = lost + 1 /\ UNCHANGED <<heap, strings>>

(* cJSON_DetachItemFromArray and ...FromObject, and cJSON_DeleteItem... *)
Detach(c, n) ==
  /\ MayChange(c)
  /\ Become(Detached(heap, c, n), 0)

DeleteItem(c, n) ==
  /\ MayChange(c) /\ MayDelete(Detached(heap, c, n), n)
  /\ DeleteFrom(Detached(heap, c, n), n, 0)

Found(c) ==
  {ArrayItem(heap, c, i) : i \in 0 .. Cardinality(DOMAIN heap)}
    \cup {ObjectItem(heap, c, s, heeds) : s \in Name, heeds \in BOOLEAN}

RemoveFound(c) == \E n \in Found(c) \ {Nil} : Detach(c, n) \/ DeleteItem(c, n)

Insert(c, i, n) ==
  /\ MayChangeAs(c, "Array") /\ MayPut(c, n)
  /\ LET at == ArrayItem(heap, c, i) IN
     Become(IF at = Nil THEN Added(heap, c, n) ELSE Inserted(heap, c, at, n), 0)

ReplaceInArray(c, i, n) ==
  /\ MayChangeAs(c, "Array") /\ MayPut(c, n)
  /\ LET old == ArrayItem(heap, c, i) IN
     /\ old # Nil /\ MayDelete(Replaced(heap, c, old, n), old)
     /\ DeleteFrom(Replaced(heap, c, old, n), old, 0)

(* replace_item_in_object renames its item before it looks for the old     *)
(* one; without memory for the name it leaves it without one.              *)
ReplaceInObject(c, s, n, heeds) ==
  /\ MayChangeAs(c, "Object") /\ MayPut(c, n)
  /\ LET old == ObjectItem(heap, c, s, heeds)
         h   == Named(heap, n, s, FALSE)
     IN \/ old # Nil /\ MayDelete(Replaced(h, c, old, n), old)
           /\ DeleteFrom(Replaced(h, c, old, n), old, MadeByNaming(heap, n, FALSE))
        \/ old = Nil /\ Become(h, MadeByNaming(heap, n, FALSE))
        \/ Become([heap EXCEPT ![n].name = Nil], MadeByNaming(heap, n, TRUE))

Delete(n) ==
  /\ n \in Held /\ MayDelete(heap, n)
  /\ DeleteFrom(heap, n, 0)

-----------------------------------------------------------------------------
(* cJSON_Duplicate. *)
RECURSIVE Size(_, _)
Size(h, n) == 1 + FoldSeq(LAMBDA m, sum : sum + Size(h, m), 0, Items(h, n))

Copied(n, recurse) == CopyOf([heap |-> heap, left |-> SetToSeq(Free)], n, recurse).heap
CanCopy(n, recurse) == CanMake(IF recurse THEN Size(heap, n) ELSE 1)

Duplicate(n, recurse) ==
  /\ CanCopy(n, recurse)
  /\ LET h == Copied(n, recurse) IN
     Become(h, OwnedIn(h, DOMAIN h \ DOMAIN heap))

-----------------------------------------------------------------------------
Next ==
  \/ \E type \in Containers : CreateContainer(type)
  \/ \E t \in Text : \/ CreateString(t) \/ CreateStringReference(t)
                     \/ \E t2 \in Text : CreateStringArray(t, t2)
  \/ \E c \in DOMAIN heap :
       \/ CreateReference(c)
       \/ RemoveFound(c)
       \/ \E s \in Name, t \in Text : \/ AddNewToObject(c, s, "String", t)
                                      \/ AddNewToObject(c, s, "Array", Nil)
       \/ \E n \in Held :
            \/ AddToArray(c, n)
            \/ \E i \in 0 .. Len(Items(heap, c)) : Insert(c, i, n) \/ ReplaceInArray(c, i, n)
            \/ \E s \in Name, flag \in BOOLEAN :
                 AddToObject(c, s, n, flag) \/ ReplaceInObject(c, s, n, flag)
       \/ \E n \in DOMAIN heap :
            \/ AddReferenceToArray(c, n)
            \/ \E s \in Name : AddReferenceToObject(c, s, n)
  \/ \E n \in DOMAIN heap :
       \/ Delete(n)
       \/ \E recurse \in BOOLEAN : Duplicate(n, recurse)

Spec == Init /\ [][Next]_vars

-----------------------------------------------------------------------------
(* Properties.                                                             *)

(* The nodes of every list are linked both ways, the first one's prev is   *)
(* the last, no node is in two lists, and one in no list has no neighbours *)
(* that cJSON_Delete would take for its own; no pointer is to a node that  *)
(* was freed.                                                              *)
Linked(c) ==
  LET list == Items(heap, c) IN
  /\ Len(list) <= Cardinality(DOMAIN heap)
  /\ \A i \in 2 .. Len(list) : heap[list[i]].prev = list[i - 1]
  /\ list # <<>> => heap[list[1]].prev = list[Len(list)]
Pointers(r) == {r.next, r.prev, r.child} \ {Nil}
Owners == {n \in DOMAIN heap : ~heap[n].ref}
ListsAreLinked ==
  /\ \A n \in DOMAIN heap : Pointers(heap[n]) \subseteq DOMAIN heap
  /\ \A c \in DOMAIN heap : Linked(c)
  /\ \A c, d \in Owners :
       c # d => Range(Items(heap, c)) \cap Range(Items(heap, d)) = {}
  /\ \A n \in Held : heap[n].next = Nil /\ heap[n].prev = Nil

(* The linked lists are sequences: every call changes the one it is for,   *)
(* in the one place it is for, and deletes what is below the item it       *)
(* deletes and nothing else, whatever a reference shares.                  *)
Forest == INSTANCE ItemForest
            WITH kids <- [n \in DOMAIN heap |->
                            IF heap[n].ref THEN <<>> ELSE Items(heap, n)]
ImplementsForest == Forest!Spec

(* Every copy of a string belongs to one node and is freed with it or when *)
(* it is renamed; the constant names of cJSON_AddItemToObjectCS and the    *)
(* strings of references are never freed, through moves, references and    *)
(* allocations that fail.                                                  *)
StringsAreOwned == strings = OwnedIn(heap, DOMAIN heap)

(* cJSON_Compare, which looks up every member of one object in the other   *)
(* and goes through both, decides whether two values are the same, as long *)
(* as no object has a name twice.                                          *)
CompareIsEquality ==
  \A a, b \in {n \in DOMAIN heap : Regular(heap, n)} :
    Same(heap, a, b, TRUE) <=> ValueOf(heap, a) = ValueOf(heap, b)

(* A copy is the same as its original, however deep that is.               *)
Apart == [k \in 1 .. 2 * Cardinality(Node) |-> <<k>>]   (* no node's addresses   *)
CopyIsSame ==
  \A n \in {m \in DOMAIN heap : Regular(heap, m)} :
    Same(CopyOf([heap |-> heap, left |-> Apart], n, TRUE).heap, n, Apart[1], TRUE)

=============================================================================
