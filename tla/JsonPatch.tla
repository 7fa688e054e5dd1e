----------------------------- MODULE JsonPatch -----------------------------
(***************************************************************************)
(* JSON pointers, patches and merge patches                                *)
(* (src/examples/json/cJSON_Utils.c) on the nodes of JsonHeap.             *)
(*                                                                         *)
(* A client has one document, doc, and patches it by hand, or it has two,  *)
(* doc and goal, and generates from them what leads from one to the other  *)
(* and applies it to a copy of doc.  A name is the sequence of its bytes;  *)
(* a pointer is the sequence of what stands behind its slashes; a patch is *)
(* a record whose value is a node.  There is memory for everything.        *)
(***************************************************************************)
EXTENDS JsonHeap

CONSTANTS
  Alone,    (* the documents a client can have, as trees                    *)
  Pair,     (* the pairs of documents it can have                           *)
  Edit,     (* the patches a client writes by hand, their values as trees   *)
  MaxEdits  (* bound: how many of them it applies                           *)

(* Nodes are numbered, and the least free one is allocated next.           *)
ASSUME NodesAreNumbers == Node = 1 .. Cardinality(Node)

VARIABLES
  heap,    (* the nodes there are                                           *)
  doc,     (* the document that is patched                                  *)
  goal,    (* the other one                                                 *)
  todo,    (* the patches that are left to apply                            *)
  status,  (* what the last call returned                                   *)
  task,    (* what the client is doing                                      *)
  edits    (* how many edits it has made                                    *)

vars == <<heap, doc, goal, todo, status, task, edits>>

Slash == 47   Tilde == 126   Zero == 48   One == 49   Nine == 57   Dash == 45

Lower(c) == IF c \in 65 .. 90 THEN c + 32 ELSE c
AlikeBytes(c, d, heeds) == IF heeds THEN c = d ELSE Lower(c) = Lower(d)

NextFree(h) == SelectSeq([k \in 1 .. Cardinality(Node) |-> k], LAMBDA n : n \notin DOMAIN h)
New(h)      == NextFree(h)[1]
Copy(h, n)  == CopyOf([heap |-> h, left |-> NextFree(h)], n, TRUE).heap
Kill(h, n)  == [m \in DOMAIN h \ Gone(h, n) |-> h[m]]

-----------------------------------------------------------------------------
(* Names and pointers.                                                     *)

(* compare_strings < 0, that is strcmp on names as they are or folded. *)
RECURSIVE Precedes(_, _)
Precedes(s, t) ==
  /\ t # <<>>
  /\ \/ s = <<>>
     \/ s[1] < t[1]
     \/ s[1] = t[1] /\ Precedes(Tail(s), Tail(t))
Less(s, t, heeds) ==
  IF heeds THEN Precedes(s, t) ELSE Precedes(Fold[s], Fold[t])
Alike(s, t, heeds) == IF heeds THEN s = t ELSE Fold[s] = Fold[t]

(* encode_string_as_pointer. *)
Encoded(s) ==
  FlattenSeq([i \in DOMAIN s |-> CASE s[i] = Slash -> <<Tilde, One>>
                                   [] s[i] = Tilde -> <<Tilde, Zero>>
                                   [] OTHER -> <<s[i]>>])

(* decode_pointer_inplace, reading at r and writing at w: it writes only   *)
(* what it decodes, and a slash one byte too far.                          *)
RECURSIVE DecodedFrom(_, _, _)
DecodedFrom(s, r, w) ==
  IF r > Len(s) THEN SubSeq(s, 1, w - 1)
  ELSE IF s[r] # Tilde THEN DecodedFrom(s, r + 1, w + 1)
  ELSE IF r = Len(s) \/ s[r + 1] \notin {Zero, One} THEN s
  ELSE IF s[r + 1] = Zero THEN DecodedFrom([s EXCEPT ![w] = Tilde], r + 2, w + 1)
  ELSE DecodedFrom([s EXCEPT ![w + 1] = Slash], r + 2, w + 1)
Decoded(s) == DecodedFrom(s, 1, 1)

(* Mutant: a tilde stands for itself. *)
RECURSIVE MatchesPlainly(_, _, _)
MatchesPlainly(name, token, heeds) ==
  IF name = <<>> \/ token = <<>> THEN name = token
  ELSE /\ AlikeBytes(name[1], token[1], heeds)
       /\ MatchesPlainly(Tail(name), Tail(token), heeds)

(* compare_pointers, up to the next slash. *)
RECURSIVE Matches(_, _, _)
Matches(name, token, heeds) ==
  IF name = <<>> \/ token = <<>> THEN name = token
  ELSE IF token[1] = Tilde
  THEN /\ Len(token) > 1
       /\ <<token[2], name[1]>> \in {<<Zero, Tilde>>, <<One, Slash>>}
       /\ Matches(Tail(name), SubSeq(token, 3, Len(token)), heeds)
  ELSE /\ AlikeBytes(name[1], token[1], heeds)
       /\ Matches(Tail(name), Tail(token), heeds)

(* decode_array_index_from_pointer, which looks whether the first byte is  *)
(* no more than a nine, and not whether the others are.                    *)
NoIndex == -1
ArrayIndex(token) ==
  IF token = <<>> THEN 0
  ELSE IF \/ token[1] = Zero /\ Len(token) > 1
          \/ token[1] > Nine
          \/ \E i \in DOMAIN token : token[i] < Zero
  THEN NoIndex
  ELSE FoldLeft(LAMBDA sum, c : 10 * sum + c - Zero, 0, token)

(* get_item_from_pointer. *)
RECURSIVE Follow(_, _, _, _)
Follow(h, n, pointer, heeds) ==
  IF n = Nil \/ pointer = <<>> THEN n
  ELSE LET token == Head(pointer)
           list  == Items(h, n)
           found == {k \in DOMAIN list : Matches(h[list[k]].name, token, heeds)}
           next  == CASE h[n].type = "Array" ->
                           IF ArrayIndex(token) = NoIndex THEN Nil
                           ELSE ArrayItem(h, n, ArrayIndex(token))
                      [] h[n].type = "Object" ->
                           IF found = {} THEN Nil
                           ELSE list[CHOOSE k \in found : \A j \in found : k <= j]
                      [] OTHER -> Nil
       IN Follow(h, next, Tail(pointer), heeds)

(* The index of the k-th item as it is printed, there being at most ten.   *)
Index(k) == <<Zero + k - 1>>

(* cJSONUtils_FindPointerFromObjectTo; Nil, when n is not below top.       *)
RECURSIVE PointerTo(_, _, _)
PointerTo(h, top, n) ==
  LET list  == Items(h, top)
      found == {k \in DOMAIN list : PointerTo(h, list[k], n) # Nil}
      k     == CHOOSE i \in found : \A j \in found : i <= j
  IN IF top = n THEN <<>>
     ELSE IF found = {} THEN Nil
     ELSE <<IF h[top].type = "Array" THEN Index(k) ELSE Encoded(h[list[k]].name)>>
          \o PointerTo(h, list[k], n)

(* detach_path, by the pointer to the parent and the name or index there:  *)
(* the name of a member is looked up without heed of case.                 *)
Place(h, top, pointer, heeds) ==
  LET parent == Follow(h, top, Front(pointer), heeds)
      child  == Decoded(Last(pointer))
      item   == CASE parent = Nil -> Nil
                  [] h[parent].type = "Array" ->
                       IF ArrayIndex(child) = NoIndex THEN Nil
                       ELSE ArrayItem(h, parent, ArrayIndex(child))
                  [] h[parent].type = "Object" -> ObjectItem(h, parent, child, FALSE)
                  [] OTHER -> Nil
  IN IF pointer = <<>> THEN [parent |-> Nil, item |-> Nil]
     ELSE [parent |-> parent, item |-> item]

-----------------------------------------------------------------------------
(* Order, and equality by it.                                              *)

(* What is left of two sorted lists, put behind tail.                      *)
RECURSIVE Merged(_, _, _, _, _)

(* Mutant: what is left when one list ends is dropped. *)
MergedUntilOneEnds(h, first, second, tail, heeds) ==
  LET smaller == IF Less(h[first].name, h[second].name, heeds) THEN first ELSE second
      joined  == IF tail = Nil THEN h
                 ELSE [h EXCEPT ![tail].next = smaller, ![smaller].prev = tail]
  IN IF first = Nil \/ second = Nil THEN h
     ELSE IF smaller = first THEN Merged(joined, h[first].next, second, smaller, heeds)
     ELSE Merged(joined, first, h[second].next, smaller, heeds)

Merged(h, first, second, tail, heeds) ==
  IF first = Nil \/ second = Nil
  THEN LET rest == IF first = Nil THEN second ELSE first IN
       IF rest = Nil THEN h ELSE [h EXCEPT ![tail].next = rest, ![rest].prev = tail]
  ELSE LET smaller == IF Less(h[first].name, h[second].name, heeds) THEN first ELSE second
           joined  == IF tail = Nil THEN h
                      ELSE [h EXCEPT ![tail].next = smaller, ![smaller].prev = tail]
       IN IF smaller = first
          THEN Merged(joined, h[first].next, second, smaller, heeds)
          ELSE Merged(joined, first, h[second].next, smaller, heeds)

(* The list of second, split off the one it is in the middle of.           *)
CutBefore(h, second) ==
  LET before == h[second].prev IN
  IF before = Nil THEN h ELSE [h EXCEPT ![before].next = Nil, ![second].prev = Nil]

(* The list of the sorted halves that begin with f and s. *)
OneList(h, f, s, heeds) ==
  [heap  |-> Merged(h, f, s, Nil, heeds),
   first |-> IF Less(h[f].name, h[s].name, heeds) THEN f ELSE s]

(* sort_list: a list that is not in order is split in the middle, and the  *)
(* halves are sorted and merged.  The first node is not told of the last.  *)
RECURSIVE SortedList(_, _, _)
RightSorted(left, second, heeds) ==
  LET right == SortedList(left.heap, second, heeds) IN
  OneList(right.heap, left.first, right.first, heeds)
SortedList(h, n, heeds) ==
  LET list    == ListFrom(h, n, Cardinality(Node))
      InOrder == \A k \in 1 .. Len(list) - 1 :
                   Less(h[list[k]].name, h[list[k + 1]].name, heeds)
      second  == list[(Len(list) + 1) \div 2 + 1]
  IN IF InOrder THEN [heap |-> h, first |-> n]
     ELSE RightSorted(SortedList(CutBefore(h, second), n, heeds), second, heeds)

(* sort_object. *)
ListOf(n, list) == [list.heap EXCEPT ![n].child = list.first]
Sorted(h, n, heeds)  == ListOf(n, SortedList(h, h[n].child, heeds))
BothSorted(h, a, b, heeds) == Sorted(Sorted(h, a, heeds), b, heeds)

(* compare_json, which sorts the objects it compares as far as it comes.   *)
RECURSIVE Compared(_, _, _, _), ComparedLists(_, _, _, _, _)
ComparedMembers(h, a, b, heeds) ==
  ComparedLists(h, h[a].child, h[b].child, TRUE, heeds)
Compared(h, a, b, heeds) ==
  IF a = Nil \/ b = Nil THEN [heap |-> h, same |-> FALSE]
  ELSE IF h[a].type # h[b].type THEN [heap |-> h, same |-> FALSE]
  ELSE CASE h[a].type = "String" -> [heap |-> h, same |-> h[a].text = h[b].text]
         [] h[a].type = "Array"  -> ComparedLists(h, h[a].child, h[b].child, FALSE, heeds)
         [] h[a].type = "Object" ->
              ComparedMembers(BothSorted(h, a, b, heeds), a, b, heeds)
         [] OTHER -> [heap |-> h, same |-> TRUE]

(* Mutant: lists are the same when one has all that the other begins with. *)
ComparedListsShort(h, a, b, named, heeds) ==
  IF a = Nil \/ b = Nil THEN [heap |-> h, same |-> TRUE]
  ELSE IF named /\ ~Alike(h[a].name, h[b].name, heeds) THEN [heap |-> h, same |-> FALSE]
  ELSE LET items == Compared(h, a, b, heeds) IN
       IF ~items.same THEN items
       ELSE ComparedLists(items.heap, items.heap[a].next, items.heap[b].next, named, heeds)

ComparedLists(h, a, b, named, heeds) ==
  IF a = Nil \/ b = Nil THEN [heap |-> h, same |-> a = b]
  ELSE IF named /\ ~Alike(h[a].name, h[b].name, heeds) THEN [heap |-> h, same |-> FALSE]
  ELSE LET items == Compared(h, a, b, heeds) IN
       IF ~items.same THEN items
       ELSE ComparedLists(items.heap, items.heap[a].next, items.heap[b].next, named, heeds)

-----------------------------------------------------------------------------
(* apply_patch.                                                            *)

(* overwrite_item. *)
Overwritten(h, n, r) ==
  LET below == IF h[n].child = Nil THEN {} ELSE Gone(h, h[n].child) IN
  [m \in DOMAIN h \ below |-> IF m = n THEN r ELSE h[m]]

Result(h, code) == [heap |-> h, status |-> code]

(* The end of it, from "Now, just add": x is put at pointer.               *)
PutAt(h, top, pointer, x, heeds) ==
  LET parent == Follow(h, top, Front(pointer), heeds)
      child  == Decoded(Last(pointer))
      at     == ArrayIndex(child)
      size   == Len(Items(h, parent))
      old    == ObjectItem(h, parent, child, heeds)
      bare   == IF old = Nil THEN h ELSE Kill(Detached(h, parent, old), old)
  IN CASE pointer = <<>> \/ parent = Nil -> Result(Kill(h, x), 9)
       [] h[parent].type = "Array" /\ child = <<Dash>> -> Result(Added(h, parent, x), 0)
       [] h[parent].type = "Array" /\ at = NoIndex -> Result(Kill(h, x), 11)
       [] h[parent].type = "Array" /\ at > size -> Result(Kill(h, x), 10)
       [] h[parent].type = "Array" /\ at = size -> Result(Added(h, parent, x), 0)
       [] h[parent].type = "Array" -> Result(Inserted(h, parent, ArrayItem(h, parent, at), x), 0)
       [] h[parent].type = "Object" ->
            Result(Added(Named(bare, x, child, FALSE), parent, x), 0)
       [] OTHER -> Result(Kill(h, x), 9)

Applied(h, top, patch, heeds) ==
  LET item   == Follow(h, top, patch.path, heeds)
      place  == Place(h, top, patch.path, heeds)
      bare   == Kill(Detached(h, place.parent, place.item), place.item)
      source == Place(h, top, patch.from, heeds)
      copied == Follow(h, top, patch.from, heeds)
  IN CASE patch.op = "test" ->
            LET found == Compared(h, item, patch.value, heeds) IN
            Result(found.heap, IF found.same THEN 0 ELSE 1)
       [] patch.op = "remove" /\ patch.path = <<>> ->
            Result(Overwritten(h, top, NewItem("Invalid", FALSE, Nil, Nil)), 0)
       [] patch.op \in {"add", "replace"} /\ patch.path = <<>> ->
            LET new == New(h)  g == Copy(h, patch.value) IN
            Result(Overwritten([m \in DOMAIN g \ {new} |-> g[m]], top,
                               [g[new] EXCEPT !.name = Nil]), 0)
       [] patch.op \in {"remove", "replace"} /\ place.item = Nil -> Result(h, 13)
       [] patch.op = "remove"  -> Result(bare, 0)
       [] patch.op = "replace" ->
            PutAt(Copy(bare, patch.value), top, patch.path, New(bare), heeds)
       [] patch.op = "add"     -> PutAt(Copy(h, patch.value), top, patch.path, New(h), heeds)
       [] patch.op = "move" /\ source.item = Nil -> Result(h, 5)
       [] patch.op = "move"    -> PutAt(Detached(h, source.parent, source.item), top,
                                        patch.path, source.item, heeds)
       [] patch.op = "copy" /\ copied = Nil -> Result(h, 5)
       [] patch.op = "copy"    -> PutAt(Copy(h, copied), top, patch.path, New(h), heeds)

-----------------------------------------------------------------------------
(* create_patches.                                                         *)

PatchOf(op, path, value) == [op |-> op, path |-> path, from |-> <<>>, value |-> value]

RECURSIVE Patches(_, _, _, _, _), MemberPatches(_, _, _, _, _)

(* Mutant: an item is removed at the index it had. *)
PatchesAtOwnIndex(h, path, a, b, heeds) ==
  LET la == Items(h, a)  lb == Items(h, b)
      both == {k \in DOMAIN la : k \in DOMAIN lb}
  IN IF h[a].type # h[b].type THEN <<PatchOf("replace", path, b)>>
     ELSE CASE h[a].type = "String" ->
                 IF h[a].text = h[b].text THEN <<>> ELSE <<PatchOf("replace", path, b)>>
            [] h[a].type = "Array" ->
                 FlattenSeq([k \in both |-> Patches(h, Append(path, Index(k)), la[k], lb[k], heeds)])
                 \o [k \in 1 .. Len(la) - Cardinality(both) |->
                      PatchOf("remove", Append(path, Index(Cardinality(both) + k)), Nil)]
                 \o [k \in 1 .. Len(lb) - Cardinality(both) |->
                      PatchOf("add", Append(path, <<Dash>>), lb[Cardinality(both) + k])]
            [] h[a].type = "Object" -> MemberPatches(h, path, h[a].child, h[b].child, heeds)
            [] OTHER -> <<>>

(* What makes b of a, whose objects have been sorted: items of an array    *)
(* that b has not are removed where the first of them is.                  *)
Patches(h, path, a, b, heeds) ==
  LET la == Items(h, a)  lb == Items(h, b)
      both == {k \in DOMAIN la : k \in DOMAIN lb}
      first == Index(Cardinality(both) + 1)
  IN IF h[a].type # h[b].type THEN <<PatchOf("replace", path, b)>>
     ELSE CASE h[a].type = "String" ->
                 IF h[a].text = h[b].text THEN <<>> ELSE <<PatchOf("replace", path, b)>>
            [] h[a].type = "Array" ->
                 FlattenSeq([k \in both |-> Patches(h, Append(path, Index(k)), la[k], lb[k], heeds)])
                 \o [k \in 1 .. Len(la) - Cardinality(both) |->
                      PatchOf("remove", Append(path, first), Nil)]
                 \o [k \in 1 .. Len(lb) - Cardinality(both) |->
                      PatchOf("add", Append(path, <<Dash>>), lb[Cardinality(both) + k])]
            [] h[a].type = "Object" -> MemberPatches(h, path, h[a].child, h[b].child, heeds)
            [] OTHER -> <<>>

(* The members from x and from y on. *)
MemberPatches(h, path, x, y, heeds) ==
  LET Path(n) == Append(path, Encoded(h[n].name)) IN
  IF x = Nil /\ y = Nil THEN <<>>
  ELSE IF y = Nil \/ (x # Nil /\ Less(h[x].name, h[y].name, heeds))
  THEN <<PatchOf("remove", Path(x), Nil)>> \o MemberPatches(h, path, h[x].next, y, heeds)
  ELSE IF x = Nil \/ Less(h[y].name, h[x].name, heeds)
  THEN <<PatchOf("add", Path(y), y)>> \o MemberPatches(h, path, x, h[y].next, heeds)
  ELSE Patches(h, Path(x), x, y, heeds) \o MemberPatches(h, path, h[x].next, h[y].next, heeds)

(* The objects that create_patches sorts: those of a and b that are in the *)
(* same places.                                                            *)
RECURSIVE DiffSorted(_, _, _, _)
PairsSorted(h, a, b, heeds) ==
  LET la == Items(h, a)  lb == Items(h, b)
      Partner(k) == IF h[a].type = "Array"
                    THEN IF k \in DOMAIN lb THEN {lb[k]} ELSE {}
                    ELSE {n \in Range(lb) : Alike(h[n].name, h[la[k]].name, heeds)}
  IN FoldLeft(LAMBDA f, k : IF Partner(k) = {} THEN f
                            ELSE DiffSorted(f, la[k], CHOOSE n \in Partner(k) : TRUE, heeds),
              h, [k \in DOMAIN la |-> k])
DiffSorted(h, a, b, heeds) ==
  IF h[a].type # h[b].type THEN h
  ELSE PairsSorted(IF h[a].type = "Object" THEN BothSorted(h, a, b, heeds) ELSE h,
                   a, b, heeds)

-----------------------------------------------------------------------------
(* Merge patches.                                                          *)

Node_(h, n) == [heap |-> h, node |-> n]
Without(h, n) == IF n = Nil THEN h ELSE Kill(h, n)

(* cJSON_AddItemToObject. *)
WithMember(h, c, s, n) == IF n = Nil THEN h ELSE Added(Named(h, n, s, FALSE), c, n)

(* merge_patch, target being in no list. *)
RECURSIVE MergedWith(_, _, _, _)

MergedWith(h, target, patch, heeds) ==
  LET cleared == Without(h, target)
      object  == New(cleared)
      start   == IF target # Nil /\ h[target].type = "Object" THEN Node_(h, target)
                 ELSE Node_(Put(cleared, object, NewItem("Object", FALSE, Nil, Nil)), object)
  IN IF h[patch].type # "Object" THEN Node_(Copy(cleared, patch), New(cleared))
     ELSE FoldLeft(
            LAMBDA made, p :
              LET name == made.heap[p].name
                  old  == ObjectItem(made.heap, made.node, name, heeds)
                  rest == IF old = Nil THEN made.heap ELSE Detached(made.heap, made.node, old)
                  new  == MergedWith(rest, old, p, heeds)
              IN IF rest[p].type = "Null" THEN Node_(Without(rest, old), made.node)
                 ELSE Node_(WithMember(new.heap, made.node, name, new.node), made.node),
            start, Items(h, patch))

(* generate_merge_patch: Nil, when from and to are the same.  Members are  *)
(* told apart by strcmp however they are sorted, and what is in them is    *)
(* sorted without heed of case.                                            *)
RECURSIVE MergePatch(_, _, _, _), MergeMembers(_, _, _, _, _)
UnlessEmpty(h, patch) ==
  IF h[patch].child = Nil THEN Node_(Kill(h, patch), Nil) ELSE Node_(h, patch)
PatchMade(h, patch, from, to, heeds) ==
  UnlessEmpty(MergeMembers(Put(h, patch, NewItem("Object", FALSE, Nil, Nil)), patch,
                           h[from].child, h[to].child, heeds), patch)
MergePatch(h, from, to, heeds) ==
  IF h[from].type # "Object" \/ h[to].type # "Object" THEN Node_(Copy(h, to), New(h))
  ELSE PatchMade(BothSorted(h, from, to, heeds), New(h), from, to, heeds)

MemberMade(both, patch, x, y) ==
  LET deeper == MergePatch(both.heap, x, y, FALSE) IN
  IF both.same THEN both.heap
  ELSE WithMember(deeper.heap, patch, both.heap[y].name, deeper.node)
MergeMembers(h, patch, x, y, heeds) ==
  LET null == Put(h, New(h), NewItem("Null", FALSE, Nil, Nil))
  IN IF x = Nil /\ y = Nil THEN h
     ELSE IF y = Nil \/ (x # Nil /\ Precedes(h[x].name, h[y].name))
     THEN MergeMembers(WithMember(null, patch, h[x].name, New(h)), patch, h[x].next, y, heeds)
     ELSE IF x = Nil \/ Precedes(h[y].name, h[x].name)
     THEN MergeMembers(WithMember(Copy(h, y), patch, h[y].name, New(h)), patch,
                       x, h[y].next, heeds)
     ELSE MergeMembers(MemberMade(Compared(h, x, y, heeds), patch, x, y),
                       patch, h[x].next, h[y].next, heeds)

-----------------------------------------------------------------------------
(* The client.                                                             *)

(* A tree as cJSON_Parse makes it; job is as for CopyOf. *)
RECURSIVE Built(_, _)
Built(job, tree) ==
  LET top   == Head(job.left)
      empty == [heap |-> Put(job.heap, top, NewItem(tree.type, FALSE, tree.text, Nil)),
                left |-> Tail(job.left)]
  IN FoldLeft(LAMBDA made, m :
                LET n == Head(made.left)  done == Built(made, m[2]) IN
                [done EXCEPT !.heap = Added(Named(@, n, m[1], FALSE), top, n)],
              empty, tree.items)
Grown(h, tree) == Built([heap |-> h, left |-> NextFree(h)], tree).heap

Init ==
  /\ \/ \E tree \in Alone : heap = Grown(<<>>, tree) /\ goal = Nil
     \/ \E pair \in Pair : LET one == Grown(<<>>, pair[1]) IN
          heap = Grown(one, pair[2]) /\ goal = New(one)
  /\ doc = 1
  /\ todo = <<>> /\ status = 0 /\ task = "none" /\ edits = 0

(* cJSONUtils_GeneratePatches, to be applied to a copy of doc. *)
Diff(heeds) ==
  /\ task = "none" /\ goal # Nil
  /\ heap' = DiffSorted(Copy(heap, doc), doc, goal, heeds)
  /\ doc' = New(heap)
  /\ todo' = Patches(heap', <<>>, doc, goal, heeds)
  /\ task' = "diff"
  /\ UNCHANGED <<goal, status, edits>>

(* A patch written by hand. *)
Write(edit) ==
  /\ goal = Nil /\ todo = <<>> /\ status = 0 /\ edits < MaxEdits
  /\ IF edit.value = Nil
     THEN heap' = heap /\ todo' = <<edit>>
     ELSE heap' = Grown(heap, edit.value) /\ todo' = <<[edit EXCEPT !.value = New(heap)]>>
  /\ edits' = edits + 1
  /\ UNCHANGED <<doc, goal, status, task>>

(* A turn of the loop of cJSONUtils_ApplyPatches, which ends at the first  *)
(* patch that fails. *)
Apply(heeds) ==
  /\ todo # <<>> /\ status = 0
  /\ \E done \in {Applied(heap, doc, Head(todo), heeds)} :
       heap' = done.heap /\ status' = done.status
  /\ todo' = Tail(todo)
  /\ UNCHANGED <<doc, goal, task, edits>>

(* cJSONUtils_GenerateMergePatch, and, if there is one, cJSONUtils_MergePatch *)
(* of a copy of doc. *)
Merge(heeds) ==
  /\ task = "none" /\ goal # Nil
  /\ \E patch \in {MergePatch(Copy(heap, doc), doc, goal, heeds)} :
     \E merged \in {IF patch.node = Nil THEN Node_(patch.heap, New(heap))
                    ELSE MergedWith(patch.heap, New(heap), patch.node, heeds)} :
       heap' = merged.heap /\ doc' = merged.node
  /\ task' = "merge"
  /\ UNCHANGED <<goal, todo, status, edits>>

Next ==
  \E heeds \in BOOLEAN :
    \/ Diff(heeds) \/ Apply(heeds) \/ Merge(heeds)
    \/ \E edit \in Edit : Write(edit)

Spec == Init /\ [][Next]_vars

-----------------------------------------------------------------------------
(* What the standards the header names say of values.                      *)

Key(v, k) == IF v.type = "Array" THEN Index(k) ELSE Encoded(k)

(* What is at path in v: one value or none.                                *)
RECURSIVE Sub(_, _)
Sub(v, path) ==
  IF path = <<>> THEN {v}
  ELSE IF v.type \notin Containers THEN {}
  ELSE UNION {Sub(m[2], Tail(path)) : m \in {m \in v.has : Key(v, m[1]) = path[1]}}

Position(v, token) ==
  IF token = <<Dash>> THEN Cardinality(v.has) + 1
  ELSE CHOOSE k \in 1 .. 10 : Index(k) = token

(* v without, and with, what is at path.                                   *)
RECURSIVE Less_(_, _), With(_, _, _)
Less_(v, path) ==
  LET at == Position(v, path[1]) IN
  IF Len(path) > 1
  THEN [v EXCEPT !.has = {IF Key(v, m[1]) # path[1] THEN m
                          ELSE <<m[1], Less_(m[2], Tail(path))>> : m \in @}]
  ELSE IF v.type = "Object" THEN [v EXCEPT !.has = {m \in @ : Encoded(m[1]) # path[1]}]
  ELSE [v EXCEPT !.has = {<<IF m[1] < at THEN m[1] ELSE m[1] - 1, m[2]>> :
                            m \in {m \in @ : m[1] # at}}]
With(v, path, x) ==
  LET at == Position(v, path[1]) IN
  IF path = <<>> THEN x
  ELSE IF Len(path) > 1
  THEN [v EXCEPT !.has = {IF Key(v, m[1]) # path[1] THEN m
                          ELSE <<m[1], With(m[2], Tail(path), x)>> : m \in @}]
  ELSE IF v.type = "Object"
  THEN [v EXCEPT !.has = {m \in @ : Encoded(m[1]) # path[1]}
                           \cup {<<CHOOSE s \in Name : Encoded(s) = path[1], x>>}]
  ELSE [v EXCEPT !.has = {<<IF m[1] < at THEN m[1] ELSE m[1] + 1, m[2]>> : m \in @}
                           \cup {<<at, x>>}]

HasRoom(v, path) ==
  path # <<>> =>
    \E c \in Sub(v, Front(path)) :
      \/ c.type = "Object"
      \/ /\ c.type = "Array"
         /\ \/ Last(path) = <<Dash>>
            \/ \E k \in 1 .. Cardinality(c.has) + 1 : Index(k) = Last(path)

(* What RFC 6902 has patch make of v, x being its value: one value, or     *)
(* none if it is not to succeed.                                           *)
Put_(v, path, x) == IF HasRoom(v, path) THEN {With(v, path, x)} ELSE {}
Told(patch, v, x) ==
  CASE patch.op = "test" -> IF Sub(v, patch.path) = {x} THEN {v} ELSE {}
    [] patch.op = "add"  -> Put_(v, patch.path, x)
    [] patch.op = "remove" /\ patch.path = <<>> -> {[type |-> "Invalid", has |-> {}]}
    [] patch.op \in {"remove", "replace"} /\ Sub(v, patch.path) = {} -> {}
    [] patch.op = "remove"  -> {Less_(v, patch.path)}
    [] patch.op = "replace" /\ patch.path = <<>> -> {x}
    [] patch.op = "replace" -> {With(Less_(v, patch.path), patch.path, x)}
    [] patch.op = "copy"    -> UNION {Put_(v, patch.path, y) : y \in Sub(v, patch.from)}
    [] patch.op = "move" /\ IsStrictPrefix(patch.from, patch.path) -> {}
    [] patch.op = "move" /\ patch.from = patch.path ->
         IF Sub(v, patch.from) = {} THEN {} ELSE {v}
    [] patch.op = "move"    -> UNION {Put_(Less_(v, patch.from), patch.path, y) :
                                        y \in Sub(v, patch.from)}

(* Where the code is known not to follow it: it copies and moves nothing   *)
(* to the root (cJSON_Utils.c:971), and does not ask whether an item of an *)
(* array is moved into itself, but moves it into the next one.             *)
ToRoot(patch)     == patch.op \in {"copy", "move"} /\ patch.path = <<>>
IntoItself(patch) ==
  /\ patch.op = "move" /\ patch.from # <<>> /\ IsStrictPrefix(patch.from, patch.path)
  /\ \E k \in 1 .. 10 : Last(patch.from) = Index(k)

-----------------------------------------------------------------------------
(* Properties.                                                             *)

(* A patch does what RFC 6902 says or fails: apply_patch returns 0 just    *)
(* when it can be done, and has then done it, unless it is one of the two  *)
(* kinds it is known to get wrong; and one that fails leaves the document  *)
(* alone, unless it was a replace or a move, which have taken something    *)
(* out before they look where it goes.                                     *)
PatchesDoAsTold ==
  [][LET patch == Head(todo)
         was   == ValueOf(heap, doc)
         is    == ValueOf(heap', doc)
         told  == Told(patch, was, IF patch.value = Nil THEN {} ELSE ValueOf(heap, patch.value))
     IN todo # <<>> =>
          /\ ~ToRoot(patch) /\ ~IntoItself(patch) =>
               (status' = 0 <=> told # {}) /\ (status' = 0 => is \in told)
          /\ status' # 0 /\ patch.op \notin {"replace", "move"} => is = was]_vars

(* The patches that cJSONUtils_GeneratePatches makes of two documents, and *)
(* which count on one another, as an item that is removed moves the ones   *)
(* behind it, lead from the one to the other.                              *)
PatchesLeadToGoal ==
  task = "diff" =>
    /\ status = 0
    /\ todo = <<>> => ValueOf(heap, doc) = ValueOf(heap, goal)

(* So does the merge patch that cJSONUtils_GenerateMergePatch makes, if no *)
(* member of the other document is null, which would have it removed.      *)
NoNulls(h, n) ==
  \A m \in Within(h, n) : h[m].type = "Object" =>
    \A k \in Range(Items(h, m)) : h[k].type # "Null"
MergeLeadsToGoal ==
  task = "merge" /\ NoNulls(heap, goal) => ValueOf(heap, doc) = ValueOf(heap, goal)

(* The lists of all objects are left with all their members by the sorting *)
(* that comparing and generating patches do, whatever happens afterwards.  *)
SortingLosesNothing ==
  [][/\ goal # Nil => ValueOf(heap', goal) = ValueOf(heap, goal)
     /\ task' # task => \A n \in DOMAIN heap : ValueOf(heap', n) = ValueOf(heap, n)]_vars

(* The pointer that cJSONUtils_FindPointerFromObjectTo makes of an item    *)
(* leads cJSONUtils_GetPointer to that item and no other, whatever slashes *)
(* and tildes are in the names on the way.                                 *)
PointersLeadBack ==
  \A n \in Within(heap, doc) : \A heeds \in BOOLEAN :
    Follow(heap, doc, PointerTo(heap, doc, n), heeds) = n

=============================================================================
