------------------------------- MODULE KeySet -------------------------------
(***************************************************************************)
(* Key_Set (src/src/ekeyset.c): the keys of a table, as an open hash table *)
(* with linear probing, doubled when it gets crowded, and its iterator.    *)
(*                                                                         *)
(* A key is a text with a value: two texts are the same key if the values  *)
(* are equal ("1" and "1.0" as numbers).  Hash is the hash the code        *)
(* computes from the value's bytes.  The loop that moves the keys to the   *)
(* bigger table is a step for each cell.                                   *)
(***************************************************************************)
EXTENDS Integers, FiniteSets

CONSTANTS
  Key,            (* the texts of keys                                      *)
  Empty,          (* KEY_SET_EMPTY                                          *)
  Value,          (* the value of each text                                 *)
  Hash,           (* the hash of each text's value                          *)
  MinSize,        (* TABLE_MINSIZ                                           *)
  MaxSize,        (* the most cells the allocator ever grants               *)
  LookupMayFail   (* whether it may refuse the copy Key_Set_has_key makes   *)

ASSUME KeyAssumption == Empty \notin Key
ASSUME HashAssumption == Hash \in [Key -> Nat]
ASSUME SizeAssumption == MinSize \in Nat \ {0} /\ MaxSize \in Nat
ASSUME LookupAssumption == LookupMayFail \in BOOLEAN

VARIABLES
  table,    (* array and arraysize of struct Key_Set                        *)
  nitems,   (* how many keys the code believes are in it                    *)
  pc,       (* where Key_Set_add_key is: "idle", "rehash" or "insert"       *)
  old,      (* the table keys are being moved from                          *)
  at,       (* the cell of old to be moved next                             *)
  adding,   (* the key being added                                          *)
  iter,     (* the table as the iterator copied it                          *)
  index,    (* the cell the iterator looks at next                          *)
  result    (* the last call of has_key or add_key, its key's value, and    *)
            (* what it returned                                             *)

vars == <<table, nitems, pc, old, at, adding, iter, index, result>>

NoCall == [call |-> "none"]
Answered(call, k, answer) == [call |-> call, val |-> Value[k], answer |-> answer]

-----------------------------------------------------------------------------
(* The hash table.                                                         *)

Fresh(n) == [size |-> n, cell |-> [i \in 0 .. n - 1 |-> Empty]]

Cells(t)    == 0 .. t.size - 1
Occupied(t) == {i \in Cells(t) : t.cell[i] # Empty}

IsEqual(k, c) == c # Empty /\ Value[c] = Value[k]

(* The d-th cell tried for k. *)
Home(t, k) == Hash[k] % t.size
Probe(t, k, d) ==
  IF Home(t, k) + d < t.size THEN Home(t, k) + d ELSE Home(t, k) + d - t.size

(* Key_Set_has_key: an empty home cell ends the search at once, any other  *)
(* cell does not.                                                          *)
Holds(t, k) ==
  /\ t.cell[Home(t, k)] # Empty
  /\ \E i \in Cells(t) : IsEqual(k, t.cell[i])

(* Mutant: any empty cell will do. *)
PutInLater(t, k, d) ==
  /\ t.cell[Probe(t, k, d)] = Empty
  /\ table' = [t EXCEPT !.cell[Probe(t, k, d)] = k]
  /\ nitems' = nitems + 1

(* add_key: k goes to the first empty cell from its home on. *)
PutIn(t, k, d) ==
  /\ t.cell[Probe(t, k, d)] = Empty
  /\ \A e \in 0 .. d - 1 : t.cell[Probe(t, k, e)] # Empty
  /\ table' = [t EXCEPT !.cell[Probe(t, k, d)] = k]
  /\ nitems' = nitems + 1

Put(k) == \E d \in Cells(table) : PutIn(table, k, d)

(* add_key finds no empty cell. *)
NoRoom ==
  /\ Occupied(table) = Cells(table)
  /\ UNCHANGED <<table, nitems>>

-----------------------------------------------------------------------------
Init ==
  /\ table = Fresh(MinSize)
  /\ nitems = 0
  /\ pc = "idle"
  /\ old = Fresh(0)
  /\ at = 0
  /\ adding = Empty
  /\ iter = Fresh(0)
  /\ index = 0
  /\ result = NoCall

(* A lookup that finds no memory answers FALSE. *)
HasKey(k) ==
  /\ pc = "idle"
  /\ \/ result' = Answered("has_key", k, Holds(table, k))
     \/ LookupMayFail /\ result' = Answered("has_key", k, FALSE)
  /\ UNCHANGED <<table, nitems, pc, old, at, adding, iter, index>>

(* Key_Set_add_key, up to its return if the key is there; if not, up to    *)
(* the loop of resize or, when resize is not due or has no memory, past it.*)
Crowded == 100 * (nitems + 1) >= 65 * table.size
NewSize == 2 * table.size + 1

AddKnown(k) ==
  /\ pc = "idle"
  /\ Holds(table, k)
  /\ result' = Answered("add_key", k, FALSE)
  /\ UNCHANGED <<table, nitems, pc, old, at, adding, iter, index>>

AddKey(k) ==
  /\ pc = "idle"
  /\ LookupMayFail \/ ~Holds(table, k)
  /\ adding' = k
  /\ \/ /\ Crowded /\ NewSize <= MaxSize
        /\ pc' = "rehash"
        /\ table' = Fresh(NewSize)
        /\ nitems' = 0
        /\ old' = table
        /\ at' = 0
     \/ /\ pc' = "insert"
        /\ UNCHANGED <<table, nitems, old, at>>
  /\ UNCHANGED <<iter, index, result>>

(* Mutants: keys keep their cells in the new table; and the last cell of   *)
(* the old one is forgotten.                                               *)
RehashInPlace ==
  /\ pc = "rehash" /\ at < old.size
  /\ table' = [table EXCEPT !.cell[at] = old.cell[at]]
  /\ nitems' = nitems + (IF old.cell[at] = Empty THEN 0 ELSE 1)
  /\ at' = at + 1
  /\ UNCHANGED <<pc, old, adding, iter, index, result>>

RehashedTooSoon ==
  /\ pc = "rehash" /\ at = old.size - 1
  /\ pc' = "insert"
  /\ old' = Fresh(0)
  /\ at' = 0
  /\ UNCHANGED <<table, nitems, adding, iter, index, result>>

(* The loop of resize: one cell of the old table. *)
Rehash ==
  /\ pc = "rehash"
  /\ at < old.size
  /\ \/ old.cell[at] = Empty /\ UNCHANGED <<table, nitems>>
     \/ old.cell[at] # Empty /\ (Put(old.cell[at]) \/ NoRoom)
  /\ at' = at + 1
  /\ UNCHANGED <<pc, old, adding, iter, index, result>>

Rehashed ==
  /\ pc = "rehash"
  /\ at = old.size
  /\ pc' = "insert"
  /\ old' = Fresh(0)
  /\ at' = 0
  /\ UNCHANGED <<table, nitems, adding, iter, index, result>>

(* The rest of Key_Set_add_key: the key is copied and put in the table. *)
Insert ==
  /\ pc = "insert"
  /\ \/ Put(adding) /\ result' = Answered("add_key", adding, TRUE)
     \/ NoRoom /\ result' = Answered("add_key", adding, FALSE)
     \/ (* no memory for the copy *)
        /\ result' = Answered("add_key", adding, FALSE)
        /\ UNCHANGED <<table, nitems>>
  /\ pc' = "idle"
  /\ adding' = Empty
  /\ UNCHANGED <<old, at, iter, index>>

(* Key_Set_iterator: a copy of the keys, in the order of their cells. *)
Iterator ==
  /\ pc = "idle"
  /\ iter' = table
  /\ index' = 0
  /\ UNCHANGED <<table, nitems, pc, old, at, adding, result>>

(* Key_Set_Iterator_next, for the key in cell i.  Past the last key it     *)
(* answers KEY_SET_EMPTY and nothing changes.                              *)
IteratorNext(i) ==
  /\ pc = "idle"
  /\ i \in Occupied(iter) /\ index <= i
  /\ \A j \in index .. i - 1 : iter.cell[j] = Empty
  /\ index' = i + 1
  /\ UNCHANGED <<table, nitems, pc, old, at, adding, iter, result>>

Next ==
  \/ \E k \in Key : HasKey(k) \/ AddKnown(k) \/ AddKey(k)
  \/ Rehash
  \/ Rehashed
  \/ Insert
  \/ Iterator
  \/ \E i \in Cells(iter) : IteratorNext(i)

Spec == Init /\ [][Next]_vars

-----------------------------------------------------------------------------
(* Properties.                                                             *)

Table(t) ==
  /\ t = [size |-> t.size, cell |-> t.cell]
  /\ t.size \in Nat
  /\ t.cell \in [Cells(t) -> Key \cup {Empty}]

Results ==
  {NoCall} \cup [call : {"has_key", "add_key"},
                 val : {Value[k] : k \in Key}, answer : BOOLEAN]

TypeOK ==
  /\ Table(table) /\ table.size >= MinSize
  /\ nitems \in Nat
  /\ pc \in {"idle", "rehash", "insert"}
  /\ Table(old)
  /\ at \in 0 .. old.size
  /\ adding \in Key \cup {Empty}
  /\ Table(iter)
  /\ index \in 0 .. iter.size
  /\ result \in Results

ValuesFrom(t, i) == {Value[t.cell[j]] : j \in {j \in Occupied(t) : j >= i}}
Members == ValuesFrom(table, 0) \cup ValuesFrom(old, at)

(* Hash probing, growing, rehashing and all, Key_Set is a set: no key is   *)
(* ever lost or put in twice, has_key and add_key tell the truth, and an   *)
(* iterator shows each key it was made for once, whatever is added while   *)
(* it is used.                                                             *)
Registry == INSTANCE KeyRegistry
              WITH Val <- {Value[k] : k \in Key},
                   members <- Members,
                   left <- ValuesFrom(iter, index)
ImplementsRegistry == Registry!Spec

(* Key_Set_size counts the keys that are there, though resize starts the   *)
(* count again and any allocation on the way may fail.                     *)
SizeIsCount == nitems = Cardinality(Occupied(table))

(* No key is ever lost, whichever allocations fail: resize finds room in   *)
(* the new table for every key of the old one.                             *)
KeysStay == [][Members \subseteq Members']_vars

(* Every key in the table is within reach of has_key, although the search  *)
(* gives up at an empty home cell and keys are only moved by resize.       *)
Found == {Value[k] : k \in {k \in Key : Holds(table, k)}}
KeysReachable == pc = "idle" => Found = Members

=============================================================================
