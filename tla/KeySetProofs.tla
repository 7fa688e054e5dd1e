---------------------------- MODULE KeySetProofs ----------------------------
(***************************************************************************)
(* Proofs about KeySet, for every set of keys, every hash function and     *)
(* every size of table.                                                    *)
(***************************************************************************)
EXTENDS KeySet, FiniteSetTheorems, TLAPS

-----------------------------------------------------------------------------
(* Probing.                                                                *)

(* The home of a key and the cells probed after it are cells of the table. *)
LEMMA ProbeRange ==
  ASSUME NEW t, t.size \in Nat \ {0}, NEW k \in Key, NEW d \in Cells(t)
  PROVE  /\ Home(t, k) \in Cells(t)
         /\ Probe(t, k, d) \in Cells(t)
         /\ Probe(t, k, 0) = Home(t, k)
<1>1. Hash[k] \in Nat
  BY HashAssumption
<1>2. Home(t, k) \in Cells(t)
  BY <1>1 DEF Home, Cells
<1>3. QED
  BY <1>2 DEF Probe, Cells

(* What add_key does to the table: it fills one empty cell, and if that is *)
(* not the key's home, the home is taken.                                  *)
Lands(t, u, k, i) ==
  /\ t.cell[i] = Empty
  /\ u = [t EXCEPT !.cell[i] = k]
  /\ i = Home(t, k) \/ t.cell[Home(t, k)] # Empty

LEMMA PutLands ==
  ASSUME Table(table), table.size > 0, NEW k \in Key, Put(k)
  PROVE  \E i \in Cells(table) : Lands(table, table', k, i) /\ nitems' = nitems + 1
<1>1. PICK d \in Cells(table) : PutIn(table, k, d)
  BY DEF Put
<1>2. table.size \in Nat \ {0} /\ 0 \in Cells(table)
  BY DEF Table, Cells
<1>3. /\ Probe(table, k, d) \in Cells(table)
      /\ Probe(table, k, 0) = Home(table, k)
  BY <1>1, <1>2, ProbeRange
<1>4. d # 0 => 0 \in 0 .. d - 1
  BY DEF Cells
<1>5. Lands(table, table', k, Probe(table, k, d)) /\ nitems' = nitems + 1
  BY <1>1, <1>3, <1>4 DEF Lands, PutIn
<1>6. QED
  BY <1>3, <1>5

(* The table afterwards. *)
LEMMA Landed ==
  ASSUME NEW t, Table(t), NEW u, NEW k \in Key, NEW i \in Cells(t), Lands(t, u, k, i)
  PROVE  /\ Table(u) /\ u.size = t.size /\ Cells(u) = Cells(t)
         /\ u.cell[i] = k
         /\ \A j \in Cells(t) \ {i} : u.cell[j] = t.cell[j]
         /\ i \notin Occupied(t)
         /\ Occupied(u) = Occupied(t) \cup {i}
         /\ \A x \in Key : Home(u, x) = Home(t, x)
<1>1. /\ u = [size |-> t.size, cell |-> [t.cell EXCEPT ![i] = k]]
      /\ u.cell[i] = k
      /\ \A j \in Cells(t) \ {i} : u.cell[j] = t.cell[j]
  BY DEF Lands, Table
<1>2. Table(u) /\ u.size = t.size /\ Cells(u) = Cells(t)
  BY <1>1 DEF Table, Cells
<1>3. k # Empty
  BY KeyAssumption
<1>4. i \notin Occupied(t) /\ Occupied(u) = Occupied(t) \cup {i}
  BY <1>1, <1>2, <1>3 DEF Occupied, Lands
<1>5. QED
  BY <1>1, <1>2, <1>4 DEF Home

(* A table without keys. *)
LEMMA FreshTable ==
  ASSUME NEW n \in Nat
  PROVE  /\ Table(Fresh(n)) /\ Fresh(n).size = n
         /\ Occupied(Fresh(n)) = {}
BY DEF Table, Fresh, Occupied, Cells

(* The occupied cells are finitely many, and all cells are as many as the  *)
(* table's size.                                                           *)
LEMMA OccupiedFinite ==
  ASSUME NEW t, Table(t)
  PROVE  /\ IsFiniteSet(Occupied(t)) /\ Cardinality(Occupied(t)) \in Nat
         /\ Cardinality(Cells(t)) = t.size
<1>1. IsFiniteSet(Cells(t)) /\ Cardinality(Cells(t)) = t.size
  BY FS_Interval DEF Table, Cells
<1>2. Occupied(t) \in SUBSET Cells(t)
  BY DEF Occupied
<1>3. QED
  BY <1>1, <1>2, FS_Subset, FS_CardinalityType

-----------------------------------------------------------------------------
(***************************************************************************)
(* The invariant of the fields, whatever allocations fail.  While keys are *)
(* moved, no more of them are in the new table than cells have been left   *)
(* behind in the old one, which is smaller: there is room for the next.    *)
(***************************************************************************)
PhaseOK ==
  /\ pc # "idle" => adding \in Key
  /\ pc # "rehash" => old = Fresh(0) /\ at = 0
  /\ pc = "rehash" => nitems <= at /\ old.size < table.size

(* No key sits behind an empty home. *)
Reach(t) == \A i \in Occupied(t) : t.cell[Home(t, t.cell[i])] # Empty

FieldsOK == TypeOK /\ SizeIsCount /\ PhaseOK /\ Reach(table)

LEMMA FieldsInit == Init => FieldsOK
<1>1. SUFFICES ASSUME Init PROVE FieldsOK
  OBVIOUS
<1>2. Table(Fresh(MinSize)) /\ Fresh(MinSize).size = MinSize
      /\ Occupied(Fresh(MinSize)) = {}
  BY FreshTable, SizeAssumption
<1>3. Table(Fresh(0)) /\ Fresh(0).size = 0
  BY FreshTable
<1>4. TypeOK
  <2>1. Table(table) /\ table.size >= MinSize
    BY <1>1, <1>2, SizeAssumption DEF Init
  <2>2. Table(old) /\ at \in 0 .. old.size /\ Table(iter) /\ index \in 0 .. iter.size
    BY <1>1, <1>3 DEF Init
  <2>3. QED
    BY <1>1, <2>1, <2>2 DEF Init, TypeOK, Results
<1>5. SizeIsCount
  BY <1>1, <1>2, FS_EmptySet DEF Init, SizeIsCount
<1>6. QED
  BY <1>1, <1>2, <1>4, <1>5 DEF Init, FieldsOK, PhaseOK, Reach

(* Putting a key keeps the table, its count and its reach in order. *)
LEMMA PutKeepsTable ==
  ASSUME FieldsOK, NEW k \in Key, Put(k)
  PROVE  /\ Table(table') /\ table'.size = table.size
         /\ nitems' = nitems + 1 /\ nitems' \in Nat
         /\ SizeIsCount' /\ Reach(table')
<1>1. Table(table) /\ table.size > 0 /\ nitems \in Nat
  BY SizeAssumption DEF FieldsOK, TypeOK, Table
<1>2. PICK i \in Cells(table) : Lands(table, table', k, i) /\ nitems' = nitems + 1
  BY <1>1, PutLands
<1>3. /\ Table(table') /\ table'.size = table.size /\ Cells(table') = Cells(table)
      /\ table'.cell[i] = k
      /\ \A j \in Cells(table) \ {i} : table'.cell[j] = table.cell[j]
      /\ i \notin Occupied(table)
      /\ Occupied(table') = Occupied(table) \cup {i}
      /\ \A x \in Key : Home(table', x) = Home(table, x)
  BY <1>1, <1>2, Landed
<1>4. SizeIsCount'
  BY <1>1, <1>2, <1>3, OccupiedFinite, FS_AddElement DEF FieldsOK, SizeIsCount
<1>5. \A x \in Key : Home(table, x) \in Cells(table)
  <2>1. table.size \in Nat \ {0} /\ 0 \in Cells(table)
    BY <1>1 DEF Table, Cells
  <2>2. QED
    BY <2>1, ProbeRange
<1>6. ASSUME NEW j \in Occupied(table')
      PROVE  table'.cell[Home(table', table'.cell[j])] # Empty
  <2>1. k # Empty
    BY KeyAssumption
  <2>2. CASE j = i
    BY <1>2, <1>3, <1>5, <2>1, <2>2 DEF Lands
  <2>3. CASE j # i
    <3>1. j \in Occupied(table) /\ table'.cell[j] = table.cell[j]
      BY <1>3, <2>3 DEF Occupied
    <3>2. table.cell[j] \in Key
      BY <1>1, <3>1 DEF Table, Occupied
    <3>3. table.cell[Home(table, table.cell[j])] # Empty
      BY <3>1 DEF FieldsOK, Reach
    <3>4. QED
      BY <1>3, <1>5, <2>1, <3>1, <3>2, <3>3
  <2>4. QED
    BY <2>2, <2>3
<1>7. QED
  BY <1>1, <1>2, <1>3, <1>4, <1>6 DEF Reach

(* While keys are moved, the new table is never full. *)
LEMMA RoomToRehash ==
  ASSUME FieldsOK, pc = "rehash", at < old.size
  PROVE  ~ NoRoom
<1>1. Table(table) /\ Table(old) /\ at \in Nat /\ nitems \in Nat
  BY DEF FieldsOK, TypeOK, Table
<1>2. nitems < table.size
  BY <1>1 DEF FieldsOK, PhaseOK, Table
<1>3. Cardinality(Occupied(table)) < Cardinality(Cells(table))
  BY <1>1, <1>2, OccupiedFinite DEF FieldsOK, SizeIsCount
<1>4. QED
  BY <1>1, <1>3, OccupiedFinite DEF NoRoom, Table

LEMMA FieldsStep == FieldsOK /\ [Next]_vars => FieldsOK'
<1> SUFFICES ASSUME FieldsOK, [Next]_vars PROVE FieldsOK'
  OBVIOUS
<1> USE DEF FieldsOK
<1>1. CASE UNCHANGED vars
  BY <1>1 DEF vars, TypeOK, SizeIsCount, PhaseOK, Reach, Home, Cells, Occupied, Table
<1>2. ASSUME NEW k \in Key, HasKey(k) \/ AddKnown(k) PROVE FieldsOK'
  <2>1. /\ UNCHANGED <<table, nitems, pc, old, at, adding, iter, index>>
        /\ result' \in Results
    <3>1. Holds(table, k) \in BOOLEAN
      BY DEF Holds
    <3>2. \A call \in {"has_key", "add_key"}, b \in BOOLEAN :
            Answered(call, k, b) \in Results
      BY DEF Answered, Results
    <3>3. QED
      BY <1>2, <3>1, <3>2, Zenon DEF HasKey, AddKnown
  <2>2. QED
    BY <2>1 DEF TypeOK, SizeIsCount, PhaseOK, Reach, Home, Cells, Occupied, Table
<1>3. ASSUME NEW k \in Key, AddKey(k) PROVE FieldsOK'
  <2>1. CASE pc' = "rehash"
    <3>1. NewSize \in Nat /\ NewSize >= MinSize /\ table.size < NewSize
      BY SizeAssumption DEF TypeOK, Table, NewSize
    <3>2. /\ table' = Fresh(NewSize) /\ nitems' = 0 /\ old' = table /\ at' = 0
          /\ adding' = k /\ UNCHANGED <<iter, index, result>>
      BY <1>3, <2>1 DEF AddKey
    <3>3. /\ Table(table') /\ table'.size = NewSize /\ Occupied(table') = {}
      BY <3>1, <3>2, FreshTable
    <3>4. TypeOK'
      BY <2>1, <3>1, <3>2, <3>3 DEF TypeOK, Table, Cells
    <3>5. SizeIsCount'
      BY <3>2, <3>3, FS_EmptySet DEF SizeIsCount
    <3>6. PhaseOK' /\ Reach(table')
      BY <2>1, <3>1, <3>2, <3>3 DEF PhaseOK, Reach
    <3>7. QED
      BY <3>4, <3>5, <3>6
  <2>2. CASE pc' # "rehash"
    <3>1. /\ pc = "idle" /\ pc' = "insert" /\ adding' = k
          /\ UNCHANGED <<table, nitems, old, at, iter, index, result>>
      BY <1>3, <2>2 DEF AddKey
    <3>2. QED
      BY <3>1 DEF TypeOK, SizeIsCount, PhaseOK, Reach, Home, Cells, Occupied, Table
  <2>3. QED
    BY <2>1, <2>2
<1>4. ASSUME Rehash PROVE FieldsOK'
  <2>1. /\ pc = "rehash" /\ at < old.size /\ at' = at + 1
        /\ UNCHANGED <<pc, old, adding, iter, index, result>>
    BY <1>4 DEF Rehash
  <2>2. at \in Nat /\ old.size \in Nat
    BY DEF TypeOK, Table
  <2>3. CASE UNCHANGED <<table, nitems>> /\ old.cell[at] = Empty
    BY <2>1, <2>2, <2>3 DEF TypeOK, SizeIsCount, PhaseOK, Reach, Home, Cells, Occupied, Table
  <2>4. CASE old.cell[at] # Empty
    <3>1. old.cell[at] \in Key
      BY <2>1, <2>2, <2>4 DEF TypeOK, Table, Cells
    <3>2. Put(old.cell[at])
      BY <1>4, <2>1, <2>4, RoomToRehash DEF Rehash
    <3>3. /\ Table(table') /\ table'.size = table.size
          /\ nitems' = nitems + 1 /\ nitems' \in Nat
          /\ SizeIsCount' /\ Reach(table')
      BY <3>1, <3>2, PutKeepsTable
    <3>4. TypeOK'
      BY <2>1, <2>2, <3>3 DEF TypeOK, Table, Cells
    <3>5. PhaseOK'
      BY <2>1, <2>2, <3>3 DEF PhaseOK, TypeOK
    <3>6. QED
      BY <3>3, <3>4, <3>5
  <2>5. QED
    BY <1>4, <2>3, <2>4 DEF Rehash
<1>5. ASSUME Rehashed PROVE FieldsOK'
  <2>1. Table(Fresh(0)) /\ Fresh(0).size = 0
    BY FreshTable
  <2>2. QED
    BY <1>5, <2>1 DEF Rehashed, TypeOK, SizeIsCount, PhaseOK, Reach, Home, Cells, Occupied, Table
<1>6. ASSUME Insert PROVE FieldsOK'
  <2>1. /\ pc = "insert" /\ pc' = "idle" /\ adding' = Empty /\ result' \in Results
        /\ UNCHANGED <<old, at, iter, index>> /\ adding \in Key
    <3>1. adding \in Key
      BY <1>6 DEF Insert, PhaseOK
    <3>2. \A b \in BOOLEAN : Answered("add_key", adding, b) \in Results
      BY <3>1 DEF Answered, Results
    <3>3. QED
      BY <1>6, <3>1, <3>2 DEF Insert
  <2>2. CASE UNCHANGED <<table, nitems>>
    BY <2>1, <2>2 DEF TypeOK, SizeIsCount, PhaseOK, Reach, Home, Cells, Occupied, Table
  <2>3. CASE Put(adding)
    <3>1. /\ Table(table') /\ table'.size = table.size /\ nitems' \in Nat
          /\ SizeIsCount' /\ Reach(table')
      BY <2>1, <2>3, PutKeepsTable
    <3>2. TypeOK'
      BY <2>1, <3>1 DEF TypeOK, Table, Cells
    <3>3. QED
      BY <2>1, <3>1, <3>2 DEF PhaseOK
  <2>4. QED
    BY <1>6, <2>2, <2>3 DEF Insert, NoRoom
<1>7. CASE Iterator
  BY <1>7 DEF Iterator, TypeOK, SizeIsCount, PhaseOK, Reach, Home, Cells, Occupied, Table
<1>8. ASSUME NEW i \in Cells(iter), IteratorNext(i) PROVE FieldsOK'
  BY <1>8 DEF IteratorNext, TypeOK, SizeIsCount, PhaseOK, Reach, Home, Cells, Occupied, Table
<1>9. QED
  BY <1>1, <1>2, <1>3, <1>4, <1>5, <1>6, <1>7, <1>8 DEF Next

LEMMA FieldsAlways == Spec => []FieldsOK
BY FieldsInit, FieldsStep, PTL DEF Spec

(* The fields of struct Key_Set have their types. *)
THEOREM TypeCorrect == Spec => []TypeOK
<1>1. FieldsOK => TypeOK
  BY DEF FieldsOK
<1>2. QED
  BY <1>1, FieldsAlways, PTL

(* Key_Set_size is the number of keys in the table. *)
THEOREM SizeCounts == Spec => []SizeIsCount
<1>1. FieldsOK => SizeIsCount
  BY DEF FieldsOK
<1>2. QED
  BY <1>1, FieldsAlways, PTL

-----------------------------------------------------------------------------
(* How the values in the set change.                                       *)

LEMMA FreshValues ==
  ASSUME NEW n \in Nat, NEW m
  PROVE  ValuesFrom(Fresh(n), m) = {}
BY FreshTable DEF ValuesFrom

(* Putting a key adds its value to the table's. *)
LEMMA PutAddsValue ==
  ASSUME FieldsOK, NEW k \in Key, Put(k)
  PROVE  ValuesFrom(table', 0) = ValuesFrom(table, 0) \cup {Value[k]}
<1>1. Table(table) /\ table.size > 0
  BY SizeAssumption DEF FieldsOK, TypeOK, Table
<1>2. PICK i \in Cells(table) : Lands(table, table', k, i)
  BY <1>1, PutLands
<1>3. /\ Cells(table') = Cells(table)
      /\ table'.cell[i] = k
      /\ \A j \in Cells(table) \ {i} : table'.cell[j] = table.cell[j]
      /\ i \notin Occupied(table)
      /\ Occupied(table') = Occupied(table) \cup {i}
  BY <1>1, <1>2, Landed
<1>4. \A j \in Cells(table) : j >= 0
  BY <1>1 DEF Table, Cells
<1>5. Occupied(table) \subseteq Cells(table)
  BY DEF Occupied
<1>6. \A j \in Occupied(table) : j # i /\ table'.cell[j] = table.cell[j]
  BY <1>3, <1>5
<1>7. ValuesFrom(table, 0) = {Value[table.cell[j]] : j \in Occupied(table)}
  BY <1>4, <1>5 DEF ValuesFrom
<1>8. ValuesFrom(table', 0) = {Value[table'.cell[j]] : j \in Occupied(table')}
  BY <1>3, <1>4, <1>5 DEF ValuesFrom
<1>9. QED
  BY <1>3, <1>6, <1>7, <1>8

(* Leaving a cell behind leaves its value behind. *)
LEMMA NextCellValues ==
  ASSUME NEW t, Table(t), NEW i \in Cells(t)
  PROVE  ValuesFrom(t, i) =
           ValuesFrom(t, i + 1) \cup (IF t.cell[i] = Empty THEN {} ELSE {Value[t.cell[i]]})
<1>1. \A j \in Cells(t) : j >= i <=> j >= i + 1 \/ j = i
  BY DEF Table, Cells
<1>2. Occupied(t) \subseteq Cells(t)
  BY DEF Occupied
<1>3. {j \in Occupied(t) : j >= i} =
        {j \in Occupied(t) : j >= i + 1} \cup (IF t.cell[i] = Empty THEN {} ELSE {i})
  BY <1>1, <1>2 DEF Occupied
<1>4. QED
  BY <1>3 DEF ValuesFrom

(* Past the last cell there is nothing. *)
LEMMA NoCellValues ==
  ASSUME NEW t, Table(t)
  PROVE  ValuesFrom(t, t.size) = {}
BY DEF ValuesFrom, Occupied, Table, Cells

(* Between calls, no key is waiting to be moved. *)
LEMMA SettledMembers ==
  ASSUME FieldsOK, pc # "rehash"
  PROVE  Members = ValuesFrom(table, 0)
BY FreshValues DEF FieldsOK, PhaseOK, Members

(* Putting the key being added adds its value, and nothing else in the     *)
(* life of the set changes what is in it.                                  *)
LEMMA MembersStep ==
  ASSUME FieldsOK, [Next]_vars
  PROVE  IF Insert /\ Put(adding) THEN Members' = Members \cup {Value[adding]}
                                  ELSE Members' = Members
<1>1. CASE UNCHANGED <<table, old, at>>
  <2>1. ~ Put(adding) \/ pc # "insert"
    <3> SUFFICES ASSUME Put(adding), pc = "insert" PROVE FALSE
      OBVIOUS
    <3>1. adding \in Key /\ Table(table) /\ table.size > 0
      BY SizeAssumption DEF FieldsOK, PhaseOK, TypeOK, Table
    <3>2. PICK i \in Cells(table) : Lands(table, table', adding, i)
      BY <3>1, PutLands
    <3>3. QED
      BY <1>1, <3>1, <3>2, Landed
  <2>2. Members' = Members
    BY <1>1 DEF Members
  <2>3. QED
    BY <2>1, <2>2 DEF Insert
<1>2. ASSUME NEW k \in Key, AddKey(k), pc' = "rehash"
      PROVE  Members' = Members /\ pc = "idle"
  <2>1. /\ table' = Fresh(NewSize) /\ old' = table /\ at' = 0 /\ pc = "idle"
    BY <1>2 DEF AddKey
  <2>2. NewSize \in Nat
    BY DEF NewSize, FieldsOK, TypeOK, Table
  <2>3. Members' = ValuesFrom(Fresh(NewSize), 0) \cup ValuesFrom(table, 0)
    BY <2>1 DEF Members
  <2>4. QED
    BY <2>1, <2>2, <2>3, FreshValues, SettledMembers
<1>3. ASSUME Rehash
      PROVE  Members' = Members /\ pc = "rehash"
  <2>1. pc = "rehash" /\ at < old.size /\ at' = at + 1 /\ old' = old
    BY <1>3 DEF Rehash
  <2>2. Table(old) /\ at \in Cells(old)
    BY <2>1 DEF FieldsOK, TypeOK, Table, Cells
  <2>3. CASE old.cell[at] = Empty /\ table' = table
    BY <2>1, <2>2, <2>3, NextCellValues DEF Members
  <2>4. CASE old.cell[at] # Empty
    <3>1. old.cell[at] \in Key
      BY <2>2, <2>4 DEF Table
    <3>2. Put(old.cell[at])
      BY <1>3, <2>1, <2>4, RoomToRehash DEF Rehash
    <3>3. ValuesFrom(table', 0) = ValuesFrom(table, 0) \cup {Value[old.cell[at]]}
      BY <3>1, <3>2, PutAddsValue
    <3>4. ValuesFrom(old, at) = ValuesFrom(old, at + 1) \cup {Value[old.cell[at]]}
      BY <2>2, <2>4, NextCellValues
    <3>5. QED
      BY <2>1, <3>3, <3>4 DEF Members
  <2>5. QED
    BY <1>3, <2>1, <2>3, <2>4 DEF Rehash
<1>4. ASSUME Rehashed
      PROVE  Members' = Members /\ pc = "rehash"
  <2>1. table' = table /\ old' = Fresh(0) /\ at' = 0 /\ at = old.size /\ Table(old)
    BY <1>4 DEF Rehashed, FieldsOK, TypeOK
  <2>2. ValuesFrom(old, at) = {} /\ ValuesFrom(old', at') = {}
    BY <2>1, NoCellValues, FreshValues
  <2>3. QED
    BY <1>4, <2>1, <2>2 DEF Members, Rehashed
<1>5. ASSUME Insert, Put(adding)
      PROVE  Members' = Members \cup {Value[adding]}
  <2>1. adding \in Key /\ pc = "insert" /\ old' = old /\ at' = at
    BY <1>5 DEF Insert, FieldsOK, PhaseOK
  <2>2. ValuesFrom(table', 0) = ValuesFrom(table, 0) \cup {Value[adding]}
    BY <1>5, <2>1, PutAddsValue
  <2>3. QED
    BY <2>1, <2>2 DEF Members
<1>6. CASE UNCHANGED vars
  BY <1>1, <1>6 DEF vars
<1>7. CASE Next
  <2>1. ASSUME NEW k \in Key, AddKey(k)
        PROVE  pc' = "rehash" \/ UNCHANGED <<table, old, at>>
    BY <2>1 DEF AddKey
  <2>2. ASSUME Insert PROVE Put(adding) \/ UNCHANGED <<table, old, at>>
    BY <2>2 DEF Insert, NoRoom
  <2>3. QED
    BY <1>1, <1>2, <1>3, <1>4, <1>5, <1>7, <2>1, <2>2
    DEF Next, HasKey, AddKnown, Iterator, IteratorNext, Insert
<1>8. QED
  BY <1>6, <1>7

(* No key is ever lost. *)
THEOREM KeysNeverLost == Spec => KeysStay
<1>1. FieldsOK /\ [Next]_vars => [Members \subseteq Members']_vars
  BY MembersStep
<1>2. QED
  BY <1>1, FieldsAlways, PTL DEF Spec, KeysStay

(* has_key reaches the keys that are in the table, and no others. *)
THEOREM KeysAreReachable == Spec => []KeysReachable
<1>1. ASSUME FieldsOK, pc = "idle" PROVE Found = Members
  <2>1. Members = ValuesFrom(table, 0)
    BY <1>1, SettledMembers
  <2>2. Table(table) /\ \A i \in Cells(table) : i >= 0
    BY <1>1 DEF FieldsOK, TypeOK, Table, Cells
  <2>3. ValuesFrom(table, 0) = {Value[table.cell[i]] : i \in Occupied(table)}
    BY <2>2 DEF ValuesFrom, Occupied
  <2>4. ASSUME NEW i \in Occupied(table) PROVE Value[table.cell[i]] \in Found
    <3>1. table.cell[i] \in Key /\ i \in Cells(table) /\ table.cell[i] # Empty
      BY <2>2 DEF Occupied, Table
    <3>2. Holds(table, table.cell[i])
      BY <1>1, <3>1 DEF Holds, IsEqual, FieldsOK, Reach
    <3>3. QED
      BY <3>1, <3>2 DEF Found
  <2>5. ASSUME NEW k \in Key, Holds(table, k)
        PROVE  \E i \in Occupied(table) : Value[k] = Value[table.cell[i]]
    BY <2>5 DEF Holds, IsEqual, Occupied
  <2>6. QED
    BY <2>1, <2>3, <2>4, <2>5 DEF Found
<1>2. FieldsOK => KeysReachable
  BY <1>1 DEF KeysReachable
<1>3. QED
  BY <1>2, FieldsAlways, PTL

-----------------------------------------------------------------------------
(***************************************************************************)
(* The refinement needs two things of the world: that equal keys have      *)
(* equal hashes, and that has_key always finds the memory it wants.  Then  *)
(* no value is ever in the set twice: not in a table, not in the part of   *)
(* the old table still to be moved and the new one, and not about to be    *)
(* added.                                                                  *)
(***************************************************************************)
Hashable == \A k, l \in Key : Value[k] = Value[l] => Hash[k] = Hash[l]

Distinct(t, n) ==
  \A i, j \in Occupied(t) :
    i >= n /\ j >= n /\ Value[t.cell[i]] = Value[t.cell[j]] => i = j

SetOK ==
  /\ FieldsOK
  /\ Distinct(table, 0)
  /\ Distinct(old, at)
  /\ Distinct(iter, index)
  /\ ValuesFrom(table, 0) \cap ValuesFrom(old, at) = {}
  /\ pc # "idle" => Value[adding] \notin Members

LEMMA FreshDistinct ==
  ASSUME NEW n \in Nat, NEW m
  PROVE  Distinct(Fresh(n), m)
BY FreshTable DEF Distinct

(* A new value keeps the values of the table distinct. *)
LEMMA PutKeepsDistinct ==
  ASSUME FieldsOK, Distinct(table, 0), NEW k \in Key, Put(k),
         Value[k] \notin ValuesFrom(table, 0)
  PROVE  Distinct(table', 0)
<1>1. Table(table) /\ table.size > 0
  BY SizeAssumption DEF FieldsOK, TypeOK, Table
<1>2. PICK i \in Cells(table) : Lands(table, table', k, i)
  BY <1>1, PutLands
<1>3. /\ Cells(table') = Cells(table)
      /\ table'.cell[i] = k
      /\ \A j \in Cells(table) \ {i} : table'.cell[j] = table.cell[j]
      /\ i \notin Occupied(table)
      /\ Occupied(table') = Occupied(table) \cup {i}
  BY <1>1, <1>2, Landed
<1>4. \A j \in Occupied(table) : j \in Cells(table) /\ j >= 0
  BY <1>1 DEF Table, Cells, Occupied
<1>5. \A j \in Occupied(table) : Value[table.cell[j]] # Value[k]
  BY <1>4 DEF ValuesFrom
<1>6. \A j \in Occupied(table) : table'.cell[j] = table.cell[j]
  BY <1>3, <1>4
<1>7. \A x, y \in Occupied(table) : Value[table.cell[x]] = Value[table.cell[y]] => x = y
  BY <1>4 DEF Distinct
<1>8. QED
  BY <1>3, <1>5, <1>6, <1>7 DEF Distinct

(* From a later cell on, the values are distinct too. *)
LEMMA LaterDistinct ==
  ASSUME NEW t, Table(t), NEW n \in Nat, NEW m \in Nat, n <= m, Distinct(t, n)
  PROVE  Distinct(t, m)
<1>1. \A j \in Occupied(t) : j \in Nat
  BY DEF Table, Occupied, Cells
<1>2. QED
  BY <1>1 DEF Distinct

(* With distinct values, the value of a cell is not among those behind it. *)
LEMMA NotLater ==
  ASSUME NEW t, Table(t), NEW i \in Occupied(t), NEW n \in Nat, n <= i, Distinct(t, n)
  PROVE  Value[t.cell[i]] \notin ValuesFrom(t, i + 1)
<1>1. \A j \in Occupied(t) : j \in Nat
  BY DEF Table, Occupied, Cells
<1>2. ASSUME NEW j \in Occupied(t), j >= i + 1, Value[t.cell[j]] = Value[t.cell[i]]
      PROVE  FALSE
  <2>1. j >= n /\ i >= n /\ j # i
    BY <1>1, <1>2
  <2>2. QED
    BY <1>2, <2>1 DEF Distinct
<1>3. QED
  BY <1>2 DEF ValuesFrom

(* has_key answers whether the value is in the set. *)
LEMMA HoldsIsMember ==
  ASSUME Hashable, FieldsOK, pc # "rehash", NEW k \in Key
  PROVE  Holds(table, k) <=> Value[k] \in Members
<1>1. Members = ValuesFrom(table, 0)
  BY SettledMembers
<1>2. Table(table) /\ \A i \in Cells(table) : i >= 0
  BY DEF FieldsOK, TypeOK, Table, Cells
<1>3. ValuesFrom(table, 0) = {Value[table.cell[i]] : i \in Occupied(table)}
  BY <1>2 DEF ValuesFrom, Occupied
<1>4. ASSUME NEW i \in Occupied(table), Value[k] = Value[table.cell[i]]
      PROVE  Holds(table, k)
  <2>1. table.cell[i] \in Key /\ i \in Cells(table) /\ table.cell[i] # Empty
    BY <1>2 DEF Occupied, Table
  <2>2. Home(table, table.cell[i]) = Home(table, k)
    BY <1>4, <2>1 DEF Hashable, Home
  <2>3. table.cell[Home(table, k)] # Empty
    BY <2>2 DEF FieldsOK, Reach
  <2>4. QED
    BY <1>4, <2>1, <2>3 DEF Holds, IsEqual
<1>5. ASSUME Holds(table, k)
      PROVE  \E i \in Occupied(table) : Value[k] = Value[table.cell[i]]
  BY <1>5 DEF Holds, IsEqual, Occupied
<1>6. QED
  BY <1>1, <1>3, <1>4, <1>5

LEMMA SetInit == Init => SetOK
<1>1. SUFFICES ASSUME Init PROVE SetOK
  OBVIOUS
<1>2. FieldsOK
  BY <1>1, FieldsInit
<1>3. QED
  BY <1>1, <1>2, FreshDistinct, FreshValues, SizeAssumption DEF Init, SetOK

LEMMA SetStep ==
  ASSUME Hashable, ~ LookupMayFail, SetOK, [Next]_vars
  PROVE  SetOK'
<1>1. FieldsOK /\ FieldsOK'
  BY FieldsStep DEF SetOK
<1>2. /\ Table(table) /\ Table(old) /\ Table(iter)
      /\ at \in Nat /\ index \in Nat /\ table.size \in Nat
  BY <1>1 DEF FieldsOK, TypeOK, Table
<1>3. ASSUME UNCHANGED <<table, old, at, iter, index, adding>>, pc' # "idle" => pc # "idle"
      PROVE  SetOK'
  <2>1. /\ Distinct(table, 0)' /\ Distinct(old, at)' /\ Distinct(iter, index)'
        /\ (ValuesFrom(table, 0) \cap ValuesFrom(old, at) = {})'
    BY <1>3 DEF SetOK, Distinct, ValuesFrom, Occupied, Cells
  <2>2. Members' = Members
    BY <1>3 DEF Members, ValuesFrom, Occupied, Cells
  <2>3. QED
    BY <1>1, <1>3, <2>1, <2>2 DEF SetOK
<1>4. ASSUME NEW k \in Key, AddKey(k) PROVE SetOK'
  <2>1. pc = "idle" /\ adding' = k /\ iter' = iter /\ index' = index
    BY <1>4 DEF AddKey
  <2>2. Value[k] \notin Members
    BY <1>1, <1>4, <2>1, HoldsIsMember DEF AddKey
  <2>3. Members' = Members
    <3>1. ~ Insert
      BY <2>1 DEF Insert
    <3>2. QED
      BY <1>1, <3>1, MembersStep
  <2>4. CASE pc' = "rehash"
    <3>1. table' = Fresh(NewSize) /\ old' = table /\ at' = 0 /\ NewSize \in Nat
      BY <1>2, <1>4, <2>4 DEF AddKey, NewSize
    <3>2. Distinct(table', 0) /\ ValuesFrom(table', 0) = {}
      BY <3>1, FreshDistinct, FreshValues
    <3>3. Distinct(old', at')
      BY <3>1 DEF SetOK
    <3>4. QED
      BY <1>1, <2>1, <2>2, <2>3, <3>2, <3>3 DEF SetOK
  <2>5. CASE pc' # "rehash"
    <3>1. UNCHANGED <<table, old, at>>
      BY <1>4, <2>5 DEF AddKey
    <3>2. QED
      BY <1>1, <2>1, <2>2, <2>3, <3>1 DEF SetOK
  <2>6. QED
    BY <2>4, <2>5
<1>5. ASSUME Rehash PROVE SetOK'
  <2>1. /\ pc = "rehash" /\ at < old.size /\ at' = at + 1
        /\ UNCHANGED <<pc, old, adding, iter, index>>
    BY <1>5 DEF Rehash
  <2>2. at \in Cells(old)
    BY <1>2, <2>1 DEF Table, Cells
  <2>3. Members' = Members
    <3>1. ~ Insert
      BY <2>1 DEF Insert
    <3>2. QED
      BY <1>1, <3>1, MembersStep
  <2>4. Distinct(old', at')
    BY <1>2, <2>1, LaterDistinct DEF SetOK
  <2>5. CASE table' = table /\ old.cell[at] = Empty
    <3>1. ValuesFrom(old, at) = ValuesFrom(old, at + 1) \cup {}
      BY <1>2, <2>2, <2>5, NextCellValues
    <3>2. QED
      BY <1>1, <2>1, <2>3, <2>4, <2>5, <3>1 DEF SetOK
  <2>6. CASE old.cell[at] # Empty
    <3>1. old.cell[at] \in Key /\ at \in Occupied(old)
      BY <1>2, <2>2, <2>6 DEF Table, Occupied
    <3>2. Put(old.cell[at])
      BY <1>1, <1>5, <2>1, <2>6, RoomToRehash DEF Rehash
    <3>3. ValuesFrom(old, at) = ValuesFrom(old, at + 1) \cup {Value[old.cell[at]]}
      BY <1>2, <2>2, <2>6, NextCellValues
    <3>4. Value[old.cell[at]] \notin ValuesFrom(table, 0)
      BY <3>3 DEF SetOK
    <3>5. Distinct(table', 0)
      BY <1>1, <3>1, <3>2, <3>4, PutKeepsDistinct DEF SetOK
    <3>6. ValuesFrom(table', 0) = ValuesFrom(table, 0) \cup {Value[old.cell[at]]}
      BY <1>1, <3>1, <3>2, PutAddsValue
    <3>7. Value[old.cell[at]] \notin ValuesFrom(old, at + 1)
      BY <1>2, <3>1, NotLater DEF SetOK
    <3>8. ValuesFrom(table', 0) \cap ValuesFrom(old', at') = {}
      BY <2>1, <3>3, <3>6, <3>7 DEF SetOK
    <3>9. QED
      BY <1>1, <2>1, <2>3, <2>4, <3>5, <3>8 DEF SetOK
  <2>7. QED
    BY <1>5, <2>5, <2>6 DEF Rehash
<1>6. ASSUME Rehashed PROVE SetOK'
  <2>1. /\ pc = "rehash" /\ table' = table /\ old' = Fresh(0) /\ at' = 0
        /\ UNCHANGED <<adding, iter, index>>
    BY <1>6 DEF Rehashed
  <2>2. Members' = Members
    <3>1. ~ Insert
      BY <2>1 DEF Insert
    <3>2. QED
      BY <1>1, <3>1, MembersStep
  <2>3. Distinct(old', at') /\ ValuesFrom(old', at') = {}
    BY <2>1, FreshDistinct, FreshValues
  <2>4. QED
    BY <1>1, <2>1, <2>2, <2>3 DEF SetOK
<1>7. ASSUME Insert PROVE SetOK'
  <2>1. /\ pc = "insert" /\ pc' = "idle" /\ adding \in Key
        /\ UNCHANGED <<old, at, iter, index>>
    BY <1>1, <1>7 DEF Insert, FieldsOK, PhaseOK
  <2>2. Members = ValuesFrom(table, 0) /\ ValuesFrom(old, at) = {}
    BY <1>1, <2>1, SettledMembers, FreshValues DEF FieldsOK, PhaseOK
  <2>3. CASE Put(adding)
    <3>1. Distinct(table', 0)
      BY <1>1, <2>1, <2>2, <2>3, PutKeepsDistinct DEF SetOK
    <3>2. QED
      BY <1>1, <2>1, <2>2, <3>1 DEF SetOK
  <2>4. CASE table' = table
    BY <1>1, <2>1, <2>4 DEF SetOK
  <2>5. QED
    BY <1>7, <2>3, <2>4 DEF Insert, NoRoom
<1>8. ASSUME Iterator PROVE SetOK'
  <2>1. iter' = table /\ index' = 0 /\ UNCHANGED <<table, pc, old, at, adding>>
    BY <1>8 DEF Iterator
  <2>2. Members' = Members
    BY <2>1 DEF Members
  <2>3. QED
    BY <1>1, <2>1, <2>2 DEF SetOK
<1>9. ASSUME NEW i \in Cells(iter), IteratorNext(i) PROVE SetOK'
  <2>1. /\ index <= i /\ i \in Nat /\ index' = i + 1
        /\ UNCHANGED <<table, pc, old, at, adding, iter>>
    BY <1>9 DEF IteratorNext, Cells
  <2>2. Distinct(iter', index')
    BY <1>2, <2>1, LaterDistinct DEF SetOK
  <2>3. Members' = Members
    BY <2>1 DEF Members
  <2>4. QED
    BY <1>1, <2>1, <2>2, <2>3 DEF SetOK
<1>10. CASE UNCHANGED vars
  BY <1>3, <1>10 DEF vars
<1>11. ASSUME NEW k \in Key, HasKey(k) \/ AddKnown(k) PROVE SetOK'
  BY <1>3, <1>11 DEF HasKey, AddKnown
<1>12. QED
  BY <1>4, <1>5, <1>6, <1>7, <1>8, <1>9, <1>10, <1>11 DEF Next

(***************************************************************************)
(* The steps of KeySet are steps of the registry: only the last step of    *)
(* add_key changes what is in the set, however the table grew meanwhile.   *)
(***************************************************************************)
LEMMA InitRefines == Init => Registry!Init
<1>1. SUFFICES ASSUME Init PROVE Registry!Init
  OBVIOUS
<1>2. Members = {} /\ ValuesFrom(iter, index) = {}
  BY <1>1, FreshValues, SizeAssumption DEF Init, Members
<1>3. QED
  BY <1>1, <1>2 DEF Init, Registry!Init, NoCall, Registry!NoCall

(* Booleans that imply each other are equal. *)
LEMMA SameTruth ==
  ASSUME NEW P \in BOOLEAN, NEW x, NEW S, P <=> x \in S
  PROVE  P = (x \in S)
BY SMT

LEMMA StepRefines ==
  ASSUME Hashable, ~ LookupMayFail, SetOK, [Next]_vars
  PROVE  [Registry!Next]_(Registry!vars)
<1>1. FieldsOK
  BY DEF SetOK
<1>2. Table(iter) /\ index \in Nat
  BY <1>1 DEF FieldsOK, TypeOK, Table
<1>3. ASSUME NEW k \in Key, HasKey(k) \/ AddKnown(k)
      PROVE  \E v \in {Value[l] : l \in Key} : Registry!HasKey(v) \/ Registry!AddKey(v)
  <2>1. Holds(table, k) <=> Value[k] \in Members
    BY <1>1, <1>3, HoldsIsMember DEF HasKey, AddKnown
  <2>2. Members' = Members /\ ValuesFrom(iter, index)' = ValuesFrom(iter, index)
    BY <1>3 DEF HasKey, AddKnown, Members
  <2>3. CASE HasKey(k)
    <3>1. result' = Answered("has_key", k, Value[k] \in Members)
      <4>1. result' = Answered("has_key", k, Holds(table, k))
        BY <2>3, Zenon DEF HasKey
      <4>2. Holds(table, k) \in BOOLEAN
        BY DEF Holds
      <4>3. Holds(table, k) = (Value[k] \in Members)
        BY <2>1, <4>2, SameTruth, Zenon
      <4>4. QED
        BY <4>1, <4>3, Zenon
    <3>2. Registry!HasKey(Value[k])
      BY <2>2, <3>1 DEF Registry!HasKey, Registry!Answered, Answered
    <3>3. QED
      BY <3>2
  <2>4. CASE AddKnown(k)
    BY <2>2, <2>4 DEF AddKnown, Registry!AddKey, Registry!Answered, Answered
  <2>5. QED
    BY <1>3, <2>3, <2>4
<1>4. ASSUME NEW k \in Key, AddKey(k) PROVE UNCHANGED Registry!vars
  <2>1. ~ Insert
    BY <1>4 DEF AddKey, Insert
  <2>2. QED
    BY <1>1, <1>4, <2>1, MembersStep DEF AddKey, Registry!vars
<1>5. ASSUME Rehash \/ Rehashed PROVE UNCHANGED Registry!vars
  <2>1. ~ Insert
    BY <1>5 DEF Rehash, Rehashed, Insert
  <2>2. QED
    BY <1>1, <1>5, <2>1, MembersStep DEF Rehash, Rehashed, Registry!vars
<1>6. ASSUME Insert PROVE \E v \in {Value[l] : l \in Key} : Registry!AddKey(v)
  <2>1. adding \in Key /\ Value[adding] \notin Members
    BY <1>1, <1>6 DEF Insert, SetOK, FieldsOK, PhaseOK
  <2>2. ValuesFrom(iter, index)' = ValuesFrom(iter, index)
    BY <1>6 DEF Insert
  <2>3. CASE Put(adding) /\ result' = Answered("add_key", adding, TRUE)
    <3>1. Members' = Members \cup {Value[adding]}
      BY <1>1, <1>6, <2>3, MembersStep
    <3>2. Registry!AddKey(Value[adding])
      BY <2>1, <2>2, <2>3, <3>1 DEF Registry!AddKey, Registry!Answered, Answered
    <3>3. QED
      BY <2>1, <3>2
  <2>4. CASE table' = table /\ result' = Answered("add_key", adding, FALSE)
    <3>1. Members' = Members
      BY <1>6, <2>4 DEF Insert, Members
    <3>2. Registry!AddKey(Value[adding])
      BY <2>2, <2>4, <3>1 DEF Registry!AddKey, Registry!Answered, Answered
    <3>3. QED
      BY <2>1, <3>2
  <2>5. QED
    BY <1>6, <2>3, <2>4 DEF Insert, NoRoom
<1>7. ASSUME Iterator PROVE Registry!List
  <2>1. Members' = Members /\ result' = result
    BY <1>7 DEF Iterator, Members
  <2>2. ValuesFrom(iter', index') = Members
    BY <1>1, <1>7, SettledMembers DEF Iterator
  <2>3. QED
    BY <2>1, <2>2 DEF Registry!List
<1>8. ASSUME NEW i \in Cells(iter), IteratorNext(i)
      PROVE  \E v \in {Value[l] : l \in Key} : Registry!Show(v)
  <2>1. /\ i \in Occupied(iter) /\ index <= i /\ index' = i + 1 /\ iter' = iter
        /\ result' = result /\ i \in Nat
        /\ \A j \in index .. i - 1 : iter.cell[j] = Empty
    BY <1>8 DEF IteratorNext, Cells
  <2>2. iter.cell[i] \in Key /\ iter.cell[i] # Empty
    BY <1>2, <1>8, <2>1 DEF Table, Occupied
  <2>3. ValuesFrom(iter, i) = ValuesFrom(iter, i + 1) \cup {Value[iter.cell[i]]}
    BY <1>2, <1>8, <2>2, NextCellValues
  <2>4. ValuesFrom(iter, index) = ValuesFrom(iter, i)
    <3>1. \A j \in Occupied(iter) : j >= index <=> j >= i
      BY <1>2, <2>1 DEF Occupied, Cells, Table
    <3>2. QED
      BY <3>1 DEF ValuesFrom
  <2>5. Value[iter.cell[i]] \notin ValuesFrom(iter, i + 1)
    BY <1>2, <2>1, NotLater DEF SetOK
  <2>6. Members' = Members
    BY <1>8 DEF IteratorNext, Members
  <2>7. Registry!Show(Value[iter.cell[i]])
    BY <2>1, <2>3, <2>4, <2>5, <2>6 DEF Registry!Show
  <2>8. QED
    BY <2>2, <2>7
<1>9. CASE UNCHANGED vars
  BY <1>9 DEF vars, Members, Registry!vars
<1>10. QED
  BY <1>3, <1>4, <1>5, <1>6, <1>7, <1>8, <1>9 DEF Next, Registry!Next

(* Key_Set is a set, with equal hashes for equal keys and memory to look   *)
(* them up.  Without the one, 0 and -0 are both stored; without the other, *)
(* a key that could not be looked for is stored again.                     *)
THEOREM RefinesRegistry ==
  ASSUME Hashable, ~ LookupMayFail
  PROVE  Spec => ImplementsRegistry
<1>1. SetOK /\ [Next]_vars => SetOK'
  BY SetStep
<1>2. SetOK /\ [Next]_vars => [Registry!Next]_(Registry!vars)
  BY StepRefines
<1>3. QED
  BY SetInit, InitRefines, <1>1, <1>2, PTL DEF Spec, ImplementsRegistry, Registry!Spec

=============================================================================
