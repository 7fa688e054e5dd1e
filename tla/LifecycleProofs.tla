-------------------------- MODULE LifecycleProofs --------------------------
(***************************************************************************)
(* Proofs about Lifecycle, for any number of references, of keys up to     *)
(* those that have names, and of refused allocations, wherever they are.   *)
(*                                                                         *)
(* What is left of a call is sound if every way it can go on is: the       *)
(* invariant is that todo is, in the state it has come to.  That it is,    *)
(* for each constructor, destructor and token, is shown rule by rule, from *)
(* the last operation to the first.                                        *)
(***************************************************************************)
EXTENDS Lifecycle, FiniteSetTheorems, SequenceTheorems, TLAPS

-----------------------------------------------------------------------------
(* Sequences, of whatever they are.                                        *)

IsSeq(s) == \E S : s \in Seq(S)

LEMMA EmptyIsSeq == IsSeq(<<>>)
<1>1. <<>> \in Seq({})
  OBVIOUS
<1>2. QED
  BY <1>1 DEF IsSeq

LEMMA ConcatIsSeq ==
  ASSUME NEW p, IsSeq(p), NEW q, IsSeq(q)
  PROVE  IsSeq(p \o q)
<1>1. PICK S : p \in Seq(S)
  BY DEF IsSeq
<1>2. PICK T : q \in Seq(T)
  BY DEF IsSeq
<1>3. p \in Seq(S \cup T) /\ q \in Seq(S \cup T)
  BY <1>1, <1>2
<1>4. p \o q \in Seq(S \cup T)
  BY <1>3, ConcatProperties
<1>5. QED
  BY <1>4 DEF IsSeq

LEMMA TupleIsSeq ==
  ASSUME NEW a
  PROVE  IsSeq(<<a>>)
<1>1. <<a>> \in Seq({a})
  OBVIOUS
<1>2. QED
  BY <1>1 DEF IsSeq

(* An operation before others. *)
LEMMA ConsParts ==
  ASSUME NEW a, NEW q, IsSeq(q)
  PROVE  /\ IsSeq(<<a>> \o q)
         /\ <<a>> \o q # <<>>
         /\ Head(<<a>> \o q) = a
         /\ Tail(<<a>> \o q) = q
<1>1. PICK T : q \in Seq(T)
  BY DEF IsSeq
<1> DEFINE S == T \cup {a}
<1>2. q \in Seq(S) /\ <<a>> \in Seq(S) /\ Len(<<a>>) = 1 /\ <<a>>[1] = a
  BY <1>1
<1>3. Len(q) \in Nat
  BY <1>2, LenProperties
<1>4. /\ <<a>> \o q \in Seq(S)
      /\ Len(<<a>> \o q) = 1 + Len(q)
      /\ \A i \in 1 .. 1 + Len(q) : (<<a>> \o q)[i] = IF i <= 1 THEN <<a>>[i] ELSE q[i - 1]
  BY <1>2, ConcatProperties
<1> DEFINE p == <<a>> \o q
<1> HIDE DEF p, S
<1>5. p \in Seq(S) /\ Len(p) = 1 + Len(q) /\ p[1] = a
      /\ \A i \in 1 .. Len(q) : p[i + 1] = q[i]
  BY <1>2, <1>3, <1>4 DEF p
<1>6. p # <<>> /\ Head(p) = a
  BY <1>3, <1>5
<1>7. /\ Tail(p) \in Seq(S) /\ Len(Tail(p)) = Len(q)
      /\ \A i \in 1 .. Len(q) : Tail(p)[i] = q[i]
  BY <1>3, <1>5, <1>6, HeadTailProperties
<1>8. Tail(p) = q
  BY <1>2, <1>7, SeqEqual
<1>9. QED
  BY <1>5, <1>6, <1>8 DEF IsSeq, p

LEMMA ConcatAssoc ==
  ASSUME NEW p, IsSeq(p), NEW q, IsSeq(q), NEW r, IsSeq(r)
  PROVE  (p \o q) \o r = p \o (q \o r)
<1>1. PICK S : p \in Seq(S)
  BY DEF IsSeq
<1>2. PICK T : q \in Seq(T)
  BY DEF IsSeq
<1>3. PICK U : r \in Seq(U)
  BY DEF IsSeq
<1> DEFINE W == S \cup T \cup U
<1>4. p \in Seq(W) /\ q \in Seq(W) /\ r \in Seq(W)
  BY <1>1, <1>2, <1>3
<1> HIDE DEF W
<1>5. QED
  BY <1>4, ConcatAssociative

LEMMA ConcatNothing ==
  ASSUME NEW p, IsSeq(p)
  PROVE  p \o <<>> = p /\ <<>> \o p = p
BY ConcatEmptySeq DEF IsSeq

(* Tuples, one operation at a time. *)
LEMMA PairOf ==
  ASSUME NEW a, NEW b
  PROVE  <<a, b>> = <<a>> \o <<b>>
<1> DEFINE S == {a, b}
           p == <<a>> \o <<b>>
<1>1. <<a>> \in Seq(S) /\ <<b>> \in Seq(S) /\ <<a, b>> \in Seq(S)
  OBVIOUS
<1>2. /\ Len(<<a>>) = 1 /\ Len(<<b>>) = 1 /\ Len(<<a, b>>) = 2
      /\ <<a>>[1] = a /\ <<b>>[1] = b /\ <<a, b>>[1] = a /\ <<a, b>>[2] = b
  OBVIOUS
<1>3. /\ p \in Seq(S) /\ Len(p) = Len(<<a>>) + Len(<<b>>)
      /\ \A i \in 1 .. Len(<<a>>) + Len(<<b>>) :
           p[i] = IF i <= Len(<<a>>) THEN <<a>>[i] ELSE <<b>>[i - Len(<<a>>)]
  BY <1>1, ConcatProperties
<1> HIDE DEF S, p
<1>4. /\ p \in Seq(S) /\ Len(p) = 2 /\ p[1] = a /\ p[2] = b
  BY <1>2, <1>3
<1>5. \A i \in 1 .. Len(p) : p[i] = <<a, b>>[i]
  <2> SUFFICES ASSUME NEW i \in 1 .. 2 PROVE p[i] = <<a, b>>[i]
    BY <1>4
  <2>1. i = 1 \/ i = 2
    OBVIOUS
  <2>2. QED
    BY <1>2, <1>4, <2>1
<1>6. p = <<a, b>>
  BY <1>1, <1>2, <1>4, <1>5, SeqEqual
<1>7. QED
  BY <1>6 DEF p

LEMMA TripleOf ==
  ASSUME NEW a, NEW b, NEW c
  PROVE  <<a, b, c>> = <<a, b>> \o <<c>>
<1> DEFINE S == {a, b, c}
           p == <<a, b>> \o <<c>>
<1>1. <<a, b>> \in Seq(S) /\ <<c>> \in Seq(S) /\ <<a, b, c>> \in Seq(S)
  OBVIOUS
<1>2. /\ Len(<<a, b>>) = 2 /\ Len(<<c>>) = 1 /\ Len(<<a, b, c>>) = 3
      /\ <<a, b>>[1] = a /\ <<a, b>>[2] = b /\ <<c>>[1] = c
      /\ <<a, b, c>>[1] = a /\ <<a, b, c>>[2] = b /\ <<a, b, c>>[3] = c
  OBVIOUS
<1>3. /\ p \in Seq(S) /\ Len(p) = Len(<<a, b>>) + Len(<<c>>)
      /\ \A i \in 1 .. Len(<<a, b>>) + Len(<<c>>) :
           p[i] = IF i <= Len(<<a, b>>) THEN <<a, b>>[i] ELSE <<c>>[i - Len(<<a, b>>)]
  BY <1>1, ConcatProperties
<1> HIDE DEF S, p
<1>4. /\ p \in Seq(S) /\ Len(p) = 3 /\ p[1] = a /\ p[2] = b /\ p[3] = c
  BY <1>2, <1>3
<1>5. \A i \in 1 .. Len(p) : p[i] = <<a, b, c>>[i]
  <2> SUFFICES ASSUME NEW i \in 1 .. 3 PROVE p[i] = <<a, b, c>>[i]
    BY <1>4
  <2>1. i = 1 \/ i = 2 \/ i = 3
    OBVIOUS
  <2>2. QED
    BY <1>2, <1>4, <2>1
<1>6. p = <<a, b, c>>
  BY <1>1, <1>2, <1>4, <1>5, SeqEqual
<1>7. QED
  BY <1>6 DEF p

LEMMA QuadrupleOf ==
  ASSUME NEW a, NEW b, NEW c, NEW d
  PROVE  <<a, b, c, d>> = <<a, b, c>> \o <<d>>
<1> DEFINE S == {a, b, c, d}
           p == <<a, b, c>> \o <<d>>
<1>1. <<a, b, c>> \in Seq(S) /\ <<d>> \in Seq(S) /\ <<a, b, c, d>> \in Seq(S)
  OBVIOUS
<1>2. /\ Len(<<a, b, c>>) = 3 /\ Len(<<d>>) = 1 /\ Len(<<a, b, c, d>>) = 4
      /\ <<a, b, c>>[1] = a /\ <<a, b, c>>[2] = b /\ <<a, b, c>>[3] = c /\ <<d>>[1] = d
      /\ <<a, b, c, d>>[1] = a /\ <<a, b, c, d>>[2] = b
      /\ <<a, b, c, d>>[3] = c /\ <<a, b, c, d>>[4] = d
  OBVIOUS
<1>3. /\ p \in Seq(S) /\ Len(p) = Len(<<a, b, c>>) + Len(<<d>>)
      /\ \A i \in 1 .. Len(<<a, b, c>>) + Len(<<d>>) :
           p[i] = IF i <= Len(<<a, b, c>>) THEN <<a, b, c>>[i]
                  ELSE <<d>>[i - Len(<<a, b, c>>)]
  BY <1>1, ConcatProperties
<1> HIDE DEF S, p
<1>4. /\ p \in Seq(S) /\ Len(p) = 4 /\ p[1] = a /\ p[2] = b /\ p[3] = c /\ p[4] = d
  BY <1>2, <1>3
<1>5. \A i \in 1 .. Len(p) : p[i] = <<a, b, c, d>>[i]
  <2> SUFFICES ASSUME NEW i \in 1 .. 4 PROVE p[i] = <<a, b, c, d>>[i]
    BY <1>4
  <2>1. i = 1 \/ i = 2 \/ i = 3 \/ i = 4
    OBVIOUS
  <2>2. QED
    BY <1>2, <1>4, <2>1
<1>6. p = <<a, b, c, d>>
  BY <1>1, <1>2, <1>4, <1>5, SeqEqual
<1>7. QED
  BY <1>6 DEF p

LEMMA TwoOf ==
  ASSUME NEW a, NEW b, NEW q, IsSeq(q)
  PROVE  <<a, b>> \o q = <<a>> \o (<<b>> \o q)
<1>1. <<a, b>> = <<a>> \o <<b>> /\ IsSeq(<<a>>) /\ IsSeq(<<b>>)
  BY PairOf, TupleIsSeq
<1>2. QED
  BY <1>1, ConcatAssoc

LEMMA ThreeOf ==
  ASSUME NEW a, NEW b, NEW c, NEW q, IsSeq(q)
  PROVE  <<a, b, c>> \o q = <<a>> \o (<<b>> \o (<<c>> \o q))
<1>1. <<a, b, c>> = <<a, b>> \o <<c>>
  BY TripleOf
<1>2. IsSeq(<<c>>) /\ IsSeq(<<a, b>>)
  <2>1. IsSeq(<<c>>) /\ IsSeq(<<a>>) /\ IsSeq(<<b>>)
    BY TupleIsSeq
  <2>2. IsSeq(<<a>> \o <<b>>)
    BY <2>1, ConcatIsSeq
  <2>3. QED
    BY <2>1, <2>2, PairOf
<1> DEFINE r == <<c>> \o q
<1>3. IsSeq(r)
  BY <1>2, ConcatIsSeq
<1>4. <<a, b, c>> \o q = <<a, b>> \o r
  BY <1>1, <1>2, ConcatAssoc
<1> HIDE DEF r
<1>5. <<a, b>> \o r = <<a>> \o (<<b>> \o r)
  BY <1>3, TwoOf
<1>6. QED
  BY <1>4, <1>5 DEF r

LEMMA FourOf ==
  ASSUME NEW a, NEW b, NEW c, NEW d, NEW q, IsSeq(q)
  PROVE  <<a, b, c, d>> \o q = <<a>> \o (<<b>> \o (<<c>> \o (<<d>> \o q)))
<1>1. <<a, b, c, d>> = <<a, b, c>> \o <<d>>
  BY QuadrupleOf
<1>2. IsSeq(<<d>>) /\ IsSeq(<<a, b, c>>)
  <2>1. IsSeq(<<d>>) /\ IsSeq(<<c>>) /\ IsSeq(<<a>>) /\ IsSeq(<<b>>)
    BY TupleIsSeq
  <2>2. IsSeq(<<a>> \o <<b>>)
    BY <2>1, ConcatIsSeq
  <2>3. IsSeq(<<a, b>>)
    BY <2>2, PairOf
  <2>4. IsSeq(<<a, b>> \o <<c>>)
    BY <2>1, <2>3, ConcatIsSeq
  <2>5. QED
    BY <2>1, <2>4, TripleOf
<1> DEFINE r == <<d>> \o q
<1>3. IsSeq(r)
  BY <1>2, ConcatIsSeq
<1>4. <<a, b, c, d>> \o q = <<a, b, c>> \o r
  BY <1>1, <1>2, ConcatAssoc
<1> DEFINE u == <<c>> \o r
<1>5. IsSeq(<<a, b>>) /\ IsSeq(<<c>>) /\ IsSeq(u)
  <2>1. IsSeq(<<c>>) /\ IsSeq(<<a>>) /\ IsSeq(<<b>>)
    BY TupleIsSeq
  <2>2. IsSeq(<<a>> \o <<b>>)
    BY <2>1, ConcatIsSeq
  <2> HIDE DEF r
  <2>3. QED
    BY <1>3, <2>1, <2>2, PairOf, ConcatIsSeq
<1> HIDE DEF r
<1>6. <<a, b, c>> \o r = <<a, b>> \o u
  BY <1>3, <1>5, TripleOf, ConcatAssoc
<1> HIDE DEF u
<1>7. <<a, b>> \o u = <<a>> \o (<<b>> \o u)
  BY <1>5, TwoOf
<1>8. QED
  BY <1>4, <1>6, <1>7 DEF r, u

-----------------------------------------------------------------------------
(* The pointers there are.                                                 *)

Pointers ==
  ({"parser"} \X {"self", "text", "newtext", "value", "string"})
    \cup ({"buffer"} \X {"self", "buffer"})
    \cup ({"lexer"} \X {"self", "token_buffer"})
    \cup ({"emitter"} \X {"self"})
    \cup ({"set"} \X {"self", "array", "larger", "newkey", "copy"})
    \cup ({"iterator"} \X {"self", "keys"})
    \cup {<<o, Str[k]>> : o \in {"set", "iterator"}, k \in 1 .. MaxKeys}

Self(o) == <<o, "self">>
Of(o)   == {q \in Pointers : q[1] = o}
Text    == <<"parser", "text">>
Value   == <<"parser", "value">>

(* The allocator a block should be from. *)
Whose(q) == IF q \in {Text, <<"parser", "newtext">>} THEN "malloc" ELSE "pool"

(* What is set only while a call is under way. *)
Transient == {<<"parser", "newtext">>, Value, <<"set", "newkey">>, <<"set", "copy">>}

(* The calls whose refusal nobody notices. *)
Unchecked == {"part", "array", "text"}

(* How often something is in a sequence. *)
Tally(s, c) == Cardinality({i \in DOMAIN s : s[i] = c})

(* What the refusals there were mean to the calls to come: a pointer may   *)
(* be NULL that nobody checks, and so often a set was not made larger.     *)
Troubles       == [unseen : BOOLEAN, tight : Nat]
Trouble(calls) == [unseen |-> \E call \in Unchecked : Tally(calls, call) > 0,
                   tight  |-> Tally(calls, "larger")]
Worse(t, call) == [unseen |-> IF call \in Unchecked THEN TRUE ELSE t.unseen,
                   tight  |-> IF call = "larger" THEN t.tight + 1 ELSE t.tight]
Harder(t, u)   == (t.unseen => u.unseen) /\ t.tight <= u.tight

LEMMA WorseType ==
  ASSUME NEW t \in Troubles, NEW call
  PROVE  Worse(t, call) \in Troubles
<1>1. t.unseen \in BOOLEAN /\ t.tight \in Nat
  BY DEF Troubles
<1>2. (IF call \in Unchecked THEN TRUE ELSE t.unseen) \in BOOLEAN
  <2>1. CASE call \in Unchecked
    BY <2>1
  <2>2. CASE call \notin Unchecked
    BY <1>1, <2>2
  <2>3. QED
    BY <2>1, <2>2
<1>3. (IF call = "larger" THEN t.tight + 1 ELSE t.tight) \in Nat
  BY <1>1
<1>4. QED
  BY <1>2, <1>3, Zenon DEF Troubles, Worse

LEMMA NoWorse ==
  ASSUME NEW t \in Troubles, NEW call, call \notin Unchecked, call # "larger"
  PROVE  Worse(t, call) = t
BY DEF Troubles, Worse

LEMMA KeyNames ==
  /\ \A k \in 1 .. MaxKeys :
       Str[k] \notin {"self", "text", "newtext", "value", "string", "buffer",
                     "token_buffer", "array", "larger", "newkey", "copy", "keys"}
  /\ \A k, n \in 1 .. MaxKeys : Str[k] = Str[n] => k = n
<1>1. 1 .. MaxKeys \subseteq {1, 2, 3, 4, 5, 6}
  <2>1. MaxKeys \in 0 .. 6
    BY KeysAssumption DEF Str
  <2>2. QED
    BY <2>1
<1>2. /\ Str[1] = "key 1" /\ Str[2] = "key 2" /\ Str[3] = "key 3"
      /\ Str[4] = "key 4" /\ Str[5] = "key 5" /\ Str[6] = "key 6"
  BY DEF Str
<1>3. \A k \in {1, 2, 3, 4, 5, 6} :
       Str[k] \notin {"self", "text", "newtext", "value", "string", "buffer",
                     "token_buffer", "array", "larger", "newkey", "copy", "keys"}
  BY <1>2
<1>4. \A k, n \in {1, 2, 3, 4, 5, 6} : Str[k] = Str[n] => k = n
  BY <1>2
<1>5. QED
  BY <1>1, <1>3, <1>4

(* A pointer is the object's and has the name of a field. *)
LEMMA PointerParts ==
  /\ \A q \in Pointers : q = <<q[1], q[2]>> /\ q[1] \in Objects
  /\ \A o \in Objects : Self(o) \in Pointers
BY DEF Pointers, Objects, Self

-----------------------------------------------------------------------------
(* What of a state matters to what is left of a call: which pointers are   *)
(* set, how many references there are and how many there ought to be, and  *)
(* what trouble the refused allocations have made.                         *)

Seen(custom1, has, refs1, due, trouble) ==
  [custom |-> custom1, has |-> has, refs |-> refs1, due |-> due, trouble |-> trouble]

View == Seen(custom, DOMAIN blocks, refs,
             mine + Cardinality(Living) + Times("keys"),
             Trouble(refused))

LivingIn(has) == {o \in Objects : Self(o) \in has}
HoldsPool(K)  == K.custom => K.refs > 0

(* What an operation makes of it. *)
Granted(K, q) ==
  Seen(K.custom, K.has \cup {q}, K.refs,
       IF q[2] = "self" THEN K.due + 1 ELSE K.due, K.trouble)
Denied(K, call) ==
  Seen(K.custom, K.has, K.refs,
       IF call = "keys" THEN K.due + 1 ELSE K.due, Worse(K.trouble, call))
Freed(K, q) ==
  IF q[2] = "self" THEN Seen(K.custom, K.has \ Of(q[1]), K.refs, K.due - 1, K.trouble)
                   ELSE Seen(K.custom, K.has \ {q}, K.refs, K.due, K.trouble)
Moved(K, q, into) ==
  Seen(K.custom, (K.has \ {q}) \cup {into}, K.refs, K.due, K.trouble)
Counted(K, by) ==
  Seen(K.custom, K.has, IF K.custom THEN K.refs + by ELSE K.refs, K.due, K.trouble)

(* At every step: a part is set only of an object there is, the pool has   *)
(* not gone while anything is due to it.                                   *)
Fine(K) ==
  /\ K.custom \in BOOLEAN /\ K.trouble \in Troubles
  /\ K.has \subseteq Pointers
  /\ \A q \in K.has : Self(q[1]) \in K.has
  /\ K.refs \in Nat /\ K.due \in Nat
  /\ K.due >= Cardinality(LivingIn(K.has))
  /\ K.custom /\ K.refs = 0 => K.due = 0

(* The first n keys are there, and an array for them: in one that is not   *)
(* larger there is no room for more than five, the fourth and the fifth of *)
(* which were stored because the array could not be had larger.            *)
ArrayOf(has) == IF <<"set", "larger">> \in has THEN "larger" ELSE "array"
InOrder(has, n, t) ==
  /\ {k \in 1 .. MaxKeys : <<"set", Str[k]>> \in has} = 1 .. n
  /\ <<"set", "larger">> \notin has => n <= 5 /\ n - 3 <= t.tight

(* When a call returns: nothing is half done, the keys of a set are the    *)
(* first ones, and an object that is not whole is due to a refusal.        *)
Whole(has, t) ==
  /\ has \cap Transient = {}
  /\ \E n \in 0 .. MaxKeys : InOrder(has, n, t)
  /\ ~(<<"set", "array">> \in has /\ <<"set", "larger">> \in has)
  /\ Self("parser") \notin has => Self("buffer") \notin has /\ Self("lexer") \notin has
  /\ ~t.unseen =>
       /\ Self("parser") \in has => Self("buffer") \in has /\ Self("lexer") \in has
       /\ Self("set") \in has => <<"set", ArrayOf(has)>> \in has

Rest(K) == (K.custom => K.refs = K.due) /\ Whole(K.has, K.trouble)

(***************************************************************************)
(* A set G of programs, each with what is seen when it begins, is closed   *)
(* if the first operation of each may be done, goes wrong only as it is    *)
(* known to, and leads to a program and a view in G again.                 *)
(***************************************************************************)
Place(op) == <<op.obj, op.part>>

AllocIsSound(G, op, q, K) ==
  /\ op.by = "pool" => HoldsPool(K)
  /\ Place(op) \in Pointers /\ Place(op) \notin K.has
  /\ op.by = Whose(Place(op)) \/ (Place(op) = Value /\ op.by = "malloc")
  /\ op.part # "self" => Self(op.obj) \in K.has
  /\ <<q, Granted(K, Place(op))>> \in G
  /\ <<op.otherwise, Denied(K, op.call)>> \in G

ReallocIsSound(G, op, q, K) ==
  /\ HoldsPool(K)
  /\ Place(op) = <<"parser", "string">> /\ op.call = "copy"
  /\ Self("parser") \in K.has
  /\ <<q, Granted(K, Place(op))>> \in G
  /\ <<q, Freed(K, Place(op))>> \in G

FreeIsSound(G, op, q, K) ==
  /\ op.by = "pool" => HoldsPool(K)
  /\ Place(op) \in Pointers
  /\ op.by = Whose(Place(op))
  /\ op.part = "self" => /\ Place(op) \in K.has
                         /\ (Of(op.obj) \cap K.has) \ {Place(op)} \subseteq {Text}
  /\ <<q, Freed(K, Place(op))>> \in G

MoveIsSound(G, op, q, K) ==
  /\ Place(op) \in K.has /\ op.part # "self" /\ op.into # "self"
  /\ <<op.obj, op.into>> \in Pointers /\ <<op.obj, op.into>> \notin K.has
  /\ Whose(Place(op)) = Whose(<<op.obj, op.into>>)
  /\ <<q, Moved(K, Place(op), <<op.obj, op.into>>)>> \in G

(* What is left behind is known to be: the key for which there is no place. *)
LeaveIsSound(G, op, q, K) ==
  /\ Place(op) = <<"set", "newkey">> /\ Place(op) \in K.has
  /\ K.trouble.tight > 2
  /\ <<q, Freed(K, Place(op))>> \in G

FollowIsSound(G, op, q, K) ==
  IF Place(op) \in K.has THEN <<q, K>> \in G ELSE K.trouble.unseen

CountIsSound(G, q, K, by) == HoldsPool(K) /\ <<q, Counted(K, by)>> \in G

OpIsSound(G, op, q, K) ==
  \/ op.do = "alloc" /\ AllocIsSound(G, op, q, K)
  \/ op.do = "realloc" /\ ReallocIsSound(G, op, q, K)
  \/ op.do = "free" /\ FreeIsSound(G, op, q, K)
  \/ op.do = "move" /\ MoveIsSound(G, op, q, K)
  \/ op.do = "leave" /\ LeaveIsSound(G, op, q, K)
  \/ op.do = "follow" /\ FollowIsSound(G, op, q, K)
  \/ op.do = "acquire" /\ CountIsSound(G, q, K, 1)
  \/ op.do = "release" /\ CountIsSound(G, q, K, -1)

Closed(G) ==
  \A p, K : <<p, K>> \in G =>
    /\ IsSeq(p) /\ Fine(K)
    /\ IF p = <<>> THEN Rest(K) ELSE OpIsSound(G, Head(p), Tail(p), K)

Sound(p, K) == \E G : Closed(G) /\ <<p, K>> \in G

LEMMA OpGrows ==
  ASSUME NEW G, NEW H, G \subseteq H, NEW op, NEW q, NEW K, OpIsSound(G, op, q, K)
  PROVE  OpIsSound(H, op, q, K)
BY DEF OpIsSound, AllocIsSound, ReallocIsSound, FreeIsSound, MoveIsSound,
       LeaveIsSound, FollowIsSound, CountIsSound

LEMMA UnionIsClosed ==
  ASSUME NEW G, Closed(G), NEW H, Closed(H)
  PROVE  Closed(G \cup H)
<1> SUFFICES ASSUME NEW p, NEW K, <<p, K>> \in G \cup H
             PROVE  /\ IsSeq(p) /\ Fine(K)
                    /\ IF p = <<>> THEN Rest(K)
                       ELSE OpIsSound(G \cup H, Head(p), Tail(p), K)
  BY DEF Closed
<1>1. CASE <<p, K>> \in G
  <2>1. /\ IsSeq(p) /\ Fine(K)
        /\ IF p = <<>> THEN Rest(K) ELSE OpIsSound(G, Head(p), Tail(p), K)
    BY <1>1 DEF Closed
  <2>2. QED
    BY <2>1, OpGrows
<1>2. CASE <<p, K>> \in H
  <2>1. /\ IsSeq(p) /\ Fine(K)
        /\ IF p = <<>> THEN Rest(K) ELSE OpIsSound(H, Head(p), Tail(p), K)
    BY <1>2 DEF Closed
  <2>2. QED
    BY <2>1, OpGrows
<1>3. QED
  BY <1>1, <1>2

(* An operation before a program that is sound. *)
LEMMA SoundCons ==
  ASSUME NEW op, NEW q, IsSeq(q), NEW K, Fine(K),
         NEW G, Closed(G), OpIsSound(G, op, q, K)
  PROVE  Sound(<<op>> \o q, K)
<1> DEFINE p == <<op>> \o q
           H == G \cup {<<p, K>>}
<1>1. IsSeq(p) /\ p # <<>> /\ Head(p) = op /\ Tail(p) = q
  BY ConsParts
<1> HIDE DEF p
<1>2. ASSUME NEW r, NEW L, <<r, L>> \in H
      PROVE  /\ IsSeq(r) /\ Fine(L)
             /\ IF r = <<>> THEN Rest(L) ELSE OpIsSound(H, Head(r), Tail(r), L)
  <2>1. CASE <<r, L>> \in G
    <3>1. /\ IsSeq(r) /\ Fine(L)
          /\ IF r = <<>> THEN Rest(L) ELSE OpIsSound(G, Head(r), Tail(r), L)
      BY <2>1 DEF Closed
    <3>2. QED
      BY <3>1, OpGrows
  <2>2. CASE <<r, L>> = <<p, K>>
    <3>1. r = p /\ L = K
      BY <2>2
    <3>2. OpIsSound(H, op, q, K)
      BY OpGrows
    <3>3. QED
      BY <1>1, <3>1, <3>2
  <2>3. QED
    BY <1>2, <2>1, <2>2
<1>3. Closed(H)
  BY <1>2 DEF Closed
<1>4. <<p, K>> \in H
  OBVIOUS
<1> HIDE DEF H
<1>5. QED
  BY <1>3, <1>4 DEF Sound, p

LEMMA SoundNil ==
  ASSUME NEW K, Fine(K), Rest(K)
  PROVE  Sound(<<>>, K)
<1> DEFINE G == {<<(<<>>), K>>}
<1>1. Closed(G)
  BY EmptyIsSeq DEF Closed
<1>2. QED
  BY <1>1 DEF Sound

-----------------------------------------------------------------------------
(* The objects there are.                                                  *)

LEMMA ObjectsFinite ==
  ASSUME NEW S \in SUBSET Objects
  PROVE  IsFiniteSet(S) /\ Cardinality(S) \in Nat
<1>1. IsFiniteSet(Objects)
  <2>1. IsFiniteSet({"parser"})
    BY FS_Singleton
  <2>2. IsFiniteSet({"parser"} \cup {"buffer"})
    BY <2>1, FS_AddElement
  <2>3. IsFiniteSet({"parser", "buffer"} \cup {"lexer"})
    BY <2>2, FS_AddElement
  <2>4. IsFiniteSet({"parser", "buffer", "lexer"} \cup {"emitter"})
    BY <2>3, FS_AddElement
  <2>5. IsFiniteSet({"parser", "buffer", "lexer", "emitter"} \cup {"set"})
    BY <2>4, FS_AddElement
  <2>6. IsFiniteSet({"parser", "buffer", "lexer", "emitter", "set"} \cup {"iterator"})
    BY <2>5, FS_AddElement
  <2>7. Objects = {"parser", "buffer", "lexer", "emitter", "set"} \cup {"iterator"}
    BY DEF Objects
  <2>8. QED
    BY <2>6, <2>7
<1>2. IsFiniteSet(S)
  BY <1>1, FS_Subset
<1>3. QED
  BY <1>2, FS_CardinalityType

LEMMA LivingFinite ==
  ASSUME NEW has
  PROVE  IsFiniteSet(LivingIn(has)) /\ Cardinality(LivingIn(has)) \in Nat
BY ObjectsFinite DEF LivingIn

(* One more, or one less. *)
LEMMA LivingBorn ==
  ASSUME NEW has, NEW o \in Objects, Self(o) \notin has
  PROVE  Cardinality(LivingIn(has \cup {Self(o)})) = Cardinality(LivingIn(has)) + 1
<1>1. LivingIn(has \cup {Self(o)}) = LivingIn(has) \cup {o} /\ o \notin LivingIn(has)
  BY DEF LivingIn, Self
<1>2. QED
  BY <1>1, LivingFinite, FS_AddElement

LEMMA LivingGone ==
  ASSUME NEW has, has \subseteq Pointers, NEW o \in Objects, Self(o) \in has
  PROVE  Cardinality(LivingIn(has \ Of(o))) = Cardinality(LivingIn(has)) - 1
<1>1. \A x \in Objects : Self(x) \in Of(o) <=> x = o
  BY PointerParts DEF Self, Of
<1>2. LivingIn(has \ Of(o)) = LivingIn(has) \ {o} /\ o \in LivingIn(has)
  BY <1>1 DEF LivingIn
<1>3. QED
  BY <1>2, LivingFinite, FS_RemoveElement

LEMMA LivingSame ==
  ASSUME NEW has, NEW others, \A o \in Objects : Self(o) \in has <=> Self(o) \in others
  PROVE  LivingIn(has) = LivingIn(others)
BY DEF LivingIn

(* An object there is counts. *)
LEMMA AliveIsDue ==
  ASSUME NEW K, Fine(K), NEW o \in Objects, Self(o) \in K.has
  PROVE  K.due >= 1
<1>1. {o} \in SUBSET LivingIn(K.has)
  BY DEF LivingIn
<1>2. Cardinality({o}) = 1 /\ Cardinality({o}) <= Cardinality(LivingIn(K.has))
  BY <1>1, LivingFinite, FS_Subset, FS_Singleton
<1>3. QED
  BY <1>2, LivingFinite DEF Fine

-----------------------------------------------------------------------------
(* What the operations leave is fine again.                                *)

LEMMA BornIsFine ==
  ASSUME NEW K, Fine(K), HoldsPool(K), NEW o \in Objects, Self(o) \notin K.has
  PROVE  Fine(Granted(K, Self(o)))
<1> DEFINE L == Granted(K, Self(o))
<1>1. /\ L.custom = K.custom /\ L.trouble = K.trouble /\ L.refs = K.refs
      /\ L.has = K.has \cup {Self(o)} /\ L.due = K.due + 1
  BY DEF Granted, Seen, Self
<1> HIDE DEF L
<1>2. Cardinality(LivingIn(L.has)) = Cardinality(LivingIn(K.has)) + 1
  BY <1>1, LivingBorn
<1>3. L.has \subseteq Pointers /\ \A q \in L.has : Self(q[1]) \in L.has
  BY <1>1, PointerParts DEF Fine, Self
<1>4. L.due \in Nat /\ L.due >= Cardinality(LivingIn(L.has))
  BY <1>1, <1>2, LivingFinite DEF Fine
<1>5. L.custom /\ L.refs = 0 => L.due = 0
  BY <1>1 DEF Fine, HoldsPool
<1>6. Fine(L)
  BY <1>1, <1>3, <1>4, <1>5 DEF Fine
<1>7. QED
  BY <1>6 DEF L

LEMMA GoneIsFine ==
  ASSUME NEW K, Fine(K), HoldsPool(K), NEW o \in Objects, Self(o) \in K.has
  PROVE  Fine(Freed(K, Self(o)))
<1> DEFINE L == Freed(K, Self(o))
<1>1. /\ L.custom = K.custom /\ L.trouble = K.trouble /\ L.refs = K.refs
      /\ L.has = K.has \ Of(o) /\ L.due = K.due - 1
  BY DEF Freed, Seen, Self
<1> HIDE DEF L
<1>2. Cardinality(LivingIn(L.has)) = Cardinality(LivingIn(K.has)) - 1
  BY <1>1, LivingGone DEF Fine
<1>3. L.has \subseteq Pointers
  BY <1>1 DEF Fine
<1>4. \A q \in L.has : Self(q[1]) \in L.has
  BY <1>1, PointerParts DEF Fine, Self, Of
<1>5. L.due \in Nat /\ L.due >= Cardinality(LivingIn(L.has))
  BY <1>1, <1>2, AliveIsDue, LivingFinite DEF Fine
<1>6. L.custom /\ L.refs = 0 => L.due = 0
  BY <1>1 DEF Fine, HoldsPool
<1>7. Fine(L)
  BY <1>1, <1>3, <1>4, <1>5, <1>6 DEF Fine
<1>8. QED
  BY <1>7 DEF L

(* With the same objects there is as much due. *)
LEMMA PartIsFine ==
  ASSUME NEW K, Fine(K), NEW has, has \subseteq Pointers,
         \A q \in has : Self(q[1]) \in has,
         \A o \in Objects : Self(o) \in has <=> Self(o) \in K.has
  PROVE  Fine(Seen(K.custom, has, K.refs, K.due, K.trouble))
<1> DEFINE L == Seen(K.custom, has, K.refs, K.due, K.trouble)
<1>1. /\ L.custom = K.custom /\ L.trouble = K.trouble /\ L.refs = K.refs
      /\ L.has = has /\ L.due = K.due
  BY DEF Seen
<1> HIDE DEF L
<1>2. LivingIn(L.has) = LivingIn(K.has)
  BY <1>1, LivingSame
<1>3. Fine(L)
  BY <1>1, <1>2 DEF Fine
<1>4. QED
  BY <1>3 DEF L

LEMMA DeniedIsFine ==
  ASSUME NEW K, Fine(K), NEW call, call # "keys"
  PROVE  Fine(Denied(K, call))
<1> DEFINE L == Denied(K, call)
<1>1. /\ L.custom = K.custom /\ L.refs = K.refs /\ L.has = K.has /\ L.due = K.due
      /\ L.trouble = Worse(K.trouble, call)
  BY DEF Denied, Seen
<1>2. L.trouble \in Troubles
  BY <1>1, WorseType DEF Fine
<1> HIDE DEF L
<1>3. Fine(L)
  BY <1>1, <1>2 DEF Fine
<1>4. QED
  BY <1>3 DEF L

-----------------------------------------------------------------------------
(* Rules.  A program is safe with some pointers set if it is sound in      *)
(* every view with these pointers in which the references are as many as   *)
(* are due, as they are but between an object and the reference it takes.  *)

Balanced(K) == Fine(K) /\ (K.custom => K.refs = K.due)

Safe(q, has, t) ==
  /\ IsSeq(q)
  /\ \A K : Balanced(K) /\ K.has = has /\ K.trouble = t => Sound(q, K)

LEMMA BalancedHolds ==
  ASSUME NEW K, Balanced(K), NEW o \in Objects, Self(o) \in K.has
  PROVE  HoldsPool(K)
<1>1. K.due >= 1 /\ K.due \in Nat
  BY AliveIsDue DEF Balanced, Fine
<1>2. QED
  BY <1>1 DEF Balanced, HoldsPool

LEMMA BalancedPart ==
  ASSUME NEW K, Balanced(K), NEW has, has \subseteq Pointers,
         \A q \in has : Self(q[1]) \in has,
         \A o \in Objects : Self(o) \in has <=> Self(o) \in K.has
  PROVE  Balanced(Seen(K.custom, has, K.refs, K.due, K.trouble))
<1>1. Fine(Seen(K.custom, has, K.refs, K.due, K.trouble))
  BY PartIsFine DEF Balanced
<1>2. QED
  BY <1>1 DEF Balanced, Seen

LEMMA SafeNil ==
  ASSUME NEW has, NEW t, Whole(has, t)
  PROVE  Safe(<<>>, has, t)
BY SoundNil, EmptyIsSeq DEF Safe, Balanced, Rest

(* A part of an object there is. *)
LEMMA SafeAlloc ==
  ASSUME NEW o \in Objects, NEW part, part # "self", NEW by, NEW call, call # "keys",
         NEW r, NEW q, NEW has, NEW t \in Troubles,
         <<o, part>> \in Pointers, <<o, part>> \notin has, Self(o) \in has,
         by = Whose(<<o, part>>) \/ (<<o, part>> = Value /\ by = "malloc"),
         Safe(q, has \cup {<<o, part>>}, t),
         Safe(r, has, Worse(t, call))
  PROVE  Safe(<<Alloc(o, part, by, call, r)>> \o q, has, t)
<1> DEFINE op == Alloc(o, part, by, call, r)
<1>1. IsSeq(q) /\ IsSeq(<<op>> \o q)
  BY ConsParts DEF Safe
<1>2. ASSUME NEW K, Balanced(K), K.has = has, K.trouble = t
      PROVE  Sound(<<op>> \o q, K)
  <2> DEFINE K1 == Granted(K, <<o, part>>)
             K2 == Denied(K, call)
  <2>1. K1 = Seen(K.custom, has \cup {<<o, part>>}, K.refs, K.due, K.trouble)
    BY <1>2 DEF Granted
  <2>2. Balanced(K1)
    <3>1. /\ has \cup {<<o, part>>} \subseteq Pointers
          /\ \A p \in has \cup {<<o, part>>} : Self(p[1]) \in has \cup {<<o, part>>}
          /\ \A x \in Objects : Self(x) \in has \cup {<<o, part>>} <=> Self(x) \in K.has
      BY <1>2 DEF Balanced, Fine, Self
    <3>2. QED
      BY <1>2, <2>1, <3>1, BalancedPart
  <2>3. K1.has = has \cup {<<o, part>>} /\ K1.trouble = t
    BY <1>2, <2>1 DEF Seen
  <2>4. /\ Fine(K2) /\ K2.has = has /\ K2.trouble = Worse(t, call)
        /\ K2.custom = K.custom /\ K2.refs = K.refs /\ K2.due = K.due
    BY <1>2, DeniedIsFine DEF Denied, Seen, Balanced
  <2>5. Balanced(K2)
    BY <1>2, <2>4 DEF Balanced
  <2> HIDE DEF K1, K2
  <2>6. PICK G1 : Closed(G1) /\ <<q, K1>> \in G1
    BY <2>2, <2>3 DEF Safe, Sound
  <2>7. PICK G2 : Closed(G2) /\ <<r, K2>> \in G2
    BY <2>4, <2>5 DEF Safe, Sound
  <2> DEFINE G == G1 \cup G2
  <2>8. Closed(G) /\ <<q, K1>> \in G /\ <<r, K2>> \in G
    BY <2>6, <2>7, UnionIsClosed
  <2> HIDE DEF G
  <2>9. HoldsPool(K)
    BY <1>2, BalancedHolds
  <2>10. OpIsSound(G, op, q, K)
    BY <1>2, <2>8, <2>9
    DEF OpIsSound, AllocIsSound, Place, Alloc, K1, K2
  <2>11. QED
    BY <1>1, <1>2, <2>8, <2>10, SoundCons DEF Balanced
<1>3. QED
  BY <1>1, <1>2 DEF Safe

LEMMA SafeFree ==
  ASSUME NEW o \in Objects, NEW part, part # "self", NEW by,
         NEW q, NEW has, NEW t,
         <<o, part>> \in Pointers, Self(o) \in has, by = Whose(<<o, part>>),
         Safe(q, has \ {<<o, part>>}, t)
  PROVE  Safe(<<Free(o, part, by)>> \o q, has, t)
<1> DEFINE op == Free(o, part, by)
<1>1. IsSeq(q) /\ IsSeq(<<op>> \o q)
  BY ConsParts DEF Safe
<1>2. ASSUME NEW K, Balanced(K), K.has = has, K.trouble = t
      PROVE  Sound(<<op>> \o q, K)
  <2> DEFINE K1 == Freed(K, <<o, part>>)
  <2>1. K1 = Seen(K.custom, has \ {<<o, part>>}, K.refs, K.due, K.trouble)
    BY <1>2 DEF Freed
  <2>2. Balanced(K1)
    <3>1. /\ has \ {<<o, part>>} \subseteq Pointers
          /\ \A p \in has \ {<<o, part>>} : Self(p[1]) \in has \ {<<o, part>>}
          /\ \A x \in Objects : Self(x) \in has \ {<<o, part>>} <=> Self(x) \in K.has
      BY <1>2 DEF Balanced, Fine, Self
    <3>2. QED
      BY <1>2, <2>1, <3>1, BalancedPart
  <2>3. K1.has = has \ {<<o, part>>} /\ K1.trouble = t
    BY <1>2, <2>1 DEF Seen
  <2> HIDE DEF K1
  <2>4. PICK G : Closed(G) /\ <<q, K1>> \in G
    BY <2>2, <2>3 DEF Safe, Sound
  <2>5. HoldsPool(K)
    BY <1>2, BalancedHolds
  <2>6. OpIsSound(G, op, q, K)
    BY <1>2, <2>4, <2>5 DEF OpIsSound, FreeIsSound, Place, Free, K1
  <2>7. QED
    BY <1>1, <1>2, <2>4, <2>6, SoundCons DEF Balanced
<1>3. QED
  BY <1>1, <1>2 DEF Safe

LEMMA SafeMove ==
  ASSUME NEW o \in Objects, NEW part, part # "self", NEW into, into # "self",
         NEW q, NEW has, NEW t,
         <<o, part>> \in has, <<o, into>> \in Pointers, <<o, into>> \notin has,
         Whose(<<o, part>>) = Whose(<<o, into>>),
         Safe(q, (has \ {<<o, part>>}) \cup {<<o, into>>}, t)
  PROVE  Safe(<<Move(o, part, into)>> \o q, has, t)
<1> DEFINE op == Move(o, part, into)
           after == (has \ {<<o, part>>}) \cup {<<o, into>>}
<1>1. IsSeq(q) /\ IsSeq(<<op>> \o q)
  BY ConsParts DEF Safe
<1>2. ASSUME NEW K, Balanced(K), K.has = has, K.trouble = t
      PROVE  Sound(<<op>> \o q, K)
  <2> DEFINE K1 == Moved(K, <<o, part>>, <<o, into>>)
  <2>1. K1 = Seen(K.custom, after, K.refs, K.due, K.trouble)
    BY <1>2 DEF Moved
  <2>2. Balanced(K1)
    <3>1. /\ after \subseteq Pointers
          /\ \A p \in after : Self(p[1]) \in after
          /\ \A x \in Objects : Self(x) \in after <=> Self(x) \in K.has
      BY <1>2 DEF Balanced, Fine, Self
    <3> HIDE DEF after
    <3>2. QED
      BY <1>2, <2>1, <3>1, BalancedPart
  <2>3. K1.has = after /\ K1.trouble = t
    BY <1>2, <2>1 DEF Seen
  <2> HIDE DEF K1
  <2>4. PICK G : Closed(G) /\ <<q, K1>> \in G
    BY <2>2, <2>3 DEF Safe, Sound
  <2>5. OpIsSound(G, op, q, K)
    BY <1>2, <2>4 DEF OpIsSound, MoveIsSound, Place, Move, K1
  <2>6. QED
    BY <1>1, <1>2, <2>4, <2>5, SoundCons DEF Balanced
<1>3. QED
  BY <1>1, <1>2 DEF Safe

(* A pointer that may not be set: then an allocation was refused. *)
LEMMA SafeFollow ==
  ASSUME NEW o, NEW part, NEW q, IsSeq(q), NEW has, NEW t,
         IF <<o, part>> \in has THEN Safe(q, has, t) ELSE t.unseen
  PROVE  Safe(<<Follow(o, part)>> \o q, has, t)
<1> DEFINE op == Follow(o, part)
<1>1. IsSeq(<<op>> \o q)
  BY ConsParts
<1>2. ASSUME NEW K, Balanced(K), K.has = has, K.trouble = t
      PROVE  Sound(<<op>> \o q, K)
  <2>1. CASE <<o, part>> \in has
    <3>1. PICK G : Closed(G) /\ <<q, K>> \in G
      BY <1>2, <2>1 DEF Safe, Sound
    <3>2. OpIsSound(G, op, q, K)
      BY <1>2, <2>1, <3>1 DEF OpIsSound, FollowIsSound, Place, Follow
    <3>3. QED
      BY <1>2, <3>1, <3>2, SoundCons DEF Balanced
  <2>2. CASE <<o, part>> \notin has
    <3>1. Closed({})
      BY DEF Closed
    <3>2. t.unseen
      BY <2>2
    <3>3. OpIsSound({}, op, q, K)
      BY <1>2, <2>2, <3>2 DEF OpIsSound, FollowIsSound, Place, Follow
    <3>4. QED
      BY <1>2, <3>1, <3>3, SoundCons DEF Balanced
  <2>3. QED
    BY <2>1, <2>2
<1>3. QED
  BY <1>1, <1>2 DEF Safe

(* set_string_copy *)
LEMMA SafeRealloc ==
  ASSUME NEW q, NEW has, NEW t, Self("parser") \in has,
         Safe(q, has \cup {<<"parser", "string">>}, t),
         Safe(q, has \ {<<"parser", "string">>}, t)
  PROVE  Safe(<<Realloc("parser", "string", "copy")>> \o q, has, t)
<1> DEFINE op == Realloc("parser", "string", "copy")
           ptr == <<"parser", "string">>
<1>1. IsSeq(q) /\ IsSeq(<<op>> \o q)
  BY ConsParts DEF Safe
<1>2. ASSUME NEW K, Balanced(K), K.has = has, K.trouble = t
      PROVE  Sound(<<op>> \o q, K)
  <2> DEFINE K1 == Granted(K, ptr)
             K2 == Freed(K, ptr)
  <2>1. /\ K1 = Seen(K.custom, has \cup {ptr}, K.refs, K.due, K.trouble)
        /\ K2 = Seen(K.custom, has \ {ptr}, K.refs, K.due, K.trouble)
    BY <1>2 DEF Granted, Freed
  <2>2. Balanced(K1) /\ Balanced(K2)
    <3>1. ASSUME NEW after, after = has \cup {ptr} \/ after = has \ {ptr}
          PROVE  Balanced(Seen(K.custom, after, K.refs, K.due, K.trouble))
      <4>1. ptr \in Pointers
        BY DEF Pointers
      <4>2. /\ after \subseteq Pointers
            /\ \A p \in after : Self(p[1]) \in after
            /\ \A x \in Objects : Self(x) \in after <=> Self(x) \in K.has
        BY <1>2, <3>1, <4>1 DEF Balanced, Fine, Self
      <4>3. QED
        BY <1>2, <4>2, BalancedPart
    <3>2. QED
      BY <2>1, <3>1
  <2>3. /\ K1.has = has \cup {ptr} /\ K1.trouble = t
        /\ K2.has = has \ {ptr} /\ K2.trouble = t
    BY <1>2, <2>1 DEF Seen
  <2> HIDE DEF K1, K2
  <2>4. PICK G1 : Closed(G1) /\ <<q, K1>> \in G1
    BY <2>2, <2>3 DEF Safe, Sound
  <2>5. PICK G2 : Closed(G2) /\ <<q, K2>> \in G2
    BY <2>2, <2>3 DEF Safe, Sound
  <2> DEFINE G == G1 \cup G2
  <2>6. Closed(G) /\ <<q, K1>> \in G /\ <<q, K2>> \in G
    BY <2>4, <2>5, UnionIsClosed
  <2> HIDE DEF G
  <2>7. HoldsPool(K)
    BY <1>2, BalancedHolds DEF Objects
  <2>8. OpIsSound(G, op, q, K)
    BY <1>2, <2>6, <2>7
    DEF OpIsSound, ReallocIsSound, Place, Realloc, K1, K2
  <2>9. QED
    BY <1>1, <1>2, <2>6, <2>8, SoundCons DEF Balanced
<1>3. QED
  BY <1>1, <1>2 DEF Safe

LEMMA CountedIsFine ==
  ASSUME NEW K, Fine(K), NEW by \in Int,
         K.custom => /\ K.refs + by \in Nat
                     /\ K.refs + by = 0 => K.due = 0
  PROVE  Fine(Counted(K, by))
<1> DEFINE L == Counted(K, by)
<1>1. /\ L.custom = K.custom /\ L.trouble = K.trouble /\ L.has = K.has /\ L.due = K.due
      /\ L.refs = IF K.custom THEN K.refs + by ELSE K.refs
  BY DEF Counted, Seen
<1> HIDE DEF L
<1>2. L.refs \in Nat /\ (L.custom /\ L.refs = 0 => L.due = 0)
  BY <1>1 DEF Fine
<1>3. Fine(L)
  BY <1>1, <1>2 DEF Fine
<1>4. QED
  BY <1>3 DEF L

(* An object and the reference it takes. *)
LEMMA SoundBorn ==
  ASSUME NEW o \in Objects, NEW call, call # "keys", NEW r, NEW q,
         NEW K, Balanced(K), HoldsPool(K), Self(o) \notin K.has,
         Safe(q, K.has \cup {Self(o)}, K.trouble),
         Safe(r, K.has, Worse(K.trouble, call))
  PROVE  Sound(<<Alloc(o, "self", "pool", call, r)>> \o (<<Acquire>> \o q), K)
<1> DEFINE op == Alloc(o, "self", "pool", call, r)
           K1 == Granted(K, Self(o))
           K2 == Counted(K1, 1)
           K3 == Denied(K, call)
<1>1. IsSeq(q) /\ IsSeq(<<Acquire>> \o q)
  BY ConsParts DEF Safe
<1>2. /\ Fine(K1) /\ HoldsPool(K1)
      /\ K1.custom = K.custom /\ K1.trouble = K.trouble /\ K1.refs = K.refs
      /\ K1.has = K.has \cup {Self(o)} /\ K1.due = K.due + 1
  BY BornIsFine DEF Granted, Seen, Self, Balanced, HoldsPool
<1> HIDE DEF K1
<1>3. /\ K2.custom = K1.custom /\ K2.trouble = K1.trouble /\ K2.has = K1.has
      /\ K2.due = K1.due /\ K2.refs = IF K1.custom THEN K1.refs + 1 ELSE K1.refs
  BY DEF Counted, Seen
<1>4. Fine(K2)
  <2>1. K1.refs + 1 \in Nat /\ K1.refs + 1 # 0
    BY <1>2 DEF Fine
  <2>2. QED
    BY <1>2, <2>1, CountedIsFine
<1>5. Balanced(K2)
  BY <1>2, <1>3, <1>4 DEF Balanced
<1>6. /\ Fine(K3) /\ K3.has = K.has /\ K3.trouble = Worse(K.trouble, call)
      /\ K3.custom = K.custom /\ K3.refs = K.refs /\ K3.due = K.due
  BY DeniedIsFine DEF Denied, Seen, Balanced
<1>7. Balanced(K3)
  BY <1>6 DEF Balanced
<1> HIDE DEF K2, K3
<1>8. PICK G2 : Closed(G2) /\ <<q, K2>> \in G2
  BY <1>2, <1>3, <1>5 DEF Safe, Sound
<1>9. PICK G3 : Closed(G3) /\ <<r, K3>> \in G3
  BY <1>6, <1>7 DEF Safe, Sound
<1>10. OpIsSound(G2, Acquire, q, K1)
  BY <1>2, <1>8 DEF OpIsSound, CountIsSound, Acquire, K2
<1>11. PICK G1 : Closed(G1) /\ <<<<Acquire>> \o q, K1>> \in G1
  BY <1>1, <1>2, <1>8, <1>10, SoundCons DEF Sound
<1> DEFINE p == <<Acquire>> \o q
           G == G1 \cup G3
<1> HIDE DEF p
<1>12. Closed(G) /\ <<p, K1>> \in G /\ <<r, K3>> \in G /\ IsSeq(p)
  BY <1>1, <1>9, <1>11, UnionIsClosed DEF p
<1> HIDE DEF G
<1>13. OpIsSound(G, op, p, K)
  <2>1. Self(o) \in Pointers
    BY PointerParts
  <2>2. Whose(Self(o)) = "pool"
    BY DEF Whose, Self, Text
  <2>3. QED
    BY <1>12, <2>1, <2>2
    DEF OpIsSound, AllocIsSound, Place, Alloc, Self, K1, K3
<1>14. Sound(<<op>> \o p, K)
  BY <1>12, <1>13, SoundCons DEF Balanced
<1>15. QED
  BY <1>14 DEF p

LEMMA SafeBorn ==
  ASSUME NEW o \in Objects, NEW call, call # "keys", NEW r, NEW q,
         NEW has, NEW t, Self(o) \notin has,
         NEW owner \in Objects, Self(owner) \in has,
         Safe(q, has \cup {Self(o)}, t),
         Safe(r, has, Worse(t, call))
  PROVE  Safe(<<Alloc(o, "self", "pool", call, r)>> \o (<<Acquire>> \o q), has, t)
<1>1. IsSeq(<<Alloc(o, "self", "pool", call, r)>> \o (<<Acquire>> \o q))
  BY ConsParts DEF Safe
<1>2. ASSUME NEW K, Balanced(K), K.has = has, K.trouble = t
      PROVE  Sound(<<Alloc(o, "self", "pool", call, r)>> \o (<<Acquire>> \o q), K)
  <2>1. HoldsPool(K)
    BY <1>2, BalancedHolds
  <2>2. QED
    BY <1>2, <2>1, SoundBorn
<1>3. QED
  BY <1>1, <1>2 DEF Safe

(* An object, all parts of which have been freed but the text of the last  *)
(* token, and the reference it gives back.                                 *)
LEMMA SafeGone ==
  ASSUME NEW o \in Objects, NEW q, NEW has, NEW t, Self(o) \in has,
         (Of(o) \cap has) \ {Self(o)} \subseteq {Text},
         Safe(q, has \ Of(o), t)
  PROVE  Safe(<<Free(o, "self", "pool")>> \o (<<Release>> \o q), has, t)
<1> DEFINE op == Free(o, "self", "pool")
           p == <<Release>> \o q
<1>1. IsSeq(q) /\ IsSeq(p) /\ IsSeq(<<op>> \o p)
  BY ConsParts DEF Safe
<1> HIDE DEF p
<1>2. ASSUME NEW K, Balanced(K), K.has = has, K.trouble = t
      PROVE  Sound(<<op>> \o p, K)
  <2> DEFINE K1 == Freed(K, Self(o))
             K2 == Counted(K1, -1)
  <2>1. HoldsPool(K)
    BY <1>2, BalancedHolds
  <2>2. /\ Fine(K1) /\ HoldsPool(K1)
        /\ K1.custom = K.custom /\ K1.trouble = K.trouble /\ K1.refs = K.refs
        /\ K1.has = K.has \ Of(o) /\ K1.due = K.due - 1
    BY <1>2, <2>1, GoneIsFine DEF Freed, Seen, Self, Balanced, HoldsPool
  <2>3. K1.refs \in Nat /\ K1.due \in Nat /\ (K1.custom => K1.refs = K1.due + 1)
    BY <1>2, <2>2 DEF Balanced, Fine
  <2> HIDE DEF K1
  <2>4. /\ K2.custom = K1.custom /\ K2.trouble = K1.trouble /\ K2.has = K1.has
        /\ K2.due = K1.due /\ K2.refs = IF K1.custom THEN K1.refs + (-1) ELSE K1.refs
    BY DEF Counted, Seen
  <2>5. Fine(K2)
    BY <2>2, <2>3, CountedIsFine
  <2>6. Balanced(K2)
    BY <2>3, <2>4, <2>5 DEF Balanced
  <2> HIDE DEF K2
  <2>7. PICK G2 : Closed(G2) /\ <<q, K2>> \in G2
    BY <1>2, <2>2, <2>4, <2>6 DEF Safe, Sound
  <2>8. OpIsSound(G2, Release, q, K1)
    BY <2>2, <2>7 DEF OpIsSound, CountIsSound, Release, K2
  <2>9. PICK G1 : Closed(G1) /\ <<p, K1>> \in G1
    BY <1>1, <2>2, <2>7, <2>8, SoundCons DEF Sound, p
  <2>10. OpIsSound(G1, op, p, K)
    <3>1. Self(o) \in Pointers
      BY PointerParts
    <3>2. Whose(Self(o)) = "pool"
      BY DEF Whose, Self, Text
    <3>3. QED
      BY <1>2, <2>1, <2>9, <3>1, <3>2
      DEF OpIsSound, FreeIsSound, Place, Free, Self, K1
  <2>11. QED
    BY <1>1, <1>2, <2>9, <2>10, SoundCons DEF Balanced
<1>3. QED
  BY <1>1, <1>2 DEF Safe, p

-----------------------------------------------------------------------------
(* Loops over keys, one key longer at a time: there are at most six.       *)

Keys(o, n) == {<<o, Str[k]>> : k \in 1 .. n}

LEMMA OneMore ==
  ASSUME NEW n \in Nat, NEW f, f = [k \in 1 .. n + 1 |-> f[k]]
  PROVE  /\ f = [k \in 1 .. n |-> f[k]] \o <<f[n + 1]>>
         /\ IsSeq([k \in 1 .. n |-> f[k]])
<1> DEFINE S == {f[k] : k \in 1 .. n + 1}
           g == [k \in 1 .. n |-> f[k]]
           h == <<f[n + 1]>>
<1>1. f \in Seq(S) /\ g \in Seq(S) /\ h \in Seq(S)
  <2>1. f \in [1 .. n + 1 -> S]
    OBVIOUS
  <2>2. g \in [1 .. n -> S]
    OBVIOUS
  <2>3. n + 1 \in 1 .. n + 1
    OBVIOUS
  <2>4. f[n + 1] \in S
    BY <2>3
  <2> HIDE DEF S
  <2>5. QED
    BY <2>1, <2>2, <2>4
<1>2. Len(f) = n + 1 /\ Len(g) = n
  <2>1. DOMAIN f = 1 .. n + 1 /\ DOMAIN g = 1 .. n
    OBVIOUS
  <2> HIDE DEF g, S
  <2>2. QED
    BY <1>1, <2>1, LenProperties
<1>3. Len(h) = 1 /\ h[1] = f[n + 1] /\ \A k \in 1 .. n : g[k] = f[k]
  OBVIOUS
<1> HIDE DEF S, g, h
<1>4. /\ g \o h \in Seq(S) /\ Len(g \o h) = Len(g) + Len(h)
      /\ \A i \in 1 .. Len(g) + Len(h) :
           (g \o h)[i] = IF i <= Len(g) THEN g[i] ELSE h[i - Len(g)]
  BY <1>1, ConcatProperties
<1>5. Len(g \o h) = Len(f) /\ \A i \in 1 .. Len(f) : f[i] = (g \o h)[i]
  <2>1. Len(g \o h) = n + 1 /\ Len(g) + Len(h) = n + 1
    BY <1>2, <1>3, <1>4
  <2>2. ASSUME NEW i \in 1 .. n + 1 PROVE f[i] = (g \o h)[i]
    <3>1. (g \o h)[i] = IF i <= n THEN g[i] ELSE h[i - n]
      BY <1>2, <1>4, <2>1
    <3>2. CASE i <= n
      <4>1. i \in 1 .. n
        BY <3>2
      <4>2. QED
        BY <1>3, <3>1, <3>2, <4>1
    <3>3. CASE ~(i <= n)
      <4>1. i = n + 1 /\ i - n = 1
        BY <3>3
      <4>2. QED
        BY <1>3, <3>1, <3>3, <4>1
    <3>4. QED
      BY <3>2, <3>3
  <2>3. QED
    BY <1>2, <2>1, <2>2
<1>6. f = g \o h
  BY <1>1, <1>4, <1>5, SeqEqual
<1>7. IsSeq(g)
  BY <1>1 DEF IsSeq
<1>8. QED
  BY <1>6, <1>7 DEF g, h

LEMMA KeysArePointers ==
  ASSUME NEW o \in {"set", "iterator"}, NEW n \in 0 .. MaxKeys
  PROVE  /\ o \in Objects
         /\ Keys(o, n) \subseteq Pointers
         /\ Self(o) \notin Keys(o, n)
         /\ n + 1 <= MaxKeys =>
              /\ Keys(o, n + 1) = Keys(o, n) \cup {<<o, Str[n + 1]>>}
              /\ <<o, Str[n + 1]>> \in Pointers
              /\ <<o, Str[n + 1]>> \notin Keys(o, n)
              /\ Str[n + 1] # "self"
              /\ Whose(<<o, Str[n + 1]>>) = "pool"
<1>1. o \in Objects
  BY DEF Objects
<1>2. MaxKeys \in Nat
  BY KeysAssumption DEF Str
<1>3. Keys(o, n) \subseteq Pointers
  BY <1>2 DEF Keys, Pointers
<1>4. Self(o) \notin Keys(o, n)
  BY <1>2, KeyNames DEF Keys, Self
<1>5. ASSUME n + 1 <= MaxKeys
      PROVE  /\ Keys(o, n + 1) = Keys(o, n) \cup {<<o, Str[n + 1]>>}
             /\ <<o, Str[n + 1]>> \in Pointers
             /\ <<o, Str[n + 1]>> \notin Keys(o, n)
             /\ Str[n + 1] # "self"
             /\ Whose(<<o, Str[n + 1]>>) = "pool"
  <2>1. n + 1 \in 1 .. MaxKeys
    BY <1>2, <1>5
  <2>2. <<o, Str[n + 1]>> \in Pointers
    BY <2>1 DEF Pointers
  <2>3. <<o, Str[n + 1]>> \notin Keys(o, n)
    BY <1>2, <2>1, KeyNames DEF Keys
  <2>4. Str[n + 1] \notin {"self", "text", "newtext"}
    BY <2>1, KeyNames
  <2>5. Keys(o, n + 1) = Keys(o, n) \cup {<<o, Str[n + 1]>>}
    <3>1. 1 .. n + 1 = (1 .. n) \cup {n + 1}
      BY <1>2
    <3>2. QED
      BY <3>1 DEF Keys
  <2>6. QED
    BY <2>2, <2>3, <2>4, <2>5 DEF Whose, Text
<1>6. QED
  BY <1>1, <1>3, <1>4, <1>5

(* Freeing the first n keys. *)
KeysFreed(n) ==
  \A o \in {"set", "iterator"} : \A q, has, t :
    Self(o) \in has /\ Safe(q, has \ Keys(o, n), t) => Safe(FreeKeys(o, n) \o q, has, t)

LEMMA NoKeysFreed == KeysFreed(0)
<1> SUFFICES ASSUME NEW o \in {"set", "iterator"}, NEW q, NEW has, NEW t,
                    Safe(q, has \ Keys(o, 0), t)
             PROVE  Safe(FreeKeys(o, 0) \o q, has, t)
  BY DEF KeysFreed
<1>1. FreeKeys(o, 0) = <<>> /\ Keys(o, 0) = {}
  BY DEF FreeKeys, Keys
<1>2. has \ Keys(o, 0) = has
  BY <1>1
<1>3. FreeKeys(o, 0) \o q = q
  BY <1>1, ConcatNothing DEF Safe
<1>4. QED
  BY <1>2, <1>3

LEMMA MoreKeysFreed ==
  ASSUME NEW n \in 0 .. MaxKeys, n + 1 <= MaxKeys, KeysFreed(n)
  PROVE  KeysFreed(n + 1)
<1> SUFFICES ASSUME NEW o \in {"set", "iterator"}, NEW q, NEW has, NEW t,
                    Self(o) \in has, Safe(q, has \ Keys(o, n + 1), t)
             PROVE  Safe(FreeKeys(o, n + 1) \o q, has, t)
  BY DEF KeysFreed
<1> DEFINE last == Free(o, Str[n + 1], "pool")
           left == has \ Keys(o, n)
<1>1. /\ o \in Objects /\ Self(o) \in left
      /\ <<o, Str[n + 1]>> \in Pointers /\ Str[n + 1] # "self"
      /\ Whose(<<o, Str[n + 1]>>) = "pool"
      /\ left \ {<<o, Str[n + 1]>>} = has \ Keys(o, n + 1)
  BY KeysArePointers
<1> HIDE DEF left
<1>2. Safe(<<last>> \o q, left, t)
  BY <1>1, SafeFree
<1>3. Safe(FreeKeys(o, n) \o (<<last>> \o q), has, t)
  BY <1>2 DEF KeysFreed, left
<1>4. FreeKeys(o, n + 1) = FreeKeys(o, n) \o <<last>> /\ IsSeq(FreeKeys(o, n))
  <2> DEFINE f == FreeKeys(o, n + 1)
  <2>1. n \in Nat /\ n + 1 \in 1 .. n + 1
    BY KeysAssumption DEF Str
  <2>2. /\ f = [k \in 1 .. n + 1 |-> f[k]]
        /\ f[n + 1] = last
        /\ [k \in 1 .. n |-> f[k]] = FreeKeys(o, n)
    BY <2>1 DEF FreeKeys
  <2> HIDE DEF f, last
  <2>3. /\ f = [k \in 1 .. n |-> f[k]] \o <<f[n + 1]>>
        /\ IsSeq([k \in 1 .. n |-> f[k]])
    BY <2>1, <2>2, OneMore
  <2>4. QED
    BY <2>2, <2>3 DEF f
<1>5. FreeKeys(o, n + 1) \o q = FreeKeys(o, n) \o (<<last>> \o q)
  <2>1. IsSeq(<<last>>) /\ IsSeq(q)
    BY TupleIsSeq DEF Safe
  <2> HIDE DEF last
  <2>2. (FreeKeys(o, n) \o <<last>>) \o q = FreeKeys(o, n) \o (<<last>> \o q)
    BY <1>4, <2>1, ConcatAssoc
  <2>3. QED
    BY <1>4, <2>2
<1>6. QED
  BY <1>3, <1>5

LEMMA SafeFreeKeys ==
  ASSUME NEW o \in {"set", "iterator"}, NEW n \in 0 .. MaxKeys, NEW q, NEW has, NEW t,
         Self(o) \in has, Safe(q, has \ Keys(o, n), t)
  PROVE  Safe(FreeKeys(o, n) \o q, has, t)
<1>1. MaxKeys \in 0 .. 6
  BY KeysAssumption DEF Str
<1>2. KeysFreed(0)
  BY NoKeysFreed
<1>3. 1 <= MaxKeys => KeysFreed(1)
  <2>1. 0 \in 0 .. MaxKeys /\ 0 + 1 = 1
    BY <1>1
  <2>2. QED
    BY <1>2, <2>1, MoreKeysFreed
<1>4. 2 <= MaxKeys => KeysFreed(2)
  <2> SUFFICES ASSUME 2 <= MaxKeys PROVE KeysFreed(2)
    OBVIOUS
  <2>1. 1 \in 0 .. MaxKeys /\ 1 + 1 = 2 /\ 1 <= MaxKeys
    BY <1>1
  <2>2. QED
    BY <1>3, <2>1, MoreKeysFreed
<1>5. 3 <= MaxKeys => KeysFreed(3)
  <2> SUFFICES ASSUME 3 <= MaxKeys PROVE KeysFreed(3)
    OBVIOUS
  <2>1. 2 \in 0 .. MaxKeys /\ 2 + 1 = 3 /\ 2 <= MaxKeys
    BY <1>1
  <2>2. QED
    BY <1>4, <2>1, MoreKeysFreed
<1>6. 4 <= MaxKeys => KeysFreed(4)
  <2> SUFFICES ASSUME 4 <= MaxKeys PROVE KeysFreed(4)
    OBVIOUS
  <2>1. 3 \in 0 .. MaxKeys /\ 3 + 1 = 4 /\ 3 <= MaxKeys
    BY <1>1
  <2>2. QED
    BY <1>5, <2>1, MoreKeysFreed
<1>7. 5 <= MaxKeys => KeysFreed(5)
  <2> SUFFICES ASSUME 5 <= MaxKeys PROVE KeysFreed(5)
    OBVIOUS
  <2>1. 4 \in 0 .. MaxKeys /\ 4 + 1 = 5 /\ 4 <= MaxKeys
    BY <1>1
  <2>2. QED
    BY <1>6, <2>1, MoreKeysFreed
<1>8. 6 <= MaxKeys => KeysFreed(6)
  <2> SUFFICES ASSUME 6 <= MaxKeys PROVE KeysFreed(6)
    OBVIOUS
  <2>1. 5 \in 0 .. MaxKeys /\ 5 + 1 = 6 /\ 5 <= MaxKeys
    BY <1>1
  <2>2. QED
    BY <1>7, <2>1, MoreKeysFreed
<1>9. KeysFreed(n)
  <2>1. n \in {0, 1, 2, 3, 4, 5, 6} /\ n <= MaxKeys
    BY <1>1
  <2>2. QED
    BY <1>2, <1>3, <1>4, <1>5, <1>6, <1>7, <1>8, <2>1
<1>10. QED
  BY <1>9 DEF KeysFreed

-----------------------------------------------------------------------------
(* Destructors.                                                            *)

LEMMA TwoAlone ==
  ASSUME NEW a, NEW b
  PROVE  <<a, b>> = <<a>> \o (<<b>> \o <<>>)
<1>1. IsSeq(<<b>>)
  BY TupleIsSeq
<1>2. <<b>> \o <<>> = <<b>>
  BY <1>1, ConcatNothing
<1>3. QED
  BY <1>2, PairOf

LEMMA ThreeAlone ==
  ASSUME NEW a, NEW b, NEW c
  PROVE  <<a, b, c>> = <<a>> \o (<<b>> \o (<<c>> \o <<>>))
<1>1. IsSeq(<<a>>) /\ IsSeq(<<b>>) /\ IsSeq(<<c>>)
  BY TupleIsSeq
<1>2. IsSeq(<<a>> \o <<b>>)
  BY <1>1, ConcatIsSeq
<1>3. <<a, b, c>> = (<<a>> \o <<b>>) \o <<c>>
  <2>1. <<a, b, c>> = <<a, b>> \o <<c>>
    BY TripleOf
  <2>2. <<a, b>> = <<a>> \o <<b>>
    BY PairOf
  <2>3. QED
    BY <2>1, <2>2
<1>4. (<<a>> \o <<b>>) \o <<c>> = <<a>> \o (<<b>> \o <<c>>)
  BY <1>1, ConcatAssoc
<1>5. <<c>> \o <<>> = <<c>>
  BY <1>1, ConcatNothing
<1>6. QED
  BY <1>3, <1>4, <1>5

LEMMA TriplesAreSeq ==
  ASSUME NEW a, NEW b, NEW c
  PROVE  IsSeq(<<a, b, c>>)
<1>1. <<a, b, c>> \in Seq({a, b, c})
  OBVIOUS
<1>2. QED
  BY <1>1 DEF IsSeq

LEMMA QuadruplesAreSeq ==
  ASSUME NEW a, NEW b, NEW c, NEW d
  PROVE  IsSeq(<<a, b, c, d>>)
<1>1. <<a, b, c, d>> \in Seq({a, b, c, d})
  OBVIOUS
<1>2. QED
  BY <1>1 DEF IsSeq

(* The pointers of an object are its own fields. *)
LEMMA FieldsOf ==
  /\ Of("parser") = {"parser"} \X {"self", "text", "newtext", "value", "string"}
  /\ Of("buffer") = {"buffer"} \X {"self", "buffer"}
  /\ Of("lexer") = {"lexer"} \X {"self", "token_buffer"}
  /\ Of("emitter") = {Self("emitter")}
  /\ Of("set") = ({"set"} \X {"self", "array", "larger", "newkey", "copy"}) \cup Keys("set", MaxKeys)
  /\ Of("iterator") = ({"iterator"} \X {"self", "keys"}) \cup Keys("iterator", MaxKeys)
BY DEF Of, Pointers, Self, Keys

LEMMA SafeBufferFree ==
  ASSUME NEW q, IsSeq(q), NEW has, has \subseteq Pointers, NEW t,
         IF Self("buffer") \in has THEN Safe(q, has \ Of("buffer"), t) ELSE t.unseen
  PROVE  Safe(BufferFree("buffer") \o q, has, t)
<1> DEFINE fst == Follow("buffer", "self")
           mid == Free("buffer", "buffer", "pool")
           lst == Free("buffer", "self", "pool")
           end == <<lst>> \o (<<Release>> \o q)
           left == has \ {<<"buffer", "buffer">>}
<1>1. BufferFree("buffer") \o q = <<fst>> \o (<<mid>> \o end)
  BY FourOf DEF BufferFree
<1>2. IsSeq(<<Release>> \o q) /\ IsSeq(<<mid>> \o end)
  <2>1. IsSeq(<<Release>> \o q)
    BY ConsParts
  <2>2. IsSeq(end)
    BY <2>1, ConsParts
  <2> HIDE DEF end
  <2>3. QED
    BY <2>1, <2>2, ConsParts
<1>3. CASE Self("buffer") \in has
  <2>1. /\ "buffer" \in Objects /\ Self("buffer") \in left
        /\ (Of("buffer") \cap left) \ {Self("buffer")} \subseteq {Text}
        /\ left \ Of("buffer") = has \ Of("buffer")
    BY <1>3, FieldsOf DEF Objects, Self
  <2>2. Safe(q, has \ Of("buffer"), t)
    BY <1>3
  <2> HIDE DEF left
  <2>3. Safe(end, left, t)
    BY <2>1, <2>2, SafeGone
  <2>4. <<"buffer", "buffer">> \in Pointers /\ Whose(<<"buffer", "buffer">>) = "pool"
    BY DEF Pointers, Whose, Text
  <2> HIDE DEF end
  <2>5. Safe(<<mid>> \o end, has, t)
    BY <1>3, <2>1, <2>3, <2>4, SafeFree DEF left
  <2> HIDE DEF mid
  <2>6. Safe(<<fst>> \o (<<mid>> \o end), has, t)
    BY <1>2, <1>3, <2>5, SafeFollow DEF Self
  <2>7. QED
    BY <1>1, <2>6
<1>4. CASE Self("buffer") \notin has
  <2>1. t.unseen
    BY <1>4
  <2> HIDE DEF end, mid
  <2>2. Safe(<<fst>> \o (<<mid>> \o end), has, t)
    BY <1>2, <1>4, <2>1, SafeFollow DEF Self
  <2>3. QED
    BY <1>1, <2>2
<1>5. QED
  BY <1>3, <1>4

LEMMA SafeLexerFree ==
  ASSUME NEW q, IsSeq(q), NEW has, has \subseteq Pointers, NEW t,
         IF Self("lexer") \in has THEN Safe(q, has \ Of("lexer"), t) ELSE t.unseen
  PROVE  Safe(LexerFree("lexer") \o q, has, t)
<1> DEFINE fst == Follow("lexer", "self")
           mid == Free("lexer", "token_buffer", "pool")
           lst == Free("lexer", "self", "pool")
           end == <<lst>> \o (<<Release>> \o q)
           left == has \ {<<"lexer", "token_buffer">>}
<1>1. LexerFree("lexer") \o q = <<fst>> \o (<<mid>> \o end)
  BY FourOf DEF LexerFree
<1>2. IsSeq(<<Release>> \o q) /\ IsSeq(<<mid>> \o end)
  <2>1. IsSeq(<<Release>> \o q)
    BY ConsParts
  <2>2. IsSeq(end)
    BY <2>1, ConsParts
  <2> HIDE DEF end
  <2>3. QED
    BY <2>1, <2>2, ConsParts
<1>3. CASE Self("lexer") \in has
  <2>1. /\ "lexer" \in Objects /\ Self("lexer") \in left
        /\ (Of("lexer") \cap left) \ {Self("lexer")} \subseteq {Text}
        /\ left \ Of("lexer") = has \ Of("lexer")
    BY <1>3, FieldsOf DEF Objects, Self
  <2>2. Safe(q, has \ Of("lexer"), t)
    BY <1>3
  <2> HIDE DEF left
  <2>3. Safe(end, left, t)
    BY <2>1, <2>2, SafeGone
  <2>4. <<"lexer", "token_buffer">> \in Pointers
        /\ Whose(<<"lexer", "token_buffer">>) = "pool"
    BY DEF Pointers, Whose, Text
  <2> HIDE DEF end
  <2>5. Safe(<<mid>> \o end, has, t)
    BY <1>3, <2>1, <2>3, <2>4, SafeFree DEF left
  <2> HIDE DEF mid
  <2>6. Safe(<<fst>> \o (<<mid>> \o end), has, t)
    BY <1>2, <1>3, <2>5, SafeFollow DEF Self
  <2>7. QED
    BY <1>1, <2>6
<1>4. CASE Self("lexer") \notin has
  <2>1. t.unseen
    BY <1>4
  <2> HIDE DEF end, mid
  <2>2. Safe(<<fst>> \o (<<mid>> \o end), has, t)
    BY <1>2, <1>4, <2>1, SafeFollow DEF Self
  <2>3. QED
    BY <1>1, <2>2
<1>5. QED
  BY <1>3, <1>4

(* What is left when the parser and its parts are freed. *)
WithoutParser(has) == has \ (Of("parser") \cup Of("buffer") \cup Of("lexer"))

LEMMA SafeParserFree ==
  ASSUME NEW has, has \subseteq Pointers, NEW t \in Troubles, Self("parser") \in has,
         has \cap Transient = {},
         ~t.unseen => Self("buffer") \in has /\ Self("lexer") \in has,
         Whole(WithoutParser(has), t)
  PROVE  Safe(ParserFree, has, t)
<1> DEFINE str == Free("parser", "string", "pool")
           slf == Free("parser", "self", "pool")
           end == <<slf>> \o (<<Release>> \o <<>>)
           q   == <<str>> \o end
           h   == (has \ Of("buffer")) \ Of("lexer")
           g   == h \ {<<"parser", "string">>}
<1>1. q = <<str, slf, Release>>
  BY ThreeAlone
<1>2. IsSeq(q)
  <2>1. IsSeq(<<Release>> \o <<>>)
    BY EmptyIsSeq, ConsParts
  <2>2. IsSeq(end)
    BY <2>1, ConsParts
  <2> HIDE DEF end
  <2>3. QED
    BY <2>2, ConsParts
<1>3. ParserFree = BufferFree("buffer") \o (LexerFree("lexer") \o q)
      /\ IsSeq(LexerFree("lexer") \o q)
  <2>1. IsSeq(BufferFree("buffer")) /\ IsSeq(LexerFree("lexer"))
    BY QuadruplesAreSeq, Zenon DEF BufferFree, LexerFree
  <2> HIDE DEF q
  <2>2. (BufferFree("buffer") \o LexerFree("lexer")) \o q
          = BufferFree("buffer") \o (LexerFree("lexer") \o q)
    BY <1>2, <2>1, ConcatAssoc
  <2>3. ParserFree = (BufferFree("buffer") \o LexerFree("lexer")) \o q
    BY <1>1 DEF ParserFree
  <2>4. IsSeq(LexerFree("lexer") \o q)
    BY <1>2, <2>1, ConcatIsSeq
  <2>5. QED
    BY <2>2, <2>3, <2>4
<1>4. /\ "parser" \in Objects /\ Self("parser") \in h /\ Self("parser") \in g
      /\ (Of("parser") \cap g) \ {Self("parser")} \subseteq {Text}
      /\ g \ Of("parser") = WithoutParser(has)
      /\ Self("lexer") \in has \ Of("buffer") <=> Self("lexer") \in has
  <2>1. /\ "parser" \in Objects /\ Self("parser") \in h /\ Self("parser") \in g
        /\ Self("lexer") \in has \ Of("buffer") <=> Self("lexer") \in has
    BY FieldsOf DEF Objects, Self
  <2>2. (Of("parser") \cap g) \ {Self("parser")} \subseteq {Text}
    BY FieldsOf DEF Self, Transient, Value, Text
  <2>3. g \ Of("parser") = WithoutParser(has)
    BY FieldsOf DEF WithoutParser
  <2>4. QED
    BY <2>1, <2>2, <2>3
<1> HIDE DEF h
<1>5. Safe(end, g, t)
  <2>1. Safe(<<>>, g \ Of("parser"), t)
    BY <1>4, SafeNil
  <2> HIDE DEF g
  <2>2. QED
    BY <1>4, <2>1, SafeGone
<1> HIDE DEF end
<1>6. Safe(q, h, t)
  <2>1. <<"parser", "string">> \in Pointers /\ Whose(<<"parser", "string">>) = "pool"
    BY DEF Pointers, Whose, Text
  <2>2. QED
    BY <1>4, <1>5, <2>1, SafeFree
<1> HIDE DEF q
<1>7. Self("buffer") \in has => Safe(LexerFree("lexer") \o q, has \ Of("buffer"), t)
  <2> SUFFICES ASSUME Self("buffer") \in has
               PROVE  Safe(LexerFree("lexer") \o q, has \ Of("buffer"), t)
    OBVIOUS
  <2>1. IF Self("lexer") \in has \ Of("buffer")
        THEN Safe(q, (has \ Of("buffer")) \ Of("lexer"), t) ELSE t.unseen
    BY <1>4, <1>6 DEF h
  <2>2. has \ Of("buffer") \subseteq Pointers
    OBVIOUS
  <2>3. QED
    BY <1>2, <2>1, <2>2, SafeLexerFree
<1>8. QED
  BY <1>3, <1>7, SafeBufferFree

LEMMA SafeEmitterFree ==
  ASSUME NEW has, has \subseteq Pointers, NEW t, Self("emitter") \in has,
         Whole(has \ Of("emitter"), t)
  PROVE  Safe(EmitterFree, has, t)
<1> DEFINE fst == Follow("emitter", "self")
           end == <<Free("emitter", "self", "pool")>> \o (<<Release>> \o <<>>)
<1>1. EmitterFree = <<fst>> \o end
  BY ThreeAlone DEF EmitterFree
<1>2. Safe(end, has, t)
  <2>1. Safe(<<>>, has \ Of("emitter"), t)
    BY SafeNil
  <2>2. (Of("emitter") \cap has) \ {Self("emitter")} \subseteq {Text}
    BY FieldsOf
  <2>3. QED
    BY <2>1, <2>2, SafeGone DEF Objects
<1> HIDE DEF end
<1>3. Safe(<<fst>> \o end, has, t)
  <2>1. IsSeq(end)
    BY <1>2 DEF Safe
  <2>2. QED
    BY <1>2, <2>1, SafeFollow DEF Self
<1>4. QED
  BY <1>1, <1>3

LEMMA FreeKeysIsSeq ==
  ASSUME NEW o, NEW n \in Nat
  PROVE  IsSeq(FreeKeys(o, n))
<1> DEFINE S == {Free(o, Str[k], "pool") : k \in 1 .. n}
<1>1. FreeKeys(o, n) \in [1 .. n -> S]
  BY DEF FreeKeys
<1> HIDE DEF S
<1>2. FreeKeys(o, n) \in Seq(S)
  BY <1>1
<1>3. QED
  BY <1>2 DEF IsSeq

(* The keys, then a part, then the object. *)
LEMMA SafeKeysFree ==
  ASSUME NEW o \in {"set", "iterator"}, NEW part, part # "self", <<o, part>> \in Pointers,
         NEW n \in 0 .. MaxKeys, NEW has, has \subseteq Pointers, NEW t, Self(o) \in has,
         Of(o) \cap has \subseteq {Self(o), <<o, part>>} \cup Keys(o, n),
         Whole(has \ Of(o), t)
  PROVE  Safe(FreeKeys(o, n) \o <<Free(o, part, "pool"), Free(o, "self", "pool"), Release>>,
              has, t)
<1> DEFINE mid == Free(o, part, "pool")
           end == <<Free(o, "self", "pool")>> \o (<<Release>> \o <<>>)
           g   == has \ Keys(o, n)
           h   == g \ {<<o, part>>}
<1>1. <<mid>> \o end = <<mid, Free(o, "self", "pool"), Release>>
  BY ThreeAlone
<1>2. o \in Objects /\ Keys(o, n) \subseteq Pointers /\ Self(o) \in g
      /\ \A p \in Keys(o, n) : p[1] = o
  <2>1. o \in Objects /\ Keys(o, n) \subseteq Pointers /\ Self(o) \in g
    BY KeysArePointers
  <2>2. \A p \in Keys(o, n) : p[1] = o
    BY DEF Keys
  <2>3. QED
    BY <2>1, <2>2
<1>3. /\ Self(o) \in h
      /\ (Of(o) \cap h) \ {Self(o)} \subseteq {Text}
      /\ h \ Of(o) = has \ Of(o)
  BY <1>2 DEF Self, Of
<1>4. Safe(end, h, t)
  <2>1. Safe(<<>>, h \ Of(o), t)
    BY <1>3, SafeNil
  <2> HIDE DEF h
  <2>2. QED
    BY <1>2, <1>3, <2>1, SafeGone
<1> HIDE DEF end
<1>5. Safe(<<mid>> \o end, g, t)
  <2>1. Whose(<<o, part>>) = "pool"
    BY DEF Whose, Text
  <2> HIDE DEF g
  <2>2. QED
    BY <1>2, <1>4, <2>1, SafeFree
<1>6. Safe(FreeKeys(o, n) \o (<<mid>> \o end), has, t)
  BY <1>5, SafeFreeKeys
<1>7. QED
  BY <1>1, <1>6

LEMMA SafeKeySetFree ==
  ASSUME NEW has, has \subseteq Pointers, NEW t \in Troubles, Self("set") \in has,
         has \cap Transient = {}, NEW array, array = ArrayOf(has),
         ~(<<"set", "array">> \in has /\ <<"set", "larger">> \in has),
         ~t.unseen => <<"set", array>> \in has,
         Whole(has \ Of("set"), t)
  PROVE  Safe((<<Follow("set", "self"), Follow("set", array)>> \o FreeKeys("set", MaxKeys))
                \o <<Free("set", array, "pool"), Free("set", "self", "pool"), Release>>, has, t)
<1> DEFINE fst == Follow("set", "self")
           snd == Follow("set", array)
           end == <<Free("set", array, "pool"), Free("set", "self", "pool"), Release>>
           q   == FreeKeys("set", MaxKeys) \o end
<1>1. MaxKeys \in 0 .. MaxKeys /\ MaxKeys \in Nat
  BY KeysAssumption DEF Str
<1>2. Safe(q, has, t)
  <2>1. array \in {"array", "larger"} /\ <<"set", array>> \in Pointers
    BY DEF ArrayOf, Pointers
  <2>2. Of("set") \cap has \subseteq {Self("set"), <<"set", array>>} \cup Keys("set", MaxKeys)
    <3>1. \A part \in {"array", "larger"} : <<"set", part>> \in has => part = array
      BY DEF ArrayOf
    <3>2. <<"set", "newkey">> \notin has /\ <<"set", "copy">> \notin has
      BY DEF Transient
    <3>3. QED
      BY <3>1, <3>2, FieldsOf DEF Self
  <2>3. QED
    BY <1>1, <2>1, <2>2, SafeKeysFree
<1>3. (<<fst, snd>> \o FreeKeys("set", MaxKeys)) \o end = <<fst>> \o (<<snd>> \o q)
  <2>1. IsSeq(FreeKeys("set", MaxKeys))
    BY <1>1, FreeKeysIsSeq
  <2>2. IsSeq(end)
    BY TriplesAreSeq
  <2>3. IsSeq(<<fst, snd>>)
    <3>1. IsSeq(<<fst>>) /\ IsSeq(<<snd>>)
      BY TupleIsSeq
    <3>2. IsSeq(<<fst>> \o <<snd>>)
      BY <3>1, ConcatIsSeq
    <3>3. QED
      BY <3>2, PairOf
  <2> HIDE DEF end
  <2>4. (<<fst, snd>> \o FreeKeys("set", MaxKeys)) \o end = <<fst, snd>> \o q
    BY <2>1, <2>2, <2>3, ConcatAssoc
  <2>5. IsSeq(q)
    BY <2>1, <2>2, ConcatIsSeq
  <2> HIDE DEF q
  <2>6. <<fst, snd>> \o q = <<fst>> \o (<<snd>> \o q)
    BY <2>5, TwoOf
  <2>7. QED
    BY <2>4, <2>6
<1> HIDE DEF q
<1>4. Safe(<<snd>> \o q, has, t)
  <2>1. IsSeq(q)
    BY <1>2 DEF Safe
  <2>2. IF <<"set", array>> \in has THEN Safe(q, has, t) ELSE t.unseen
    BY <1>2
  <2>3. QED
    BY <2>1, <2>2, SafeFollow
<1>5. Safe(<<fst>> \o (<<snd>> \o q), has, t)
  <2>1. IsSeq(<<snd>> \o q)
    BY <1>4 DEF Safe
  <2> HIDE DEF snd
  <2>2. QED
    BY <1>4, <2>1, SafeFollow DEF Self
<1>6. QED
  BY <1>3, <1>5

LEMMA SafeIteratorFree ==
  ASSUME NEW n \in 0 .. MaxKeys, NEW has, has \subseteq Pointers, NEW t,
         Self("iterator") \in has,
         Of("iterator") \cap has
           \subseteq {Self("iterator"), <<"iterator", "keys">>} \cup Keys("iterator", n),
         Whole(has \ Of("iterator"), t)
  PROVE  Safe(IteratorFree(n), has, t)
<1> DEFINE fst == Follow("iterator", "self")
           end == <<Free("iterator", "keys", "pool"), Free("iterator", "self", "pool"),
                    Release>>
           q   == FreeKeys("iterator", n) \o end
<1>1. Safe(q, has, t)
  <2>1. <<"iterator", "keys">> \in Pointers
    BY DEF Pointers
  <2>2. QED
    BY <2>1, SafeKeysFree
<1>2. IteratorFree(n) = <<fst>> \o q
  <2>1. IsSeq(FreeKeys("iterator", n))
    BY KeysAssumption, FreeKeysIsSeq
  <2>2. IsSeq(end)
    BY TriplesAreSeq
  <2>3. IsSeq(<<fst>>)
    BY TupleIsSeq
  <2> HIDE DEF end, fst
  <2>4. (<<fst>> \o FreeKeys("iterator", n)) \o end = <<fst>> \o q
    BY <2>1, <2>2, <2>3, ConcatAssoc
  <2>5. QED
    BY <2>4 DEF IteratorFree, end, fst
<1> HIDE DEF q
<1>3. Safe(<<fst>> \o q, has, t)
  <2>1. IsSeq(q)
    BY <1>1 DEF Safe
  <2>2. QED
    BY <1>1, <2>1, SafeFollow DEF Self
<1>4. QED
  BY <1>2, <1>3

-----------------------------------------------------------------------------
(* Constructors.                                                           *)

(* The pointers that say whether anything is half done. *)
Matters ==
  Transient \cup {Self("parser"), Self("buffer"), Self("lexer"), Self("set"),
                  <<"set", "array">>, <<"set", "larger">>} \cup Keys("set", MaxKeys)

LEMMA WholeLike ==
  ASSUME NEW has, NEW t \in Troubles, Whole(has, t),
         NEW after, NEW u \in Troubles, Harder(t, u),
         \A q \in Matters : q \in after <=> q \in has
  PROVE  Whole(after, u)
<1>1. after \cap Transient = {}
  BY DEF Whole, Matters
<1>2. \A k \in 1 .. MaxKeys : <<"set", Str[k]>> \in after <=> <<"set", Str[k]>> \in has
  BY DEF Matters, Keys
<1>3. {k \in 1 .. MaxKeys : <<"set", Str[k]>> \in after}
        = {k \in 1 .. MaxKeys : <<"set", Str[k]>> \in has}
  BY <1>2
<1>4. /\ Self("parser") \in after <=> Self("parser") \in has
      /\ Self("buffer") \in after <=> Self("buffer") \in has
      /\ Self("lexer") \in after <=> Self("lexer") \in has
      /\ Self("set") \in after <=> Self("set") \in has
      /\ <<"set", "array">> \in after <=> <<"set", "array">> \in has
      /\ <<"set", "larger">> \in after <=> <<"set", "larger">> \in has
  BY DEF Matters
<1>5. \E n \in 0 .. MaxKeys : InOrder(after, n, u)
  <2>1. PICK n \in 0 .. MaxKeys : InOrder(has, n, t)
    BY DEF Whole
  <2>2. t.tight \in Nat /\ u.tight \in Nat /\ t.tight <= u.tight /\ n \in Int
    BY DEF Troubles, Harder
  <2>3. n - 3 <= t.tight => n - 3 <= u.tight
    BY <2>2
  <2>4. InOrder(after, n, u)
    BY <1>3, <1>4, <2>1, <2>3 DEF InOrder
  <2>5. QED
    BY <2>4
<1>6. Self("parser") \notin after => Self("buffer") \notin after /\ Self("lexer") \notin after
  BY <1>4 DEF Whole
<1>7. ~(<<"set", "array">> \in after /\ <<"set", "larger">> \in after)
  BY <1>4 DEF Whole
<1>8. ~u.unseen =>
        /\ Self("parser") \in after => Self("buffer") \in after /\ Self("lexer") \in after
        /\ Self("set") \in after => <<"set", ArrayOf(after)>> \in after
  <2>1. ~u.unseen => ~t.unseen
    BY DEF Harder
  <2>2. /\ ArrayOf(after) = ArrayOf(has)
        /\ <<"set", ArrayOf(after)>> \in after <=> <<"set", ArrayOf(has)>> \in has
    BY <1>4 DEF ArrayOf
  <2>3. QED
    BY <1>4, <2>1, <2>2 DEF Whole
<1>9. QED
  BY <1>1, <1>5, <1>6, <1>7, <1>8 DEF Whole

LEMMA NoHarder ==
  ASSUME NEW t \in Troubles
  PROVE  Harder(t, t)
BY DEF Troubles, Harder

(* A call begins with nothing half done. *)
Begins(K) == Balanced(K) /\ Whole(K.has, K.trouble)

LEMMA BeginsWith ==
  ASSUME NEW K, Begins(K)
  PROVE  /\ K.has \subseteq Pointers
         /\ K.trouble \in Troubles
         /\ \A q \in K.has : Self(q[1]) \in K.has
         /\ K.has \cap Transient = {}
         /\ Safe(<<>>, K.has, K.trouble)
BY SafeNil DEF Begins, Balanced, Fine, Whole

LEMMA SoundEmitterNew ==
  ASSUME NEW K, Begins(K), HoldsPool(K), Self("emitter") \notin K.has
  PROVE  Sound(EmitterNew, K)
<1>1. EmitterNew = <<Alloc("emitter", "self", "pool", "emitter", <<>>)>> \o (<<Acquire>> \o <<>>)
  BY TwoAlone DEF EmitterNew
<1>2. Self("emitter") \notin Matters
  BY DEF Matters, Transient, Value, Self, Keys
<1>3. Whole(K.has \cup {Self("emitter")}, K.trouble)
  BY <1>2, BeginsWith, WholeLike, NoHarder DEF Begins
<1>4. Safe(<<>>, K.has \cup {Self("emitter")}, K.trouble)
  BY <1>3, SafeNil
<1>5. Safe(<<>>, K.has, Worse(K.trouble, "emitter"))
  BY BeginsWith, NoWorse DEF Unchecked
<1>6. QED
  BY <1>1, <1>4, <1>5, SoundBorn DEF Begins, Objects

LEMMA SoundEmitterFree ==
  ASSUME NEW K, Begins(K), Self("emitter") \in K.has
  PROVE  Sound(EmitterFree, K)
<1>1. \A q \in Matters : q \notin Of("emitter")
  BY FieldsOf DEF Matters, Transient, Value, Self, Keys
<1>2. Whole(K.has \ Of("emitter"), K.trouble)
  BY <1>1, BeginsWith, WholeLike, NoHarder DEF Begins
<1>3. Safe(EmitterFree, K.has, K.trouble)
  BY <1>2, BeginsWith, SafeEmitterFree
<1>4. QED
  BY <1>3 DEF Safe, Begins

LEMMA WithoutParserIsWhole ==
  ASSUME NEW has, NEW t \in Troubles, Whole(has, t)
  PROVE  Whole(WithoutParser(has), t)
<1> DEFINE left == WithoutParser(has)
<1>1. /\ left \cap Transient = {}
      /\ Self("parser") \notin left /\ Self("buffer") \notin left /\ Self("lexer") \notin left
  BY FieldsOf DEF WithoutParser, Whole, Self
<1>2. \A p \in {"self", "array", "larger"} \cup {Str[k] : k \in 1 .. MaxKeys} :
        <<"set", p>> \in left <=> <<"set", p>> \in has
  BY FieldsOf DEF WithoutParser
<1> HIDE DEF left
<1>3. {k \in 1 .. MaxKeys : <<"set", Str[k]>> \in left}
        = {k \in 1 .. MaxKeys : <<"set", Str[k]>> \in has}
  BY <1>2
<1>4. \E n \in 0 .. MaxKeys : InOrder(left, n, t)
  BY <1>2, <1>3 DEF Whole, InOrder
<1>5. ~(<<"set", "array">> \in left /\ <<"set", "larger">> \in left)
  BY <1>2 DEF Whole
<1>6. ~t.unseen => (Self("set") \in left => <<"set", ArrayOf(left)>> \in left)
  <2>1. /\ ArrayOf(left) = ArrayOf(has)
        /\ <<"set", ArrayOf(left)>> \in left <=> <<"set", ArrayOf(has)>> \in has
    BY <1>2 DEF ArrayOf
  <2>2. QED
    BY <1>2, <2>1 DEF Whole, Self
<1>7. Whole(left, t)
  BY <1>1, <1>4, <1>5, <1>6 DEF Whole
<1>8. QED
  BY <1>7 DEF left

LEMMA SoundParserFree ==
  ASSUME NEW K, Begins(K), Self("parser") \in K.has
  PROVE  Sound(ParserFree, K)
<1>1. Whole(K.has, K.trouble)
  BY DEF Begins
<1>2. Whole(WithoutParser(K.has), K.trouble)
  BY <1>1, BeginsWith, WithoutParserIsWhole
<1>3. ~K.trouble.unseen => Self("buffer") \in K.has /\ Self("lexer") \in K.has
  BY <1>1 DEF Whole
<1>4. Safe(ParserFree, K.has, K.trouble)
  BY <1>2, <1>3, BeginsWith, SafeParserFree
<1>5. QED
  BY <1>4 DEF Safe, Begins

LEMMA SoundParserNew ==
  ASSUME NEW K, Begins(K), HoldsPool(K), Self("parser") \notin K.has
  PROVE  Sound(ParserNew, K)
<1> DEFINE t  == K.trouble
           w  == Worse(t, "part")
           h1 == K.has \cup {Self("parser")}
           h2 == h1 \cup {Self("buffer")}
           h3 == h2 \cup {<<"buffer", "buffer">>}
           h4 == h3 \cup {Self("lexer")}
           h5 == h4 \cup {<<"lexer", "token_buffer">>}
           free1 == BufferFree("buffer") \o ParserFree
           free2 == LexerFree("lexer") \o ParserFree
           p6 == <<Alloc("lexer", "token_buffer", "pool", "part", free2)>> \o <<>>
           p5 == <<Acquire>> \o p6
           p4 == <<Alloc("lexer", "self", "pool", "part", ParserFree)>> \o p5
           p3 == <<Alloc("buffer", "buffer", "pool", "part", free1)>> \o p4
           p2 == <<Acquire>> \o p3
           p1 == <<Alloc("buffer", "self", "pool", "part", ParserFree)>> \o p2
<1>1. /\ K.has \subseteq Pointers /\ t \in Troubles /\ K.has \cap Transient = {}
      /\ \A q \in K.has : Self(q[1]) \in K.has
      /\ Whole(K.has, t) /\ Whole(K.has, w) /\ w \in Troubles /\ w.unseen
      /\ Self("buffer") \notin K.has /\ Self("lexer") \notin K.has
  <2>1. K.has \subseteq Pointers /\ t \in Troubles /\ K.has \cap Transient = {}
        /\ (\A q \in K.has : Self(q[1]) \in K.has) /\ Whole(K.has, t)
    BY BeginsWith DEF Begins
  <2>2. w \in Troubles /\ w.unseen /\ Harder(t, w)
    BY <2>1, WorseType DEF Worse, Troubles, Unchecked, Harder
  <2>3. Whole(K.has, w)
    BY <2>1, <2>2, WholeLike
  <2>4. Self("buffer") \notin K.has /\ Self("lexer") \notin K.has
    BY <2>1 DEF Whole
  <2> HIDE DEF w
  <2>5. QED
    BY <2>1, <2>2, <2>3, <2>4
<1>0. w = Worse(t, "part")
  OBVIOUS
<1> HIDE DEF w
<1>2. /\ Of("parser") \cap K.has = {} /\ Of("buffer") \cap K.has = {}
      /\ Of("lexer") \cap K.has = {}
  BY <1>1 DEF Of
<1>3. /\ Self("parser") \in Pointers /\ Self("buffer") \in Pointers
      /\ Self("lexer") \in Pointers /\ <<"buffer", "buffer">> \in Pointers
      /\ <<"lexer", "token_buffer">> \in Pointers
  BY DEF Pointers, Self
<1>4. /\ "parser" \in Objects /\ "buffer" \in Objects /\ "lexer" \in Objects
      /\ "part" \in Unchecked /\ "parser" \notin Unchecked
  BY DEF Objects, Unchecked
<1>5. ASSUME NEW h, h \in {h1, h2, h3, h4, h5}
      PROVE  /\ h \subseteq Pointers /\ Self("parser") \in h
             /\ h \cap Transient = {} /\ WithoutParser(h) = K.has
  <2>1. h \subseteq Pointers /\ Self("parser") \in h
    BY <1>1, <1>3, <1>5
  <2>2. h \cap Transient = {}
    BY <1>1, <1>5 DEF Transient, Self, Value
  <2>3. WithoutParser(h) = K.has
    BY <1>2, <1>5, FieldsOf DEF WithoutParser, Self
  <2>4. QED
    BY <2>1, <2>2, <2>3
<1>6. \A h \in {h1, h2, h3, h4, h5} : Safe(ParserFree, h, w)
  BY <1>1, <1>5, SafeParserFree
<1>7. Safe(free1, h2, w) /\ Safe(free2, h4, w)
  <2>1. /\ h2 \ Of("buffer") = h1
        /\ h4 \ Of("lexer") = h3
        /\ Self("buffer") \in h2 /\ Self("lexer") \in h4
    BY <1>2, FieldsOf DEF Self
  <2>2. IsSeq(ParserFree) /\ Safe(ParserFree, h1, w) /\ Safe(ParserFree, h3, w)
    BY <1>6 DEF Safe
  <2>3. h2 \subseteq Pointers /\ h4 \subseteq Pointers
    BY <1>5
  <2> HIDE DEF h1, h2, h3, h4
  <2>4. Safe(free1, h2, w)
    BY <2>1, <2>2, <2>3, SafeBufferFree
  <2>5. Safe(free2, h4, w)
    BY <2>1, <2>2, <2>3, SafeLexerFree
  <2>6. QED
    BY <2>4, <2>5
<1>8. Whole(h5, t)
  <2>1. h5 \cap Transient = {}
    BY <1>5
  <2>2. {k \in 1 .. MaxKeys : <<"set", Str[k]>> \in h5}
          = {k \in 1 .. MaxKeys : <<"set", Str[k]>> \in K.has}
    BY DEF Self
  <2>3. /\ Self("set") \in h5 <=> Self("set") \in K.has
        /\ <<"set", "array">> \in h5 <=> <<"set", "array">> \in K.has
        /\ <<"set", "larger">> \in h5 <=> <<"set", "larger">> \in K.has
    BY DEF Self
  <2>4. Self("parser") \in h5 /\ Self("buffer") \in h5 /\ Self("lexer") \in h5
    OBVIOUS
  <2> HIDE DEF h5
  <2>5. \E n \in 0 .. MaxKeys : InOrder(h5, n, t)
    BY <1>1, <2>2, <2>3 DEF Whole, InOrder
  <2>6. ~t.unseen => (Self("set") \in h5 => <<"set", ArrayOf(h5)>> \in h5)
    <3>1. /\ ArrayOf(h5) = ArrayOf(K.has)
          /\ <<"set", ArrayOf(h5)>> \in h5 <=> <<"set", ArrayOf(K.has)>> \in K.has
      BY <2>3 DEF ArrayOf
    <3>2. QED
      BY <1>1, <2>3, <3>1 DEF Whole
  <2>7. QED
    BY <1>1, <2>1, <2>3, <2>4, <2>5, <2>6 DEF Whole
<1>9. /\ Self("buffer") \notin h1 /\ <<"buffer", "buffer">> \notin h2
      /\ Self("lexer") \notin h3 /\ <<"lexer", "token_buffer">> \notin h4
      /\ Self("parser") \in h1 /\ Self("buffer") \in h2
      /\ Self("parser") \in h3 /\ Self("lexer") \in h4
  BY <1>1, <1>2, FieldsOf DEF Self
<1>10. ParserNew = <<Alloc("parser", "self", "pool", "parser", <<>>)>> \o (<<Acquire>> \o p1)
  <2>1. IsSeq(p6) /\ IsSeq(p5) /\ IsSeq(p4) /\ IsSeq(p3) /\ IsSeq(p2) /\ IsSeq(p1)
    <3>1. IsSeq(p6)
      BY EmptyIsSeq, ConsParts
    <3> HIDE DEF p6
    <3>2. IsSeq(p5)
      BY <3>1, ConsParts
    <3> HIDE DEF p5
    <3>3. IsSeq(p4)
      BY <3>2, ConsParts
    <3> HIDE DEF p4
    <3>4. IsSeq(p3)
      BY <3>3, ConsParts
    <3> HIDE DEF p3
    <3>5. IsSeq(p2)
      BY <3>4, ConsParts
    <3> HIDE DEF p2
    <3>6. IsSeq(p1)
      BY <3>5, ConsParts
    <3>7. QED
      BY <3>1, <3>2, <3>3, <3>4, <3>5, <3>6
  <2>2. LexerNew("part", ParserFree, <<>>) = p4
    BY EmptyIsSeq, ThreeOf DEF LexerNew
  <2> HIDE DEF p4
  <2>3. BufferNew("part", ParserFree, p4) = p1
    BY <2>1, ThreeOf DEF BufferNew
  <2> HIDE DEF p1
  <2>4. QED
    BY <2>1, <2>2, <2>3, TwoOf DEF ParserNew
<1> HIDE DEF free1, free2
<1>11. Safe(p6, h4, t)
  <2>1. Safe(<<>>, h5, t)
    BY <1>8, SafeNil
  <2>2. Safe(free2, h4, Worse(t, "part"))
    BY <1>0, <1>7
  <2> HIDE DEF h4
  <2>3. QED
    <3> DEFINE done == <<>>
               part == <<"lexer", "token_buffer">>
    <3>1. Whose(part) = "pool" /\ part \in Pointers /\ part \notin h4
      BY <1>3, <1>9 DEF Whose, Text
    <3>2. Safe(done, h4 \cup {part}, t)
      BY <2>1
    <3> HIDE DEF done, free2
    <3>3. Safe(<<Alloc("lexer", "token_buffer", "pool", "part", free2)>> \o done, h4, t)
      BY <1>1, <1>4, <1>9, <2>2, <3>1, <3>2, SafeAlloc
    <3>4. QED
      BY <3>3 DEF done
<1> HIDE DEF p6
<1>12. Safe(p4, h3, t)
  <2>1. Safe(ParserFree, h3, Worse(t, "part"))
    BY <1>0, <1>6
  <2> HIDE DEF h3
  <2>2. QED
    BY <1>1, <1>4, <1>9, <1>11, <2>1, SafeBorn
<1> HIDE DEF p4, p5
<1>13. Safe(p3, h2, t)
  <2>1. Safe(free1, h2, Worse(t, "part"))
    BY <1>0, <1>7
  <2> HIDE DEF h2
  <2>2. QED
    BY <1>1, <1>3, <1>4, <1>9, <1>12, <2>1, SafeAlloc DEF Whose, Text
<1> HIDE DEF p3
<1>14. Safe(p1, h1, t)
  <2>1. Safe(ParserFree, h1, Worse(t, "part"))
    BY <1>0, <1>6
  <2> HIDE DEF h1
  <2>2. QED
    BY <1>1, <1>4, <1>9, <1>13, <2>1, SafeBorn
<1> HIDE DEF p1, p2
<1>15. QED
  <2>1. Safe(<<>>, K.has, Worse(t, "parser"))
    BY <1>1, <1>4, SafeNil, NoWorse
  <2>2. QED
    BY <1>4, <1>10, <1>14, <2>1, SoundBorn DEF Begins

LEMMA SoundKeySetNew ==
  ASSUME NEW K, Begins(K), HoldsPool(K), Self("set") \notin K.has
  PROVE  Sound(KeySetNew, K)
<1> DEFINE t  == K.trouble
           h1 == K.has \cup {Self("set")}
           h2 == h1 \cup {<<"set", "array">>}
           p1 == <<Alloc("set", "array", "pool", "array", <<>>)>> \o <<>>
<1>1. /\ K.has \subseteq Pointers /\ t \in Troubles /\ K.has \cap Transient = {}
      /\ \A q \in K.has : Self(q[1]) \in K.has
      /\ Whole(K.has, t)
  BY BeginsWith DEF Begins
<1>2. \A part : <<"set", part>> \notin K.has
  BY <1>1
<1> DEFINE w == Worse(t, "array")
<1>0. w = Worse(t, "array") /\ w \in Troubles /\ w.unseen
  BY <1>1, WorseType DEF Worse, Unchecked
<1> HIDE DEF w
<1>3. ASSUME NEW h, NEW u \in Troubles, (h = h1 /\ u.unseen) \/ (h = h2 /\ u = t)
      PROVE  Whole(h, u)
  <2>1. h \cap Transient = {}
    BY <1>1, <1>3 DEF Transient, Self, Value
  <2>2. {k \in 1 .. MaxKeys : <<"set", Str[k]>> \in h} = 1 .. 0
    BY <1>2, <1>3, KeyNames DEF Self
  <2>3. <<"set", "larger">> \notin h /\ ArrayOf(h) = "array"
    BY <1>2, <1>3 DEF ArrayOf, Self
  <2>4. \E n \in 0 .. MaxKeys : InOrder(h, n, u)
    <3>1. 0 \in 0 .. MaxKeys
      BY KeysAssumption DEF Str
    <3>2. 0 <= 5 /\ 0 - 3 <= u.tight
      BY DEF Troubles
    <3>3. InOrder(h, 0, u)
      BY <2>2, <3>2 DEF InOrder
    <3>4. QED
      BY <3>1, <3>3
  <2>5. /\ Self("parser") \in h <=> Self("parser") \in K.has
        /\ Self("buffer") \in h <=> Self("buffer") \in K.has
        /\ Self("lexer") \in h <=> Self("lexer") \in K.has
    BY <1>3 DEF Self
  <2>6. ~u.unseen => <<"set", ArrayOf(h)>> \in h /\ ~t.unseen
    BY <1>3, <2>3
  <2>7. QED
    BY <1>1, <2>1, <2>3, <2>4, <2>5, <2>6 DEF Whole
<1>4. Safe(<<>>, h2, t) /\ Safe(<<>>, h1, w)
  <2>1. Whole(h2, t) /\ Whole(h1, w)
    BY <1>0, <1>1, <1>3
  <2> HIDE DEF h1, h2
  <2>2. QED
    BY <2>1, SafeNil
<1>5. Safe(p1, h1, t)
  <2>1. "set" \in Objects /\ "array" \in Unchecked /\ <<"set", "array">> \in Pointers
    BY DEF Objects, Unchecked, Pointers
  <2>2. Self("set") \in h1 /\ <<"set", "array">> \notin h1
    BY <1>2 DEF Self
  <2>3. Safe(<<>>, h1, Worse(t, "array"))
    BY <1>0, <1>4
  <2> HIDE DEF h1
  <2>4. QED
    <3> DEFINE done == <<>>
               part == <<"set", "array">>
    <3>1. Whose(part) = "pool"
      BY DEF Whose, Text
    <3>2. Safe(done, h1 \cup {part}, t) /\ Safe(done, h1, Worse(t, "array"))
      BY <1>4, <2>3
    <3> HIDE DEF done
    <3>3. Safe(<<Alloc("set", "array", "pool", "array", done)>> \o done, h1, t)
      BY <1>1, <2>1, <2>2, <3>1, <3>2, SafeAlloc
    <3>4. QED
      BY <3>3 DEF done
<1>6. KeySetNew = <<Alloc("set", "self", "pool", "set", <<>>)>> \o (<<Acquire>> \o p1)
  BY ThreeAlone DEF KeySetNew
<1> HIDE DEF p1
<1>7. Safe(<<>>, K.has, Worse(t, "set"))
  BY BeginsWith, NoWorse DEF Unchecked
<1>8. QED
  BY <1>5, <1>6, <1>7, SoundBorn DEF Begins, Objects

LEMMA SoundKeySetFree ==
  ASSUME NEW K, Begins(K), K.has = DOMAIN blocks, Self("set") \in K.has
  PROVE  Sound(KeySetFree, K)
<1> DEFINE h == K.has \ Of("set")
<1>1. Whole(K.has, K.trouble) /\ K.trouble \in Troubles /\ K.has \subseteq Pointers
  BY BeginsWith DEF Begins
<1>2. Whole(h, K.trouble)
  <2>1. h \cap Transient = {}
    BY <1>1 DEF Whole
  <2>2. {k \in 1 .. MaxKeys : <<"set", Str[k]>> \in h} = 1 .. 0
    BY FieldsOf DEF Keys
  <2>3. <<"set", "array">> \notin h
    BY FieldsOf
  <2>4. \E n \in 0 .. MaxKeys : InOrder(h, n, K.trouble)
    <3>1. 0 \in 0 .. MaxKeys
      BY KeysAssumption DEF Str
    <3>2. 0 <= 5 /\ 0 - 3 <= K.trouble.tight
      BY <1>1 DEF Troubles
    <3>3. InOrder(h, 0, K.trouble)
      BY <2>2, <3>2 DEF InOrder
    <3>4. QED
      BY <3>1, <3>3
  <2>5. /\ Self("parser") \in h <=> Self("parser") \in K.has
        /\ Self("buffer") \in h <=> Self("buffer") \in K.has
        /\ Self("lexer") \in h <=> Self("lexer") \in K.has
        /\ Self("set") \notin h
    BY FieldsOf DEF Self, Keys
  <2> HIDE DEF h
  <2>6. QED
    BY <1>1, <2>1, <2>3, <2>4, <2>5 DEF Whole
<1>3. Array = ArrayOf(K.has)
  BY DEF Array, ArrayOf, IsSet
<1>4. /\ ~(<<"set", "array">> \in K.has /\ <<"set", "larger">> \in K.has)
      /\ ~K.trouble.unseen => <<"set", Array>> \in K.has
  BY <1>1, <1>3 DEF Whole
<1>5. Safe((<<Follow("set", "self"), Follow("set", Array)>> \o FreeKeys("set", MaxKeys))
             \o <<Free("set", Array, "pool"), Free("set", "self", "pool"), Release>>,
           K.has, K.trouble)
  <2> HIDE DEF h
  <2>1. Whole(K.has \ Of("set"), K.trouble)
    BY <1>2 DEF h
  <2>2. K.has \cap Transient = {}
    BY BeginsWith
  <2>3. QED
    BY <1>1, <1>3, <1>4, <2>1, <2>2, SafeKeySetFree
<1>6. Safe(KeySetFree, K.has, K.trouble)
  BY <1>5 DEF KeySetFree
<1>7. QED
  BY <1>6 DEF Safe, Begins

(* Keys are stored one after the other. *)
LEMMA KeysInOrder ==
  ASSUME NEW t, Whole(DOMAIN blocks, t)
  PROVE  /\ Cardinality(KeysOf("set")) \in 0 .. MaxKeys
         /\ InOrder(DOMAIN blocks, Cardinality(KeysOf("set")), t)
<1>1. KeysOf("set") = {k \in 1 .. MaxKeys : <<"set", Str[k]>> \in DOMAIN blocks}
  BY DEF KeysOf, IsSet
<1>2. PICK n \in 0 .. MaxKeys : InOrder(DOMAIN blocks, n, t)
  BY DEF Whole
<1>3. KeysOf("set") = 1 .. n
  BY <1>1, <1>2 DEF InOrder
<1>4. Cardinality(1 .. n) = n
  BY KeysAssumption, FS_Interval
<1>5. QED
  BY <1>2, <1>3, <1>4

(* A copy that is left behind, when growing has failed often enough. *)
LEMMA SafeLeave ==
  ASSUME NEW q, NEW has, NEW t, t.tight > 2,
         <<"set", "newkey">> \in has, Safe(q, has \ {<<"set", "newkey">>}, t)
  PROVE  Safe(<<Leave("set", "newkey")>> \o q, has, t)
<1> DEFINE op  == Leave("set", "newkey")
           new == <<"set", "newkey">>
<1>1. IsSeq(q) /\ IsSeq(<<op>> \o q)
  BY ConsParts DEF Safe
<1>2. ASSUME NEW K, Balanced(K), K.has = has, K.trouble = t
      PROVE  Sound(<<op>> \o q, K)
  <2> DEFINE K1 == Freed(K, new)
  <2>1. K1 = Seen(K.custom, has \ {new}, K.refs, K.due, K.trouble)
    BY <1>2 DEF Freed
  <2>2. Balanced(K1)
    <3>1. /\ has \ {new} \subseteq Pointers
          /\ \A p \in has \ {new} : Self(p[1]) \in has \ {new}
          /\ \A x \in Objects : Self(x) \in has \ {new} <=> Self(x) \in K.has
      BY <1>2 DEF Balanced, Fine, Self
    <3>2. QED
      BY <1>2, <2>1, <3>1, BalancedPart
  <2>3. K1.has = has \ {new} /\ K1.trouble = t
    BY <1>2, <2>1 DEF Seen
  <2> HIDE DEF K1
  <2>4. PICK G : Closed(G) /\ <<q, K1>> \in G
    BY <2>2, <2>3 DEF Safe, Sound
  <2>5. OpIsSound(G, op, q, K)
    BY <1>2, <2>4 DEF OpIsSound, LeaveIsSound, Place, Leave, K1
  <2>6. QED
    BY <1>1, <1>2, <2>4, <2>5, SoundCons DEF Balanced
<1>3. QED
  BY <1>1, <1>2 DEF Safe

(* One more key in order. *)
LEMMA OneMoreKey ==
  ASSUME NEW has, NEW t \in Troubles, Whole(has, t), NEW n \in 0 .. MaxKeys, n < MaxKeys,
         InOrder(has, n, t),
         ArrayOf(has) = "array" => n + 1 <= 5 /\ n - 2 <= t.tight
  PROVE  Whole(has \cup {<<"set", Str[n + 1]>>}, t)
<1> DEFINE part == <<"set", Str[n + 1]>>
           h    == has \cup {part}
<1>1. MaxKeys \in Nat /\ n \in Nat /\ n + 1 \in 1 .. MaxKeys
  <2>1. MaxKeys \in Nat
    BY KeysAssumption
  <2>2. QED
    BY <2>1
<1>2. Str[n + 1] \notin {"self", "array", "larger", "newkey", "copy"}
  BY <1>1, KeyNames
<1>3. h \cap Transient = {}
  BY <1>2 DEF Whole, Transient, Value
<1>4. {k \in 1 .. MaxKeys : <<"set", Str[k]>> \in h} = 1 .. n + 1
  <2>1. \A k \in 1 .. MaxKeys : <<"set", Str[k]>> \in has <=> k \in 1 .. n
    BY <1>1 DEF InOrder
  <2>2. \A k \in 1 .. MaxKeys : <<"set", Str[k]>> = part <=> k = n + 1
    BY <1>1, KeyNames
  <2> HIDE DEF part
  <2>3. \A k \in 1 .. MaxKeys : <<"set", Str[k]>> \in h <=> k \in 1 .. n \/ k = n + 1
    BY <2>1, <2>2
  <2>4. \A k \in Int : k \in 1 .. n + 1 <=> k \in 1 .. n \/ k = n + 1
    BY <1>1
  <2>5. 1 .. n + 1 \subseteq 1 .. MaxKeys
    BY <1>1
  <2> HIDE DEF h
  <2>6. QED
    BY <2>3, <2>4, <2>5
<1>5. /\ Self("parser") \in h <=> Self("parser") \in has
      /\ Self("buffer") \in h <=> Self("buffer") \in has
      /\ Self("lexer") \in h <=> Self("lexer") \in has
      /\ Self("set") \in h <=> Self("set") \in has
      /\ <<"set", "array">> \in h <=> <<"set", "array">> \in has
      /\ <<"set", "larger">> \in h <=> <<"set", "larger">> \in has
  BY <1>2 DEF Self
<1> HIDE DEF h, part
<1>6. ArrayOf(h) = ArrayOf(has)
  BY <1>5 DEF ArrayOf
<1>7. InOrder(h, n + 1, t)
  <2>1. <<"set", "larger">> \notin h => ArrayOf(has) = "array"
    BY <1>5 DEF ArrayOf
  <2>2. t.tight \in Nat
    BY DEF Troubles
  <2>3. n - 2 <= t.tight => (n + 1) - 3 <= t.tight
    BY <1>1, <2>2
  <2>4. QED
    BY <1>4, <2>1, <2>3 DEF InOrder
<1>8. n + 1 \in 0 .. MaxKeys
  BY <1>1
<1>9. ~t.unseen =>
        /\ Self("parser") \in h => Self("buffer") \in h /\ Self("lexer") \in h
        /\ Self("set") \in h => <<"set", ArrayOf(h)>> \in h
  <2>1. <<"set", ArrayOf(has)>> \in h <=> <<"set", ArrayOf(has)>> \in has
    BY <1>5 DEF ArrayOf
  <2>2. QED
    BY <1>5, <1>6, <2>1 DEF Whole
<1>10. Whole(h, t)
  BY <1>3, <1>5, <1>7, <1>8, <1>9 DEF Whole
<1>11. QED
  BY <1>10 DEF h, part

LEMMA SafeStoreKey ==
  ASSUME NEW has, NEW t \in Troubles, Whole(has, t), Self("set") \in has,
         NEW n \in 0 .. MaxKeys, n < MaxKeys, InOrder(has, n, t),
         NEW array, array = ArrayOf(has),
         array = "array" => n - 2 <= t.tight
  PROVE  Safe(StoreKey(n, array), has, t)
<1> DEFINE new  == <<"set", "newkey">>
           part == <<"set", Str[n + 1]>>
           h    == has \cup {new}
           last == IF n < Places(array) THEN Move("set", "newkey", Str[n + 1])
                                        ELSE Leave("set", "newkey")
           done == <<>>
           p2   == <<last>> \o done
           p1   == <<Follow("set", array)>> \o p2
<1>1. MaxKeys \in 0 .. 6 /\ n \in Nat /\ n + 1 \in 1 .. MaxKeys
  <2>1. MaxKeys \in 0 .. 6
    BY KeysAssumption DEF Str
  <2>2. QED
    BY <2>1
<1>2. /\ part \in Pointers /\ Str[n + 1] # "self" /\ Whose(part) = "pool"
      /\ "set" \in Objects /\ new \in Pointers /\ Whose(new) = "pool"
      /\ new # Self("set") /\ new \notin has /\ part # new
  <2>1. part \in Pointers /\ Str[n + 1] # "self" /\ Whose(part) = "pool"
    BY <1>1, KeysArePointers
  <2>2. Str[n + 1] # "newkey"
    BY <1>1, KeyNames
  <2>3. "set" \in Objects /\ new \in Pointers /\ Whose(new) = "pool" /\ new # Self("set")
    BY DEF Objects, Pointers, Whose, Text, Self
  <2>4. new \notin has
    BY DEF Whole, Transient
  <2>5. QED
    BY <2>1, <2>2, <2>3, <2>4
<1>3. Safe(done, has, t)
  BY SafeNil
<1>4. Safe(p2, h, t)
  <2>1. CASE n < Places(array)
    <3>1. array = "array" => n + 1 <= 5
      BY <1>1, <2>1 DEF Places
    <3>2. Whole(has \cup {part}, t)
      BY <3>1, OneMoreKey
    <3>3. part \notin has
      <4>1. n + 1 \notin 1 .. n
        BY <1>1
      <4>2. QED
        BY <1>1, <4>1 DEF InOrder
    <3>4. /\ (h \ {new}) \cup {part} = has \cup {part}
          /\ new \in h /\ part \notin h
      BY <1>2, <3>3
    <3> HIDE DEF part, h
    <3>5. Safe(done, (h \ {new}) \cup {part}, t)
      BY <3>2, <3>4, SafeNil
    <3> HIDE DEF done
    <3>6. Safe(<<Move("set", "newkey", Str[n + 1])>> \o done, h, t)
      BY <1>2, <3>4, <3>5, SafeMove DEF part
    <3>7. QED
      BY <2>1, <3>6
  <2>2. CASE ~(n < Places(array))
    <3>1. array = "array" /\ n = 5
      <4>1. array = "larger" \/ array = "array"
        BY DEF ArrayOf
      <4>2. array # "larger"
        BY <1>1, <2>2 DEF Places
      <4>3. array = "array" => n <= 5
        BY DEF ArrayOf, InOrder
      <4>4. array = "array" => n >= 5
        BY <1>1, <2>2 DEF Places
      <4>5. QED
        BY <1>1, <4>1, <4>2, <4>3, <4>4
    <3>2. t.tight > 2
      <4>1. t.tight \in Nat
        BY DEF Troubles
      <4>2. n - 2 <= t.tight
        BY <3>1
      <4>3. QED
        BY <3>1, <4>1, <4>2
    <3>3. new \in h /\ h \ {new} = has
      BY <1>2
    <3> HIDE DEF h, done
    <3>4. Safe(<<Leave("set", "newkey")>> \o done, h, t)
      BY <1>3, <3>2, <3>3, SafeLeave
    <3>5. QED
      BY <2>2, <3>4
  <2>3. QED
    BY <2>1, <2>2
<1>5. StoreKey(n, array) = <<Alloc("set", "newkey", "pool", "key", done)>> \o p1
  BY ThreeAlone DEF StoreKey
<1> HIDE DEF p2
<1>6. Safe(p1, h, t)
  <2>1. IsSeq(p2)
    BY <1>4 DEF Safe
  <2>2. t.unseen \/ <<"set", array>> \in h
    BY DEF Whole
  <2>3. IF <<"set", array>> \in h THEN Safe(p2, h, t) ELSE t.unseen
    BY <1>4, <2>2
  <2> HIDE DEF h
  <2>4. QED
    BY <2>1, <2>3, SafeFollow
<1> HIDE DEF p1
<1>7. Safe(done, has, Worse(t, "key"))
  BY <1>3, NoWorse DEF Unchecked
<1> HIDE DEF done
<1>8. Safe(<<Alloc("set", "newkey", "pool", "key", done)>> \o p1, has, t)
  BY <1>2, <1>6, <1>7, SafeAlloc DEF h
<1>9. QED
  BY <1>5, <1>8

(* resize, and the key after it, or after it has failed. *)
Growing(n) ==
  <<Alloc("set", "larger", "pool", "larger", StoreKey(n, "array")),
    Follow("set", "array"), Free("set", "array", "pool")>> \o StoreKey(n, "larger")

LEMMA SafeGrow ==
  ASSUME NEW has, NEW t \in Troubles, has \subseteq Pointers, Whole(has, t), Self("set") \in has,
         NEW n \in 0 .. MaxKeys, n < MaxKeys, InOrder(has, n, t), ArrayOf(has) = "array"
  PROVE  Safe(Growing(n), has, t)
<1> DEFINE new == <<"set", "larger">>
           old == <<"set", "array">>
           h1  == has \cup {new}
           h2  == h1 \ {old}
           u   == Worse(t, "larger")
           no  == StoreKey(n, "array")
           yes == StoreKey(n, "larger")
           p2  == <<Free("set", "array", "pool")>> \o yes
           p1  == <<Follow("set", "array")>> \o p2
<1>1. /\ "set" \in Objects /\ new \in Pointers /\ old \in Pointers /\ new # old
      /\ new # Self("set") /\ old # Self("set")
      /\ Whose(new) = "pool" /\ Whose(old) = "pool"
  BY DEF Objects, Pointers, Self, Whose, Text
<1>2. new \notin has /\ n - 3 <= t.tight /\ t.tight \in Nat /\ n \in Int
  BY DEF ArrayOf, InOrder, Troubles
<1>3. /\ u \in Troubles /\ u.tight = t.tight + 1 /\ Harder(t, u)
  <2>1. u \in Troubles /\ u.tight = t.tight + 1 /\ u.unseen = t.unseen
    BY WorseType DEF Worse, Unchecked
  <2> HIDE DEF u
  <2>2. QED
    BY <1>2, <2>1 DEF Harder
<1> HIDE DEF u
<1>4. Safe(no, has, u)
  <2>1. Whole(has, u)
    BY <1>3, WholeLike
  <2>2. n - 3 <= u.tight /\ n - 2 <= u.tight
    BY <1>2, <1>3
  <2>3. InOrder(has, n, u)
    BY <2>2 DEF InOrder
  <2>4. QED
    BY <1>3, <2>1, <2>2, <2>3, SafeStoreKey
<1>5. Whole(h2, t) /\ InOrder(h2, n, t) /\ ArrayOf(h2) = "larger"
  <2>1. \A k \in 1 .. MaxKeys : <<"set", Str[k]>> # new /\ <<"set", Str[k]>> # old
    BY KeyNames
  <2>2. \A k \in 1 .. MaxKeys : <<"set", Str[k]>> \in h2 <=> <<"set", Str[k]>> \in has
    BY <2>1
  <2>3. new \in h2 /\ old \notin h2
    BY <1>1
  <2>4. h2 \cap Transient = {}
    BY DEF Whole, Transient, Value
  <2>5. /\ Self("parser") \in h2 <=> Self("parser") \in has
        /\ Self("buffer") \in h2 <=> Self("buffer") \in has
        /\ Self("lexer") \in h2 <=> Self("lexer") \in has
    BY DEF Self
  <2> HIDE DEF h2
  <2>6. {k \in 1 .. MaxKeys : <<"set", Str[k]>> \in h2} = 1 .. n
    BY <2>2 DEF InOrder
  <2>7. InOrder(h2, n, t) /\ ArrayOf(h2) = "larger"
    BY <2>3, <2>6 DEF InOrder, ArrayOf
  <2>8. Whole(h2, t)
    BY <2>3, <2>4, <2>5, <2>7 DEF Whole
  <2>9. QED
    BY <2>7, <2>8
<1>6. Self("set") \in h1 /\ Self("set") \in h2 /\ (old \in h1 <=> old \in has)
  BY <1>1
<1> HIDE DEF h2
<1>7. Safe(yes, h2, t)
  BY <1>5, <1>6, SafeStoreKey
<1>8. IsSeq(yes)
  BY <1>7 DEF Safe
<1>9. Growing(n) = <<Alloc("set", "larger", "pool", "larger", no)>> \o p1
  BY <1>8, ThreeOf DEF Growing
<1> HIDE DEF yes, no
<1>10. Safe(p2, h1, t)
  <2> HIDE DEF h1
  <2>1. QED
    BY <1>1, <1>6, <1>7, SafeFree DEF h2
<1> HIDE DEF p2
<1>11. Safe(p1, h1, t)
  <2>1. IsSeq(p2)
    BY <1>10 DEF Safe
  <2>2. t.unseen \/ old \in h1
    BY <1>6 DEF Whole
  <2> HIDE DEF h1
  <2>3. IF <<"set", "array">> \in h1 THEN Safe(p2, h1, t) ELSE t.unseen
    BY <1>10, <2>2
  <2>4. QED
    BY <2>1, <2>3, SafeFollow
<1> HIDE DEF p1
<1>12. Safe(<<Alloc("set", "larger", "pool", "larger", no)>> \o p1, has, t)
  <2>1. Safe(no, has, Worse(t, "larger"))
    BY <1>4 DEF u
  <2>2. QED
    BY <1>1, <1>2, <1>11, <2>1, SafeAlloc DEF h1
<1>13. QED
  BY <1>9, <1>12

LEMMA SoundAddKey ==
  ASSUME NEW K, Begins(K), K.has = DOMAIN blocks, Self("set") \in K.has,
         Cardinality(KeysOf("set")) < MaxKeys, NEW there \in BOOLEAN
  PROVE  Sound(AddKey(there), K)
<1> DEFINE t     == K.trouble
           n     == Cardinality(KeysOf("set"))
           store == IF ~Crowded(n, Array) THEN StoreKey(n, Array)
                    ELSE <<Alloc("set", "larger", "pool", "larger", StoreKey(n, Array)),
                           Follow("set", Array), Free("set", Array, "pool")>>
                           \o StoreKey(n, "larger")
           rest  == IF there THEN <<>> ELSE store
           cpy   == <<"set", "copy">>
           h     == K.has \cup {cpy}
           p2    == <<Free("set", "copy", "pool")>> \o rest
           p1    == <<Follow("set", Array)>> \o p2
<1>1. /\ K.has \subseteq Pointers /\ t \in Troubles /\ Whole(K.has, t)
      /\ K.has \cap Transient = {}
  BY BeginsWith DEF Begins
<1>2. n \in 0 .. MaxKeys /\ n < MaxKeys /\ InOrder(K.has, n, t)
  BY <1>1, KeysInOrder
<1>3. Array = ArrayOf(K.has) /\ Array \in {"array", "larger"}
  BY DEF Array, ArrayOf, IsSet
<1>4. AddKey(there)
        = <<Alloc("set", "copy", "pool", "key", store), Follow("set", Array),
            Free("set", "copy", "pool")>> \o rest
  BY Zenon DEF AddKey
<1> HIDE DEF n, t
<1>5. Safe(store, K.has, t)
  <2>1. MaxKeys \in 0 .. 6 /\ n \in 0 .. 5
    <3>1. MaxKeys \in 0 .. 6
      BY KeysAssumption DEF Str
    <3>2. QED
      BY <1>2, <3>1
  <2>2. CASE ~Crowded(n, Array)
    <3>1. Array = "array" => n - 2 <= 0
      <4>1. Array = "array" => 100 * (n + 1) < 325
        BY <2>1, <2>2 DEF Crowded, Places
      <4>2. QED
        BY <2>1, <4>1
    <3>2. t.tight \in Nat
      BY <1>1 DEF Troubles
    <3>3. Array = "array" => n - 2 <= t.tight
      BY <2>1, <3>1, <3>2
    <3>4. Safe(StoreKey(n, Array), K.has, t)
      BY <1>1, <1>2, <1>3, <3>3, SafeStoreKey
    <3>5. QED
      BY <2>2, <3>4
  <2>3. CASE Crowded(n, Array)
    <3>1. Array = "array"
      BY <1>3, <2>1, <2>3 DEF Crowded, Places
    <3>2. Safe(Growing(n), K.has, t)
      BY <1>1, <1>2, <1>3, <3>1, SafeGrow
    <3>3. store = Growing(n)
      BY <2>3, <3>1 DEF Growing
    <3>4. QED
      BY <3>2, <3>3
  <2>4. QED
    BY <2>2, <2>3
<1> HIDE DEF store
<1>6. Safe(rest, K.has, t)
  BY <1>1, <1>5, SafeNil
<1>7. Safe(store, K.has, Worse(t, "key"))
  BY <1>1, <1>5, NoWorse DEF Unchecked
<1>8. IsSeq(rest)
  BY <1>6 DEF Safe
<1> HIDE DEF rest
<1>9. /\ "set" \in Objects /\ cpy \in Pointers /\ cpy \notin K.has /\ Whose(cpy) = "pool"
      /\ Self("set") \in h /\ h \ {cpy} = K.has
      /\ <<"set", Array>> \in h <=> <<"set", Array>> \in K.has
  <2>1. cpy \notin K.has
    BY <1>1 DEF Transient
  <2>2. QED
    BY <1>3, <2>1 DEF Objects, Pointers, Whose, Text
<1> HIDE DEF h
<1>10. Safe(p2, h, t)
  BY <1>6, <1>9, SafeFree
<1>11. AddKey(there) = <<Alloc("set", "copy", "pool", "key", store)>> \o p1
  BY <1>4, <1>8, ThreeOf
<1>12. Safe(p1, h, t)
  <2>1. IsSeq(p2)
    BY <1>10 DEF Safe
  <2> HIDE DEF p2
  <2>2. t.unseen \/ <<"set", Array>> \in h
    BY <1>1, <1>3, <1>9 DEF Whole
  <2>3. IF <<"set", Array>> \in h THEN Safe(p2, h, t) ELSE t.unseen
    BY <1>10, <2>2
  <2>4. QED
    BY <2>1, <2>3, SafeFollow
<1> HIDE DEF p1
<1>13. Safe(<<Alloc("set", "copy", "pool", "key", store)>> \o p1, K.has, t)
  BY <1>1, <1>7, <1>9, <1>12, SafeAlloc DEF h
<1>14. QED
  BY <1>11, <1>13 DEF Safe, Begins, t

(* Taking a copy of the first m of n keys, and going back if one cannot be *)
(* had.                                                                    *)
TakeKeys(n, m) ==
  [k \in 1 .. m |-> Alloc("iterator", Str[k], "pool", "iterator", IteratorFree(n))]

IteratorReady(has, t) ==
  /\ has \subseteq Pointers /\ Self("iterator") \in has
  /\ Of("iterator") \cap has = {Self("iterator"), <<"iterator", "keys">>}
  /\ Whole(has \ Of("iterator"), t)

KeysTaken(n, m) ==
  \A q, has : \A t \in Troubles :
    IteratorReady(has, t) /\ Safe(q, has \cup Keys("iterator", m), t)
      => Safe(TakeKeys(n, m) \o q, has, t)

LEMMA NoKeysTaken ==
  ASSUME NEW n
  PROVE  KeysTaken(n, 0)
<1> SUFFICES ASSUME NEW q, NEW has, NEW t \in Troubles, Safe(q, has \cup Keys("iterator", 0), t)
             PROVE  Safe(TakeKeys(n, 0) \o q, has, t)
  BY DEF KeysTaken
<1>1. TakeKeys(n, 0) = <<>> /\ Keys("iterator", 0) = {}
  BY DEF TakeKeys, Keys
<1>2. has \cup Keys("iterator", 0) = has
  BY <1>1
<1>3. TakeKeys(n, 0) \o q = q
  BY <1>1, ConcatNothing DEF Safe
<1>4. QED
  BY <1>2, <1>3

LEMMA MoreKeysTaken ==
  ASSUME NEW n \in 0 .. MaxKeys, NEW m \in 0 .. MaxKeys, m < n, KeysTaken(n, m)
  PROVE  KeysTaken(n, m + 1)
<1> SUFFICES ASSUME NEW q, NEW has, NEW t \in Troubles, IteratorReady(has, t),
                    Safe(q, has \cup Keys("iterator", m + 1), t)
             PROVE  Safe(TakeKeys(n, m + 1) \o q, has, t)
  BY DEF KeysTaken
<1> DEFINE last == Alloc("iterator", Str[m + 1], "pool", "iterator", IteratorFree(n))
           h    == has \cup Keys("iterator", m)
           part == <<"iterator", Str[m + 1]>>
<1>1. MaxKeys \in Nat /\ m \in Nat /\ n \in Nat /\ m + 1 <= MaxKeys
  <2>1. MaxKeys \in Nat
    BY KeysAssumption
  <2>2. QED
    BY <2>1
<1>2. /\ "iterator" \in Objects /\ part \in Pointers /\ Str[m + 1] # "self"
      /\ Whose(part) = "pool" /\ part \notin Keys("iterator", m)
      /\ Keys("iterator", m) \subseteq Pointers
      /\ Keys("iterator", m + 1) = Keys("iterator", m) \cup {part}
  BY <1>1, KeysArePointers
<1>3. /\ h \cup {part} = has \cup Keys("iterator", m + 1)
      /\ Self("iterator") \in h /\ h \subseteq Pointers
  BY <1>2 DEF IteratorReady
<1>4. part \notin h
  <2>1. m + 1 \in 1 .. MaxKeys
    BY <1>1
  <2>2. Str[m + 1] \notin {"self", "keys"}
    BY <2>1, KeyNames
  <2>3. part \in Of("iterator")
    BY <1>2 DEF Of
  <2>4. part \notin has
    BY <2>2, <2>3 DEF IteratorReady, Self
  <2>5. QED
    BY <1>2, <2>4
<1>5. Safe(IteratorFree(n), h, t)
  <2>1. \A k \in 1 .. m : k \in 1 .. n
    BY <1>1
  <2>2. Keys("iterator", m) \subseteq Keys("iterator", n)
    BY <2>1 DEF Keys
  <2>3. Of("iterator") \cap h
          \subseteq {Self("iterator"), <<"iterator", "keys">>} \cup Keys("iterator", n)
    BY <2>2 DEF IteratorReady
  <2>4. Keys("iterator", m) \subseteq Of("iterator")
    BY <1>2 DEF Of, Keys
  <2>5. h \ Of("iterator") = has \ Of("iterator")
    BY <2>4
  <2> HIDE DEF h
  <2>6. QED
    BY <1>3, <2>3, <2>5, SafeIteratorFree DEF IteratorReady
<1>6. Safe(IteratorFree(n), h, Worse(t, "iterator"))
  <2>1. Worse(t, "iterator") = t
    BY NoWorse DEF Unchecked
  <2>2. QED
    BY <1>5, <2>1
<1> HIDE DEF h
<1>7. Safe(<<last>> \o q, h, t)
  BY <1>2, <1>3, <1>4, <1>6, SafeAlloc
<1>8. Safe(TakeKeys(n, m) \o (<<last>> \o q), has, t)
  BY <1>7 DEF KeysTaken, h
<1>9. TakeKeys(n, m + 1) = TakeKeys(n, m) \o <<last>> /\ IsSeq(TakeKeys(n, m))
  <2> DEFINE f == TakeKeys(n, m + 1)
  <2>1. m + 1 \in 1 .. m + 1
    BY <1>1
  <2>2. /\ f = [k \in 1 .. m + 1 |-> f[k]]
        /\ f[m + 1] = last
        /\ [k \in 1 .. m |-> f[k]] = TakeKeys(n, m)
    BY <1>1, <2>1 DEF TakeKeys
  <2> HIDE DEF f, last
  <2>3. /\ f = [k \in 1 .. m |-> f[k]] \o <<f[m + 1]>>
        /\ IsSeq([k \in 1 .. m |-> f[k]])
    BY <1>1, <2>2, OneMore
  <2>4. QED
    BY <2>2, <2>3 DEF f
<1>10. TakeKeys(n, m + 1) \o q = TakeKeys(n, m) \o (<<last>> \o q)
  <2>1. IsSeq(<<last>>) /\ IsSeq(q)
    BY TupleIsSeq DEF Safe
  <2> HIDE DEF last
  <2>2. (TakeKeys(n, m) \o <<last>>) \o q = TakeKeys(n, m) \o (<<last>> \o q)
    BY <1>9, <2>1, ConcatAssoc
  <2>3. QED
    BY <1>9, <2>2
<1>11. QED
  BY <1>8, <1>10

LEMMA SafeTakeKeys ==
  ASSUME NEW n \in 0 .. MaxKeys, NEW q, NEW has, NEW t \in Troubles, IteratorReady(has, t),
         Safe(q, has \cup Keys("iterator", n), t)
  PROVE  Safe(TakeKeys(n, n) \o q, has, t)
<1>1. MaxKeys \in 0 .. 6
  BY KeysAssumption DEF Str
<1>2. KeysTaken(n, 0)
  BY NoKeysTaken
<1>3. 1 <= n => KeysTaken(n, 1)
  <2>1. 0 \in 0 .. MaxKeys /\ 0 + 1 = 1 /\ (1 <= n => 0 < n)
    BY <1>1
  <2>2. QED
    BY <1>2, <2>1, MoreKeysTaken
<1>4. 2 <= n => KeysTaken(n, 2)
  <2> SUFFICES ASSUME 2 <= n PROVE KeysTaken(n, 2)
    OBVIOUS
  <2>1. 1 \in 0 .. MaxKeys /\ 1 + 1 = 2 /\ 1 < n /\ 1 <= n
    BY <1>1
  <2>2. QED
    BY <1>3, <2>1, MoreKeysTaken
<1>5. 3 <= n => KeysTaken(n, 3)
  <2> SUFFICES ASSUME 3 <= n PROVE KeysTaken(n, 3)
    OBVIOUS
  <2>1. 2 \in 0 .. MaxKeys /\ 2 + 1 = 3 /\ 2 < n /\ 2 <= n
    BY <1>1
  <2>2. QED
    BY <1>4, <2>1, MoreKeysTaken
<1>6. 4 <= n => KeysTaken(n, 4)
  <2> SUFFICES ASSUME 4 <= n PROVE KeysTaken(n, 4)
    OBVIOUS
  <2>1. 3 \in 0 .. MaxKeys /\ 3 + 1 = 4 /\ 3 < n /\ 3 <= n
    BY <1>1
  <2>2. QED
    BY <1>5, <2>1, MoreKeysTaken
<1>7. 5 <= n => KeysTaken(n, 5)
  <2> SUFFICES ASSUME 5 <= n PROVE KeysTaken(n, 5)
    OBVIOUS
  <2>1. 4 \in 0 .. MaxKeys /\ 4 + 1 = 5 /\ 4 < n /\ 4 <= n
    BY <1>1
  <2>2. QED
    BY <1>6, <2>1, MoreKeysTaken
<1>8. 6 <= n => KeysTaken(n, 6)
  <2> SUFFICES ASSUME 6 <= n PROVE KeysTaken(n, 6)
    OBVIOUS
  <2>1. 5 \in 0 .. MaxKeys /\ 5 + 1 = 6 /\ 5 < n /\ 5 <= n
    BY <1>1
  <2>2. QED
    BY <1>7, <2>1, MoreKeysTaken
<1>9. KeysTaken(n, n)
  <2>1. n \in {0, 1, 2, 3, 4, 5, 6}
    BY <1>1
  <2>2. QED
    BY <1>2, <1>3, <1>4, <1>5, <1>6, <1>7, <1>8, <2>1
<1>10. QED
  BY <1>9 DEF KeysTaken

(* Without memory for the keys of an iterator it goes, and the reference   *)
(* it took is due from then on, to nobody.                                 *)
LEMMA SafeAllocKeys ==
  ASSUME NEW q, NEW has, NEW t \in Troubles, has \subseteq Pointers,
         Of("iterator") \cap has = {Self("iterator")}, Self("iterator") \in has,
         Safe(q, has \cup {<<"iterator", "keys">>}, t),
         Whole(has \ Of("iterator"), t)
  PROVE  Safe(<<Alloc("iterator", "keys", "pool", "keys",
                      <<Free("iterator", "self", "pool")>>)>> \o q, has, t)
<1> DEFINE slf == Free("iterator", "self", "pool")
           op  == Alloc("iterator", "keys", "pool", "keys", <<slf>>)
           new == <<"iterator", "keys">>
<1>1. IsSeq(q) /\ IsSeq(<<op>> \o q)
  BY ConsParts DEF Safe
<1>2. /\ "iterator" \in Objects /\ new \in Pointers /\ new \notin has
      /\ Whose(new) = "pool" /\ Whose(Self("iterator")) = "pool"
      /\ Self("iterator") \in Pointers
  <2>1. new \in Pointers /\ new \in Of("iterator") /\ new # Self("iterator")
    BY DEF Pointers, Of, Self
  <2>2. QED
    BY <2>1, PointerParts DEF Objects, Whose, Text, Self
<1>3. ASSUME NEW K, Balanced(K), K.has = has, K.trouble = t
      PROVE  Sound(<<op>> \o q, K)
  <2> DEFINE K1 == Granted(K, new)
             K2 == Denied(K, "keys")
             K3 == Freed(K2, Self("iterator"))
  <2>1. K1 = Seen(K.custom, has \cup {new}, K.refs, K.due, K.trouble)
    BY <1>3 DEF Granted
  <2>2. Balanced(K1)
    <3>1. /\ has \cup {new} \subseteq Pointers
          /\ \A p \in has \cup {new} : Self(p[1]) \in has \cup {new}
          /\ \A x \in Objects : Self(x) \in has \cup {new} <=> Self(x) \in K.has
      BY <1>2, <1>3 DEF Balanced, Fine, Self
    <3>2. QED
      BY <1>3, <2>1, <3>1, BalancedPart
  <2>3. K1.has = has \cup {new} /\ K1.trouble = t
    BY <1>3, <2>1 DEF Seen
  <2>4. HoldsPool(K)
    BY <1>2, <1>3, BalancedHolds
  <2>5. /\ K2.custom = K.custom /\ K2.has = has /\ K2.refs = K.refs
        /\ K2.due = K.due + 1 /\ K2.trouble = t
    BY <1>3, NoWorse DEF Denied, Seen, Unchecked
  <2> HIDE DEF K1, K2
  <2>6. Fine(K2) /\ HoldsPool(K2)
    <3>1. K.due \in Nat /\ K.refs \in Nat
      BY <1>3 DEF Balanced, Fine
    <3>2. HoldsPool(K2)
      BY <2>4, <2>5 DEF HoldsPool
    <3>3. K2.due >= Cardinality(LivingIn(K2.has))
      BY <1>3, <2>5, <3>1, LivingFinite DEF Balanced, Fine
    <3>4. QED
      BY <1>3, <2>5, <3>1, <3>2, <3>3 DEF Balanced, Fine, HoldsPool
  <2>7. /\ K3.custom = K.custom /\ K3.has = has \ Of("iterator") /\ K3.refs = K.refs
        /\ K3.due = K.due /\ K3.trouble = t
    <3>1. K2.due - 1 = K.due
      BY <1>3, <2>5 DEF Balanced, Fine
    <3>2. QED
      BY <2>5, <3>1 DEF Freed, Seen, Self
  <2>8. Fine(K3)
    BY <1>2, <2>5, <2>6, GoneIsFine
  <2>9. Balanced(K3)
    BY <1>3, <2>7, <2>8 DEF Balanced
  <2> HIDE DEF K3
  <2>10. PICK G1 : Closed(G1) /\ <<q, K1>> \in G1
    BY <2>2, <2>3 DEF Safe, Sound
  <2>11. PICK G3 : Closed(G3) /\ <<<<>>, K3>> \in G3
    BY <2>7, <2>9, SafeNil DEF Safe, Sound
  <2>12. PICK G2 : Closed(G2) /\ <<<<slf>>, K2>> \in G2
    <3>1. OpIsSound(G3, slf, <<>>, K2)
      BY <1>2, <2>5, <2>6, <2>11
      DEF OpIsSound, FreeIsSound, Place, Free, Self, K3
    <3> HIDE DEF slf
    <3>2. Sound(<<slf>> \o <<>>, K2)
      BY <2>6, <2>11, <3>1, EmptyIsSeq, SoundCons
    <3>3. <<slf>> \o <<>> = <<slf>>
      BY TupleIsSeq, ConcatNothing
    <3>4. QED
      BY <3>2, <3>3 DEF Sound
  <2> DEFINE G == G1 \cup G2
  <2>13. Closed(G) /\ <<q, K1>> \in G /\ <<<<slf>>, K2>> \in G
    BY <2>10, <2>12, UnionIsClosed
  <2> HIDE DEF G, slf
  <2>14. OpIsSound(G, op, q, K)
    BY <1>2, <1>3, <2>4, <2>13 DEF OpIsSound, AllocIsSound, Place, Alloc, K1, K2
  <2>15. QED
    BY <1>1, <1>3, <2>13, <2>14, SoundCons DEF Balanced
<1>4. QED
  BY <1>1, <1>3 DEF Safe

LEMMA SoundIteratorNew ==
  ASSUME NEW K, Begins(K), K.has = DOMAIN blocks, Self("set") \in K.has,
         Self("iterator") \notin K.has
  PROVE  Sound(IteratorNew, K)
<1> DEFINE t  == K.trouble
           n  == Cardinality(KeysOf("set"))
           h1 == K.has \cup {Self("iterator")}
           h2 == h1 \cup {<<"iterator", "keys">>}
           h3 == h2 \cup Keys("iterator", n)
           it == Of("iterator")
           p2 == TakeKeys(n, n) \o <<>>
           op == Alloc("iterator", "keys", "pool", "keys", <<Free("iterator", "self", "pool")>>)
           p1 == <<op>> \o p2
<1>1. /\ K.has \subseteq Pointers /\ t \in Troubles /\ Whole(K.has, t)
      /\ \A q \in K.has : Self(q[1]) \in K.has
  BY BeginsWith DEF Begins
<1>2. n \in 0 .. MaxKeys
  BY <1>1, KeysInOrder
<1> HIDE DEF n
<1>3. /\ "iterator" \in Objects /\ "set" \in Objects
      /\ Self("iterator") \in it /\ <<"iterator", "keys">> \in it
      /\ it \subseteq Pointers /\ Keys("iterator", n) \subseteq it
      /\ it \cap K.has = {}
  <2>1. Self("iterator") \in it /\ <<"iterator", "keys">> \in it /\ it \subseteq Pointers
    BY DEF Of, Pointers, Self
  <2>2. Keys("iterator", n) \subseteq Pointers
    BY <1>2, KeysArePointers
  <2>3. Keys("iterator", n) \subseteq it
    BY <2>2 DEF Of, Keys
  <2>4. it \cap K.has = {}
    BY <1>1 DEF Of
  <2>5. QED
    BY <2>1, <2>3, <2>4 DEF Objects
<1>4. \A q \in Matters : q \notin it
  BY FieldsOf DEF Of, Matters, Transient, Value, Self, Keys
<1> HIDE DEF it
<1>5. Whole(h3, t)
  <2>1. \A q \in Matters : q \in h3 <=> q \in K.has
    BY <1>3, <1>4
  <2> HIDE DEF h3
  <2>2. QED
    BY <1>1, <2>1, WholeLike, NoHarder
<1>6. /\ h1 \subseteq Pointers /\ it \cap h1 = {Self("iterator")} /\ h1 \ it = K.has
      /\ h2 \subseteq Pointers /\ it \cap h2 = {Self("iterator"), <<"iterator", "keys">>}
      /\ h2 \ it = K.has
  BY <1>1, <1>3
<1>7. Safe(p2, h2, t)
  <2>1. IteratorReady(h2, t)
    BY <1>1, <1>6 DEF IteratorReady, it
  <2>2. Safe(<<>>, h3, t)
    BY <1>5, SafeNil
  <2> HIDE DEF h2
  <2>3. QED
    BY <1>1, <1>2, <2>1, <2>2, SafeTakeKeys
<1> HIDE DEF p2
<1>8. Safe(p1, h1, t)
  <2>1. Whole(h1 \ it, t)
    BY <1>1, <1>6
  <2>2. Self("iterator") \in h1
    OBVIOUS
  <2> HIDE DEF h1
  <2>3. QED
    BY <1>1, <1>6, <1>7, <2>1, <2>2, SafeAllocKeys DEF it
<1>9. IteratorNew = <<Alloc("iterator", "self", "pool", "iterator", <<>>)>> \o (<<Acquire>> \o p1)
  <2>1. IsSeq(TakeKeys(n, n)) /\ p2 = TakeKeys(n, n)
    <3> DEFINE S == {Alloc("iterator", Str[k], "pool", "iterator", IteratorFree(n)) : k \in 1 .. n}
    <3>1. n \in Nat
      BY <1>2
    <3>2. TakeKeys(n, n) \in [1 .. n -> S]
      BY DEF TakeKeys
    <3> HIDE DEF S
    <3>3. TakeKeys(n, n) \in Seq(S)
      BY <3>1, <3>2
    <3>4. IsSeq(TakeKeys(n, n))
      BY <3>3 DEF IsSeq
    <3>5. QED
      BY <3>4, ConcatNothing DEF p2
  <2>2. IteratorNew
          = <<Alloc("iterator", "self", "pool", "iterator", <<>>), Acquire, op>> \o TakeKeys(n, n)
    BY Zenon DEF IteratorNew, TakeKeys, n
  <2> HIDE DEF op
  <2>3. QED
    BY <2>1, <2>2, ThreeOf
<1> HIDE DEF p1
<1>10. HoldsPool(K)
  BY <1>3, BalancedHolds DEF Begins
<1>11. Safe(<<>>, K.has, Worse(t, "iterator"))
  BY BeginsWith, NoWorse DEF Unchecked
<1>12. QED
  BY <1>3, <1>8, <1>9, <1>10, <1>11, SoundBorn DEF Begins

LEMMA SoundIteratorFree ==
  ASSUME NEW K, Begins(K), Self("iterator") \in K.has
  PROVE  Sound(IteratorFree(MaxKeys), K)
<1>1. \A q \in Matters : q \notin Of("iterator")
  BY FieldsOf DEF Of, Matters, Transient, Value, Self, Keys
<1>2. Whole(K.has \ Of("iterator"), K.trouble)
  BY <1>1, BeginsWith, WholeLike, NoHarder DEF Begins
<1>3. MaxKeys \in 0 .. MaxKeys
  <2>1. MaxKeys \in Nat
    BY KeysAssumption
  <2>2. QED
    BY <2>1
<1>4. Of("iterator") \cap K.has
        \subseteq {Self("iterator"), <<"iterator", "keys">>} \cup Keys("iterator", MaxKeys)
  BY FieldsOf DEF Self
<1>5. Safe(IteratorFree(MaxKeys), K.has, K.trouble)
  BY <1>2, <1>3, <1>4, BeginsWith, SafeIteratorFree
<1>6. QED
  BY <1>5 DEF Safe, Begins

-----------------------------------------------------------------------------
(* Tokens, and the references of the client.                               *)

(* Between calls the parser has neither a new text nor a new value. *)
HasParser(K) ==
  /\ Begins(K) /\ Self("parser") \in K.has
  /\ <<"parser", "newtext">> \notin K.has /\ Value \notin K.has

LEMMA ParserFields ==
  /\ "parser" \in Objects
  /\ \A part \in {"self", "text", "newtext", "value", "string"} : <<"parser", part>> \in Pointers
  /\ Text \in Pointers /\ Value \in Pointers
  /\ Whose(Text) = "malloc" /\ Whose(<<"parser", "newtext">>) = "malloc"
  /\ Whose(Value) = "pool" /\ Whose(<<"parser", "string">>) = "pool"
  /\ Text \notin Matters /\ <<"parser", "string">> \notin Matters
BY DEF Objects, Pointers, Text, Value, Whose, Matters, Transient, Self, Keys

(* Setting and unsetting the text and the string disturbs nothing. *)
LEMMA WholeText ==
  ASSUME NEW has, NEW t \in Troubles, Whole(has, t), NEW after,
         \A q \in Pointers \ {Text, <<"parser", "string">>} : q \in after <=> q \in has
  PROVE  Whole(after, t)
<1>1. Matters \subseteq Pointers \ {Text, <<"parser", "string">>}
  <2>1. Matters \subseteq Pointers
    BY FieldsOf DEF Matters, Transient, Value, Pointers, Self, Keys
  <2>2. QED
    BY <2>1, ParserFields
<1>2. QED
  BY <1>1, WholeLike, NoHarder

LEMMA SafeCapture ==
  ASSUME NEW q, NEW has, NEW t \in Troubles, Self("parser") \in has,
         <<"parser", "newtext">> \notin has, Safe(q, has \cup {Text}, t)
  PROVE  Safe(CaptureText \o q, has, t)
<1> DEFINE new == <<"parser", "newtext">>
           look == <<Follow("parser", "newtext")>>
           h1 == has \cup {new}
           h2 == h1 \ {Text}
           p2 == <<Move("parser", "newtext", "text")>> \o q
           p1 == <<Free("parser", "text", "malloc")>> \o p2
<1>1. /\ "parser" \in Objects /\ new \in Pointers /\ Text \in Pointers /\ new # Text
      /\ Whose(new) = "malloc" /\ Whose(Text) = "malloc" /\ "text" \in Unchecked
      /\ new # Self("parser") /\ Text # Self("parser")
  BY ParserFields DEF Text, Self, Unchecked
<1>2. (h2 \ {new}) \cup {Text} = has \cup {Text}
  BY <1>1
<1>3. Self("parser") \in h1 /\ Self("parser") \in h2 /\ new \in h2 /\ Text \notin h2
  BY <1>1
<1> HIDE DEF h2
<1>4. Safe(p2, h2, t)
  BY <1>1, <1>2, <1>3, SafeMove DEF Text
<1> HIDE DEF p2
<1>5. Safe(p1, h1, t)
  <2> HIDE DEF h1
  <2>1. Safe(p2, h1 \ {Text}, t)
    BY <1>4 DEF h2
  <2>2. QED
    BY <1>1, <1>3, <2>1, SafeFree DEF Text
<1> HIDE DEF p1
<1>6. Safe(look, has, Worse(t, "text"))
  <2>1. look = <<Follow("parser", "newtext")>> \o <<>>
    BY TupleIsSeq, ConcatNothing
  <2> DEFINE u == Worse(t, "text")
  <2>2. u.unseen
    BY <1>1 DEF Worse
  <2> HIDE DEF u
  <2>3. Safe(<<Follow("parser", "newtext")>> \o <<>>, has, u)
    BY <2>2, EmptyIsSeq, SafeFollow
  <2>4. QED
    BY <2>1, <2>3 DEF u
<1> HIDE DEF look
<1>7. Safe(<<Alloc("parser", "newtext", "malloc", "text", look)>> \o p1, has, t)
  BY <1>1, <1>5, <1>6, SafeAlloc
<1>8. CaptureText \o q = <<Alloc("parser", "newtext", "malloc", "text", look)>> \o p1
  BY ThreeOf DEF CaptureText, look, p1, p2, Safe
<1>9. QED
  BY <1>7, <1>8

(* The new value becomes the string. *)
LEMMA SafeSetStringRef ==
  ASSUME NEW has, NEW t \in Troubles, Self("parser") \in has, Value \notin has,
         Whole(has, t)
  PROVE  Safe(SetStringRef, has \cup {Value}, t)
<1> DEFINE str == <<"parser", "string">>
           h1 == has \cup {Value}
           h2 == h1 \ {str}
           h3 == (h2 \ {Value}) \cup {str}
           p1 == <<Move("parser", "value", "string")>> \o <<>>
<1>1. /\ "parser" \in Objects /\ str \in Pointers /\ Whose(str) = Whose(Value)
      /\ Whose(str) = "pool" /\ str # Value /\ str # Self("parser") /\ Value # Self("parser")
      /\ str = <<"parser", "string">> /\ Value = <<"parser", "value">>
  BY ParserFields DEF Value, Self
<1> HIDE DEF str
<1>2. \A q \in Pointers \ {Text, <<"parser", "string">>} : q \in h3 <=> q \in has
  BY <1>1
<1>3. /\ Self("parser") \in h1 /\ Self("parser") \in h2 /\ Value \in h2 /\ str \notin h2
  BY <1>1
<1> HIDE DEF h3
<1>4. Safe(<<>>, h3, t)
  BY <1>2, WholeText, SafeNil
<1> HIDE DEF h2
<1>5. Safe(p1, h2, t)
  BY <1>1, <1>3, <1>4, SafeMove DEF h3
<1> HIDE DEF p1
<1>6. Safe(<<Free("parser", "string", "pool")>> \o p1, h1, t)
  <2> HIDE DEF h1
  <2>1. QED
    BY <1>1, <1>3, <1>5, SafeFree DEF h2
<1>7. SetStringRef = <<Free("parser", "string", "pool")>> \o p1
  BY TwoAlone DEF SetStringRef, p1
<1>8. QED
  BY <1>6, <1>7

LEMMA SoundString ==
  ASSUME NEW K, HasParser(K), NEW by, NEW call, NEW other,
         by \in {"pool", "malloc"}, call # "keys",
         NEW u, u = Worse(K.trouble, call), Safe(other, K.has \cup {Text}, u)
  PROVE  Sound((CaptureText \o <<Alloc("parser", "value", by, call, other)>>) \o SetStringRef, K)
<1> DEFINE t  == K.trouble
           h  == K.has \cup {Text}
           op == Alloc("parser", "value", by, call, other)
           q  == <<op>> \o SetStringRef
<1>1. /\ Self("parser") \in h /\ Value \notin h /\ t \in Troubles /\ Whole(h, t)
  <2>1. Value # Text /\ t \in Troubles /\ Whole(K.has, t)
    BY BeginsWith DEF Value, Text, HasParser, Begins
  <2>2. Whole(h, t)
    BY <2>1, WholeText
  <2>3. QED
    BY <2>1, <2>2 DEF HasParser
<1> HIDE DEF h
<1>2. Safe(SetStringRef, h \cup {Value}, t)
  BY <1>1, SafeSetStringRef
<1>3. Safe(q, h, t)
  <2>1. "parser" \in Objects /\ Value \in Pointers /\ Value = <<"parser", "value">>
    BY ParserFields DEF Value
  <2>2. Safe(other, h, Worse(t, call))
    BY DEF h
  <2>3. by = Whose(Value) \/ (Value = Value /\ by = "malloc")
    BY ParserFields
  <2>4. QED
    BY <1>1, <1>2, <2>1, <2>2, <2>3, SafeAlloc
<1>4. (CaptureText \o <<op>>) \o SetStringRef = CaptureText \o q
  <2>1. IsSeq(CaptureText)
    BY TriplesAreSeq DEF CaptureText
  <2>2. IsSeq(SetStringRef) /\ IsSeq(<<op>>)
    BY <1>2, TupleIsSeq DEF Safe
  <2> HIDE DEF op
  <2>3. QED
    BY <2>1, <2>2, ConcatAssoc
<1> HIDE DEF q
<1>5. Safe(CaptureText \o q, K.has, t)
  BY <1>1, <1>3, SafeCapture DEF h, HasParser
<1>6. QED
  BY <1>4, <1>5 DEF Safe, HasParser, Begins

LEMMA SoundQuotedString ==
  ASSUME NEW K, HasParser(K)
  PROVE  Sound(QuotedString, K)
<1>1. Whole(K.has \cup {Text}, K.trouble)
  BY BeginsWith, WholeText DEF HasParser, Begins
<1> DEFINE done == <<>>
<1>2. Worse(K.trouble, "string") = K.trouble
  BY BeginsWith, NoWorse DEF Unchecked, HasParser
<1>3. Safe(done, K.has \cup {Text}, K.trouble)
  BY <1>1, SafeNil
<1> HIDE DEF done
<1>4. Sound((CaptureText \o <<Alloc("parser", "value", "pool", "string", done)>>) \o SetStringRef, K)
  BY <1>2, <1>3, SoundString
<1>5. QED
  BY <1>4 DEF QuotedString, done

LEMMA SoundLongString ==
  ASSUME NEW K, HasParser(K)
  PROVE  Sound(LongString, K)
<1> DEFINE look == <<Follow("parser", "value")>>
           u    == Worse(K.trouble, "text")
           h    == K.has \cup {Text}
<1>1. look = <<Follow("parser", "value")>> \o <<>>
  BY TupleIsSeq, ConcatNothing
<1>2. u.unseen
  BY DEF Worse, Unchecked
<1>3. <<"parser", "value">> \notin h
  BY DEF HasParser, Value, Text
<1> HIDE DEF u, h
<1>4. Safe(look, h, u)
  BY <1>1, <1>2, <1>3, EmptyIsSeq, SafeFollow
<1> HIDE DEF look
<1>5. u = Worse(K.trouble, "text") /\ Safe(look, K.has \cup {Text}, u)
  BY <1>4 DEF h, u
<1>6. Sound((CaptureText \o <<Alloc("parser", "value", "malloc", "text", look)>>) \o SetStringRef, K)
  <2>1. "malloc" \in {"pool", "malloc"} /\ "text" # "keys"
    OBVIOUS
  <2>2. QED
    BY <1>5, <2>1, SoundString
<1>7. QED
  BY <1>6 DEF LongString, look

LEMMA SoundOtherToken ==
  ASSUME NEW K, HasParser(K), NEW grows \in BOOLEAN
  PROVE  Sound(OtherToken(grows), K)
<1> DEFINE t  == K.trouble
           h  == K.has \cup {Text}
           op == Realloc("parser", "string", "copy")
           q  == IF grows \/ ~IsSet("parser", "string") THEN <<op>> ELSE <<>>
           h1 == h \cup {<<"parser", "string">>}
           h2 == h \ {<<"parser", "string">>}
<1>1. /\ K.has \subseteq Pointers /\ t \in Troubles /\ Whole(K.has, t)
      /\ Self("parser") \in h /\ <<"parser", "newtext">> \notin K.has
      /\ Self("parser") \in K.has
  BY BeginsWith DEF HasParser, Begins
<1>2. Whole(h, t) /\ Whole(h1, t) /\ Whole(h2, t)
  BY <1>1, WholeText
<1>3. Safe(<<>>, h, t) /\ Safe(<<>>, h1, t) /\ Safe(<<>>, h2, t)
  <2> HIDE DEF h, h1, h2
  <2>1. QED
    BY <1>2, SafeNil
<1>4. Safe(<<op>>, h, t)
  <2>1. <<op>> = <<op>> \o <<>>
    BY TupleIsSeq, ConcatNothing
  <2> HIDE DEF h
  <2>2. Safe(<<op>> \o <<>>, h, t)
    BY <1>1, <1>3, SafeRealloc
  <2>3. QED
    BY <2>1, <2>2
<1>5. Safe(q, h, t)
  <2>1. q = <<op>> \/ q = <<>>
    OBVIOUS
  <2>2. QED
    BY <1>3, <1>4, <2>1
<1>6. OtherToken(grows) = CaptureText \o q
  BY DEF OtherToken
<1> HIDE DEF q
<1>7. Safe(CaptureText \o q, K.has, t)
  BY <1>1, <1>5, SafeCapture
<1>8. QED
  BY <1>6, <1>7 DEF Safe, HasParser, Begins

(* One more reference, or one less, is due as soon as the client says so. *)
LEMMA SoundTake ==
  ASSUME NEW K, Fine(K), Whole(K.has, K.trouble), K.custom, K.refs > 0, K.due = K.refs + 1
  PROVE  Sound(<<Acquire>>, K)
<1> DEFINE K1 == Counted(K, 1)
<1>1. /\ K1.custom = K.custom /\ K1.has = K.has /\ K1.due = K.due /\ K1.trouble = K.trouble
      /\ K1.refs = K.refs + 1
  BY DEF Counted, Seen
<1>2. Fine(K1)
  <2>1. K.refs + 1 \in Nat /\ K.refs + 1 # 0
    BY DEF Fine
  <2>2. QED
    BY <2>1, CountedIsFine
<1> HIDE DEF K1
<1>3. Rest(K1)
  BY <1>1 DEF Rest
<1>4. PICK G : Closed(G) /\ <<<<>>, K1>> \in G
  BY <1>2, <1>3, SoundNil DEF Sound
<1>5. OpIsSound(G, Acquire, <<>>, K)
  BY <1>4 DEF OpIsSound, CountIsSound, Acquire, K1, HoldsPool
<1>6. Sound(<<Acquire>> \o <<>>, K)
  BY <1>4, <1>5, EmptyIsSeq, SoundCons
<1>7. QED
  BY <1>6, TupleIsSeq, ConcatNothing

LEMMA SoundGive ==
  ASSUME NEW K, Fine(K), Whole(K.has, K.trouble), K.custom, K.refs = K.due + 1
  PROVE  Sound(<<Release>>, K)
<1> DEFINE K1 == Counted(K, -1)
<1>1. K.due \in Nat /\ K.refs + (-1) = K.due
  BY DEF Fine
<1>2. /\ K1.custom = K.custom /\ K1.has = K.has /\ K1.due = K.due /\ K1.trouble = K.trouble
      /\ K1.refs = K.due
  BY <1>1 DEF Counted, Seen
<1>3. Fine(K1)
  BY <1>1, CountedIsFine
<1> HIDE DEF K1
<1>4. Rest(K1)
  BY <1>2 DEF Rest
<1>5. PICK G : Closed(G) /\ <<<<>>, K1>> \in G
  BY <1>3, <1>4, SoundNil DEF Sound
<1>6. OpIsSound(G, Release, <<>>, K)
  BY <1>1, <1>5 DEF OpIsSound, CountIsSound, Release, K1, HoldsPool
<1>7. Sound(<<Release>> \o <<>>, K)
  BY <1>5, <1>6, EmptyIsSeq, SoundCons
<1>8. QED
  BY <1>7, TupleIsSeq, ConcatNothing

-----------------------------------------------------------------------------
(* The state, its view and the invariant.                                  *)

LEMMA TallyIsNat ==
  ASSUME NEW s, IsSeq(s), NEW c
  PROVE  IsFiniteSet({i \in DOMAIN s : s[i] = c}) /\ Tally(s, c) \in Nat
<1> DEFINE D == {i \in DOMAIN s : s[i] = c}
<1>1. Len(s) \in Nat /\ DOMAIN s = 1 .. Len(s)
  BY LenProperties DEF IsSeq
<1>2. IsFiniteSet(1 .. Len(s))
  BY <1>1, FS_Interval
<1>3. D \in SUBSET (1 .. Len(s))
  BY <1>1
<1> HIDE DEF D
<1>4. IsFiniteSet(D) /\ Cardinality(D) \in Nat
  BY <1>2, <1>3, FS_Subset, FS_CardinalityType
<1>5. QED
  BY <1>4 DEF D, Tally

LEMMA TallyMore ==
  ASSUME NEW s, IsSeq(s), NEW x, NEW c
  PROVE  /\ IsSeq(Append(s, x))
         /\ Tally(Append(s, x), c) = IF c = x THEN Tally(s, c) + 1 ELSE Tally(s, c)
<1> DEFINE r == Append(s, x)
           D == {i \in DOMAIN s : s[i] = c}
           E == {i \in DOMAIN r : r[i] = c}
<1>1. PICK T : s \in Seq(T)
  BY DEF IsSeq
<1> DEFINE S == T \cup {x}
<1>2. s \in Seq(S) /\ x \in S
  BY <1>1
<1> HIDE DEF S
<1>3. /\ r \in Seq(S) /\ Len(r) = Len(s) + 1
      /\ \A i \in 1 .. Len(s) : r[i] = s[i]
      /\ r[Len(s) + 1] = x
  BY <1>2, AppendProperties
<1>4. Len(s) \in Nat /\ DOMAIN s = 1 .. Len(s) /\ DOMAIN r = 1 .. Len(s) + 1
  BY <1>2, <1>3, LenProperties
<1> HIDE DEF r
<1>5. E = IF c = x THEN D \cup {Len(s) + 1} ELSE D
  BY <1>3, <1>4
<1>6. Len(s) + 1 \notin D
  BY <1>4
<1>7. IsFiniteSet(D) /\ Cardinality(D) \in Nat
  BY TallyIsNat DEF Tally
<1> HIDE DEF D, E
<1>8. Cardinality(E) = IF c = x THEN Cardinality(D) + 1 ELSE Cardinality(D)
  BY <1>5, <1>6, <1>7, FS_AddElement
<1>9. IsSeq(r)
  BY <1>3 DEF IsSeq
<1>10. QED
  BY <1>8, <1>9 DEF Tally, D, E, r

LEMMA TroubleMore ==
  ASSUME NEW s, IsSeq(s), NEW call
  PROVE  Trouble(s) \in Troubles /\ Trouble(Append(s, call)) = Worse(Trouble(s), call)
<1> DEFINE r == Append(s, call)
           t == Trouble(s)
<1>1. \A c : /\ Tally(r, c) = IF c = call THEN Tally(s, c) + 1 ELSE Tally(s, c)
             /\ Tally(s, c) \in Nat
  <2>1. \A c : Tally(s, c) \in Nat
    BY TallyIsNat
  <2>2. \A c : Tally(r, c) = IF c = call THEN Tally(s, c) + 1 ELSE Tally(s, c)
    BY TallyMore
  <2>3. QED
    BY <2>1, <2>2
<1> HIDE DEF r
<1>2. /\ t \in Troubles /\ t.tight = Tally(s, "larger")
      /\ t.unseen = \E c \in Unchecked : Tally(s, c) > 0
  BY <1>1 DEF Trouble, Troubles
<1>3. (\E c \in Unchecked : Tally(r, c) > 0)
        = IF call \in Unchecked THEN TRUE ELSE t.unseen
  <2>1. \A c : Tally(r, c) > 0 <=> Tally(s, c) > 0 \/ c = call
    BY <1>1
  <2>2. CASE call \in Unchecked
    BY <2>1, <2>2
  <2>3. CASE call \notin Unchecked
    <3>1. (\E c \in Unchecked : Tally(r, c) > 0) <=> (\E c \in Unchecked : Tally(s, c) > 0)
      BY <2>1, <2>3
    <3>2. QED
      BY <1>2, <2>3, <3>1
  <2>4. QED
    BY <2>2, <2>3
<1>4. Tally(r, "larger") = IF call = "larger" THEN t.tight + 1 ELSE t.tight
  BY <1>1, <1>2
<1> HIDE DEF t
<1>5. Trouble(r) = Worse(t, call)
  BY <1>3, <1>4 DEF Trouble, Worse
<1>6. QED
  BY <1>2, <1>5 DEF r, t

LEMMA ViewParts ==
  /\ View.custom = custom /\ View.has = DOMAIN blocks /\ View.refs = refs
  /\ View.due = mine + Cardinality(LivingIn(DOMAIN blocks)) + Tally(refused, "keys")
  /\ View.trouble = Trouble(refused)
<1>1. Living = LivingIn(DOMAIN blocks)
  BY DEF Living, LivingIn, Alive, IsSet, Self
<1>2. \A c : Times(c) = Tally(refused, c)
  BY DEF Times, Tally
<1>3. QED
  BY <1>1, <1>2 DEF View, Seen

(* The view is all that its parts say. *)
LEMMA ViewIs ==
  View = Seen(custom, DOMAIN blocks, refs,
              mine + Cardinality(LivingIn(DOMAIN blocks)) + Tally(refused, "keys"),
              Trouble(refused))
<1>1. Living = LivingIn(DOMAIN blocks)
  BY DEF Living, LivingIn, Alive, IsSet, Self
<1>2. \A c : Times(c) = Tally(refused, c)
  BY DEF Times, Tally
<1>3. QED
  BY <1>1, <1>2 DEF View

LEMMA ViewNext ==
  View' = Seen(custom', DOMAIN blocks', refs',
               mine' + Cardinality(LivingIn(DOMAIN blocks')) + Tally(refused', "keys"),
               Trouble(refused'))
<1>1. Living' = LivingIn(DOMAIN blocks')
  BY DEF Living, LivingIn, Alive, IsSet, Self
<1>2. \A c : Times(c)' = Tally(refused', c)
  BY DEF Times, Tally
<1>3. QED
  BY <1>1, <1>2 DEF View

(* A block is from the allocator it will be given back to, unless a value  *)
(* from malloc has been among them.                                        *)
BlocksAreOwned == ~foreign => \A q \in DOMAIN blocks : blocks[q] = Owner(Whose(q))

LInv ==
  /\ custom \in BOOLEAN /\ foreign \in BOOLEAN
  /\ mine \in Nat /\ IsSeq(refused)
  /\ fault \in {"", "null", "foreign"}
  /\ Sound(todo, View)
  /\ BlocksAreOwned
  /\ NothingIsLost
  /\ FaultsAreKnown

-----------------------------------------------------------------------------
(* What an operation does to the view.                                     *)

LEMMA ViewGranted ==
  ASSUME LInv, NEW q \in Pointers, q[2] = "self" => q \notin DOMAIN blocks,
         DOMAIN blocks' = DOMAIN blocks \cup {q}, UNCHANGED <<custom, refs, mine, refused>>
  PROVE  View' = Granted(View, q)
<1> DEFINE has == DOMAIN blocks
<1>1. /\ View.custom = custom /\ View.has = has /\ View.refs = refs
      /\ View.due = mine + Cardinality(LivingIn(has)) + Tally(refused, "keys")
      /\ View.trouble = Trouble(refused)
  BY ViewParts
<1>2. Cardinality(LivingIn(has)) \in Nat /\ Tally(refused, "keys") \in Nat /\ mine \in Nat
  BY LivingFinite, TallyIsNat DEF LInv
<1>3. q = <<q[1], q[2]>> /\ q[1] \in Objects
  BY PointerParts
<1>4. Cardinality(LivingIn(has \cup {q}))
        = IF q[2] = "self" THEN Cardinality(LivingIn(has)) + 1 ELSE Cardinality(LivingIn(has))
  <2>1. CASE q[2] = "self"
    <3>1. q = Self(q[1])
      BY <1>3, <2>1 DEF Self
    <3>2. QED
      BY <1>3, <2>1, <3>1, LivingBorn
  <2>2. CASE q[2] # "self"
    <3>1. \A o \in Objects : Self(o) \in has <=> Self(o) \in has \cup {q}
      BY <2>2 DEF Self
    <3>2. LivingIn(has) = LivingIn(has \cup {q})
      BY <3>1, LivingSame
    <3>3. QED
      BY <2>2, <3>2
  <2>3. QED
    BY <2>1, <2>2
<1>5. View' = Seen(custom, has \cup {q}, refs,
                   mine + Cardinality(LivingIn(has \cup {q})) + Tally(refused, "keys"),
                   Trouble(refused))
  <2>1. View' = Seen(custom', DOMAIN blocks', refs',
                     mine' + Cardinality(LivingIn(DOMAIN blocks')) + Tally(refused', "keys"),
                     Trouble(refused'))
    BY ViewNext
  <2>2. QED
    BY <2>1
<1>6. Granted(View, q)
        = Seen(custom, has \cup {q}, refs,
               IF q[2] = "self" THEN View.due + 1 ELSE View.due,
               Trouble(refused))
  BY <1>1 DEF Granted
<1>7. (IF q[2] = "self" THEN View.due + 1 ELSE View.due)
        = mine + Cardinality(LivingIn(has \cup {q})) + Tally(refused, "keys")
  BY <1>1, <1>2, <1>4
<1>8. QED
  BY <1>5, <1>6, <1>7

LEMMA ViewFreed ==
  ASSUME LInv, NEW q \in Pointers, q[2] = "self" => q \in DOMAIN blocks,
         DOMAIN blocks \subseteq Pointers,
         DOMAIN blocks' = DOMAIN blocks \ (IF q[2] = "self" THEN Of(q[1]) ELSE {q}),
         UNCHANGED <<custom, refs, mine, refused>>
  PROVE  View' = Freed(View, q)
<1> DEFINE has == DOMAIN blocks
           now == DOMAIN blocks'
<1>1. /\ View.custom = custom /\ View.has = has /\ View.refs = refs
      /\ View.due = mine + Cardinality(LivingIn(has)) + Tally(refused, "keys")
      /\ View.trouble = Trouble(refused)
  BY ViewParts
<1>2. Cardinality(LivingIn(has)) \in Nat /\ Tally(refused, "keys") \in Nat /\ mine \in Nat
  BY LivingFinite, TallyIsNat DEF LInv
<1>3. q = <<q[1], q[2]>> /\ q[1] \in Objects
  BY PointerParts
<1>4. View' = Seen(custom, now, refs,
                   mine + Cardinality(LivingIn(now)) + Tally(refused, "keys"),
                   Trouble(refused))
  BY ViewNext
<1>5. CASE q[2] = "self"
  <2>1. q = Self(q[1]) /\ now = has \ Of(q[1])
    BY <1>3, <1>5 DEF Self
  <2>2. Cardinality(LivingIn(now)) = Cardinality(LivingIn(has)) - 1
    BY <1>3, <1>5, <2>1, LivingGone
  <2>3. View.due - 1 = mine + Cardinality(LivingIn(now)) + Tally(refused, "keys")
    BY <1>1, <1>2, <2>2
  <2>4. QED
    BY <1>1, <1>4, <1>5, <2>1, <2>3 DEF Freed
<1>6. CASE q[2] # "self"
  <2>1. now = has \ {q}
    BY <1>6
  <2>2. \A o \in Objects : Self(o) \in has <=> Self(o) \in now
    BY <1>6, <2>1 DEF Self
  <2>3. LivingIn(has) = LivingIn(now)
    BY <2>2, LivingSame
  <2>4. QED
    BY <1>1, <1>4, <1>6, <2>1, <2>3 DEF Freed
<1>7. QED
  BY <1>5, <1>6

LEMMA ViewDenied ==
  ASSUME LInv, NEW call, refused' = Append(refused, call), DOMAIN blocks' = DOMAIN blocks,
         UNCHANGED <<custom, refs, mine>>
  PROVE  View' = Denied(View, call)
<1> DEFINE has == DOMAIN blocks
<1>1. /\ View.custom = custom /\ View.has = has /\ View.refs = refs
      /\ View.due = mine + Cardinality(LivingIn(has)) + Tally(refused, "keys")
      /\ View.trouble = Trouble(refused)
  BY ViewParts
<1>2. Cardinality(LivingIn(has)) \in Nat /\ Tally(refused, "keys") \in Nat /\ mine \in Nat
  BY LivingFinite, TallyIsNat DEF LInv
<1>3. \A c : /\ Tally(refused', c) = IF c = call THEN Tally(refused, c) + 1 ELSE Tally(refused, c)
             /\ Tally(refused, c) \in Nat
  <2>1. IsSeq(refused)
    BY DEF LInv
  <2>2. \A c : Tally(refused, c) \in Nat
    BY <2>1, TallyIsNat
  <2>3. \A c : Tally(refused', c) = IF c = call THEN Tally(refused, c) + 1 ELSE Tally(refused, c)
    BY <2>1, TallyMore
  <2>4. QED
    BY <2>2, <2>3
<1>4. View' = Seen(custom, has, refs,
                   mine + Cardinality(LivingIn(has)) + Tally(refused', "keys"),
                   Trouble(refused'))
  BY ViewNext
<1>5. mine + Cardinality(LivingIn(has)) + Tally(refused', "keys")
        = IF call = "keys" THEN View.due + 1 ELSE View.due
  BY <1>1, <1>2, <1>3
<1>6. Trouble(refused') = Worse(View.trouble, call)
  BY <1>1, TroubleMore DEF LInv
<1>7. QED
  BY <1>1, <1>4, <1>5, <1>6 DEF Denied

LEMMA ViewSame ==
  ASSUME UNCHANGED <<custom, refs, mine, blocks, refused>>
  PROVE  View' = View
BY ViewIs, ViewNext

LEMMA ViewMoved ==
  ASSUME NEW q, NEW into, q[2] # "self", into[2] # "self",
         DOMAIN blocks' = (DOMAIN blocks \ {q}) \cup {into},
         UNCHANGED <<custom, refs, mine, refused>>
  PROVE  View' = Moved(View, q, into)
<1>1. \A o \in Objects : Self(o) \in DOMAIN blocks <=> Self(o) \in DOMAIN blocks'
  BY DEF Self
<1>2. LivingIn(DOMAIN blocks) = LivingIn(DOMAIN blocks')
  BY <1>1, LivingSame
<1>3. QED
  BY <1>2, ViewIs, ViewNext, ViewParts DEF Moved

LEMMA ViewCounted ==
  ASSUME NEW by, refs' = IF custom THEN refs + by ELSE refs,
         UNCHANGED <<custom, mine, blocks, refused>>
  PROVE  View' = Counted(View, by)
BY ViewIs, ViewNext, ViewParts DEF Counted

-----------------------------------------------------------------------------
(* Every operation keeps the invariant.                                    *)

(* What is being done is sound. *)
LEMMA DoingIsSound ==
  ASSUME LInv, fault = "", todo # <<>>
  PROVE  /\ Fine(View)
         /\ \E G : Closed(G) /\ OpIsSound(G, Head(todo), Tail(todo), View)
<1>1. PICK G : Closed(G) /\ <<todo, View>> \in G
  BY DEF LInv, Sound
<1>2. Fine(View) /\ OpIsSound(G, Head(todo), Tail(todo), View)
  BY <1>1 DEF Closed
<1>3. QED
  BY <1>1, <1>2

LEMMA PoolIsThere ==
  ASSUME NEW by, by = "pool" => HoldsPool(View)
  PROVE  ~PoolIsGone(by)
<1>1. View.custom = custom /\ View.refs = refs
  BY ViewParts
<1>2. QED
  BY <1>1 DEF PoolIsGone, HoldsPool

(* A loss that is known to be one stays so, whatever is refused. *)
LEMMA StillKnown ==
  ASSUME LInv, NEW call, refused' = Append(refused, call),
         \A b \in lost' : b \in lost \/ (b[1] = "string" /\ Times("copy")' > 0)
  PROVE  NothingIsLost'
<1>1. \A c : Tally(refused, c) \in Nat /\ Tally(refused', c) \in Nat
             /\ Tally(refused', c) >= Tally(refused, c)
  <2>1. IsSeq(refused)
    BY DEF LInv
  <2>2. \A c : Tally(refused, c) \in Nat
    BY <2>1, TallyIsNat
  <2>3. \A c : Tally(refused', c) = IF c = call THEN Tally(refused, c) + 1 ELSE Tally(refused, c)
    BY <2>1, TallyMore
  <2>4. QED
    BY <2>2, <2>3
<1>2. \A c : Times(c) = Tally(refused, c) /\ Times(c)' = Tally(refused', c)
  BY DEF Times, Tally
<1>3. /\ Times("copy") > 0 => Times("copy")' > 0
      /\ Times("larger") > 2 => Times("larger")' > 2
  BY <1>1, <1>2
<1>4. ASSUME NEW b \in lost
      PROVE  \/ b[1] = "text"
             \/ b[1] = "string" /\ Times("copy")' > 0
             \/ b[1] = "newkey" /\ Times("larger")' > 2
  BY <1>3 DEF LInv, NothingIsLost
<1>5. QED
  BY <1>4 DEF NothingIsLost

LEMMA AllocKeeps ==
  ASSUME LInv, DoAlloc
  PROVE  LInv'
<1> DEFINE p == Place(Op)
<1>1. fault = "" /\ todo # <<>> /\ Op.do = "alloc" /\ Pointer = p /\ Op = Head(todo)
  BY DEF DoAlloc, Doing, Pointer, Place, Op
<1>2. PICK G : Closed(G) /\ AllocIsSound(G, Op, Tail(todo), View)
  BY <1>1, DoingIsSound DEF OpIsSound
<1>3. /\ Op.by = "pool" => HoldsPool(View)
      /\ p \in Pointers /\ p \notin DOMAIN blocks
      /\ Op.by = Whose(p) \/ (p = Value /\ Op.by = "malloc")
      /\ <<Tail(todo), Granted(View, p)>> \in G
      /\ <<Op.otherwise, Denied(View, Op.call)>> \in G
  BY <1>2, ViewParts DEF AllocIsSound
<1>4. ~PoolIsGone(Op.by)
  BY <1>3, PoolIsThere
<1>5. /\ foreign' = (foreign \/ (custom /\ p = <<"parser", "value">> /\ Op.by = "malloc"))
      /\ UNCHANGED <<custom, refs, mine, fault>>
  BY <1>1, <1>4 DEF DoAlloc
<1> HIDE DEF p
<1>6. custom' \in BOOLEAN /\ foreign' \in BOOLEAN /\ mine' \in Nat
      /\ fault' = ""
  BY <1>1, <1>5 DEF LInv
<1>7. FaultsAreKnown'
  BY <1>6 DEF FaultsAreKnown
<1>8. CASE /\ blocks' = With(Pointer, Owner(Op.by))
           /\ Lose({Pointer} \cap DOMAIN blocks)
           /\ todo' = Tail(todo)
           /\ UNCHANGED refused
  <2>1. blocks' = [q \in DOMAIN blocks \cup {p} |-> IF q = p THEN Owner(Op.by) ELSE blocks[q]]
    BY <1>1, <1>8 DEF With
  <2>2. DOMAIN blocks' = DOMAIN blocks \cup {p}
    BY <2>1
  <2>3. View' = Granted(View, p)
    BY <1>3, <1>5, <1>8, <2>2, ViewGranted
  <2>4. Sound(todo, View)'
    BY <1>2, <1>3, <1>8, <2>3 DEF Sound
  <2>5. BlocksAreOwned'
    <3> SUFFICES ASSUME ~foreign', NEW q \in DOMAIN blocks'
                 PROVE  blocks'[q] = Owner(Whose(q))'
      BY DEF BlocksAreOwned
    <3>1. Owner(Whose(q))' = Owner(Whose(q)) /\ ~foreign
      BY <1>5 DEF Owner
    <3>2. CASE q = p
      <4>1. Owner(Op.by) = Owner(Whose(p))
        <5>1. CASE Op.by = Whose(p)
          BY <5>1
        <5>2. CASE p = Value /\ Op.by = "malloc"
          <6>1. Whose(p) = "pool" /\ p = <<"parser", "value">>
            BY <5>2 DEF Whose, Value, Text
          <6>2. ~custom
            BY <1>5, <5>2, <6>1
          <6>3. QED
            BY <5>2, <6>1, <6>2 DEF Owner
        <5>3. QED
          BY <1>3, <5>1, <5>2
      <4>2. QED
        BY <2>1, <3>1, <3>2, <4>1
    <3>3. CASE q # p
      <4>1. q \in DOMAIN blocks /\ blocks'[q] = blocks[q]
        BY <2>1, <3>3
      <4>2. QED
        BY <3>1, <4>1 DEF LInv, BlocksAreOwned
    <3>4. QED
      BY <3>2, <3>3
  <2>6. lost' = lost
    BY <1>1, <1>3, <1>8 DEF Lose
  <2>7. NothingIsLost'
    BY <1>8, <2>6 DEF LInv, NothingIsLost, Times
  <2>8. IsSeq(refused)'
    BY <1>8 DEF LInv
  <2>9. QED
    BY <1>6, <1>7, <2>4, <2>5, <2>7, <2>8 DEF LInv
<1>9. CASE /\ refused' = Append(refused, Op.call)
           /\ todo' = Op.otherwise
           /\ UNCHANGED <<blocks, lost>>
  <2>1. View' = Denied(View, Op.call)
    BY <1>5, <1>9, ViewDenied
  <2>2. Sound(todo, View)'
    BY <1>2, <1>3, <1>9, <2>1 DEF Sound
  <2>3. BlocksAreOwned'
    BY <1>5, <1>9 DEF LInv, BlocksAreOwned, Owner
  <2>4. IsSeq(refused)'
    BY <1>9, TallyMore DEF LInv
  <2>5. NothingIsLost'
    BY <1>9, StillKnown
  <2>6. QED
    BY <1>6, <1>7, <2>2, <2>3, <2>4, <2>5 DEF LInv
<1>10. QED
  BY <1>4, <1>8, <1>9 DEF DoAlloc

LEMMA ReallocKeeps ==
  ASSUME LInv, DoRealloc
  PROVE  LInv'
<1> DEFINE p == Place(Op)
<1>1. fault = "" /\ todo # <<>> /\ Op.do = "realloc" /\ Pointer = p /\ Op = Head(todo)
      /\ p = <<Op.obj, Op.part>>
  BY DEF DoRealloc, Doing, Pointer, Place, Op
<1>2. PICK G : Closed(G) /\ ReallocIsSound(G, Op, Tail(todo), View)
  BY <1>1, DoingIsSound DEF OpIsSound
<1>3. /\ HoldsPool(View)
      /\ p = <<"parser", "string">> /\ Op.call = "copy"
      /\ <<Tail(todo), Granted(View, p)>> \in G
      /\ <<Tail(todo), Freed(View, p)>> \in G
  BY <1>2 DEF ReallocIsSound
<1>4. ~PoolIsGone("pool")
  BY <1>3, PoolIsThere
<1>5. Whose(p) = "pool" /\ p \in Pointers /\ p[2] # "self" /\ p[2] = "string"
  BY <1>3, ParserFields
<1>6. DOMAIN blocks \subseteq Pointers
  BY <1>1, DoingIsSound, ViewParts DEF Fine
<1>7. CASE IsSet(Op.obj, Op.part) /\ blocks[Pointer] # Owner("pool")
  <2>1. /\ fault' = "foreign"
        /\ UNCHANGED <<custom, refs, mine, blocks, lost, refused, foreign, todo>>
    BY <1>4, <1>7 DEF DoRealloc, Fails
  <2>2. foreign
    BY <1>1, <1>5, <1>7 DEF IsSet, LInv, BlocksAreOwned
  <2>3. View' = View
    BY <2>1, ViewSame
  <2>4. Sound(todo, View)'
    BY <2>1, <2>3 DEF LInv
  <2>5. FaultsAreKnown'
    BY <2>1, <2>2 DEF FaultsAreKnown
  <2>6. NothingIsLost' /\ BlocksAreOwned'
    BY <2>1 DEF LInv, NothingIsLost, BlocksAreOwned, Owner, Times
  <2>7. QED
    BY <2>1, <2>4, <2>5, <2>6 DEF LInv
<1>8. CASE ~(IsSet(Op.obj, Op.part) /\ blocks[Pointer] # Owner("pool"))
  <2>1. todo' = Tail(todo) /\ UNCHANGED <<custom, refs, mine, foreign, fault>>
    BY <1>4, <1>8 DEF DoRealloc
  <2>2. FaultsAreKnown'
    BY <1>1, <2>1 DEF FaultsAreKnown
  <2>3. CASE blocks' = With(Pointer, Owner("pool")) /\ UNCHANGED <<refused, lost>>
    <3>1. blocks' = [q \in DOMAIN blocks \cup {p} |-> IF q = p THEN Owner("pool") ELSE blocks[q]]
      BY <1>1, <2>3 DEF With
    <3> HIDE DEF p
    <3>2. DOMAIN blocks' = DOMAIN blocks \cup {p}
      BY <3>1
    <3>3. View' = Granted(View, p)
      BY <1>5, <2>1, <2>3, <3>2, ViewGranted
    <3>4. Sound(todo, View)'
      BY <1>2, <1>3, <2>1, <3>3 DEF Sound
    <3>5. BlocksAreOwned'
      BY <1>5, <2>1, <3>1 DEF LInv, BlocksAreOwned, Owner
    <3>6. NothingIsLost'
      BY <2>3 DEF LInv, NothingIsLost, Times
    <3>7. QED
      BY <2>1, <2>2, <2>3, <3>4, <3>5, <3>6 DEF LInv
  <2>4. CASE /\ refused' = Append(refused, Op.call)
             /\ Lose({Pointer} \cap DOMAIN blocks)
             /\ blocks' = Without({Pointer})
    <3> HIDE DEF p
    <3>1. blocks' = [q \in DOMAIN blocks \ {p} |-> blocks[q]]
      BY <1>1, <2>4 DEF Without
    <3>2. DOMAIN blocks' = DOMAIN blocks \ {p}
      BY <3>1
    <3>3. View' = Freed(View, p)
      <4>1. \A c : Tally(refused', c) = IF c = "copy" THEN Tally(refused, c) + 1
                                                     ELSE Tally(refused, c)
        <5>1. IsSeq(refused)
          BY DEF LInv
        <5>2. QED
          BY <1>3, <2>4, <5>1, TallyMore
      <4>2. Trouble(refused') = Trouble(refused)
        BY <1>3, <2>4, TroubleMore, NoWorse DEF LInv, Unchecked
      <4>3. Tally(refused', "keys") = Tally(refused, "keys")
        BY <4>1
      <4>4. \A o \in Objects : Self(o) \in DOMAIN blocks <=> Self(o) \in DOMAIN blocks'
        BY <1>5, <3>2 DEF Self
      <4>5. LivingIn(DOMAIN blocks) = LivingIn(DOMAIN blocks')
        BY <4>4, LivingSame
      <4>6. View' = Seen(View.custom, View.has \ {p}, View.refs, View.due, View.trouble)
        BY <2>1, <3>2, <4>2, <4>3, <4>5, ViewNext, ViewParts
      <4>7. QED
        BY <1>5, <4>6 DEF Freed
    <3>4. Sound(todo, View)'
      BY <1>2, <1>3, <2>1, <3>3 DEF Sound
    <3>5. BlocksAreOwned'
      BY <2>1, <3>1 DEF LInv, BlocksAreOwned, Owner
    <3>6. IsSeq(refused)' /\ Times("copy")' > 0
      <4>1. IsSeq(refused)
        BY DEF LInv
      <4>2. Tally(refused, "copy") \in Nat
        BY <4>1, TallyIsNat
      <4>3. IsSeq(refused') /\ Tally(refused', "copy") = Tally(refused, "copy") + 1
        BY <1>3, <2>4, <4>1, TallyMore
      <4>4. QED
        BY <4>2, <4>3 DEF Times, Tally
    <3>7. NothingIsLost'
      <4>1. \A b \in lost' : b \in lost \/ b = <<p[2], blocks[p]>>
        BY <1>1, <2>4 DEF Lose
      <4>2. \A b \in lost' : b \in lost \/ b[1] = "string"
        BY <1>5, <4>1
      <4>3. QED
        BY <2>4, <3>6, <4>2, StillKnown
    <3>8. QED
      BY <2>1, <2>2, <3>4, <3>5, <3>6, <3>7 DEF LInv
  <2>5. QED
    BY <1>4, <1>8, <2>3, <2>4 DEF DoRealloc
<1>9. QED
  BY <1>7, <1>8

LEMMA FreeKeeps ==
  ASSUME LInv, DoFree
  PROVE  LInv'
<1> DEFINE p == Place(Op)
<1>1. fault = "" /\ todo # <<>> /\ Op.do = "free" /\ Pointer = p /\ Op = Head(todo)
      /\ p = <<Op.obj, Op.part>>
  BY DEF DoFree, Doing, Pointer, Place, Op
<1>2. PICK G : Closed(G) /\ FreeIsSound(G, Op, Tail(todo), View)
  BY <1>1, DoingIsSound DEF OpIsSound
<1>3. /\ Op.by = "pool" => HoldsPool(View)
      /\ p \in Pointers /\ Op.by = Whose(p)
      /\ Op.part = "self" => /\ p \in DOMAIN blocks
                             /\ (Of(Op.obj) \cap DOMAIN blocks) \ {p} \subseteq {Text}
      /\ <<Tail(todo), Freed(View, p)>> \in G
  BY <1>2, ViewParts DEF FreeIsSound
<1>4. ~PoolIsGone(Op.by)
  BY <1>3, PoolIsThere
<1>5. p[1] = Op.obj /\ p[2] = Op.part
  BY DEF Place
<1>6. DOMAIN blocks \subseteq Pointers
  BY <1>1, DoingIsSound, ViewParts DEF Fine
<1>7. CASE IsSet(Op.obj, Op.part) /\ blocks[Pointer] # Owner(Op.by)
  <2>1. /\ fault' = "foreign"
        /\ UNCHANGED <<custom, refs, mine, blocks, lost, refused, foreign, todo>>
    BY <1>4, <1>7 DEF DoFree, Fails
  <2>2. foreign
    BY <1>1, <1>3, <1>7 DEF IsSet, LInv, BlocksAreOwned
  <2>3. View' = View
    BY <2>1, ViewSame
  <2>4. Sound(todo, View)'
    BY <2>1, <2>3 DEF LInv
  <2>5. FaultsAreKnown'
    BY <2>1, <2>2 DEF FaultsAreKnown
  <2>6. NothingIsLost' /\ BlocksAreOwned'
    BY <2>1 DEF LInv, NothingIsLost, BlocksAreOwned, Owner, Times
  <2>7. QED
    BY <2>1, <2>4, <2>5, <2>6 DEF LInv
<1>8. CASE ~(IsSet(Op.obj, Op.part) /\ blocks[Pointer] # Owner(Op.by))
  <2> DEFINE gone == IF Op.part = "self" THEN {q \in DOMAIN blocks : q[1] = Op.obj}
                                         ELSE {Pointer}
  <2>1. /\ todo' = Tail(todo) /\ UNCHANGED <<custom, refs, mine, refused, foreign, fault>>
        /\ Lose((gone \ {Pointer}) \cap DOMAIN blocks)
        /\ blocks' = Without(gone)
    BY <1>4, <1>8 DEF DoFree
  <2>2. FaultsAreKnown'
    BY <1>1, <2>1 DEF FaultsAreKnown
  <2>3. blocks' = [q \in DOMAIN blocks \ gone |-> blocks[q]]
    BY <2>1 DEF Without
  <2>4. DOMAIN blocks \ gone = DOMAIN blocks \ (IF p[2] = "self" THEN Of(p[1]) ELSE {p})
    BY <1>1, <1>5, <1>6 DEF Of
  <2> HIDE DEF p
  <2>5. View' = Freed(View, p)
    <3>1. DOMAIN blocks' = DOMAIN blocks \ (IF p[2] = "self" THEN Of(p[1]) ELSE {p})
      BY <2>3, <2>4
    <3>2. p[2] = "self" => p \in DOMAIN blocks
      BY <1>3, <1>5
    <3>3. QED
      BY <1>3, <1>6, <2>1, <3>1, <3>2, ViewFreed
  <2>6. Sound(todo, View)'
    BY <1>2, <1>3, <2>1, <2>5 DEF Sound
  <2>7. BlocksAreOwned'
    BY <2>1, <2>3 DEF LInv, BlocksAreOwned, Owner
  <2>8. (gone \ {Pointer}) \cap DOMAIN blocks \subseteq {Text}
    BY <1>1, <1>3, <1>6 DEF Of
  <2> HIDE DEF gone
  <2>9. NothingIsLost'
    <3> SUFFICES ASSUME NEW b \in lost', b \notin lost PROVE b[1] = "text"
      BY <2>1 DEF NothingIsLost, LInv, Times
    <3>1. b = <<Text[2], blocks[Text]>>
      BY <2>1, <2>8 DEF Lose
    <3>2. QED
      BY <3>1 DEF Text
  <2>10. QED
    BY <2>1, <2>2, <2>6, <2>7, <2>9 DEF LInv
<1>9. QED
  BY <1>7, <1>8

LEMMA MoveKeeps ==
  ASSUME LInv, DoMove
  PROVE  LInv'
<1> DEFINE p    == Place(Op)
           into == <<Op.obj, Op.into>>
<1>1. fault = "" /\ todo # <<>> /\ Op.do = "move" /\ Pointer = p /\ Op = Head(todo)
      /\ p = <<Op.obj, Op.part>>
  BY DEF DoMove, Doing, Pointer, Place, Op
<1>2. PICK G : Closed(G) /\ MoveIsSound(G, Op, Tail(todo), View)
  BY <1>1, DoingIsSound DEF OpIsSound
<1>3. /\ p \in DOMAIN blocks /\ p[2] # "self" /\ into[2] # "self"
      /\ into \notin DOMAIN blocks /\ Whose(p) = Whose(into)
      /\ <<Tail(todo), Moved(View, p, into)>> \in G
  <2>1. /\ p \in DOMAIN blocks /\ Op.part # "self" /\ Op.into # "self"
        /\ into \notin DOMAIN blocks /\ Whose(p) = Whose(into)
        /\ <<Tail(todo), Moved(View, p, into)>> \in G
    BY <1>2, ViewParts DEF MoveIsSound
  <2>2. p[2] = Op.part /\ into[2] = Op.into
    BY DEF Place
  <2>3. QED
    BY <2>1, <2>2
<1>4. /\ todo' = Tail(todo) /\ UNCHANGED <<custom, refs, mine, refused, foreign, fault>>
      /\ Lose({into} \cap DOMAIN blocks)
      /\ blocks' = [q \in (DOMAIN blocks \ {p}) \cup {into} |->
                      blocks[IF q = into THEN p ELSE q]]
  BY <1>1 DEF DoMove
<1> HIDE DEF p, into
<1>5. FaultsAreKnown'
  BY <1>1, <1>4 DEF FaultsAreKnown
<1>6. View' = Moved(View, p, into)
  <2>1. DOMAIN blocks' = (DOMAIN blocks \ {p}) \cup {into}
    BY <1>4
  <2>2. QED
    BY <1>3, <1>4, <2>1, ViewMoved
<1>7. Sound(todo, View)'
  BY <1>2, <1>3, <1>4, <1>6 DEF Sound
<1>8. BlocksAreOwned'
  <2> SUFFICES ASSUME ~foreign', NEW q \in DOMAIN blocks'
               PROVE  blocks'[q] = Owner(Whose(q))'
    BY DEF BlocksAreOwned
  <2>1. Owner(Whose(q))' = Owner(Whose(q)) /\ ~foreign
    BY <1>4 DEF Owner
  <2>2. \A r \in DOMAIN blocks : blocks[r] = Owner(Whose(r))
    BY <2>1 DEF LInv, BlocksAreOwned
  <2>3. CASE q = into
    BY <1>3, <1>4, <2>1, <2>2, <2>3
  <2>4. CASE q # into
    BY <1>4, <2>1, <2>2, <2>4
  <2>5. QED
    BY <2>3, <2>4
<1>9. lost' = lost
  BY <1>3, <1>4 DEF Lose
<1>10. NothingIsLost'
  BY <1>4, <1>9 DEF LInv, NothingIsLost, Times
<1>11. QED
  BY <1>4, <1>5, <1>7, <1>8, <1>10 DEF LInv

LEMMA LeaveKeeps ==
  ASSUME LInv, DoLeave
  PROVE  LInv'
<1> DEFINE p == Place(Op)
<1>1. fault = "" /\ todo # <<>> /\ Op.do = "leave" /\ Pointer = p /\ Op = Head(todo)
  BY DEF DoLeave, Doing, Pointer, Place, Op
<1>2. PICK G : Closed(G) /\ LeaveIsSound(G, Op, Tail(todo), View)
  BY <1>1, DoingIsSound DEF OpIsSound
<1>3. /\ p = <<"set", "newkey">> /\ p \in DOMAIN blocks /\ Trouble(refused).tight > 2
      /\ <<Tail(todo), Freed(View, p)>> \in G
  BY <1>2, ViewParts DEF LeaveIsSound
<1>4. /\ todo' = Tail(todo) /\ UNCHANGED <<custom, refs, mine, refused, foreign, fault>>
      /\ Lose({p} \cap DOMAIN blocks)
      /\ blocks' = [q \in DOMAIN blocks \ {p} |-> blocks[q]]
  BY <1>1 DEF DoLeave, Without
<1> HIDE DEF p
<1>5. FaultsAreKnown'
  BY <1>1, <1>4 DEF FaultsAreKnown
<1>6. View' = Freed(View, p)
  <2>1. DOMAIN blocks' = DOMAIN blocks \ {p}
    BY <1>4
  <2>2. p \in Pointers /\ p[2] # "self"
    BY <1>3 DEF Pointers
  <2>3. DOMAIN blocks \subseteq Pointers
    BY <1>1, DoingIsSound, ViewParts DEF Fine
  <2>4. QED
    BY <1>4, <2>1, <2>2, <2>3, ViewFreed
<1>7. Sound(todo, View)'
  BY <1>2, <1>3, <1>4, <1>6 DEF Sound
<1>8. BlocksAreOwned'
  BY <1>4 DEF LInv, BlocksAreOwned, Owner
<1>9. NothingIsLost'
  <2>1. Times("larger")' > 2
    BY <1>3, <1>4 DEF Trouble, Tally, Times
  <2>2. \A b \in lost' : b \in lost \/ b = <<p[2], blocks[p]>>
    BY <1>4 DEF Lose
  <2>3. \A b \in lost' : b \in lost \/ b[1] = "newkey"
    BY <1>3, <2>2
  <2>4. QED
    BY <1>4, <2>1, <2>3 DEF LInv, NothingIsLost, Times
<1>10. QED
  BY <1>4, <1>5, <1>7, <1>8, <1>9 DEF LInv

LEMMA FollowKeeps ==
  ASSUME LInv, DoFollow
  PROVE  LInv'
<1> DEFINE p == Place(Op)
<1>1. fault = "" /\ todo # <<>> /\ Op.do = "follow" /\ Op = Head(todo)
      /\ p = <<Op.obj, Op.part>>
  BY DEF DoFollow, Doing, Place, Op
<1>2. PICK G : Closed(G) /\ FollowIsSound(G, Op, Tail(todo), View)
  BY <1>1, DoingIsSound DEF OpIsSound
<1>3. IsSet(Op.obj, Op.part) <=> p \in View.has
  BY ViewParts DEF IsSet, Place
<1>4. UNCHANGED <<custom, refs, mine, blocks, lost, refused, foreign>>
  BY DEF DoFollow, Fails
<1>5. View' = View
  BY <1>4, ViewSame
<1>6. NothingIsLost' /\ BlocksAreOwned'
  BY <1>4 DEF LInv, NothingIsLost, BlocksAreOwned, Owner, Times
<1>7. CASE IsSet(Op.obj, Op.part)
  <2>1. todo' = Tail(todo) /\ fault' = fault
    BY <1>7 DEF DoFollow
  <2>2. <<Tail(todo), View>> \in G
    BY <1>2, <1>3, <1>7 DEF FollowIsSound
  <2>3. Sound(todo, View)'
    BY <1>2, <1>5, <2>1, <2>2 DEF Sound
  <2>4. FaultsAreKnown'
    BY <1>1, <2>1 DEF FaultsAreKnown
  <2>5. QED
    BY <1>4, <1>6, <2>1, <2>3, <2>4 DEF LInv
<1>8. CASE ~IsSet(Op.obj, Op.part)
  <2>1. fault' = "null" /\ todo' = todo
    BY <1>8 DEF DoFollow, Fails
  <2>2. View.trouble.unseen
    BY <1>2, <1>3, <1>8 DEF FollowIsSound
  <2>3. \E call \in Unchecked : Times(call) > 0
    BY <2>2, ViewParts DEF Trouble, Times, Tally
  <2>4. FaultsAreKnown'
    BY <1>4, <2>1, <2>3 DEF FaultsAreKnown, Unchecked, Times
  <2>5. Sound(todo, View)'
    BY <1>5, <2>1 DEF LInv
  <2>6. QED
    BY <1>4, <1>6, <2>1, <2>4, <2>5 DEF LInv
<1>9. QED
  BY <1>7, <1>8

LEMMA CountKeeps ==
  ASSUME LInv, DoCount
  PROVE  LInv'
<1> DEFINE by == IF Op.do = "acquire" THEN 1 ELSE -1
<1>1. fault = "" /\ todo # <<>> /\ Op.do \in {"acquire", "release"} /\ Op = Head(todo)
  BY DEF DoCount, Doing, Op
<1>2. PICK G : Closed(G) /\ CountIsSound(G, Tail(todo), View, by)
  BY <1>1, DoingIsSound DEF OpIsSound
<1>3. HoldsPool(View) /\ <<Tail(todo), Counted(View, by)>> \in G
  BY <1>2 DEF CountIsSound
<1>4. ~PoolIsGone("pool")
  BY <1>3, PoolIsThere
<1>5. /\ refs' = IF ~custom THEN refs ELSE IF Op.do = "acquire" THEN refs + 1 ELSE refs - 1
      /\ todo' = Tail(todo)
      /\ UNCHANGED <<custom, mine, blocks, lost, refused, foreign, fault>>
  BY <1>4 DEF DoCount
<1>6. refs \in Nat
  BY <1>1, DoingIsSound, ViewParts DEF Fine
<1>7. refs' = IF custom THEN refs + by ELSE refs
  BY <1>1, <1>5, <1>6
<1> HIDE DEF by
<1>8. View' = Counted(View, by)
  BY <1>5, <1>7, ViewCounted
<1>9. Sound(todo, View)'
  BY <1>2, <1>3, <1>5, <1>8 DEF Sound
<1>10. NothingIsLost' /\ BlocksAreOwned' /\ FaultsAreKnown'
  BY <1>5 DEF LInv, NothingIsLost, BlocksAreOwned, FaultsAreKnown, Owner, Times
<1>11. QED
  BY <1>5, <1>9, <1>10 DEF LInv

-----------------------------------------------------------------------------
(* So does every call of the client.                                       *)

LEMMA ReadyBegins ==
  ASSUME LInv, Ready
  PROVE  /\ Begins(View)
         /\ View.has = DOMAIN blocks
         /\ \A o : Alive(o) <=> Self(o) \in View.has
<1>1. todo = <<>>
  BY DEF Ready
<1>2. PICK G : Closed(G) /\ <<todo, View>> \in G
  BY DEF LInv, Sound
<1>3. Fine(View) /\ Rest(View)
  BY <1>1, <1>2 DEF Closed
<1>4. Begins(View)
  BY <1>3 DEF Begins, Balanced, Rest
<1>5. View.has = DOMAIN blocks
  BY ViewParts
<1>6. \A o : Alive(o) <=> Self(o) \in View.has
  BY <1>5 DEF Alive, IsSet, Self
<1>7. QED
  BY <1>4, <1>5, <1>6

LEMMA CallKeeps ==
  ASSUME LInv, NEW program, Calls(program), Sound(program, View)
  PROVE  LInv'
<1>1. /\ todo' = program
      /\ UNCHANGED <<custom, refs, mine, blocks, lost, refused, foreign, fault>>
  BY DEF Calls
<1>2. View' = View
  BY <1>1, ViewSame
<1>3. Sound(todo, View)'
  BY <1>1, <1>2
<1>4. NothingIsLost' /\ BlocksAreOwned' /\ FaultsAreKnown'
  BY <1>1 DEF LInv, NothingIsLost, BlocksAreOwned, FaultsAreKnown, Owner, Times
<1>5. QED
  BY <1>1, <1>3, <1>4 DEF LInv

LEMMA ClientHoldsPool ==
  ASSUME LInv, Begins(View), CanUsePool
  PROVE  HoldsPool(View)
<1>1. /\ View.custom = custom /\ View.refs = refs
      /\ View.due = mine + Cardinality(LivingIn(DOMAIN blocks)) + Tally(refused, "keys")
  BY ViewParts
<1>2. Cardinality(LivingIn(DOMAIN blocks)) \in Nat /\ Tally(refused, "keys") \in Nat
  BY LivingFinite, TallyIsNat DEF LInv
<1>3. CASE custom /\ mine > 0
  <2>1. View.due > 0
    <3>1. mine \in Nat
      BY DEF LInv
    <3>2. QED
      BY <1>1, <1>2, <1>3, <3>1
  <2>2. QED
    BY <2>1 DEF HoldsPool, Begins, Balanced
<1>4. CASE ~custom
  BY <1>1, <1>4 DEF HoldsPool
<1>5. QED
  BY <1>3, <1>4 DEF CanUsePool, LInv

LEMMA ClientKeeps ==
  ASSUME LInv, ClientCalls
  PROVE  LInv'
<1>1. Ready
  BY DEF ClientCalls, Calls
<1>2. /\ Begins(View) /\ View.has = DOMAIN blocks
      /\ \A o : Alive(o) <=> Self(o) \in View.has
  BY <1>1, ReadyBegins
<1>3. ASSUME CanUsePool
      PROVE  /\ ~Alive("parser") => Sound(ParserNew, View)
             /\ ~Alive("emitter") => Sound(EmitterNew, View)
             /\ ~Alive("set") => Sound(KeySetNew, View)
  BY <1>2, <1>3, ClientHoldsPool, SoundParserNew, SoundEmitterNew, SoundKeySetNew
<1>4. ASSUME Alive("parser"), NEW program,
             \/ program \in {ParserFree, QuotedString, LongString}
             \/ \E grows \in BOOLEAN : program = OtherToken(grows)
      PROVE  Sound(program, View)
  <2>1. HasParser(View)
    BY <1>2, <1>4 DEF HasParser, Begins, Whole, Transient
  <2>2. Sound(ParserFree, View)
    BY <2>1, SoundParserFree DEF HasParser
  <2>3. Sound(QuotedString, View)
    BY <2>1, SoundQuotedString
  <2>4. Sound(LongString, View)
    BY <2>1, SoundLongString
  <2>5. \A grows \in BOOLEAN : Sound(OtherToken(grows), View)
    BY <2>1, SoundOtherToken
  <2>6. QED
    BY <1>4, <2>2, <2>3, <2>4, <2>5
<1>5. Alive("emitter") => Sound(EmitterFree, View)
  BY <1>2, SoundEmitterFree
<1>6. ASSUME Alive("set")
      PROVE  /\ Sound(KeySetFree, View)
             /\ \A there \in BOOLEAN :
                  Cardinality(KeysOf("set")) < MaxKeys => Sound(AddKey(there), View)
             /\ ~Alive("iterator") => Sound(IteratorNew, View)
  <2>1. Sound(KeySetFree, View)
    BY <1>2, <1>6, SoundKeySetFree
  <2>2. \A there \in BOOLEAN :
          Cardinality(KeysOf("set")) < MaxKeys => Sound(AddKey(there), View)
    BY <1>2, <1>6, SoundAddKey
  <2>3. ~Alive("iterator") => Sound(IteratorNew, View)
    BY <1>2, <1>6, SoundIteratorNew
  <2>4. QED
    BY <2>1, <2>2, <2>3
<1>7. Alive("iterator") => Sound(IteratorFree(MaxKeys), View)
  BY <1>2, SoundIteratorFree
<1>8. \E program : Calls(program) /\ Sound(program, View)
  <2>1. CASE CanUsePool /\ \/ ~Alive("parser")  /\ Calls(ParserNew)
                           \/ ~Alive("emitter") /\ Calls(EmitterNew)
                           \/ ~Alive("set")     /\ Calls(KeySetNew)
    BY <1>3, <2>1
  <2>2. CASE Alive("parser") /\ \/ Calls(ParserFree)
                                \/ Calls(QuotedString)
                                \/ Calls(LongString)
                                \/ \E grows \in BOOLEAN : Calls(OtherToken(grows))
    BY <1>4, <2>2
  <2>3. CASE Alive("emitter") /\ Calls(EmitterFree)
    BY <1>5, <2>3
  <2>4. CASE Alive("set") /\ \/ Calls(KeySetFree)
                             \/ \E there \in BOOLEAN :
                                  Cardinality(KeysOf("set")) < MaxKeys /\ Calls(AddKey(there))
                             \/ ~Alive("iterator") /\ Calls(IteratorNew)
    BY <1>6, <2>4
  <2>5. CASE Alive("iterator") /\ Calls(IteratorFree(MaxKeys))
    BY <1>7, <2>5
  <2>6. QED
    BY <2>1, <2>2, <2>3, <2>4, <2>5 DEF ClientCalls
<1>9. QED
  BY <1>8, CallKeeps

(* The view when the client has taken or given a reference: as much more   *)
(* or less is due.                                                         *)
LEMMA ViewOfMine ==
  ASSUME LInv, NEW by \in Int, mine' = mine + by, mine' \in Nat,
         Begins(View), custom, refs > 0,
         UNCHANGED <<custom, refs, blocks, lost, refused, foreign, fault>>
  PROVE  /\ Fine(View') /\ Whole(View'.has, View'.trouble) /\ View'.custom
         /\ View'.refs = refs /\ refs \in Nat /\ View'.due = refs + by
<1> DEFINE K == View
           L == View'
           n == Cardinality(LivingIn(DOMAIN blocks))
           m == Tally(refused, "keys")
<1>1. /\ K.custom = custom /\ K.has = DOMAIN blocks /\ K.refs = refs /\ K.due = mine + n + m
      /\ K.trouble = Trouble(refused)
  BY ViewParts
<1>2. L = Seen(custom, DOMAIN blocks, refs, mine' + n + m,
               Trouble(refused))
  BY ViewNext
<1>3. /\ L.custom = K.custom /\ L.has = K.has /\ L.refs = K.refs /\ L.trouble = K.trouble
      /\ L.due = mine' + n + m
  BY <1>1, <1>2 DEF Seen
<1>4. n \in Nat /\ m \in Nat /\ mine \in Nat
  BY LivingFinite, TallyIsNat DEF LInv
<1>5. Fine(K) /\ K.refs = K.due /\ Whole(K.has, K.trouble)
  BY <1>1 DEF Begins, Balanced
<1> HIDE DEF K, L
<1>6. L.due = refs + by /\ L.due \in Nat /\ L.due >= n
  BY <1>1, <1>3, <1>4, <1>5
<1> HIDE DEF n, m
<1>7. Cardinality(LivingIn(L.has)) = n
  BY <1>1, <1>3 DEF n
<1>8. Fine(L)
  BY <1>1, <1>3, <1>5, <1>6, <1>7 DEF Fine
<1>9. refs \in Nat
  BY <1>1, <1>5 DEF Fine
<1>10. QED
  BY <1>1, <1>3, <1>5, <1>6, <1>8, <1>9 DEF L

LEMMA ReferencesKeep ==
  ASSUME LInv, TakeReference \/ GiveReference
  PROVE  LInv'
<1>1. Ready /\ custom /\ mine > 0 /\ mine \in Nat
      /\ UNCHANGED <<custom, refs, blocks, lost, refused, foreign, fault>>
  <2>1. mine \in Nat
    BY DEF LInv
  <2>2. QED
    BY <2>1 DEF TakeReference, GiveReference
<1>2. Begins(View) /\ HoldsPool(View) /\ refs > 0
  <2>1. Begins(View)
    BY <1>1, ReadyBegins
  <2>2. HoldsPool(View)
    BY <1>1, <2>1, ClientHoldsPool DEF CanUsePool
  <2>3. QED
    BY <1>1, <2>1, <2>2, ViewParts DEF HoldsPool
<1>3. Sound(todo, View)'
  <2>1. CASE TakeReference
    <3>1. mine' = mine + 1 /\ mine' \in Nat /\ todo' = <<Acquire>>
      BY <1>1, <2>1 DEF TakeReference
    <3>2. /\ Fine(View') /\ Whole(View'.has, View'.trouble) /\ View'.custom
          /\ View'.refs = refs /\ refs \in Nat /\ View'.due = refs + 1
      BY <1>1, <1>2, <3>1, ViewOfMine
    <3>3. Sound(<<Acquire>>, View')
      BY <1>2, <3>2, SoundTake
    <3>4. QED
      BY <3>1, <3>3
  <2>2. CASE GiveReference
    <3>1. mine' = mine + (-1) /\ mine' \in Nat /\ todo' = <<Release>>
      BY <1>1, <2>2 DEF GiveReference
    <3>2. /\ Fine(View') /\ Whole(View'.has, View'.trouble) /\ View'.custom
          /\ View'.refs = refs /\ refs \in Nat /\ View'.due = refs + (-1)
      BY <1>1, <1>2, <3>1, ViewOfMine
    <3>3. View'.refs = View'.due + 1
      BY <3>2
    <3>4. Sound(<<Release>>, View')
      BY <3>2, <3>3, SoundGive
    <3>5. QED
      BY <3>1, <3>4
  <2>3. QED
    BY <2>1, <2>2
<1>4. mine' \in Nat
  BY <1>1 DEF TakeReference, GiveReference
<1>5. NothingIsLost' /\ BlocksAreOwned' /\ FaultsAreKnown'
  BY <1>1 DEF LInv, NothingIsLost, BlocksAreOwned, FaultsAreKnown, Owner, Times
<1>6. QED
  BY <1>1, <1>3, <1>4, <1>5 DEF LInv

-----------------------------------------------------------------------------
(* The theorems.                                                           *)

LEMMA LifecycleInit == Init => LInv
<1> SUFFICES ASSUME Init PROVE LInv
  OBVIOUS
<1>1. /\ custom \in BOOLEAN /\ refs = (IF custom THEN 1 ELSE 0) /\ mine = refs
      /\ blocks = <<>> /\ lost = {} /\ refused = <<>> /\ foreign = FALSE
      /\ todo = <<>> /\ fault = ""
  BY DEF Init
<1>2. DOMAIN blocks = {} /\ DOMAIN refused = {}
  <2>1. ASSUME NEW s, s = <<>> PROVE DOMAIN s = {}
    <3>1. s \in Seq({}) /\ Len(s) = 0
      BY <2>1
    <3>2. DOMAIN s = 1 .. 0
      BY <3>1, LenProperties
    <3>3. QED
      BY <3>2
  <2>2. QED
    BY <1>1, <2>1
<1>3. \A c : Tally(refused, c) = 0
  <2>1. \A c : {i \in DOMAIN refused : refused[i] = c} = {}
    BY <1>2
  <2>2. QED
    BY <2>1, FS_EmptySet DEF Tally
<1>4. LivingIn(DOMAIN blocks) = {} /\ Cardinality(LivingIn(DOMAIN blocks)) = 0
  BY <1>2, FS_EmptySet DEF LivingIn
<1>5. /\ View.custom = custom /\ View.has = {} /\ View.refs = refs /\ View.due = mine
      /\ View.trouble \in Troubles /\ View.trouble = Trouble(refused)
  <2>1. mine \in Nat
    BY <1>1
  <2>2. IsSeq(refused)
    BY <1>1, EmptyIsSeq
  <2>3. Trouble(refused) \in Troubles
    BY <2>2, TroubleMore
  <2>4. Tally(refused, "keys") = 0
    BY <1>3
  <2>5. View.due = mine
    BY <1>4, <2>1, <2>4, ViewParts
  <2>6. QED
    BY <1>2, <2>3, <2>5, ViewParts
<1>6. Whole({}, View.trouble)
  <2>1. {k \in 1 .. MaxKeys : <<"set", Str[k]>> \in {}} = 1 .. 0
    OBVIOUS
  <2>2. 0 \in 0 .. MaxKeys
    BY KeysAssumption DEF Str
  <2>3. 0 <= 5 /\ 0 - 3 <= View.trouble.tight
    BY <1>5 DEF Troubles
  <2>4. InOrder({}, 0, View.trouble)
    BY <2>1, <2>3 DEF InOrder
  <2>5. QED
    BY <2>2, <2>4 DEF Whole
<1>7. Fine(View)
  <2>1. Cardinality(LivingIn(View.has)) = 0
    BY <1>2, <1>4, <1>5
  <2>2. refs \in Nat /\ mine \in Nat /\ (custom /\ refs = 0 => mine = 0)
    BY <1>1
  <2>3. View.due >= Cardinality(LivingIn(View.has))
    BY <1>5, <2>1, <2>2
  <2>4. /\ View.custom \in BOOLEAN /\ View.trouble \in Troubles
        /\ View.has \subseteq Pointers
        /\ \A q \in View.has : Self(q[1]) \in View.has
        /\ View.refs \in Nat /\ View.due \in Nat
        /\ View.custom /\ View.refs = 0 => View.due = 0
    BY <1>1, <1>5, <2>2
  <2>5. QED
    BY <2>3, <2>4 DEF Fine
<1>8. Rest(View)
  BY <1>1, <1>5, <1>6 DEF Rest
<1>9. Sound(todo, View)
  BY <1>1, <1>7, <1>8, SoundNil
<1>10. BlocksAreOwned /\ NothingIsLost /\ FaultsAreKnown
  BY <1>1, <1>2 DEF BlocksAreOwned, NothingIsLost, FaultsAreKnown
<1>11. QED
  BY <1>1, <1>9, <1>10, EmptyIsSeq DEF LInv

LEMMA LifecycleNext == LInv /\ [Next]_vars => LInv'
<1> SUFFICES ASSUME LInv, [Next]_vars PROVE LInv'
  OBVIOUS
<1>1. CASE UNCHANGED vars
  <2>1. UNCHANGED <<custom, refs, mine, blocks, lost, refused, foreign, todo, fault>>
    BY <1>1 DEF vars
  <2>2. View' = View
    BY <2>1, ViewSame
  <2>3. Sound(todo, View)'
    BY <2>1, <2>2 DEF LInv
  <2>4. NothingIsLost' /\ BlocksAreOwned' /\ FaultsAreKnown'
    BY <2>1 DEF LInv, NothingIsLost, BlocksAreOwned, FaultsAreKnown, Owner, Times
  <2>5. QED
    BY <2>1, <2>3, <2>4 DEF LInv
<1>2. CASE Do
  BY <1>2, AllocKeeps, ReallocKeeps, FreeKeeps, MoveKeeps, LeaveKeeps, FollowKeeps,
     CountKeeps DEF Do
<1>3. CASE TakeReference \/ GiveReference
  BY <1>3, ReferencesKeep
<1>4. CASE ClientCalls
  BY <1>4, ClientKeeps
<1>5. QED
  BY <1>1, <1>2, <1>3, <1>4 DEF Next

LEMMA LifecycleInvariant == Spec => []LInv
BY LifecycleInit, LifecycleNext, PTL DEF Spec

LEMMA FineState ==
  ASSUME LInv
  PROVE  Fine(View)
<1>1. PICK G : Closed(G) /\ <<todo, View>> \in G
  BY DEF LInv, Sound
<1>2. QED
  BY <1>1 DEF Closed

(* No destructor, constructor or token uses the pool once it has gone, and *)
(* it goes only when neither the client has a reference nor any block of   *)
(* it is left: for every number of references, in every order in which     *)
(* the client makes and frees its objects, and wherever memory is refused. *)
THEOREM PoolLivesOn == Spec => []PoolOutlivesObjects
<1>1. LInv => PoolOutlivesObjects
  <2> SUFFICES ASSUME LInv PROVE PoolOutlivesObjects
    OBVIOUS
  <2>1. fault # "pool gone"
    BY DEF LInv
  <2>2. ASSUME custom, refs = 0
        PROVE  mine = 0 /\ \A q \in DOMAIN blocks : blocks[q] # "pool"
    <3>1. /\ View.custom = custom /\ View.has = DOMAIN blocks /\ View.refs = refs
          /\ View.due = mine + Cardinality(LivingIn(DOMAIN blocks)) + Tally(refused, "keys")
      BY ViewParts
    <3>2. View.due = 0
      BY <2>2, <3>1, FineState DEF Fine
    <3>3. /\ Cardinality(LivingIn(DOMAIN blocks)) \in Nat /\ Tally(refused, "keys") \in Nat
          /\ mine \in Nat
      BY LivingFinite, TallyIsNat DEF LInv
    <3>4. mine = 0 /\ Cardinality(LivingIn(DOMAIN blocks)) = 0
      BY <3>1, <3>2, <3>3
    <3>5. LivingIn(DOMAIN blocks) = {}
      BY <3>4, LivingFinite, FS_EmptySet
    <3>6. \A q \in DOMAIN blocks : q[1] \in Objects /\ Self(q[1]) \in DOMAIN blocks
      BY <3>1, FineState, PointerParts DEF Fine
    <3>7. DOMAIN blocks = {}
      BY <3>5, <3>6 DEF LivingIn
    <3>8. QED
      BY <3>4, <3>7
  <2>3. QED
    BY <2>1, <2>2 DEF PoolOutlivesObjects
<1>2. QED
  BY <1>1, LifecycleInvariant, PTL

(* When a call has returned, the references of the pool are the client's,  *)
(* one for every object, and those that iterators without memory for their *)
(* keys have left behind.                                                  *)
THEOREM PoolCounts == Spec => []ReferencesAreCounted
<1>1. LInv => ReferencesAreCounted
  <2> SUFFICES ASSUME LInv, Ready, custom
               PROVE  refs = mine + Cardinality(Living) + Times("keys")
    BY DEF ReferencesAreCounted
  <2>1. View.custom = custom /\ View.refs = refs
        /\ View.due = mine + Cardinality(Living) + Times("keys")
    BY DEF View, Seen
  <2>2. View.refs = View.due
    BY <2>1, ReadyBegins DEF Begins, Balanced
  <2>3. QED
    BY <2>1, <2>2
<1>2. QED
  BY <1>1, LifecycleInvariant, PTL

(* No block is without a pointer to it but the text of a freed parser, a   *)
(* string that set_string_copy could not make larger, and the copy of a    *)
(* key that add_key has no place for, once a set could not be made larger  *)
(* three times: whatever else is refused, and in whatever order.           *)
THEOREM NothingElseIsLost == Spec => []NothingIsLost
<1>1. LInv => NothingIsLost
  BY DEF LInv
<1>2. QED
  BY <1>1, LifecycleInvariant, PTL

(* A NULL is used only after an allocation nobody checks was refused, and  *)
(* a block goes to an allocator it is not from only after a value from     *)
(* malloc: nothing else ends the program.                                  *)
THEOREM OnlyKnownFaults == Spec => []FaultsAreKnown
<1>1. LInv => FaultsAreKnown
  BY DEF LInv
<1>2. QED
  BY <1>1, LifecycleInvariant, PTL

=============================================================================
