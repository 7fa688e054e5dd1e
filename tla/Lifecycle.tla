----------------------------- MODULE Lifecycle -----------------------------
(***************************************************************************)
(* Who owns which memory: the pool that counts its references              *)
(* (src/src/ealloc.c) and the constructors and destructors of everything   *)
(* that is allocated from it: parsers with their buffers and lexers        *)
(* (eparser.c, ebuffer.c, elexer.c), emitters (eemitter.c), and sets of    *)
(* keys with their iterators (ekeyset.c).                                  *)
(*                                                                         *)
(* A call is the sequence of what it does with memory, one operation a     *)
(* step: allocating, freeing, following a pointer, counting.  Any          *)
(* allocation may be refused, and has then another sequence to go on with. *)
(* The client has one object of each kind at a time.                       *)
(***************************************************************************)
EXTENDS Integers, Sequences, FiniteSets, SequencesExt

CONSTANTS
  MaxMine,      (* bound: references the client takes                       *)
  MaxKeys,      (* bound: keys of a set                                     *)
  Refusals      (* bound: of which calls, one after the other, allocations  *)
                (* may be refused; or of the first ones only                *)

VARIABLES
  custom,    (* whether the client has a pool; else it is malloc and free   *)
  refs,      (* refcnt of the pool; 0 when the pool has freed itself        *)
  mine,      (* how many of them are the client's                           *)
  blocks,    (* for every pointer that is set, whose the block is           *)
  lost,      (* blocks that nothing points to any more                      *)
  refused,   (* the calls in which an allocation was refused, in order      *)
  foreign,   (* a parser has had a value from malloc                        *)
  todo,      (* what is left of the call in progress                        *)
  fault      (* what went wrong with memory, the end of the program         *)

vars == <<custom, refs, mine, blocks, lost, refused, foreign, todo, fault>>

-----------------------------------------------------------------------------
(* Operations.  A pointer is an object and the name of a field of it; self *)
(* is the client's or the owner's pointer to the object.                   *)

Owner(by) == IF by = "pool" /\ custom THEN "pool" ELSE "malloc"
IsSet(o, part) == <<o, part>> \in DOMAIN blocks
Alive(o)       == IsSet(o, "self")

Alloc(o, part, by, call, otherwise) ==
  [do |-> "alloc", obj |-> o, part |-> part, by |-> by, call |-> call,
   otherwise |-> otherwise]
Realloc(o, part, call) == [do |-> "realloc", obj |-> o, part |-> part, call |-> call]
Free(o, part, by)      == [do |-> "free", obj |-> o, part |-> part, by |-> by]
Move(o, part, into)    == [do |-> "move", obj |-> o, part |-> part, into |-> into]
Leave(o, part)         == [do |-> "leave", obj |-> o, part |-> part]
Follow(o, part)        == [do |-> "follow", obj |-> o, part |-> part]
Acquire == [do |-> "acquire"]
Release == [do |-> "release"]

Op == Head(todo)
Doing(what) == fault = "" /\ todo # <<>> /\ Op.do = what
Pointer == <<Op.obj, Op.part>>
PoolIsGone(by) == by = "pool" /\ custom /\ refs = 0
Fails(how) ==
  /\ fault' = how
  /\ UNCHANGED <<custom, refs, mine, blocks, lost, refused, foreign, todo>>

Times(call)       == Cardinality({i \in DOMAIN refused : refused[i] = call})
With(p, owner)    == [q \in DOMAIN blocks \cup {p} |-> IF q = p THEN owner ELSE blocks[q]]
Without(pointers) == [q \in DOMAIN blocks \ pointers |-> blocks[q]]
Lose(pointers)    == lost' = lost \cup {<<q[2], blocks[q]>> : q \in pointers}
MayRefuse         == \E calls \in Refusals : IsPrefix(Append(refused, Op.call), calls)

(* A pointer that is set already would lose the block it has. *)
DoAlloc ==
  /\ Doing("alloc")
  /\ IF PoolIsGone(Op.by) THEN Fails("pool gone")
     ELSE /\ \/ /\ blocks' = With(Pointer, Owner(Op.by))
                /\ Lose({Pointer} \cap DOMAIN blocks)
                /\ todo' = Tail(todo)
                /\ UNCHANGED refused
             \/ /\ MayRefuse
                /\ refused' = Append(refused, Op.call)
                /\ todo' = Op.otherwise
                /\ UNCHANGED <<blocks, lost>>
          /\ foreign' = (foreign \/ (custom /\ Pointer = <<"parser", "value">> /\ Op.by = "malloc"))
          /\ UNCHANGED <<custom, refs, mine, fault>>

(* realloc of a pointer that is overwritten whether or not it succeeds. *)
DoRealloc ==
  /\ Doing("realloc")
  /\ IF PoolIsGone("pool") THEN Fails("pool gone")
     ELSE IF IsSet(Op.obj, Op.part) /\ blocks[Pointer] # Owner("pool") THEN Fails("foreign")
     ELSE /\ \/ /\ blocks' = With(Pointer, Owner("pool"))
                /\ UNCHANGED <<refused, lost>>
             \/ /\ MayRefuse
                /\ refused' = Append(refused, Op.call)
                /\ Lose({Pointer} \cap DOMAIN blocks)
                /\ blocks' = Without({Pointer})
          /\ todo' = Tail(todo)
          /\ UNCHANGED <<custom, refs, mine, foreign, fault>>

(* ELTN_free: with an object goes the last pointer to each of its parts.   *)
(* Of a NULL pointer nothing is freed (through a pool, the allocator is    *)
(* asked for a block of no bytes).                                         *)
DoFree ==
  /\ Doing("free")
  /\ IF PoolIsGone(Op.by) THEN Fails("pool gone")
     ELSE IF IsSet(Op.obj, Op.part) /\ blocks[Pointer] # Owner(Op.by) THEN Fails("foreign")
     ELSE /\ LET gone == IF Op.part = "self" THEN {q \in DOMAIN blocks : q[1] = Op.obj}
                                             ELSE {Pointer}
             IN /\ Lose((gone \ {Pointer}) \cap DOMAIN blocks)
                /\ blocks' = Without(gone)
          /\ todo' = Tail(todo)
          /\ UNCHANGED <<custom, refs, mine, refused, foreign, fault>>

(* A pointer is assigned to another; the block that one had is lost. *)
DoMove ==
  /\ Doing("move")
  /\ LET into == <<Op.obj, Op.into>>
     IN /\ Lose({into} \cap DOMAIN blocks)
        /\ blocks' = [q \in (DOMAIN blocks \ {Pointer}) \cup {into} |->
                        blocks[IF q = into THEN Pointer ELSE q]]
  /\ todo' = Tail(todo)
  /\ UNCHANGED <<custom, refs, mine, refused, foreign, fault>>

(* A local variable ends, and the block it points to is lost. *)
DoLeave ==
  /\ Doing("leave")
  /\ Lose({Pointer} \cap DOMAIN blocks)
  /\ blocks' = Without({Pointer})
  /\ todo' = Tail(todo)
  /\ UNCHANGED <<custom, refs, mine, refused, foreign, fault>>

(* A pointer is followed without being checked. *)
DoFollow ==
  /\ Doing("follow")
  /\ IF IsSet(Op.obj, Op.part)
     THEN todo' = Tail(todo) /\ UNCHANGED <<custom, refs, mine, blocks, lost, refused, foreign, fault>>
     ELSE Fails("null")

(* ELTN_Pool_acquire and ELTN_Pool_release, which do nothing with a NULL. *)
DoCount ==
  /\ Doing("acquire") \/ Doing("release")
  /\ IF PoolIsGone("pool") THEN Fails("pool gone")
     ELSE /\ refs' = IF ~custom THEN refs ELSE IF Op.do = "acquire" THEN refs + 1 ELSE refs - 1
          /\ todo' = Tail(todo)
          /\ UNCHANGED <<custom, mine, blocks, lost, refused, foreign, fault>>

Do == DoAlloc \/ DoRealloc \/ DoFree \/ DoMove \/ DoLeave \/ DoFollow \/ DoCount

-----------------------------------------------------------------------------
(* What the constructors and destructors do.                               *)

BufferFree(o) ==
  <<Follow(o, "self"), Free(o, "buffer", "pool"), Free(o, "self", "pool"), Release>>

LexerFree(o) ==
  <<Follow(o, "self"), Free(o, "token_buffer", "pool"), Free(o, "self", "pool"), Release>>

(* Mutant: the value of the last string is forgotten. *)
ParserFreeForgetful ==
  BufferFree("buffer") \o LexerFree("lexer") \o <<Free("parser", "self", "pool"), Release>>

(* The text of the last token stays. *)
ParserFree ==
  BufferFree("buffer") \o LexerFree("lexer")
    \o <<Free("parser", "string", "pool"), Free("parser", "self", "pool"), Release>>

BufferNew(call, otherwise, rest) ==
  <<Alloc("buffer", "self", "pool", call, otherwise), Acquire,
    Alloc("buffer", "buffer", "pool", call, BufferFree("buffer") \o otherwise)>> \o rest

LexerNew(call, otherwise, rest) ==
  <<Alloc("lexer", "self", "pool", call, otherwise), Acquire,
    Alloc("lexer", "token_buffer", "pool", call, LexerFree("lexer") \o otherwise)>> \o rest

(* Whatever of it could not be made, the parser is freed as a whole. *)
ParserNew ==
  <<Alloc("parser", "self", "pool", "parser", <<>>), Acquire>>
    \o BufferNew("part", ParserFree, LexerNew("part", ParserFree, <<>>))

(* Mutant: the reference is taken and never given back. *)
EmitterFreeKeeping == <<Follow("emitter", "self"), Free("emitter", "self", "pool")>>

(* Mutant: the memory is used unseen. *)
EmitterNewUnchecked ==
  <<Alloc("emitter", "self", "pool", "emitter", <<Follow("emitter", "self")>>), Acquire>>

EmitterFree == <<Follow("emitter", "self"), Free("emitter", "self", "pool"), Release>>
EmitterNew  == <<Alloc("emitter", "self", "pool", "emitter", <<>>), Acquire>>

(* The str of the k-th key. *)
Str == <<"key 1", "key 2", "key 3", "key 4", "key 5", "key 6">>
ASSUME KeysAssumption == MaxKeys \in 0 .. Len(Str)
KeysOf(o) == {k \in 1 .. MaxKeys : IsSet(o, Str[k])}
FreeKeys(o, n) == [k \in 1 .. n |-> Free(o, Str[k], "pool")]

(* The array of a set has the name of its size: TABLE_MINSIZ places, or    *)
(* the next size of resize.  So few keys never need one that is larger.    *)
Array == IF IsSet("set", "larger") THEN "larger" ELSE "array"
Places(array)    == IF array = "larger" THEN 11 ELSE 5
Crowded(n, array) == 100 * (n + 1) >= 65 * Places(array)     (* TABLE_LOAD *)

(* Key_Set_new_with_pool looks at the set again, not at its array. *)
KeySetNew ==
  <<Alloc("set", "self", "pool", "set", <<>>), Acquire,
    Alloc("set", "array", "pool", "array", <<>>)>>
KeySetFree ==
  <<Follow("set", "self"), Follow("set", Array)>> \o FreeKeys("set", MaxKeys)
    \o <<Free("set", Array, "pool"), Free("set", "self", "pool"), Release>>

(* add_key, for the n + 1-st key: where every place is taken, its copy is  *)
(* left behind.                                                            *)
StoreKey(n, array) ==
  <<Alloc("set", "newkey", "pool", "key", <<>>), Follow("set", array),
    IF n < Places(array) THEN Move("set", "newkey", Str[n + 1]) ELSE Leave("set", "newkey")>>

(* Key_Set_has_key copies the key to look for it.  For one that is new, or *)
(* that it could not look for, there are resize, every time the set is     *)
(* crowded, and the copy that is stored.                                   *)
AddKey(there) ==
  LET n     == Cardinality(KeysOf("set"))
      store == IF ~Crowded(n, Array) THEN StoreKey(n, Array)
               ELSE <<Alloc("set", "larger", "pool", "larger", StoreKey(n, Array)),
                      Follow("set", Array), Free("set", Array, "pool")>>
                      \o StoreKey(n, "larger")
  IN <<Alloc("set", "copy", "pool", "key", store), Follow("set", Array),
       Free("set", "copy", "pool")>> \o IF there THEN <<>> ELSE store

IteratorFree(n) ==
  <<Follow("iterator", "self")>> \o FreeKeys("iterator", n)
    \o <<Free("iterator", "keys", "pool"), Free("iterator", "self", "pool"), Release>>

(* Mutant: an iterator lives off the reference of its set. *)
IteratorNewUncounted ==
  LET n == Cardinality(KeysOf("set"))
  IN <<Alloc("iterator", "self", "pool", "iterator", <<>>),
       Alloc("iterator", "keys", "pool", "keys", <<Free("iterator", "self", "pool")>>)>>
       \o [k \in 1 .. n |-> Alloc("iterator", Str[k], "pool", "iterator", IteratorFree(n))]

(* Without memory for the keys the iterator goes, and its reference stays. *)
IteratorNew ==
  LET n == Cardinality(KeysOf("set"))
  IN <<Alloc("iterator", "self", "pool", "iterator", <<>>), Acquire,
       Alloc("iterator", "keys", "pool", "keys", <<Free("iterator", "self", "pool")>>)>>
       \o [k \in 1 .. n |-> Alloc("iterator", Str[k], "pool", "iterator", IteratorFree(n))]

-----------------------------------------------------------------------------
(* What a token does to the text and the string of the parser.             *)

(* capture_token_buffer: ELTN_new_string trusts malloc. *)
CaptureText ==
  <<Alloc("parser", "newtext", "malloc", "text", <<Follow("parser", "newtext")>>),
    Free("parser", "text", "malloc"), Move("parser", "newtext", "text")>>

(* Mutant: the old value stays where it is. *)
SetStringRefOver == <<Move("parser", "value", "string")>>

(* set_string_ref *)
SetStringRef == <<Free("parser", "string", "pool"), Move("parser", "value", "string")>>

(* ELTN_unescape_quoted_string allocates from the pool, while              *)
(* ELTN_unquote_long_string and ELTN_trim_comment call ELTN_new_string.    *)
QuotedString ==
  CaptureText \o <<Alloc("parser", "value", "pool", "string", <<>>)>> \o SetStringRef
LongString ==
  CaptureText
    \o <<Alloc("parser", "value", "malloc", "text", <<Follow("parser", "value")>>)>>
    \o SetStringRef

(* set_string_copy, with a text that needs more room or not. *)
OtherToken(grows) ==
  CaptureText \o IF grows \/ ~IsSet("parser", "string")
                 THEN <<Realloc("parser", "string", "copy")>> ELSE <<>>

-----------------------------------------------------------------------------
(* The calls of the client.                                                *)

Ready == fault = "" /\ todo = <<>>
CanUsePool == ~custom \/ mine > 0

Calls(program) ==
  /\ Ready
  /\ todo' = program
  /\ UNCHANGED <<custom, refs, mine, blocks, lost, refused, foreign, fault>>

Init ==
  /\ custom \in BOOLEAN      (* ELTN_Pool_new_with_alloc has made it, or not *)
  /\ refs = IF custom THEN 1 ELSE 0
  /\ mine = refs
  /\ blocks = <<>>
  /\ lost = {}
  /\ refused = <<>>
  /\ foreign = FALSE
  /\ todo = <<>>
  /\ fault = ""

(* ELTN_Pool_acquire, ELTN_Pool_release and ELTN_Pool_set by the client. *)
TakeReference ==
  /\ Ready /\ custom /\ mine \in 1 .. MaxMine - 1
  /\ mine' = mine + 1 /\ todo' = <<Acquire>>
  /\ UNCHANGED <<custom, refs, blocks, lost, refused, foreign, fault>>
GiveReference ==
  /\ Ready /\ custom /\ mine > 0
  /\ mine' = mine - 1 /\ todo' = <<Release>>
  /\ UNCHANGED <<custom, refs, blocks, lost, refused, foreign, fault>>

ClientCalls ==
  \/ CanUsePool /\ \/ ~Alive("parser")  /\ Calls(ParserNew)
                   \/ ~Alive("emitter") /\ Calls(EmitterNew)
                   \/ ~Alive("set")     /\ Calls(KeySetNew)
  \/ Alive("parser") /\ \/ Calls(ParserFree)
                        \/ Calls(QuotedString)
                        \/ Calls(LongString)
                        \/ \E grows \in BOOLEAN : Calls(OtherToken(grows))
  \/ Alive("emitter") /\ Calls(EmitterFree)
  \/ Alive("set") /\ \/ Calls(KeySetFree)
                     \/ \E there \in BOOLEAN :
                          Cardinality(KeysOf("set")) < MaxKeys /\ Calls(AddKey(there))
                     \/ ~Alive("iterator") /\ Calls(IteratorNew)
  \/ Alive("iterator") /\ Calls(IteratorFree(MaxKeys))

Next == Do \/ TakeReference \/ GiveReference \/ ClientCalls

Spec == Init /\ [][Next]_vars

-----------------------------------------------------------------------------
(* Properties.                                                             *)

Objects  == {"parser", "buffer", "lexer", "emitter", "set", "iterator"}
Living   == {o \in Objects : Alive(o)}

(* The pool lives as long as anything that was allocated from it, whoever  *)
(* gives up the last reference and in whatever order: no destructor uses   *)
(* the pool after the reference it holds, and an iterator may be freed     *)
(* after its set, and both after the client's own references.              *)
PoolOutlivesObjects ==
  /\ fault # "pool gone"
  /\ custom /\ refs = 0 => mine = 0 /\ \A q \in DOMAIN blocks : blocks[q] # "pool"

(* When a call returns, the pool counts the client's references and one    *)
(* for every object, so that it frees itself with the last of them; the    *)
(* exception is Key_Set_iterator, which keeps a reference when there is no *)
(* memory for its keys.                                                    *)
ReferencesAreCounted ==
  Ready /\ custom => refs = mine + Cardinality(Living) + Times("keys")

(* Nothing is lost, also where an allocation is refused, but the text of   *)
(* the last token, which no one frees with the parser, the string that     *)
(* could not be made larger, and the key for which there is no place, in a *)
(* set that three times could not be made larger.                          *)
NothingIsLost ==
  \A b \in lost : \/ b[1] = "text"
                  \/ b[1] = "string" /\ Times("copy") > 0
                  \/ b[1] = "newkey" /\ Times("larger") > 2

(* A program goes wrong with memory only where an allocation the code does *)
(* not check was refused, a part of a new parser, the array of a new set   *)
(* or a text, or where the pool is handed a value it did not allocate.     *)
FaultsAreKnown ==
  /\ fault = "null" => \E call \in {"part", "array", "text"} : Times(call) > 0
  /\ fault = "foreign" => foreign

=============================================================================
