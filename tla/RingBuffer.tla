----------------------------- MODULE RingBuffer -----------------------------
(***************************************************************************)
(* ELTN_Buffer (src/src/ebuffer.c): the growing ring buffer between the    *)
(* source of a document and the lexer.                                     *)
(*                                                                         *)
(* The caller may write text (ELTN_Buffer_write), install a reader and     *)
(* read its first chunk (ELTN_Buffer_read), change the capacity, close the *)
(* buffer, and take or peek at the next byte (ELTN_Buffer_next_char).  A   *)
(* next_char on an empty buffer calls the reader until a byte arrives; the *)
(* calls of the callback are steps of their own, between which only the    *)
(* reader moves.  Any allocation may fail.                                 *)
(***************************************************************************)
EXTENDS Integers, Sequences

CONSTANTS
  Byte,     (* the byte values                                              *)
  Chunk,    (* the texts one write or one reader call can supply            *)
  InitCap,  (* INIT_BUF_SIZE                                                *)
  MaxCap    (* the largest block the allocator ever grants                  *)

ASSUME ByteAssumption == Byte \subseteq Nat
ASSUME ChunkAssumption == Chunk \subseteq Seq(Byte)
ASSUME CapAssumption ==
  InitCap \in Nat /\ MaxCap \in Nat /\ 0 < InitCap /\ InitCap <= MaxCap

VARIABLES
  ring,     (* buffer, bufsize, head and tail of struct ELTN_Buffer         *)
  eof,      (* the eof field                                                *)
  reader,   (* whether the reader field is set                              *)
  pc,       (* the call in progress that is waiting for the reader, if any  *)
  result    (* the last call that finished and what it returned             *)

vars == <<ring, eof, reader, pc, result>>

Failed == -1
Returned(call, value) == [call |-> call, value |-> value]
Junk   == -1    (* a cell of the block nobody has stored a byte into        *)

-----------------------------------------------------------------------------
(* The ring: cells 0 .. cap-1, live from head up to tail, wrapping at cap. *)

Fresh(n) ==
  [mem |-> [i \in 0 .. n - 1 |-> Junk], cap |-> n, head |-> 0, tail |-> 0]

Length(r) ==
  IF r.head <= r.tail THEN r.tail - r.head ELSE r.cap - (r.head - r.tail)

(* The cell of the i-th live byte, counted from 0. *)
Cell(r, i) == IF r.head + i < r.cap THEN r.head + i ELSE r.head + i - r.cap

(* The live bytes, oldest first. *)
Content(r) == [i \in 1 .. Length(r) |-> r.mem[Cell(r, i - 1)]]

(***************************************************************************)
(* The ring after ELTN_Buffer_set_capacity(newcap) has found its memory: a *)
(* reallocated block if there is nothing to keep, else a new block with    *)
(* the live bytes, in one piece or two, moved to its start.                *)
(***************************************************************************)
Resized(r, newcap) ==
  IF Length(r) = 0 THEN Fresh(newcap)
  ELSE
    LET length  == Length(r)
        headlen == IF r.head < r.tail THEN length ELSE length - r.tail
    IN [mem  |-> [i \in 0 .. newcap - 1 |->
                    IF i < headlen THEN r.mem[r.head + i]
                    ELSE IF i < length THEN r.mem[i - headlen]
                    ELSE Junk],
        cap  |-> newcap,
        head |-> 0,
        tail |-> length]

(* The ring after ELTN_Buffer_write: one memmove, or two if the text wraps. *)
Stored(r, text) ==
  LET len     == Len(text)
      headlen == r.cap - r.tail
      taillen == len - headlen
      straight == r.tail + len < r.cap
  IN [mem  |-> [i \in 0 .. r.cap - 1 |->
                  IF r.tail <= i /\ i < r.tail + len THEN text[i - r.tail + 1]
                  ELSE IF ~straight /\ i < taillen THEN text[headlen + i + 1]
                  ELSE r.mem[i]],
      cap  |-> r.cap,
      head |-> r.head,
      tail |-> IF straight THEN r.tail + len ELSE taillen]

(* The ring after next_byte has consumed the byte at head. *)
Advanced(r) ==
  [mem  |-> r.mem,
   cap  |-> r.cap,
   head |-> IF r.head + 1 >= r.cap THEN 0 ELSE r.head + 1,
   tail |-> r.tail]

(* The allocator may grant a block of n bytes; it may always refuse. *)
Grantable(n) == n <= MaxCap

-----------------------------------------------------------------------------
(* Storing a text: the common body of ELTN_Buffer_write.                   *)

(* Mutants: the last cell may be filled too, so that a full ring looks     *)
(* empty; and the block grows by its own size, not by what is in it.       *)
NeedsRoomToTheBrim(text) == Length(ring) + Len(text) > ring.cap
NewCapOfBlock(text)      == (ring.cap + Len(text)) * 2

NeedsRoom(text) == Length(ring) + Len(text) >= ring.cap
NewCap(text)    == (Length(ring) + Len(text)) * 2

Storable(text) == ~eof /\ (NeedsRoom(text) => Grantable(NewCap(text)))

AfterStore(text) ==
  IF NeedsRoom(text) THEN Stored(Resized(ring, NewCap(text)), text)
                     ELSE Stored(ring, text)

Store(text) ==
  /\ Storable(text)
  /\ ring' = AfterStore(text)

StoreFails(text) ==
  /\ eof \/ NeedsRoom(text)
  /\ UNCHANGED ring

-----------------------------------------------------------------------------
(* The calls of the client.                                                *)

Init ==
  /\ ring = Fresh(InitCap)
  /\ eof = FALSE
  /\ reader = FALSE
  /\ pc = "idle"
  /\ result = Returned("none", 0)

Write(text) ==
  /\ pc = "idle"
  /\ \/ Store(text) /\ result' = Returned("write", Len(text))
     \/ StoreFails(text) /\ result' = Returned("write", Failed)
  /\ UNCHANGED <<eof, reader, pc>>

SetCapacity(newcap) ==
  /\ pc = "idle"
  /\ \/ /\ newcap > Length(ring)
        /\ Grantable(newcap)
        /\ ring' = Resized(ring, newcap)
        /\ result' = Returned("set_capacity", 1)
     \/ (* too small, or no memory *)
        /\ UNCHANGED ring
        /\ result' = Returned("set_capacity", 0)
  /\ UNCHANGED <<eof, reader, pc>>

Close ==
  /\ pc = "idle"
  /\ eof' = TRUE
  /\ UNCHANGED <<ring, reader, pc, result>>

(* ELTN_Buffer_read; the first chunk arrives in a reader step. *)
Read ==
  /\ pc = "idle"
  /\ reader' = TRUE
  /\ pc' = "read"
  /\ UNCHANGED <<ring, eof, result>>

(* "take" and "peek" are the two values of consume in a next_char. *)
NextCharCall(consume) == IF consume THEN "take" ELSE "peek"

(* next_byte on the ring r, which is not empty. *)
Deliver(r, consume) ==
  /\ result' = Returned(NextCharCall(consume), r.mem[r.head])
  /\ ring' = IF consume THEN Advanced(r) ELSE r

(* Mutant: the reader is asked again though the buffer is closed. *)
NextCharAfterClose(consume) ==
  /\ pc = "idle"
  /\ IF ring.head # ring.tail
     THEN Deliver(ring, consume) /\ UNCHANGED pc
     ELSE IF reader
     THEN pc' = NextCharCall(consume) /\ UNCHANGED <<ring, result>>
     ELSE /\ result' = Returned(NextCharCall(consume), Failed)
          /\ UNCHANGED <<ring, pc>>
  /\ UNCHANGED <<eof, reader>>

(* ELTN_Buffer_next_char. *)
NextChar(consume) ==
  /\ pc = "idle"
  /\ \/ /\ ring.head # ring.tail
        /\ Deliver(ring, consume)
        /\ UNCHANGED pc
     \/ /\ ring.head = ring.tail
        /\ eof \/ ~reader
        /\ result' = Returned(NextCharCall(consume), Failed)
        /\ UNCHANGED <<ring, pc>>
     \/ /\ ring.head = ring.tail
        /\ ~eof /\ reader
        /\ pc' = NextCharCall(consume)
        /\ UNCHANGED <<ring, result>>
  /\ UNCHANGED <<eof, reader>>

-----------------------------------------------------------------------------
(* The answers of the reader to read_into_buffer.                          *)

Filling == pc \in {"take", "peek"}

(* Mutant: the buffer stays open. *)
GiveUpOpen ==
  /\ pc' = "idle"
  /\ result' = Returned(pc, Failed)
  /\ UNCHANGED eof

(* The call in progress gives up: the buffer is closed and -1 returned. *)
GiveUp ==
  /\ eof' = TRUE
  /\ pc' = "idle"
  /\ result' = Returned(pc, Failed)

(* A NULL text: the end of the document, or an error with nothing read. *)
ReaderEnds ==
  /\ pc # "idle"
  /\ GiveUp
  /\ UNCHANGED <<ring, reader>>

(* Mutant: the text is read in spite of its error. *)
ReaderErrsGoesOn(text) ==
  /\ Filling /\ text # <<>>
  /\ Storable(text)
  /\ Deliver(AfterStore(text), pc = "take")
  /\ pc' = "idle"
  /\ eof' = TRUE
  /\ UNCHANGED reader

(* A text together with an error code: stored if it can be, then given up. *)
ReaderErrs(text) ==
  /\ pc # "idle"
  /\ Store(text) \/ StoreFails(text)
  /\ GiveUp
  /\ UNCHANGED reader

(* A text the buffer is closed to or has no memory for. *)
ReaderLost(text) ==
  /\ pc # "idle"
  /\ StoreFails(text)
  /\ GiveUp
  /\ UNCHANGED reader

(* The first chunk, in ELTN_Buffer_read. *)
ReaderFirst(text) ==
  /\ pc = "read"
  /\ Store(text)
  /\ result' = Returned("read", Len(text))
  /\ pc' = "idle"
  /\ UNCHANGED <<eof, reader>>

(***************************************************************************)
(* The loop of ensure_more_bytes, and the byte it was run for.  A text of  *)
(* no bytes sends the loop round again with nothing changed, which is a    *)
(* stuttering step.                                                        *)
(***************************************************************************)
ReaderFills(text) ==
  /\ Filling
  /\ text # <<>>
  /\ Storable(text)
  /\ Deliver(AfterStore(text), pc = "take")
  /\ pc' = "idle"
  /\ UNCHANGED <<eof, reader>>

-----------------------------------------------------------------------------
ClientStep ==
  \/ \E text \in Chunk : Write(text)
  \/ \E newcap \in 0 .. MaxCap + 1 : SetCapacity(newcap)
  \/ \E consume \in BOOLEAN : NextChar(consume)
  \/ Close
  \/ Read

ReaderAnswers ==
  \/ ReaderEnds
  \/ \E text \in Chunk : \/ ReaderErrs(text)
                         \/ ReaderLost(text)
                         \/ ReaderFirst(text)
                         \/ ReaderFills(text)

Next == ClientStep \/ ReaderAnswers

Spec == Init /\ [][Next]_vars

(***************************************************************************)
(* The client the parser is with a reader: ELTN_Parser_read once, then     *)
(* only the lexer, which takes.                                            *)
(***************************************************************************)
ReadNext ==
  \/ ~reader /\ Read
  \/ reader /\ NextChar(TRUE)
  \/ ReaderAnswers

ReadSpec == Init /\ [][ReadNext]_vars

-----------------------------------------------------------------------------
(* Properties.                                                             *)

(* head and tail are cells of the block, and every cell between them holds *)
(* a byte that was stored there: next_byte never hands out memory that     *)
(* malloc or realloc left as it found it.                                  *)
RingOK(r) ==
  /\ r = [mem |-> r.mem, cap |-> r.cap, head |-> r.head, tail |-> r.tail]
  /\ r.cap \in 1 .. MaxCap
  /\ r.mem \in [0 .. r.cap - 1 -> Byte \cup {Junk}]
  /\ r.head \in 0 .. r.cap - 1
  /\ r.tail \in 0 .. r.cap - 1
  /\ \A i \in 0 .. Length(r) - 1 : r.mem[Cell(r, i)] \in Byte

Results == [call  : {"none", "write", "set_capacity", "read", "take", "peek"},
            value : Nat \cup {Failed}]

(* The type invariant: the fields of struct ELTN_Buffer, with the cells    *)
(* next_byte reads from holding bytes only.                                *)
TypeOK ==
  /\ RingOK(ring)
  /\ eof \in BOOLEAN
  /\ reader \in BOOLEAN
  /\ pc \in {"idle", "read", "take", "peek"}
  /\ result \in Results

(* ensure_more_bytes is inside the reader only for a buffer that is empty, *)
(* open and has a reader: it never asks a reader again that has come to    *)
(* its end, and never reads ahead of the lexer.                            *)
FillOnlyWhenDry == Filling => Length(ring) = 0 /\ ~eof /\ reader

(* Whatever the wrapping, growing and moving of the ring, the bytes leave  *)
(* it once each and in the order they came (ELTN_Buffer_write,             *)
(* ELTN_Buffer_set_capacity and next_byte together are a queue), and a     *)
(* call that fails loses nothing that was there before it.                 *)
Queue == INSTANCE ByteQueue WITH queue <- Content(ring), closed <- eof
ImplementsQueue == Queue!Spec

(* A document of any length passes through bounded memory: when all the    *)
(* text comes from the reader, the block ELTN_Buffer_write grows never     *)
(* exceeds twice the longest text the reader returns.                      *)
MemoryBoundedByChunk ==
  ring.cap > InitCap => \E text \in Chunk : ring.cap <= 2 * Len(text)

=============================================================================
