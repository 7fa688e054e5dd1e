----------------------------- MODULE ByteQueue -----------------------------
(***************************************************************************)
(* What the text buffer of the parser promises, with no memory layout in   *)
(* it: a first-in first-out queue of bytes that can be closed.  Bytes come *)
(* from the caller (ELTN_Buffer_write) or from the reader callback, and    *)
(* leave one at a time through ELTN_Buffer_next_char.                      *)
(*                                                                         *)
(* RingBuffer.tla, the specification of src/src/ebuffer.c, implements this *)
(* module.                                                                 *)
(***************************************************************************)
EXTENDS Integers, Sequences

CONSTANTS
  Byte,     (* the byte values, a set of naturals                           *)
  Chunk     (* the texts one write or one reader call can supply            *)

VARIABLES
  queue,    (* the bytes accepted and not yet consumed, oldest first        *)
  closed,   (* no more bytes are accepted                                   *)
  result    (* the last call that finished and what it returned: a count, a *)
            (* flag, a byte or -1                                           *)

vars == <<queue, closed, result>>

Failed == -1
Returned(call, value) == [call |-> call, value |-> value]

Init ==
  /\ queue = <<>>
  /\ closed = FALSE
  /\ result = Returned("none", 0)

(***************************************************************************)
(* A write, or the first chunk of a reader, is stored whole or not at all. *)
(***************************************************************************)
Write(text) ==
  \/ /\ ~closed
     /\ queue' = queue \o text
     /\ \E call \in {"write", "read"} : result' = Returned(call, Len(text))
     /\ UNCHANGED closed
  \/ /\ result' = Returned("write", Failed)
     /\ UNCHANGED <<queue, closed>>

(* Changing the capacity never touches the bytes. *)
Resize ==
  /\ \E flag \in {0, 1} : result' = Returned("set_capacity", flag)
  /\ UNCHANGED <<queue, closed>>

Close ==
  /\ closed' = TRUE
  /\ UNCHANGED <<queue, result>>

(***************************************************************************)
(* The next byte is the oldest one; the reader is asked for text only when *)
(* the queue has run dry.                                                  *)
(***************************************************************************)
NextCharCall(consume) == IF consume THEN "take" ELSE "peek"

NextChar(text, consume) ==
  LET available == queue \o text IN
  /\ text = <<>> \/ (queue = <<>> /\ ~closed)
  /\ available # <<>>
  /\ result' = Returned(NextCharCall(consume), Head(available))
  /\ queue' = IF consume THEN Tail(available) ELSE available
  /\ UNCHANGED closed

(* There is no byte, and nobody to ask for more. *)
NoChar ==
  /\ queue = <<>>
  /\ \E consume \in BOOLEAN : result' = Returned(NextCharCall(consume), Failed)
  /\ UNCHANGED <<queue, closed>>

(***************************************************************************)
(* The reader has come to its end or failed, or its text found no memory:  *)
(* the call reports -1 and the queue is closed.  The text that came with   *)
(* the failure is kept whole or lost whole.                                *)
(***************************************************************************)
ReaderStops(text) ==
  /\ queue' \in {queue, queue \o text}
  /\ queue' # queue => ~closed
  /\ closed' = TRUE
  /\ \E call \in {"read", "take", "peek"} : result' = Returned(call, Failed)

Next ==
  \/ \E text \in Chunk : Write(text)
  \/ \E text \in Chunk \cup {<<>>} :
       \/ \E consume \in BOOLEAN : NextChar(text, consume)
       \/ ReaderStops(text)
  \/ Resize
  \/ Close
  \/ NoChar

Spec == Init /\ [][Next]_vars

=============================================================================
