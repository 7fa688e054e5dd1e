---------------------------- MODULE MCRingBuffer ----------------------------
(* RingBuffer over two byte values and every text of at most MaxLen bytes. *)
EXTENDS RingBuffer

CONSTANT MaxLen
MCChunk == UNION {[1 .. n -> Byte] : n \in 0 .. MaxLen}
=============================================================================
