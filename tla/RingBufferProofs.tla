-------------------------- MODULE RingBufferProofs --------------------------
(***************************************************************************)
(* Proofs about RingBuffer, for every set of bytes, every set of texts and *)
(* every capacity.                                                         *)
(***************************************************************************)
EXTENDS RingBuffer, SequenceTheorems, TLAPS

-----------------------------------------------------------------------------
(* The geometry of the ring.                                               *)

(* The fields of a ring. *)
LEMMA RingFields ==
  ASSUME NEW r, RingOK(r)
  PROVE  /\ r.cap \in Nat /\ r.head \in Nat /\ r.tail \in Nat
         /\ r.head < r.cap /\ r.tail < r.cap /\ r.cap <= MaxCap
         /\ r.mem \in [0 .. r.cap - 1 -> Byte \cup {Junk}]
BY CapAssumption DEF RingOK

(* The live bytes never fill the block: at least one cell stays free. *)
LEMMA LengthRange ==
  ASSUME NEW r, RingOK(r)
  PROVE  Length(r) \in Nat /\ Length(r) < r.cap
BY CapAssumption DEF RingOK, Length

(* The cell of a live byte is a cell of the block. *)
LEMMA CellRange ==
  ASSUME NEW r, RingOK(r), NEW i \in Nat, i < r.cap
  PROVE  Cell(r, i) \in 0 .. r.cap - 1
BY CapAssumption DEF RingOK, Cell

(* The content is a sequence of bytes, one for each live cell. *)
LEMMA ContentSeq ==
  ASSUME NEW r, RingOK(r)
  PROVE  /\ Content(r) \in Seq(Byte)
         /\ Len(Content(r)) = Length(r)
         /\ \A i \in 1 .. Length(r) : Content(r)[i] = r.mem[Cell(r, i - 1)]
<1>1. Length(r) \in Nat
  BY LengthRange
<1>2. \A i \in 1 .. Length(r) : r.mem[Cell(r, i - 1)] \in Byte
  BY <1>1 DEF RingOK
<1>3. Content(r) \in [1 .. Length(r) -> Byte]
  BY <1>2 DEF Content
<1>4. Content(r) \in Seq(Byte)
  BY <1>1, <1>3
<1>5. DOMAIN Content(r) = 1 .. Length(r)
  BY DEF Content
<1>6. Len(Content(r)) = Length(r)
  BY <1>1, <1>4, <1>5, LenProperties
<1>7. QED
  BY <1>4, <1>6 DEF Content

(* A new block holds nothing. *)
LEMMA FreshRing ==
  ASSUME NEW n \in 1 .. MaxCap
  PROVE  RingOK(Fresh(n)) /\ Length(Fresh(n)) = 0 /\ Fresh(n).cap = n
BY CapAssumption DEF RingOK, Fresh, Length

(* A ring of no length has no content. *)
LEMMA EmptyContent ==
  ASSUME NEW r, RingOK(r)
  PROVE  /\ Length(r) = 0 <=> Content(r) = <<>>
         /\ Length(r) = 0 <=> r.head = r.tail
<1>1. Length(r) = 0 <=> Content(r) = <<>>
  BY ContentSeq, EmptySeq
<1>2. Length(r) = 0 <=> r.head = r.tail
  BY CapAssumption DEF RingOK, Length
<1>3. QED
  BY <1>1, <1>2

(***************************************************************************)
(* The cells a write of n bytes behind the content fills: they are cells   *)
(* of the block, none of them is live, and the n bytes come right after    *)
(* the live ones.                                                          *)
(***************************************************************************)
Wrap(r, k) == IF k < r.cap THEN k ELSE k - r.cap

LEMMA WriteIndices ==
  ASSUME NEW r, NEW q, NEW n \in Nat,
         r.cap \in Nat, r.head \in Nat, r.tail \in Nat,
         r.head < r.cap, r.tail < r.cap, Length(r) + n < r.cap,
         q.cap = r.cap, q.head = r.head, q.tail = Wrap(r, r.tail + n)
  PROVE  /\ q.tail \in 0 .. r.cap - 1
         /\ Length(q) = Length(r) + n
         /\ \A i \in 0 .. Length(r) - 1 :
              /\ Cell(q, i) = Cell(r, i)
              /\ Cell(r, i) \in 0 .. r.cap - 1
              /\ ~ (r.tail <= Cell(r, i) /\ Cell(r, i) < r.tail + n)
              /\ ~ (Cell(r, i) < r.tail + n - r.cap)
         /\ \A j \in 1 .. n :
              LET c == Wrap(r, r.tail + j - 1) IN
              /\ Cell(q, Length(r) + j - 1) = c
              /\ c \in 0 .. r.cap - 1
              /\ r.tail <= c => c < r.tail + n /\ c - r.tail + 1 = j
              /\ c < r.tail => /\ c < r.tail + n - r.cap
                              /\ c + r.cap - r.tail + 1 = j
<1>1. q.tail \in 0 .. r.cap - 1 /\ Length(q) = Length(r) + n
  BY DEF Length, Wrap
<1>2. ASSUME NEW i \in 0 .. Length(r) - 1
      PROVE  /\ Cell(q, i) = Cell(r, i)
             /\ Cell(r, i) \in 0 .. r.cap - 1
             /\ ~ (r.tail <= Cell(r, i) /\ Cell(r, i) < r.tail + n)
             /\ ~ (Cell(r, i) < r.tail + n - r.cap)
  BY DEF Length, Cell
<1>3. ASSUME NEW j \in 1 .. n
      PROVE  LET c == Wrap(r, r.tail + j - 1) IN
             /\ Cell(q, Length(r) + j - 1) = c
             /\ c \in 0 .. r.cap - 1
             /\ r.tail <= c => c < r.tail + n /\ c - r.tail + 1 = j
             /\ c < r.tail => /\ c < r.tail + n - r.cap
                             /\ c + r.cap - r.tail + 1 = j
  BY DEF Length, Cell, Wrap
<1>4. QED
  BY <1>1, <1>2, <1>3

-----------------------------------------------------------------------------
(* What the three changes of the ring do to its content.                   *)

(* A text that leaves a cell free goes behind the content, and nothing of  *)
(* the content is overwritten, wrapped or not.                             *)
LEMMA StoredContent ==
  ASSUME NEW r, RingOK(r), NEW text \in Seq(Byte),
         Length(r) + Len(text) < r.cap
  PROVE  /\ RingOK(Stored(r, text))
         /\ Stored(r, text).cap = r.cap
         /\ Length(Stored(r, text)) = Length(r) + Len(text)
         /\ Content(Stored(r, text)) = Content(r) \o text
<1> DEFINE q == Stored(r, text)
<1>1. /\ Len(text) \in Nat
      /\ text \in [1 .. Len(text) -> Byte]
  BY LenProperties
<1>2. Length(r) \in Nat
  BY LengthRange
<1>3. /\ r.cap \in Nat /\ r.head \in Nat /\ r.tail \in Nat
      /\ r.head < r.cap /\ r.tail < r.cap /\ r.cap <= MaxCap
      /\ r.mem \in [0 .. r.cap - 1 -> Byte \cup {Junk}]
  BY RingFields
<1>a. /\ q = [mem |-> q.mem, cap |-> q.cap, head |-> q.head, tail |-> q.tail]
      /\ q.cap = r.cap
      /\ q.head = r.head
      /\ q.tail = Wrap(r, r.tail + Len(text))
  BY <1>1, <1>3 DEF Stored, Wrap
<1>b. q.mem = [k \in 0 .. r.cap - 1 |->
                IF r.tail <= k /\ k < r.tail + Len(text)
                THEN text[k - r.tail + 1]
                ELSE IF k < r.tail + Len(text) - r.cap
                THEN text[k + r.cap - r.tail + 1]
                ELSE r.mem[k]]
  BY <1>1, <1>3 DEF Stored
<1>c. q.mem \in [0 .. r.cap - 1 -> Byte \cup {Junk}]
  BY <1>1, <1>3, <1>b
<1> HIDE DEF q
<1>4. /\ q.tail \in 0 .. r.cap - 1
      /\ Length(q) = Length(r) + Len(text)
  BY <1>1, <1>3, <1>a, WriteIndices
<1>5. \A i \in 0 .. Length(r) - 1 : q.mem[Cell(q, i)] = r.mem[Cell(r, i)]
  <2> SUFFICES ASSUME NEW i \in 0 .. Length(r) - 1
               PROVE  q.mem[Cell(q, i)] = r.mem[Cell(r, i)]
    OBVIOUS
  <2>1. /\ Cell(q, i) = Cell(r, i)
        /\ Cell(r, i) \in 0 .. r.cap - 1
        /\ ~ (r.tail <= Cell(r, i) /\ Cell(r, i) < r.tail + Len(text))
        /\ ~ (Cell(r, i) < r.tail + Len(text) - r.cap)
    BY <1>1, <1>3, <1>a, WriteIndices
  <2>2. QED
    BY <1>b, <2>1
<1>6. \A j \in 1 .. Len(text) : q.mem[Cell(q, Length(r) + j - 1)] = text[j]
  <2> SUFFICES ASSUME NEW j \in 1 .. Len(text)
               PROVE  q.mem[Cell(q, Length(r) + j - 1)] = text[j]
    OBVIOUS
  <2> DEFINE c == Wrap(r, r.tail + j - 1)
  <2>1. /\ Cell(q, Length(r) + j - 1) = c
        /\ c \in 0 .. r.cap - 1
        /\ r.tail <= c => c < r.tail + Len(text) /\ c - r.tail + 1 = j
        /\ c < r.tail => /\ c < r.tail + Len(text) - r.cap
                        /\ c + r.cap - r.tail + 1 = j
    BY <1>1, <1>3, <1>a, WriteIndices
  <2> HIDE DEF c
  <2>2. CASE r.tail <= c
    BY <1>b, <2>1, <2>2
  <2>3. CASE c < r.tail
    BY <1>b, <1>3, <2>1, <2>3
  <2>4. QED
    BY <1>3, <2>1, <2>2, <2>3
<1>7. RingOK(q)
  <2>1. \A i \in 0 .. Length(q) - 1 : q.mem[Cell(q, i)] \in Byte
    <3> SUFFICES ASSUME NEW i \in 0 .. Length(q) - 1
                 PROVE  q.mem[Cell(q, i)] \in Byte
      OBVIOUS
    <3>1. CASE i < Length(r)
      BY <1>2, <1>5, <3>1 DEF RingOK
    <3>2. CASE ~ (i < Length(r))
      <4>1. i - Length(r) + 1 \in 1 .. Len(text)
        BY <1>1, <1>2, <1>4, <3>2
      <4>2. Length(r) + (i - Length(r) + 1) - 1 = i
        BY <1>2
      <4>3. QED
        BY <1>1, <1>6, <4>1, <4>2
    <3>3. QED
      BY <3>1, <3>2
  <2>2. QED
    BY <1>3, <1>4, <1>a, <1>c, <2>1 DEF RingOK
<1>8. Content(q) = Content(r) \o text
  <2>1. /\ Content(q) \in Seq(Byte)
        /\ Len(Content(q)) = Length(q)
        /\ \A i \in 1 .. Length(q) : Content(q)[i] = q.mem[Cell(q, i - 1)]
    BY <1>7, ContentSeq
  <2>2. /\ Content(r) \in Seq(Byte)
        /\ Len(Content(r)) = Length(r)
        /\ \A i \in 1 .. Length(r) : Content(r)[i] = r.mem[Cell(r, i - 1)]
    BY ContentSeq
  <2>3. /\ Content(r) \o text \in Seq(Byte)
        /\ Len(Content(r) \o text) = Length(r) + Len(text)
        /\ \A i \in 1 .. Length(r) + Len(text) :
              (Content(r) \o text)[i] =
                IF i <= Length(r) THEN Content(r)[i] ELSE text[i - Length(r)]
    BY <2>2, ConcatProperties
  <2>4. \A i \in 1 .. Length(q) : Content(q)[i] = (Content(r) \o text)[i]
    <3> SUFFICES ASSUME NEW i \in 1 .. Length(q)
                 PROVE  q.mem[Cell(q, i - 1)] = (Content(r) \o text)[i]
      BY <2>1
    <3>1. CASE i <= Length(r)
      <4>1. i - 1 \in 0 .. Length(r) - 1 /\ i \in 1 .. Length(r) + Len(text)
        BY <1>1, <1>2, <3>1
      <4>2. QED
        BY <1>5, <2>2, <2>3, <3>1, <4>1
    <3>2. CASE ~ (i <= Length(r))
      <4>1. /\ i - Length(r) \in 1 .. Len(text)
            /\ i \in 1 .. Length(r) + Len(text)
        BY <1>1, <1>2, <1>4, <3>2
      <4>2. Length(r) + (i - Length(r)) - 1 = i - 1
        BY <1>2
      <4>3. QED
        BY <1>6, <2>3, <3>2, <4>1, <4>2
    <3>3. QED
      BY <3>1, <3>2
  <2>5. QED
    BY <1>4, <2>1, <2>3, <2>4, SeqEqual
<1>9. QED
  BY <1>4, <1>7, <1>8, <1>a DEF q

(* Moving the content to a larger or smaller block that can hold it, from  *)
(* one piece or from two, leaves it as it was.                             *)
LEMMA ResizedContent ==
  ASSUME NEW r, RingOK(r), NEW n \in Nat, Length(r) < n, n <= MaxCap
  PROVE  /\ RingOK(Resized(r, n))
         /\ Resized(r, n).cap = n
         /\ Length(Resized(r, n)) = Length(r)
         /\ Content(Resized(r, n)) = Content(r)
<1> DEFINE q == Resized(r, n)
<1>1. Length(r) \in Nat
  BY LengthRange
<1>2. n \in 1 .. MaxCap
  BY <1>1, CapAssumption
<1>3. CASE Length(r) = 0
  <2>1. q = Fresh(n)
    BY <1>3 DEF Resized
  <2>2. RingOK(q) /\ Length(q) = 0 /\ q.cap = n
    BY <1>2, <2>1, FreshRing
  <2>3. Content(q) = <<>> /\ Content(r) = <<>>
    BY <1>3, <2>2, EmptyContent
  <2>4. QED
    BY <1>3, <2>2, <2>3
<1>4. CASE Length(r) # 0
  <2> DEFINE headlen == IF r.head < r.tail THEN Length(r)
                                           ELSE Length(r) - r.tail
  <2>1. /\ r.cap \in Nat /\ r.head \in Nat /\ r.tail \in Nat
        /\ r.head < r.cap /\ r.tail < r.cap
        /\ r.mem \in [0 .. r.cap - 1 -> Byte \cup {Junk}]
    BY RingFields
  <2>2. q = [mem  |-> [i \in 0 .. n - 1 |->
                         IF i < headlen THEN r.mem[r.head + i]
                         ELSE IF i < Length(r) THEN r.mem[i - headlen]
                         ELSE Junk],
             cap |-> n, head |-> 0, tail |-> Length(r)]
    BY <1>4 DEF Resized
  <2>3. ASSUME NEW i \in 0 .. Length(r) - 1
        PROVE  IF i < headlen THEN r.head + i = Cell(r, i)
                              ELSE i - headlen = Cell(r, i)
    BY <2>1 DEF Length, Cell
  <2> HIDE DEF headlen, q
  <2>4. Length(q) = Length(r)
    BY <1>1, <2>2 DEF Length
  <2>5. ASSUME NEW i \in 0 .. Length(r) - 1
        PROVE  q.mem[Cell(q, i)] = r.mem[Cell(r, i)]
    <3>1. i \in 0 .. n - 1 /\ i < Length(r) /\ Cell(q, i) = i
      BY <1>1, <2>2 DEF Cell
    <3>2. q.mem[i] = IF i < headlen THEN r.mem[r.head + i]
                                   ELSE r.mem[i - headlen]
      BY <2>2, <3>1
    <3>3. QED
      BY <2>3, <3>1, <3>2
  <2>6. q.mem \in [0 .. n - 1 -> Byte \cup {Junk}]
    <3>1. ASSUME NEW i \in 0 .. n - 1
          PROVE  q.mem[i] \in Byte \cup {Junk}
      <4>1. CASE i < Length(r)
        <5>1. i \in 0 .. Length(r) - 1
          BY <1>1, <4>1
        <5>2. Cell(q, i) = i
          BY <1>1, <2>2 DEF Cell
        <5>3. QED
          BY <2>5, <5>1, <5>2 DEF RingOK
      <4>2. CASE ~ (i < Length(r))
        <5>1. ~ (i < headlen)
          BY <1>1, <2>1, <4>2 DEF headlen
        <5>2. QED
          BY <2>2, <4>2, <5>1
      <4>3. QED
        BY <4>1, <4>2
    <3>2. QED
      BY <2>2, <3>1
  <2>7. RingOK(q)
    <3>1. \A i \in 0 .. Length(q) - 1 : q.mem[Cell(q, i)] \in Byte
      BY <2>4, <2>5 DEF RingOK
    <3>2. /\ q = [mem |-> q.mem, cap |-> q.cap, head |-> q.head, tail |-> q.tail]
          /\ q.cap = n /\ q.head = 0 /\ q.tail = Length(r)
      BY <2>2
    <3>3. q.head \in 0 .. n - 1 /\ q.tail \in 0 .. n - 1
      BY <1>1, <1>2, <3>2, CapAssumption
    <3>4. QED
      BY <1>2, <2>6, <3>1, <3>2, <3>3 DEF RingOK
  <2>8. Content(q) = Content(r)
    <3>1. ASSUME NEW i \in 1 .. Length(r)
          PROVE  q.mem[Cell(q, i - 1)] = r.mem[Cell(r, i - 1)]
      BY <1>1, <2>5
    <3>2. QED
      BY <2>4, <3>1 DEF Content
  <2>9. QED
    BY <2>2, <2>4, <2>7, <2>8 DEF q
<1>5. QED
  BY <1>3, <1>4

(* The cells after head has moved over one live byte. *)
LEMMA TakeIndices ==
  ASSUME NEW r, NEW q,
         r.cap \in Nat, r.head \in Nat, r.tail \in Nat,
         r.head < r.cap, r.tail < r.cap, Length(r) # 0,
         q.cap = r.cap, q.tail = r.tail,
         q.head = IF r.head + 1 >= r.cap THEN 0 ELSE r.head + 1
  PROVE  /\ q.head \in 0 .. r.cap - 1
         /\ Length(q) = Length(r) - 1
         /\ \A i \in 0 .. Length(q) - 1 : /\ Cell(q, i) = Cell(r, i + 1)
                                        /\ i + 1 \in 0 .. Length(r) - 1
<1>1. q.head \in 0 .. r.cap - 1 /\ Length(q) = Length(r) - 1
  BY DEF Length
<1>2. ASSUME NEW i \in 0 .. Length(q) - 1
      PROVE  Cell(q, i) = Cell(r, i + 1) /\ i + 1 \in 0 .. Length(r) - 1
  BY DEF Length, Cell
<1>3. QED
  BY <1>1, <1>2

(* Consuming the byte at head takes the oldest byte off the content. *)
LEMMA AdvancedContent ==
  ASSUME NEW r, RingOK(r), Length(r) # 0
  PROVE  /\ RingOK(Advanced(r))
         /\ Advanced(r).cap = r.cap
         /\ Length(Advanced(r)) = Length(r) - 1
         /\ r.mem[r.head] \in Byte
         /\ r.mem[r.head] = Head(Content(r))
         /\ Content(Advanced(r)) = Tail(Content(r))
<1> DEFINE q == Advanced(r)
<1>1. Length(r) \in Nat
  BY LengthRange
<1>2. /\ r.cap \in Nat /\ r.head \in Nat /\ r.tail \in Nat
      /\ r.head < r.cap /\ r.tail < r.cap /\ r.cap <= MaxCap
      /\ r.mem \in [0 .. r.cap - 1 -> Byte \cup {Junk}]
  BY RingFields
<1>3. /\ q = [mem |-> r.mem, cap |-> r.cap, head |-> q.head, tail |-> r.tail]
      /\ q.head = IF r.head + 1 >= r.cap THEN 0 ELSE r.head + 1
  BY DEF Advanced
<1> HIDE DEF q
<1>4. /\ q.mem = r.mem /\ q.cap = r.cap /\ q.tail = r.tail
      /\ q.head \in 0 .. r.cap - 1
  BY <1>2, <1>3
<1>5. Length(q) = Length(r) - 1
  BY <1>2, <1>3, <1>4, TakeIndices
<1>6. ASSUME NEW i \in 0 .. Length(q) - 1
      PROVE  /\ Cell(q, i) = Cell(r, i + 1)
             /\ i + 1 \in 0 .. Length(r) - 1
  BY <1>2, <1>3, <1>4, TakeIndices
<1>7. RingOK(q)
  <2>1. \A i \in 0 .. Length(q) - 1 : q.mem[Cell(q, i)] \in Byte
    BY <1>4, <1>6 DEF RingOK
  <2>2. QED
    BY <1>2, <1>3, <1>4, <2>1 DEF RingOK
<1>8. /\ r.mem[r.head] = r.mem[Cell(r, 0)]
      /\ r.mem[r.head] \in Byte
  <2>1. Cell(r, 0) = r.head /\ 0 \in 0 .. Length(r) - 1
    BY <1>1, <1>2 DEF Cell
  <2>2. QED
    BY <2>1 DEF RingOK
<1>9. /\ Content(r) \in Seq(Byte)
      /\ Len(Content(r)) = Length(r)
      /\ \A i \in 1 .. Length(r) : Content(r)[i] = r.mem[Cell(r, i - 1)]
      /\ Content(r) # <<>>
  BY ContentSeq, EmptyContent
<1>10. r.mem[r.head] = Head(Content(r))
  <2>1. Content(r)[1] = r.mem[Cell(r, 1 - 1)]
    BY <1>1, <1>9
  <2>2. Head(Content(r)) = Content(r)[1]
    BY <1>9
  <2>3. QED
    BY <1>8, <2>1, <2>2
<1>11. Content(q) = Tail(Content(r))
  <2>1. /\ Tail(Content(r)) \in Seq(Byte)
        /\ Len(Tail(Content(r))) = Length(r) - 1
        /\ \A i \in 1 .. Length(r) - 1 :
              Tail(Content(r))[i] = Content(r)[i + 1]
    BY <1>9, HeadTailProperties
  <2>2. /\ Content(q) \in Seq(Byte)
        /\ Len(Content(q)) = Length(q)
        /\ \A i \in 1 .. Length(q) : Content(q)[i] = q.mem[Cell(q, i - 1)]
    BY <1>7, ContentSeq
  <2>3. ASSUME NEW i \in 1 .. Length(q)
        PROVE  Content(q)[i] = Tail(Content(r))[i]
    <3>1. i - 1 \in 0 .. Length(q) - 1 /\ i - 1 + 1 = i
      BY <1>1, <1>5
    <3>2. Cell(q, i - 1) = Cell(r, i)
      BY <1>6, <3>1
    <3>3. i \in 1 .. Length(r) - 1 /\ i + 1 \in 1 .. Length(r) /\ i + 1 - 1 = i
      BY <1>1, <1>5
    <3>4. QED
      BY <1>4, <1>9, <2>1, <2>2, <3>2, <3>3
  <2>4. QED
    BY <1>5, <2>1, <2>2, <2>3, SeqEqual
<1>12. QED
  BY <1>4, <1>5, <1>7, <1>8, <1>10, <1>11 DEF q

-----------------------------------------------------------------------------
(* Writing and reading, put together.                                      *)

(* ELTN_Buffer_write, growing the block or not, appends the text. *)
LEMMA StoreAppends ==
  ASSUME TypeOK, NEW text \in Seq(Byte), Storable(text)
  PROVE  /\ RingOK(AfterStore(text))
         /\ Length(AfterStore(text)) = Length(ring) + Len(text)
         /\ Content(AfterStore(text)) = Content(ring) \o text
<1>1. Len(text) \in Nat
  BY LenProperties
<1>2. RingOK(ring) /\ Length(ring) \in Nat /\ ring.cap \in Nat
  BY LengthRange, RingFields DEF TypeOK
<1>3. CASE ~NeedsRoom(text)
  <2>1. Length(ring) + Len(text) < ring.cap
    BY <1>1, <1>2, <1>3 DEF NeedsRoom
  <2>2. QED
    BY <1>1, <1>2, <1>3, <2>1, StoredContent DEF AfterStore
<1>4. CASE NeedsRoom(text)
  <2> DEFINE r == Resized(ring, NewCap(text))
  <2>1. 0 < ring.cap /\ Length(ring) < ring.cap
    BY <1>2, LengthRange, RingFields
  <2>2. /\ NewCap(text) \in Nat
        /\ Length(ring) + Len(text) < NewCap(text)
        /\ NewCap(text) <= MaxCap
    BY <1>1, <1>2, <1>4, <2>1 DEF NeedsRoom, NewCap, Storable, Grantable
  <2>3. /\ RingOK(r)
        /\ r.cap = NewCap(text)
        /\ Length(r) = Length(ring)
        /\ Content(r) = Content(ring)
    BY <1>1, <1>2, <2>2, ResizedContent
  <2>4. Length(r) + Len(text) < r.cap
    BY <2>2, <2>3
  <2> HIDE DEF r
  <2>5. /\ RingOK(Stored(r, text))
        /\ Length(Stored(r, text)) = Length(r) + Len(text)
        /\ Content(Stored(r, text)) = Content(r) \o text
    BY <1>1, <2>3, <2>4, StoredContent
  <2>6. QED
    BY <1>4, <2>3, <2>5 DEF AfterStore, r
<1>5. QED
  BY <1>3, <1>4

(* next_byte returns the oldest byte of a ring that is not empty. *)
LEMMA DeliverTakesHead ==
  ASSUME NEW r, RingOK(r), r.head # r.tail, NEW consume, Deliver(r, consume)
  PROVE  /\ RingOK(ring')
         /\ result' \in Results
         /\ Content(r) # <<>>
         /\ result' = Returned(NextCharCall(consume), Head(Content(r)))
         /\ Content(ring') = IF consume THEN Tail(Content(r)) ELSE Content(r)
<1>1. Length(r) # 0 /\ Content(r) # <<>>
  BY EmptyContent
<1>2. r.mem[r.head] \in Byte
  BY <1>1, AdvancedContent
<1>3. result' \in Results
  BY <1>2, ByteAssumption DEF Deliver, Returned, Results, NextCharCall
<1>4. QED
  BY <1>1, <1>3, AdvancedContent DEF Deliver

-----------------------------------------------------------------------------
(* The invariants.                                                         *)

IInv == TypeOK /\ FillOnlyWhenDry

LEMMA InitInv == Init => IInv
<1> SUFFICES ASSUME Init PROVE IInv
  OBVIOUS
<1>1. RingOK(Fresh(InitCap))
  BY FreshRing, CapAssumption
<1>2. QED
  BY <1>1 DEF Init, IInv, Returned, Results, TypeOK, FillOnlyWhenDry, Filling

(* A text that fills an empty ring leaves it not empty. *)
LEMMA FillsNonEmpty ==
  ASSUME TypeOK, NEW text \in Seq(Byte), text # <<>>, Storable(text)
  PROVE  AfterStore(text).head # AfterStore(text).tail
<1>1. Len(text) \in Nat /\ Len(text) # 0
  BY LenProperties, EmptySeq
<1>2. Length(ring) \in Nat
  BY LengthRange DEF TypeOK
<1>3. RingOK(AfterStore(text)) /\ Length(AfterStore(text)) # 0
  BY <1>1, <1>2, StoreAppends
<1>4. QED
  BY <1>3, EmptyContent

LEMMA StepInv == IInv /\ [Next]_vars => IInv'
<1> SUFFICES ASSUME IInv, [Next]_vars PROVE IInv'
  OBVIOUS
<1> USE DEF IInv
<1>1. ASSUME NEW text \in Chunk, Write(text) PROVE IInv'
  <2>1. RingOK(ring')
    BY <1>1, ChunkAssumption, StoreAppends DEF Write, Store, StoreFails, TypeOK
  <2>2. result' \in Results
    BY <1>1, ChunkAssumption, LenProperties DEF Write, Returned, Results
  <2>3. QED
    BY <1>1, <2>1, <2>2 DEF Write, TypeOK, FillOnlyWhenDry, Filling
<1>2. ASSUME NEW newcap \in 0 .. MaxCap + 1, SetCapacity(newcap) PROVE IInv'
  <2>1. RingOK(ring')
    <3>1. CASE newcap > Length(ring) /\ Grantable(newcap)
               /\ ring' = Resized(ring, newcap)
      <4>1. newcap \in Nat /\ Length(ring) < newcap /\ newcap <= MaxCap
        BY <3>1, LengthRange, CapAssumption DEF TypeOK, Grantable
      <4>2. QED
        BY <3>1, <4>1, ResizedContent DEF TypeOK
    <3>2. CASE UNCHANGED ring
      BY <3>2 DEF TypeOK
    <3>3. QED
      BY <1>2, <3>1, <3>2 DEF SetCapacity
  <2>2. QED
    BY <1>2, <2>1
    DEF SetCapacity, Returned, Results, TypeOK, FillOnlyWhenDry, Filling
<1>3. ASSUME NEW consume \in BOOLEAN, NextChar(consume) PROVE IInv'
  <2>1. CASE ring.head # ring.tail
    <3>1. Deliver(ring, consume) /\ UNCHANGED pc
      BY <1>3, <2>1 DEF NextChar
    <3>2. RingOK(ring') /\ result' \in Results
      BY <2>1, <3>1, DeliverTakesHead DEF TypeOK
    <3>3. QED
      BY <1>3, <3>1, <3>2
      DEF NextChar, TypeOK, FillOnlyWhenDry, Filling
  <2>2. CASE ring.head = ring.tail
    <3>1. Length(ring) = 0
      BY <2>2, EmptyContent DEF TypeOK
    <3>2. QED
      BY <1>3, <2>2, <3>1
      DEF NextChar, NextCharCall, Returned, Results, TypeOK, FillOnlyWhenDry, Filling
  <2>3. QED
    BY <2>1, <2>2
<1>4. ASSUME Close PROVE IInv'
  BY <1>4 DEF Close, TypeOK, FillOnlyWhenDry, Filling
<1>5. ASSUME Read PROVE IInv'
  BY <1>5 DEF Read, TypeOK, FillOnlyWhenDry, Filling
<1>6. ASSUME ReaderEnds PROVE IInv'
  BY <1>6 DEF ReaderEnds, GiveUp, Returned, Results, TypeOK, FillOnlyWhenDry, Filling
<1>7. ASSUME NEW text \in Chunk, ReaderErrs(text) PROVE IInv'
  <2>1. RingOK(ring')
    BY <1>7, ChunkAssumption, StoreAppends DEF ReaderErrs, Store, StoreFails, TypeOK
  <2>2. QED
    BY <1>7, <2>1
    DEF ReaderErrs, GiveUp, Returned, Results, TypeOK, FillOnlyWhenDry, Filling
<1>8. ASSUME NEW text \in Chunk, ReaderLost(text) PROVE IInv'
  BY <1>8
  DEF ReaderLost, StoreFails, GiveUp, Returned, Results, TypeOK,
      FillOnlyWhenDry, Filling
<1>9. ASSUME NEW text \in Chunk, ReaderFirst(text) PROVE IInv'
  <2>1. RingOK(ring')
    BY <1>9, ChunkAssumption, StoreAppends DEF ReaderFirst, Store
  <2>2. result' \in Results
    BY <1>9, ChunkAssumption, LenProperties DEF ReaderFirst, Returned, Results
  <2>3. QED
    BY <1>9, <2>1, <2>2 DEF ReaderFirst, TypeOK, FillOnlyWhenDry, Filling
<1>10. ASSUME NEW text \in Chunk, ReaderFills(text) PROVE IInv'
  <2>1. RingOK(ring') /\ result' \in Results
    BY <1>10, ChunkAssumption, StoreAppends, FillsNonEmpty, DeliverTakesHead
    DEF ReaderFills
  <2>2. QED
    BY <1>10, <2>1
    DEF ReaderFills, TypeOK, FillOnlyWhenDry, Filling
<1>11. CASE UNCHANGED vars
  BY <1>11 DEF vars, TypeOK, FillOnlyWhenDry, Filling
<1>12. QED
  BY <1>1, <1>2, <1>3, <1>4, <1>5, <1>6, <1>7, <1>8, <1>9, <1>10, <1>11
  DEF Next, ClientStep, ReaderAnswers

(* The fields of the buffer keep their ranges, and the cells between head  *)
(* and tail always hold bytes that were stored there: ELTN_Buffer_next_char *)
(* never returns memory the allocator left uninitialised.                  *)
THEOREM TypeCorrect == Spec => []TypeOK
<1>1. Spec => []IInv
  BY InitInv, StepInv, PTL DEF Spec
<1>2. QED
  BY <1>1, PTL DEF IInv

(* ensure_more_bytes calls the reader only for an empty, open buffer. *)
THEOREM FillsOnlyWhenDry == Spec => []FillOnlyWhenDry
<1>1. Spec => []IInv
  BY InitInv, StepInv, PTL DEF Spec
<1>2. QED
  BY <1>1, PTL DEF IInv

-----------------------------------------------------------------------------
(* The ring buffer implements the queue.                                   *)

LEMMA InitRefines == Init => Queue!Init
<1> SUFFICES ASSUME Init PROVE Queue!Init
  OBVIOUS
<1>1. RingOK(Fresh(InitCap)) /\ Length(Fresh(InitCap)) = 0
  BY FreshRing, CapAssumption
<1>2. Content(ring) = <<>>
  BY <1>1, EmptyContent DEF Init
<1>3. QED
  BY <1>2 DEF Init, Queue!Init, Returned, Queue!Returned

LEMMA StepRefines == IInv /\ [Next]_vars => [Queue!Next]_(Queue!vars)
<1> SUFFICES ASSUME IInv, [Next]_vars PROVE [Queue!Next]_(Queue!vars)
  OBVIOUS
<1> USE DEF IInv
<1> DEFINE queue == Content(ring)
<1>0. queue \in Seq(Byte)
  BY ContentSeq DEF TypeOK
<1>1. ASSUME NEW text \in Chunk, Store(text)
      PROVE  queue' = queue \o text /\ ~eof
  BY <1>1, ChunkAssumption, StoreAppends DEF Store, Storable
<1>2. ASSUME NEW text, StoreFails(text) PROVE queue' = queue
  BY <1>2 DEF StoreFails
<1>3. ASSUME NEW text \in Chunk, Write(text) PROVE Queue!Write(text)
  <2>1. CASE Store(text) /\ result' = Returned("write", Len(text))
    BY <1>1, <1>3, <2>1 DEF Write, Queue!Write, Returned, Queue!Returned
  <2>2. CASE StoreFails(text) /\ result' = Returned("write", Failed)
    BY <1>2, <1>3, <2>2 
    DEF Write, Queue!Write, Failed, Queue!Failed, Returned, Queue!Returned
  <2>3. QED
    BY <1>3, <2>1, <2>2 DEF Write
<1>4. ASSUME NEW newcap \in 0 .. MaxCap + 1, SetCapacity(newcap)
      PROVE  Queue!Resize
  <2>1. CASE newcap > Length(ring) /\ Grantable(newcap)
             /\ ring' = Resized(ring, newcap)
    <3>1. newcap \in Nat /\ Length(ring) < newcap /\ newcap <= MaxCap
      BY <2>1, LengthRange, CapAssumption DEF TypeOK, Grantable
    <3>2. queue' = queue
      BY <2>1, <3>1, ResizedContent DEF TypeOK
    <3>3. QED
      BY <1>4, <3>2 DEF SetCapacity, Queue!Resize, Returned, Queue!Returned
  <2>2. CASE UNCHANGED ring
    BY <1>4, <2>2 DEF SetCapacity, Queue!Resize, Returned, Queue!Returned
  <2>3. QED
    BY <1>4, <2>1, <2>2 DEF SetCapacity
<1>5. ASSUME NEW consume \in BOOLEAN, NextChar(consume)
      PROVE  [Queue!Next]_(Queue!vars)
  <2>1. CASE ring.head # ring.tail
    <3>1. Deliver(ring, consume)
      BY <1>5, <2>1 DEF NextChar
    <3>2. /\ queue # <<>>
          /\ result' = Returned(NextCharCall(consume), Head(queue))
          /\ queue' = IF consume THEN Tail(queue) ELSE queue
      BY <2>1, <3>1, DeliverTakesHead DEF TypeOK
    <3>3. queue \o <<>> = queue
      BY <1>0, ConcatEmptySeq
    <3>4. Queue!NextChar(<<>>, consume)
      BY <1>5, <3>2, <3>3
      DEF NextChar, Queue!NextChar, Returned, Queue!Returned,
          NextCharCall, Queue!NextCharCall
    <3>5. QED
      BY <3>4 DEF Queue!Next
  <2>2. CASE ring.head = ring.tail /\ (eof \/ ~reader)
    <3>1. queue = <<>>
      BY <2>2, EmptyContent DEF TypeOK
    <3>2. Queue!NoChar
      BY <1>5, <2>2, <3>1
      DEF NextChar, Queue!NoChar, Failed, Queue!Failed, Returned, Queue!Returned,
          NextCharCall, Queue!NextCharCall
    <3>3. QED
      BY <3>2 DEF Queue!Next
  <2>3. CASE ring.head = ring.tail /\ ~eof /\ reader
    BY <1>5, <2>3 DEF NextChar, Queue!vars
  <2>4. QED
    BY <2>1, <2>2, <2>3
<1>6. ASSUME Close PROVE Queue!Close
  BY <1>6 DEF Close, Queue!Close
<1>7. ASSUME Read PROVE UNCHANGED Queue!vars
  BY <1>7 DEF Read, Queue!vars
<1>a. ASSUME pc # "idle", GiveUp
      PROVE  /\ eof' = TRUE
             /\ \E call \in {"read", "take", "peek"} :
                   result' = Queue!Returned(call, Queue!Failed)
  <2>1. pc \in {"read", "take", "peek"}
    BY <1>a DEF TypeOK
  <2>2. QED
    BY <1>a, <2>1 DEF GiveUp, Returned, Queue!Returned, Failed, Queue!Failed
<1>8. ASSUME ReaderEnds PROVE Queue!ReaderStops(<<>>)
  BY <1>8, <1>a DEF ReaderEnds, Queue!ReaderStops
<1>9. ASSUME NEW text \in Chunk, ReaderErrs(text)
      PROVE  Queue!ReaderStops(text)
  <2>1. CASE Store(text)
    BY <1>1, <1>9, <1>a, <2>1 DEF ReaderErrs, Queue!ReaderStops
  <2>2. CASE StoreFails(text)
    BY <1>2, <1>9, <1>a, <2>2 DEF ReaderErrs, Queue!ReaderStops
  <2>3. QED
    BY <1>9, <2>1, <2>2 DEF ReaderErrs
<1>10. ASSUME NEW text \in Chunk, ReaderLost(text)
       PROVE  Queue!ReaderStops(text)
  BY <1>2, <1>10, <1>a DEF ReaderLost, Queue!ReaderStops
<1>11. ASSUME NEW text \in Chunk, ReaderFirst(text) PROVE Queue!Write(text)
  BY <1>1, <1>11 DEF ReaderFirst, Queue!Write, Returned, Queue!Returned
<1>12. ASSUME NEW text \in Chunk, ReaderFills(text)
       PROVE  Queue!NextChar(text, pc = "take")
  <2>1. queue = <<>> /\ ~eof
    BY <1>12, EmptyContent DEF ReaderFills, Filling, TypeOK, FillOnlyWhenDry
  <2>2. /\ RingOK(AfterStore(text))
        /\ AfterStore(text).head # AfterStore(text).tail
        /\ Content(AfterStore(text)) = queue \o text
    BY <1>12, ChunkAssumption, StoreAppends, FillsNonEmpty DEF ReaderFills
  <2>3. /\ queue \o text # <<>>
        /\ result' = Returned(pc, Head(queue \o text))
        /\ queue' = IF pc = "take" THEN Tail(queue \o text)
                                  ELSE queue \o text
    BY <1>12, <2>2, DeliverTakesHead DEF ReaderFills, Filling, NextCharCall
  <2>4. QED
    BY <1>12, <2>1, <2>3
    DEF ReaderFills, Filling, Queue!NextChar, Returned, Queue!Returned,
        Queue!NextCharCall
<1>13. CASE UNCHANGED vars
  BY <1>13 DEF vars, Queue!vars
<1>14. CASE ClientStep
  BY <1>3, <1>4, <1>5, <1>6, <1>7, <1>14 DEF ClientStep, Queue!Next
<1>15. CASE ReaderAnswers
  <2>1. CASE ReaderEnds
    BY <1>8, <2>1 DEF Queue!Next
  <2>2. QED
    BY <1>9, <1>10, <1>11, <1>12, <1>15, <2>1 DEF ReaderAnswers, Queue!Next
<1>16. QED
  BY <1>13, <1>14, <1>15 DEF Next

(* However the ring wraps, grows and moves, whichever calls fail and       *)
(* whatever the reader answers, ELTN_Buffer is a first-in first-out queue. *)
THEOREM RefinesQueue == Spec => ImplementsQueue
<1>1. Spec => []IInv
  BY InitInv, StepInv, PTL DEF Spec
<1>2. QED
  BY <1>1, InitRefines, StepRefines, PTL DEF Spec, ImplementsQueue, Queue!Spec

-----------------------------------------------------------------------------
(* The memory a document takes when it comes from a reader.                *)

(* The buffer is empty whenever the reader is about to add to it.          *)
ReadInv ==
  /\ IInv
  /\ pc # "idle" => reader
  /\ pc # "idle" \/ ~reader => Length(ring) = 0
  /\ MemoryBoundedByChunk

LEMMA ReadInit == Init => ReadInv
<1> SUFFICES ASSUME Init PROVE ReadInv
  OBVIOUS
<1>1. IInv
  BY InitInv
<1>2. Length(ring) = 0 /\ ring.cap = InitCap
  BY FreshRing, CapAssumption DEF Init
<1>3. QED
  BY <1>1, <1>2, CapAssumption DEF Init, ReadInv, MemoryBoundedByChunk

(* A text stored into an empty ring makes the block at most twice as large *)
(* as the text, or leaves it as it was.                                    *)
LEMMA StoreBounded ==
  ASSUME TypeOK, MemoryBoundedByChunk, Length(ring) = 0,
         NEW text \in Chunk, Storable(text)
  PROVE  LET r == AfterStore(text) IN
         r.cap > InitCap => \E t \in Chunk : r.cap <= 2 * Len(t)
<1>1. text \in Seq(Byte) /\ Len(text) \in Nat
  BY ChunkAssumption, LenProperties
<1>2. CASE ~NeedsRoom(text)
  BY <1>2 DEF AfterStore, Stored, MemoryBoundedByChunk
<1>3. CASE NeedsRoom(text)
  <2>1. AfterStore(text).cap = NewCap(text)
    BY <1>3 DEF AfterStore, Stored, Resized, Fresh
  <2>2. NewCap(text) <= 2 * Len(text)
    BY <1>1 DEF NewCap
  <2>3. QED
    BY <2>1, <2>2
<1>4. QED
  BY <1>2, <1>3

LEMMA ReadStep == ReadInv /\ [ReadNext]_vars => ReadInv'
<1> SUFFICES ASSUME ReadInv, [ReadNext]_vars PROVE ReadInv'
  OBVIOUS
<1> USE DEF ReadInv
<1>1. IInv'
  BY StepInv DEF ReadNext, Next, ClientStep
<1>2. CASE ~reader /\ Read
  BY <1>1, <1>2 DEF Read, MemoryBoundedByChunk
<1>3. ASSUME reader, NextChar(TRUE) PROVE ReadInv'
  <2>1. CASE ring.head # ring.tail
    <3>1. /\ UNCHANGED pc /\ reader'
          /\ ring' = Advanced(ring)
          /\ pc = "idle"
      BY <1>3, <2>1 DEF NextChar, Deliver
    <3>2. ring'.cap = ring.cap
      BY <3>1 DEF Advanced
    <3>3. QED
      BY <1>1, <3>1, <3>2 DEF MemoryBoundedByChunk
  <2>2. CASE ring.head = ring.tail
    <3>1. Length(ring) = 0
      BY <2>2, EmptyContent DEF IInv, TypeOK
    <3>2. QED
      BY <1>1, <1>3, <2>2, <3>1 DEF NextChar, MemoryBoundedByChunk
  <2>3. QED
    BY <2>1, <2>2
<1>4. CASE ReaderEnds
  BY <1>1, <1>4 DEF ReaderEnds, GiveUp, MemoryBoundedByChunk
<1>5. ASSUME NEW text \in Chunk, Store(text), pc # "idle"
      PROVE  MemoryBoundedByChunk'
  BY <1>5, StoreBounded DEF Store, IInv, TypeOK, MemoryBoundedByChunk
<1>6. ASSUME NEW text \in Chunk, ReaderErrs(text) PROVE ReadInv'
  <2>1. MemoryBoundedByChunk'
    BY <1>5, <1>6 DEF ReaderErrs, StoreFails, MemoryBoundedByChunk
  <2>2. QED
    BY <1>1, <1>6, <2>1 DEF ReaderErrs, GiveUp
<1>7. ASSUME NEW text \in Chunk, ReaderLost(text) PROVE ReadInv'
  BY <1>1, <1>7 DEF ReaderLost, StoreFails, GiveUp, MemoryBoundedByChunk
<1>8. ASSUME NEW text \in Chunk, ReaderFirst(text) PROVE ReadInv'
  <2>1. MemoryBoundedByChunk'
    BY <1>5, <1>8 DEF ReaderFirst
  <2>2. QED
    BY <1>1, <1>8, <2>1 DEF ReaderFirst
<1>9. ASSUME NEW text \in Chunk, ReaderFills(text) PROVE ReadInv'
  <2>1. LET r == AfterStore(text) IN
        r.cap > InitCap => \E t \in Chunk : r.cap <= 2 * Len(t)
    BY <1>9, StoreBounded DEF ReaderFills, Filling, IInv
  <2>2. ring'.cap = AfterStore(text).cap
    BY <1>9 DEF ReaderFills, Deliver, Advanced
  <2>3. MemoryBoundedByChunk'
    BY <2>1, <2>2 DEF MemoryBoundedByChunk
  <2>4. QED
    BY <1>1, <1>9, <2>3 DEF ReaderFills, Filling
<1>10. CASE UNCHANGED vars
  BY <1>1, <1>10 DEF vars, MemoryBoundedByChunk, Length
<1>11. QED
  BY <1>2, <1>3, <1>4, <1>6, <1>7, <1>8, <1>9, <1>10
  DEF ReadNext, ReaderAnswers

(* A client that only reads through a reader, as ELTN_Parser_read_file's   *)
(* does, never makes the block larger than twice the reader's longest text *)
(* (or than it was at first), however long the document.                   *)
THEOREM ReaderNeedsBoundedMemory == ReadSpec => []MemoryBoundedByChunk
<1>1. ReadSpec => []ReadInv
  BY ReadInit, ReadStep, PTL DEF ReadSpec
<1>2. QED
  BY <1>1, PTL DEF ReadInv

=============================================================================
