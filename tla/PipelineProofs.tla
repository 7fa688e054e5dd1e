--------------------------- MODULE PipelineProofs ---------------------------
(***************************************************************************)
(* Proofs about Pipeline, for documents of any length over any alphabet,   *)
(* in chunks of any size, from any of the three sources.                   *)
(***************************************************************************)
EXTENDS Pipeline, RingBufferProofs

-----------------------------------------------------------------------------
(* The bytes of a text.                                                    *)

Written == {Alphabet[b] : b \in Byte}

(* The bytes of a text read back as its characters. *)
LEMMA BytesRead ==
  ASSUME NEW chars \in Seq(Written)
  PROVE  /\ Bytes(chars) \in Seq(Byte)
         /\ Len(Bytes(chars)) = Len(chars)
         /\ \A i \in 1 .. Len(chars) : Alphabet[Bytes(chars)[i]] = chars[i]
<1> DEFINE Code(c) == CHOOSE b \in Byte : Alphabet[b] = c
<1>1. /\ Len(chars) \in Nat /\ DOMAIN chars = 1 .. Len(chars)
      /\ \A i \in 1 .. Len(chars) : chars[i] \in Written
  BY LenProperties
<1>2. \A c \in Written : Code(c) \in Byte /\ Alphabet[Code(c)] = c
  BY DEF Written
<1>3. Bytes(chars) = [i \in 1 .. Len(chars) |-> Code(chars[i])]
  BY <1>1 DEF Bytes
<1> HIDE DEF Code
<1>4. Bytes(chars) \in [1 .. Len(chars) -> Byte]
  BY <1>1, <1>2, <1>3
<1>5. Bytes(chars) \in Seq(Byte)
  BY <1>1, <1>4
<1>6. Len(Bytes(chars)) = Len(chars)
  BY <1>1, <1>3, <1>5, LenProperties
<1>7. QED
  BY <1>1, <1>2, <1>3, <1>5, <1>6

(* The source returns the characters behind the ones it returned before. *)
LEMMA PieceRead ==
  ASSUME file \in Docs, pos \in Nat, NEW n \in Nat, pos + n <= Len(file)
  PROVE  /\ Piece(n) \in Seq(Byte)
         /\ Len(Piece(n)) = n
         /\ \A i \in 1 .. n : Alphabet[Piece(n)[i]] = file[pos + i]
<1> DEFINE part == SubSeq(file, pos + 1, pos + n)
<1>1. file \in Seq(Written) /\ Len(file) \in Nat
  BY AlphabetAssumption, LenProperties DEF Written
<1>2. pos + 1 \in 1 .. Len(file) + 1 /\ pos + n \in (pos + 1) - 1 .. Len(file)
  BY <1>1
<1>3. /\ part \in Seq(Written)
      /\ Len(part) = n
      /\ \A i \in 1 .. n : part[i] = file[pos + i]
  BY <1>1, <1>2, SubSeqProperties
<1> HIDE DEF part
<1>4. QED
  BY <1>3, BytesRead DEF Piece, part

-----------------------------------------------------------------------------
(* The invariant.                                                          *)

(* The answer the lexer is about to see is that there is nothing more. *)
Told == answered /\ result.value = Failed

(* How much of the text has come as far as the ring. *)
Held == Len(taken) + Length(ring)

Types ==
  /\ TypeOK /\ FillOnlyWhenDry
  /\ kind \in {"string", "file", "own"}
  /\ file \in Docs
  /\ cut \in 0 .. Len(file) /\ pos \in 0 .. cut
  /\ started \in BOOLEAN /\ answered \in BOOLEAN /\ eos \in BOOLEAN
  /\ taken \in Seq(Written)
  /\ count \in Nat

(* What can be under way together.  Only a buffer that is empty and open   *)
(* has a call waiting for the reader, and only for a lexer that has not    *)
(* come to the end.                                                        *)
Control ==
  /\ ~started => /\ pc = "idle" /\ ~eof /\ ~reader /\ ~answered /\ ~eos
                 /\ Held = 0 /\ pos = 0
  /\ started => reader \/ eof
  /\ kind = "string" => pc = "idle" /\ ~reader
  /\ pc # "idle" => /\ pc # "peek" /\ reader /\ ~eof
                    /\ ~answered /\ ~eos /\ Length(ring) = 0
  /\ eos => ~answered

(* What is on its way is the beginning of the text. *)
Flow ==
  /\ Held <= Len(file)
  /\ \A i \in 1 .. Len(taken) : taken[i] = file[i]
  /\ \A i \in 1 .. Length(ring) : Alphabet[Content(ring)[i]] = file[Len(taken) + i]
  /\ ~eof => Held = pos

(* The buffer is closed once all that can be supplied is in it; a lexer    *)
(* that is told so, and only then, has taken all of that, and what came    *)
(* with an error stays behind in the ring.                                 *)
Ending ==
  /\ eof => Held = cut \/ ((eos \/ Told) /\ Len(taken) = cut)
  /\ Told \/ eos => eof /\ Len(taken) = cut
  /\ count = IF eos THEN Len(taken) + 1
             ELSE IF answered /\ ~Told THEN Len(taken) - 1 ELSE Len(taken)

PipeInv == Types /\ Control /\ Flow /\ Ending /\ MemoryBounded

LEMMA TakenLength ==
  ASSUME Types
  PROVE  /\ Len(taken) \in Nat /\ Length(ring) \in Nat /\ Held \in Nat
         /\ Len(file) \in Nat /\ file \in Seq(Written)
         /\ cut \in Nat /\ pos \in Nat /\ pos <= cut /\ cut <= Len(file)
<1>1. file \in Seq(Written) /\ Len(file) \in Nat
  BY AlphabetAssumption, LenProperties DEF Types, Written
<1>2. Len(taken) \in Nat /\ Length(ring) \in Nat
  BY LenProperties, LengthRange DEF Types, TypeOK
<1>3. QED
  BY <1>1, <1>2 DEF Types, Held

LEMMA PipeInit == PipelineInit => PipeInv
<1> SUFFICES ASSUME PipelineInit PROVE PipeInv
  OBVIOUS
<1>1. TypeOK /\ FillOnlyWhenDry
  BY InitInv DEF PipelineInit, IInv
<1>2. Length(ring) = 0 /\ ring.cap = InitCap
  BY FreshRing, CapAssumption DEF PipelineInit, Init
<1>3. taken = <<>> /\ Len(taken) = 0 /\ taken \in Seq(Written) /\ count = 0 /\ eos = FALSE
  BY DEF PipelineInit, Lex!Init
<1>4. file \in Docs /\ Len(file) \in Nat
  BY AlphabetAssumption, LenProperties DEF PipelineInit
<1>5. Types
  <2>1. started \in BOOLEAN /\ answered \in BOOLEAN /\ eos \in BOOLEAN
    BY <1>3, Zenon DEF PipelineInit
  <2>2. cut \in 0 .. Len(file) /\ pos \in 0 .. cut
    BY <1>4 DEF PipelineInit
  <2>3. QED
    BY <1>1, <1>3, <1>4, <2>1, <2>2 DEF PipelineInit, Types
<1>6. Held = 0
  BY <1>2, <1>3 DEF Held
<1>7. Control /\ Flow /\ Ending
  BY <1>2, <1>3, <1>4, <1>6
  DEF PipelineInit, Init, Control, Flow, Ending, Told
<1>8. MemoryBounded
  BY <1>2, CapAssumption DEF MemoryBounded
<1>9. QED
  BY <1>5, <1>7, <1>8 DEF PipeInv

-----------------------------------------------------------------------------
(* The parts a step is made of.                                            *)

(* What the ring r holds comes next in the text. *)
Carries(r) ==
  \A i \in 1 .. Length(r) : Alphabet[Content(r)[i]] = file[Len(taken) + i]

(* Storing what the source returns next. *)
LEMMA PieceStored ==
  ASSUME Types, Carries(ring), Held = pos, NEW n \in Nat, pos + n <= Len(file),
         Storable(Piece(n))
  PROVE  LET r == AfterStore(Piece(n)) IN
         /\ RingOK(r) /\ Carries(r)
         /\ Length(r) = Length(ring) + n
         /\ n # 0 => r.head # r.tail
<1> DEFINE r == AfterStore(Piece(n))
<1>1. /\ Piece(n) \in Seq(Byte) /\ Len(Piece(n)) = n
      /\ \A i \in 1 .. n : Alphabet[Piece(n)[i]] = file[pos + i]
  BY PieceRead, TakenLength DEF Types
<1>2. /\ RingOK(r)
      /\ Length(r) = Length(ring) + n
      /\ Content(r) = Content(ring) \o Piece(n)
  BY <1>1, StoreAppends DEF Types
<1> HIDE DEF r
<1>3. /\ Len(taken) \in Nat /\ Length(ring) \in Nat /\ pos \in Nat
      /\ pos = Len(taken) + Length(ring)
  BY TakenLength DEF Held
<1>4. /\ Content(ring) \in Seq(Byte) /\ Len(Content(ring)) = Length(ring)
  BY ContentSeq DEF Types, TypeOK
<1> DEFINE old == Content(ring)
           new == Piece(n)
<1>5. \A i \in 1 .. Length(ring) + n :
        (old \o new)[i] = IF i <= Length(ring) THEN old[i] ELSE new[i - Length(ring)]
  <2>1. old \in Seq(Byte) /\ new \in Seq(Byte) /\ Len(old) = Length(ring) /\ Len(new) = n
    BY <1>1, <1>4
  <2> HIDE DEF old, new
  <2>2. \A i \in 1 .. Len(old) + Len(new) :
          (old \o new)[i] = IF i <= Len(old) THEN old[i] ELSE new[i - Len(old)]
    BY <2>1, ConcatProperties
  <2>3. QED
    BY <2>1, <2>2
<1>6. ASSUME NEW i \in 1 .. Length(r)
      PROVE  Alphabet[Content(r)[i]] = file[Len(taken) + i]
  <2> HIDE DEF old, new
  <2>1. i \in Nat /\ 1 <= i /\ i <= Length(ring) + n /\ Content(r) = old \o new
    BY <1>2, <1>3 DEF old, new
  <2>2. Content(r)[i] = IF i <= Length(ring) THEN old[i] ELSE new[i - Length(ring)]
    <3>1. i \in 1 .. Length(ring) + n
      BY <1>3, <2>1
    <3>2. QED
      BY <1>5, <2>1, <3>1, Zenon
  <2>3. CASE i <= Length(ring)
    <3>1. Content(r)[i] = Content(ring)[i] /\ i \in 1 .. Length(ring)
      BY <1>3, <2>1, <2>2, <2>3 DEF old
    <3>2. QED
      BY <3>1 DEF Carries
  <2>4. CASE i > Length(ring)
    <3> DEFINE j == i - Length(ring)
    <3>1. j \in 1 .. n /\ pos + j = Len(taken) + i
      BY <1>3, <2>1, <2>4
    <3>2. Content(r)[i] = Piece(n)[j]
      BY <1>3, <2>1, <2>2, <2>4 DEF new
    <3> HIDE DEF j
    <3>3. QED
      BY <1>1, <3>1, <3>2
  <2>5. i <= Length(ring) \/ i > Length(ring)
    BY <1>3, <2>1
  <2>6. QED
    BY <2>3, <2>4, <2>5
<1>7. n # 0 => r.head # r.tail
  BY <1>2, <1>3, EmptyContent
<1>8. QED
  BY <1>2, <1>6, <1>7 DEF Carries, r

(* The lexer is handed the next character of the text. *)
LEMMA CharacterTaken ==
  ASSUME Types, NEW r, RingOK(r), r.head # r.tail, Carries(r),
         Deliver(r, TRUE), taken' = Append(taken, Alphabet[result'.value]),
         UNCHANGED file,
         \A i \in 1 .. Len(taken) : taken[i] = file[i]
  PROVE  /\ RingOK(ring') /\ result' \in Results /\ ring'.cap = r.cap
         /\ result'.value # Failed
         /\ taken' \in Seq(Written)
         /\ Len(taken') = Len(taken) + 1
         /\ Length(ring') = Length(r) - 1 /\ Length(ring') \in Nat
         /\ \A i \in 1 .. Len(taken') : taken'[i] = file'[i]
         /\ \A i \in 1 .. Length(ring') :
              Alphabet[Content(ring')[i]] = file'[Len(taken') + i]
<1>1. /\ RingOK(ring') /\ result' \in Results /\ Content(r) # <<>>
      /\ result' = Returned("take", Head(Content(r)))
      /\ Content(ring') = Tail(Content(r))
  BY DeliverTakesHead DEF NextCharCall
<1>2. /\ Content(r) \in Seq(Byte) /\ Len(Content(r)) = Length(r)
      /\ Content(ring') \in Seq(Byte) /\ Len(Content(ring')) = Length(ring')
  BY <1>1, ContentSeq
<1>3. /\ Length(r) \in Nat /\ Length(r) # 0
      /\ Length(ring') = Length(r) - 1
      /\ \A i \in 1 .. Length(ring') : Content(ring')[i] = Content(r)[i + 1]
  BY <1>1, <1>2, EmptySeq, LenProperties
<1>4. result'.value = Content(r)[1] /\ Content(r)[1] \in Byte
  BY <1>1, <1>2, <1>3 DEF Returned
<1>5. result'.value # Failed
  BY <1>4, ByteAssumption DEF Failed
<1>6. /\ Len(taken) \in Nat /\ taken \in Seq(Written)
      /\ Alphabet[result'.value] \in Written
  BY <1>4, TakenLength DEF Types, Written
<1>7. /\ taken' \in Seq(Written) /\ Len(taken') = Len(taken) + 1
      /\ \A i \in 1 .. Len(taken) : taken'[i] = taken[i]
      /\ taken'[Len(taken) + 1] = Alphabet[result'.value]
  BY <1>6, AppendProperties
<1>8. \A i \in 1 .. Len(taken') : taken'[i] = file'[i]
  <2>1. Alphabet[result'.value] = file[Len(taken) + 1]
    BY <1>3, <1>4 DEF Carries
  <2>2. QED
    BY <1>6, <1>7, <2>1
<1>9. \A i \in 1 .. Length(ring') :
        Alphabet[Content(ring')[i]] = file'[Len(taken') + i]
  <2> SUFFICES ASSUME NEW i \in 1 .. Length(ring')
               PROVE  Alphabet[Content(ring')[i]] = file[Len(taken') + i]
    OBVIOUS
  <2>1. i + 1 \in 1 .. Length(r) /\ Len(taken') + i = Len(taken) + (i + 1)
    BY <1>3, <1>6, <1>7
  <2>2. QED
    BY <1>3, <2>1 DEF Carries
<1>10. ring'.cap = r.cap
  BY DEF Deliver, Advanced
<1>11. Length(ring') \in Nat
  BY <1>1, LengthRange
<1>12. QED
  BY <1>1, <1>3, <1>5, <1>7, <1>8, <1>9, <1>10, <1>11

(* Storing n bytes into an empty ring, the block stays or is of 2n bytes. *)
LEMMA PieceFits ==
  ASSUME Length(ring) = 0, NEW n \in Nat, Len(Piece(n)) = n
  PROVE  AfterStore(Piece(n)).cap \in {ring.cap, 2 * n}
<1>1. CASE NeedsRoom(Piece(n))
  BY <1>1 DEF AfterStore, NewCap, Stored, Resized, Fresh
<1>2. CASE ~NeedsRoom(Piece(n))
  BY <1>2 DEF AfterStore, Stored
<1>3. QED
  BY <1>1, <1>2

(* A step of the lexer reads a character of taken, its end, or nothing. *)
LEMMA LexerReads ==
  ASSUME Lex!Next
  PROVE  /\ UNCHANGED taken
         /\ \/ UNCHANGED <<count, eos>>
            \/ /\ ~eos /\ count' = count + 1
               /\ \/ count < Len(taken) /\ UNCHANGED eos
                  \/ count >= Len(taken) /\ eos' = TRUE
<1> DEFINE Reading ==
      \/ UNCHANGED <<count, eos>>
      \/ /\ ~eos /\ count' = count + 1
         /\ \/ count < Len(taken) /\ UNCHANGED eos
            \/ count >= Len(taken) /\ eos' = TRUE
<1>1. Lex!GetNextChar \/ Lex!NoGet \/ Lex!PushBack => Reading
  BY DEF Lex!GetNextChar, Lex!NoGet, Lex!PushBack
<1>2. UNCHANGED taken /\ (Lex!GetNextChar \/ Lex!NoGet \/ Lex!PushBack)
  BY DEF Lex!Next, Lex!NextToken, Lex!SkipSpace, Lex!Begin, Lex!Bracket,
         Lex!Dash, Lex!Number, Lex!Name, Lex!Quoted, Lex!LongString,
         Lex!Comment
<1>3. QED
  BY <1>1, <1>2

-----------------------------------------------------------------------------
(* The steps.                                                              *)

(* A call waiting for the reader ends without a character.  What came with *)
(* an error may be left in the ring.                                       *)
LEMMA GivesUp ==
  ASSUME PipeInv, pc # "idle", GiveUp, Return, pos' = cut,
         UNCHANGED <<reader, source, started, lexer>>,
         RingOK(ring'), Carries(ring'),
         Len(taken) + Length(ring') <= Len(file),
         pc = "read" => Len(taken) + Length(ring') = cut,
         pc # "read" => Len(taken) = cut,
         MemoryBounded'
  PROVE  PipeInv'
<1> USE DEF PipeInv
<1>1. /\ UNCHANGED <<kind, file, cut, count, eos, started, reader, taken>>
      /\ eof' = TRUE /\ pc' = "idle" /\ result' = Returned(pc, Failed)
      /\ answered' = IF pc = "read" THEN answered ELSE TRUE
  BY DEF GiveUp, Return, source, lexer, Returned
<1>2. started /\ ~answered /\ ~eos /\ kind # "string"
  BY DEF Control
<1>3. Types'
  <2>1. TypeOK' /\ FillOnlyWhenDry'
    BY <1>1 DEF Types, TypeOK, FillOnlyWhenDry, Filling, Results, Returned
  <2>2. pos' \in 0 .. cut' /\ cut' \in 0 .. Len(file')
    BY <1>1, TakenLength
  <2>3. answered' \in BOOLEAN
    BY <1>1, <1>2, Zenon DEF Types
  <2>4. QED
    BY <1>1, <2>1, <2>2, <2>3 DEF Types
<1>4. Control'
  BY <1>1, <1>2 DEF Control
<1>5. Length(ring') \in Nat /\ Held' = Len(taken) + Length(ring') /\ Len(taken) \in Nat
  BY <1>1, TakenLength, LengthRange DEF Held
<1>6. Flow'
  BY <1>1, <1>5 DEF Flow, Carries
<1>7. Ending'
  BY <1>1, <1>2, <1>5 DEF Ending, Told, Returned
<1>8. QED
  BY <1>3, <1>4, <1>6, <1>7

(* The lexer gets the first character of what the ring r holds. *)
LEMMA HandsOver ==
  ASSUME PipeInv, started, ~answered, ~eos,
         NEW r, RingOK(r), r.head # r.tail, Carries(r), Deliver(r, TRUE),
         pc' = "idle", answered' = TRUE,
         taken' = Append(taken, Alphabet[result'.value]),
         UNCHANGED <<eof, reader, source, started, lexer>>,
         pos' \in 0 .. cut,
         Len(taken) + Length(r) <= Len(file),
         Len(taken) + Length(r) = IF eof THEN cut ELSE pos',
         kind # "string" => r.cap <= InitCap \/ r.cap <= 2 * Block
  PROVE  PipeInv'
<1> USE DEF PipeInv
<1>1. UNCHANGED <<kind, file, cut, count, eos, started, reader, eof>>
  BY DEF source, lexer
<1>2. /\ RingOK(ring') /\ result' \in Results /\ ring'.cap = r.cap
      /\ result'.value # Failed
      /\ taken' \in Seq(Written)
      /\ Len(taken') = Len(taken) + 1
      /\ Length(ring') = Length(r) - 1 /\ Length(ring') \in Nat
      /\ \A i \in 1 .. Len(taken') : taken'[i] = file'[i]
      /\ \A i \in 1 .. Length(ring') :
           Alphabet[Content(ring')[i]] = file'[Len(taken') + i]
  BY <1>1, CharacterTaken DEF Flow
<1>3. Types'
  <2>1. TypeOK' /\ FillOnlyWhenDry'
    BY <1>1, <1>2 DEF Types, TypeOK, FillOnlyWhenDry, Filling
  <2>2. answered' \in BOOLEAN
    BY Zenon
  <2>3. QED
    BY <1>1, <1>2, <2>1, <2>2 DEF Types
<1>4. Control'
  BY <1>1 DEF Control
<1>5. /\ Length(r) \in Nat /\ Len(taken) \in Nat
      /\ Held' = Len(taken) + Length(r)
  BY <1>2, TakenLength, LengthRange DEF Held
<1>6. Flow'
  BY <1>1, <1>2, <1>5 DEF Flow
<1>7. Ending'
  BY <1>1, <1>2, <1>5 DEF Ending, Told
<1>8. MemoryBounded'
  BY <1>1, <1>2 DEF MemoryBounded
<1>9. QED
  BY <1>3, <1>4, <1>6, <1>7, <1>8

LEMMA ReadStringStep == PipeInv /\ ReadString => PipeInv'
<1> SUFFICES ASSUME PipeInv, ReadString PROVE PipeInv'
  OBVIOUS
<1> USE DEF PipeInv
<1>1. /\ UNCHANGED <<kind, file, cut, count, eos, reader, pc, taken, answered>>
      /\ started' = TRUE /\ eof' = TRUE /\ pos' = cut /\ kind = "string"
      /\ ~started
  BY DEF ReadString, source, lexer
<1>2. /\ pc = "idle" /\ ~answered /\ ~eos /\ Held = 0 /\ pos = 0
      /\ Length(ring) = 0 /\ Len(taken) = 0 /\ Carries(ring)
  BY <1>1, TakenLength DEF Control, Held, Carries
<1>3. Piece(Len(file)) = Bytes(file)
  <2>1. SubSeq(file, 1, Len(file)) = file
    BY TakenLength, SubSeqFull
  <2>2. pos + 1 = 1 /\ pos + Len(file) = Len(file)
    BY <1>2, TakenLength
  <2>3. QED
    BY <2>1, <2>2 DEF Piece
<1>4. RingOK(ring') /\ Carries(ring') /\ Length(ring') = cut
  <2>1. CASE cut = Len(file) /\ Store(Bytes(file))
    <3>1. ring' = AfterStore(Piece(Len(file))) /\ Storable(Piece(Len(file)))
      BY <1>3, <2>1 DEF Store
    <3>2. QED
      BY <1>2, <2>1, <3>1, PieceStored, TakenLength
  <2>2. CASE cut = 0 /\ StoreFails(Bytes(file))
    BY <1>2, <2>2 DEF StoreFails, Types, TypeOK
  <2>3. QED
    BY <2>1, <2>2 DEF ReadString
<1>5. result' \in Results
  BY TakenLength DEF ReadString, Returned, Results
<1>6. Types'
  <2>1. TypeOK' /\ FillOnlyWhenDry'
    BY <1>1, <1>2, <1>4, <1>5 DEF Types, TypeOK, FillOnlyWhenDry, Filling
  <2>2. started' \in BOOLEAN
    BY <1>1, Zenon
  <2>3. QED
    BY <1>1, <2>1, <2>2, TakenLength DEF Types
<1>7. Control'
  BY <1>1, <1>2 DEF Control
<1>8. Held' = cut /\ Len(taken) = 0
  BY <1>1, <1>2, <1>4, TakenLength DEF Held
<1>9. Flow'
  BY <1>1, <1>2, <1>4, <1>8, TakenLength DEF Flow, Carries
<1>10. Ending' /\ MemoryBounded'
  BY <1>1, <1>2, <1>8 DEF Ending, Told, MemoryBounded
<1>11. QED
  BY <1>6, <1>7, <1>9, <1>10

LEMMA ReadFirstStep == PipeInv /\ ReadFirst => PipeInv'
<1> SUFFICES ASSUME PipeInv, ReadFirst PROVE PipeInv'
  OBVIOUS
<1> USE DEF PipeInv
<1>1. /\ UNCHANGED <<kind, file, cut, count, eos, ring, eof, result, pos, taken,
                     answered>>
      /\ started' = TRUE /\ reader' = TRUE /\ pc' = "read"
      /\ ~started /\ kind # "string"
  BY DEF ReadFirst, Read, source, lexer
<1>2. /\ ~eof /\ ~answered /\ ~eos /\ Length(ring) = 0
  BY <1>1, TakenLength DEF Control, Held
<1>3. Types'
  <2>1. TypeOK' /\ FillOnlyWhenDry'
    BY <1>1 DEF Types, TypeOK, FillOnlyWhenDry, Filling
  <2>2. started' \in BOOLEAN
    BY <1>1, Zenon
  <2>3. QED
    BY <1>1, <2>1, <2>2 DEF Types
<1>4. Control'
  BY <1>1, <1>2 DEF Control
<1>5. Flow' /\ Ending' /\ MemoryBounded'
  BY <1>1 DEF Flow, Ending, Told, MemoryBounded, Held
<1>6. QED
  BY <1>3, <1>4, <1>5

(* The buffer waits for its reader: nothing is in it, and the next piece   *)
(* of the text fits behind nothing.                                        *)
LEMMA Waiting ==
  ASSUME PipeInv, pc # "idle"
  PROVE  /\ kind # "string" /\ started /\ ~answered /\ ~eos /\ ~eof /\ reader
         /\ Length(ring) = 0 /\ Len(taken) = pos /\ Held = pos /\ count = Len(taken)
         /\ Carries(ring) /\ RingOK(ring)
         /\ pc \in {"read", "take"}
<1> USE DEF PipeInv
<1>1. /\ started /\ ~answered /\ ~eos /\ ~eof /\ reader /\ Length(ring) = 0
      /\ kind # "string"
  BY DEF Control
<1>2. Held = pos /\ Len(taken) = pos
  BY <1>1, TakenLength DEF Flow, Held
<1>3. pc \in {"read", "take"} /\ RingOK(ring)
  BY DEF Control, Types, TypeOK
<1>4. QED
  BY <1>1, <1>2, <1>3 DEF Carries, Ending, Told

(* What the source returns with no error is stored, and the lexer gets its *)
(* first character if it waits for one.                                    *)
LEMMA SupplyStep ==
  ASSUME PipeInv, NEW n \in 0 .. Block, Supply(n), Return, pc # "idle",
         UNCHANGED <<source, started, lexer>>
  PROVE  PipeInv'
<1> DEFINE r == AfterStore(Piece(n))
<1>1. /\ kind # "string" /\ started /\ ~answered /\ ~eos /\ ~eof /\ reader
      /\ Length(ring) = 0 /\ Len(taken) = pos /\ Held = pos /\ count = Len(taken)
      /\ Carries(ring)
      /\ pc \in {"read", "take"}
  BY Waiting
<1>2. /\ n \in Nat /\ n <= Block /\ pos + n <= cut /\ pos' = pos + n
      /\ pos' \in 0 .. cut
      /\ pos + n <= Len(file) /\ pos \in Nat /\ cut \in Nat
  BY AlphabetAssumption, TakenLength DEF Supply, CanSupply, PipeInv
<1>3. Piece(n) \in Seq(Byte) /\ Len(Piece(n)) = n
  BY <1>2, PieceRead DEF PipeInv, Types
<1>4. Storable(Piece(n))
  BY DEF Supply, ReaderFirst, ReaderFills, Store
<1>5. /\ RingOK(r) /\ Carries(r) /\ Length(r) = n
      /\ n # 0 => r.head # r.tail
  BY <1>1, <1>2, <1>4, PieceStored DEF PipeInv
<1>6. r.cap <= InitCap \/ r.cap <= 2 * Block
  <2>1. r.cap \in {ring.cap, 2 * n}
    BY <1>1, <1>2, <1>3, PieceFits
  <2>2. ring.cap <= InitCap \/ ring.cap <= 2 * Block
    BY <1>1 DEF PipeInv, MemoryBounded
  <2>3. 2 * n <= 2 * Block
    BY <1>2, AlphabetAssumption
  <2>4. QED
    BY <2>1, <2>2, <2>3
<1> HIDE DEF r
<1>7. CASE ReaderFirst(Piece(n))
  <2>1. /\ ring' = r /\ result' = Returned("read", n) /\ pc' = "idle"
        /\ UNCHANGED <<eof, reader, kind, file, cut, started, count, eos>>
        /\ UNCHANGED <<taken, answered>>
    BY <1>3, <1>7 DEF ReaderFirst, Store, Return, r, source, lexer
  <2>2. Types'
    <3>1. TypeOK' /\ FillOnlyWhenDry'
      BY <1>2, <1>5, <2>1
      DEF PipeInv, Types, TypeOK, FillOnlyWhenDry, Filling, Results, Returned
    <3>2. QED
      BY <1>2, <2>1, <3>1 DEF PipeInv, Types
  <2>3. Control'
    BY <1>1, <2>1 DEF PipeInv, Control
  <2>4. Held' = pos' /\ pos' <= Len(file')
    BY <1>1, <1>2, <1>5, <2>1 DEF Held
  <2>5. Flow'
    BY <1>5, <2>1, <2>4 DEF PipeInv, Flow, Carries
  <2>6. Ending'
    BY <1>1, <2>1 DEF PipeInv, Ending, Told
  <2>7. MemoryBounded'
    BY <1>6, <2>1 DEF MemoryBounded
  <2>8. QED
    BY <2>2, <2>3, <2>5, <2>6, <2>7 DEF PipeInv
<1>8. CASE ReaderFills(Piece(n))
  <2>1. /\ pc = "take" /\ Deliver(r, TRUE) /\ pc' = "idle" /\ UNCHANGED <<eof, reader>>
        /\ Piece(n) # <<>>
    <3>1. pc = "take"
      BY <1>1, <1>8 DEF ReaderFills, Filling
    <3>2. (pc = "take") = TRUE
      BY <3>1
    <3>3. QED
      BY <1>8, <3>1, <3>2 DEF ReaderFills, r
  <2>2. n # 0
    BY <1>3, <2>1, EmptySeq
  <2>3. result'.value # Failed
    <3>1. RingOK(ring') /\ result' = Returned("take", Head(Content(r))) /\ Content(r) # <<>>
      BY <1>5, <2>1, <2>2, DeliverTakesHead DEF NextCharCall
    <3>2. Head(Content(r)) \in Byte
      BY <1>5, <3>1, ContentSeq, HeadTailProperties
    <3>3. QED
      BY <3>1, <3>2, ByteAssumption DEF Returned, Failed
  <2>4. answered' = TRUE /\ taken' = Append(taken, Alphabet[result'.value])
    BY <2>1, <2>3 DEF Return
  <2>5. Len(taken) + Length(r) = pos'
    BY <1>1, <1>2, <1>5
  <2>6. Len(taken) + Length(r) <= Len(file)
        /\ Len(taken) + Length(r) = IF eof THEN cut ELSE pos'
    BY <1>1, <1>2, <2>5
  <2>7. QED
    BY <1>1, <1>2, <1>5, <1>6, <2>1, <2>2, <2>4, <2>6, HandsOver
<1>9. QED
  BY <1>7, <1>8 DEF Supply

(* The source has come to its end, or the buffer has no memory.            *)
LEMMA EndStep ==
  ASSUME PipeInv, pc # "idle", GiveUp, Return, AtFault,
         UNCHANGED <<ring, reader, source, pos, started, lexer>>
  PROVE  PipeInv'
<1>1. /\ kind # "string" /\ Length(ring) = 0 /\ Len(taken) = pos
      /\ Carries(ring) /\ RingOK(ring)
  BY Waiting
<1>2. /\ pos' = cut /\ Len(taken) = cut /\ Len(taken) + Length(ring') = cut
      /\ Len(taken) + Length(ring') <= Len(file)
      /\ RingOK(ring') /\ Carries(ring')
  BY <1>1, TakenLength DEF AtFault, PipeInv, Carries
<1>3. MemoryBounded'
  BY DEF PipeInv, MemoryBounded, source
<1>4. QED
  BY <1>2, <1>3, GivesUp

(* A text that comes with an error. *)
LEMMA ErrorStep ==
  ASSUME PipeInv, NEW n \in 0 .. Block, HasPiece(n), ReaderErrs(Piece(n)), Return,
         pos' = IF pc = "read" /\ ring' # ring THEN pos + n ELSE pos,
         pos' = cut,
         UNCHANGED <<source, started, lexer>>
  PROVE  PipeInv'
<1>1. /\ pc # "idle" /\ GiveUp /\ UNCHANGED reader
      /\ Store(Piece(n)) \/ StoreFails(Piece(n))
  BY DEF ReaderErrs
<1>2. /\ kind # "string" /\ Length(ring) = 0 /\ Len(taken) = pos /\ Held = pos
      /\ Carries(ring) /\ RingOK(ring)
  BY <1>1, Waiting
<1>3. /\ n \in Nat /\ n <= Block /\ pos + n <= Len(file)
      /\ pos \in Nat /\ cut \in Nat /\ cut <= Len(file)
  BY AlphabetAssumption, TakenLength DEF HasPiece, PipeInv
<1>4. Len(Piece(n)) = n
  BY <1>3, PieceRead DEF PipeInv, Types
<1>5. /\ RingOK(ring') /\ Carries(ring')
      /\ \/ ring' = ring /\ Length(ring') = 0
         \/ Length(ring') = n
      /\ ring'.cap \in {ring.cap, 2 * n}
  <2>1. CASE Store(Piece(n))
    <3>1. Storable(Piece(n)) /\ ring' = AfterStore(Piece(n))
      BY <2>1 DEF Store
    <3>2. RingOK(ring') /\ Carries(ring') /\ Length(ring') = Length(ring) + n
      BY <1>2, <1>3, <3>1, PieceStored DEF PipeInv
    <3>3. QED
      BY <1>2, <1>3, <1>4, <3>1, <3>2, PieceFits
  <2>2. CASE StoreFails(Piece(n))
    BY <1>2, <2>2 DEF StoreFails
  <2>3. QED
    BY <1>1, <2>1, <2>2
<1>6. /\ Len(taken) + Length(ring') <= Len(file)
      /\ pc = "read" => Len(taken) + Length(ring') = cut
      /\ pc # "read" => Len(taken) = cut
  <2>1. ring' = ring => Length(ring') = 0
    BY <1>2
  <2>2. QED
    BY <1>2, <1>3, <1>5, <2>1
<1>7. MemoryBounded'
  <2>1. ring.cap <= InitCap \/ ring.cap <= 2 * Block
    BY <1>2 DEF PipeInv, MemoryBounded
  <2>2. 2 * n <= 2 * Block
    BY <1>3, AlphabetAssumption
  <2>3. QED
    BY <1>5, <2>1, <2>2 DEF MemoryBounded
<1>8. QED
  BY <1>1, <1>5, <1>6, <1>7, GivesUp

LEMMA SourceStep == PipeInv /\ SourceSteps => PipeInv'
<1> SUFFICES ASSUME PipeInv, SourceSteps PROVE PipeInv'
  OBVIOUS
<1>1. ASSUME NEW n \in 0 .. Block, Supply(n), Return, pc # "idle",
             UNCHANGED <<source, started, lexer>>
      PROVE  PipeInv'
  BY <1>1, SupplyStep
<1>2. ASSUME AtFault, ReaderEnds, Return, UNCHANGED <<pos, source, started, lexer>>
      PROVE  PipeInv'
  BY <1>2, EndStep DEF ReaderEnds
<1>3. CASE FileReader
  <2>1. 1 .. Block \subseteq 0 .. Block
    <3>1. Block \in Nat
      BY AlphabetAssumption
    <3>2. QED
      BY <3>1
  <2>2. QED
    BY <1>1, <1>2, <1>3, <2>1 DEF FileReader
<1>4. CASE OwnReader
  <2>1. ASSUME NEW n \in 0 .. Block, HasPiece(n), ReaderErrs(Piece(n)),
               pos' = IF pc = "read" /\ ring' # ring THEN pos + n ELSE pos,
               pos' = cut
        PROVE  PipeInv'
    BY <1>4, <2>1, ErrorStep DEF OwnReader
  <2>2. QED
    BY <1>1, <1>2, <1>4, <2>1 DEF OwnReader
<1>5. CASE TextLost
  <2>1. PICK n \in 1 .. Block : ReaderLost(Piece(n))
    BY <1>5 DEF TextLost
  <2>2. pc # "idle" /\ GiveUp /\ UNCHANGED <<ring, reader>>
    BY <2>1 DEF ReaderLost, StoreFails
  <2>3. QED
    BY <1>5, <2>2, EndStep DEF TextLost
<1>6. QED
  BY <1>3, <1>4, <1>5 DEF SourceSteps

LEMMA LexerAloneStep == PipeInv /\ LexerAlone => PipeInv'
<1> SUFFICES ASSUME PipeInv, LexerAlone PROVE PipeInv'
  OBVIOUS
<1> USE DEF PipeInv
<1>1. /\ UNCHANGED <<ring, eof, reader, pc, result>>
      /\ UNCHANGED <<kind, file, cut, pos, started, answered, count>>
  BY DEF LexerAlone, vars, source
<1>2. UNCHANGED <<taken, eos>>
  <2>1. /\ UNCHANGED taken
        /\ UNCHANGED eos \/ count' = count + 1
    BY LexerReads, Zenon DEF LexerAlone
  <2>2. count' # count + 1
    BY <1>1 DEF Types
  <2>3. QED
    BY <2>1, <2>2
<1>3. Types'
  BY <1>1, <1>2 DEF Types, TypeOK, FillOnlyWhenDry, Filling
<1>4. Control' /\ Flow' /\ Ending' /\ MemoryBounded'
  BY <1>1, <1>2 DEF Control, Flow, Ending, MemoryBounded, Held, Told
<1>5. QED
  BY <1>3, <1>4

LEMMA LexerAsksStep == PipeInv /\ LexerAsks => PipeInv'
<1> SUFFICES ASSUME PipeInv, LexerAsks PROVE PipeInv'
  OBVIOUS
<1> USE DEF PipeInv
<1>1. /\ UNCHANGED <<eof, reader, kind, file, cut, pos, started, count, eos>>
      /\ started /\ pc = "idle" /\ ~answered /\ ~eos
  BY DEF LexerAsks, NeedsSource, NextChar, source, lexer
<1>2. RingOK(ring) /\ Carries(ring) /\ (eof => Held = cut) /\ (~eof => Held = pos)
  BY <1>1 DEF Types, TypeOK, Flow, Carries, Ending, Told
<1>3. /\ Length(ring) = 0 <=> ring.head = ring.tail
      /\ Held = Len(taken) + Length(ring)
  BY <1>2, EmptyContent DEF Held
<1>4. CASE /\ ring.head # ring.tail
           /\ Deliver(ring, TRUE) /\ UNCHANGED pc
  <2>1. result'.value # Failed
    <3>1. result' = Returned("take", Head(Content(ring))) /\ Content(ring) # <<>>
      BY <1>2, <1>4, DeliverTakesHead DEF NextCharCall
    <3>2. Head(Content(ring)) \in Byte
      BY <1>2, <3>1, ContentSeq, HeadTailProperties
    <3>3. QED
      BY <3>1, <3>2, ByteAssumption DEF Returned, Failed
  <2>2. /\ pc' = "idle" /\ answered' = TRUE
        /\ taken' = Append(taken, Alphabet[result'.value])
    BY <1>1, <1>4, <2>1 DEF LexerAsks, Return
  <2>3. /\ Len(taken) + Length(ring) <= Len(file)
        /\ Len(taken) + Length(ring) = IF eof THEN cut ELSE pos'
    BY <1>1, <1>2, <1>3 DEF Flow
  <2>4. UNCHANGED <<eof, reader, source, started, lexer>> /\ pos' \in 0 .. cut
    BY <1>1 DEF LexerAsks, Types
  <2>5. kind # "string" => ring.cap <= InitCap \/ ring.cap <= 2 * Block
    BY DEF MemoryBounded
  <2>6. QED
    BY <1>1, <1>2, <1>4, <2>2, <2>3, <2>4, <2>5, HandsOver
<1>5. CASE /\ ring.head = ring.tail
           /\ eof \/ ~reader
           /\ result' = Returned("take", Failed) /\ UNCHANGED <<ring, pc>>
  <2>1. eof /\ Length(ring) = 0 /\ Len(taken) = cut /\ Held = cut
    <3>1. eof
      BY <1>1, <1>5, Zenon DEF Control
    <3>2. Length(ring) = 0
      BY <1>3, <1>5
    <3>3. QED
      BY <1>2, <1>3, <3>1, <3>2, TakenLength
  <2>2. answered' = TRUE /\ UNCHANGED taken
    BY <1>1, <1>5 DEF LexerAsks, Return, Returned
  <2>3. Types'
    <3>1. TypeOK' /\ FillOnlyWhenDry'
      BY <1>1, <1>5
      DEF Types, TypeOK, FillOnlyWhenDry, Filling, Results, Returned
    <3>2. answered' \in BOOLEAN
      BY <2>2, Zenon
    <3>3. QED
      BY <1>1, <2>2, <3>1, <3>2 DEF Types
  <2>4. Control'
    BY <1>1, <1>5, <2>1 DEF Control
  <2>5. Flow' /\ MemoryBounded'
    BY <1>1, <1>5, <2>2 DEF Flow, Held, MemoryBounded
  <2>6. Ending'
    BY <1>1, <1>5, <2>1, <2>2 DEF Ending, Told, Returned, Held
  <2>7. QED
    BY <2>3, <2>4, <2>5, <2>6
<1>6. CASE /\ ring.head = ring.tail /\ ~eof /\ reader
           /\ pc' = "take" /\ UNCHANGED <<ring, result>>
  <2>1. UNCHANGED <<answered, taken>>
    BY <1>6 DEF LexerAsks, Return
  <2>2. Types'
    BY <1>1, <1>3, <1>6, <2>1 DEF Types, TypeOK, FillOnlyWhenDry, Filling
  <2>3. Control'
    BY <1>1, <1>3, <1>6, <2>1 DEF Control
  <2>4. Flow' /\ MemoryBounded' /\ Ending'
    BY <1>1, <1>6, <2>1 DEF Flow, Held, MemoryBounded, Ending, Told
  <2>5. QED
    BY <2>2, <2>3, <2>4
<1>7. QED
  BY <1>4, <1>5, <1>6 DEF LexerAsks, NextChar, NextCharCall

LEMMA LexerGoesOnStep == PipeInv /\ LexerGoesOn => PipeInv'
<1> SUFFICES ASSUME PipeInv, LexerGoesOn PROVE PipeInv'
  OBVIOUS
<1> USE DEF PipeInv
<1>1. /\ UNCHANGED <<ring, eof, reader, pc, result>>
      /\ UNCHANGED <<kind, file, cut, pos, started>>
      /\ answered /\ answered' = FALSE /\ count' = count + 1
  BY DEF LexerGoesOn, vars, source
<1>2. count \in Nat /\ Len(taken) \in Nat
  BY TakenLength DEF Types
<1>3. /\ UNCHANGED taken
      /\ ~eos
      /\ \/ count < Len(taken) /\ UNCHANGED eos
         \/ count >= Len(taken) /\ eos' = TRUE
  <2>1. ~eos /\ count' # count
    BY <1>1, <1>2 DEF Control
  <2>2. QED
    BY <2>1, LexerReads, Zenon DEF LexerGoesOn
<1>4. /\ pc = "idle" /\ started
      /\ IF Told THEN eof /\ Len(taken) = cut /\ count = Len(taken)
                  ELSE count = Len(taken) - 1
  BY <1>1, <1>3 DEF Control, Ending
<1>5. /\ eos' = IF Told THEN TRUE ELSE FALSE
      /\ count' = IF Told THEN Len(taken) + 1 ELSE Len(taken)
  <2>1. CASE Told
    <3>1. count = Len(taken) /\ ~(count < Len(taken))
      BY <1>2, <1>4, <2>1
    <3>2. eos' = TRUE
      BY <1>3, <3>1, Zenon
    <3>3. QED
      BY <1>1, <1>2, <2>1, <3>1, <3>2
  <2>2. CASE ~Told
    <3>1. count = Len(taken) - 1 /\ count < Len(taken) /\ ~(count >= Len(taken))
      BY <1>2, <1>4, <2>2
    <3>2. eos' = eos /\ eos = FALSE
      BY <1>3, <3>1, Zenon DEF Types
    <3>3. QED
      <4>1. count' = Len(taken)
        BY <1>1, <1>2, <3>1
      <4>2. QED
        BY <2>2, <3>2, <4>1, Zenon
  <2>3. QED
    BY <2>1, <2>2
<1>6. Types'
  <2>1. TypeOK' /\ FillOnlyWhenDry'
    BY <1>1 DEF Types, TypeOK, FillOnlyWhenDry, Filling
  <2>2. answered' \in BOOLEAN /\ eos' \in BOOLEAN
    BY <1>1, <1>5, Zenon
  <2>3. QED
    BY <1>1, <1>2, <1>3, <2>1, <2>2 DEF Types
<1>7. Control' /\ Flow' /\ MemoryBounded'
  BY <1>1, <1>3, <1>4 DEF Control, Flow, Held, MemoryBounded
<1>8. Ending'
  BY <1>1, <1>3, <1>4, <1>5 DEF Ending, Held, Told
<1>9. QED
  BY <1>6, <1>7, <1>8

LEMMA PipeStep == PipeInv /\ [PipelineNext]_all => PipeInv'
<1> SUFFICES ASSUME PipeInv, [PipelineNext]_all PROVE PipeInv'
  OBVIOUS
<1>1. CASE PipelineNext
  BY <1>1, ReadStringStep, ReadFirstStep, SourceStep, LexerAloneStep,
     LexerAsksStep, LexerGoesOnStep
  DEF PipelineNext, SourceSteps
<1>2. CASE UNCHANGED all
  <2>1. /\ UNCHANGED <<ring, eof, reader, pc, result>>
        /\ UNCHANGED <<kind, file, cut, pos, started, taken, answered, count, eos>>
    BY <1>2 DEF all, vars, source, lexer
  <2>2. QED
    BY <2>1 DEF PipeInv, Types, TypeOK, FillOnlyWhenDry, Filling, Control, Flow,
                Ending, MemoryBounded, Held, Told
<1>3. QED
  BY <1>1, <1>2

LEMMA PipeInvariant == PipelineSpec => []PipeInv
BY PipeInit, PipeStep, PTL DEF PipelineSpec

-----------------------------------------------------------------------------
(* What the invariant says.                                                *)

(* The lexer is given the bytes the source returned, all of them, in their *)
(* order, whether they came in one string, in blocks of a file or in the   *)
(* pieces a reader of the client's cut them into; and what it has been     *)
(* given when it comes to the end is all the source was able to supply.    *)
THEOREM InOrderAndWhole == PipelineSpec => []NothingOvertaken
<1>1. PipeInv => NothingOvertaken
  <2> SUFFICES ASSUME PipeInv PROVE NothingOvertaken
    OBVIOUS
  <2> DEFINE waiting == [i \in 1 .. Length(ring) |-> Alphabet[Content(ring)[i]]]
  <2>1. /\ Len(taken) \in Nat /\ Length(ring) \in Nat /\ Held \in Nat
        /\ Held = Len(taken) + Length(ring) /\ Held <= Len(file)
        /\ Len(file) \in Nat /\ file \in Seq(Written) /\ taken \in Seq(Written)
        /\ cut \in Nat /\ cut <= Len(file)
    BY TakenLength DEF PipeInv, Types, Flow, Held
  <2>2. /\ waiting \in Seq(Written) /\ Len(waiting) = Length(ring)
        /\ \A i \in 1 .. Length(ring) : waiting[i] = file[Len(taken) + i]
    <3>1. \A i \in 1 .. Length(ring) :
            waiting[i] = file[Len(taken) + i] /\ Len(taken) + i \in 1 .. Len(file)
      BY <2>1 DEF PipeInv, Flow
    <3>2. file \in [1 .. Len(file) -> Written]
      BY <2>1, LenProperties
    <3>3. waiting \in [1 .. Length(ring) -> Written]
      BY <3>1, <3>2
    <3>4. waiting \in Seq(Written) /\ DOMAIN waiting = 1 .. Length(ring)
      BY <2>1, <3>3
    <3> HIDE DEF waiting
    <3>5. QED
      BY <2>1, <3>1, <3>4, LenProperties
  <2>3. \A n \in 0 .. Len(file) :
          /\ SubSeq(file, 1, n) \in Seq(Written)
          /\ Len(SubSeq(file, 1, n)) = n
          /\ \A i \in 1 .. n : SubSeq(file, 1, n)[i] = file[i]
    <3> SUFFICES ASSUME NEW n \in 0 .. Len(file)
                 PROVE  /\ SubSeq(file, 1, n) \in Seq(Written)
                        /\ Len(SubSeq(file, 1, n)) = n
                        /\ \A i \in 1 .. n : SubSeq(file, 1, n)[i] = file[i]
      OBVIOUS
    <3>1. file \in [1 .. Len(file) -> Written]
      BY <2>1, LenProperties
    <3>2. 1 \in Int /\ n \in Int /\ \A i \in 1 .. n : file[i] \in Written
      BY <2>1, <3>1
    <3>3. QED
      BY <2>1, <3>2, SubSeqProperties
  <2>4. taken \o waiting = SubSeq(file, 1, Held)
    <3> HIDE DEF waiting
    <3>1. /\ taken \o waiting \in Seq(Written)
          /\ Len(taken \o waiting) = Held
          /\ \A i \in 1 .. Held : (taken \o waiting)[i] =
                IF i <= Len(taken) THEN taken[i] ELSE waiting[i - Len(taken)]
      <4>1. /\ taken \o waiting \in Seq(Written)
            /\ Len(taken \o waiting) = Len(taken) + Len(waiting)
            /\ \A i \in 1 .. Len(taken) + Len(waiting) : (taken \o waiting)[i] =
                  IF i <= Len(taken) THEN taken[i] ELSE waiting[i - Len(taken)]
        BY <2>1, <2>2, ConcatProperties
      <4>2. Len(taken) + Len(waiting) = Held
        BY <2>1, <2>2
      <4>3. QED
        BY <4>1, <4>2
    <3>2. ASSUME NEW i \in 1 .. Held PROVE (taken \o waiting)[i] = file[i]
      <4>1. CASE i <= Len(taken)
        <5>1. i \in 1 .. Len(taken) /\ (taken \o waiting)[i] = taken[i]
          BY <2>1, <3>1, <4>1
        <5>2. QED
          BY <5>1 DEF PipeInv, Flow
      <4>2. CASE i > Len(taken)
        <5>1. /\ i - Len(taken) \in 1 .. Length(ring)
              /\ Len(taken) + (i - Len(taken)) = i
          BY <2>1, <4>2
        <5>2. QED
          BY <2>1, <2>2, <3>1, <4>2, <5>1
      <4>3. i <= Len(taken) \/ i > Len(taken)
        BY <2>1
      <4>4. QED
        BY <4>1, <4>2, <4>3
    <3>3. QED
      BY <2>1, <2>3, <3>1, <3>2, SeqEqual
  <2>5. ~eof => Len(taken) + Length(ring) = pos
    BY DEF PipeInv, Flow, Held
  <2>6. eos => eof /\ taken = Document
    <3> SUFFICES ASSUME eos PROVE eof /\ taken = Document
      OBVIOUS
    <3>1. eof /\ Len(taken) = cut
      BY DEF PipeInv, Ending
    <3>2. \A i \in 1 .. Len(taken) : taken[i] = file[i]
      BY DEF PipeInv, Flow
    <3>3. QED
      BY <2>1, <2>3, <3>1, <3>2, SeqEqual DEF Document
  <2>7. QED
    BY <2>4, <2>5, <2>6 DEF NothingOvertaken, Held
<1>2. QED
  BY <1>1, PipeInvariant, PTL

(* A document that comes from a reader passes through a block of twice the *)
(* longest text the reader returns, however long the document is: the      *)
(* buffer of ELTN_Buffer_next_char is empty whenever it is filled, and one *)
(* that is not never grows.                                                *)
THEOREM MemoryStaysBounded == PipelineSpec => []MemoryBounded
BY PipeInvariant, PTL DEF PipeInv

-----------------------------------------------------------------------------
(***************************************************************************)
(* The lexer of the pipeline is Lexer on the whole of what the source can  *)
(* supply, though it sees it a character at a time and does not know how   *)
(* much is to come: so its tokens are those of that text.                  *)
(***************************************************************************)

Whole == INSTANCE LexerStreamProofs WITH doc <- Document, Docs <- Supplied

LEMMA WholeAssumption ==
  /\ Whole!ClassAssumption /\ Whole!WordAssumption
  /\ Whole!DocsAssumption /\ Whole!EndAssumption
<1>1. /\ Lex!Space = Whole!Space /\ Lex!Quote = Whole!Quote /\ Lex!Mark = Whole!Mark
      /\ Lex!NamePart = Whole!NamePart /\ Lex!NumberPart = Whole!NumberPart
      /\ Lex!End = Whole!End /\ Lex!None = Whole!None
  BY DEF Lex!Space, Whole!Space, Lex!Quote, Whole!Quote, Lex!Mark, Whole!Mark,
         Lex!NamePart, Whole!NamePart, Lex!NumberPart, Whole!NumberPart,
         Lex!End, Whole!End, Lex!None, Whole!None
<1>2. Lex!Char = Whole!Char
  BY <1>1 DEF Lex!Char, Whole!Char
<1>3. QED
  BY <1>1, <1>2, LexerAssumption

LEMMA StepHolds ==
  ASSUME Whole!IInv, Whole!CutInv, [Whole!Next]_(Whole!vars)
  PROVE  Whole!IInv' /\ Whole!CutInv' /\ [Whole!Stream!Next]_(Whole!Stream!vars)
BY WholeAssumption, Whole!StepCuts, Whole!StepOK

LEMMA InitHolds == Whole!Init => Whole!IInv /\ Whole!CutInv
BY WholeAssumption, Whole!InitCuts, Whole!InitOK

-----------------------------------------------------------------------------
(* What the steps of the two lexers share.                                 *)

LEMMA SameClass ==
  /\ Lex!Space = Whole!Space /\ Lex!Quote = Whole!Quote /\ Lex!Mark = Whole!Mark
  /\ Lex!NamePart = Whole!NamePart /\ Lex!NumberPart = Whole!NumberPart
  /\ Lex!End = Whole!End
BY DEF Lex!Space, Whole!Space, Lex!Quote, Whole!Quote, Lex!Mark, Whole!Mark,
       Lex!NamePart, Whole!NamePart, Lex!NumberPart, Whole!NumberPart,
       Lex!End, Whole!End

LEMMA SameWords ==
  /\ \A w : Lex!WordToken(w) = Whole!WordToken(w) /\ Lex!NumberToken(w) = Whole!NumberToken(w)
  /\ \A c : Lex!MarkToken(c) = Whole!MarkToken(c)
  /\ \A w, p, n : Lex!LongOpen(w, p, n) <=> Whole!LongOpen(w, p, n)
  /\ \A w, n : Lex!LongClose(w, n) <=> Whole!LongClose(w, n)
  /\ \A v, w : Lex!IsSuffix(v, w) <=> Whole!IsSuffix(v, w)
<1>1. \A w : Lex!WordToken(w) = Whole!WordToken(w) /\ Lex!NumberToken(w) = Whole!NumberToken(w)
  BY DEF Lex!WordToken, Whole!WordToken, Lex!IsPrefix, Whole!IsPrefix,
         Lex!NumberToken, Whole!NumberToken
<1>2. \A c : Lex!MarkToken(c) = Whole!MarkToken(c)
  BY DEF Lex!MarkToken, Whole!MarkToken
<1>3. \A w, p, n : Lex!LongOpen(w, p, n) <=> Whole!LongOpen(w, p, n)
  BY DEF Lex!LongOpen, Whole!LongOpen
<1>4. \A w, n : Lex!LongClose(w, n) <=> Whole!LongClose(w, n)
  BY DEF Lex!LongClose, Whole!LongClose
<1>5. \A v, w : Lex!IsSuffix(v, w) <=> Whole!IsSuffix(v, w)
  BY DEF Lex!IsSuffix, Whole!IsSuffix, Lex!IsPrefix, Whole!IsPrefix, Lex!Reverse, Whole!Reverse
<1>6. QED
  BY <1>1, <1>2, <1>3, <1>4, <1>5

LEMMA SameParts ==
  /\ \A c : Lex!Appended(c) <=> Whole!Appended(c)
  /\ \A m : Lex!Enter(m) <=> Whole!Enter(m)
  /\ \A t : Lex!Return(t) <=> Whole!Return(t)
  /\ Lex!NoGet <=> Whole!NoGet
  /\ Lex!PushBack <=> Whole!PushBack
  /\ Lex!AppendedIfKept <=> Whole!AppendedIfKept
  /\ \A p : Lex!InLongBracket(p) <=> Whole!InLongBracket(p)
  /\ Lex!AtLongClose <=> Whole!AtLongClose
<1>1. \A c : Lex!Appended(c) <=> Whole!Appended(c)
  BY DEF Lex!Appended, Whole!Appended
<1>2. \A m : Lex!Enter(m) <=> Whole!Enter(m)
  BY DEF Lex!Enter, Whole!Enter
<1>3. \A t : Lex!Return(t) <=> Whole!Return(t)
  BY DEF Lex!Return, Whole!Return
<1>4. Lex!NoGet <=> Whole!NoGet
  BY DEF Lex!NoGet, Whole!NoGet
<1>5. Lex!PushBack <=> Whole!PushBack
  BY DEF Lex!PushBack, Whole!PushBack
<1>6. Lex!AppendedIfKept <=> Whole!AppendedIfKept
  BY <1>1 DEF Lex!AppendedIfKept, Whole!AppendedIfKept
<1>7. \A p : Lex!InLongBracket(p) <=> Whole!InLongBracket(p)
  BY SameWords DEF Lex!InLongBracket, Whole!InLongBracket
<1>8. Lex!AtLongClose <=> Whole!AtLongClose
  BY SameWords DEF Lex!AtLongClose, Whole!AtLongClose
<1>9. QED
  BY <1>1, <1>2, <1>3, <1>4, <1>5, <1>6, <1>7, <1>8


-----------------------------------------------------------------------------
(* The steps of the lexer.                                                 *)

LEMMA DocumentIs ==
  ASSUME PipeInv
  PROVE  /\ Len(Document) = cut /\ cut \in Nat
         /\ \A i \in 1 .. cut : Document[i] = file[i]
         /\ Len(taken) \in Nat /\ Len(taken) <= cut
         /\ \A i \in 1 .. Len(taken) : taken[i] = Document[i]
<1>1. /\ file \in Seq(Written) /\ Len(file) \in Nat /\ cut \in Nat /\ cut <= Len(file)
      /\ Len(taken) \in Nat /\ Length(ring) \in Nat /\ pos \in Nat /\ pos <= cut
  BY TakenLength DEF PipeInv
<1>2. \A i \in 1 .. cut : file[i] \in Written
  BY <1>1, ElementOfSeq
<1>3. Len(Document) = cut /\ \A i \in 1 .. cut : Document[i] = file[i]
  BY <1>1, <1>2, SubSeqProperties DEF Document
<1>4. Len(taken) <= cut
  BY <1>1 DEF PipeInv, Ending, Flow, Held
<1>5. \A i \in 1 .. Len(taken) : taken[i] = Document[i]
  BY <1>1, <1>3, <1>4 DEF PipeInv, Flow
<1>6. QED
  BY <1>1, <1>3, <1>4, <1>5

(* A character the lexer reads is answered by the buffer, and is the next  *)
(* one of the document; the end comes when all of it has been answered.    *)
LEMMA SameCharacter ==
  ASSUME PipeInv, Lex!GetNextChar, count' = count \/ (answered /\ count' = count + 1)
  PROVE  Whole!GetNextChar
<1>1. /\ Len(Document) = cut /\ cut \in Nat /\ Len(taken) \in Nat /\ Len(taken) <= cut
      /\ \A i \in 1 .. Len(taken) : taken[i] = Document[i]
  BY DocumentIs
<1>2. count \in Nat /\ eos \in BOOLEAN
  BY DEF PipeInv, Types
<1>3. CASE pushback
  BY <1>3, Zenon DEF Lex!GetNextChar, Whole!GetNextChar
<1>4. CASE ~pushback /\ eos
  <2>1. UNCHANGED <<current, count, line, column, pushback, eos>> /\ curr' = Lex!End
    BY <1>4, Zenon DEF Lex!GetNextChar
  <2>2. QED
    BY <1>4, <2>1, SameClass DEF Whole!GetNextChar
<1>5. CASE ~pushback /\ ~eos
  <2>1. /\ count' = count + 1
        /\ line' = IF count = 0 THEN 1 ELSE IF current = "newline" THEN line + 1 ELSE line
        /\ column' = IF count = 0 \/ current = "newline" THEN 1 ELSE column + 1
        /\ \/ /\ count < Len(taken)
              /\ curr' = taken[count + 1]
              /\ current' = curr'
              /\ UNCHANGED eos
           \/ /\ count >= Len(taken)
              /\ curr' = Lex!End
              /\ eos' = TRUE
              /\ UNCHANGED current
        /\ UNCHANGED pushback
    BY <1>5, Zenon DEF Lex!GetNextChar
  <2>2. answered
    BY <1>2, <2>1
  <2>3. IF Told THEN Len(taken) = cut /\ count = cut ELSE count = Len(taken) - 1
    BY <1>5, <2>2 DEF PipeInv, Ending
  <2>4. CASE count < Len(taken)
    <3>1. count < Len(Document) /\ taken[count + 1] = Document[count + 1]
      BY <1>1, <1>2, <2>4
    <3>2. QED
      BY <1>1, <1>2, <1>5, <2>1, <2>4, <3>1 DEF Whole!GetNextChar
  <2>5. CASE count >= Len(taken)
    <3>1. count >= Len(Document)
      BY <1>1, <1>2, <2>3, <2>5
    <3>2. QED
      BY <1>1, <1>2, <1>5, <2>1, <2>5, <3>1, SameClass DEF Whole!GetNextChar
  <2>6. QED
    BY <1>1, <1>2, <2>4, <2>5
<1>6. QED
  BY <1>3, <1>4, <1>5

LEMMA SameStep ==
  ASSUME PipeInv, Lex!Next, count' = count \/ (answered /\ count' = count + 1),
         UNCHANGED <<file, cut>>
  PROVE  Whole!Next
<1>1. UNCHANGED Document
  BY DEF Document
<1>2. Lex!GetNextChar => Whole!GetNextChar
  BY SameCharacter
<1>3. CASE Lex!NextToken
  BY <1>1, <1>2, <1>3, SameParts DEF Lex!NextToken, Whole!NextToken, Whole!Next
<1>4. CASE Lex!SkipSpace
  BY <1>1, <1>2, <1>4, SameClass DEF Lex!SkipSpace, Whole!SkipSpace, Whole!Next
<1>5. CASE Lex!Begin
  <2>1. Whole!Begin
    BY <1>1, <1>2, <1>5, SameClass, SameParts, SameWords, Zenon DEF Lex!Begin, Whole!Begin
  <2>2. QED
    BY <2>1 DEF Whole!Next
<1>6. CASE Lex!Bracket
  BY <1>1, <1>2, <1>6, SameParts DEF Lex!Bracket, Whole!Bracket, Whole!Next
<1>7. CASE Lex!Dash
  BY <1>1, <1>2, <1>7, SameParts DEF Lex!Dash, Whole!Dash, Whole!Next
<1>8. CASE Lex!Number
  BY <1>1, <1>2, <1>8, SameClass, SameParts, SameWords DEF Lex!Number, Whole!Number, Whole!Next
<1>9. CASE Lex!Name
  BY <1>1, <1>2, <1>9, SameClass, SameParts, SameWords DEF Lex!Name, Whole!Name, Whole!Next
<1>10. CASE Lex!Quoted
  BY <1>1, <1>2, <1>10, SameParts, SameWords DEF Lex!Quoted, Whole!Quoted, Whole!Next
<1>11. CASE Lex!LongString
  BY <1>1, <1>2, <1>11, SameParts DEF Lex!LongString, Whole!LongString, Whole!Next
<1>12. CASE Lex!Comment
  BY <1>1, <1>2, <1>12, SameParts DEF Lex!Comment, Whole!Comment, Whole!Next
<1>13. QED
  BY <1>3, <1>4, <1>5, <1>6, <1>7, <1>8, <1>9, <1>10, <1>11, <1>12 DEF Lex!Next


LEMMA WholeStep ==
  ASSUME PipeInv, [PipelineNext]_all
  PROVE  [Whole!Next]_(Whole!vars) /\ UNCHANGED Document
<1>1. UNCHANGED <<file, cut>>
  BY DEF PipelineNext, all, source, ReadString, ReadFirst, FileReader, OwnReader,
         TextLost, LexerAlone, LexerAsks, LexerGoesOn
<1>2. UNCHANGED Document
  BY <1>1 DEF Document
<1>3. CASE UNCHANGED lexer
  BY <1>2, <1>3 DEF lexer, Whole!vars
<1>4. CASE LexerAlone
  BY <1>1, <1>2, <1>4, SameStep DEF LexerAlone
<1>5. CASE LexerGoesOn
  BY <1>1, <1>2, <1>5, SameStep DEF LexerGoesOn
<1>6. QED
  BY <1>2, <1>3, <1>4, <1>5 DEF PipelineNext, all, ReadString, ReadFirst, FileReader,
     OwnReader, TextLost, LexerAsks

LEMMA WholeInit == PipelineInit => Whole!Init
<1> SUFFICES ASSUME PipelineInit PROVE Whole!Init
  OBVIOUS
<1>1. Document \in Supplied
  <2>1. file \in Docs /\ cut \in 0 .. Len(file)
    BY DEF PipelineInit
  <2>2. Document \in Prefixes(file)
    BY <2>1 DEF Prefixes, Document
  <2>3. QED
    BY <2>1, <2>2 DEF Supplied
<1>2. Lex!Init
  BY DEF PipelineInit
<1>3. QED
  BY <1>1, <1>2 DEF Lex!Init, Whole!Init, Lex!None, Whole!None

-----------------------------------------------------------------------------
(* TokenStream on the document, as Lexer and as Pipeline have it.          *)

LEMMA SameShape ==
  ASSUME NEW b
  PROVE  /\ \A e : Tokens!Text(b, e) = Whole!Stream!Text(b, e)
         /\ \A S : Tokens!Followed(b, S) <=> Whole!Stream!Followed(b, S)
         /\ Tokens!Quoted(b) <=> Whole!Stream!Quoted(b)
         /\ Tokens!LongText(b) <=> Whole!Stream!LongText(b)
         /\ Tokens!Comment(b) <=> Whole!Stream!Comment(b)
         /\ Tokens!Word(b) <=> Whole!Stream!Word(b)
         /\ Tokens!Number(b) <=> Whole!Stream!Number(b)
         /\ Tokens!Delimited(b) <=> Whole!Stream!Delimited(b)
<1>1. ASSUME NEW e PROVE Tokens!Text(b, e) = Whole!Stream!Text(b, e)
  <2>1. /\ \A i : Tokens!Kept(b, i) = Whole!Stream!Kept(b, i)
        /\ \A S : Tokens!Cardinality(S) = Whole!Stream!Cardinality(S)
    BY DEF Tokens!Kept, Whole!Stream!Kept, Tokens!Cardinality, Whole!Stream!Cardinality
  <2>2. \A k : Tokens!KeptAt(b, k) = Whole!Stream!KeptAt(b, k)
    BY <2>1 DEF Tokens!KeptAt, Whole!Stream!KeptAt
  <2>3. QED
    BY <2>1, <2>2 DEF Tokens!Text, Whole!Stream!Text
<1>2. \A S : Tokens!Followed(b, S) <=> Whole!Stream!Followed(b, S)
  BY DEF Tokens!Followed, Whole!Stream!Followed
<1>3. Tokens!Quoted(b) <=> Whole!Stream!Quoted(b)
  BY DEF Tokens!Quoted, Whole!Stream!Quoted, Tokens!Quote, Whole!Stream!Quote
<1>4. Tokens!LongText(b) <=> Whole!Stream!LongText(b)
  BY <1>2 DEF Tokens!LongText, Whole!Stream!LongText
<1>5. Tokens!Comment(b) <=> Whole!Stream!Comment(b)
  BY <1>2 DEF Tokens!Comment, Whole!Stream!Comment
<1>6. Tokens!Word(b) <=> Whole!Stream!Word(b)
  BY DEF Tokens!Word, Whole!Stream!Word
<1>7. Tokens!Number(b) <=> Whole!Stream!Number(b)
  BY <1>2 DEF Tokens!Number, Whole!Stream!Number
<1>8. QED
  BY <1>1, <1>2, <1>3, <1>4, <1>5, <1>6, <1>7 DEF Tokens!Delimited, Whole!Stream!Delimited

LEMMA SameLexeme ==
  ASSUME NEW b, NEW e
  PROVE  /\ Tokens!Lexeme(b, e) <=> Whole!Stream!Lexeme(b, e)
         /\ Tokens!Token(b, e) = Whole!Stream!Token(b, e)
         /\ Tokens!TokenText(b, e) = Whole!Stream!TokenText(b, e)
<1>1. /\ \A w : Tokens!Closed(w) <=> Whole!Stream!Closed(w)
      /\ \A w : Tokens!Broken(w) <=> Whole!Stream!Broken(w)
      /\ \A w : Tokens!BrokenAnyway(w) <=> Whole!Stream!BrokenAnyway(w)
  BY DEF Tokens!Closed, Whole!Stream!Closed, Tokens!Broken, Whole!Stream!Broken,
         Tokens!BrokenAnyway, Whole!Stream!BrokenAnyway, Tokens!Unescaped,
         Whole!Stream!Unescaped, Tokens!Skipping, Whole!Stream!Skipping,
         Tokens!Escaped, Whole!Stream!Escaped, Tokens!Space, Whole!Stream!Space
<1>2. /\ \A w, p, n : Tokens!Opens(w, p, n) <=> Whole!Stream!Opens(w, p, n)
      /\ \A w, n : Tokens!LongClose(w, n) <=> Whole!Stream!LongClose(w, n)
  BY DEF Tokens!Opens, Whole!Stream!Opens, Tokens!LongOpen, Whole!Stream!LongOpen,
         Tokens!LongClose, Whole!Stream!LongClose
<1>3. /\ \A w, p : Tokens!OpensLong(w, p) <=> Whole!Stream!OpensLong(w, p)
      /\ \A w, p : Tokens!ClosesLong(w, p) <=> Whole!Stream!ClosesLong(w, p)
  BY <1>2 DEF Tokens!OpensLong, Whole!Stream!OpensLong,
              Tokens!ClosesLong, Whole!Stream!ClosesLong
<1>4. \A i : Tokens!NeverOpens(b, i) <=> Whole!Stream!NeverOpens(b, i)
  BY DEF Tokens!NeverOpens, Whole!Stream!NeverOpens
<1>5. /\ \A i : Tokens!Complete(b, i) <=> Whole!Stream!Complete(b, i)
      /\ \A i : Tokens!Over(b, i) <=> Whole!Stream!Over(b, i)
  BY <1>1, <1>3, <1>4, SameShape DEF Tokens!Complete, Whole!Stream!Complete,
     Tokens!Over, Whole!Stream!Over, Tokens!CutShort, Whole!Stream!CutShort
<1>6. \A S : Tokens!Followed(e, S) <=> Whole!Stream!Followed(e, S)
  BY SameShape
<1>7. Tokens!Lexeme(b, e) <=> Whole!Stream!Lexeme(b, e)
  BY <1>5, <1>6, SameShape DEF Tokens!Lexeme, Whole!Stream!Lexeme,
     Tokens!NamePart, Whole!Stream!NamePart, Tokens!NumberPart, Whole!Stream!NumberPart
<1>8. /\ \A w : Tokens!WordToken(w) = Whole!Stream!WordToken(w)
      /\ \A w : Tokens!NumberToken(w) = Whole!Stream!NumberToken(w)
      /\ \A c : Tokens!MarkToken(c) = Whole!Stream!MarkToken(c)
      /\ Tokens!Mark = Whole!Stream!Mark
  BY DEF Tokens!WordToken, Whole!Stream!WordToken, Tokens!IsPrefix, Whole!Stream!IsPrefix,
         Tokens!NumberToken, Whole!Stream!NumberToken, Tokens!MarkToken, Whole!Stream!MarkToken,
         Tokens!Mark, Whole!Stream!Mark
<1>9. Tokens!Token(b, e) = Whole!Stream!Token(b, e)
  BY <1>1, <1>3, <1>8, SameShape DEF Tokens!Token, Whole!Stream!Token
<1>10. Tokens!TokenText(b, e) = Whole!Stream!TokenText(b, e)
  BY <1>1, SameShape DEF Tokens!TokenText, Whole!Stream!TokenText
<1>11. QED
  BY <1>7, <1>9, <1>10

ShortDocs == \A text \in Docs : Len(text) < BufSize

LEMMA SameTokens ==
  ASSUME PipeInv, PipeInv', ShortDocs, UNCHANGED Document,
         [Whole!Stream!Next]_(Whole!Stream!vars)
  PROVE  [Tokens!Next]_(Tokens!vars)
<1>1. Whole!Fits /\ Whole!Fits'
  <2>1. /\ cut <= Len(file) /\ Len(file) < BufSize /\ Len(Document) = cut
        /\ cut \in Nat /\ Len(file) \in Nat /\ BufSize \in Nat
    BY TakenLength, DocumentIs, WholeAssumption DEF PipeInv, Types, ShortDocs, Whole!DocsAssumption
  <2>2. QED
    BY <2>1 DEF Whole!Fits
<1>2. CASE UNCHANGED Whole!Stream!vars
  <2>1. /\ last.to' = last.to /\ last.token' = last.token /\ last.text' = last.text
        /\ last.from' = last.from
    BY <1>1, <1>2 DEF Whole!Stream!vars
  <2>2. QED
    BY <2>1 DEF Tokens!vars
<1>3. CASE Whole!Stream!TakeEnd
  BY <1>1, <1>3 DEF Whole!Stream!TakeEnd, Tokens!TakeEnd, Tokens!Next,
     Tokens!Space, Whole!Stream!Space
<1>4. ASSUME NEW b, NEW e, Whole!Stream!Take(b, e) PROVE Tokens!Take(b, e)
  BY <1>1, <1>4, SameLexeme DEF Whole!Stream!Take, Tokens!Take,
     Tokens!Space, Whole!Stream!Space
<1>5. QED
  BY <1>1, <1>2, <1>3, <1>4 DEF Whole!Stream!Next, Tokens!Next

(* src/src/eparser.c, elexer.c, ebuffer.c and efiles.c together: the       *)
(* tokens are those of the text the source supplied, from a string, a file *)
(* or a reader of the client's, however it was cut into chunks and         *)
(* wherever the source failed: of documents, of any number and alphabet,   *)
(* that are shorter than the token buffer.                                 *)
THEOREM TokensAreTheDocuments ==
  ASSUME ShortDocs
  PROVE  PipelineSpec => TokensAreOfDocument
<1>1. PipelineInit => Tokens!Init
  BY WholeInit DEF Whole!Init, Tokens!Init, Tokens!NoToken
<1>2. PipelineInit => Whole!IInv /\ Whole!CutInv
  BY WholeInit, InitHolds
<1>3. /\ PipeInv /\ PipeInv' /\ Whole!IInv /\ Whole!CutInv /\ [PipelineNext]_all
      => Whole!IInv' /\ Whole!CutInv' /\ [Tokens!Next]_(Tokens!vars)
  BY WholeStep, StepHolds, SameTokens
<1>4. QED
  BY <1>1, <1>2, <1>3, PipeInvariant, PTL DEF PipelineSpec, TokensAreOfDocument, Tokens!Spec

=============================================================================
