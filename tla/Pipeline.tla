------------------------------ MODULE Pipeline ------------------------------
(***************************************************************************)
(* The lexer on top of the ring buffer on top of a source of text, as      *)
(* ELTN_Parser_new wires them (src/src/eparser.c): every character the     *)
(* lexer asks for is a call of ELTN_Buffer_next_char, which may call the   *)
(* reader any number of times.  The source is a string of the client, a    *)
(* file read by File_Reader (src/src/efiles.c), or a reader of the client. *)
(*                                                                         *)
(* RingBuffer and Lexer are used as they are; the actions here say which   *)
(* of their steps happen together.                                         *)
(***************************************************************************)
EXTENDS RingBuffer, SequencesExt

CONSTANTS
  Letter, NumberLetter, Digit, Other, TrueWord, FalseWord, NilWord, Keyword,
  IsNumeral(_), Docs, BufSize,    (* as in Lexer                            *)
  Alphabet,   (* the characters of the documents; byte i is the i-th        *)
  Block       (* BUFSIZE of efiles.c, the most a reader returns at once     *)

(* The documents are written in the alphabet. *)
ASSUME AlphabetAssumption ==
  /\ Docs \subseteq Seq({Alphabet[b] : b \in Byte})
  /\ Block \in Nat

VARIABLES
  kind,       (* where the text comes from: "string", "file" or "own"       *)
  file,       (* the text to be had                                         *)
  cut,        (* how much of it the source will supply before it fails      *)
  pos,        (* how much of it has been read                               *)
  started,    (* the client has called ELTN_Parser_read or read_string      *)
  taken,      (* the characters the buffer has handed to the lexer          *)
  answered,   (* a call of next_char has returned to the lexer              *)
  (* struct ELTN_Lexer and its local variables                              *)
  current, count, line, column, pushback, eos, buffer,
  mode, curr, prev, level, start, last

source == <<kind, file, cut>>
lexer  == <<current, count, line, column, pushback, eos, buffer,
            mode, curr, prev, level, start, last>>
all == <<vars, source, pos, started, taken, answered, lexer>>

(* What a source may supply of the texts before it ends or fails. *)
Supplied == UNION {Prefixes(text) : text \in Docs}

Lex == INSTANCE Lexer WITH doc <- taken, Docs <- Supplied

(* What Lexer assumes of its constants. *)
ASSUME LexerAssumption ==
  Lex!ClassAssumption /\ Lex!WordAssumption /\ Lex!DocsAssumption /\ Lex!EndAssumption

Bytes(chars)  == [i \in DOMAIN chars |-> CHOOSE b \in Byte : Alphabet[b] = chars[i]]
Piece(n)      == Bytes(SubSeq(file, pos + 1, pos + n))
HasPiece(n)   == pos + n <= Len(file)
CanSupply(n)  == pos + n <= cut
AtFault       == pos = cut
Document      == SubSeq(file, 1, cut)

-----------------------------------------------------------------------------
(* A fault is chosen beforehand: the text behind cut never reaches the     *)
(* lexer, because of an error of the source or for want of memory.         *)
PipelineInit ==
  /\ Init
  /\ taken = <<>>
  /\ Lex!Init
  /\ kind \in {"string", "file", "own"}
  /\ file \in Docs
  /\ cut \in 0 .. Len(file)
  /\ kind = "string" => cut = Len(file) \/ (cut = 0 /\ NeedsRoom(Bytes(file)))
  /\ pos = 0
  /\ started = FALSE
  /\ answered = FALSE

(* ELTN_Parser_read_string: the buffer is closed whether or not the text   *)
(* was stored.                                                             *)
ReadString ==
  /\ ~started /\ kind = "string"
  /\ started' = TRUE
  /\ \/ cut = Len(file) /\ Store(Bytes(file)) /\ result' = Returned("write", Len(file))
     \/ cut = 0 /\ StoreFails(Bytes(file)) /\ result' = Returned("write", Failed)
  /\ eof' = TRUE
  /\ pos' = cut
  /\ UNCHANGED <<reader, pc, source, taken, answered, lexer>>

(* ELTN_Parser_read, up to the first call of the reader. *)
ReadFirst ==
  /\ ~started /\ kind # "string"
  /\ started' = TRUE
  /\ Read
  /\ UNCHANGED <<source, pos, taken, answered, lexer>>

-----------------------------------------------------------------------------
(* The buffer returns to its caller, the lexer unless it is the first read.*)
Return ==
  IF pc # "read" /\ pc' = "idle"
  THEN /\ answered' = TRUE
       /\ taken' = IF result'.value = Failed THEN taken
                   ELSE Append(taken, Alphabet[result'.value])
  ELSE UNCHANGED <<answered, taken>>

(* A text of n bytes that the buffer can store. *)
Supply(n) ==
  /\ CanSupply(n)
  /\ ReaderFirst(Piece(n)) \/ ReaderFills(Piece(n))
  /\ pos' = pos + n

(* File_Reader: fread returns less than it was asked for only at the end   *)
(* of the file or at an error, and 0 is a NULL text, as is want of memory. *)
FileReader ==
  /\ kind = "file" /\ pc # "idle"
  /\ \/ \E n \in 1 .. Block : (n = Block \/ pos + n = cut) /\ Supply(n)
     \/ AtFault /\ ReaderEnds /\ UNCHANGED pos
  /\ Return
  /\ UNCHANGED <<source, started, lexer>>

(* A reader of the client's: texts of any length, and an error code with   *)
(* or without a text.  The text that comes with an error is read by the    *)
(* lexer if it is the first one, as ELTN_Parser_read leaves it in the      *)
(* buffer for a client that goes on, and never if it is a later one.       *)
OwnReader ==
  /\ kind = "own" /\ pc # "idle"
  /\ \/ \E n \in 0 .. Block : Supply(n)
     \/ AtFault /\ ReaderEnds /\ UNCHANGED pos
     \/ \E n \in 0 .. Block :
          /\ HasPiece(n) /\ ReaderErrs(Piece(n))
          /\ pos' = IF pc = "read" /\ ring' # ring THEN pos + n ELSE pos
          /\ pos' = cut
  /\ Return
  /\ UNCHANGED <<source, started, lexer>>

(* The text is there, and the buffer has no memory for it. *)
TextLost ==
  /\ kind # "string" /\ AtFault
  /\ \E n \in 1 .. Block : HasPiece(n) /\ ReaderLost(Piece(n))
  /\ Return
  /\ UNCHANGED <<source, pos, started, lexer>>

-----------------------------------------------------------------------------
(* The lexer, between the calls of its source; and with the answer to one. *)
NeedsSource == ~pushback /\ ~eos /\ ENABLED (Lex!Next /\ count' = count + 1)

LexerAlone ==
  /\ started /\ pc = "idle" /\ ~answered
  /\ Lex!Next
  /\ count' = count
  /\ UNCHANGED <<vars, source, pos, started, answered>>

LexerAsks ==
  /\ started /\ pc = "idle" /\ ~answered
  /\ NeedsSource
  /\ NextChar(TRUE)
  /\ Return
  /\ UNCHANGED <<source, pos, started, lexer>>

LexerGoesOn ==
  /\ answered
  /\ Lex!Next
  /\ count' = count + 1
  /\ answered' = FALSE
  /\ UNCHANGED <<vars, source, pos, started>>

SourceSteps == FileReader \/ OwnReader \/ TextLost
LexerSteps  == LexerAlone \/ LexerAsks \/ LexerGoesOn

PipelineNext ==
  \/ ReadString \/ ReadFirst
  \/ FileReader \/ OwnReader \/ TextLost
  \/ LexerAlone \/ LexerAsks \/ LexerGoesOn

(* The client asks for tokens until there are no more, and the reader      *)
(* returns, in the end with text or NULL: one that returns texts of no     *)
(* bytes for ever keeps ensure_more_bytes in its loop.                     *)
PipelineSpec ==
  /\ PipelineInit /\ [][PipelineNext]_all
  /\ WF_all(ReadString \/ ReadFirst)
  /\ WF_all(SourceSteps)
  /\ WF_all(last.token # "EOF" /\ LexerSteps)

-----------------------------------------------------------------------------
(* Properties.                                                             *)

(* The tokens are those of the text the source supplied, however it was    *)
(* cut into chunks: a token that lies across two chunks is whole, one at   *)
(* the end of a chunk does not end there, and what the buffer keeps of a   *)
(* text that came with an error is never part of a token.                  *)
Tokens == INSTANCE TokenStream
            WITH doc <- Document, Docs <- Supplied,
                 done <- last.to,
                 last <- [token |-> last.token, text |-> last.text, from |-> last.from]
TokensAreOfDocument == Tokens!Spec

(* The lexer asks the buffer, and the buffer the reader, never after the   *)
(* one or the other has come to its end, and no byte overtakes another:    *)
(* what has been taken and what is still in the ring is what was read.     *)
NothingOvertaken ==
  /\ taken \o [i \in 1 .. Length(ring) |-> Alphabet[Content(ring)[i]]]
       = SubSeq(file, 1, Len(taken) + Length(ring))
  /\ ~eof => Len(taken) + Length(ring) = pos
  /\ eos => eof /\ taken = Document

(* A document of any length passes through bounded memory: when the text   *)
(* comes from a reader, the block never exceeds twice the longest chunk.   *)
MemoryBounded == kind # "string" => ring.cap <= InitCap \/ ring.cap <= 2 * Block

(* Every document comes to its end, the one whose source fails included.   *)
PipelineEnds == <>(last.token = "EOF")

=============================================================================
