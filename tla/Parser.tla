------------------------------- MODULE Parser -------------------------------
(***************************************************************************)
(* ELTN_Parser (src/src/eparser.c): the pull parser that turns the tokens  *)
(* of a document into events, one for each call of ELTN_Parser_next.       *)
(*                                                                         *)
(* The document is the sequence of tokens the lexer will return, comments  *)
(* included; after the last one the lexer returns EOF for ever.  A call of *)
(* ELTN_Parser_next reads one token that is not a comment, or several when *)
(* an "=", a separator, a bracketed key or a run of semicolons is on the   *)
(* way, and is one step: nothing else touches the parser meanwhile.  Each  *)
(* allocation the event needs may fail.                                    *)
(*                                                                         *)
(* Token texts are represented by the position of the token, and so are    *)
(* the line and column of an error.                                        *)
(***************************************************************************)
EXTENDS Integers, Sequences, FiniteSets

CONSTANT Docs     (* the documents, as sequences of tokens                  *)

Comment     == {"COMMENT", "LONG_COMMENT"}
ScalarToken == {"STRING", "LONG_STRING", "NUMBER", "INTEGER",
                "BOOLEAN_TRUE", "BOOLEAN_FALSE", "NIL"}
KeyToken    == {"STRING", "LONG_STRING", "NUMBER", "INTEGER"}
Separator   == {"COMMA", "SEMICOLON"}
DocToken    == Comment \cup ScalarToken \cup Separator \cup
               {"NAME", "EQUALS", "SQUARE_OPEN", "SQUARE_CLOSE",
                "CURLY_OPEN", "CURLY_CLOSE", "INVALID", "ERROR"}

ASSUME DocsAssumption == Docs \subseteq Seq(DocToken)

VARIABLES
  doc,      (* the document being parsed                                    *)
  pos,      (* the position of the token the lexer will return next         *)
  event,    (* the current event                                            *)
  depth,    (* how many tables are open                                     *)
  no_defs,  (* the document began with a table                              *)
  text,     (* the token whose text self->text holds, 0 if none             *)
  string,   (* the token whose value self->string holds, 0 if none          *)
  errcode,  (* the error code                                               *)
  errpos    (* the token errline and errcolumn point at, 0 if never set     *)

vars == <<doc, pos, event, depth, no_defs, text, string, errcode, errpos>>

KeyEvent    == {"KEY_STRING", "KEY_NUMBER", "KEY_INTEGER"}
ScalarEvent == {"VALUE_STRING", "VALUE_NUMBER", "VALUE_INTEGER",
                "VALUE_TRUE", "VALUE_FALSE", "VALUE_NIL"}
Event       == {"STREAM_START", "DEF_NAME", "TABLE_START", "TABLE_END",
                "STREAM_END", "ERROR"} \cup KeyEvent \cup ScalarEvent

-----------------------------------------------------------------------------
(* The token stream.                                                       *)

End == Len(doc) + 1

Token(p) == IF p < End THEN doc[p] ELSE "EOF"

(* Where the lexer stands after returning the token at p. *)
After(p) == IF p < End THEN p + 1 ELSE End

(* next_token, called at p, returns the token at q. *)
Reads(p, q) ==
  /\ q \in p .. End
  /\ Token(q) \notin Comment
  /\ \A r \in p .. q - 1 : Token(r) \in Comment

(* From the token at q, the loop of expect_new_definition gets to d. *)
SkipsSemicolons(q, d) ==
  /\ d \in q .. End
  /\ Token(d) \notin Comment \cup {"SEMICOLON"}
  /\ \A r \in q .. d - 1 : Token(r) \in Comment \cup {"SEMICOLON"}

-----------------------------------------------------------------------------
(* Signalling events and errors, and the state they leave.                 *)

(* signal_error for the token t, when q is the last token read. *)
ErrorCode(t) ==
  CASE t = "INVALID" -> "INVALID_TOKEN"
    [] t = "EOF"     -> "STREAM_END"
    [] t = "ERROR"   -> "UNKNOWN"
    [] OTHER         -> "UNEXPECTED_TOKEN"

SignalError(q, t) ==
  /\ event' = "ERROR"
  /\ text' = q
  /\ string' \in {q, 0}
  /\ errcode' = ErrorCode(t)
  /\ errpos' = q

(* Mutant: the text of a closing brace is not captured. *)
SetEventOfBraceUncaptured(q, ev) ==
  /\ text' = IF Token(q) = "CURLY_CLOSE" THEN text ELSE q
  /\ event' = ev
  /\ string' = q
  /\ UNCHANGED <<errcode, errpos>>

(***************************************************************************)
(* set_event for the token at q.  The token's text is captured first; with *)
(* no memory for its value the event becomes an error, the string a copy   *)
(* was wanted in is gone, and the error has no line.                       *)
(***************************************************************************)
SetEvent(q, ev) ==
  /\ text' = q
  /\ \/ /\ event' = ev
        /\ string' = q
        /\ UNCHANGED errcode
     \/ /\ event' = "ERROR"
        /\ string' = IF Token(q) \in {"STRING", "LONG_STRING"}
                     THEN string ELSE 0
        /\ errcode' = "OUT_OF_MEMORY"
  /\ UNCHANGED errpos

-----------------------------------------------------------------------------
(* The expect functions.  Each is the case in which the function returns   *)
(* true for the token at q.                                                *)

ScalarEventOf(t) ==
  CASE t \in {"STRING", "LONG_STRING"} -> "VALUE_STRING"
    [] t = "NUMBER"                    -> "VALUE_NUMBER"
    [] t = "INTEGER"                   -> "VALUE_INTEGER"
    [] t = "BOOLEAN_TRUE"              -> "VALUE_TRUE"
    [] t = "BOOLEAN_FALSE"             -> "VALUE_FALSE"
    [] t = "NIL"                       -> "VALUE_NIL"

KeyEventOf(t) ==
  CASE t = "NUMBER"  -> "KEY_NUMBER"
    [] t = "INTEGER" -> "KEY_INTEGER"
    [] OTHER         -> "KEY_STRING"

ExpectTableStart(q) ==
  /\ Token(q) = "CURLY_OPEN"
  /\ SetEvent(q, "TABLE_START")
  /\ depth' = depth + 1

ExpectTableEnd(q) ==
  /\ Token(q) = "CURLY_CLOSE" /\ depth > 0
  /\ SetEvent(q, "TABLE_END")
  /\ depth' = depth - 1

(* Mutant: a table that is a value does not count as open. *)
ExpectValueFlat(q) ==
  /\ Token(q) \in ScalarToken \cup {"CURLY_OPEN"}
  /\ SetEvent(q, IF Token(q) = "CURLY_OPEN" THEN "TABLE_START"
                 ELSE ScalarEventOf(Token(q)))
  /\ UNCHANGED depth

ExpectValue(q) ==
  \/ /\ Token(q) \in ScalarToken
     /\ SetEvent(q, ScalarEventOf(Token(q)))
     /\ UNCHANGED depth
  \/ ExpectTableStart(q)

(* Mutant: the end of the document passes without an event. *)
ExpectStreamEndSilent(q) ==
  /\ Token(q) = "EOF"
  /\ UNCHANGED <<event, text, string, errcode, errpos, depth>>

ExpectStreamEnd(q) ==
  /\ Token(q) = "EOF"
  /\ SetEvent(q, "STREAM_END")
  /\ UNCHANGED depth

(* Mutants: the key's event, or the error behind it, is set with the text  *)
(* of the other token; and the closing bracket may be anything.            *)
BracketedKeyTooLate(k, c) ==
  /\ Token(k) \in KeyToken
  /\ IF Token(c) = "SQUARE_CLOSE"
     THEN SetEvent(c, KeyEventOf(Token(k)))
     ELSE SignalError(c, Token(c))
  /\ UNCHANGED depth

BracketedKeyTooSoon(k, c) ==
  /\ Token(k) \in KeyToken
  /\ IF Token(c) = "SQUARE_CLOSE"
     THEN SetEvent(k, KeyEventOf(Token(k)))
     ELSE SignalError(k, Token(c))
  /\ UNCHANGED depth

BracketedKeyUnclosed(k, c) ==
  /\ Token(k) \in KeyToken
  /\ SetEvent(k, KeyEventOf(Token(k)))
  /\ UNCHANGED depth

(* A key in brackets: the token k between them, and c where "]" should be. *)
BracketedKey(k, c) ==
  /\ Token(k) \in KeyToken
  /\ IF Token(c) = "SQUARE_CLOSE"
     THEN SetEvent(k, KeyEventOf(Token(k)))
     ELSE SignalError(c, Token(c))
  /\ UNCHANGED depth

(***************************************************************************)
(* Where an entry of a table may begin, at q: the entry, the end of the    *)
(* table, or an error.  A bracket that holds no key is reported under the  *)
(* bracket's own code, at the token that follows it.                       *)
(***************************************************************************)
EntryOrTableEnd(q) ==
  \/ /\ Token(q) = "NAME"
     /\ SetEvent(q, "KEY_STRING")
     /\ pos' = After(q)
     /\ UNCHANGED depth
  \/ /\ Token(q) = "SQUARE_OPEN"
     /\ \E k \in q .. End :
          /\ Reads(After(q), k)
          /\ \/ \E c \in k .. End :
                  /\ Reads(After(k), c)
                  /\ BracketedKey(k, c)
                  /\ pos' = After(c)
             \/ /\ Token(k) \notin KeyToken
                /\ SignalError(k, Token(q))
                /\ pos' = After(k)
                /\ UNCHANGED depth
  \/ /\ ExpectValue(q) \/ ExpectTableEnd(q)
     /\ pos' = After(q)
  \/ /\ Token(q) \notin ScalarToken \cup {"NAME", "SQUARE_OPEN",
                                          "CURLY_OPEN", "CURLY_CLOSE"}
     /\ SignalError(q, Token(q))
     /\ pos' = After(q)
     /\ UNCHANGED depth

(***************************************************************************)
(* Where a definition may begin, at q: the definition behind any number of *)
(* semicolons, the end of the stream, or an error.  The error is about the *)
(* token at q, even when semicolons were skipped to look for a name.       *)
(***************************************************************************)
DefinitionOrStreamEnd(q) ==
  /\ \E d \in q .. End :
       /\ SkipsSemicolons(q, d)
       /\ pos' = After(d)
       /\ \/ Token(d) = "NAME" /\ SetEvent(d, "DEF_NAME") /\ UNCHANGED depth
          \/ Token(d) # "NAME" /\ ExpectStreamEnd(q)
          \/ /\ Token(d) # "NAME" /\ Token(q) # "EOF"
             /\ SignalError(d, Token(q))
             /\ UNCHANGED depth
  /\ UNCHANGED no_defs

-----------------------------------------------------------------------------
(* ELTN_Parser_next, by the event before it.                               *)

Init ==
  /\ doc \in Docs
  /\ pos = 1
  /\ event = "STREAM_START"
  /\ depth = 0
  /\ no_defs = FALSE
  /\ text = 0
  /\ string = 0
  /\ errcode = "OK"
  /\ errpos = 0

(* The first token reads on: a whole table, definitions, or nothing. *)
AtStreamStart(q) ==
  /\ event = "STREAM_START"
  /\ \/ /\ ExpectTableStart(q)
        /\ pos' = After(q)
        /\ no_defs' = TRUE
     \/ Token(q) # "CURLY_OPEN" /\ DefinitionOrStreamEnd(q)

(* A name or a key has been read: "=" and a value must come. *)
AtEquals(q) ==
  /\ event \in KeyEvent \cup {"DEF_NAME"}
  /\ \/ /\ Token(q) # "EQUALS"
        /\ SignalError(q, Token(q))
        /\ pos' = After(q)
        /\ UNCHANGED depth
     \/ /\ Token(q) = "EQUALS"
        /\ \E v \in q .. End :
             /\ Reads(After(q), v)
             /\ pos' = After(v)
             /\ \/ ExpectValue(v)
                \/ /\ Token(v) \notin ScalarToken \cup {"CURLY_OPEN"}
                   /\ SignalError(v, Token(v))
                   /\ UNCHANGED depth
  /\ UNCHANGED no_defs

ValueDone == event \in ScalarEvent \cup {"TABLE_END"}

(* Mutants: definitions may follow a table that is the document; and the   *)
(* top of the document is no place for definitions to follow another.      *)
AfterTopValueAnyway(q) ==
  /\ ValueDone /\ depth = 0
  /\ DefinitionOrStreamEnd(q)

AfterTopValueOnce(q) ==
  /\ ValueDone /\ depth = 0
  /\ \/ ExpectStreamEnd(q)
     \/ Token(q) # "EOF" /\ SignalError(q, Token(q)) /\ UNCHANGED depth
  /\ pos' = After(q)
  /\ UNCHANGED no_defs

(* A value has been read at the top of the document. *)
AfterTopValue(q) ==
  /\ ValueDone /\ depth = 0
  /\ \/ ~no_defs /\ DefinitionOrStreamEnd(q)
     \/ /\ no_defs
        /\ ExpectStreamEnd(q)
        /\ pos' = After(q)
        /\ UNCHANGED no_defs
     \/ /\ no_defs
        /\ Token(q) # "EOF"
        /\ SignalError(q, Token(q))
        /\ pos' = After(q)
        /\ UNCHANGED <<depth, no_defs>>

(* A value has been read in a table: a separator, or the table's end. *)
AfterTableValue(q) ==
  /\ ValueDone /\ depth > 0
  /\ \/ /\ Token(q) \in Separator
        /\ \E e \in q .. End : Reads(After(q), e) /\ EntryOrTableEnd(e)
     \/ /\ ExpectTableEnd(q)
        /\ pos' = After(q)
     \/ /\ Token(q) \notin Separator \cup {"CURLY_CLOSE"}
        /\ SignalError(q, Token(q))
        /\ pos' = After(q)
        /\ UNCHANGED depth
  /\ UNCHANGED no_defs

AtTableStart(q) ==
  /\ event = "TABLE_START"
  /\ EntryOrTableEnd(q)
  /\ UNCHANGED no_defs

(* The stream has ended or failed: a token is read and ignored. *)
Finished(q) ==
  /\ event \in {"STREAM_END", "ERROR"}
  /\ pos' = After(q)
  /\ UNCHANGED <<event, depth, no_defs, text, string, errcode, errpos>>

ParserNext ==
  /\ \E q \in pos .. End :
       /\ Reads(pos, q)
       /\ \/ AtStreamStart(q)
          \/ AtEquals(q)
          \/ AfterTopValue(q)
          \/ AfterTableValue(q)
          \/ AtTableStart(q)
          \/ Finished(q)
  /\ UNCHANGED doc

Spec == Init /\ [][ParserNext]_vars

(* The loop every client runs: while ELTN_Parser_has_next, ELTN_Parser_next. *)
HasNext == event \notin {"STREAM_END", "ERROR"}

FairSpec == Spec /\ WF_vars(HasNext /\ ParserNext)

-----------------------------------------------------------------------------
(* Properties.                                                             *)

(* The type invariant: the fields of struct ELTN_Parser.                   *)
TypeOK ==
  /\ doc \in Seq(DocToken)
  /\ pos \in 1 .. End
  /\ event \in Event
  /\ depth \in Nat
  /\ no_defs \in BOOLEAN
  /\ text \in 0 .. End
  /\ string \in 0 .. End
  /\ errcode \in {"OK", "OUT_OF_MEMORY", "STREAM_END", "UNKNOWN",
                  "UNEXPECTED_TOKEN", "INVALID_TOKEN"}
  /\ errpos \in 0 .. End

(* The events of ELTN_Parser_next always come in an order that describes a *)
(* document, with every table that started ended before the stream ends,   *)
(* and an error or the end of the stream is final.                         *)
Stream == INSTANCE EventStream
            WITH open <- IF event = "ERROR" THEN 0 ELSE depth,
                 single <- no_defs
ImplementsEventStream == Stream!Spec

(* ELTN_Parser_error_code says something is wrong exactly when the event   *)
(* does, whichever allocation failed on the way.                           *)
ErrorHasCode == event = "ERROR" <=> errcode # "OK"

(* What ELTN_Parser_text and ELTN_Parser_string return belongs to the      *)
(* token of the current event, never to a token read to look ahead.        *)
TextIsOfEvent ==
  /\ event \in ScalarEvent =>
       Token(text) \in ScalarToken /\ event = ScalarEventOf(Token(text))
  /\ event \in KeyEvent =>
       Token(text) \in KeyToken \cup {"NAME"} /\ event = KeyEventOf(Token(text))
  /\ event = "DEF_NAME" => Token(text) = "NAME"
  /\ event = "TABLE_START" => Token(text) = "CURLY_OPEN"
  /\ event = "TABLE_END" => Token(text) = "CURLY_CLOSE"
  /\ event = "STREAM_END" => Token(text) = "EOF"
  /\ event # "ERROR" => string = text

(* An error that is not about memory is placed at the last token read, and *)
(* a code that names a kind of token names that token's kind.              *)
ErrorIsAtItsToken ==
  event = "ERROR" /\ errcode # "OUT_OF_MEMORY" =>
    /\ errpos = text /\ text # 0
    /\ errcode = "INVALID_TOKEN" => Token(errpos) = "INVALID"
    /\ errcode = "STREAM_END" => Token(errpos) = "EOF"

(* ELTN_Parser_depth counts the braces of the document read so far that    *)
(* are still open: no look-ahead past a brace disturbs it.                 *)
Seen(t) == {p \in 1 .. pos - 1 : doc[p] = t}
DepthIsNesting ==
  event # "ERROR" =>
    Cardinality(Seen("CURLY_OPEN")) = Cardinality(Seen("CURLY_CLOSE")) + depth

(* Every event moves on in the document: no token is reported twice.       *)
EventsMoveForward ==
  [][HasNext => text' > text /\ pos' >= text']_vars

(* A client that keeps calling ELTN_Parser_next comes to the end of the    *)
(* document or to an error.                                                *)
ParsingEnds == <>(event \in {"STREAM_END", "ERROR"})

=============================================================================
