------------------------------- MODULE Lexer -------------------------------
(***************************************************************************)
(* ELTN_Lexer (src/src/elexer.c): the characters of a document, one at a   *)
(* time, into tokens.                                                      *)
(*                                                                         *)
(* ELTN_Lexer_next_token calls the character source for every character,   *)
(* and the source may call the reader of the document, so a call is as     *)
(* many steps as it reads characters: one step for each pass of a loop     *)
(* with the get_next_char at its end.  mode says which loop.               *)
(*                                                                         *)
(* doc is what the source returns before its first -1; nothing is asked of *)
(* the source after that.                                                  *)
(***************************************************************************)
EXTENDS Lexis

CONSTANTS
  Docs,       (* the documents, as sequences of characters                  *)
  BufSize     (* INIT_BUF_SIZE                                              *)

(* From 2 * INIT_BUF_SIZE on token_buffer_append writes past its block, as *)
(* token_buffer_size does not grow with it: no such documents here.        *)
ASSUME DocsAssumption ==
  /\ Docs \subseteq Seq(Char)
  /\ BufSize \in Nat /\ BufSize > 2
  /\ \A d \in Docs : Len(d) + 1 < 2 * BufSize

VARIABLES
  doc,        (* the document                                               *)
  (* the fields of struct ELTN_Lexer                                        *)
  current,    (* current_char                                               *)
  count, line, column,
  pushback,
  eos,
  buffer,     (* the text of the token                                      *)
  (* the local variables of ELTN_Lexer_next_token and the loops in it       *)
  mode,       (* where it is; "idle" between calls                          *)
  curr,       (* the character looked at                                    *)
  prev,       (* the one before, in a quoted string                         *)
  level,      (* of the long bracket that was opened, -1 if none was        *)
  start,      (* *lineptr and *colptr, and the place of the first character *)
  last        (* the token last returned with its text and its start        *)

vars == <<doc, current, count, line, column, pushback, eos, buffer,
          mode, curr, prev, level, start, last>>

End  == "end"     (* get_next_char's -1                                     *)
None == "none"
ASSUME EndAssumption == End \notin Char /\ None \notin Char

Tokens == {"EOF", "INVALID", "STRING", "LONG_STRING", "NUMBER", "NAME",
           "BOOLEAN_TRUE", "BOOLEAN_FALSE", "NIL", "COMMENT", "LONG_COMMENT",
           "SQUARE_OPEN", "SQUARE_CLOSE", "CURLY_OPEN", "CURLY_CLOSE", "EQUALS",
           "COMMA", "SEMICOLON"}

-----------------------------------------------------------------------------
(* Mutant: a character pushed back counts again. *)
GetNextCharTwice ==
  /\ pushback' = FALSE
  /\ IF pushback \/ (~eos /\ count < Len(doc))
     THEN /\ curr' = IF pushback THEN current ELSE doc[count + 1]
          /\ current' = curr'
          /\ count' = IF pushback THEN count ELSE count + 1
          /\ line' = IF count = 0 THEN 1 ELSE IF current = "newline" THEN line + 1 ELSE line
          /\ column' = IF count = 0 \/ current = "newline" THEN 1 ELSE column + 1
          /\ UNCHANGED eos
     ELSE /\ curr' = End
          /\ eos' = TRUE
          /\ UNCHANGED <<current, count, line, column>>

(* The character pushed back; nothing, at the end; or the next character   *)
(* of the source, at the next place in the document.                       *)
GetNextChar ==
  \/ /\ pushback
     /\ pushback' = FALSE
     /\ curr' = current
     /\ UNCHANGED <<current, count, line, column, eos>>
  \/ /\ ~pushback /\ eos
     /\ curr' = End
     /\ UNCHANGED <<current, count, line, column, pushback, eos>>
  \/ /\ ~pushback /\ ~eos
     /\ count' = count + 1
     /\ line' = IF count = 0 THEN 1 ELSE IF current = "newline" THEN line + 1 ELSE line
     /\ column' = IF count = 0 \/ current = "newline" THEN 1 ELSE column + 1
     /\ \/ /\ count < Len(doc)
           /\ curr' = doc[count + 1]
           /\ current' = curr'
           /\ UNCHANGED eos
        \/ /\ count >= Len(doc)
           /\ curr' = End
           /\ eos' = TRUE
           /\ UNCHANGED current
     /\ UNCHANGED pushback

NoGet == UNCHANGED <<curr, current, count, line, column, pushback, eos>>

(* curr is the beginning of the next token. *)
PushBack ==
  /\ pushback' = TRUE
  /\ UNCHANGED <<curr, current, count, line, column, eos>>

(* token_buffer_append; a token that outgrows the buffer may find no       *)
(* memory, and the character is dropped.                                   *)
Appended(c) ==
  \/ buffer' = Append(buffer, c)
  \/ Len(buffer) + 1 >= BufSize /\ buffer' = buffer

Enter(m) == mode' = m /\ UNCHANGED last

(* The call returns the token t. *)
Return(t) ==
  /\ mode' = "idle"
  /\ last' = [token  |-> t,
              text   |-> buffer',
              line   |-> start'.line,
              column |-> start'.column,
              from   |-> start'.at,
              to     |-> IF pushback' \/ eos' THEN count' - 1 ELSE count']

-----------------------------------------------------------------------------
(* ELTN_Lexer_next_token.                                                  *)

Init ==
  /\ doc \in Docs
  /\ current = None
  /\ count = 0 /\ line = 0 /\ column = 0
  /\ pushback = FALSE
  /\ eos = FALSE
  /\ buffer = <<>>
  /\ mode = "idle"
  /\ curr = None
  /\ prev = None
  /\ level = -1
  /\ start = [line |-> 0, column |-> 0, at |-> 0]
  /\ last = [token |-> "none", text |-> <<>>, line |-> 0, column |-> 0,
             from |-> 0, to |-> 0]

NextToken ==
  /\ mode = "idle"
  /\ GetNextChar
  /\ buffer' = <<>>
  /\ level' = -1
  /\ \/ /\ eos'
        /\ start' = [line |-> line', column |-> column', at |-> count']
        /\ Return("EOF")
     \/ /\ ~eos'
        /\ Enter("space")
        /\ UNCHANGED start
  /\ UNCHANGED <<doc, prev>>

SkipSpace ==
  /\ mode = "space" /\ curr \in Space
  /\ GetNextChar
  /\ UNCHANGED <<doc, buffer, mode, prev, level, start, last>>

(* The first character of a token, or the end behind spaces. *)
Begin ==
  /\ mode = "space" /\ curr \notin Space
  /\ start' = [line |-> line, column |-> column, at |-> count]
  /\ \/ /\ curr = End
        /\ NoGet /\ UNCHANGED <<buffer, prev>>
        /\ Return("EOF")
     \/ /\ curr # End
        /\ Appended(curr)
        /\ \/ curr \in Mark /\ NoGet /\ Return(MarkToken(curr)) /\ UNCHANGED prev
           \/ curr \in Other \cup {"+", "backslash"} /\ NoGet /\ Return("INVALID")
              /\ UNCHANGED prev
           \/ curr = "[" /\ GetNextChar /\ Enter("bracket") /\ UNCHANGED prev
           \/ curr = "-" /\ GetNextChar /\ Enter("dash") /\ UNCHANGED prev
           \/ curr \in Digit \cup {"."} /\ GetNextChar /\ Enter("number")
              /\ UNCHANGED prev
           \/ curr \in Letter /\ GetNextChar /\ Enter("name") /\ UNCHANGED prev
           \/ curr \in Quote /\ GetNextChar /\ Enter("quoted") /\ prev' = curr
  /\ UNCHANGED <<doc, level>>

(* The character after "[". *)
Bracket ==
  /\ mode = "bracket"
  /\ UNCHANGED <<doc, prev, start>>
  /\ \/ /\ curr \in {"[", "="}
        /\ Appended(curr)
        /\ level' = IF curr = "[" THEN 0 ELSE -1
        /\ GetNextChar
        /\ Enter("long_string")
     \/ /\ curr \notin {"[", "="}
        /\ PushBack
        /\ UNCHANGED <<buffer, level>>
        /\ Return("SQUARE_OPEN")

(* The character after "-". *)
Dash ==
  /\ mode = "dash"
  /\ UNCHANGED <<doc, prev, level, start>>
  /\ \/ /\ curr = "-"
        /\ Appended(curr)
        /\ GetNextChar
        /\ Enter("comment")
     \/ /\ curr \in Digit \cup {"."}
        /\ Appended(curr)
        /\ GetNextChar
        /\ Enter("number")
     \/ /\ curr \notin Digit \cup {"-", "."}
        /\ PushBack
        /\ UNCHANGED buffer
        /\ Return("INVALID")

(* Mutants: the character behind a number is lost; the end goes unnoticed  *)
(* in a string.                                                            *)
NumberEatsOn ==
  /\ mode = "number"
  /\ UNCHANGED <<doc, prev, level, start>>
  /\ IF curr \in NumberPart
     THEN Appended(curr) /\ GetNextChar /\ UNCHANGED <<mode, last>>
     ELSE NoGet /\ UNCHANGED buffer /\ Return(NumberToken(buffer))

QuotedForEver ==
  /\ mode = "quoted"
  /\ UNCHANGED <<doc, prev, level, start>>
  /\ IF curr = Head(buffer)
     THEN Appended(curr) /\ NoGet /\ Return("STRING")
     ELSE /\ IF curr = End THEN UNCHANGED buffer ELSE Appended(curr)
          /\ GetNextChar /\ UNCHANGED <<mode, last>>

(* parse_number: any characters numbers have in them, then strtod. *)
Number ==
  /\ mode = "number"
  /\ UNCHANGED <<doc, prev, level, start>>
  /\ \/ /\ curr \in NumberPart
        /\ Appended(curr)
        /\ GetNextChar
        /\ UNCHANGED <<mode, last>>
     \/ /\ curr \notin NumberPart
        /\ PushBack
        /\ UNCHANGED buffer
        /\ Return(NumberToken(buffer))

Name ==
  /\ mode = "name"
  /\ UNCHANGED <<doc, prev, level, start>>
  /\ \/ /\ curr \in NamePart
        /\ Appended(curr)
        /\ GetNextChar
        /\ UNCHANGED <<mode, last>>
     \/ /\ curr \notin NamePart
        /\ PushBack
        /\ UNCHANGED buffer
        /\ Return(WordToken(buffer))

(* consume_until_matching_quote. *)
Quoted ==
  /\ mode = "quoted"
  /\ UNCHANGED <<doc, level, start>>
  /\ LET breaks == /\ curr = "newline" /\ prev # "backslash"
                   /\ ~IsSuffix(<<"backslash", "z">>, buffer)
         closes == curr = Head(buffer) /\ prev # "backslash"
     IN \/ /\ eos \/ breaks
           /\ NoGet
           /\ UNCHANGED <<buffer, prev>>
           /\ Return("INVALID")
        \/ /\ ~eos /\ curr = "return"
           /\ GetNextChar
           /\ UNCHANGED <<buffer, prev, mode, last>>
        \/ /\ ~eos /\ closes
           /\ Appended(curr)
           /\ NoGet
           /\ Return("STRING")
           /\ UNCHANGED prev
        \/ /\ ~eos /\ curr # "return" /\ ~breaks /\ ~closes
           /\ Appended(curr)
           /\ prev' = curr
           /\ GetNextChar
           /\ UNCHANGED <<mode, last>>

(***************************************************************************)
(* The two loops inside long brackets.  A carriage return is not appended. *)
(* The bracket opens at the p-th character of the text; level is how many  *)
(* "=" it has.                                                             *)
(***************************************************************************)
AppendedIfKept == IF curr = "return" THEN UNCHANGED buffer ELSE Appended(curr)

InLongBracket(p) ==
  IF level >= 0 THEN level' = level
  ELSE \/ /\ LongOpen(buffer', p, Len(buffer') - p - 1)
          /\ level' = Len(buffer') - p - 1
       \/ /\ ~LongOpen(buffer', p, Len(buffer') - p - 1)
          /\ level' = -1

AtLongClose == level' >= 0 /\ LongClose(buffer', level')

(* parse_long_string. *)
LongString ==
  /\ mode = "long_string"
  /\ UNCHANGED <<doc, prev, start>>
  /\ \/ /\ eos
        /\ NoGet
        /\ UNCHANGED <<buffer, level>>
        /\ Return("INVALID")
     \/ /\ ~eos
        /\ AppendedIfKept
        /\ InLongBracket(1)
        /\ \/ level' < 0 /\ curr # "=" /\ NoGet /\ Return("INVALID")
           \/ AtLongClose /\ NoGet /\ Return("LONG_STRING")
           \/ /\ level' >= 0 \/ curr = "="
              /\ ~AtLongClose
              /\ GetNextChar
              /\ UNCHANGED <<mode, last>>

(* consume_until_end_of_comment. *)
Comment ==
  /\ mode = "comment"
  /\ UNCHANGED <<doc, prev, start>>
  /\ \/ /\ eos
        /\ NoGet
        /\ UNCHANGED <<buffer, level>>
        /\ Return(IF level >= 0 THEN "INVALID" ELSE "COMMENT")
     \/ /\ ~eos
        /\ AppendedIfKept
        /\ InLongBracket(3)
        /\ \/ level' < 0 /\ curr = "newline" /\ NoGet /\ Return("COMMENT")
           \/ AtLongClose /\ NoGet /\ Return("LONG_COMMENT")
           \/ /\ level' >= 0 \/ curr # "newline"
              /\ ~AtLongClose
              /\ GetNextChar
              /\ UNCHANGED <<mode, last>>

Next ==
  \/ NextToken \/ SkipSpace \/ Begin
  \/ Bracket \/ Dash \/ Number \/ Name \/ Quoted \/ LongString \/ Comment

Spec == Init /\ [][Next]_vars

(* The parser asks for tokens until there are no more, and the source      *)
(* answers.                                                                *)
FairSpec == Spec /\ WF_vars(last.token # "EOF" /\ Next)

-----------------------------------------------------------------------------
(* Properties.                                                             *)

TypeOK ==
  /\ doc \in Seq(Char)
  /\ current \in Char \cup {None}
  /\ count \in 0 .. Len(doc) + 1
  /\ line \in Nat /\ column \in Nat
  /\ pushback \in BOOLEAN /\ eos \in BOOLEAN
  /\ buffer \in Seq(Char)
  /\ mode \in {"idle", "space", "bracket", "dash", "number", "name",
               "quoted", "long_string", "comment"}
  /\ curr \in Char \cup {None, End}
  /\ prev \in Char \cup {None}
  /\ level \in Int
  /\ start \in [line : Nat, column : Nat, at : 0 .. Len(doc) + 1]
  /\ last.token \in Tokens \cup {"none"}

(* The n-th character of the document d is at line l and column c. *)
Newlines(d, n) == {i \in 1 .. n - 1 : d[i] = "newline"}
At(d, n, l, c) ==
  /\ l = Cardinality(Newlines(d, n)) + 1
  /\ \/ Newlines(d, n) = {} /\ c = n
     \/ \E i \in Newlines(d, n) : /\ \A j \in Newlines(d, n) : j <= i
                                /\ c = n - i

(* Every character of the document is space or belongs to one token, which *)
(* ends where its own form says and not where the lexer stopped reading:   *)
(* no character is lost or read twice between two calls of                 *)
(* ELTN_Lexer_next_token, whatever was pushed back.  A document that fits  *)
(* in the token buffer needs no memory; another one may lose characters    *)
(* of its tokens and is not held to anything.  Where the lexer is known    *)
(* not to do as the documentation says, TokenStream says so.               *)
Fits == Len(doc) < BufSize
Stream == INSTANCE TokenStream
            WITH done <- IF Fits THEN last.to ELSE 0,
                 last <- [token |-> IF Fits THEN last.token ELSE "none",
                          text  |-> IF Fits THEN last.text ELSE <<>>,
                          from  |-> IF Fits THEN last.from ELSE 0]
ImplementsTokenStream == Stream!Spec

(* The line and column ELTN_Lexer_next_token reports are those of the      *)
(* first character of the token in the document, or of the end, though     *)
(* they are counted while reading ahead.                                   *)
PlaceIsTrue ==
  last.token # "none" => At(doc, last.from, last.line, last.column)

(* A document comes to its end, whatever is in it and whatever memory      *)
(* fails: no token goes on for ever.                                       *)
LexingEnds == <>(last.token = "EOF")

-----------------------------------------------------------------------------
(* What the documentation says and the code does not do.                   *)

(* doc/eltn.md, line 349: identifiers "start with an underscore or ASCII   *)
(* letter"; "No valid identifier may match match the words `nil`, `true`,  *)
(* `false`, or any reserved words": every other one is a name.             *)
IdentifiersAreNames ==
  last.token \in {"BOOLEAN_TRUE", "BOOLEAN_FALSE", "NIL"} =>
    last.text \in {TrueWord, FalseWord, NilWord}

=============================================================================
