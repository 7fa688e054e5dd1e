------------------------------- MODULE Lexis -------------------------------
(***************************************************************************)
(* The characters of ELTN and the words and marks made of them, as         *)
(* src/src/elexer.c and the character classes of src/src/estring.c have    *)
(* them.  Each constant or string stands for all the characters the lexer  *)
(* treats alike; Letter includes the underscore.                           *)
(***************************************************************************)
EXTENDS Integers, Sequences, FiniteSets, SequencesExt

CONSTANTS
  Letter,         (* ELTN_is_name_start                                     *)
  NumberLetter,   (* those that are ELTN_is_number_part: hex digits, p, x   *)
  Digit,          (* ELTN_is_digit                                          *)
  Other,          (* what begins no token                                   *)
  TrueWord,       (* the words "true", "false" and "nil"                    *)
  FalseWord,
  NilWord,
  Keyword,        (* KEYWORDS                                               *)
  IsNumeral(_)    (* strtod takes all of the text, and the result is finite *)

Space == {"space", "newline", "return"}
Quote == {"'", "quote"}
Mark  == {"]", "{", "}", "=", ",", ";"}

NamePart   == Letter \cup Digit
NumberPart == NumberLetter \cup Digit \cup {".", "+", "-"}

Char == Space \cup Quote \cup Mark \cup NamePart \cup Other
          \cup {"[", "-", "+", ".", "backslash"}

ASSUME ClassAssumption ==
  /\ NumberLetter \subseteq Letter
  /\ "z" \in Letter
  /\ Letter \cap (Digit \cup Other) = {} /\ Digit \cap Other = {}
  /\ (NamePart \cup Other) \cap
       (Space \cup Quote \cup Mark \cup {"[", "-", "+", ".", "backslash"}) = {}
ASSUME WordAssumption ==
  /\ TrueWord \in Seq(Letter) /\ FalseWord \in Seq(Letter) /\ NilWord \in Seq(Letter)
  /\ Keyword \subseteq Seq(Letter)

MarkToken(c) ==
  CASE c = "]" -> "SQUARE_CLOSE"
    [] c = "{" -> "CURLY_OPEN"
    [] c = "}" -> "CURLY_CLOSE"
    [] c = "=" -> "EQUALS"
    [] c = "," -> "COMMA"
    [] c = ";" -> "SEMICOLON"

(* The token a word is: token_buffer_equals compares as many characters as *)
(* the word has.                                                           *)
WordToken(w) ==
  IF IsPrefix(w, TrueWord) THEN "BOOLEAN_TRUE"
  ELSE IF IsPrefix(w, FalseWord) THEN "BOOLEAN_FALSE"
  ELSE IF IsPrefix(w, NilWord) THEN "NIL"
  ELSE IF w \in Keyword THEN "INVALID"
  ELSE "NAME"

NumberToken(w) == IF IsNumeral(w) THEN "NUMBER" ELSE "INVALID"

-----------------------------------------------------------------------------
(* Long brackets in the text w.                                            *)

(* in_long_bracket: w is p characters, n "=" between brackets, and "[".    *)
(* The p-th character is the first "[".                                    *)
LongOpen(w, p, n) ==
  /\ n >= 0 /\ Len(w) = p + n + 1
  /\ w[p] = "[" /\ w[p + n + 1] = "["
  /\ \A i \in p + 1 .. p + n : w[i] = "="

(* token_buffer_ends_with_long_bracket: w ends in "]", n "=" and "]". *)
LongClose(w, n) ==
  LET l == Len(w) IN
  /\ l >= n + 2
  /\ w[l] = "]" /\ w[l - n - 1] = "]"
  /\ \A i \in l - n .. l - 1 : w[i] = "="

=============================================================================
