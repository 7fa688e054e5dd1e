---------------------------- MODULE TokenStream ----------------------------
(***************************************************************************)
(* What the lexer promises: the document, cut into tokens.  A token begins *)
(* at the first character behind the last token that is not space, and     *)
(* where it ends is said here by the shape of the text, not by how it is   *)
(* read.                                                                   *)
(*                                                                         *)
(* Known divergences from the documentation are said as such:              *)
(* - Carriage returns never belong to the text of a token, nor do they     *)
(*   part what lies on both sides of them (elexer.c, lines 218, 308 and    *)
(*   335): "]", a carriage return and "]" close a long string.  In         *)
(*   doc/eltn.md, lines 220 and 221, that is no closing bracket, and every *)
(*   character of a long string is in it.                                  *)
(* - A string that \z should carry over a newline may be cut short there   *)
(*   (CutShort), and an escaped backslash escapes (Escaped).               *)
(*                                                                         *)
(* Lexer.tla, the specification of src/src/elexer.c, implements this       *)
(* module when every token finds the memory it needs.                      *)
(***************************************************************************)
EXTENDS Lexis

CONSTANT Docs     (* the documents, as sequences of characters              *)

VARIABLES
  doc,    (* the document                                                   *)
  done,   (* how much of it has been cut up                                 *)
  last    (* the last token, its text, and where it began                   *)

vars == <<doc, done, last>>

NoToken == [token |-> "none", text |-> <<>>, from |-> 0]

-----------------------------------------------------------------------------
(* The text from b to e: its k-th character is the k-th one that is kept   *)
(* (SelectSeq, without its recursion).                                     *)
Kept(b, e)   == {i \in b .. e : doc[i] # "return"}
KeptAt(b, k) == CHOOSE i \in b .. Len(doc) :
                  doc[i] # "return" /\ Cardinality(Kept(b, i)) = k
Text(b, e)   == [k \in 1 .. Cardinality(Kept(b, e)) |-> doc[KeptAt(b, k)]]

(* What comes b + 1-st, if anything. *)
Followed(b, S) == b < Len(doc) /\ doc[b + 1] \in S

(* The forms a token can have, by its first one or two characters. *)
Quoted(b)   == doc[b] \in Quote
LongText(b) == doc[b] = "[" /\ Followed(b, {"[", "="})
Comment(b)  == doc[b] = "-" /\ Followed(b, {"-"})
Word(b)     == doc[b] \in Letter
Number(b)   == \/ doc[b] \in Digit \cup {"."}
               \/ doc[b] = "-" /\ Followed(b, Digit \cup {"."})
Delimited(b) == Quoted(b) \/ LongText(b) \/ Comment(b)

(***************************************************************************)
(* A quoted string is closed by its own quote unless a backslash comes     *)
(* just before, one that is itself escaped included (against               *)
(* doc/eltn.md, line 273).  It is broken by a newline, unless a backslash  *)
(* comes just before, or \z with nothing but space behind it.              *)
(***************************************************************************)
Escaped(w)  == w[Len(w) - 1] = "backslash"
Skipping(w) ==
  \E k \in 1 .. Len(w) - 2 :
    /\ w[k] = "backslash" /\ w[k + 1] = "z"
    /\ \A i \in k + 2 .. Len(w) - 1 : w[i] \in Space
Unescaped(w) == Len(w) > 1 /\ w[Len(w)] = "newline" /\ ~Escaped(w)
Closed(w)    == Len(w) > 1 /\ w[Len(w)] = w[1] /\ ~Escaped(w)
Broken(w)    == Unescaped(w) /\ ~Skipping(w)

(***************************************************************************)
(* Known divergence: doc/eltn.md, lines 252 and 303, and test/string.c,    *)
(* line 63, let \z skip all the space behind it; elexer.c, line            *)
(* 223, lets a newline pass only right behind \z, and breaks the string at *)
(* one behind a space or behind a first newline.                           *)
(***************************************************************************)
BrokenAnyway(w) ==
  /\ Unescaped(w) /\ Skipping(w)
  /\ ~(w[Len(w) - 1] = "z" /\ w[Len(w) - 2] = "backslash")

(* Long brackets that open in the text w, at its p-th character, and close *)
(* at its end.                                                             *)
Opens(w, p, n)  == Len(w) > p + n /\ LongOpen(SubSeq(w, 1, p + n + 1), p, n)
OpensLong(w, p) == \E n \in 0 .. Len(w) : Opens(w, p, n)
ClosesLong(w, p) ==
  \E n \in 0 .. Len(w) : Opens(w, p, n) /\ LongClose(SubSeq(w, p + n + 2, Len(w)), n)

(* A long string that is none: "[", some "=", and something else. *)
NeverOpens(b, e) ==
  /\ e > b + 1 /\ doc[e] \notin {"=", "["}
  /\ \A i \in b + 1 .. e - 1 : doc[i] = "="

(* The token that begins at b is complete with the character at e. *)
Complete(b, e) ==
  LET w == Text(b, e) IN
  \/ Quoted(b) /\ (Closed(w) \/ Broken(w))
  \/ LongText(b) /\ (ClosesLong(w, 1) \/ NeverOpens(b, e))
  \/ Comment(b) /\ (ClosesLong(w, 3) \/ (~OpensLong(w, 3) /\ doc[e] = "newline"))

CutShort(b, e) == Quoted(b) /\ BrokenAnyway(Text(b, e))
Over(b, e)     == Complete(b, e) \/ CutShort(b, e)

(* The token that begins at b ends at e. *)
Lexeme(b, e) ==
  \/ /\ Delimited(b)
     /\ Over(b, e) \/ e = Len(doc)
     /\ \A i \in b .. e - 1 : ~Complete(b, i)
  \/ /\ Word(b)
     /\ \A i \in b .. e : doc[i] \in NamePart
     /\ ~Followed(e, NamePart)
  \/ /\ Number(b)
     /\ \A i \in b .. e : doc[i] \in NumberPart
     /\ ~Followed(e, NumberPart)
  \/ /\ ~Delimited(b) /\ ~Word(b) /\ ~Number(b)
     /\ e = b

Token(b, e) ==
  LET w == Text(b, e) IN
  CASE Quoted(b)   -> IF Closed(w) THEN "STRING" ELSE "INVALID"
    [] LongText(b) -> IF ClosesLong(w, 1) THEN "LONG_STRING" ELSE "INVALID"
    [] Comment(b)  -> IF ~OpensLong(w, 3) THEN "COMMENT"
                      ELSE IF ClosesLong(w, 3) THEN "LONG_COMMENT" ELSE "INVALID"
    [] Word(b)     -> WordToken(w)
    [] Number(b)   -> NumberToken(w)
    [] doc[b] \in Mark -> MarkToken(doc[b])
    [] doc[b] = "[" /\ ~LongText(b) -> "SQUARE_OPEN"
    [] OTHER       -> "INVALID"

(* The newline that breaks a quoted string is not in its text. *)
TokenText(b, e) ==
  LET w == Text(b, e) IN
  IF Quoted(b) /\ (Broken(w) \/ BrokenAnyway(w)) THEN Text(b, e - 1) ELSE w

-----------------------------------------------------------------------------
Init ==
  /\ doc \in Docs
  /\ done = 0
  /\ last = NoToken

(* The token from b to e. *)
Take(b, e) ==
  /\ \A i \in done + 1 .. b - 1 : doc[i] \in Space
  /\ doc[b] \notin Space
  /\ Lexeme(b, e)
  /\ done' = e
  /\ last' = [token |-> Token(b, e), text |-> TokenText(b, e), from |-> b]
  /\ UNCHANGED doc

TakeEnd ==
  /\ \A i \in done + 1 .. Len(doc) : doc[i] \in Space
  /\ done' = Len(doc)
  /\ last' = [token |-> "EOF", text |-> <<>>, from |-> Len(doc) + 1]
  /\ UNCHANGED doc

Next ==
  \/ \E b \in done + 1 .. Len(doc) : \E e \in b .. Len(doc) : Take(b, e)
  \/ TakeEnd

Spec == Init /\ [][Next]_vars

=============================================================================
