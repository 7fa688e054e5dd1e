------------------------------ MODULE MCLexer ------------------------------
(***************************************************************************)
(* Lexer over short documents: of any two characters, and of more where    *)
(* the form of a token is made of more: quoted strings, long brackets,     *)
(* words and numbers.                                                      *)
(***************************************************************************)
EXTENDS Lexer

CONSTANTS MaxQuoted, MaxLong, MaxWord   (* how long documents of a form are *)

MCDigit        == {"0"}
MCNumberLetter == {"e", "f"}
MCLetter       == MCNumberLetter \cup {"n", "i", "l", "z", "t", "r", "u", "a", "s"}
MCOther        == {"!"}
MCTrueWord     == <<"t", "r", "u", "e">>
MCFalseWord    == <<"f", "a", "l", "s", "e">>
MCNilWord      == <<"n", "i", "l">>
MCKeyword      == {<<"i", "n">>, <<"i", "f">>}

(* Decimal digits with at most one point, and an exponent. *)
Digits(w)  == \A i \in DOMAIN w : w[i] = "0"
Decimal(w) ==
  /\ \E i \in DOMAIN w : w[i] = "0"
  /\ Digits(w) \/ \E i \in DOMAIN w : w[i] = "." /\ Digits(RemoveAt(w, i))
Unsigned(w) == IF w # <<>> /\ w[1] \in {"+", "-"} THEN Tail(w) ELSE w
Exponent(w) == Unsigned(w) # <<>> /\ Digits(Unsigned(w))
MCIsNumeral(w) ==
  LET u == Unsigned(w) IN
  \/ Decimal(u)
  \/ \E i \in DOMAIN u :
       /\ u[i] = "e"
       /\ Decimal(SubSeq(u, 1, i - 1))
       /\ Exponent(SubSeq(u, i + 1, Len(u)))

-----------------------------------------------------------------------------
Texts(S, n)  == UNION {[1 .. k -> S] : k \in 0 .. n}
After(p, T)  == {p \o t : t \in T}

AllChar == Space \cup Quote \cup Mark \cup MCLetter \cup MCDigit \cup MCOther
             \cup {"[", "-", "+", ".", "backslash"}

PairDocs   == Texts(AllChar, 2)
QuotedDocs == After(<<"quote">>,
                    Texts({"quote", "'", "backslash", "z", "newline", "return"}, MaxQuoted))
LongDocs   ==
  LET T(n) == Texts({"[", "]", "=", "newline", "return"}, n) IN
  After(<<"[">>, T(MaxLong)) \cup After(<<"-", "-">>, T(MaxLong - 2))
    \cup After(<<"-", "-", "[">>, T(MaxLong))
WordDocs   ==
  Texts({"n", "i", "l", "e", "0", ".", "-", "space", "newline", "{"}, MaxWord)
    \cup {w \o t : w \in {MCTrueWord, MCFalseWord} \cup MCKeyword,
                   t \in {<<>>, <<"0">>, <<"space">>, <<"=">>}}

(* Longer than the token buffer of the run, where memory may fail. *)
OverlongDocs ==
  {o \o [i \in 1 .. BufSize - 2 |-> x] \o c :
     o \in {<<"quote">>, <<"[", "[">>, <<"-", "-">>, <<"n">>, <<"0">>},
     x \in {"]", "backslash", "0", "newline", "quote"},
     c \in {<<>>, <<"quote">>, <<"]">>, <<"]", "]">>}}

MCDocs == {d \in PairDocs \cup QuotedDocs \cup LongDocs \cup WordDocs
                    \cup OverlongDocs :
             Len(d) + 1 < 2 * BufSize}
=============================================================================
