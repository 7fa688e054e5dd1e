---------------------------- MODULE LexerProofs ----------------------------
(***************************************************************************)
(* Proofs about Lexer, for every set of documents of any length.           *)
(***************************************************************************)
EXTENDS Lexer, SequenceTheorems, FiniteSetTheorems, TLAPS

-----------------------------------------------------------------------------
(* Places in a document.                                                   *)

LEMMA NewlinesFinite ==
  ASSUME NEW d, NEW n \in Nat
  PROVE  IsFiniteSet(Newlines(d, n)) /\ Newlines(d, n) \subseteq 1 .. n - 1
<1>1. IsFiniteSet(1 .. n - 1)
  BY FS_Interval
<1>2. Newlines(d, n) \subseteq 1 .. n - 1
  BY DEF Newlines
<1>3. QED
  BY <1>1, <1>2, FS_Subset

(* The first character is at line 1 and column 1. *)
LEMMA FirstPlace ==
  ASSUME NEW d
  PROVE  At(d, 1, 1, 1)
<1>1. Newlines(d, 1) = {}
  BY DEF Newlines
<1>2. QED
  BY <1>1, FS_EmptySet DEF At

(* The line goes up behind a newline, the column behind any other.         *)
LEMMA NextPlace ==
  ASSUME NEW d, NEW n \in Nat, n > 0, NEW l \in Nat, NEW c \in Nat, At(d, n, l, c)
  PROVE  /\ d[n] = "newline" => At(d, n + 1, l + 1, 1)
         /\ d[n] # "newline" => At(d, n + 1, l, c + 1)
<1>1. /\ IsFiniteSet(Newlines(d, n))
      /\ Newlines(d, n) \subseteq 1 .. n - 1
      /\ n \notin Newlines(d, n)
  BY NewlinesFinite
<1>2. ASSUME d[n] = "newline"
      PROVE  At(d, n + 1, l + 1, 1)
  <2>1. Newlines(d, n + 1) = Newlines(d, n) \cup {n}
    BY <1>2 DEF Newlines
  <2>2. Cardinality(Newlines(d, n + 1)) = Cardinality(Newlines(d, n)) + 1
    BY <1>1, <2>1, FS_AddElement
  <2>3. \A j \in Newlines(d, n + 1) : j <= n
    BY <1>1, <2>1
  <2>4. QED
    BY <2>1, <2>2, <2>3 DEF At
<1>3. ASSUME d[n] # "newline"
      PROVE  At(d, n + 1, l, c + 1)
  <2>1. Newlines(d, n + 1) = Newlines(d, n)
    BY <1>3 DEF Newlines
  <2>2. CASE Newlines(d, n) = {} /\ c = n
    BY <2>1, <2>2 DEF At
  <2>3. CASE \E i \in Newlines(d, n) : /\ \A j \in Newlines(d, n) : j <= i
                                       /\ c = n - i
    <3>1. PICK i \in Newlines(d, n) : /\ \A j \in Newlines(d, n) : j <= i
                                      /\ c = n - i
      BY <2>3
    <3>2. i \in Nat /\ c + 1 = (n + 1) - i
      BY <1>1, <3>1
    <3>3. QED
      BY <2>1, <3>1, <3>2 DEF At
  <2>4. QED
    BY <2>2, <2>3 DEF At
<1>4. QED
  BY <1>2, <1>3

-----------------------------------------------------------------------------
(* get_next_char and the character it leaves.                              *)

(* The part of the invariant about reading: the place counted is that of   *)
(* the character read last, and only a character can be pushed back.       *)
Source ==
  /\ doc \in Seq(Char)
  /\ current \in Char \cup {None}
  /\ count \in 0 .. Len(doc) + 1
  /\ line \in Nat /\ column \in Nat
  /\ pushback \in BOOLEAN /\ eos \in BOOLEAN
  /\ curr \in Char \cup {None, End}
  /\ eos <=> count = Len(doc) + 1
  /\ curr = End => eos
  /\ pushback \/ curr \in Char => current \in Char
  /\ count = 0 => ~pushback
  /\ 0 < count => At(doc, count, line, column)
  /\ 0 < count /\ count <= Len(doc) => current = doc[count]

LEMMA CharacterRead ==
  ASSUME Source, GetNextChar, UNCHANGED doc
  PROVE  /\ Source'
         /\ count' > 0
         /\ curr' \in Char \cup {End}
         /\ current \in Char => current' \in Char
<1>. Len(doc) \in Nat /\ doc \in [1 .. Len(doc) -> Char]
  BY LenProperties DEF Source
<1>1. CASE pushback
  <2>1. UNCHANGED <<doc, current, count, line, column, eos>> /\ pushback' = FALSE /\ curr' = current
    BY <1>1 DEF GetNextChar, Source
  <2>2. current \in Char /\ count > 0 /\ curr' # End /\ curr' # None
    BY <1>1, <2>1, EndAssumption DEF Source
  <2>3. pushback' \in BOOLEAN /\ ~pushback'
    BY <2>1
  <2>4. QED
    BY <2>1, <2>2, <2>3 DEF Source
<1>2. CASE ~pushback /\ eos
  <2>1. UNCHANGED <<doc, current, count, line, column, eos, pushback>> /\ curr' = End
    BY <1>2 DEF GetNextChar, Source
  <2>2. QED
    BY <1>2, <2>1, EndAssumption DEF Source
<1>3. CASE ~pushback /\ ~eos
  <2>1. count <= Len(doc) /\ count \in Nat /\ count' = count + 1
    BY <1>3 DEF Source, GetNextChar
  <2>2. line' \in Nat /\ column' \in Nat /\ At(doc', count', line', column')
    <3>1. CASE count = 0
      BY <1>3, <2>1, <3>1, FirstPlace DEF Source, GetNextChar
    <3>2. CASE count > 0
      <4>1. At(doc, count, line, column) /\ current = doc[count]
        BY <2>1, <3>2 DEF Source
      <4>2. /\ line' = IF current = "newline" THEN line + 1 ELSE line
            /\ column' = IF current = "newline" THEN 1 ELSE column + 1
        BY <1>3, <3>2 DEF Source, GetNextChar
      <4>3. line \in Nat /\ column \in Nat
        BY DEF Source
      <4>4. QED
        BY <2>1, <3>2, <4>1, <4>2, <4>3, NextPlace
    <3>3. QED
      BY <2>1, <3>1, <3>2
  <2>3. CASE count < Len(doc)
    <3>1. curr' = doc[count + 1] /\ current' = curr' /\ eos' = eos /\ pushback' = pushback
      BY <1>3, <2>3 DEF Source, GetNextChar
    <3>2. doc[count + 1] \in Char /\ count + 1 \in 1 .. Len(doc)
      BY <2>1, <2>3
    <3>3. QED
      BY <1>3, <2>1, <2>2, <3>1, <3>2, EndAssumption DEF Source
  <2>4. CASE count >= Len(doc)
    <3>1. curr' = End /\ current' = current /\ eos' = TRUE /\ pushback' = pushback
      BY <1>3, <2>4 DEF Source, GetNextChar
    <3>2. QED
      BY <1>3, <2>1, <2>2, <2>4, <3>1, EndAssumption DEF Source
  <2>5. QED
    BY <2>1, <2>3, <2>4
<1>4. QED
  BY <1>1, <1>2, <1>3 DEF Source

LEMMA CharacterKept ==
  ASSUME Source, NoGet, UNCHANGED doc
  PROVE  Source' /\ count' = count /\ current' = current
BY DEF Source, NoGet

LEMMA CharacterPushedBack ==
  ASSUME Source, PushBack, UNCHANGED doc, current \in Char, count > 0
  PROVE  Source' /\ count' = count /\ current' = current
BY DEF Source, PushBack

-----------------------------------------------------------------------------
(* A call of ELTN_Lexer_next_token.                                        *)

(* The part of the invariant about the token in the making and the last    *)
(* one: a token in the making has a first character, and its place is      *)
(* known.                                                                  *)
Making ==
  /\ buffer \in Seq(Char)
  /\ mode \in {"idle", "space", "bracket", "dash", "number", "name",
               "quoted", "long_string", "comment"}
  /\ prev \in Char \cup {None}
  /\ level \in Int
  /\ start \in [line : Nat, column : Nat, at : 0 .. Len(doc) + 1]
  /\ mode # "idle" => count > 0 /\ curr # None
  /\ mode \notin {"idle", "space"} =>
       current \in Char /\ At(doc, start.at, start.line, start.column)

LastOK ==
  /\ last.token \in Tokens \cup {"none"}
  /\ PlaceIsTrue

IInv == Source /\ Making /\ LastOK

LEMMA InitOK == Init => IInv
<1>. SUFFICES ASSUME Init
              PROVE  IInv
  OBVIOUS
<1>1. doc \in Seq(Char) /\ Len(doc) \in Nat
  BY DocsAssumption, LenProperties DEF Init
<1>2. <<>> \in Seq(Char)
  OBVIOUS
<1>3. Source
  <2>1. /\ count = 0 /\ line = 0 /\ column = 0
        /\ current = None /\ curr = None
        /\ ~pushback /\ pushback \in BOOLEAN /\ ~eos /\ eos \in BOOLEAN
    BY DEF Init
  <2>2. curr \notin Char /\ curr # End
    BY <2>1, EndAssumption DEF None, End
  <2>3. QED
    BY <1>1, <2>1, <2>2 DEF Source
<1>4. Making
  BY <1>1, <1>2 DEF Init, Making
<1>5. LastOK
  BY DEF Init, LastOK, PlaceIsTrue
<1>6. QED
  BY <1>3, <1>4, <1>5 DEF IInv

LEMMA AppendedType ==
  ASSUME buffer \in Seq(Char), NEW c \in Char, Appended(c)
  PROVE  buffer' \in Seq(Char)
BY DEF Appended

(* Only NextToken and Begin set where the token starts, from the place of  *)
(* the character read last.                                                *)
LEMMA ReturnOK ==
  ASSUME NEW t \in Tokens, Return(t), At(doc', start'.at, start'.line, start'.column)
  PROVE  LastOK' /\ mode' = "idle"
<1>1. last' = [token |-> t, text |-> buffer', line |-> start'.line,
               column |-> start'.column, from |-> start'.at,
               to |-> IF pushback' \/ eos' THEN count' - 1 ELSE count']
  BY DEF Return
<1>2. QED
  BY <1>1 DEF Return, LastOK, PlaceIsTrue

LEMMA EnterOK ==
  ASSUME LastOK, NEW m, Enter(m), UNCHANGED doc
  PROVE  LastOK' /\ mode' = m
BY DEF Enter, LastOK, PlaceIsTrue

LEMMA WordTokenType ==
  ASSUME NEW w
  PROVE  WordToken(w) \in Tokens /\ NumberToken(w) \in Tokens
BY DEF WordToken, NumberToken, Tokens

LEMMA MarkTokenType ==
  ASSUME NEW c \in Mark
  PROVE  MarkToken(c) \in Tokens
BY DEF MarkToken, Mark, Tokens

(* The fields a step may change keep their types. *)
Typed ==
  /\ buffer' \in Seq(Char)
  /\ prev' \in Char \cup {None}
  /\ level' \in Int
  /\ start' \in [line : Nat, column : Nat, at : 0 .. Len(doc) + 1]
  /\ doc' = doc

StartKnown == At(doc, start'.at, start'.line, start'.column)

(* A step that reads a character and goes on. *)
LEMMA GoesOn ==
  ASSUME Source, LastOK, GetNextChar, Typed, last' = last,
         mode' \in {"space", "bracket", "dash", "number", "name",
                    "quoted", "long_string", "comment"},
         mode' # "space" => current \in Char /\ StartKnown
  PROVE  IInv'
<1>1. Source' /\ count' > 0 /\ curr' \in Char \cup {End}
      /\ (current \in Char => current' \in Char)
  BY CharacterRead DEF Typed
<1>2. curr' # None
  BY <1>1, EndAssumption DEF None, End
<1>3. Making'
  BY <1>1, <1>2 DEF Making, Typed, StartKnown
<1>4. LastOK'
  BY DEF LastOK, PlaceIsTrue, Typed
<1>5. QED
  BY <1>1, <1>3, <1>4 DEF IInv

(* A step that returns a token. *)
LEMMA Returns ==
  ASSUME Source', Typed, StartKnown, NEW t \in Tokens, Return(t)
  PROVE  IInv'
<1>1. LastOK' /\ mode' = "idle"
  BY ReturnOK DEF StartKnown, Typed
<1>2. Making'
  BY <1>1 DEF Making, Typed
<1>3. QED
  BY <1>1, <1>2 DEF IInv

-----------------------------------------------------------------------------
(* Every action keeps the invariant.                                       *)

(* The place counted is that of the character read last. *)
LEMMA PlaceHere ==
  ASSUME Source, count > 0
  PROVE  /\ [line |-> line, column |-> column, at |-> count]
              \in [line : Nat, column : Nat, at : 0 .. Len(doc) + 1]
         /\ At(doc, count, line, column)
BY DEF Source

LEMMA NextTokenOK ==
  ASSUME IInv, NextToken
  PROVE  IInv'
<1>1. Source /\ Making /\ LastOK /\ GetNextChar /\ UNCHANGED <<doc, prev>>
      /\ buffer' = <<>> /\ level' = -1
  BY DEF IInv, NextToken
<1>2. Source' /\ count' > 0
  BY <1>1, CharacterRead
<1>3. buffer' \in Seq(Char) /\ level' \in Int /\ prev' \in Char \cup {None} /\ doc' = doc
  BY <1>1 DEF Making
<1>4. CASE start' = [line |-> line', column |-> column', at |-> count'] /\ Return("EOF")
  <2>1. /\ start' \in [line : Nat, column : Nat, at : 0 .. Len(doc) + 1]
        /\ At(doc, count', line', column')
    BY <1>2, <1>3, <1>4 DEF Source
  <2>2. StartKnown /\ Typed
    BY <1>3, <1>4, <2>1 DEF StartKnown, Typed
  <2>3. "EOF" \in Tokens
    BY DEF Tokens
  <2>4. QED
    BY <1>2, <1>4, <2>2, <2>3, Returns
<1>5. CASE Enter("space") /\ UNCHANGED start
  <2>1. Typed
    BY <1>1, <1>3, <1>5 DEF Typed, Making
  <2>2. QED
    BY <1>1, <1>5, <2>1, GoesOn DEF Enter
<1>6. QED
  BY <1>4, <1>5 DEF NextToken

LEMMA SkipSpaceOK ==
  ASSUME IInv, SkipSpace
  PROVE  IInv'
<1>1. Typed /\ last' = last /\ mode' = "space" /\ GetNextChar /\ Source /\ LastOK
  BY DEF IInv, SkipSpace, Typed, Making
<1>2. QED
  BY <1>1, GoesOn

LEMMA BeginOK ==
  ASSUME IInv, Begin
  PROVE  IInv'
<1>1. /\ Source /\ Making /\ LastOK
      /\ count > 0 /\ curr # None
      /\ start' = [line |-> line, column |-> column, at |-> count]
      /\ UNCHANGED <<doc, level>>
  BY DEF IInv, Begin, Making
<1>2. /\ StartKnown
      /\ start' \in [line : Nat, column : Nat, at : 0 .. Len(doc) + 1]
      /\ level' \in Int
  BY <1>1, PlaceHere DEF StartKnown, Making
<1>3. CASE NoGet /\ UNCHANGED <<buffer, prev>> /\ Return("EOF")
  <2>1. Source' /\ "EOF" \in Tokens
    BY <1>1, <1>3, CharacterKept DEF Tokens
  <2>2. Typed
    BY <1>1, <1>2, <1>3 DEF Typed, Making
  <2>3. QED
    BY <1>2, <1>3, <2>1, <2>2, Returns
<1>4. CASE curr # End /\ Appended(curr)
  <2>1. curr \in Char /\ current \in Char
    BY <1>1, <1>4 DEF Source
  <2>2. buffer' \in Seq(Char)
    BY <1>1, <1>4, <2>1, AppendedType DEF Making
  <2>3. ASSUME NEW t \in Tokens, NoGet, Return(t), UNCHANGED prev
        PROVE  IInv'
    <3>1. Typed
      BY <1>1, <1>2, <2>2, <2>3 DEF Typed, Making
    <3>2. Source'
      BY <1>1, <2>3, CharacterKept
    <3>3. QED
      BY <1>2, <2>3, <3>1, <3>2, Returns
  <2>4. ASSUME NEW m \in {"bracket", "dash", "number", "name", "quoted"},
               GetNextChar, Enter(m), UNCHANGED prev \/ prev' = curr
        PROVE  IInv'
    <3>1. Typed
      BY <1>1, <1>2, <2>1, <2>2, <2>4 DEF Typed, Making
    <3>2. mode' = m /\ last' = last
      BY <2>4 DEF Enter
    <3>3. QED
      BY <1>1, <1>2, <2>1, <2>4, <3>1, <3>2, GoesOn
  <2>5. /\ curr \in Mark => MarkToken(curr) \in Tokens
        /\ "INVALID" \in Tokens
    BY MarkTokenType DEF Tokens
  <2>6. \/ \E t \in Tokens : NoGet /\ Return(t) /\ UNCHANGED prev
        \/ \E m \in {"bracket", "dash", "number", "name", "quoted"} :
             GetNextChar /\ Enter(m) /\ (UNCHANGED prev \/ prev' = curr)
    BY <1>4, <2>5 DEF Begin
  <2>7. QED
    BY <2>3, <2>4, <2>6
<1>5. QED
  BY <1>3, <1>4 DEF Begin

(* Steps inside a token.                                                   *)
InToken == mode \notin {"idle", "space"} /\ UNCHANGED <<doc, start>>

Text == buffer' \in Seq(Char) /\ prev' \in Char \cup {None} /\ level' \in Int

LEMMA TokenGoesOn ==
  ASSUME IInv, InToken, Text, GetNextChar, last' = last,
         mode' \in {"bracket", "dash", "number", "name",
                    "quoted", "long_string", "comment"}
  PROVE  IInv'
<1>1. Source /\ LastOK /\ current \in Char /\ StartKnown /\ Typed
  BY DEF IInv, InToken, Text, Typed, Making, StartKnown
<1>2. QED
  BY <1>1, GoesOn

LEMMA TokenReturns ==
  ASSUME IInv, InToken, Text, PushBack \/ NoGet, NEW t \in Tokens, Return(t)
  PROVE  IInv'
<1>1. Source /\ LastOK /\ current \in Char /\ count > 0 /\ StartKnown /\ Typed
  BY DEF IInv, InToken, Text, Typed, Making, StartKnown
<1>2. Source'
  BY <1>1, CharacterKept, CharacterPushedBack DEF Typed
<1>3. QED
  BY <1>1, <1>2, Returns

(* A character seen inside a token, if it is not the end, is one. *)
LEMMA CharacterSeen ==
  ASSUME IInv, mode # "idle", ~eos
  PROVE  curr \in Char
BY DEF IInv, Source, Making

LEMMA ClassesAreChars ==
  NumberPart \subseteq Char /\ NamePart \subseteq Char /\ {"[", "=", "-", "."} \subseteq Char
    /\ Digit \subseteq Char
BY ClassAssumption DEF NumberPart, NamePart, Char, Mark

LEMMA BracketOK ==
  ASSUME IInv, Bracket
  PROVE  IInv'
<1>1. InToken /\ UNCHANGED prev /\ buffer \in Seq(Char) /\ prev \in Char \cup {None}
      /\ level \in Int
  BY DEF IInv, Bracket, InToken, Making
<1>2. CASE /\ curr \in {"[", "="} /\ Appended(curr)
           /\ level' = (IF curr = "[" THEN 0 ELSE -1)
           /\ GetNextChar /\ Enter("long_string")
  <2>1. Text
    BY <1>1, <1>2, AppendedType, ClassesAreChars DEF Text
  <2>2. QED
    BY <1>1, <1>2, <2>1, TokenGoesOn DEF Enter
<1>3. CASE PushBack /\ UNCHANGED <<buffer, level>> /\ Return("SQUARE_OPEN")
  <2>1. Text /\ "SQUARE_OPEN" \in Tokens
    BY <1>1, <1>3 DEF Text, Tokens
  <2>2. QED
    BY <1>1, <1>3, <2>1, TokenReturns
<1>4. QED
  BY <1>2, <1>3 DEF Bracket

LEMMA DashOK ==
  ASSUME IInv, Dash
  PROVE  IInv'
<1>1. InToken /\ UNCHANGED <<prev, level>> /\ buffer \in Seq(Char)
      /\ prev \in Char \cup {None} /\ level \in Int
  BY DEF IInv, Dash, InToken, Making
<1>2. CASE /\ curr \in Digit \cup {"-", "."} /\ Appended(curr)
           /\ GetNextChar /\ (Enter("comment") \/ Enter("number"))
  <2>1. Text
    BY <1>1, <1>2, AppendedType, ClassesAreChars DEF Text
  <2>2. QED
    BY <1>1, <1>2, <2>1, TokenGoesOn DEF Enter
<1>3. CASE PushBack /\ UNCHANGED buffer /\ Return("INVALID")
  <2>1. Text /\ "INVALID" \in Tokens
    BY <1>1, <1>3 DEF Text, Tokens
  <2>2. QED
    BY <1>1, <1>3, <2>1, TokenReturns
<1>4. QED
  BY <1>2, <1>3 DEF Dash

LEMMA NumberOK ==
  ASSUME IInv, Number
  PROVE  IInv'
<1>1. InToken /\ UNCHANGED <<prev, level>> /\ buffer \in Seq(Char)
      /\ prev \in Char \cup {None} /\ level \in Int /\ mode = "number"
  BY DEF IInv, Number, InToken, Making
<1>2. CASE curr \in NumberPart /\ Appended(curr) /\ GetNextChar /\ UNCHANGED <<mode, last>>
  <2>1. Text
    BY <1>1, <1>2, AppendedType, ClassesAreChars DEF Text
  <2>2. QED
    BY <1>1, <1>2, <2>1, TokenGoesOn
<1>3. CASE PushBack /\ UNCHANGED buffer /\ Return(NumberToken(buffer))
  <2>1. Text /\ NumberToken(buffer) \in Tokens
    BY <1>1, <1>3, WordTokenType DEF Text
  <2>2. QED
    BY <1>1, <1>3, <2>1, TokenReturns
<1>4. QED
  BY <1>2, <1>3 DEF Number

LEMMA NameOK ==
  ASSUME IInv, Name
  PROVE  IInv'
<1>1. InToken /\ UNCHANGED <<prev, level>> /\ buffer \in Seq(Char)
      /\ prev \in Char \cup {None} /\ level \in Int /\ mode = "name"
  BY DEF IInv, Name, InToken, Making
<1>2. CASE curr \in NamePart /\ Appended(curr) /\ GetNextChar /\ UNCHANGED <<mode, last>>
  <2>1. Text
    BY <1>1, <1>2, AppendedType, ClassesAreChars DEF Text
  <2>2. QED
    BY <1>1, <1>2, <2>1, TokenGoesOn
<1>3. CASE PushBack /\ UNCHANGED buffer /\ Return(WordToken(buffer))
  <2>1. Text /\ WordToken(buffer) \in Tokens
    BY <1>1, <1>3, WordTokenType DEF Text
  <2>2. QED
    BY <1>1, <1>3, <2>1, TokenReturns
<1>4. QED
  BY <1>2, <1>3 DEF Name

LEMMA QuotedOK ==
  ASSUME IInv, Quoted
  PROVE  IInv'
<1>1. InToken /\ UNCHANGED level /\ buffer \in Seq(Char)
      /\ prev \in Char \cup {None} /\ level \in Int /\ mode = "quoted"
      /\ {"STRING", "INVALID"} \subseteq Tokens
  BY DEF IInv, Quoted, InToken, Making, Tokens
<1>2. CASE NoGet /\ UNCHANGED <<buffer, prev>> /\ Return("INVALID")
  <2>1. Text
    BY <1>1, <1>2 DEF Text
  <2>2. QED
    BY <1>1, <1>2, <2>1, TokenReturns
<1>3. CASE GetNextChar /\ UNCHANGED <<buffer, prev, mode, last>>
  <2>1. Text
    BY <1>1, <1>3 DEF Text
  <2>2. QED
    BY <1>1, <1>3, <2>1, TokenGoesOn
<1>4. CASE ~eos /\ Appended(curr) /\ NoGet /\ Return("STRING") /\ UNCHANGED prev
  <2>1. Text
    BY <1>1, <1>4, CharacterSeen, AppendedType DEF Text
  <2>2. QED
    BY <1>1, <1>4, <2>1, TokenReturns
<1>5. CASE ~eos /\ Appended(curr) /\ prev' = curr /\ GetNextChar /\ UNCHANGED <<mode, last>>
  <2>1. Text
    BY <1>1, <1>5, CharacterSeen, AppendedType DEF Text
  <2>2. QED
    BY <1>1, <1>5, <2>1, TokenGoesOn
<1>6. QED
  BY <1>2, <1>3, <1>4, <1>5 DEF Quoted

(* The steps that the two loops inside long brackets have in common. *)
LEMMA LongTextType ==
  ASSUME IInv, NEW p \in Nat, mode # "idle", ~eos, AppendedIfKept, InLongBracket(p)
  PROVE  buffer' \in Seq(Char) /\ level' \in Int
<1>1. buffer \in Seq(Char) /\ level \in Int
  BY DEF IInv, Making
<1>2. buffer' \in Seq(Char)
  BY <1>1, CharacterSeen, AppendedType DEF AppendedIfKept
<1>3. level' \in Int
  BY <1>1, <1>2, LenProperties DEF InLongBracket
<1>4. QED
  BY <1>2, <1>3

LEMMA LongStringOK ==
  ASSUME IInv, LongString
  PROVE  IInv'
<1>1. InToken /\ UNCHANGED prev /\ buffer \in Seq(Char) /\ mode = "long_string"
      /\ prev \in Char \cup {None} /\ level \in Int
      /\ {"LONG_STRING", "INVALID"} \subseteq Tokens
  BY DEF IInv, LongString, InToken, Making, Tokens
<1>2. CASE NoGet /\ UNCHANGED <<buffer, level>> /\ Return("INVALID")
  <2>1. Text
    BY <1>1, <1>2 DEF Text
  <2>2. QED
    BY <1>1, <1>2, <2>1, TokenReturns
<1>3. CASE /\ ~eos /\ AppendedIfKept /\ InLongBracket(1)
           /\ \/ NoGet /\ (Return("INVALID") \/ Return("LONG_STRING"))
              \/ GetNextChar /\ UNCHANGED <<mode, last>>
  <2>1. Text
    BY <1>1, <1>3, LongTextType DEF Text
  <2>2. QED
    BY <1>1, <1>3, <2>1, TokenReturns, TokenGoesOn
<1>4. QED
  BY <1>2, <1>3 DEF LongString

LEMMA CommentOK ==
  ASSUME IInv, Comment
  PROVE  IInv'
<1>1. InToken /\ UNCHANGED prev /\ buffer \in Seq(Char) /\ mode = "comment"
      /\ prev \in Char \cup {None} /\ level \in Int
      /\ {"COMMENT", "LONG_COMMENT", "INVALID"} \subseteq Tokens
  BY DEF IInv, Comment, InToken, Making, Tokens
<1>2. CASE /\ NoGet /\ UNCHANGED <<buffer, level>>
           /\ Return(IF level >= 0 THEN "INVALID" ELSE "COMMENT")
  <2>1. Text
    BY <1>1, <1>2 DEF Text
  <2>2. QED
    BY <1>1, <1>2, <2>1, TokenReturns
<1>3. CASE /\ ~eos /\ AppendedIfKept /\ InLongBracket(3)
           /\ \/ NoGet /\ (Return("COMMENT") \/ Return("LONG_COMMENT"))
              \/ GetNextChar /\ UNCHANGED <<mode, last>>
  <2>1. Text
    BY <1>1, <1>3, LongTextType DEF Text
  <2>2. QED
    BY <1>1, <1>3, <2>1, TokenReturns, TokenGoesOn
<1>4. QED
  BY <1>2, <1>3 DEF Comment

LEMMA StutterOK ==
  ASSUME IInv, UNCHANGED vars
  PROVE  IInv'
BY DEF IInv, Source, Making, LastOK, PlaceIsTrue, vars

LEMMA StepOK == IInv /\ [Next]_vars => IInv'
BY NextTokenOK, SkipSpaceOK, BeginOK, BracketOK, DashOK, NumberOK, NameOK,
   QuotedOK, LongStringOK, CommentOK, StutterOK DEF Next

-----------------------------------------------------------------------------
(* Theorems.                                                               *)

THEOREM Invariance == Spec => []IInv
BY InitOK, StepOK, PTL DEF Spec

(* The fields of the lexer keep their types, whatever the document and     *)
(* whatever memory fails: it never counts past the end of the document.    *)
THEOREM TypeCorrect == Spec => []TypeOK
<1>1. IInv => TypeOK
  BY DEF IInv, Source, Making, LastOK, TypeOK
<1>2. QED
  BY <1>1, Invariance, PTL

(* ELTN_Lexer_next_token reports for every token the line and the column   *)
(* its first character has in the document, for the end those behind its   *)
(* last one, after any number of tokens and of characters pushed back.     *)
THEOREM PlacesAreTrue == Spec => []PlaceIsTrue
<1>1. IInv => PlaceIsTrue
  BY DEF IInv, LastOK
<1>2. QED
  BY <1>1, Invariance, PTL

=============================================================================
