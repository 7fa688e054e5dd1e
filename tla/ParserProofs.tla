---------------------------- MODULE ParserProofs ----------------------------
(***************************************************************************)
(* Proofs about Parser, for every set of documents of any length: first    *)
(* what is reported and in which order, then what language is accepted.    *)
(***************************************************************************)
EXTENDS Grammar, SequenceTheorems, FiniteSetTheorems, WellFoundedInduction, TLAPS

-----------------------------------------------------------------------------
(* The token stream.                                                       *)

LEMMA EndType ==
  ASSUME doc \in Seq(DocToken)
  PROVE  /\ Len(doc) \in Nat /\ End \in Nat /\ 1 <= End
         /\ \A p \in 1 .. End : Token(p) \in DocToken \cup {"EOF"}
<1>1. Len(doc) \in Nat /\ doc \in [1 .. Len(doc) -> DocToken]
  BY LenProperties
<1>2. QED
  BY <1>1 DEF End, Token

(* Reading never leaves the document. *)
LEMMA ReadsStays ==
  ASSUME End \in Nat, NEW p \in 1 .. End, NEW q, Reads(p, q)
  PROVE  q \in 1 .. End /\ Token(q) \notin Comment
BY DEF Reads

LEMMA AfterStays ==
  ASSUME End \in Nat, NEW q \in 1 .. End
  PROVE  After(q) \in 1 .. End /\ After(q) >= q
BY DEF After

(* Skipping semicolons stops at the first token if that is not one. *)
LEMMA SkipStays ==
  ASSUME End \in Nat, NEW q \in 1 .. End, NEW d, SkipsSemicolons(q, d),
         Token(q) \notin Comment
  PROVE  /\ d \in 1 .. End /\ d >= q
         /\ Token(q) # "SEMICOLON" => d = q
BY DEF SkipsSemicolons

-----------------------------------------------------------------------------
(* What set_event and signal_error leave behind.                           *)

(* The part of the invariant about the event and what is reported of it. *)
Report ==
  /\ event \in Event
  /\ text \in 0 .. End
  /\ string \in 0 .. End
  /\ errcode \in {"OK", "OUT_OF_MEMORY", "STREAM_END", "UNKNOWN",
                  "UNEXPECTED_TOKEN", "INVALID_TOKEN"}
  /\ errpos \in 0 .. End
  /\ ErrorHasCode
  /\ TextIsOfEvent
  /\ ErrorIsAtItsToken

(* The event ev is the one a token t is reported as. *)
Fits(ev, t) ==
  \/ t \in ScalarToken /\ ev = ScalarEventOf(t)
  \/ t \in KeyToken /\ ev = KeyEventOf(t)
  \/ t = "NAME" /\ ev \in {"DEF_NAME", "KEY_STRING"}
  \/ t = "CURLY_OPEN" /\ ev = "TABLE_START"
  \/ t = "CURLY_CLOSE" /\ ev = "TABLE_END"
  \/ t = "EOF" /\ ev = "STREAM_END"

LEMMA SetEventReports ==
  ASSUME Report, HasNext, End \in Nat, UNCHANGED doc,
         NEW q \in 1 .. End, NEW ev, Fits(ev, Token(q)), SetEvent(q, ev)
  PROVE  Report'
<1>1. End' = End /\ \A p : Token(p)' = Token(p)
  BY DEF End, Token
<1>2. errcode = "OK"
  BY DEF Report, ErrorHasCode, HasNext
<1>3. CASE event' = ev /\ string' = q /\ UNCHANGED errcode
  <2>1. ev \in Event \ {"ERROR"}
    BY DEF Fits, Event, ScalarEvent, KeyEvent, ScalarToken, KeyToken,
           ScalarEventOf, KeyEventOf
  <2>2. TextIsOfEvent'
    BY <1>1, <1>3 DEF SetEvent, TextIsOfEvent, Fits, ScalarEvent, KeyEvent,
           ScalarToken, KeyToken, ScalarEventOf, KeyEventOf
  <2>3. QED
    BY <1>1, <1>2, <1>3, <2>1, <2>2
    DEF SetEvent, Report, ErrorHasCode, ErrorIsAtItsToken
<1>4. CASE /\ event' = "ERROR" /\ errcode' = "OUT_OF_MEMORY"
           /\ string' = IF Token(q) \in {"STRING", "LONG_STRING"}
                        THEN string ELSE 0
  <2>1. string' \in 0 .. End
    BY <1>4 DEF Report
  <2>2. QED
    BY <1>1, <1>4, <2>1 DEF SetEvent, Report, ErrorHasCode, ErrorIsAtItsToken,
           TextIsOfEvent, Event, ScalarEvent, KeyEvent
<1>5. QED
  BY <1>3, <1>4 DEF SetEvent

LEMMA SignalErrorReports ==
  ASSUME End \in Nat, UNCHANGED doc, NEW q \in 1 .. End, NEW t,
         t \in {"INVALID", "EOF"} => Token(q) = t, SignalError(q, t)
  PROVE  Report'
<1>1. End' = End /\ Token(q)' = Token(q)
  BY DEF End, Token
<1>2. /\ errcode' \in {"STREAM_END", "UNKNOWN", "UNEXPECTED_TOKEN",
                       "INVALID_TOKEN"}
      /\ errcode' = "INVALID_TOKEN" => t = "INVALID"
      /\ errcode' = "STREAM_END" => t = "EOF"
  BY DEF SignalError, ErrorCode
<1>3. QED
  BY <1>1, <1>2 DEF SignalError, Report, ErrorHasCode, ErrorIsAtItsToken,
         TextIsOfEvent, Event, ScalarEvent, KeyEvent

-----------------------------------------------------------------------------
(* The invariant, and what each part of ELTN_Parser_next does to it.       *)

IInv ==
  /\ doc \in Seq(DocToken)
  /\ pos \in 1 .. End
  /\ depth \in Nat
  /\ no_defs \in BOOLEAN
  /\ Report
  /\ event = "STREAM_START" => depth = 0 /\ ~no_defs
  /\ event = "TABLE_START" => depth > 0

(* An entry's value: the events it can come to, and the depth after it. *)
ValueOutcome ==
  \/ event' = "ERROR" /\ depth' \in Nat
  \/ event' \in ScalarEvent /\ depth' = depth
  \/ event' = "TABLE_START" /\ depth' = depth + 1

EntryOutcome ==
  \/ ValueOutcome
  \/ event' \in KeyEvent /\ depth' = depth
  \/ event' = "TABLE_END" /\ depth' = depth - 1 /\ depth' \in Nat

LEMMA ScalarFits ==
  ASSUME NEW t \in ScalarToken
  PROVE  ScalarEventOf(t) \in ScalarEvent /\ Fits(ScalarEventOf(t), t)
BY DEF ScalarToken, ScalarEventOf, ScalarEvent, Fits

LEMMA KeyFits ==
  ASSUME NEW t \in KeyToken
  PROVE  KeyEventOf(t) \in KeyEvent /\ Fits(KeyEventOf(t), t)
BY DEF KeyToken, KeyEventOf, KeyEvent, Fits

LEMMA SetEventOutcome ==
  ASSUME NEW q, NEW ev, SetEvent(q, ev)
  PROVE  event' = ev \/ event' = "ERROR"
BY DEF SetEvent

LEMMA TableStartStep ==
  ASSUME IInv, HasNext, UNCHANGED doc, NEW q \in 1 .. End, ExpectTableStart(q)
  PROVE  /\ Report' /\ event' \in {"TABLE_START", "ERROR"}
         /\ depth' = depth + 1 /\ depth' \in Nat
<1>1. Report'
  BY EndType, SetEventReports DEF IInv, ExpectTableStart, Fits
<1>2. QED
  BY <1>1, SetEventOutcome DEF IInv, ExpectTableStart

LEMMA ValueStep ==
  ASSUME IInv, HasNext, UNCHANGED doc, NEW v \in 1 .. End, ExpectValue(v)
  PROVE  Report' /\ ValueOutcome
<1>1. CASE Token(v) \in ScalarToken /\ UNCHANGED depth
           /\ SetEvent(v, ScalarEventOf(Token(v)))
  <2>1. Report'
    BY <1>1, EndType, ScalarFits, SetEventReports DEF IInv
  <2>2. QED
    BY <1>1, <2>1, ScalarFits, SetEventOutcome DEF IInv, ValueOutcome
<1>2. CASE ExpectTableStart(v)
  BY <1>2, TableStartStep DEF ValueOutcome
<1>3. QED
  BY <1>1, <1>2 DEF ExpectValue

LEMMA EntryStep ==
  ASSUME IInv, HasNext, UNCHANGED doc, NEW q \in 1 .. End, EntryOrTableEnd(q)
  PROVE  Report' /\ pos' \in 1 .. End /\ EntryOutcome
<1>0. End \in Nat
  BY EndType DEF IInv
<1>1. CASE /\ Token(q) = "NAME" /\ SetEvent(q, "KEY_STRING")
           /\ pos' = After(q) /\ UNCHANGED depth
  <2>1. Report'
    BY <1>0, <1>1, SetEventReports DEF IInv, Fits
  <2>2. QED
    BY <1>0, <1>1, <2>1, SetEventOutcome, AfterStays
    DEF IInv, EntryOutcome, ValueOutcome, KeyEvent
<1>2. ASSUME NEW k \in q .. End, Token(q) = "SQUARE_OPEN", Reads(After(q), k),
             NEW c \in k .. End, Reads(After(k), c),
             BracketedKey(k, c), pos' = After(c)
      PROVE  Report' /\ pos' \in 1 .. End /\ EntryOutcome
  <2>1. k \in 1 .. End /\ c \in 1 .. End
    BY <1>0, <1>2
  <2>2. CASE Token(c) = "SQUARE_CLOSE"
    <3>1. SetEvent(k, KeyEventOf(Token(k))) /\ Token(k) \in KeyToken
      BY <1>2, <2>2 DEF BracketedKey
    <3>2. Report'
      BY <1>0, <2>1, <3>1, KeyFits, SetEventReports DEF IInv
    <3>3. QED
      BY <1>0, <1>2, <2>1, <3>1, <3>2, KeyFits, SetEventOutcome, AfterStays
      DEF IInv, BracketedKey, EntryOutcome, ValueOutcome
  <2>3. CASE Token(c) # "SQUARE_CLOSE"
    <3>1. SignalError(c, Token(c))
      BY <1>2, <2>3 DEF BracketedKey
    <3>2. Report'
      BY <1>0, <2>1, <3>1, SignalErrorReports
    <3>3. QED
      BY <1>0, <1>2, <2>1, <3>1, <3>2, AfterStays
      DEF IInv, SignalError, BracketedKey, EntryOutcome, ValueOutcome
  <2>4. QED
    BY <2>2, <2>3
<1>3. ASSUME NEW k \in q .. End, Token(q) = "SQUARE_OPEN", Reads(After(q), k),
             SignalError(k, Token(q)), pos' = After(k), UNCHANGED depth
      PROVE  Report' /\ pos' \in 1 .. End /\ EntryOutcome
  <2>1. k \in 1 .. End
    BY <1>0, <1>3
  <2>2. Report'
    BY <1>0, <1>3, <2>1, SignalErrorReports
  <2>3. QED
    BY <1>0, <1>3, <2>1, <2>2, AfterStays
    DEF IInv, SignalError, EntryOutcome, ValueOutcome
<1>4. CASE ExpectValue(q) /\ pos' = After(q)
  BY <1>0, <1>4, ValueStep, AfterStays DEF EntryOutcome
<1>5. CASE ExpectTableEnd(q) /\ pos' = After(q)
  <2>1. Report'
    BY <1>0, <1>5, SetEventReports DEF IInv, ExpectTableEnd, Fits
  <2>2. event' \in {"TABLE_END", "ERROR"}
    BY <1>5, SetEventOutcome DEF ExpectTableEnd
  <2>3. depth' = depth - 1 /\ depth' \in Nat
    BY <1>5 DEF ExpectTableEnd, IInv
  <2>4. QED
    BY <1>0, <1>5, <2>1, <2>2, <2>3, AfterStays DEF EntryOutcome, ValueOutcome
<1>6. CASE SignalError(q, Token(q)) /\ pos' = After(q) /\ UNCHANGED depth
  <2>1. Report'
    BY <1>0, <1>6, SignalErrorReports
  <2>2. QED
    BY <1>0, <1>6, <2>1, AfterStays
    DEF IInv, SignalError, EntryOutcome, ValueOutcome
<1>7. QED
  BY <1>1, <1>2, <1>3, <1>4, <1>5, <1>6 DEF EntryOrTableEnd

LEMMA DefinitionStep ==
  ASSUME IInv, HasNext, UNCHANGED doc, NEW q \in 1 .. End,
         Token(q) \notin Comment, DefinitionOrStreamEnd(q)
  PROVE  /\ Report' /\ pos' \in 1 .. End
         /\ UNCHANGED <<depth, no_defs>>
         /\ event' \in {"DEF_NAME", "STREAM_END", "ERROR"}
<1>0. End \in Nat
  BY EndType DEF IInv
<1>1. PICK d \in q .. End :
        /\ SkipsSemicolons(q, d)
        /\ pos' = After(d)
        /\ \/ Token(d) = "NAME" /\ SetEvent(d, "DEF_NAME") /\ UNCHANGED depth
           \/ Token(d) # "NAME" /\ ExpectStreamEnd(q)
           \/ /\ Token(d) # "NAME" /\ Token(q) # "EOF"
              /\ SignalError(d, Token(q))
              /\ UNCHANGED depth
  BY DEF DefinitionOrStreamEnd
<1>2. /\ d \in 1 .. End
      /\ Token(q) # "SEMICOLON" => d = q
      /\ pos' \in 1 .. End
  BY <1>0, <1>1, SkipStays, AfterStays
<1>3. CASE Token(d) = "NAME" /\ SetEvent(d, "DEF_NAME") /\ UNCHANGED depth
  <2>1. Report'
    BY <1>0, <1>2, <1>3, SetEventReports DEF IInv, Fits
  <2>2. QED
    BY <1>2, <1>3, <2>1, SetEventOutcome DEF DefinitionOrStreamEnd
<1>4. CASE ExpectStreamEnd(q)
  <2>1. Report'
    BY <1>0, <1>4, SetEventReports DEF IInv, ExpectStreamEnd, Fits
  <2>2. QED
    BY <1>2, <1>4, <2>1, SetEventOutcome
    DEF ExpectStreamEnd, DefinitionOrStreamEnd
<1>5. CASE Token(q) # "EOF" /\ SignalError(d, Token(q)) /\ UNCHANGED depth
  <2>1. Report'
    BY <1>0, <1>2, <1>5, SignalErrorReports
  <2>2. QED
    BY <1>2, <1>5, <2>1 DEF SignalError, DefinitionOrStreamEnd
<1>6. QED
  BY <1>1, <1>3, <1>4, <1>5

-----------------------------------------------------------------------------
(* The invariant is kept, and every step is one EventStream allows.        *)

LEMMA InitInv == Init => IInv
<1> SUFFICES ASSUME Init PROVE IInv
  OBVIOUS
<1>1. doc \in Seq(DocToken) /\ 0 \in 0 .. End /\ 1 \in 1 .. End
  BY DocsAssumption, EndType DEF Init
<1>2. QED
  BY <1>1 DEF Init, IInv, Report, ErrorHasCode, TextIsOfEvent,
         ErrorIsAtItsToken, Event, ScalarEvent, KeyEvent

(* What a step must establish: the invariant, with the event abstraction. *)
Good == IInv' /\ [Stream!Next]_(Stream!vars)

(* The abstract steps, by what becomes of the event and the depth. *)
LEMMA EntryRefines ==
  ASSUME IInv, HasNext, EntryOutcome, UNCHANGED no_defs,
         Stream!AtEntry
  PROVE  Stream!Next
<1>1. event # "ERROR" /\ event \notin Stream!Final
  BY DEF HasNext, Stream!Final
<1>2. CASE event' = "ERROR"
  BY <1>1, <1>2 DEF Stream!Fail, Stream!Next
<1>3. CASE event' \in ScalarEvent /\ depth' = depth
  BY <1>1, <1>3
  DEF ScalarEvent, Stream!Scalar, Stream!GiveScalar, Stream!Next
<1>4. CASE event' = "TABLE_START" /\ depth' = depth + 1
  BY <1>1, <1>4 DEF Stream!StartTable, Stream!Next
<1>5. CASE event' \in KeyEvent /\ depth' = depth
  BY <1>1, <1>5 DEF KeyEvent, Stream!Key, Stream!NameEntry, Stream!Next
<1>6. CASE event' = "TABLE_END" /\ depth' = depth - 1
  BY <1>1, <1>6 DEF Stream!EndTable, Stream!Next
<1>7. QED
  BY <1>2, <1>3, <1>4, <1>5, <1>6 DEF EntryOutcome, ValueOutcome

LEMMA ValueRefines ==
  ASSUME IInv, HasNext, ValueOutcome, UNCHANGED no_defs,
         Stream!AwaitsValue
  PROVE  Stream!Next
<1>1. event # "ERROR" /\ event \notin Stream!Final
  BY DEF HasNext, Stream!Final
<1>2. CASE event' = "ERROR"
  BY <1>1, <1>2 DEF Stream!Fail, Stream!Next
<1>3. CASE event' \in ScalarEvent /\ depth' = depth
  BY <1>1, <1>3
  DEF ScalarEvent, Stream!Scalar, Stream!GiveScalar, Stream!Next
<1>4. CASE event' = "TABLE_START" /\ depth' = depth + 1
  BY <1>1, <1>4 DEF Stream!StartTable, Stream!Next
<1>5. QED
  BY <1>2, <1>3, <1>4 DEF ValueOutcome

LEMMA TopRefines ==
  ASSUME IInv, HasNext, UNCHANGED <<depth, no_defs>>, Stream!AtTop,
         event' \in {"DEF_NAME", "STREAM_END", "ERROR"},
         event' = "DEF_NAME" => ~no_defs
  PROVE  Stream!Next
<1>1. event # "ERROR" /\ event \notin Stream!Final
  BY DEF HasNext, Stream!Final
<1>2. QED
  BY <1>1 DEF Stream!Define, Stream!EndStream, Stream!Fail, Stream!Next

(* A step that leaves the fields in range, and its report right, keeps the *)
(* invariant.                                                              *)
LEMMA KeepInv ==
  ASSUME IInv, UNCHANGED doc, Report', pos' \in 1 .. End, depth' \in Nat,
         no_defs' \in BOOLEAN, event' # "STREAM_START",
         event' = "TABLE_START" => depth' > 0
  PROVE  IInv'
BY DEF IInv, End

(* The events a step can come to are none of them the start of the stream. *)
LEMMA NotStart ==
  /\ "STREAM_START" \notin ScalarEvent \cup KeyEvent
  /\ "TABLE_START" \notin ScalarEvent \cup KeyEvent
BY DEF ScalarEvent, KeyEvent

LEMMA StepGood ==
  ASSUME IInv, ParserNext
  PROVE  Good
<1>0. End \in Nat /\ UNCHANGED doc
  BY EndType DEF IInv, ParserNext
<1>1. PICK q \in pos .. End :
        /\ Reads(pos, q)
        /\ \/ AtStreamStart(q)
           \/ AtEquals(q)
           \/ AfterTopValue(q)
           \/ AfterTableValue(q)
           \/ AtTableStart(q)
           \/ Finished(q)
  BY DEF ParserNext
<1>2. /\ q \in 1 .. End /\ Token(q) \notin Comment
      /\ After(q) \in 1 .. End
  BY <1>0, <1>1, ReadsStays, AfterStays DEF IInv
<1>3. CASE AtStreamStart(q)
  <2>1. HasNext /\ depth = 0 /\ ~no_defs /\ Stream!AtTop
    BY <1>3 DEF AtStreamStart, HasNext, IInv, Stream!AtTop
  <2>2. CASE ExpectTableStart(q) /\ pos' = After(q) /\ no_defs' = TRUE
    <3>1. /\ Report' /\ event' \in {"TABLE_START", "ERROR"}
          /\ depth' = depth + 1 /\ depth' \in Nat
      BY <1>0, <1>2, <2>1, <2>2, TableStartStep
    <3>2. IInv'
      BY <1>0, <1>2, <2>1, <2>2, <3>1, KeepInv
    <3>3. Stream!Next
      BY <1>3, <2>1, <2>2, <3>1
      DEF AtStreamStart, Stream!StartTable, Stream!Fail, Stream!Final,
          Stream!Next
    <3>4. QED
      BY <3>2, <3>3 DEF Good
  <2>3. CASE DefinitionOrStreamEnd(q)
    <3>1. /\ Report' /\ pos' \in 1 .. End
          /\ UNCHANGED <<depth, no_defs>>
          /\ event' \in {"DEF_NAME", "STREAM_END", "ERROR"}
      BY <1>0, <1>2, <2>1, <2>3, DefinitionStep
    <3>2. IInv'
      BY <1>0, <3>1, KeepInv DEF IInv
    <3>3. QED
      BY <2>1, <3>1, <3>2, TopRefines DEF Good
  <2>4. QED
    BY <1>3, <2>2, <2>3 DEF AtStreamStart
<1>4. CASE AtEquals(q)
  <2>1. /\ HasNext /\ Stream!AwaitsValue /\ UNCHANGED no_defs
    BY <1>4 DEF AtEquals, HasNext, KeyEvent, Stream!AwaitsValue, Stream!Key
  <2>2. Report' /\ pos' \in 1 .. End /\ ValueOutcome
    <3>1. CASE SignalError(q, Token(q)) /\ pos' = After(q) /\ UNCHANGED depth
      <4>1. Report'
        BY <1>0, <1>2, <3>1, SignalErrorReports
      <4>2. QED
        BY <1>2, <3>1, <4>1 DEF SignalError, ValueOutcome, IInv
    <3>2. ASSUME NEW v \in q .. End, pos' = After(v), ExpectValue(v)
          PROVE  Report' /\ pos' \in 1 .. End /\ ValueOutcome
      <4>1. v \in 1 .. End /\ After(v) \in 1 .. End
        BY <1>0, <1>2, AfterStays
      <4>2. QED
        BY <1>0, <2>1, <3>2, <4>1, ValueStep
    <3>3. ASSUME NEW v \in q .. End, pos' = After(v),
                 SignalError(v, Token(v)), UNCHANGED depth
          PROVE  Report' /\ pos' \in 1 .. End /\ ValueOutcome
      <4>1. v \in 1 .. End /\ After(v) \in 1 .. End
        BY <1>0, <1>2, AfterStays
      <4>2. Report'
        BY <1>0, <3>3, <4>1, SignalErrorReports
      <4>3. QED
        BY <3>3, <4>1, <4>2 DEF SignalError, ValueOutcome, IInv
    <3>4. QED
      BY <1>4, <3>1, <3>2, <3>3 DEF AtEquals
  <2>3. IInv'
    BY <1>0, <2>1, <2>2, KeepInv, NotStart DEF IInv, ValueOutcome
  <2>4. QED
    BY <2>1, <2>2, <2>3, ValueRefines DEF Good
<1>5. CASE AfterTopValue(q)
  <2>1. HasNext /\ Stream!AtTop /\ event # "ERROR"
    BY <1>5 DEF AfterTopValue, ValueDone, HasNext, ScalarEvent,
           Stream!AtTop, Stream!ValueDone, Stream!Scalar
  <2>2. /\ Report' /\ pos' \in 1 .. End
        /\ UNCHANGED <<depth, no_defs>>
        /\ event' \in {"DEF_NAME", "STREAM_END", "ERROR"}
        /\ event' = "DEF_NAME" => ~no_defs
    <3>1. CASE ~no_defs /\ DefinitionOrStreamEnd(q)
      BY <1>0, <1>2, <2>1, <3>1, DefinitionStep
    <3>2. CASE ExpectStreamEnd(q) /\ pos' = After(q) /\ UNCHANGED no_defs
      <4>1. Report'
        BY <1>0, <1>2, <2>1, <3>2, SetEventReports
        DEF IInv, ExpectStreamEnd, Fits
      <4>2. QED
        BY <1>2, <3>2, <4>1, SetEventOutcome DEF ExpectStreamEnd
    <3>3. CASE SignalError(q, Token(q)) /\ pos' = After(q)
               /\ UNCHANGED <<depth, no_defs>>
      <4>1. Report'
        BY <1>0, <1>2, <3>3, SignalErrorReports
      <4>2. QED
        BY <1>2, <3>3, <4>1 DEF SignalError
    <3>4. QED
      BY <1>5, <3>1, <3>2, <3>3 DEF AfterTopValue
  <2>3. IInv'
    BY <1>0, <2>2, KeepInv DEF IInv
  <2>4. QED
    BY <2>1, <2>2, <2>3, TopRefines DEF Good
<1>6. CASE AfterTableValue(q)
  <2>1. /\ HasNext /\ UNCHANGED no_defs /\ Stream!AtEntry
    BY <1>6 DEF AfterTableValue, ValueDone, HasNext, ScalarEvent,
           Stream!AtEntry, Stream!ValueDone, Stream!Scalar
  <2>2. Report' /\ pos' \in 1 .. End /\ EntryOutcome
    <3>1. ASSUME NEW e \in q .. End, EntryOrTableEnd(e)
          PROVE  Report' /\ pos' \in 1 .. End /\ EntryOutcome
      <4>1. e \in 1 .. End
        BY <1>0, <1>2
      <4>2. QED
        BY <1>0, <2>1, <3>1, <4>1, EntryStep
    <3>2. CASE ExpectTableEnd(q) /\ pos' = After(q)
      <4>1. Report'
        BY <1>0, <1>2, <2>1, <3>2, SetEventReports
        DEF IInv, ExpectTableEnd, Fits
      <4>2. event' \in {"TABLE_END", "ERROR"} /\ depth' = depth - 1
            /\ depth' \in Nat
        BY <3>2, SetEventOutcome DEF ExpectTableEnd, IInv
      <4>3. QED
        BY <1>2, <3>2, <4>1, <4>2 DEF EntryOutcome, ValueOutcome
    <3>3. CASE SignalError(q, Token(q)) /\ pos' = After(q) /\ UNCHANGED depth
      <4>1. Report'
        BY <1>0, <1>2, <3>3, SignalErrorReports
      <4>2. QED
        BY <1>2, <3>3, <4>1 DEF SignalError, EntryOutcome, ValueOutcome, IInv
    <3>4. QED
      BY <1>6, <3>1, <3>2, <3>3 DEF AfterTableValue
  <2>3. IInv'
    BY <1>0, <2>1, <2>2, KeepInv, NotStart DEF IInv, EntryOutcome, ValueOutcome
  <2>4. QED
    BY <2>1, <2>2, <2>3, EntryRefines DEF Good
<1>7. CASE AtTableStart(q)
  <2>1. /\ HasNext /\ UNCHANGED no_defs /\ Stream!AtEntry
    BY <1>7 DEF AtTableStart, HasNext, IInv, Stream!AtEntry
  <2>2. Report' /\ pos' \in 1 .. End /\ EntryOutcome
    BY <1>0, <1>2, <1>7, <2>1, EntryStep DEF AtTableStart
  <2>3. IInv'
    BY <1>0, <2>1, <2>2, KeepInv, NotStart DEF IInv, EntryOutcome, ValueOutcome
  <2>4. QED
    BY <2>1, <2>2, <2>3, EntryRefines DEF Good
<1>8. CASE Finished(q)
  <2>1. IInv'
    BY <1>0, <1>2, <1>8
    DEF Finished, IInv, End, Report, ErrorHasCode, TextIsOfEvent,
        ErrorIsAtItsToken, Token
  <2>2. UNCHANGED Stream!vars
    BY <1>8 DEF Finished, Stream!vars
  <2>3. QED
    BY <2>1, <2>2 DEF Good
<1>9. QED
  BY <1>1, <1>3, <1>4, <1>5, <1>6, <1>7, <1>8

LEMMA Step == IInv /\ [ParserNext]_vars => IInv' /\ [Stream!Next]_(Stream!vars)
<1>1. CASE UNCHANGED vars
  BY <1>1 DEF vars, IInv, End, Report, ErrorHasCode, TextIsOfEvent,
         ErrorIsAtItsToken, Token, Stream!vars
<1>2. CASE ParserNext
  BY <1>2, StepGood DEF Good
<1>3. QED
  BY <1>1, <1>2

-----------------------------------------------------------------------------
(* Where a step takes the parser in the document.                          *)

Brace == {"CURLY_OPEN", "CURLY_CLOSE"}

(* What a token does to the nesting. *)
Turn(t) == IF t = "CURLY_OPEN" THEN 1 ELSE IF t = "CURLY_CLOSE" THEN -1 ELSE 0

(* The step reads up to the token at z: its event is about one of the      *)
(* tokens read, and only the last of them can be a brace.                  *)
ReadsUpTo(z) ==
  /\ z \in pos .. End
  /\ pos' = After(z)
  /\ text' \in pos .. z
  /\ event' # "ERROR" =>
       /\ \A r \in pos .. z - 1 : Token(r) \notin Brace
       /\ depth' = depth + Turn(Token(z))
       /\ z = End => event' = "STREAM_END"

NoBraces ==
  /\ Comment \cap Brace = {}
  /\ (Comment \cup {"SEMICOLON"}) \cap Brace = {}
  /\ KeyToken \cap Brace = {}
  /\ ScalarToken \cap Brace = {}
  /\ Separator \cap Brace = {}

LEMMA OthersAreNoBraces == NoBraces
BY DEF NoBraces, Comment, Brace, KeyToken, ScalarToken, Separator

LEMMA EofAtEnd ==
  ASSUME doc \in Seq(DocToken), NEW p \in 1 .. End
  PROVE  Token(p) = "EOF" <=> p = End
<1>1. Len(doc) \in Nat /\ doc \in [1 .. Len(doc) -> DocToken]
  BY LenProperties
<1>2. "EOF" \notin DocToken
  BY DEF DocToken, Comment, ScalarToken, Separator
<1>3. QED
  BY <1>1, <1>2 DEF End, Token

(* Comments and semicolons on the way leave the nesting as it is. *)
LEMMA NothingSkipped ==
  ASSUME NEW p, NEW q
  PROVE  /\ Reads(p, q) => \A r \in p .. q - 1 : Token(r) \notin Brace
         /\ SkipsSemicolons(p, q) => \A r \in p .. q - 1 : Token(r) \notin Brace
BY OthersAreNoBraces DEF NoBraces, Reads, SkipsSemicolons

LEMMA SetEventReads ==
  ASSUME NEW z \in pos .. End, NEW q \in pos .. z, NEW ev, SetEvent(q, ev),
         pos' = After(z), \A r \in pos .. z - 1 : Token(r) \notin Brace,
         depth' = depth + Turn(Token(z)), z = End => ev = "STREAM_END"
  PROVE  ReadsUpTo(z)
BY DEF SetEvent, ReadsUpTo

LEMMA ErrorReads ==
  ASSUME NEW z \in pos .. End, NEW t, SignalError(z, t), pos' = After(z),
         pos \in Nat, End \in Nat
  PROVE  ReadsUpTo(z)
BY DEF SignalError, ReadsUpTo

(* A value ends with its token. *)
LEMMA ValueReads ==
  ASSUME IInv, NEW v \in pos .. End, ExpectValue(v), pos' = After(v),
         \A r \in pos .. v - 1 : Token(r) \notin Brace
  PROVE  ReadsUpTo(v)
<1>0. End \in Nat /\ v \in 1 .. End /\ pos \in 1 .. End /\ depth \in Nat
  BY EndType DEF IInv
<1>1. Token(v) \in ScalarToken \cup {"CURLY_OPEN"} => v # End
  BY <1>0, EofAtEnd DEF IInv, ScalarToken
<1>2. CASE /\ Token(v) \in ScalarToken
           /\ SetEvent(v, ScalarEventOf(Token(v))) /\ UNCHANGED depth
  <2>1. Turn(Token(v)) = 0
    BY <1>2, OthersAreNoBraces DEF NoBraces, Brace, Turn
  <2>2. QED
    BY <1>0, <1>1, <1>2, <2>1, SetEventReads
<1>3. CASE ExpectTableStart(v)
  BY <1>0, <1>1, <1>3, SetEventReads DEF ExpectTableStart, Turn
<1>4. QED
  BY <1>2, <1>3 DEF ExpectValue

(* So does the end of a table. *)
LEMMA TableEndReads ==
  ASSUME IInv, NEW q \in pos .. End, ExpectTableEnd(q), pos' = After(q),
         \A r \in pos .. q - 1 : Token(r) \notin Brace
  PROVE  ReadsUpTo(q)
<1>0. End \in Nat /\ q \in 1 .. End /\ pos \in 1 .. End /\ depth \in Nat
  BY EndType DEF IInv
<1>1. q # End
  BY <1>0, EofAtEnd DEF IInv, ExpectTableEnd
<1>2. QED
  BY <1>0, <1>1, SetEventReads DEF ExpectTableEnd, Turn

LEMMA StreamEndReads ==
  ASSUME IInv, NEW q \in pos .. End, ExpectStreamEnd(q), pos' = After(q),
         \A r \in pos .. q - 1 : Token(r) \notin Brace
  PROVE  ReadsUpTo(q)
<1>0. End \in Nat /\ pos \in 1 .. End /\ depth \in Nat
  BY EndType DEF IInv
<1>1. QED
  BY <1>0, SetEventReads DEF ExpectStreamEnd, Turn

(* An entry ends with its name, its value, its table's end or, if its key  *)
(* is in brackets, with the bracket behind the key.                        *)
LEMMA EntryReads ==
  ASSUME IInv, NEW q \in pos .. End, EntryOrTableEnd(q),
         \A r \in pos .. q - 1 : Token(r) \notin Brace
  PROVE  \E z : ReadsUpTo(z)
<1>0. End \in Nat /\ pos \in 1 .. End /\ depth \in Nat /\ q \in 1 .. End
      /\ After(q) \in 1 .. End
  BY EndType, AfterStays DEF IInv
<1>1. CASE /\ Token(q) = "NAME" /\ SetEvent(q, "KEY_STRING")
           /\ pos' = After(q) /\ UNCHANGED depth
  <2>1. q # End
    BY <1>0, <1>1, EofAtEnd DEF IInv
  <2>2. QED
    BY <1>0, <1>1, <2>1, SetEventReads DEF Turn
<1>2. ASSUME NEW k \in q .. End, Token(q) = "SQUARE_OPEN", Reads(After(q), k),
             NEW c \in k .. End, Reads(After(k), c),
             BracketedKey(k, c), pos' = After(c)
      PROVE  ReadsUpTo(c)
  <2>1. q # End /\ k # End
    BY <1>0, <1>2, EofAtEnd DEF IInv, BracketedKey, KeyToken
  <2>2. k \in q + 1 .. End /\ c \in k + 1 .. End
    BY <1>0, <1>2, <2>1 DEF Reads, After
  <2>3. \A r \in pos .. c - 1 : Token(r) \notin Brace
    <3>1. Token(q) \notin Brace /\ Token(k) \notin Brace
      BY <1>2, OthersAreNoBraces DEF BracketedKey, NoBraces, Brace
    <3>2. /\ \A r \in q + 1 .. k - 1 : Token(r) \notin Brace
          /\ \A r \in k + 1 .. c - 1 : Token(r) \notin Brace
      BY <1>0, <1>2, <2>1, <2>2, NothingSkipped DEF After
    <3>3. QED
      BY <1>0, <2>2, <3>1, <3>2
  <2>4. CASE Token(c) = "SQUARE_CLOSE"
    <3>1. c # End
      BY <1>0, <2>2, <2>4, EofAtEnd DEF IInv
    <3>2. SetEvent(k, KeyEventOf(Token(k))) /\ UNCHANGED depth
      BY <1>2, <2>4 DEF BracketedKey
    <3>3. QED
      BY <1>0, <1>2, <2>2, <2>3, <2>4, <3>1, <3>2, SetEventReads DEF Turn
  <2>5. CASE Token(c) # "SQUARE_CLOSE"
    BY <1>0, <1>2, <2>2, <2>5, ErrorReads DEF BracketedKey
  <2>6. QED
    BY <2>4, <2>5
<1>3. ASSUME NEW k \in q .. End, SignalError(k, Token(q)), pos' = After(k)
      PROVE  ReadsUpTo(k)
  BY <1>0, <1>3, ErrorReads
<1>4. CASE ExpectValue(q) /\ pos' = After(q)
  BY <1>4, ValueReads
<1>5. CASE ExpectTableEnd(q) /\ pos' = After(q)
  BY <1>5, TableEndReads
<1>6. CASE SignalError(q, Token(q)) /\ pos' = After(q)
  BY <1>0, <1>6, ErrorReads
<1>7. QED
  BY <1>1, <1>2, <1>3, <1>4, <1>5, <1>6 DEF EntryOrTableEnd

(* A definition ends with its name, however many semicolons precede it;    *)
(* the end of the stream is found before any of them.                      *)
LEMMA DefinitionReads ==
  ASSUME IInv, NEW q \in pos .. End, DefinitionOrStreamEnd(q),
         \A r \in pos .. q - 1 : Token(r) \notin Brace
  PROVE  \E z : ReadsUpTo(z)
<1>0. End \in Nat /\ pos \in 1 .. End /\ depth \in Nat /\ q \in 1 .. End
  BY EndType DEF IInv
<1>1. PICK d \in q .. End :
        /\ SkipsSemicolons(q, d)
        /\ pos' = After(d)
        /\ \/ Token(d) = "NAME" /\ SetEvent(d, "DEF_NAME") /\ UNCHANGED depth
           \/ ExpectStreamEnd(q)
           \/ SignalError(d, Token(q))
  BY DEF DefinitionOrStreamEnd
<1>2. \A r \in pos .. d - 1 : Token(r) \notin Brace
  <2>1. \A r \in q .. d - 1 : Token(r) \notin Brace
    BY <1>1, NothingSkipped
  <2>2. QED
    BY <1>0, <2>1
<1>3. CASE Token(d) = "NAME" /\ SetEvent(d, "DEF_NAME") /\ UNCHANGED depth
  <2>1. d # End
    BY <1>0, <1>3, EofAtEnd DEF IInv
  <2>2. QED
    BY <1>0, <1>1, <1>2, <1>3, <2>1, SetEventReads DEF Turn
<1>4. CASE ExpectStreamEnd(q)
  <2>1. d = q
    BY <1>0, <1>4, EofAtEnd DEF IInv, ExpectStreamEnd
  <2>2. QED
    BY <1>1, <1>4, <2>1, StreamEndReads
<1>5. CASE SignalError(d, Token(q))
  BY <1>0, <1>1, <1>5, ErrorReads
<1>6. QED
  BY <1>1, <1>3, <1>4, <1>5

LEMMA NextReads ==
  ASSUME IInv, HasNext, ParserNext
  PROVE  \E z : ReadsUpTo(z)
<1>0. End \in Nat /\ pos \in 1 .. End /\ depth \in Nat
  BY EndType DEF IInv
<1>1. PICK q \in pos .. End :
        /\ Reads(pos, q)
        /\ \/ AtStreamStart(q)
           \/ AtEquals(q)
           \/ AfterTopValue(q)
           \/ AfterTableValue(q)
           \/ AtTableStart(q)
  BY DEF ParserNext, Finished, HasNext
<1>2. /\ q \in 1 .. End
      /\ \A r \in pos .. q - 1 : Token(r) \notin Brace
  BY <1>0, <1>1, NothingSkipped
<1>3. CASE AtStreamStart(q)
  <2>1. CASE ExpectTableStart(q) /\ pos' = After(q)
    BY <1>2, <2>1, ValueReads DEF ExpectValue
  <2>2. CASE DefinitionOrStreamEnd(q)
    BY <1>2, <2>2, DefinitionReads
  <2>3. QED
    BY <1>3, <2>1, <2>2 DEF AtStreamStart
<1>4. CASE AtEquals(q)
  <2>1. CASE SignalError(q, Token(q)) /\ pos' = After(q)
    BY <1>0, <2>1, ErrorReads
  <2>2. ASSUME Token(q) = "EQUALS",
               NEW v \in q .. End, Reads(After(q), v), pos' = After(v),
               ExpectValue(v) \/ SignalError(v, Token(v))
        PROVE  ReadsUpTo(v)
    <3>1. q # End
      BY <1>2, <2>2, EofAtEnd DEF IInv
    <3>2. \A r \in pos .. v - 1 : Token(r) \notin Brace
      <4>1. \A r \in q + 1 .. v - 1 : Token(r) \notin Brace
        BY <1>0, <1>2, <2>2, <3>1, NothingSkipped DEF After
      <4>2. QED
        BY <1>0, <1>2, <2>2, <4>1 DEF Brace
    <3>3. QED
      BY <1>0, <1>2, <2>2, <3>2, ValueReads, ErrorReads
  <2>3. QED
    BY <1>4, <2>1, <2>2 DEF AtEquals
<1>5. CASE AfterTopValue(q)
  <2>1. CASE DefinitionOrStreamEnd(q)
    BY <1>2, <2>1, DefinitionReads
  <2>2. CASE ExpectStreamEnd(q) /\ pos' = After(q)
    BY <1>2, <2>2, StreamEndReads
  <2>3. CASE SignalError(q, Token(q)) /\ pos' = After(q)
    BY <1>0, <2>3, ErrorReads
  <2>4. QED
    BY <1>5, <2>1, <2>2, <2>3 DEF AfterTopValue
<1>6. CASE AfterTableValue(q)
  <2>1. ASSUME Token(q) \in Separator,
               NEW e \in q .. End, Reads(After(q), e), EntryOrTableEnd(e)
        PROVE  \E z : ReadsUpTo(z)
    <3>1. q # End
      BY <1>2, <2>1, EofAtEnd DEF IInv, Separator
    <3>2. \A r \in pos .. e - 1 : Token(r) \notin Brace
      <4>1. \A r \in q + 1 .. e - 1 : Token(r) \notin Brace
        BY <1>0, <1>2, <2>1, <3>1, NothingSkipped DEF After
      <4>2. QED
        BY <1>0, <1>2, <2>1, <4>1 DEF Brace, Separator
    <3>3. QED
      BY <1>0, <1>2, <2>1, <3>2, EntryReads
  <2>2. CASE ExpectTableEnd(q) /\ pos' = After(q)
    BY <1>2, <2>2, TableEndReads
  <2>3. CASE SignalError(q, Token(q)) /\ pos' = After(q)
    BY <1>0, <2>3, ErrorReads
  <2>4. QED
    BY <1>6, <2>1, <2>2, <2>3 DEF AfterTableValue
<1>7. CASE AtTableStart(q)
  BY <1>2, <1>7, EntryReads DEF AtTableStart
<1>8. QED
  BY <1>1, <1>3, <1>4, <1>5, <1>6, <1>7

-----------------------------------------------------------------------------
(* The nesting, by the braces behind the parser.                           *)

LEMMA SeenFinite ==
  ASSUME doc \in Seq(DocToken), pos \in 1 .. End, NEW t
  PROVE  IsFiniteSet(Seen(t)) /\ Cardinality(Seen(t)) \in Nat
<1>1. End \in Nat
  BY EndType
<1>2. IsFiniteSet(1 .. pos - 1)
  BY <1>1, FS_Interval
<1>3. IsFiniteSet(Seen(t))
  BY <1>2, FS_Subset DEF Seen
<1>4. QED
  BY <1>3, FS_CardinalityType

(* Of the braces, a step that only ends with one has seen that one more. *)
LEMMA SeenGrows ==
  ASSUME doc \in Seq(DocToken), UNCHANGED doc, pos \in 1 .. End,
         NEW z \in pos .. End, pos' = After(z),
         \A r \in pos .. z - 1 : Token(r) \notin Brace, NEW t \in Brace
  PROVE  Cardinality(Seen(t)') = Cardinality(Seen(t))
                                   + IF Token(z) = t THEN 1 ELSE 0
<1>1. End \in Nat /\ Len(doc) \in Nat /\ End = Len(doc) + 1 /\ z \in 1 .. End
  BY EndType DEF End
<1>2. \A p \in 1 .. z - 1 : Token(p) = doc[p]
  BY <1>1 DEF Token
<1>3. CASE Token(z) = t
  <2>1. z # End /\ doc[z] = t
    BY <1>1, <1>3 DEF Token, Brace
  <2>2. pos' = z + 1
    BY <1>1, <2>1 DEF After
  <2>3. Seen(t)' = Seen(t) \cup {z} /\ z \notin Seen(t)
    BY <1>1, <1>2, <2>1, <2>2 DEF Seen
  <2>4. QED
    BY <1>3, <2>3, SeenFinite, FS_AddElement
<1>4. CASE Token(z) # t
  <2>1. z # End => doc[z] # t
    BY <1>1, <1>4 DEF Token
  <2>2. pos' = IF z = End THEN z ELSE z + 1
    BY <1>1 DEF After
  <2>3. Seen(t)' = Seen(t)
    BY <1>1, <1>2, <2>1, <2>2 DEF Seen
  <2>4. QED
    BY <1>4, <2>3, SeenFinite
<1>5. QED
  BY <1>3, <1>4

(***************************************************************************)
(* The inductive invariant of the nesting.  A parser that can go on stands *)
(* behind the token of its event; one that has come to the end of the      *)
(* stream stays there, so that the tokens it reads from then on are none   *)
(* of the document's.                                                      *)
(***************************************************************************)
NestInv ==
  /\ HasNext => text < pos
  /\ event = "STREAM_END" => pos = End
  /\ DepthIsNesting

LEMMA InitNest == Init => NestInv
<1> SUFFICES ASSUME Init PROVE NestInv
  OBVIOUS
<1>1. doc \in Seq(DocToken)
  BY DocsAssumption DEF Init
<1>2. \A t : Seen(t) = {}
  BY DEF Init, Seen
<1>3. QED
  BY <1>2, FS_EmptySet DEF Init, NestInv, HasNext, DepthIsNesting

LEMMA NestKept == IInv /\ IInv' /\ NestInv /\ [ParserNext]_vars => NestInv'
<1> SUFFICES ASSUME IInv, IInv', NestInv, [ParserNext]_vars
             PROVE  NestInv'
  OBVIOUS
<1>0. /\ End \in Nat /\ pos \in 1 .. End /\ depth \in Nat
      /\ doc \in Seq(DocToken)
  BY EndType DEF IInv
<1>1. CASE UNCHANGED vars
  BY <1>1 DEF vars, NestInv, HasNext, DepthIsNesting, Seen, End
<1>2. CASE ParserNext /\ ~HasNext
  <2>1. PICK q \in pos .. End : Finished(q)
    BY <1>2 DEF ParserNext, HasNext, AtStreamStart, AtEquals, AfterTopValue,
           AfterTableValue, AtTableStart, ValueDone, ScalarEvent, KeyEvent
  <2>2. UNCHANGED <<event, depth, doc>> /\ End' = End
    BY <1>2, <2>1 DEF Finished, ParserNext, End
  <2>3. event = "STREAM_END" => pos' = pos
    BY <1>0, <2>1 DEF Finished, After, NestInv
  <2>4. QED
    BY <1>2, <2>2, <2>3 DEF NestInv, HasNext, DepthIsNesting, Seen
<1>3. CASE ParserNext /\ HasNext
  <2>1. PICK z : ReadsUpTo(z)
    BY <1>3, NextReads
  <2>2. z \in pos .. End /\ pos' = After(z) /\ text' \in pos .. z
    BY <2>1 DEF ReadsUpTo
  <2>3. doc' = doc /\ End' = End /\ \A p : Token(p)' = Token(p)
    BY <1>3 DEF ParserNext, End, Token
  <2>4. HasNext' => text' < pos'
    BY <1>0, <2>1, <2>2 DEF ReadsUpTo, HasNext, After
  <2>5. event' = "STREAM_END" => pos' = End'
    <3>1. ASSUME event' = "STREAM_END" PROVE Token(text') = "EOF"
      BY <2>3, <3>1 DEF IInv, Report, TextIsOfEvent
    <3>2. event' = "STREAM_END" => z = End
      BY <1>0, <2>2, <3>1, EofAtEnd
    <3>3. QED
      BY <1>0, <2>2, <2>3, <3>2 DEF After
  <2>6. DepthIsNesting'
    <3> SUFFICES ASSUME event' # "ERROR"
                 PROVE  Cardinality(Seen("CURLY_OPEN")') =
                          Cardinality(Seen("CURLY_CLOSE")') + depth'
      BY DEF DepthIsNesting
    <3>1. /\ \A r \in pos .. z - 1 : Token(r) \notin Brace
          /\ depth' = depth + Turn(Token(z))
      BY <2>1 DEF ReadsUpTo
    <3>2. /\ Cardinality(Seen("CURLY_OPEN")') = Cardinality(Seen("CURLY_OPEN"))
               + IF Token(z) = "CURLY_OPEN" THEN 1 ELSE 0
          /\ Cardinality(Seen("CURLY_CLOSE")') = Cardinality(Seen("CURLY_CLOSE"))
               + IF Token(z) = "CURLY_CLOSE" THEN 1 ELSE 0
      BY <1>0, <2>2, <2>3, <3>1, SeenGrows DEF Brace
    <3>3. /\ Cardinality(Seen("CURLY_OPEN")) =
               Cardinality(Seen("CURLY_CLOSE")) + depth
          /\ Cardinality(Seen("CURLY_OPEN")) \in Nat
          /\ Cardinality(Seen("CURLY_CLOSE")) \in Nat
      BY <1>0, <1>3, SeenFinite DEF NestInv, DepthIsNesting, HasNext
    <3>4. QED
      BY <1>0, <3>1, <3>2, <3>3 DEF Turn
  <2>7. QED
    BY <2>4, <2>5, <2>6 DEF NestInv
<1>4. QED
  BY <1>1, <1>2, <1>3

LEMMA NestInvariant == Spec => [](IInv /\ NestInv)
BY InitInv, Step, InitNest, NestKept, PTL DEF Spec

-----------------------------------------------------------------------------
(* The fields of the parser keep their ranges; depth, an unsigned int in   *)
(* the code, is never taken below zero.                                    *)
THEOREM TypeCorrect == Spec => []TypeOK
<1>1. Spec => []IInv
  BY InitInv, Step, PTL DEF Spec
<1>2. IInv => TypeOK
  BY DEF IInv, Report, TypeOK
<1>3. QED
  BY <1>1, <1>2, PTL

(* An error event comes with an error code and no other event does. *)
THEOREM ErrorsHaveCodes == Spec => []ErrorHasCode
<1>1. Spec => []IInv
  BY InitInv, Step, PTL DEF Spec
<1>2. IInv => ErrorHasCode
  BY DEF IInv, Report
<1>3. QED
  BY <1>1, <1>2, PTL

(* The text and the string of an event are its own token's. *)
THEOREM TextsAreOfEvents == Spec => []TextIsOfEvent
<1>1. Spec => []IInv
  BY InitInv, Step, PTL DEF Spec
<1>2. IInv => TextIsOfEvent
  BY DEF IInv, Report
<1>3. QED
  BY <1>1, <1>2, PTL

(* An error is placed at the token that its code is about. *)
THEOREM ErrorsAreAtTheirTokens == Spec => []ErrorIsAtItsToken
<1>1. Spec => []IInv
  BY InitInv, Step, PTL DEF Spec
<1>2. IInv => ErrorIsAtItsToken
  BY DEF IInv, Report
<1>3. QED
  BY <1>1, <1>2, PTL

(* ELTN_Parser_depth is the number of braces of the document read so far   *)
(* that are still open, for any depth and whatever is read to look ahead.  *)
THEOREM DepthsAreNesting == Spec => []DepthIsNesting
<1>1. IInv /\ NestInv => DepthIsNesting
  BY DEF NestInv
<1>2. QED
  BY <1>1, NestInvariant, PTL

(* Every call of ELTN_Parser_next that has something to report moves on in *)
(* the document: no token is the text of two events.                       *)
THEOREM EventsMoveOn == Spec => EventsMoveForward
<1>1. ASSUME IInv, NestInv, [ParserNext]_vars
      PROVE  [HasNext => text' > text /\ pos' >= text']_vars
  <2> SUFFICES ASSUME HasNext, ParserNext
               PROVE  text' > text /\ pos' >= text'
    BY <1>1
  <2>1. End \in Nat /\ pos \in 1 .. End /\ text \in 0 .. End /\ text < pos
    BY <1>1, EndType DEF IInv, Report, NestInv
  <2>2. PICK z : ReadsUpTo(z)
    BY <1>1, NextReads
  <2>3. QED
    BY <2>1, <2>2 DEF ReadsUpTo, After
<1>2. QED
  BY <1>1, NestInvariant, PTL DEF Spec, EventsMoveForward

(* For every document, however long and deep, ELTN_Parser_next reports     *)
(* events in an order EventStream allows.                                  *)
THEOREM RefinesEventStream == Spec => ImplementsEventStream
<1>1. Init => Stream!Init
  BY DEF Init, Stream!Init
<1>2. QED
  BY <1>1, InitInv, Step, PTL DEF Spec, ImplementsEventStream, Stream!Spec

-----------------------------------------------------------------------------
(* Recursive definitions.  Those of Grammar give a value for a place from  *)
(* those for later places, and have a solution for that reason; the last   *)
(* lemma is about values for 0, 1, 2 ... each given by the one before.     *)

(* A set with 0 and the successor of each of its numbers has them all.     *)
LEMMA Induction ==
  ASSUME NEW T, 0 \in T, \A n \in Nat : n \in T => n + 1 \in T
  PROVE  Nat \subseteq T
<1> DEFINE R == OpToRel(<, Nat)
           W == Nat \ T
<1>1. IsWellFoundedOn(R, Nat)
  BY NatLessThanWellFounded DEF OpToRel
<1>2. SUFFICES ASSUME W # {} PROVE FALSE
  OBVIOUS
<1>3. W \subseteq Nat
  OBVIOUS
<1> HIDE DEF R, W
<1>4. PICK x \in W : \A y \in W : <<y, x>> \notin R
  BY <1>1, <1>2, <1>3, WFMin
<1> USE DEF W
<1>5. x \in Nat /\ x # 0
  BY <1>4
<1>6. x - 1 \in Nat /\ x - 1 \in W
  BY <1>5, <1>4
<1>7. <<x - 1, x>> \in R
  BY <1>5, <1>6 DEF R, OpToRel
<1>. QED BY <1>4, <1>6, <1>7

(* F gives the value at a place from the values at the later ones.         *)
UsesLater(F, n, X) ==
  /\ F \in [(1 .. n) \X [1 .. n -> X] -> X]
  /\ \A p \in 1 .. n : \A f, g \in [1 .. n -> X] :
       (\A q \in p + 1 .. n : f[q] = g[q]) => F[<<p, f>>] = F[<<p, g>>]

Solved(F, n, X) == \E f \in [1 .. n -> X] : \A p \in 1 .. n : f[p] = F[<<p, f>>]

(* Equations of this kind have a solution.                                 *)
LEMMA Solution ==
  ASSUME NEW n \in Nat, NEW X, X # {}, NEW F, UsesLater(F, n, X)
  PROVE  Solved(F, n, X)
<1>0. F \in [(1 .. n) \X [1 .. n -> X] -> X]
  BY DEF UsesLater
<1> PICK x0 \in X : TRUE
  OBVIOUS
<1> DEFINE From(k) == {p \in 1 .. n : p > n - k}
           T == {k \in Nat : \E f \in [1 .. n -> X] : \A p \in From(k) : f[p] = F[<<p, f>>]}
<1>1. 0 \in T
  <2>1. [p \in 1 .. n |-> x0] \in [1 .. n -> X] /\ From(0) = {}
    OBVIOUS
  <2>2. QED
    BY <2>1
<1>2. ASSUME NEW k \in Nat, k \in T PROVE k + 1 \in T
  <2>1. PICK f \in [1 .. n -> X] : \A p \in From(k) : f[p] = F[<<p, f>>]
    BY <1>2
  <2>2. CASE n - k < 1
    <3>1. From(k + 1) = From(k)
      BY <2>2
    <3> HIDE DEF From
    <3>2. \A p \in From(k + 1) : f[p] = F[<<p, f>>]
      BY <2>1, <3>1
    <3>3. QED
      BY <3>2
  <2>3. CASE n - k >= 1
    <3> DEFINE o == n - k
               g == [f EXCEPT ![o] = F[<<o, f>>]]
    <3>1. o \in 1 .. n /\ From(k + 1) = From(k) \cup {o}
      BY <2>3
    <3>2. F[<<o, f>>] \in X
      BY <1>0, <3>1
    <3>3. g \in [1 .. n -> X] /\ g[o] = F[<<o, f>>] /\ \A q \in 1 .. n : q # o => g[q] = f[q]
      BY <3>1, <3>2
    <3>4. \A q \in o + 1 .. n : q \in 1 .. n /\ q # o
      BY <3>1
    <3> HIDE DEF g
    <3>5. ASSUME NEW p \in From(k + 1) PROVE g[p] = F[<<p, g>>]
      <4>1. p \in 1 .. n /\ p >= o
        BY <3>1, <3>5
      <4>2. \A q \in p + 1 .. n : f[q] = g[q]
        BY <3>1, <3>3, <4>1
      <4>3. F[<<p, f>>] = F[<<p, g>>]
        BY <3>3, <4>1, <4>2 DEF UsesLater
      <4>4. g[p] = F[<<p, f>>]
        <5>1. CASE p = o
          BY <3>3, <5>1
        <5>2. CASE p # o
          BY <2>1, <3>1, <3>3, <3>5, <4>1, <5>2
        <5>3. QED
          BY <5>1, <5>2
      <4>5. QED
        BY <4>3, <4>4
    <3>6. QED
      BY <3>3, <3>5
  <2>4. n - k < 1 \/ n - k >= 1
    OBVIOUS
  <2> HIDE DEF T
  <2>5. QED
    BY <2>2, <2>3, <2>4
<1>3. n \in T
  <2> HIDE DEF T
  <2>1. QED
    BY <1>1, <1>2, Induction
<1>4. From(n) = 1 .. n
  OBVIOUS
<1>5. QED
  BY <1>3, <1>4 DEF Solved

(* A function that is given at 0 and at n + 1 by its value at n exists.    *)
LEMMA Iteration ==
  ASSUME NEW X, NEW x0 \in X, NEW F \in [X -> X]
  PROVE  \E g \in [Nat -> X] : g[0] = x0 /\ \A n \in Nat : g[n + 1] = F[g[n]]
<1> DEFINE Runs(g, n) == g[0] = x0 /\ \A i \in 0 .. n - 1 : g[i + 1] = F[g[i]]
<1>1. \A n \in Nat : \E g \in [Nat -> X] : Runs(g, n)
  <2> DEFINE T == {n \in Nat : \E g \in [Nat -> X] : Runs(g, n)}
  <2>1. 0 \in T
    <3>1. [i \in Nat |-> x0] \in [Nat -> X] /\ Runs([i \in Nat |-> x0], 0)
      OBVIOUS
    <3>2. QED
      BY <3>1
  <2>2. ASSUME NEW n \in Nat, n \in T PROVE n + 1 \in T
    <3>1. PICK g \in [Nat -> X] : Runs(g, n)
      BY <2>2
    <3> DEFINE h == [g EXCEPT ![n + 1] = F[g[n]]]
    <3>2. /\ h \in [Nat -> X] /\ h[n + 1] = F[g[n]]
          /\ \A i \in 0 .. n : h[i] = g[i]
      OBVIOUS
    <3> HIDE DEF h
    <3>3. ASSUME NEW i \in 0 .. n PROVE h[i + 1] = F[h[i]]
      <4>1. CASE i = n
        BY <3>2, <4>1
      <4>2. CASE i # n
        <5>1. i \in 0 .. n - 1 /\ i + 1 \in 0 .. n
          BY <4>2
        <5>2. g[i + 1] = F[g[i]]
          BY <3>1, <5>1
        <5>3. QED
          BY <3>2, <5>1, <5>2
      <4>3. QED
        BY <4>1, <4>2
    <3>4. Runs(h, n + 1)
      BY <3>1, <3>2, <3>3
    <3>5. QED
      BY <3>2, <3>4
  <2>3. Nat \subseteq T
    <3> HIDE DEF T
    <3>1. QED
      BY <2>1, <2>2, Induction
  <2>4. QED
    BY <2>3
<1> DEFINE At(n) == CHOOSE g \in [Nat -> X] : Runs(g, n)
<1>2. \A n \in Nat : At(n) \in [Nat -> X] /\ Runs(At(n), n)
  BY <1>1
<1> HIDE DEF At
<1>3. ASSUME NEW n \in Nat PROVE At(n + 1)[n] = At(n)[n]
  <2> DEFINE T == {i \in Nat : i <= n => At(n + 1)[i] = At(n)[i]}
  <2>0. /\ At(n)[0] = x0 /\ \A i \in 0 .. n - 1 : At(n)[i + 1] = F[At(n)[i]]
        /\ At(n + 1)[0] = x0 /\ \A i \in 0 .. n : At(n + 1)[i + 1] = F[At(n + 1)[i]]
    <3>1. n + 1 \in Nat /\ 0 .. (n + 1) - 1 = 0 .. n
      OBVIOUS
    <3>2. QED
      BY <1>2, <3>1
  <2>1. 0 \in T
    BY <2>0
  <2>2. ASSUME NEW i \in Nat, i \in T PROVE i + 1 \in T
    <3> SUFFICES ASSUME i + 1 <= n PROVE At(n + 1)[i + 1] = At(n)[i + 1]
      OBVIOUS
    <3>1. i \in 0 .. n - 1 /\ i \in 0 .. n /\ At(n + 1)[i] = At(n)[i]
      BY <2>2
    <3>2. QED
      BY <2>0, <3>1
  <2>3. n \in T
    <3> HIDE DEF T
    <3>1. QED
      BY <2>1, <2>2, Induction
  <2>4. QED
    BY <2>3
<1> DEFINE h == [n \in Nat |-> At(n)[n]]
<1>4. h \in [Nat -> X] /\ h[0] = x0
  BY <1>2
<1>5. ASSUME NEW n \in Nat PROVE h[n + 1] = F[h[n]]
  <2>1. n + 1 \in Nat /\ n \in 0 .. (n + 1) - 1
    OBVIOUS
  <2>2. At(n + 1)[n + 1] = F[At(n + 1)[n]]
    BY <1>2, <2>1
  <2>3. QED
    BY <1>3, <2>1, <2>2
<1> HIDE DEF h
<1>6. QED
  BY <1>4, <1>5

-----------------------------------------------------------------------------
(* Where the parts of a document end.                                      *)

Places(s) == 1 .. Len(s) + 1

LEMMA PastIsLater ==
  ASSUME NEW s, Len(s) \in Nat, DOMAIN s = 1 .. Len(s), NEW p \in Places(s),
         NEW P \in SUBSET (p .. Len(s) + 1), NEW Skipped, NEW T
  PROVE  Past(s, P, Skipped, T) \subseteq p + 1 .. Len(s) + 1
<1> SUFFICES ASSUME NEW q \in 1 .. Len(s), NEW b \in P, b <= q
             PROVE  q + 1 \in p + 1 .. Len(s) + 1
  BY DEF Past
<1>1. QED
  BY DEF Places

(* Lists of entries that begin behind p end where they begin or later. *)
Onward(s, lists, p) == \A a \in p + 1 .. Len(s) + 1 : lists[a] \subseteq a .. Len(s) + 1

(* All other parts end later than they begin. *)
LEMMA EndsAreLater ==
  ASSUME NEW s, Len(s) \in Nat, DOMAIN s = 1 .. Len(s), NEW p \in Places(s),
         NEW lists, Onward(s, lists, p)
  PROVE  /\ \A P \in SUBSET (p .. Len(s) + 1) :
              /\ \A T : Behind(s, P, T) \subseteq p + 1 .. Len(s) + 1
              /\ ValueEnds(s, lists, P) \subseteq p + 1 .. Len(s) + 1
         /\ Behind(s, KeyEnds(s, p), {"EQUALS"}) \subseteq p + 1 .. Len(s) + 1
         /\ EntryEnds(s, lists, p) \subseteq p + 1 .. Len(s) + 1
<1> USE DEF Places
<1>0. \A a \in p + 1 .. Len(s) + 1 : lists[a] \subseteq a .. Len(s) + 1
  BY DEF Onward
<1>1. ASSUME NEW b \in Places(s), NEW P \in SUBSET (b .. Len(s) + 1), NEW T
      PROVE  Behind(s, P, T) \subseteq b + 1 .. Len(s) + 1
  BY <1>1, PastIsLater DEF Behind
<1>2. ASSUME NEW P \in SUBSET (p .. Len(s) + 1), NEW T
      PROVE  Behind(s, P, T) \in SUBSET (p .. Len(s) + 1)
  <2>1. Behind(s, P, T) \subseteq p + 1 .. Len(s) + 1
    BY <1>1
  <2>2. QED
    BY <2>1
<1>3. ASSUME NEW P \in SUBSET (p .. Len(s) + 1)
      PROVE  ValueEnds(s, lists, P) \subseteq p + 1 .. Len(s) + 1
  <2> DEFINE A == Behind(s, P, {"CURLY_OPEN"})
             U == UNION {lists[a] : a \in A}
  <2>1. A \subseteq p + 1 .. Len(s) + 1
    BY <1>1
  <2> HIDE DEF A
  <2>2. U \in SUBSET (p .. Len(s) + 1)
    <3>1. ASSUME NEW a \in A PROVE lists[a] \subseteq p .. Len(s) + 1
      <4>1. a \in p + 1 .. Len(s) + 1 /\ lists[a] \subseteq a .. Len(s) + 1
        BY <1>0, <2>1
      <4>2. QED
        BY <4>1
    <3>2. QED
      BY <3>1
  <2> HIDE DEF U
  <2>3. Behind(s, U, {"CURLY_CLOSE"}) \subseteq p + 1 .. Len(s) + 1
    BY <1>1, <2>2
  <2>4. Behind(s, P, ScalarToken) \subseteq p + 1 .. Len(s) + 1
    BY <1>1
  <2>5. QED
    BY <2>3, <2>4 DEF ValueEnds, TableEnds, A, U
<1>4. Behind(s, KeyEnds(s, p), {"EQUALS"}) \subseteq p + 1 .. Len(s) + 1
  <2>1. {p} \in SUBSET (p .. Len(s) + 1)
    OBVIOUS
  <2>2. Behind(s, {p}, {"SQUARE_OPEN"}) \in SUBSET (p .. Len(s) + 1)
    BY <1>2, <2>1
  <2>3. Behind(s, Behind(s, {p}, {"SQUARE_OPEN"}), KeyToken) \in SUBSET (p .. Len(s) + 1)
    BY <1>2, <2>2
  <2>4. KeyEnds(s, p) \in SUBSET (p .. Len(s) + 1)
    <3>1. Behind(s, {p}, {"NAME"}) \in SUBSET (p .. Len(s) + 1)
      BY <1>2, <2>1
    <3>2. Behind(s, Behind(s, Behind(s, {p}, {"SQUARE_OPEN"}), KeyToken), {"SQUARE_CLOSE"})
            \in SUBSET (p .. Len(s) + 1)
      BY <1>2, <2>3
    <3>3. QED
      BY <3>1, <3>2 DEF KeyEnds
  <2>5. QED
    BY <1>1, <2>4
<1>5. EntryEnds(s, lists, p) \subseteq p + 1 .. Len(s) + 1
  <2>1. {p} \in SUBSET (p .. Len(s) + 1)
    OBVIOUS
  <2>2. Behind(s, KeyEnds(s, p), {"EQUALS"}) \in SUBSET (p .. Len(s) + 1)
    BY <1>4
  <2> DEFINE E == Behind(s, KeyEnds(s, p), {"EQUALS"})
             V(P) == ValueEnds(s, lists, P)
  <2> HIDE DEF E
  <2>3. V({p}) \subseteq p + 1 .. Len(s) + 1 /\ V(E) \subseteq p + 1 .. Len(s) + 1
    BY <1>3, <2>1, <2>2 DEF E
  <2>4. EntryEnds(s, lists, p) = V({p}) \cup V(E)
    BY DEF EntryEnds, E
  <2>5. QED
    BY <2>3, <2>4
<1>6. QED
  BY <1>1, <1>3, <1>4, <1>5

(* What the recursive definitions say of a place, in terms of later ones.  *)
ListFrom(s, lists, p) ==
  {p} \cup UNION {MoreEnds(s, lists, e) : e \in EntryEnds(s, lists, p)}

LEMMA ListGoesOn ==
  ASSUME NEW s, Len(s) \in Nat, DOMAIN s = 1 .. Len(s), NEW p \in Places(s),
         NEW lists, Onward(s, lists, p)
  PROVE  ListFrom(s, lists, p) \subseteq p .. Len(s) + 1
<1> USE DEF Places
<1>1. ASSUME NEW e \in EntryEnds(s, lists, p)
      PROVE  MoreEnds(s, lists, e) \subseteq p .. Len(s) + 1
  <2>1. e \in p + 1 .. Len(s) + 1 /\ e \in Places(s)
    BY EndsAreLater
  <2>2. Behind(s, {e}, Separator) \subseteq e + 1 .. Len(s) + 1
    <3>1. {e} \in SUBSET (e .. Len(s) + 1)
      BY <2>1
    <3>2. QED
      BY <2>1, <3>1, PastIsLater DEF Behind
  <2>3. ASSUME NEW a \in Behind(s, {e}, Separator)
        PROVE  lists[a] \subseteq p .. Len(s) + 1
    <3>1. a \in p + 1 .. Len(s) + 1
      BY <2>1, <2>2
    <3>2. lists[a] \subseteq a .. Len(s) + 1
      BY <3>1 DEF Onward
    <3>3. QED
      BY <3>1, <3>2
  <2>4. UNION {lists[a] : a \in Behind(s, {e}, Separator)} \subseteq p .. Len(s) + 1
    BY <2>3
  <2>5. e \in p .. Len(s) + 1
    BY <2>1
  <2>6. QED
    BY <2>4, <2>5 DEF MoreEnds
<1>2. QED
  BY <1>1 DEF ListFrom

LEMMA ListUsesLater ==
  ASSUME NEW s, Len(s) \in Nat, DOMAIN s = 1 .. Len(s), NEW p \in Places(s),
         NEW f, NEW g, Onward(s, f, p),
         \A q \in p + 1 .. Len(s) + 1 : f[q] = g[q]
  PROVE  ListFrom(s, f, p) = ListFrom(s, g, p)
<1> USE DEF Places
<1>1. ASSUME NEW P \in SUBSET (p .. Len(s) + 1)
      PROVE  ValueEnds(s, f, P) = ValueEnds(s, g, P)
  <2>1. Behind(s, P, {"CURLY_OPEN"}) \subseteq p + 1 .. Len(s) + 1
    BY EndsAreLater
  <2>2. UNION {f[a] : a \in Behind(s, P, {"CURLY_OPEN"})}
          = UNION {g[a] : a \in Behind(s, P, {"CURLY_OPEN"})}
    BY <2>1
  <2>3. QED
    BY <2>2 DEF ValueEnds, TableEnds
<1>2. EntryEnds(s, f, p) = EntryEnds(s, g, p)
  <2> DEFINE E == Behind(s, KeyEnds(s, p), {"EQUALS"})
  <2>1. {p} \in SUBSET (p .. Len(s) + 1) /\ E \in SUBSET (p .. Len(s) + 1)
    <3>1. E \subseteq p + 1 .. Len(s) + 1
      BY EndsAreLater
    <3>2. QED
      BY <3>1
  <2> HIDE DEF E
  <2>2. ValueEnds(s, f, {p}) = ValueEnds(s, g, {p}) /\ ValueEnds(s, f, E) = ValueEnds(s, g, E)
    BY <1>1, <2>1
  <2>3. QED
    BY <2>2 DEF EntryEnds, E
<1>3. ASSUME NEW e \in EntryEnds(s, f, p) PROVE MoreEnds(s, f, e) = MoreEnds(s, g, e)
  <2>1. e \in p + 1 .. Len(s) + 1 /\ e \in Places(s)
    BY EndsAreLater
  <2>2. Behind(s, {e}, Separator) \subseteq e + 1 .. Len(s) + 1
    <3>1. {e} \in SUBSET (e .. Len(s) + 1)
      BY <2>1
    <3>2. QED
      BY <2>1, <3>1, PastIsLater DEF Behind
  <2>3. \A a \in Behind(s, {e}, Separator) : f[a] = g[a]
    BY <2>1, <2>2
  <2>4. QED
    BY <2>3 DEF MoreEnds
<1>4. QED
  BY <1>2, <1>3 DEF ListFrom

(* ListEnds is what its recursive definition says. *)
LEMMA ListsAreSolved ==
  ASSUME NEW s, Len(s) \in Nat, DOMAIN s = 1 .. Len(s)
  PROVE  /\ \A p \in Places(s) : ListEnds(s)[p] \subseteq p .. Len(s) + 1
         /\ \A p \in Places(s) : ListEnds(s)[p] = ListFrom(s, ListEnds(s), p)
<1> DEFINE n == Len(s) + 1
           X == SUBSET Places(s)
           Cut(f) == [a \in 1 .. n |-> f[a] \cap (a .. n)]
           F == [pf \in (1 .. n) \X [1 .. n -> X] |-> ListFrom(s, Cut(pf[2]), pf[1])]
<1>1. ASSUME NEW f \in [1 .. n -> X], NEW p \in 1 .. n PROVE Onward(s, Cut(f), p)
  <2>1. ASSUME NEW a \in p + 1 .. n PROVE Cut(f)[a] \subseteq a .. n
    OBVIOUS
  <2> HIDE DEF Cut
  <2>2. QED
    BY <2>1 DEF Onward
<1>2. ASSUME NEW p \in 1 .. n, NEW f \in [1 .. n -> X]
      PROVE  F[<<p, f>>] = ListFrom(s, Cut(f), p) /\ F[<<p, f>>] \subseteq p .. n
  <2> HIDE DEF Cut
  <2>1. F[<<p, f>>] = ListFrom(s, Cut(f), p)
    OBVIOUS
  <2>2. ListFrom(s, Cut(f), p) \subseteq p .. Len(s) + 1
    BY <1>1, ListGoesOn DEF Places
  <2>3. QED
    BY <2>1, <2>2
<1>3. F \in [(1 .. n) \X [1 .. n -> X] -> X]
  <2>1. ASSUME NEW p \in 1 .. n, NEW f \in [1 .. n -> X]
        PROVE  ListFrom(s, Cut(f), p) \in X
    <3>1. ListFrom(s, Cut(f), p) \subseteq p .. n
      BY <1>2
    <3> HIDE DEF Cut
    <3>2. QED
      BY <3>1 DEF Places
  <2> HIDE DEF Cut, X
  <2>2. QED
    BY <2>1
<1>4. ASSUME NEW p \in 1 .. n, NEW f \in [1 .. n -> X], NEW g \in [1 .. n -> X],
             \A q \in p + 1 .. n : f[q] = g[q]
      PROVE  F[<<p, f>>] = F[<<p, g>>]
  <2>1. ASSUME NEW q \in p + 1 .. Len(s) + 1 PROVE Cut(f)[q] = Cut(g)[q]
    <3> HIDE DEF F
    <3>1. q \in 1 .. n /\ f[q] = g[q]
      BY <1>4
    <3>2. QED
      BY <3>1
  <2>2. Onward(s, Cut(f), p)
    BY <1>1
  <2> HIDE DEF Cut
  <2>3. ListFrom(s, Cut(f), p) = ListFrom(s, Cut(g), p)
    BY <2>1, <2>2, ListUsesLater DEF Places
  <2>4. QED
    BY <1>2, <2>3
<1>5. n \in Nat /\ {} \in X
  OBVIOUS
<1>6. PICK f \in [1 .. n -> X] : \A p \in 1 .. n : f[p] = F[<<p, f>>]
  <2> HIDE DEF n, X, F
  <2>1. UsesLater(F, n, X) /\ X # {}
    BY <1>3, <1>4, <1>5 DEF UsesLater
  <2>2. Solved(F, n, X)
    BY <1>5, <2>1, Solution
  <2>3. QED
    BY <2>2 DEF Solved
<1>7. \A p \in 1 .. n : f[p] \subseteq p .. n
  BY <1>2, <1>6
<1>8. Cut(f) = f
  BY <1>7
<1>9. \A p \in 1 .. n : f[p] = ListFrom(s, f, p)
  BY <1>2, <1>6, <1>8
<1>10. f = [p \in 1 .. Len(s) + 1 |->
              {p} \cup UNION {MoreEnds(s, f, e) : e \in EntryEnds(s, f, p)}]
  BY <1>9 DEF ListFrom
<1> DEFINE L == ListEnds(s)
<1>11. L = [p \in 1 .. Len(s) + 1 |->
              {p} \cup UNION {MoreEnds(s, L, e) : e \in EntryEnds(s, L, p)}]
  BY <1>10 DEF ListEnds
<1> HIDE DEF L
<1>12. \A p \in 1 .. n : L[p] = ListFrom(s, L, p)
  BY <1>11 DEF ListFrom
<1> DEFINE Last(k) == \A p \in 1 .. n : p > n - k => L[p] \subseteq p .. n
           T == {k \in Nat : Last(k)}
<1>13. 0 \in T
  OBVIOUS
<1>14. ASSUME NEW k \in Nat, k \in T PROVE k + 1 \in T
  <2>1. ASSUME NEW p \in 1 .. n, p > n - (k + 1) PROVE L[p] \subseteq p .. n
    <3>1. \A a \in p + 1 .. n : a \in 1 .. n /\ a > n - k
      BY <2>1
    <3>2. Onward(s, L, p)
      BY <1>14, <3>1 DEF Onward
    <3>3. QED
      BY <1>12, <3>2, ListGoesOn DEF Places
  <2>2. QED
    BY <2>1
<1>15. n \in T
  <2> HIDE DEF T
  <2>1. QED
    BY <1>5, <1>13, <1>14, Induction
<1>16. \A p \in 1 .. n : L[p] \subseteq p .. n
  BY <1>15
<1>. QED
  BY <1>12, <1>16 DEF L, Places

(* DefsToEnd too is what its recursive definition says. *)
LEMMA DefinitionIsLater ==
  ASSUME NEW s, Len(s) \in Nat, DOMAIN s = 1 .. Len(s), NEW p \in Places(s)
  PROVE  DefinitionEnds(s, p) \subseteq p + 1 .. Len(s) + 1
<1> DEFINE N == Past(s, {p}, Comment \cup {"SEMICOLON"}, {"NAME"})
           E == Behind(s, N, {"EQUALS"})
<1>1. {p} \in SUBSET (p .. Len(s) + 1)
  BY DEF Places
<1>2. N \subseteq p + 1 .. Len(s) + 1
  BY <1>1, PastIsLater
<1> HIDE DEF N
<1>3. N \in SUBSET (p .. Len(s) + 1)
  BY <1>2 DEF Places
<1>4. E \subseteq p + 1 .. Len(s) + 1
  BY <1>3, PastIsLater DEF Behind
<1>5. E \in SUBSET (p .. Len(s) + 1)
  BY <1>4 DEF Places
<1> HIDE DEF E
<1>6. Onward(s, ListEnds(s), p)
  BY ListsAreSolved DEF Onward, Places
<1>7. ValueEnds(s, ListEnds(s), E) \subseteq p + 1 .. Len(s) + 1
  BY <1>5, <1>6, EndsAreLater
<1>8. QED
  BY <1>7 DEF DefinitionEnds, N, E

LEMMA DefinitionsAreSolved ==
  ASSUME NEW s, Len(s) \in Nat, DOMAIN s = 1 .. Len(s)
  PROVE  \A p \in Places(s) :
           DefsToEnd(s)[p] =
             (OnlyComments(s, p) \/ \E e \in DefinitionEnds(s, p) : DefsToEnd(s)[e])
<1> DEFINE n == Len(s) + 1
           Rest(f, p) == OnlyComments(s, p) \/ \E e \in DefinitionEnds(s, p) : f[e]
           F == [pf \in (1 .. n) \X [1 .. n -> BOOLEAN] |-> Rest(pf[2], pf[1])]
<1>1. ASSUME NEW p \in 1 .. n, NEW f \in [1 .. n -> BOOLEAN]
      PROVE  F[<<p, f>>] = Rest(f, p)
  OBVIOUS
<1>2. F \in [(1 .. n) \X [1 .. n -> BOOLEAN] -> BOOLEAN]
  OBVIOUS
<1>3. ASSUME NEW p \in 1 .. n, NEW f, NEW g, \A q \in p + 1 .. n : f[q] = g[q]
      PROVE  Rest(f, p) = Rest(g, p)
  <2>1. DefinitionEnds(s, p) \subseteq p + 1 .. n
    BY DefinitionIsLater DEF Places
  <2>2. QED
    BY <1>3, <2>1
<1>4. UsesLater(F, n, BOOLEAN)
  <2> HIDE DEF F, Rest
  <2>1. QED
    BY <1>1, <1>2, <1>3 DEF UsesLater
<1>5. PICK f \in [1 .. n -> BOOLEAN] : \A p \in 1 .. n : f[p] = Rest(f, p)
  <2> HIDE DEF F, Rest
  <2>1. n \in Nat
    OBVIOUS
  <2> HIDE DEF n
  <2>2. Solved(F, n, BOOLEAN)
    BY <1>4, <2>1, Solution
  <2>3. QED
    BY <1>1, <2>2 DEF Solved
<1>6. f = [p \in 1 .. Len(s) + 1 |->
             OnlyComments(s, p) \/ \E e \in DefinitionEnds(s, p) : f[e]]
  BY <1>5
<1> DEFINE D == DefsToEnd(s)
<1>7. D = [p \in 1 .. Len(s) + 1 |->
             OnlyComments(s, p) \/ \E e \in DefinitionEnds(s, p) : D[e]]
  BY <1>6 DEF DefsToEnd
<1> HIDE DEF D
<1>8. QED
  BY <1>7 DEF D, Places

-----------------------------------------------------------------------------
(* What the next token says of the places behind it.                       *)

LEMMA BehindRead ==
  ASSUME doc \in Seq(DocToken), NEW p \in 1 .. End, NEW q, Reads(p, q),
         NEW T, "EOF" \notin T, T \cap Comment = {}
  PROVE  Behind(doc, {p}, T) = IF Token(q) \in T THEN {After(q)} ELSE {}
<1>1. Len(doc) \in Nat /\ DOMAIN doc = 1 .. Len(doc) /\ End = Len(doc) + 1
  BY EndType, LenProperties DEF End
<1>2. q \in p .. End /\ Token(q) \notin Comment /\ \A r \in p .. q - 1 : Token(r) \in Comment
  BY DEF Reads
<1>3. \A r \in 1 .. Len(doc) : Token(r) = doc[r]
  BY <1>1 DEF Token
<1>4. ASSUME NEW o \in 1 .. Len(doc), doc[o] \in T, p <= o,
             \A r \in p .. o - 1 : doc[r] \in Comment
      PROVE  o = q
  <2>1. ~(o < q)
    <3> SUFFICES ASSUME o < q PROVE FALSE
      OBVIOUS
    <3>1. o \in p .. q - 1
      BY <1>1, <1>2, <1>4
    <3>2. doc[o] \in Comment
      BY <1>2, <1>3, <3>1
    <3>3. QED
      BY <1>4, <3>2
  <2>2. ~(q < o)
    <3> SUFFICES ASSUME q < o PROVE FALSE
      OBVIOUS
    <3>1. q \in p .. o - 1 /\ q \in 1 .. Len(doc)
      BY <1>1, <1>2, <1>4
    <3>2. QED
      BY <1>2, <1>3, <1>4, <3>1
  <2>3. QED
    BY <1>1, <1>2, <2>1, <2>2
<1>5. CASE Token(q) \in T
  <2>1. q # End
    BY <1>1, <1>5 DEF Token
  <2>2. q \in 1 .. Len(doc) /\ doc[q] \in T /\ p <= q /\ After(q) = q + 1
    BY <1>1, <1>2, <1>3, <1>5, <2>1 DEF After
  <2>3. \A r \in p .. q - 1 : doc[r] \in Comment
    BY <1>1, <1>2, <1>3
  <2>4. Behind(doc, {p}, T) = {q + 1}
    BY <1>1, <1>4, <2>2, <2>3 DEF Behind, Past
  <2>5. QED
    BY <1>5, <2>2, <2>4
<1>6. CASE Token(q) \notin T
  <2>1. \A o \in 1 .. Len(doc) : ~(doc[o] \in T /\ p <= o
                                   /\ \A r \in p .. o - 1 : doc[r] \in Comment)
    BY <1>3, <1>4, <1>6
  <2>2. Behind(doc, {p}, T) = {}
    BY <1>1, <2>1 DEF Behind, Past
  <2>3. QED
    BY <1>6, <2>2
<1>7. QED
  BY <1>5, <1>6

(* The same of a name behind semicolons. *)
LEMMA NameRead ==
  ASSUME doc \in Seq(DocToken), NEW p \in 1 .. End, NEW q, Reads(p, q),
         NEW d, SkipsSemicolons(q, d)
  PROVE  Past(doc, {p}, Comment \cup {"SEMICOLON"}, {"NAME"})
           = IF Token(d) = "NAME" THEN {After(d)} ELSE {}
<1> DEFINE Skipped == Comment \cup {"SEMICOLON"}
<1>1. Len(doc) \in Nat /\ DOMAIN doc = 1 .. Len(doc) /\ End = Len(doc) + 1
  BY EndType, LenProperties DEF End
<1>2. /\ q \in p .. End /\ d \in q .. End /\ Token(d) \notin Skipped
      /\ \A r \in p .. d - 1 : Token(r) \in Skipped
  <2>1. /\ q \in p .. End /\ d \in q .. End /\ Token(d) \notin Skipped
        /\ \A r \in p .. q - 1 : Token(r) \in Skipped
        /\ \A r \in q .. d - 1 : Token(r) \in Skipped
    BY DEF Reads, SkipsSemicolons
  <2>2. \A r \in p .. d - 1 : r \in p .. q - 1 \/ r \in q .. d - 1
    BY <1>1, <2>1
  <2>3. QED
    BY <2>1, <2>2
<1>3. \A r \in 1 .. Len(doc) : Token(r) = doc[r]
  BY <1>1 DEF Token
<1>0. "NAME" \notin Skipped
  BY DEF Comment
<1> HIDE DEF Skipped
<1>4. ASSUME NEW o \in 1 .. Len(doc), doc[o] = "NAME", p <= o,
             \A r \in p .. o - 1 : doc[r] \in Skipped
      PROVE  o = d
  <2>1. ~(o < d)
    <3> SUFFICES ASSUME o < d PROVE FALSE
      OBVIOUS
    <3>1. o \in p .. d - 1
      BY <1>1, <1>2, <1>4
    <3>2. doc[o] \in Skipped
      BY <1>2, <1>3, <3>1
    <3>3. QED
      BY <1>0, <1>4, <3>2
  <2>2. ~(d < o)
    <3> SUFFICES ASSUME d < o PROVE FALSE
      OBVIOUS
    <3>1. d \in p .. o - 1 /\ d \in 1 .. Len(doc)
      BY <1>1, <1>2, <1>4
    <3>2. QED
      BY <1>2, <1>3, <1>4, <3>1
  <2>3. QED
    BY <1>1, <1>2, <2>1, <2>2
<1>5. CASE Token(d) = "NAME"
  <2>1. d # End
    BY <1>1, <1>5 DEF Token
  <2>2. d \in 1 .. Len(doc) /\ doc[d] = "NAME" /\ p <= d /\ After(d) = d + 1
    BY <1>1, <1>2, <1>3, <1>5, <2>1 DEF After
  <2>3. \A r \in p .. d - 1 : doc[r] \in Skipped
    BY <1>1, <1>2, <1>3
  <2>4. Past(doc, {p}, Skipped, {"NAME"}) = {d + 1}
    BY <1>1, <1>4, <2>2, <2>3 DEF Past
  <2>5. QED
    BY <1>5, <2>2, <2>4 DEF Skipped
<1>6. CASE Token(d) # "NAME"
  <2>1. \A o \in 1 .. Len(doc) : ~(doc[o] = "NAME" /\ p <= o
                                   /\ \A r \in p .. o - 1 : doc[r] \in Skipped)
    BY <1>3, <1>4, <1>6
  <2>2. Past(doc, {p}, Skipped, {"NAME"}) = {}
    BY <1>1, <2>1 DEF Past
  <2>3. QED
    BY <1>6, <2>2 DEF Skipped
<1>7. QED
  BY <1>5, <1>6

(* Only comments are left when the next token is the end. *)
LEMMA EndRead ==
  ASSUME doc \in Seq(DocToken), NEW p \in 1 .. End, NEW q, Reads(p, q)
  PROVE  OnlyComments(doc, p) <=> Token(q) = "EOF"
<1>1. Len(doc) \in Nat /\ End = Len(doc) + 1
  BY EndType DEF End
<1>2. q \in p .. End /\ Token(q) \notin Comment /\ \A r \in p .. q - 1 : Token(r) \in Comment
  BY DEF Reads
<1>3. Token(q) = "EOF" <=> q = End
  BY <1>1, <1>2, EofAtEnd
<1>4. \A r \in 1 .. Len(doc) : Token(r) = doc[r]
  BY <1>1 DEF Token
<1>5. CASE q = End
  BY <1>1, <1>2, <1>3, <1>4, <1>5 DEF OnlyComments
<1>6. CASE q # End
  <2>1. q \in p .. Len(doc) /\ q \in 1 .. Len(doc)
    BY <1>1, <1>2, <1>6
  <2>2. QED
    BY <1>2, <1>3, <1>4, <1>6, <2>1 DEF OnlyComments
<1>7. QED
  BY <1>5, <1>6

(* What follows one of several places follows one of them by itself. *)
LEMMA BehindSome ==
  ASSUME NEW s, NEW P, NEW T, NEW r
  PROVE  r \in Behind(s, P, T) <=> \E p \in P : r \in Behind(s, {p}, T)
BY DEF Behind, Past

LEMMA BehindNone ==
  ASSUME NEW s, NEW T
  PROVE  Behind(s, {}, T) = {}
BY DEF Behind, Past

-----------------------------------------------------------------------------
(* What must be left of a document, by what has been read of it.           *)

Meets(A, S) == \E e \in A : e \in S

(* The places where the document may go on once a value at its top has     *)
(* been read.                                                              *)
TopPlaces(s, single) ==
  {p \in Places(s) : IF single THEN OnlyComments(s, p) ELSE DefsToEnd(s)[p]}

(* The places where a list of entries may begin, or may go on behind an    *)
(* entry, when the table it is in may end before a place of S.             *)
Closes(s, x, S) == Meets(Behind(s, {x}, {"CURLY_CLOSE"}), S)
InTable(s, S) == {p \in Places(s) : \E x \in ListEnds(s)[p] : Closes(s, x, S)}
InList(s, S)  == {p \in Places(s) : \E x \in MoreEnds(s, ListEnds(s), p) : Closes(s, x, S)}

(* The places where a value may have ended, by how many tables are open. *)
Closable(s, single) ==
  CHOOSE g \in [Nat -> SUBSET Places(s)] :
    /\ g[0] = TopPlaces(s, single)
    /\ \A d \in Nat : g[d + 1] = InList(s, g[d])

LEMMA ClosableIs ==
  ASSUME NEW s, NEW single
  PROVE  /\ Closable(s, single) \in [Nat -> SUBSET Places(s)]
         /\ Closable(s, single)[0] = TopPlaces(s, single)
         /\ \A d \in Nat : Closable(s, single)[d + 1] = InList(s, Closable(s, single)[d])
<1> DEFINE X == SUBSET Places(s)
           F == [S \in X |-> InList(s, S)]
<1>1. F \in [X -> X] /\ TopPlaces(s, single) \in X
  BY DEF InList, TopPlaces
<1>2. \A S \in X : F[S] = InList(s, S)
  OBVIOUS
<1> HIDE DEF F, X
<1>3. PICK g \in [Nat -> X] : g[0] = TopPlaces(s, single) /\ \A d \in Nat : g[d + 1] = F[g[d]]
  BY <1>1, Iteration
<1>4. \A d \in Nat : g[d + 1] = InList(s, g[d])
  BY <1>2, <1>3
<1>5. QED
  BY <1>3, <1>4 DEF Closable, X

(* An equals sign and a value that ends before a place of S come next. *)
AfterKey(s, p, S) == Meets(ValueEnds(s, ListEnds(s), Behind(s, {p}, {"EQUALS"})), S)

(* What is left of a document is right, as the state of the parser has it. *)
Expects(s, ev, d, single, p) ==
  \/ ev = "STREAM_START" /\ IsDocument(s)
  \/ ev \in ScalarEvent \cup {"TABLE_END"} /\ p \in Closable(s, single)[d]
  \/ ev = "TABLE_START" /\ p \in InTable(s, Closable(s, single)[d - 1])
  \/ ev \in KeyEvent \cup {"DEF_NAME"} /\ AfterKey(s, p, Closable(s, single)[d])
  \/ ev = "STREAM_END"

(* What it expects of each event. *)
LEMMA ExpectsOf ==
  ASSUME NEW s, NEW d, NEW single, NEW p
  PROVE  /\ \A ev \in ScalarEvent \cup {"TABLE_END"} :
              Expects(s, ev, d, single, p) <=> p \in Closable(s, single)[d]
         /\ Expects(s, "TABLE_START", d, single, p) <=> p \in InTable(s, Closable(s, single)[d - 1])
         /\ \A ev \in KeyEvent \cup {"DEF_NAME"} :
              Expects(s, ev, d, single, p) <=> AfterKey(s, p, Closable(s, single)[d])
         /\ Expects(s, "STREAM_END", d, single, p)
         /\ ~Expects(s, "ERROR", d, single, p)
         /\ Expects(s, "STREAM_START", d, single, p) <=> IsDocument(s)
BY DEF Expects, ScalarEvent, KeyEvent

-----------------------------------------------------------------------------
(* The parts of a document once more, by what they begin with.             *)

LEMMA ValueSome ==
  ASSUME NEW s, NEW lists, NEW P, NEW S
  PROVE  Meets(ValueEnds(s, lists, P), S)
           <=> \E p \in P : Meets(ValueEnds(s, lists, {p}), S)
<1>1. \A r : r \in Behind(s, P, ScalarToken)
               <=> \E p \in P : r \in Behind(s, {p}, ScalarToken)
  BY BehindSome
<1>2. \A r : r \in Behind(s, P, {"CURLY_OPEN"})
               <=> \E p \in P : r \in Behind(s, {p}, {"CURLY_OPEN"})
  BY BehindSome
<1> DEFINE U(Q) == UNION {lists[a] : a \in Behind(s, Q, {"CURLY_OPEN"})}
<1>3. \A u : u \in U(P) <=> \E p \in P : u \in U({p})
  BY <1>2
<1> HIDE DEF U
<1>4. \A Q, r : r \in Behind(s, U(Q), {"CURLY_CLOSE"})
               <=> \E u \in U(Q) : r \in Behind(s, {u}, {"CURLY_CLOSE"})
  BY BehindSome
<1>5. \A r : r \in Behind(s, U(P), {"CURLY_CLOSE"})
               <=> \E p \in P : r \in Behind(s, U({p}), {"CURLY_CLOSE"})
  BY <1>3, <1>4
<1>6. \A Q, r : r \in ValueEnds(s, lists, Q) <=>
                  r \in Behind(s, Q, ScalarToken) \/ r \in Behind(s, U(Q), {"CURLY_CLOSE"})
  BY DEF ValueEnds, TableEnds, U
<1>7. \A r : r \in ValueEnds(s, lists, P) <=> \E p \in P : r \in ValueEnds(s, lists, {p})
  BY <1>1, <1>5, <1>6
<1>8. QED
  BY <1>7 DEF Meets

(* A table ends well when its list of entries begins well. *)
LEMMA TableUnfolds ==
  ASSUME NEW s, Len(s) \in Nat, DOMAIN s = 1 .. Len(s), NEW p \in Places(s), NEW S
  PROVE  Meets(TableEnds(s, ListEnds(s), {p}), S)
           <=> \E a \in Behind(s, {p}, {"CURLY_OPEN"}) : a \in InTable(s, S)
<1> DEFINE A == Behind(s, {p}, {"CURLY_OPEN"})
           U == UNION {ListEnds(s)[a] : a \in A}
<1>1. A \subseteq Places(s)
  <2>1. {p} \in SUBSET (p .. Len(s) + 1)
    BY DEF Places
  <2>2. A \subseteq p + 1 .. Len(s) + 1
    BY <2>1, PastIsLater DEF Behind
  <2> HIDE DEF A
  <2>3. QED
    BY <2>2 DEF Places
<1> HIDE DEF A
<1>2. \A r : r \in Behind(s, U, {"CURLY_CLOSE"})
               <=> \E u \in U : r \in Behind(s, {u}, {"CURLY_CLOSE"})
  BY BehindSome
<1>3. Meets(Behind(s, U, {"CURLY_CLOSE"}), S) <=> \E u \in U : Closes(s, u, S)
  <2> HIDE DEF U
  <2>1. QED
    BY <1>2 DEF Meets, Closes
<1>4. (\E u \in U : Closes(s, u, S)) <=> \E a \in A : \E u \in ListEnds(s)[a] : Closes(s, u, S)
  OBVIOUS
<1>5. \A a \in A : a \in InTable(s, S) <=> \E u \in ListEnds(s)[a] : Closes(s, u, S)
  BY <1>1 DEF InTable
<1>6. TableEnds(s, ListEnds(s), {p}) = Behind(s, U, {"CURLY_CLOSE"})
  BY DEF TableEnds, A
<1> HIDE DEF U
<1>7. QED
  BY <1>3, <1>4, <1>5, <1>6 DEF A

LEMMA ValueUnfolds ==
  ASSUME NEW s, Len(s) \in Nat, DOMAIN s = 1 .. Len(s), NEW p \in Places(s), NEW S
  PROVE  Meets(ValueEnds(s, ListEnds(s), {p}), S)
           <=> \/ Meets(Behind(s, {p}, ScalarToken), S)
               \/ \E a \in Behind(s, {p}, {"CURLY_OPEN"}) : a \in InTable(s, S)
<1>1. Meets(ValueEnds(s, ListEnds(s), {p}), S)
        <=> Meets(Behind(s, {p}, ScalarToken), S) \/ Meets(TableEnds(s, ListEnds(s), {p}), S)
  BY DEF ValueEnds, Meets
<1>2. QED
  BY <1>1, TableUnfolds

(* A list goes on well behind an entry when its table ends, or when there  *)
(* is a separator and it goes on behind that.                              *)
LEMMA MoreUnfolds ==
  ASSUME NEW s, Len(s) \in Nat, DOMAIN s = 1 .. Len(s), NEW p \in Places(s), NEW S
  PROVE  p \in InList(s, S)
           <=> \/ Closes(s, p, S)
               \/ \E a \in Behind(s, {p}, Separator) : a \in InTable(s, S)
<1>1. Behind(s, {p}, Separator) \subseteq Places(s)
  <2>1. {p} \in SUBSET (p .. Len(s) + 1)
    BY DEF Places
  <2>2. Behind(s, {p}, Separator) \subseteq p + 1 .. Len(s) + 1
    BY <2>1, PastIsLater DEF Behind
  <2>3. p + 1 .. Len(s) + 1 \subseteq Places(s)
    BY DEF Places
  <2>4. QED
    BY <2>2, <2>3
<1>2. p \in InList(s, S)
        <=> Closes(s, p, S) \/ \E a \in Behind(s, {p}, Separator) :
                                 \E x \in ListEnds(s)[a] : Closes(s, x, S)
  BY DEF InList, MoreEnds
<1>3. QED
  BY <1>1, <1>2 DEF InTable

(* A list begins well when its table ends, or with an entry behind which   *)
(* it goes on well.                                                        *)
LEMMA ListUnfolds ==
  ASSUME NEW s, Len(s) \in Nat, DOMAIN s = 1 .. Len(s), NEW p \in Places(s), NEW S
  PROVE  p \in InTable(s, S)
           <=> \/ Closes(s, p, S)
               \/ Meets(EntryEnds(s, ListEnds(s), p), InList(s, S))
<1> DEFINE L == ListEnds(s)
           E == EntryEnds(s, L, p)
<1>1. L[p] = {p} \cup UNION {MoreEnds(s, L, e) : e \in E}
  BY ListsAreSolved DEF ListFrom
<1>2. E \subseteq Places(s)
  <2>1. Onward(s, L, p)
    BY ListsAreSolved DEF Onward, Places
  <2> HIDE DEF L
  <2>2. E \subseteq p + 1 .. Len(s) + 1
    BY <2>1, EndsAreLater
  <2> HIDE DEF E
  <2>3. QED
    BY <2>2 DEF Places
<1> HIDE DEF E
<1>3. \A e \in E : e \in InList(s, S) <=> \E x \in MoreEnds(s, L, e) : Closes(s, x, S)
  BY <1>2 DEF InList
<1>4. p \in InTable(s, S) <=> \E x \in L[p] : Closes(s, x, S)
  BY DEF InTable
<1> HIDE DEF L
<1>5. (\E x \in L[p] : Closes(s, x, S))
        <=> Closes(s, p, S) \/ \E e \in E : \E x \in MoreEnds(s, L, e) : Closes(s, x, S)
  BY <1>1
<1>6. QED
  BY <1>3, <1>4, <1>5 DEF Meets, E, L

-----------------------------------------------------------------------------
(* The same, by the token that is read.                                    *)

LEMMA DocPlaces ==
  ASSUME doc \in Seq(DocToken)
  PROVE  /\ Len(doc) \in Nat /\ DOMAIN doc = 1 .. Len(doc) /\ End = Len(doc) + 1
         /\ Places(doc) = 1 .. End /\ End \in Nat
BY LenProperties DEF End, Places

LEMMA TokenKinds ==
  /\ \A T \in {ScalarToken, KeyToken, Separator, {"NAME"}, {"EQUALS"}, {"SQUARE_OPEN"},
               {"SQUARE_CLOSE"}, {"CURLY_OPEN"}, {"CURLY_CLOSE"}} :
       "EOF" \notin T /\ T \cap Comment = {}
  /\ ScalarToken \cap ({"NAME", "EQUALS", "SQUARE_OPEN", "SQUARE_CLOSE", "CURLY_OPEN",
                        "CURLY_CLOSE"} \cup Separator) = {}
  /\ Separator \cap {"NAME", "EQUALS", "SQUARE_OPEN", "SQUARE_CLOSE", "CURLY_OPEN",
                     "CURLY_CLOSE"} = {}
BY DEF ScalarToken, KeyToken, Separator, Comment

(* A token of T must come next, and what is behind it be in S. *)
LEMMA TokenRead ==
  ASSUME doc \in Seq(DocToken), NEW p \in 1 .. End, NEW q, Reads(p, q), NEW S
  PROVE  /\ \A T \in {ScalarToken, KeyToken, Separator, {"NAME"}, {"EQUALS"}, {"SQUARE_OPEN"},
                      {"SQUARE_CLOSE"}, {"CURLY_OPEN"}, {"CURLY_CLOSE"}} :
              (\E a \in Behind(doc, {p}, T) : a \in S)
                <=> Token(q) \in T /\ After(q) \in S
<1> SUFFICES ASSUME NEW T \in {ScalarToken, KeyToken, Separator, {"NAME"}, {"EQUALS"},
                      {"SQUARE_OPEN"}, {"SQUARE_CLOSE"}, {"CURLY_OPEN"}, {"CURLY_CLOSE"}}
             PROVE  (\E a \in Behind(doc, {p}, T) : a \in S)
                      <=> Token(q) \in T /\ After(q) \in S
  OBVIOUS
<1>1. "EOF" \notin T /\ T \cap Comment = {}
  BY TokenKinds
<1>2. Behind(doc, {p}, T) = IF Token(q) \in T THEN {After(q)} ELSE {}
  BY <1>1, BehindRead
<1>3. QED
  BY <1>2

LEMMA ValueRead ==
  ASSUME doc \in Seq(DocToken), NEW p \in 1 .. End, NEW q, Reads(p, q), NEW S
  PROVE  Meets(ValueEnds(doc, ListEnds(doc), {p}), S)
           <=> \/ Token(q) \in ScalarToken /\ After(q) \in S
               \/ Token(q) = "CURLY_OPEN" /\ After(q) \in InTable(doc, S)
<1>1. (\E a \in Behind(doc, {p}, ScalarToken) : a \in S)
        <=> Token(q) \in ScalarToken /\ After(q) \in S
  BY TokenRead
<1>2. (\E a \in Behind(doc, {p}, {"CURLY_OPEN"}) : a \in InTable(doc, S))
        <=> Token(q) = "CURLY_OPEN" /\ After(q) \in InTable(doc, S)
  BY TokenRead
<1>3. QED
  BY <1>1, <1>2, DocPlaces, ValueUnfolds DEF Meets

(* The name or the bracket that an entry begins with. *)
LEMMA KeyRead ==
  ASSUME doc \in Seq(DocToken), NEW p \in 1 .. End, NEW q, Reads(p, q)
  PROVE  /\ Token(q) = "NAME" => KeyEnds(doc, p) = {After(q)}
         /\ Token(q) = "SQUARE_OPEN" =>
              \A k : Reads(After(q), k) =>
                /\ Token(k) \notin KeyToken => KeyEnds(doc, p) = {}
                /\ \A c : Token(k) \in KeyToken /\ Reads(After(k), c) =>
                     KeyEnds(doc, p) = IF Token(c) = "SQUARE_CLOSE" THEN {After(c)} ELSE {}
         /\ Token(q) \notin {"NAME", "SQUARE_OPEN"} => KeyEnds(doc, p) = {}
<1>0. End \in Nat /\ q \in 1 .. End /\ After(q) \in 1 .. End
  BY DocPlaces, ReadsStays, AfterStays
<1>1. /\ Behind(doc, {p}, {"NAME"}) = IF Token(q) = "NAME" THEN {After(q)} ELSE {}
      /\ Behind(doc, {p}, {"SQUARE_OPEN"}) = IF Token(q) = "SQUARE_OPEN" THEN {After(q)} ELSE {}
  <2>1. /\ "EOF" \notin {"NAME"} /\ {"NAME"} \cap Comment = {}
        /\ "EOF" \notin {"SQUARE_OPEN"} /\ {"SQUARE_OPEN"} \cap Comment = {}
    BY DEF Comment
  <2>2. Behind(doc, {p}, {"NAME"}) = IF Token(q) \in {"NAME"} THEN {After(q)} ELSE {}
    BY <2>1, BehindRead
  <2>3. Behind(doc, {p}, {"SQUARE_OPEN"}) = IF Token(q) \in {"SQUARE_OPEN"} THEN {After(q)} ELSE {}
    BY <2>1, BehindRead
  <2>4. QED
    BY <2>2, <2>3
<1>2. CASE Token(q) = "SQUARE_OPEN"
  <2>1. KeyEnds(doc, p) = Behind(doc, Behind(doc, {After(q)}, KeyToken), {"SQUARE_CLOSE"})
    BY <1>1, <1>2 DEF KeyEnds
  <2>2. ASSUME NEW k, Reads(After(q), k)
        PROVE  /\ Token(k) \notin KeyToken => KeyEnds(doc, p) = {}
               /\ \A c : Token(k) \in KeyToken /\ Reads(After(k), c) =>
                    KeyEnds(doc, p) = IF Token(c) = "SQUARE_CLOSE" THEN {After(c)} ELSE {}
    <3>1. k \in 1 .. End /\ After(k) \in 1 .. End
      BY <1>0, <2>2, ReadsStays, AfterStays
    <3>2. Behind(doc, {After(q)}, KeyToken) = IF Token(k) \in KeyToken THEN {After(k)} ELSE {}
      <4>1. "EOF" \notin KeyToken /\ KeyToken \cap Comment = {}
        BY DEF Comment, KeyToken
      <4>2. QED
        BY <1>0, <2>2, <4>1, BehindRead
    <3>3. ASSUME Token(k) \notin KeyToken PROVE KeyEnds(doc, p) = {}
      BY <2>1, <3>2, <3>3, BehindNone
    <3>4. ASSUME NEW c, Token(k) \in KeyToken, Reads(After(k), c)
          PROVE  KeyEnds(doc, p) = IF Token(c) = "SQUARE_CLOSE" THEN {After(c)} ELSE {}
      <4>1. "EOF" \notin {"SQUARE_CLOSE"} /\ {"SQUARE_CLOSE"} \cap Comment = {}
        BY DEF Comment
      <4>2. Behind(doc, {After(k)}, {"SQUARE_CLOSE"})
              = IF Token(c) \in {"SQUARE_CLOSE"} THEN {After(c)} ELSE {}
        BY <3>1, <3>4, <4>1, BehindRead
      <4>3. KeyEnds(doc, p) = Behind(doc, {After(k)}, {"SQUARE_CLOSE"})
        BY <2>1, <3>2, <3>4
      <4>4. QED
        BY <4>2, <4>3
    <3>5. QED
      BY <3>3, <3>4
  <2>3. QED
    BY <1>2, <2>2
<1>3. CASE Token(q) # "SQUARE_OPEN"
  <2>1. KeyEnds(doc, p) = IF Token(q) = "NAME" THEN {After(q)} ELSE {}
    BY <1>1, <1>3, BehindNone DEF KeyEnds
  <2>2. QED
    BY <1>3, <2>1
<1>4. QED
  BY <1>2, <1>3

(* An entry, or the end of the table. *)
LEMMA EntryRead ==
  ASSUME doc \in Seq(DocToken), NEW p \in 1 .. End, NEW q, Reads(p, q), NEW S
  PROVE  p \in InTable(doc, S)
           <=> \/ Token(q) = "CURLY_CLOSE" /\ After(q) \in S
               \/ Token(q) \in ScalarToken /\ After(q) \in InList(doc, S)
               \/ Token(q) = "CURLY_OPEN" /\ After(q) \in InTable(doc, InList(doc, S))
               \/ \E k \in KeyEnds(doc, p) : AfterKey(doc, k, InList(doc, S))
<1> DEFINE L == ListEnds(doc)
           E == Behind(doc, KeyEnds(doc, p), {"EQUALS"})
           V(P) == ValueEnds(doc, L, P)
           G == InList(doc, S)
<1>1. Closes(doc, p, S) <=> Token(q) = "CURLY_CLOSE" /\ After(q) \in S
  BY TokenRead DEF Closes, Meets
<1>2. Meets(EntryEnds(doc, L, p), G) <=> Meets(V({p}), G) \/ Meets(V(E), G)
  BY DEF EntryEnds, Meets
<1>3. Meets(V({p}), G)
        <=> \/ Token(q) \in ScalarToken /\ After(q) \in G
            \/ Token(q) = "CURLY_OPEN" /\ After(q) \in InTable(doc, G)
  BY ValueRead
<1>4. Meets(V(E), G) <=> \E k \in KeyEnds(doc, p) : AfterKey(doc, k, G)
  <2> DEFINE B(k) == Behind(doc, {k}, {"EQUALS"})
             M(r) == Meets(V({r}), G)
  <2>1. \A r : r \in E <=> \E k \in KeyEnds(doc, p) : r \in B(k)
    BY BehindSome
  <2>2. Meets(V(E), G) <=> \E r \in E : M(r)
    <3> HIDE DEF E
    <3>1. QED
      BY ValueSome
  <2>3. \A k : AfterKey(doc, k, G) <=> \E r \in B(k) : M(r)
    <3>1. \A k : AfterKey(doc, k, G) <=> Meets(V(B(k)), G)
      BY DEF AfterKey
    <3> HIDE DEF B
    <3>2. \A k : Meets(V(B(k)), G) <=> \E r \in B(k) : M(r)
      BY ValueSome
    <3>3. QED
      BY <3>1, <3>2
  <2> HIDE DEF E, B, M, V, G
  <2>4. QED
    BY <2>1, <2>2, <2>3
<1>5. p \in InTable(doc, S) <=> Closes(doc, p, S) \/ Meets(EntryEnds(doc, L, p), G)
  BY DocPlaces, ListUnfolds
<1> HIDE DEF E, V, L, G
<1>6. QED
  BY <1>1, <1>2, <1>3, <1>4, <1>5 DEF G

-----------------------------------------------------------------------------
(* What a call of ELTN_Parser_next makes of what was expected.             *)

NoMemory == event = "ERROR" /\ errcode = "OUT_OF_MEMORY"

(* The document goes on as ok says exactly if it does as the next event    *)
(* says, unless memory failed.                                             *)
Turns(ok) == NoMemory' \/ (ok <=> Expects(doc, event', depth', no_defs', pos'))

ClosableHere == Closable(doc, no_defs)[depth]

LEMMA ErrorTurns ==
  ASSUME NEW q, NEW t, SignalError(q, t)
  PROVE  Turns(FALSE)
BY ExpectsOf DEF SignalError, Turns

LEMMA SetEventTurns ==
  ASSUME NEW q, NEW ev, SetEvent(q, ev)
  PROVE  event' = ev \/ NoMemory'
BY DEF SetEvent, NoMemory

LEMMA ClosableInTable ==
  ASSUME depth \in Nat, depth > 0
  PROVE  ClosableHere = InList(doc, Closable(doc, no_defs)[depth - 1])
<1>1. depth - 1 \in Nat /\ (depth - 1) + 1 = depth
  OBVIOUS
<1>2. QED
  BY <1>1, ClosableIs DEF ClosableHere

LEMMA ValueTurns ==
  ASSUME doc \in Seq(DocToken), depth \in Nat, UNCHANGED no_defs,
         NEW p \in 1 .. End, NEW v, Reads(p, v),
         \/ ExpectValue(v)
         \/ /\ Token(v) \notin ScalarToken \cup {"CURLY_OPEN"}
            /\ SignalError(v, Token(v)) /\ UNCHANGED depth,
         pos' = After(v)
  PROVE  Turns(Meets(ValueEnds(doc, ListEnds(doc), {p}), ClosableHere))
<1> DEFINE Ok == Meets(ValueEnds(doc, ListEnds(doc), {p}), ClosableHere)
<1>1. Ok <=> \/ Token(v) \in ScalarToken /\ After(v) \in ClosableHere
             \/ Token(v) = "CURLY_OPEN" /\ After(v) \in InTable(doc, ClosableHere)
  BY ValueRead
<1> HIDE DEF Ok
<1>2. CASE Token(v) \in ScalarToken /\ SetEvent(v, ScalarEventOf(Token(v))) /\ UNCHANGED depth
  <2>1. event' = ScalarEventOf(Token(v)) \/ NoMemory'
    BY <1>2, SetEventTurns
  <2>2. ScalarEventOf(Token(v)) \in ScalarEvent /\ Token(v) # "CURLY_OPEN"
    BY <1>2, ScalarFits, TokenKinds
  <2>3. ASSUME event' \in ScalarEvent
        PROVE  Expects(doc, event', depth', no_defs', pos') <=> After(v) \in ClosableHere
    <3>1. Expects(doc, event', depth, no_defs, After(v)) <=> After(v) \in Closable(doc, no_defs)[depth]
      BY <2>3, ExpectsOf
    <3>2. QED
      BY <1>2, <3>1 DEF ClosableHere
  <2>4. QED
    BY <1>1, <1>2, <2>1, <2>2, <2>3 DEF Turns, Ok
<1>3. CASE ExpectTableStart(v)
  <2>1. Token(v) = "CURLY_OPEN" /\ Token(v) \notin ScalarToken /\ depth' = depth + 1
    BY <1>3, TokenKinds DEF ExpectTableStart
  <2>2. event' = "TABLE_START" \/ NoMemory'
    BY <1>3, SetEventTurns DEF ExpectTableStart
  <2>3. ASSUME event' = "TABLE_START"
        PROVE  Expects(doc, event', depth', no_defs', pos') <=> After(v) \in InTable(doc, ClosableHere)
    <3>1. Expects(doc, "TABLE_START", depth + 1, no_defs, After(v))
            <=> After(v) \in InTable(doc, Closable(doc, no_defs)[(depth + 1) - 1])
      BY ExpectsOf
    <3>2. (depth + 1) - 1 = depth
      OBVIOUS
    <3>3. QED
      BY <2>1, <2>3, <3>1, <3>2 DEF ClosableHere
  <2>4. QED
    BY <1>1, <2>1, <2>2, <2>3 DEF Turns, Ok
<1>4. CASE Token(v) \notin ScalarToken \cup {"CURLY_OPEN"} /\ SignalError(v, Token(v))
  BY <1>1, <1>4, ErrorTurns DEF Turns, Ok
<1>5. QED
  BY <1>2, <1>3, <1>4 DEF ExpectValue, Ok

(* A key was read, in brackets or not. *)
LEMMA KeyTurns ==
  ASSUME NEW q, NEW ev \in KeyEvent \cup {"DEF_NAME"}, SetEvent(q, ev), UNCHANGED <<depth, no_defs>>
  PROVE  Turns(AfterKey(doc, pos', ClosableHere))
<1>1. event' = ev \/ NoMemory'
  BY SetEventTurns
<1>2. Expects(doc, ev, depth, no_defs, pos') <=> AfterKey(doc, pos', Closable(doc, no_defs)[depth])
  BY ExpectsOf
<1>3. QED
  BY <1>1, <1>2 DEF Turns, ClosableHere

LEMMA TableEndTurns ==
  ASSUME doc \in Seq(DocToken), depth \in Nat, UNCHANGED no_defs, NEW q, ExpectTableEnd(q)
  PROVE  Turns(pos' \in Closable(doc, no_defs)[depth - 1])
<1>1. event' = "TABLE_END" \/ NoMemory'
  BY SetEventTurns DEF ExpectTableEnd
<1>2. Expects(doc, "TABLE_END", depth - 1, no_defs, pos') <=> pos' \in Closable(doc, no_defs)[depth - 1]
  BY ExpectsOf
<1>3. QED
  BY <1>1, <1>2 DEF Turns, ExpectTableEnd

LEMMA EntryTurns ==
  ASSUME doc \in Seq(DocToken), depth \in Nat, depth > 0, UNCHANGED no_defs,
         NEW p \in 1 .. End, NEW q, Reads(p, q), EntryOrTableEnd(q)
  PROVE  Turns(p \in InTable(doc, Closable(doc, no_defs)[depth - 1]))
<1> DEFINE S == Closable(doc, no_defs)[depth - 1]
           Ok == p \in InTable(doc, S)
<1>0. ClosableHere = InList(doc, S)
  BY ClosableInTable
<1>1. Ok <=> \/ Token(q) = "CURLY_CLOSE" /\ After(q) \in S
             \/ Token(q) \in ScalarToken /\ After(q) \in ClosableHere
             \/ Token(q) = "CURLY_OPEN" /\ After(q) \in InTable(doc, ClosableHere)
             \/ \E k \in KeyEnds(doc, p) : AfterKey(doc, k, ClosableHere)
  <2> HIDE DEF S
  <2>1. QED
    BY <1>0, EntryRead
<1> HIDE DEF S, Ok
<1>2. CASE /\ Token(q) = "NAME" /\ SetEvent(q, "KEY_STRING")
           /\ pos' = After(q) /\ UNCHANGED depth
  <2>1. KeyEnds(doc, p) = {After(q)}
    BY <1>2, KeyRead
  <2>2. Ok <=> AfterKey(doc, pos', ClosableHere)
    BY <1>1, <1>2, <2>1, TokenKinds
  <2>3. Turns(AfterKey(doc, pos', ClosableHere))
    BY <1>2, KeyTurns DEF KeyEvent
  <2>4. QED
    BY <2>2, <2>3 DEF Turns, Ok, S
<1>3. ASSUME NEW k, Token(q) = "SQUARE_OPEN", Reads(After(q), k),
             NEW c, Reads(After(k), c), BracketedKey(k, c), pos' = After(c)
      PROVE  Turns(Ok)
  <2>1. Token(k) \in KeyToken /\ UNCHANGED depth
    BY <1>3 DEF BracketedKey
  <2>2. KeyEnds(doc, p) = IF Token(c) = "SQUARE_CLOSE" THEN {After(c)} ELSE {}
    BY <1>3, <2>1, KeyRead
  <2>3. Ok <=> \E r \in KeyEnds(doc, p) : AfterKey(doc, r, ClosableHere)
    BY <1>1, <1>3, TokenKinds
  <2>4. CASE Token(c) = "SQUARE_CLOSE"
    <3>1. Ok <=> AfterKey(doc, pos', ClosableHere)
      BY <1>3, <2>2, <2>3, <2>4
    <3>2. SetEvent(k, KeyEventOf(Token(k))) /\ KeyEventOf(Token(k)) \in KeyEvent
      BY <1>3, <2>1, <2>4, KeyFits DEF BracketedKey
    <3>3. Turns(AfterKey(doc, pos', ClosableHere))
      BY <2>1, <3>2, KeyTurns
    <3>4. QED
      BY <3>1, <3>3 DEF Turns
  <2>5. CASE Token(c) # "SQUARE_CLOSE"
    <3>1. ~Ok
      BY <2>2, <2>3, <2>5
    <3>2. Turns(FALSE)
      BY <1>3, <2>5, ErrorTurns DEF BracketedKey
    <3>3. QED
      BY <3>1, <3>2 DEF Turns
  <2>6. QED
    BY <2>4, <2>5
<1>4. ASSUME NEW k, Token(q) = "SQUARE_OPEN", Reads(After(q), k),
             Token(k) \notin KeyToken, SignalError(k, Token(q))
      PROVE  Turns(Ok)
  <2>1. KeyEnds(doc, p) = {}
    BY <1>4, KeyRead
  <2>2. ~Ok
    BY <1>1, <1>4, <2>1, TokenKinds
  <2>3. Turns(FALSE)
    BY <1>4, ErrorTurns
  <2>4. QED
    BY <2>2, <2>3 DEF Turns
<1>5. CASE ExpectValue(q) /\ pos' = After(q)
  <2>1. Token(q) \in ScalarToken \cup {"CURLY_OPEN"}
    BY <1>5 DEF ExpectValue, ExpectTableStart
  <2>2. KeyEnds(doc, p) = {} /\ Token(q) # "CURLY_CLOSE"
    BY <2>1, KeyRead, TokenKinds
  <2>3. Ok <=> Meets(ValueEnds(doc, ListEnds(doc), {p}), ClosableHere)
    BY <1>1, <2>2, ValueRead
  <2>4. Turns(Meets(ValueEnds(doc, ListEnds(doc), {p}), ClosableHere))
    BY <1>5, ValueTurns
  <2>5. QED
    BY <2>3, <2>4 DEF Turns, Ok, S
<1>6. CASE ExpectTableEnd(q) /\ pos' = After(q)
  <2>1. Token(q) = "CURLY_CLOSE" /\ Token(q) \notin ScalarToken
    BY <1>6, TokenKinds DEF ExpectTableEnd
  <2>2. KeyEnds(doc, p) = {}
    BY <2>1, KeyRead
  <2>3. Ok <=> pos' \in S
    BY <1>1, <1>6, <2>1, <2>2
  <2>4. Turns(pos' \in S)
    BY <1>6, TableEndTurns DEF S
  <2>5. QED
    BY <2>3, <2>4 DEF Turns, Ok, S
<1>7. CASE /\ Token(q) \notin ScalarToken \cup {"NAME", "SQUARE_OPEN",
                                                "CURLY_OPEN", "CURLY_CLOSE"}
           /\ SignalError(q, Token(q))
  <2>1. KeyEnds(doc, p) = {}
    BY <1>7, KeyRead
  <2>2. ~Ok
    BY <1>1, <1>7, <2>1
  <2>3. Turns(FALSE)
    BY <1>7, ErrorTurns
  <2>4. QED
    BY <2>2, <2>3 DEF Turns, Ok, S
<1>8. Turns(Ok)
  <2>1. CASE /\ Token(q) = "SQUARE_OPEN"
             /\ \E k \in q .. End :
                  /\ Reads(After(q), k)
                  /\ \/ \E c \in k .. End :
                          /\ Reads(After(k), c)
                          /\ BracketedKey(k, c)
                          /\ pos' = After(c)
                     \/ /\ Token(k) \notin KeyToken
                        /\ SignalError(k, Token(q))
                        /\ pos' = After(k)
                        /\ UNCHANGED depth
    BY <1>3, <1>4, <2>1
  <2>2. QED
    BY <1>2, <1>5, <1>6, <1>7, <2>1 DEF EntryOrTableEnd, Ok, S
<1>9. QED
  BY <1>8 DEF Ok, S

(* Definitions may go on, or the document end. *)
LEMMA DefinitionTurns ==
  ASSUME doc \in Seq(DocToken), depth = 0, ~no_defs,
         NEW p \in 1 .. End, NEW q, Reads(p, q), DefinitionOrStreamEnd(q)
  PROVE  Turns(DefsToEnd(doc)[p])
<1> DEFINE N == Past(doc, {p}, Comment \cup {"SEMICOLON"}, {"NAME"})
           Ok == DefsToEnd(doc)[p]
<1>0. End \in Nat /\ q \in 1 .. End /\ UNCHANGED no_defs /\ p \in Places(doc)
  BY DocPlaces, ReadsStays DEF DefinitionOrStreamEnd
<1>1. PICK d \in q .. End :
        /\ SkipsSemicolons(q, d)
        /\ pos' = After(d)
        /\ \/ Token(d) = "NAME" /\ SetEvent(d, "DEF_NAME") /\ UNCHANGED depth
           \/ Token(d) # "NAME" /\ ExpectStreamEnd(q)
           \/ /\ Token(d) # "NAME" /\ Token(q) # "EOF"
              /\ SignalError(d, Token(q))
              /\ UNCHANGED depth
  BY DEF DefinitionOrStreamEnd
<1>2. N = IF Token(d) = "NAME" THEN {After(d)} ELSE {}
  BY <1>1, NameRead
<1>3. Ok <=> Token(q) = "EOF" \/ \E e \in DefinitionEnds(doc, p) : DefsToEnd(doc)[e]
  BY <1>0, DocPlaces, DefinitionsAreSolved, EndRead
<1>4. DefinitionEnds(doc, p) = ValueEnds(doc, ListEnds(doc), Behind(doc, N, {"EQUALS"}))
  BY DEF DefinitionEnds
<1>5. (\E e \in DefinitionEnds(doc, p) : DefsToEnd(doc)[e])
        <=> Meets(DefinitionEnds(doc, p), ClosableHere)
  <2>1. DefinitionEnds(doc, p) \subseteq Places(doc)
    <3>1. DefinitionEnds(doc, p) \subseteq p + 1 .. Len(doc) + 1
      BY <1>0, DocPlaces, DefinitionIsLater
    <3>2. p + 1 .. Len(doc) + 1 \subseteq Places(doc)
      BY DocPlaces DEF Places
    <3>3. QED
      BY <3>1, <3>2
  <2>2. ClosableHere = {e \in Places(doc) : DefsToEnd(doc)[e]}
    <3>1. ClosableHere = TopPlaces(doc, no_defs)
      BY ClosableIs DEF ClosableHere
    <3>2. QED
      BY <3>1 DEF TopPlaces
  <2>3. QED
    BY <2>1, <2>2 DEF Meets
<1> HIDE DEF N, Ok
<1>6. CASE Token(d) = "NAME" /\ SetEvent(d, "DEF_NAME") /\ UNCHANGED depth
  <2>1. Token(q) # "EOF"
    <3>1. d # End
      BY <1>0, <1>6, EofAtEnd
    <3>2. q # End
      BY <1>0, <1>1, <3>1
    <3>3. QED
      BY <1>0, <3>2, EofAtEnd
  <2>2. Ok <=> AfterKey(doc, pos', ClosableHere)
    BY <1>1, <1>2, <1>3, <1>4, <1>5, <1>6, <2>1 DEF AfterKey
  <2>3. Turns(AfterKey(doc, pos', ClosableHere))
    BY <1>0, <1>6, KeyTurns
  <2>4. QED
    BY <2>2, <2>3 DEF Turns, Ok
<1>7. Token(d) # "NAME" => DefinitionEnds(doc, p) = {}
  <2> SUFFICES ASSUME N = {} PROVE DefinitionEnds(doc, p) = {}
    BY <1>2
  <2>1. Behind(doc, N, {"EQUALS"}) = {}
    BY BehindNone
  <2>2. ValueEnds(doc, ListEnds(doc), {}) = {}
    <3>1. UNION {ListEnds(doc)[a] : a \in {}} = {}
      OBVIOUS
    <3>2. QED
      BY <3>1, BehindNone DEF ValueEnds, TableEnds
  <2>3. QED
    BY <1>4, <2>1, <2>2
<1>8. CASE Token(d) # "NAME" /\ ExpectStreamEnd(q)
  <2>1. event' = "STREAM_END" \/ NoMemory'
    BY <1>8, SetEventTurns DEF ExpectStreamEnd
  <2>2. Ok
    BY <1>3, <1>8 DEF ExpectStreamEnd
  <2>3. QED
    BY <2>1, <2>2, ExpectsOf DEF Turns, Ok
<1>9. CASE /\ Token(d) # "NAME" /\ Token(q) # "EOF"
           /\ SignalError(d, Token(q))
  <2>1. ~Ok
    BY <1>3, <1>7, <1>9
  <2>2. Turns(FALSE)
    BY <1>9, ErrorTurns
  <2>3. QED
    BY <2>1, <2>2 DEF Turns, Ok
<1>10. QED
  BY <1>1, <1>6, <1>8, <1>9

(* The first token decides what the document is. *)
LEMMA StartTurns ==
  ASSUME IInv, pos = 1, NEW q \in 1 .. End, Reads(pos, q), AtStreamStart(q)
  PROVE  Turns(IsDocument(doc))
<1>0. /\ doc \in Seq(DocToken) /\ depth = 0 /\ ~no_defs /\ End \in Nat
      /\ 1 \in 1 .. End /\ 1 \in Places(doc) /\ Reads(1, q)
  BY EndType, DocPlaces DEF IInv, AtStreamStart
<1> DEFINE Single == \E e \in TableEnds(doc, ListEnds(doc), {1}) : OnlyComments(doc, e)
<1>1. Single <=> /\ Token(q) = "CURLY_OPEN"
                 /\ After(q) \in InTable(doc, TopPlaces(doc, TRUE))
  <2>1. TableEnds(doc, ListEnds(doc), {1}) \subseteq Places(doc)
    <3>1. /\ {1} \in SUBSET (1 .. Len(doc) + 1) /\ Onward(doc, ListEnds(doc), 1)
      BY <1>0, DocPlaces, ListsAreSolved DEF Onward, Places
    <3>2. ValueEnds(doc, ListEnds(doc), {1}) \subseteq 1 + 1 .. Len(doc) + 1
      BY <1>0, <3>1, DocPlaces, EndsAreLater
    <3>3. 1 + 1 .. Len(doc) + 1 \subseteq Places(doc)
      BY DocPlaces, <1>0 DEF Places
    <3>4. QED
      BY <3>2, <3>3 DEF ValueEnds
  <2>2. Single <=> Meets(TableEnds(doc, ListEnds(doc), {1}), TopPlaces(doc, TRUE))
    BY <2>1 DEF Meets, TopPlaces
  <2>3. Meets(TableEnds(doc, ListEnds(doc), {1}), TopPlaces(doc, TRUE))
          <=> \E a \in Behind(doc, {1}, {"CURLY_OPEN"}) : a \in InTable(doc, TopPlaces(doc, TRUE))
    BY <1>0, DocPlaces, TableUnfolds
  <2>4. (\E a \in Behind(doc, {1}, {"CURLY_OPEN"}) : a \in InTable(doc, TopPlaces(doc, TRUE)))
          <=> Token(q) = "CURLY_OPEN" /\ After(q) \in InTable(doc, TopPlaces(doc, TRUE))
    <3> DEFINE S == InTable(doc, TopPlaces(doc, TRUE))
    <3> HIDE DEF S
    <3>1. (\E a \in Behind(doc, {1}, {"CURLY_OPEN"}) : a \in S)
            <=> Token(q) \in {"CURLY_OPEN"} /\ After(q) \in S
      BY <1>0, TokenRead
    <3>2. QED
      BY <3>1 DEF S
  <2>5. QED
    BY <2>2, <2>3, <2>4
<1>2. IsDocument(doc) <=> DefsToEnd(doc)[1] \/ Single
  BY DEF IsDocument
<1> HIDE DEF Single
<1>3. CASE ExpectTableStart(q) /\ pos' = After(q) /\ no_defs' = TRUE
  <2>1. Token(q) = "CURLY_OPEN" /\ depth' = 1
    BY <1>0, <1>3 DEF ExpectTableStart
  <2>2. ~DefsToEnd(doc)[1]
    <3>1. SkipsSemicolons(q, q)
      BY <1>0, <2>1 DEF SkipsSemicolons, Comment
    <3>2. Past(doc, {1}, Comment \cup {"SEMICOLON"}, {"NAME"}) = {}
      BY <1>0, <2>1, <3>1, NameRead
    <3>3. DefinitionEnds(doc, 1) = {}
      <4>1. DefinitionEnds(doc, 1) = ValueEnds(doc, ListEnds(doc), {})
        BY <3>2, BehindNone DEF DefinitionEnds
      <4>2. UNION {ListEnds(doc)[a] : a \in {}} = {}
        OBVIOUS
      <4>3. QED
        BY <4>1, <4>2, BehindNone DEF ValueEnds, TableEnds
    <3>4. ~OnlyComments(doc, 1)
      BY <1>0, <2>1, EndRead
    <3>5. QED
      BY <1>0, <3>3, <3>4, DocPlaces, DefinitionsAreSolved
  <2>3. event' = "TABLE_START" \/ NoMemory'
    BY <1>3, SetEventTurns DEF ExpectTableStart
  <2>4. Expects(doc, "TABLE_START", 1, TRUE, After(q))
          <=> After(q) \in InTable(doc, TopPlaces(doc, TRUE))
    <3>1. 1 - 1 = 0
      OBVIOUS
    <3>2. Expects(doc, "TABLE_START", 1, TRUE, After(q))
            <=> After(q) \in InTable(doc, Closable(doc, TRUE)[1 - 1])
      BY ExpectsOf
    <3>3. QED
      BY <3>1, <3>2, ClosableIs
  <2>5. IsDocument(doc) <=> Expects(doc, "TABLE_START", 1, TRUE, After(q))
    BY <1>1, <1>2, <2>1, <2>2, <2>4
  <2>6. QED
    BY <1>3, <2>1, <2>3, <2>5 DEF Turns
<1>4. CASE Token(q) # "CURLY_OPEN" /\ DefinitionOrStreamEnd(q)
  <2>1. Turns(DefsToEnd(doc)[1])
    BY <1>0, <1>4, DefinitionTurns
  <2>2. IsDocument(doc) <=> DefsToEnd(doc)[1]
    BY <1>1, <1>2, <1>4
  <2>3. QED
    BY <2>1, <2>2 DEF Turns
<1>5. QED
  BY <1>3, <1>4 DEF AtStreamStart

(* Behind a value at the top, and behind one in a table. *)
LEMMA TopTurns ==
  ASSUME IInv, NEW q \in 1 .. End, Reads(pos, q), AfterTopValue(q)
  PROVE  Turns(pos \in ClosableHere)
<1>0. /\ doc \in Seq(DocToken) /\ pos \in 1 .. End /\ depth = 0 /\ no_defs \in BOOLEAN
      /\ pos \in Places(doc)
  BY DocPlaces DEF IInv, AfterTopValue
<1>1. ClosableHere = TopPlaces(doc, no_defs)
  BY <1>0, ClosableIs DEF ClosableHere
<1>2. CASE ~no_defs /\ DefinitionOrStreamEnd(q)
  <2>1. pos \in ClosableHere <=> DefsToEnd(doc)[pos]
    BY <1>0, <1>1, <1>2 DEF TopPlaces
  <2>2. Turns(DefsToEnd(doc)[pos])
    BY <1>0, <1>2, DefinitionTurns
  <2>3. QED
    BY <2>1, <2>2 DEF Turns
<1>3. no_defs => (pos \in ClosableHere <=> Token(q) = "EOF")
  BY <1>0, <1>1, EndRead DEF TopPlaces
<1>4. CASE no_defs /\ ExpectStreamEnd(q)
  <2>1. event' = "STREAM_END" \/ NoMemory'
    BY <1>4, SetEventTurns DEF ExpectStreamEnd
  <2>2. QED
    BY <1>3, <1>4, <2>1, ExpectsOf DEF Turns, ExpectStreamEnd
<1>5. CASE no_defs /\ Token(q) # "EOF" /\ SignalError(q, Token(q))
  BY <1>3, <1>5, ErrorTurns DEF Turns
<1>6. QED
  BY <1>2, <1>4, <1>5 DEF AfterTopValue

LEMMA TableTurns ==
  ASSUME IInv, NEW q \in 1 .. End, Reads(pos, q), AfterTableValue(q)
  PROVE  Turns(pos \in ClosableHere)
<1> DEFINE S == Closable(doc, no_defs)[depth - 1]
           Ok == pos \in ClosableHere
<1>0. /\ doc \in Seq(DocToken) /\ pos \in 1 .. End /\ depth \in Nat /\ depth > 0
      /\ UNCHANGED no_defs /\ End \in Nat /\ After(q) \in 1 .. End
  BY EndType, AfterStays DEF IInv, AfterTableValue
<1>1. Ok <=> \/ Token(q) = "CURLY_CLOSE" /\ After(q) \in S
             \/ Token(q) \in Separator /\ After(q) \in InTable(doc, S)
  <2>1. ClosableHere = InList(doc, S)
    BY <1>0, ClosableInTable
  <2> HIDE DEF S
  <2>2. Closes(doc, pos, S) <=> Token(q) = "CURLY_CLOSE" /\ After(q) \in S
    BY <1>0, TokenRead DEF Closes, Meets
  <2>3. (\E a \in Behind(doc, {pos}, Separator) : a \in InTable(doc, S))
          <=> Token(q) \in Separator /\ After(q) \in InTable(doc, S)
    <3> DEFINE G == InTable(doc, S)
    <3> HIDE DEF G
    <3>1. (\E a \in Behind(doc, {pos}, Separator) : a \in G)
            <=> Token(q) \in Separator /\ After(q) \in G
      BY <1>0, TokenRead
    <3>2. QED
      BY <3>1 DEF G
  <2>4. pos \in InList(doc, S)
          <=> Closes(doc, pos, S) \/ \E a \in Behind(doc, {pos}, Separator) : a \in InTable(doc, S)
    BY <1>0, DocPlaces, MoreUnfolds
  <2>5. QED
    BY <2>1, <2>2, <2>3, <2>4
<1> HIDE DEF Ok, S
<1>2. ASSUME NEW e, Token(q) \in Separator, Reads(After(q), e), EntryOrTableEnd(e)
      PROVE  Turns(Ok)
  <2>1. Ok <=> After(q) \in InTable(doc, S)
    BY <1>1, <1>2, TokenKinds
  <2>2. Turns(After(q) \in InTable(doc, S))
    BY <1>0, <1>2, EntryTurns DEF S
  <2>3. QED
    BY <2>1, <2>2 DEF Turns
<1>3. CASE ExpectTableEnd(q) /\ pos' = After(q)
  <2>1. Ok <=> pos' \in S
    BY <1>1, <1>3, TokenKinds DEF ExpectTableEnd
  <2>2. Turns(pos' \in S)
    BY <1>0, <1>3, TableEndTurns DEF S
  <2>3. QED
    BY <2>1, <2>2 DEF Turns, Ok
<1>4. CASE Token(q) \notin Separator \cup {"CURLY_CLOSE"} /\ SignalError(q, Token(q))
  BY <1>1, <1>4, ErrorTurns DEF Turns, Ok
<1>5. QED
  BY <1>2, <1>3, <1>4 DEF AfterTableValue, Ok

LEMMA EqualsTurns ==
  ASSUME IInv, NEW q \in 1 .. End, Reads(pos, q), AtEquals(q)
  PROVE  Turns(AfterKey(doc, pos, ClosableHere))
<1> DEFINE E == Behind(doc, {pos}, {"EQUALS"})
           Ok == AfterKey(doc, pos, ClosableHere)
<1>0. /\ doc \in Seq(DocToken) /\ pos \in 1 .. End /\ depth \in Nat
      /\ UNCHANGED no_defs /\ End \in Nat /\ After(q) \in 1 .. End
  BY EndType, AfterStays DEF IInv, AtEquals
<1>1. E = IF Token(q) = "EQUALS" THEN {After(q)} ELSE {}
  <2>1. "EOF" \notin {"EQUALS"} /\ {"EQUALS"} \cap Comment = {}
    BY DEF Comment
  <2>2. E = IF Token(q) \in {"EQUALS"} THEN {After(q)} ELSE {}
    BY <1>0, <2>1, BehindRead
  <2>3. QED
    BY <2>2
<1>2. Ok <=> Meets(ValueEnds(doc, ListEnds(doc), E), ClosableHere)
  BY DEF AfterKey
<1> HIDE DEF E, Ok
<1>3. CASE Token(q) # "EQUALS" /\ SignalError(q, Token(q))
  <2>1. ~Ok
    <3>1. E = {}
      BY <1>1, <1>3
    <3>2. Meets(ValueEnds(doc, ListEnds(doc), E), ClosableHere)
            <=> \E p \in E : Meets(ValueEnds(doc, ListEnds(doc), {p}), ClosableHere)
      BY ValueSome
    <3>3. QED
      BY <1>2, <3>1, <3>2
  <2>2. QED
    BY <1>3, <2>1, ErrorTurns DEF Turns, Ok
<1>4. ASSUME NEW v, Token(q) = "EQUALS", Reads(After(q), v), pos' = After(v),
             \/ ExpectValue(v)
             \/ /\ Token(v) \notin ScalarToken \cup {"CURLY_OPEN"}
                /\ SignalError(v, Token(v)) /\ UNCHANGED depth
      PROVE  Turns(Ok)
  <2>1. Ok <=> Meets(ValueEnds(doc, ListEnds(doc), {After(q)}), ClosableHere)
    BY <1>1, <1>2, <1>4
  <2>2. Turns(Meets(ValueEnds(doc, ListEnds(doc), {After(q)}), ClosableHere))
    BY <1>0, <1>4, ValueTurns
  <2>3. QED
    BY <2>1, <2>2 DEF Turns
<1>5. CASE /\ Token(q) = "EQUALS"
           /\ \E v \in q .. End :
                /\ Reads(After(q), v)
                /\ pos' = After(v)
                /\ \/ ExpectValue(v)
                   \/ /\ Token(v) \notin ScalarToken \cup {"CURLY_OPEN"}
                      /\ SignalError(v, Token(v))
                      /\ UNCHANGED depth
  BY <1>4, <1>5 DEF Ok
<1>6. QED
  BY <1>3, <1>5 DEF AtEquals

-----------------------------------------------------------------------------
(* The inductive invariant: unless memory has failed, the document is one  *)
(* of the language exactly if what is left of it is what must come next.   *)
LanguageInv ==
  /\ event = "STREAM_START" => pos = 1
  /\ NoMemory \/ (IsDocument(doc) <=> Expects(doc, event, depth, no_defs, pos))

LEMMA InitLanguage == Init => LanguageInv
<1> SUFFICES ASSUME Init PROVE LanguageInv
  OBVIOUS
<1>1. Expects(doc, "STREAM_START", depth, no_defs, pos) <=> IsDocument(doc)
  BY ExpectsOf
<1>2. QED
  BY <1>1 DEF Init, LanguageInv

(* After the first call the parser is not at the start any more. *)
LEMMA NeverStartsAgain ==
  ASSUME IInv, ParserNext
  PROVE  event' # "STREAM_START"
<1>1. [Stream!Next]_(Stream!vars)
  BY Step
<1>2. CASE event # "STREAM_START"
  BY <1>1, <1>2
  DEF Stream!Next, Stream!Define, Stream!NameEntry, Stream!GiveScalar, Stream!StartTable,
      Stream!EndTable, Stream!EndStream, Stream!Fail, Stream!Key, Stream!Scalar, Stream!vars
<1>3. CASE event = "STREAM_START"
  <2>1. PICK q \in pos .. End : Reads(pos, q) /\ AtStreamStart(q)
    BY <1>3 DEF ParserNext, AtEquals, AfterTopValue, AfterTableValue, AtTableStart, Finished,
           ValueDone, ScalarEvent, KeyEvent
  <2>2. q \in 1 .. End /\ Token(q) \notin Comment /\ HasNext /\ UNCHANGED doc
    BY <1>3, <2>1, EndType, ReadsStays DEF IInv, HasNext, ParserNext
  <2>3. CASE ExpectTableStart(q)
    BY <2>2, <2>3, TableStartStep
  <2>4. CASE DefinitionOrStreamEnd(q)
    BY <2>2, <2>4, DefinitionStep
  <2>5. QED
    BY <2>1, <2>3, <2>4 DEF AtStreamStart
<1>4. QED
  BY <1>2, <1>3

LEMMA LanguageKept == IInv /\ LanguageInv /\ [ParserNext]_vars => LanguageInv'
<1> SUFFICES ASSUME IInv, LanguageInv, [ParserNext]_vars PROVE LanguageInv'
  OBVIOUS
<1>1. CASE UNCHANGED vars
  BY <1>1 DEF vars, LanguageInv, NoMemory
<1>2. CASE ParserNext
  <2> DEFINE Now == Expects(doc, event, depth, no_defs, pos)
             Kept == NoMemory' \/ (IsDocument(doc) <=> Expects(doc, event', depth', no_defs', pos'))
  <2>0. /\ doc' = doc /\ End \in Nat /\ pos \in 1 .. End /\ depth \in Nat
        /\ doc \in Seq(DocToken)
    BY <1>2, EndType DEF IInv, ParserNext
  <2>1. PICK q \in pos .. End :
          /\ Reads(pos, q)
          /\ \/ AtStreamStart(q)
             \/ AtEquals(q)
             \/ AfterTopValue(q)
             \/ AfterTableValue(q)
             \/ AtTableStart(q)
             \/ Finished(q)
    BY <1>2 DEF ParserNext
  <2>2. q \in 1 .. End
    BY <2>0
  <2>3. HasNext => (IsDocument(doc) <=> Now)
    BY DEF LanguageInv, NoMemory, HasNext
  <2>4. ASSUME AtStreamStart(q) PROVE Kept
    <3>1. pos = 1
      BY <2>4 DEF AtStreamStart, LanguageInv
    <3>2. Turns(IsDocument(doc))
      BY <2>1, <2>2, <2>4, <3>1, StartTurns
    <3>3. QED
      BY <3>2 DEF Turns
  <2>5. ASSUME AtEquals(q) PROVE Kept
    <3>1. HasNext /\ event \in KeyEvent \cup {"DEF_NAME"}
      BY <2>5 DEF AtEquals, HasNext, KeyEvent
    <3>2. Now <=> AfterKey(doc, pos, ClosableHere)
      BY <3>1, ExpectsOf DEF ClosableHere
    <3>3. Turns(AfterKey(doc, pos, ClosableHere))
      BY <2>1, <2>2, <2>5, EqualsTurns
    <3>4. QED
      BY <2>3, <3>1, <3>2, <3>3 DEF Turns
  <2>6. ASSUME AfterTopValue(q) \/ AfterTableValue(q) PROVE Kept
    <3>1. HasNext /\ event \in ScalarEvent \cup {"TABLE_END"}
      BY <2>6 DEF AfterTopValue, AfterTableValue, ValueDone, HasNext, ScalarEvent
    <3>2. Now <=> pos \in ClosableHere
      BY <3>1, ExpectsOf DEF ClosableHere
    <3>3. Turns(pos \in ClosableHere)
      BY <2>1, <2>2, <2>6, TopTurns, TableTurns
    <3>4. QED
      BY <2>3, <3>1, <3>2, <3>3 DEF Turns
  <2>7. ASSUME AtTableStart(q) PROVE Kept
    <3>1. HasNext /\ event = "TABLE_START" /\ depth > 0 /\ UNCHANGED no_defs
      BY <2>7 DEF AtTableStart, HasNext, IInv
    <3>2. Now <=> pos \in InTable(doc, Closable(doc, no_defs)[depth - 1])
      BY <3>1, ExpectsOf
    <3>3. Turns(pos \in InTable(doc, Closable(doc, no_defs)[depth - 1]))
      BY <2>0, <2>1, <2>7, <3>1, EntryTurns DEF AtTableStart
    <3>4. QED
      BY <2>3, <3>1, <3>2, <3>3 DEF Turns
  <2>8. ASSUME Finished(q) PROVE Kept
    <3>1. event' = event /\ errcode' = errcode /\ event \in {"STREAM_END", "ERROR"}
      BY <2>8 DEF Finished
    <3>2. Expects(doc, event', depth', no_defs', pos') <=> Now
      BY <3>1, ExpectsOf
    <3>3. QED
      BY <3>1, <3>2 DEF LanguageInv, NoMemory
  <2>9. Kept
    BY <2>1, <2>4, <2>5, <2>6, <2>7, <2>8
  <2>10. QED
    BY <1>2, <2>0, <2>9, NeverStartsAgain DEF LanguageInv
<1>3. QED
  BY <1>1, <1>2

(* ELTN_Parser_next comes to the end of the stream for the documents of    *)
(* the language, of any length and depth, with comments anywhere in them,  *)
(* and for nothing else; it refuses a document only without memory.        *)
THEOREM LanguageIsExact == Spec => []AcceptsExactlyDocuments
<1>1. LanguageInv => AcceptsExactlyDocuments
  <2>1. event = "STREAM_END" => Expects(doc, event, depth, no_defs, pos)
    BY ExpectsOf
  <2>2. event = "ERROR" => ~Expects(doc, event, depth, no_defs, pos)
    BY ExpectsOf
  <2>3. QED
    BY <2>1, <2>2 DEF LanguageInv, NoMemory, AcceptsExactlyDocuments
<1>2. QED
  BY <1>1, InitInv, Step, InitLanguage, LanguageKept, PTL DEF Spec

=============================================================================
