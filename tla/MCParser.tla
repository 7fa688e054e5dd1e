------------------------------ MODULE MCParser ------------------------------
(***************************************************************************)
(* Parser over every short sequence of tokens, and over all that are near  *)
(* a longer document; the documents are made from a second writing of the  *)
(* grammar, which Grammar is compared with.                                *)
(***************************************************************************)
EXTENDS Grammar, SequencesExt

CONSTANTS
  AnyToken, MaxAny,      (* every sequence of these up to that length       *)
  Alphabet, MaxTokens    (* the tokens of longer documents, and how long    *)

AnyDocs == UNION {[1 .. n -> AnyToken] : n \in 0 .. MaxAny}

-----------------------------------------------------------------------------
(* The grammar of doc/eltn.md, rules document to entrysep, over tokens:    *)
(* the sentences of each length, without comments.                         *)

Joined(S, T) == {s \o t : s \in S, t \in T}
Word(t)      == {<<t>>}
Words(T)     == {<<t>> : t \in T}

RECURSIVE Values(_), Entries(_), EntryLists(_), DefLists(_, _)

Tables(n) ==
  IF n < 2 THEN {}
  ELSE Joined(Joined(Word("CURLY_OPEN"), EntryLists(n - 2)), Word("CURLY_CLOSE"))

Values(n) == Tables(n) \cup (IF n = 1 THEN Words(ScalarToken \cap Alphabet) ELSE {})

Entries(n) ==
  Values(n)
  \cup (IF n < 3 THEN {} ELSE Joined({<<"NAME", "EQUALS">>}, Values(n - 2)))
  \cup (IF n < 5 THEN {}
        ELSE Joined({<<"SQUARE_OPEN", k, "SQUARE_CLOSE", "EQUALS">> :
                       k \in KeyToken \cap Alphabet}, Values(n - 4)))

(* Entries separated by commas or semicolons; one may follow the last. *)
EntryLists(n) ==
  IF n = 0 THEN {<<>>}
  ELSE Entries(n) \cup
       UNION {Joined(Joined(Entries(k), Words(Separator \cap Alphabet)), EntryLists(n - k - 1)) :
                k \in 1 .. n - 1}

Definitions(n) ==
  IF n < 3 THEN {} ELSE Joined({<<"NAME", "EQUALS">>}, Values(n - 2))

(* Definitions, of which every one but the last may have a semicolon; and  *)
(* the last too, if trailing.                                              *)
DefLists(n, trailing) ==
  IF n = 0 THEN {<<>>}
  ELSE Definitions(n)
       \cup (IF trailing THEN Joined(Definitions(n - 1), Word("SEMICOLON")) ELSE {})
       \cup UNION {Joined(Definitions(k), DefLists(n - k, trailing)) :
                     k \in 3 .. n - 1}
       \cup UNION {Joined(Joined(Definitions(k), Word("SEMICOLON")),
                          DefLists(n - k - 1, trailing) \ {<<>>}) :
                     k \in 3 .. n - 1}

(* The documents of the grammar as eltn.md writes it. *)
GrammarDocs == UNION {Tables(n) \cup DefLists(n, TRUE) : n \in 0 .. MaxTokens}

(* The same without a semicolon behind the last definition. *)
PlainDocs == UNION {Tables(n) \cup DefLists(n, FALSE) : n \in 0 .. MaxTokens + 1}

(* The documents of the grammar and all that are one token away from one:  *)
(* a token left out, put in, or taken for another.                         *)
NearDocs ==
  GrammarDocs
  \cup UNION {{RemoveAt(s, p) : p \in 1 .. Len(s)} : s \in GrammarDocs}
  \cup UNION {{ReplaceAt(s, p, t) : p \in 1 .. Len(s), t \in Alphabet} :
                s \in GrammarDocs}
  \cup UNION {{InsertAt(s, p, t) : p \in 1 .. Len(s) + 1, t \in Alphabet} :
                s \in GrammarDocs}

MCDocs == AnyDocs \cup NearDocs

-----------------------------------------------------------------------------
(* The two ways to write the grammar agree: a sentence is a document as    *)
(* Grammar has it, and a document is a sentence once the semicolons the    *)
(* grammar has no rule for are left out, those before the first definition *)
(* and all but one between two.                                            *)
DepthAt(s, p) ==
  Cardinality({q \in 1 .. p : s[q] = "CURLY_OPEN"})
    - Cardinality({q \in 1 .. p : s[q] = "CURLY_CLOSE"})
ExtraSemicolon(s, p) ==
  /\ s[p] = "SEMICOLON" /\ DepthAt(s, p) = 0
  /\ p < Len(s)
  /\ p = 1 \/ s[p - 1] = "SEMICOLON"
Tidy(s) ==
  FoldLeft(LAMBDA acc, p : IF ExtraSemicolon(s, p) THEN acc ELSE Append(acc, s[p]),
           <<>>, [p \in 1 .. Len(s) |-> p])
Bare(s) == SelectSeq(s, LAMBDA t : t \notin Comment)

ASSUME GrammarsAgree ==
  /\ \A s \in PlainDocs : IsDocument(s)
  /\ \A s \in NearDocs : IsDocument(s) => Tidy(Bare(s)) \in PlainDocs

(* doc/eltn.md, line 716: definition = defname , ws , "=", ws , value ,    *)
(* [ ws, ";" ] -- every document of that grammar parses without an error.  *)
GrammarAccepted ==
  event = "ERROR" /\ errcode # "OUT_OF_MEMORY" => Bare(doc) \notin GrammarDocs

=============================================================================
