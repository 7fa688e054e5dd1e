------------------------------ MODULE Grammar ------------------------------
(***************************************************************************)
(* The documents of doc/eltn.md, rules document to entrysep, as sequences  *)
(* of tokens: a reference for what ELTN_Parser_next accepts that knows of  *)
(* no events and no depth.  Each operator says where a part of a document  *)
(* may end, by where it begins: a place p lies before the token s[p].      *)
(***************************************************************************)
EXTENDS Parser

(* The places behind a token of T that follows a place of P, with nothing  *)
(* but tokens of skipped between them.                                     *)
Past(s, P, skipped, T) ==
  {q + 1 : q \in {q \in DOMAIN s :
     /\ s[q] \in T
     /\ \E p \in P : p <= q /\ \A r \in p .. q - 1 : s[r] \in skipped}}

Behind(s, P, T) == Past(s, P, Comment, T)

(* There are only comments from p on. *)
OnlyComments(s, p) == \A r \in p .. Len(s) : s[r] \in Comment

(* Where a table may end, and a value, given where the lists of entries    *)
(* end that begin at each place.                                           *)
TableEnds(s, lists, P) ==
  Behind(s, UNION {lists[a] : a \in Behind(s, P, {"CURLY_OPEN"})}, {"CURLY_CLOSE"})

ValueEnds(s, lists, P) == Behind(s, P, ScalarToken) \cup TableEnds(s, lists, P)

(* An entry is a value, with a name or a key in brackets before it or      *)
(* without.                                                                *)
KeyEnds(s, p) ==
  Behind(s, {p}, {"NAME"}) \cup
  Behind(s, Behind(s, Behind(s, {p}, {"SQUARE_OPEN"}), KeyToken), {"SQUARE_CLOSE"})

EntryEnds(s, lists, p) ==
  ValueEnds(s, lists, {p}) \cup ValueEnds(s, lists, Behind(s, KeyEnds(s, p), {"EQUALS"}))

(* Entries with separators between them; one may follow the last. *)
MoreEnds(s, lists, e) == {e} \cup UNION {lists[a] : a \in Behind(s, {e}, Separator)}

ListEnds(s) ==
  LET lists[p \in 1 .. Len(s) + 1] ==
        {p} \cup UNION {MoreEnds(s, lists, e) : e \in EntryEnds(s, lists, p)}
  IN lists

(* Definitions, with any number of semicolons before each of them.  The    *)
(* grammar has at most one, and it allows one behind the last.             *)
DefinitionEnds(s, p) ==
  ValueEnds(s, ListEnds(s),
            Behind(s, Past(s, {p}, Comment \cup {"SEMICOLON"}, {"NAME"}), {"EQUALS"}))

DefsToEnd(s) ==
  LET defs[p \in 1 .. Len(s) + 1] ==
        OnlyComments(s, p) \/ \E e \in DefinitionEnds(s, p) : defs[e]
  IN defs

(* A document is definitions or one table. *)
IsDocument(s) ==
  \/ DefsToEnd(s)[1]
  \/ \E e \in TableEnds(s, ListEnds(s), {1}) : OnlyComments(s, e)

(* ELTN_Parser_next comes to the end of the stream without an error for    *)
(* the documents of the language, comments anywhere in them, and for no    *)
(* other text; a document is refused only if memory fails.                 *)
AcceptsExactlyDocuments ==
  /\ event = "STREAM_END" => IsDocument(doc)
  /\ event = "ERROR" /\ errcode # "OUT_OF_MEMORY" => ~IsDocument(doc)

=============================================================================
