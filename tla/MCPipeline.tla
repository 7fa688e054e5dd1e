----------------------------- MODULE MCPipeline -----------------------------
(***************************************************************************)
(* Pipeline over every document of at most MaxDoc characters of an         *)
(* alphabet with a quote, the parts of long brackets and of comments, a    *)
(* digit and a newline, in chunks of up to Block characters.               *)
(***************************************************************************)
EXTENDS Pipeline

CONSTANTS MaxDoc

MCAlphabet     == <<"quote", "[", "]", "-", "n", "0", "newline">>
MCByte         == 1 .. Len(MCAlphabet)
MCDigit        == {"0"}
MCNumberLetter == {"e"}
MCLetter       == {"e", "n", "z"}
MCOther        == {"!"}
MCTrueWord     == <<"z", "e">>
MCFalseWord    == <<"e", "z">>
MCNilWord      == <<"n", "n">>
MCKeyword      == {}
MCIsNumeral(w) == \A i \in DOMAIN w : w[i] = "0"

CharTexts(n) == UNION {[1 .. k -> Range(MCAlphabet)] : k \in 0 .. n}
MCDocs == CharTexts(MaxDoc) \cup {
  <<"[", "[", "]", "n", "]", "]", "0">>,
  <<"-", "-", "[", "[", "n", "]", "]">>,
  <<"quote", "newline", "n", "n", "0", "-", "0">>,
  <<"n", "quote", "0", "n", "[", "quote", "]">>}
MCChunk == UNION {[1 .. k -> MCByte] : k \in 0 .. Block}
=============================================================================
