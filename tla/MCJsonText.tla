----------------------------- MODULE MCJsonText -----------------------------
(***************************************************************************)
(* JsonText over every text of up to three of twelve bytes and of four of  *)
(* six, and over documents made of tokens, with space or comments between  *)
(* them, cut off, with a token too few, or with two in the wrong order.    *)
(***************************************************************************)
EXTENDS JsonText

CONSTANTS
  MaxMemory, (* bound: allocations before the one that fails                *)
  MaxBlock   (* bound: size of a block of the client's                      *)

UpTo(n, S) == UNION {[1 .. k -> S] : k \in 0 .. n}
Plenty     == 1000

LetterA == 97   LetterB == 98
Doc(s, tree) == [text |-> s, tree |-> tree]
Leaf(type, value) == [type |-> type, text |-> value, items |-> <<>>]
List(type, items) == [type |-> type, text |-> Nil, items |-> items]
Quoted(s) == <<Quote>> \o s \o <<Quote>>

-----------------------------------------------------------------------------
(* Every text of up to three or four bytes, and the documents among them.  *)

AnyByte == {OpenArray, CloseArray, OpenObject, CloseObject, Comma, Colon, Quote, Backslash,
            49, Minus, Blank, LetterA}
AnyTexts == UpTo(3, AnyByte) \cup [1 .. 4 -> {OpenArray, CloseArray, Comma, Quote, Backslash, 49}]

Ones(n)    == FoldLeft(LAMBDA sum, i : 10 * sum + 1, 0, [i \in 1 .. n |-> i])
AllOnes(n) == [i \in 1 .. n |-> 49]
Spaces(n)  == [i \in 1 .. n |-> Blank]

ShortNumbers ==
  {Doc(AllOnes(n), Leaf("Number", <<Ones(n)>>)) : n \in 1 .. 4}
  \cup {Doc(<<Minus>> \o AllOnes(n), Leaf("Number", <<0 - Ones(n)>>)) : n \in 1 .. 3}
ShortStrings ==
  {Doc(Quoted(b), Leaf("String", b)) : b \in UpTo(2, AnyByte \ {Quote, Backslash})}
  \cup {Doc(Quoted(<<Backslash, c>>), Leaf("String", <<c>>)) : c \in {Quote, Backslash}}
EmptyLists ==
  UNION {{Doc(<<OpenArray>> \o Spaces(n) \o <<CloseArray>>, List("Array", <<>>)),
          Doc(<<OpenObject>> \o Spaces(n) \o <<CloseObject>>, List("Object", <<>>))} :
           n \in 0 .. 2}
Padded(d, n) ==
  {Doc(Spaces(a) \o d.text \o Spaces(b), d.tree) : a, b \in 0 .. n - Len(d.text)}
ShortLists ==
  EmptyLists
  \cup {Doc(<<OpenArray>> \o d.text \o <<CloseArray>>, List("Array", <<<<Nil, d.tree>>>>)) :
          d \in UNION {Padded(e, 2) : e \in ShortNumbers \cup ShortStrings \cup EmptyLists}}
AnyDocs ==
  {d \in UNION {Padded(e, 4) : e \in ShortNumbers \cup ShortStrings \cup ShortLists} :
     Len(d.text) <= 4 /\ Last(d.text) # Blank}

-----------------------------------------------------------------------------
(* Documents made of tokens.                                               *)

Tokens(toks, tree) == [toks |-> toks, tree |-> tree]
Piece(toks, items) == [toks |-> toks, items |-> items]

LeafDocs == {
  Tokens(<<NullText>>, Leaf("Null", Nil)), Tokens(<<TrueText>>, Leaf("True", Nil)),
  Tokens(<<FalseText>>, Leaf("False", Nil)),
  Tokens(<<<<49>>>>, Leaf("Number", <<1>>)), Tokens(<<<<Minus, 49, 48>>>>, Leaf("Number", <<-10>>)),
  Tokens(<<Quoted(<<Slash, Slash, Blank>>)>>, Leaf("String", <<Slash, Slash, Blank>>))}
FewLeaves == {d \in LeafDocs : d.tree.type \in {"Number", "String"}}

NameToken(c) == Quoted(<<c>>)
Member(c, d) == Piece(<<NameToken(c), <<Colon>>>> \o d.toks, <<<<<<c>>, d.tree>>>>)
Item(d)      == Piece(d.toks, <<<<Nil, d.tree>>>>)
Both(p, q)   == Piece(p.toks \o <<<<Comma>>>> \o q.toks, p.items \o q.items)
InArray(p)   == Tokens(<<<<OpenArray>>>> \o p.toks \o <<<<CloseArray>>>>, List("Array", p.items))
InObject(p)  == Tokens(<<<<OpenObject>>>> \o p.toks \o <<<<CloseObject>>>>, List("Object", p.items))
NoItems == Piece(<<>>, <<>>)

ListsOf(S, T) ==
  {InArray(NoItems), InObject(NoItems)}
  \cup {InArray(Item(d)) : d \in S} \cup {InObject(Member(LetterA, d)) : d \in S}
  \cup {InArray(Both(Item(d), Item(e))) : d, e \in T}
  \cup {InObject(Both(Member(LetterA, d), Member(LetterB, e))) : d, e \in T}
Flat == ListsOf(LeafDocs, FewLeaves)
Deep == ListsOf(Flat, {InArray(NoItems), Tokens(<<<<49>>>>, Leaf("Number", <<1>>)),
                       InObject(Member(LetterA, Tokens(<<TrueText>>, Leaf("True", Nil))))})
TokenDocs == LeafDocs \cup Flat \cup Deep

(* Parts of strings: what is written, and what it means. *)
Part == {
  [s |-> <<LetterA>>, v |-> <<LetterA>>],
  [s |-> <<Backslash, Quote>>, v |-> <<Quote>>],
  [s |-> <<Backslash, Slash>>, v |-> <<Slash>>],
  [s |-> <<Backslash, 98>>, v |-> <<8>>],    [s |-> <<Backslash, 102>>, v |-> <<12>>],
  [s |-> <<Backslash, 110>>, v |-> <<10>>],  [s |-> <<Backslash, 114>>, v |-> <<13>>],
  [s |-> <<Backslash, 116>>, v |-> <<9>>],
  [s |-> <<Backslash, LetterU, 48, 48, 49, 102>>, v |-> <<31>>],
  [s |-> <<Backslash, LetterU, 48, 48, 101, 57>>, v |-> <<195, 169>>],
  [s |-> <<Backslash, LetterU, 50, 48, 65, 67>>,  v |-> <<226, 130, 172>>],
  [s |-> <<Backslash, LetterU, 100, 56, 51, 100, Backslash, LetterU, 68, 69, 48, 48>>,
   v |-> <<240, 159, 152, 128>>]}
DoubleBackslash == [s |-> <<Backslash, Backslash>>, v |-> <<Backslash>>]

StringDocs(parts) ==
  UNION {{Tokens(<<Quoted(p.s \o q.s)>>, Leaf("String", p.v \o q.v)),
          InObject(Piece(<<Quoted(p.s \o q.s), <<Colon>>, <<49>>>>,
                         <<<<p.v \o q.v, Leaf("Number", <<1>>)>>>>))} :
          p \in parts, q \in {r \in parts : r.v \in {<<LetterA>>, <<Quote>>, <<Backslash>>}}}

(* Escapes that are none: half a pair, another half, a letter, too short. *)
BrokenStrings == {Quoted(s) : s \in {
  <<Backslash, LetterA>>, <<Backslash, LetterU, 48, 48, 49>>,
  <<Backslash, LetterU, 100, 99, 48, 48>>, <<Backslash, LetterU, 100, 56, 51, 100>>,
  <<Backslash, LetterU, 100, 56, 51, 100, Backslash, LetterU, 48, 48, 52, 49>>,
  <<Backslash, LetterU, 100, 56, 51, 100, Backslash, LetterA, 100, 101, 48, 48>>,
  <<Backslash, LetterU, 100, 56, 51, 100, LetterA, LetterA, LetterA, LetterA, LetterA, LetterA>>}}

-----------------------------------------------------------------------------
(* From tokens to texts.                                                   *)

Between(w, d) == FlattenSeq([i \in DOMAIN d.toks |-> w \o d.toks[i]])
WrittenIn(D, W) == {Doc(Between(w, d), d.tree) : d \in D, w \in W}

AllDocs == TokenDocs \cup StringDocs(Part \cup {DoubleBackslash})
Gap     == <<LineFeed, Blank>>
Spacing == {<<>>, Gap}
MoreLeaves == {Tokens(<<<<Minus, 49>>>>, Leaf("Number", <<-1>>))}
              \cup {Tokens(<<NameToken(c)>>, Leaf("String", <<c>>)) : c \in {LetterA, LetterB}}
Plain   == AnyDocs \cup WrittenIn(AllDocs, Spacing)
Marked  == {Doc(ByteOrderMark \o d.text, d.tree) : d \in WrittenIn(Flat, {<<>>})}

MCMeaning == Plain \cup Marked \cup WrittenIn(MoreLeaves, Spacing)

Comment == {<<Slash, Star, Quote, Slash, Star, Star, Slash>>,
            <<Slash, Slash, Star, Quote, LineFeed>>}
MCCommented ==
  UNION {{Doc(d.text \o w, d.tree) : d \in WrittenIn(TokenDocs \cup StringDocs(Part), {w})} :
           w \in Spacing \cup Comment}

(* Documents cut off, with a token too few, or two that have changed       *)
(* places, and texts with something behind their document.                 *)
CutOff(d) == {SubSeq(d.text, 1, k) : k \in 0 .. Len(d.text) - 1}
Near(d) ==
  {Between(Gap, [d EXCEPT !.toks = RemoveAt(@, i)]) : i \in DOMAIN d.toks}
  \cup {Between(Gap, [d EXCEPT !.toks[i] = d.toks[i + 1], !.toks[i + 1] = d.toks[i]]) :
          i \in 1 .. Len(d.toks) - 1}
TooDeep == {d.text : d \in WrittenIn({InArray(Item(d)) : d \in Deep}, {<<>>})}
Wrong == UNION {CutOff(d) : d \in WrittenIn(TokenDocs, Spacing)}
         \cup UNION {Near(d) : d \in TokenDocs} \cup BrokenStrings \cup TooDeep
         \cup UNION {{d.text \o <<Comma>>, d.text \o <<Blank, NUL>>, d.text \o <<Blank, LetterA>>} :
                       d \in WrittenIn(Flat, {<<>>})}

MCStart ==
  {[text |-> s, memory |-> Plenty] :
     s \in AnyTexts \cup Wrong \cup Documents \cup Annotated}
  \cup {[text |-> d.text, memory |-> m] :
          d \in WrittenIn(TokenDocs \cup StringDocs({DoubleBackslash}), {<<>>}), m \in 0 .. MaxMemory}

MCBlock ==
  {[how |-> "print", size |-> DefaultSize, format |-> f, replaced |-> r] : f, r \in BOOLEAN}
  \cup {[how |-> "buffered", size |-> n, format |-> n = 6, replaced |-> n = 1] : n \in {0, 1, 6}}
  \cup {[how |-> "preallocated", size |-> n, format |-> f, replaced |-> FALSE] :
          n \in {0, 2, 4, 6, 7, 8, 9, 10, 11, MaxBlock}, f \in BOOLEAN}
=============================================================================
