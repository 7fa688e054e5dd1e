------------------------- MODULE LexerStreamProofs -------------------------
(***************************************************************************)
(* Lexer implements TokenStream, for every set of documents whose tokens   *)
(* find the memory they need, of any length.                               *)
(***************************************************************************)
EXTENDS LexerProofs

-----------------------------------------------------------------------------
(* What both modules take from Lexis.                                      *)

LEMMA SameLibrary ==
  /\ \A S : Stream!Cardinality(S) = Cardinality(S)
  /\ \A w : Stream!WordToken(w) = WordToken(w) /\ Stream!NumberToken(w) = NumberToken(w)
  /\ \A c : Stream!MarkToken(c) = MarkToken(c)
  /\ \A w, p, n : Stream!LongOpen(w, p, n) = LongOpen(w, p, n)
  /\ \A w, n : Stream!LongClose(w, n) = LongClose(w, n)
<1>1. \A S : Stream!Cardinality(S) = Cardinality(S)
  BY DEF Stream!Cardinality, Cardinality
<1>2. \A w : Stream!WordToken(w) = WordToken(w) /\ Stream!NumberToken(w) = NumberToken(w)
  BY DEF Stream!WordToken, WordToken, Stream!IsPrefix, IsPrefix,
         Stream!NumberToken, NumberToken
<1>3. \A c : Stream!MarkToken(c) = MarkToken(c)
  BY DEF Stream!MarkToken, MarkToken
<1>4. \A w, p, n : Stream!LongOpen(w, p, n) = LongOpen(w, p, n)
  BY DEF Stream!LongOpen, LongOpen
<1>5. \A w, n : Stream!LongClose(w, n) = LongClose(w, n)
  BY DEF Stream!LongClose, LongClose
<1>6. QED
  BY <1>1, <1>2, <1>3, <1>4, <1>5

LEMMA SameClasses ==
  /\ Stream!Space = Space /\ Stream!Quote = Quote /\ Stream!Mark = Mark
  /\ Stream!NamePart = NamePart /\ Stream!NumberPart = NumberPart
BY DEF Stream!Space, Space, Stream!Quote, Quote, Stream!Mark, Mark,
       Stream!NamePart, NamePart, Stream!NumberPart, NumberPart

-----------------------------------------------------------------------------
(* The text of a token, one character at a time.                           *)

LEMMA TextMeans ==
  ASSUME NEW b, NEW e
  PROVE  Stream!Text(b, e) =
           [k \in 1 .. Cardinality(Stream!Kept(b, e)) |-> doc[Stream!KeptAt(b, k)]]
BY SameLibrary DEF Stream!Text

LEMMA KeptFinite ==
  ASSUME NEW b \in Nat, NEW e \in Int
  PROVE  /\ Stream!Kept(b, e) \subseteq b .. e
         /\ IsFiniteSet(Stream!Kept(b, e))
         /\ Cardinality(Stream!Kept(b, e)) \in Nat
<1>1. IsFiniteSet(b .. e)
  BY FS_Interval
<1>2. Stream!Kept(b, e) \subseteq b .. e
  BY DEF Stream!Kept
<1>3. QED
  BY <1>1, <1>2, FS_Subset, FS_CardinalityType

LEMMA KeptGrows ==
  ASSUME NEW b \in Nat, NEW e \in Int, b <= e + 1
  PROVE  /\ doc[e + 1] = "return" => Stream!Kept(b, e + 1) = Stream!Kept(b, e)
         /\ doc[e + 1] # "return" =>
              /\ Stream!Kept(b, e + 1) = Stream!Kept(b, e) \cup {e + 1}
              /\ Cardinality(Stream!Kept(b, e + 1)) = Cardinality(Stream!Kept(b, e)) + 1
<1>1. b .. e + 1 = (b .. e) \cup {e + 1} /\ e + 1 \notin b .. e
  OBVIOUS
<1>2. doc[e + 1] = "return" => Stream!Kept(b, e + 1) = Stream!Kept(b, e)
  BY <1>1 DEF Stream!Kept
<1>3. ASSUME doc[e + 1] # "return"
      PROVE  /\ Stream!Kept(b, e + 1) = Stream!Kept(b, e) \cup {e + 1}
             /\ e + 1 \notin Stream!Kept(b, e)
  BY <1>1, <1>3 DEF Stream!Kept
<1>4. QED
  BY <1>2, <1>3, KeptFinite, FS_AddElement

(* The place of the next character that is kept. *)
LEMMA KeptNext ==
  ASSUME NEW b \in Nat, NEW e \in Int, b <= e + 1, e + 1 <= Len(doc), Len(doc) \in Nat,
         doc[e + 1] # "return"
  PROVE  Stream!KeptAt(b, Cardinality(Stream!Kept(b, e)) + 1) = e + 1
<1> DEFINE n == Cardinality(Stream!Kept(b, e)) + 1
           P(i) == doc[i] # "return" /\ Stream!Cardinality(Stream!Kept(b, i)) = n
<1>1. e + 1 \in b .. Len(doc) /\ P(e + 1)
  BY KeptGrows, SameLibrary
<1>2. ASSUME NEW i \in b .. Len(doc), P(i)
      PROVE  i = e + 1
  <2>0. /\ doc[i] # "return" /\ Cardinality(Stream!Kept(b, i)) = n
        /\ i \in Nat /\ Cardinality(Stream!Kept(b, e)) \in Nat
    BY <1>2, SameLibrary, KeptFinite
  <2>1. CASE i < e + 1
    <3>1. Stream!Kept(b, i) \subseteq Stream!Kept(b, e)
      BY <2>1 DEF Stream!Kept
    <3>2. Cardinality(Stream!Kept(b, i)) <= Cardinality(Stream!Kept(b, e))
      BY <3>1, KeptFinite, FS_Subset
    <3>3. QED
      BY <2>0, <3>2, KeptFinite
  <2>2. CASE i > e + 1
    <3>1. /\ Stream!Kept(b, e + 1) \subseteq Stream!Kept(b, i - 1)
      BY <2>2 DEF Stream!Kept
    <3>2. Cardinality(Stream!Kept(b, e + 1)) <= Cardinality(Stream!Kept(b, i - 1))
      BY <3>1, KeptFinite, FS_Subset
    <3>3. i - 1 \in Int /\ b <= (i - 1) + 1 /\ (i - 1) + 1 = i
      BY <2>2
    <3>4. Cardinality(Stream!Kept(b, i)) = Cardinality(Stream!Kept(b, i - 1)) + 1
      BY <2>0, <3>3, KeptGrows
    <3>5. Cardinality(Stream!Kept(b, e + 1)) = n
      BY <1>1, SameLibrary
    <3>6. Cardinality(Stream!Kept(b, i - 1)) \in Nat /\ n \in Nat
      <4>1. Cardinality(Stream!Kept(b, i - 1)) \in Nat
        BY <3>3, KeptFinite
      <4>2. QED
        BY <2>0, <4>1
    <3>7. QED
      BY <2>0, <3>2, <3>4, <3>5, <3>6
  <2>3. QED
    BY <2>1, <2>2
<1> HIDE DEF P
<1>3. (CHOOSE i \in b .. Len(doc) : P(i)) = e + 1
  BY <1>1, <1>2
<1>4. QED
  BY <1>3 DEF Stream!KeptAt, P

LEMMA TextGrows ==
  ASSUME NEW b \in Nat, NEW e \in Int, b <= e + 1, e + 1 <= Len(doc), Len(doc) \in Nat,
         Stream!Text(b, e) \in Seq(Char), doc[e + 1] \in Char
  PROVE  Stream!Text(b, e + 1) =
           IF doc[e + 1] = "return" THEN Stream!Text(b, e)
                                    ELSE Append(Stream!Text(b, e), doc[e + 1])
<1>1. CASE doc[e + 1] = "return"
  BY <1>1, KeptGrows, TextMeans
<1>2. CASE doc[e + 1] # "return"
  <2> DEFINE n == Cardinality(Stream!Kept(b, e))
             t == Stream!Text(b, e)
             u == Stream!Text(b, e + 1)
  <2>1. n \in Nat /\ Cardinality(Stream!Kept(b, e + 1)) = n + 1
    BY <1>2, KeptFinite, KeptGrows
  <2>2. t = [k \in 1 .. n |-> doc[Stream!KeptAt(b, k)]]
        /\ u = [k \in 1 .. n + 1 |-> doc[Stream!KeptAt(b, k)]]
    BY <2>1, TextMeans
  <2>3. Stream!KeptAt(b, n + 1) = e + 1
    BY <1>2, KeptNext
  <2> HIDE DEF n, t, u
  <2>4. t \in Seq(Char)
    BY DEF t
  <2>5. Len(t) = n
    BY <2>1, <2>2, <2>4, LenProperties
  <2>6. \A k \in 1 .. n : u[k] = t[k]
    BY <2>1, <2>2
  <2>7. u[n + 1] = doc[e + 1] /\ DOMAIN u = 1 .. n + 1
    BY <2>1, <2>2, <2>3
  <2>8. \A k \in 1 .. n : t[k] \in Char
    BY <2>4, <2>5, ElementOfSeq
  <2>9. u \in [1 .. n + 1 -> Char]
    BY <2>1, <2>2, <2>6, <2>7, <2>8
  <2>10. u \in Seq(Char) /\ Len(u) = n + 1
    BY <2>1, <2>9
  <2>11. /\ Append(t, doc[e + 1]) \in Seq(Char)
         /\ Len(Append(t, doc[e + 1])) = n + 1
         /\ \A k \in 1 .. n : Append(t, doc[e + 1])[k] = t[k]
         /\ Append(t, doc[e + 1])[n + 1] = doc[e + 1]
    BY <2>4, <2>5, AppendProperties
  <2>12. \A k \in 1 .. n + 1 : u[k] = Append(t, doc[e + 1])[k]
    BY <2>1, <2>6, <2>7, <2>11
  <2>13. u = Append(t, doc[e + 1])
    BY <2>10, <2>11, <2>12, SeqEqual
  <2>14. QED
    BY <1>2, <2>13 DEF t, u
<1>3. QED
  BY <1>1, <1>2

(* No text, and that of one character. *)
LEMMA TextBegins ==
  ASSUME NEW b \in Nat, b <= Len(doc), Len(doc) \in Nat, doc[b] \in Char, doc[b] # "return"
  PROVE  Stream!Text(b, b - 1) = <<>> /\ Stream!Text(b, b) = <<doc[b]>>
<1>1. Stream!Kept(b, b - 1) = {}
  BY DEF Stream!Kept
<1>2. Stream!Text(b, b - 1) = <<>>
  BY <1>1, FS_EmptySet, TextMeans
<1>3. b - 1 \in Int /\ b <= (b - 1) + 1 /\ (b - 1) + 1 = b /\ <<>> \in Seq(Char)
  OBVIOUS
<1>4. Stream!Text(b, b) = Append(<<>>, doc[b])
  BY <1>2, <1>3, TextGrows
<1>5. QED
  BY <1>2, <1>4

(* It is no longer than what it is the text of. *)
LEMMA TextLength ==
  ASSUME NEW b \in Nat, NEW e \in Int, b <= e + 1, Stream!Text(b, e) \in Seq(Char)
  PROVE  Len(Stream!Text(b, e)) <= e + 1 - b
<1>1. Len(Stream!Text(b, e)) = Cardinality(Stream!Kept(b, e))
  BY KeptFinite, LenProperties, TextMeans
<1>2. Cardinality(Stream!Kept(b, e)) <= Cardinality(b .. e)
  <2>1. IsFiniteSet(b .. e) /\ Stream!Kept(b, e) \in SUBSET (b .. e)
    BY KeptFinite, FS_Interval
  <2>2. QED
    BY <2>1, FS_Subset
<1>3. Cardinality(b .. e) = IF b > e THEN 0 ELSE e - b + 1
  BY FS_Interval
<1>4. QED
  BY <1>1, <1>2, <1>3

-----------------------------------------------------------------------------
(* Long brackets in a text that grows.                                     *)

(* A long bracket of level n is open in w, at its p-th character. *)
OpenAt(w, p, n) ==
  /\ n \in Nat /\ p + n + 1 <= Len(w)
  /\ w[p] = "[" /\ w[p + n + 1] = "["
  /\ \A i \in p + 1 .. p + n : w[i] = "="

LEMMA OpensMeans ==
  ASSUME NEW w \in Seq(Char), NEW p \in Nat, p > 0, NEW n \in Nat
  PROVE  Stream!Opens(w, p, n) <=> OpenAt(w, p, n)
<1> DEFINE v == SubSeq(w, 1, p + n + 1)
<1>1. CASE ~(Len(w) > p + n)
  BY <1>1, LenProperties DEF Stream!Opens, OpenAt
<1>2. CASE Len(w) > p + n
  <2>1. Len(w) \in Nat /\ \A i \in 1 .. p + n + 1 : w[i] \in Char
    BY <1>2, LenProperties
  <2>2. Len(v) = p + n + 1 /\ \A i \in 1 .. p + n + 1 : v[i] = w[i]
    BY <2>1, SubSeqProperties
  <2> HIDE DEF v
  <2>3. LongOpen(v, p, n) <=> OpenAt(w, p, n)
    BY <1>2, <2>1, <2>2 DEF LongOpen, OpenAt
  <2>4. QED
    BY <1>2, <2>3, SameLibrary DEF Stream!Opens, v
<1>3. QED
  BY <1>1, <1>2

LEMMA OpensLongMeans ==
  ASSUME NEW w \in Seq(Char), NEW p \in Nat, p > 0
  PROVE  Stream!OpensLong(w, p) <=> \E n : OpenAt(w, p, n)
<1>1. \A n : OpenAt(w, p, n) => n \in 0 .. Len(w)
  BY LenProperties DEF OpenAt
<1>2. \A n \in 0 .. Len(w) : Stream!Opens(w, p, n) <=> OpenAt(w, p, n)
  BY OpensMeans
<1>3. QED
  BY <1>1, <1>2 DEF Stream!OpensLong

LEMMA OpenIsOne ==
  ASSUME NEW w \in Seq(Char), NEW p \in Nat, NEW n, NEW m, OpenAt(w, p, n), OpenAt(w, p, m)
  PROVE  n = m
<1>1. n \in Nat /\ m \in Nat
  BY DEF OpenAt
<1>2. ~(n < m)
  <2>1. SUFFICES ASSUME n < m PROVE FALSE
    OBVIOUS
  <2>2. p + n + 1 \in p + 1 .. p + m
    BY <1>1, <2>1
  <2>3. QED
    BY <2>2 DEF OpenAt
<1>3. ~(m < n)
  <2>1. SUFFICES ASSUME m < n PROVE FALSE
    OBVIOUS
  <2>2. p + m + 1 \in p + 1 .. p + n
    BY <1>1, <2>1
  <2>3. QED
    BY <2>2 DEF OpenAt
<1>4. QED
  BY <1>1, <1>2, <1>3

(* A bracket is open in the text that was, or opens with the character     *)
(* that came.                                                              *)
LEMMA OpenGrows ==
  ASSUME NEW w \in Seq(Char), NEW c \in Char, NEW p \in Nat, p > 0, NEW n
  PROVE  OpenAt(Append(w, c), p, n) <=>
           OpenAt(w, p, n) \/ (n \in Nat /\ LongOpen(Append(w, c), p, n))
<1> DEFINE v == Append(w, c)
<1>1. /\ Len(w) \in Nat /\ Len(v) = Len(w) + 1
      /\ \A i \in 1 .. Len(w) : v[i] = w[i]
  BY AppendProperties, LenProperties
<1> HIDE DEF v
<1>2. CASE n \in Nat /\ p + n + 1 <= Len(w)
  BY <1>1, <1>2 DEF OpenAt, LongOpen, v
<1>3. CASE n \in Nat /\ p + n + 1 = Len(v)
  BY <1>1, <1>3 DEF OpenAt, LongOpen, v
<1>4. CASE n \in Nat /\ p + n + 1 > Len(v)
  BY <1>1, <1>4 DEF OpenAt, LongOpen, v
<1>5. CASE n \notin Nat
  BY <1>5 DEF OpenAt
<1>6. n \in Nat => p + n + 1 <= Len(w) \/ p + n + 1 = Len(v) \/ p + n + 1 > Len(v)
  BY <1>1
<1>7. QED
  BY <1>2, <1>3, <1>4, <1>5, <1>6

(* The only level at which a bracket can open with the last character.     *)
LEMMA OpensWithLast ==
  ASSUME NEW w \in Seq(Char), NEW p \in Nat, p > 0, NEW n
  PROVE  /\ LongOpen(w, p, n) /\ n \in Nat => n = Len(w) - p - 1
         /\ LongOpen(w, p, n) /\ n \in Int => n \in Nat /\ OpenAt(w, p, n)
BY LenProperties DEF LongOpen, OpenAt

(* Before the bracket that opens nothing looks like one that closes. *)
LEMMA ClosesMeans ==
  ASSUME NEW w \in Seq(Char), NEW p \in Nat, p > 0, NEW n, OpenAt(w, p, n),
         \A i \in 1 .. p - 1 : w[i] # "]"
  PROVE  Stream!ClosesLong(w, p) <=> LongClose(w, n)
<1> DEFINE v(m) == SubSeq(w, p + m + 2, Len(w))
<1>1. n \in 0 .. Len(w) /\ n \in Nat /\ Len(w) \in Nat /\ p + n + 1 <= Len(w)
  BY LenProperties DEF OpenAt
<1>2. \A m \in 0 .. Len(w) : Stream!Opens(w, p, m) <=> m = n
  BY <1>1, OpensMeans, OpenIsOne
<1>3. Stream!ClosesLong(w, p) <=> LongClose(v(n), n)
  BY <1>1, <1>2, SameLibrary DEF Stream!ClosesLong
<1>4. /\ Len(v(n)) = Len(w) - p - n - 1
      /\ \A i \in 1 .. Len(w) - p - n - 1 : v(n)[i] = w[p + n + 1 + i]
  <2>1. \A i \in p + n + 2 .. Len(w) : w[i] \in Char
    BY <1>1, ElementOfSeq
  <2>2. QED
    BY <1>1, <2>1, SubSeqProperties
<1> DEFINE u == v(n)
<1> HIDE DEF u
<1>5. ASSUME LongClose(u, n) PROVE LongClose(w, n)
  <2> DEFINE l == Len(w)
             k == Len(u)
  <2>1. k >= n + 2 /\ u[k] = "]" /\ u[k - n - 1] = "]"
        /\ \A i \in k - n .. k - 1 : u[i] = "="
    BY <1>5 DEF LongClose
  <2>2. k = l - p - n - 1 /\ \A i \in 1 .. k : u[i] = w[p + n + 1 + i]
    BY <1>4 DEF u
  <2> HIDE DEF l, k
  <2>3. w[l] = "]" /\ w[l - n - 1] = "]" /\ l >= n + 2
    <3>1. l \in Nat /\ k \in Int
      BY <1>1, <2>2 DEF l
    <3>2. k \in 1 .. k /\ k - n - 1 \in 1 .. k /\ l >= n + 2
          /\ p + n + 1 + k = l /\ p + n + 1 + (k - n - 1) = l - n - 1
      BY <1>1, <2>1, <2>2, <3>1
    <3>3. QED
      BY <2>1, <2>2, <3>2
  <2>4. ASSUME NEW i \in l - n .. l - 1 PROVE w[i] = "="
    <3>1. l \in Nat /\ k \in Int
      BY <1>1, <2>2 DEF l
    <3>2. /\ i - p - n - 1 \in k - n .. k - 1 /\ i - p - n - 1 \in 1 .. k
          /\ p + n + 1 + (i - p - n - 1) = i
      BY <1>1, <2>1, <2>2, <3>1
    <3>3. QED
      BY <2>1, <2>2, <3>2
  <2>5. QED
    BY <2>3, <2>4 DEF LongClose, l
<1>6. ASSUME LongClose(w, n) PROVE LongClose(u, n)
  <2> DEFINE l == Len(w)
             k == Len(u)
  <2>1. l >= n + 2 /\ w[l] = "]" /\ w[l - n - 1] = "]"
        /\ \A i \in l - n .. l - 1 : w[i] = "="
    BY <1>6 DEF LongClose
  <2>2. k = l - p - n - 1 /\ \A i \in 1 .. k : u[i] = w[p + n + 1 + i]
    BY <1>4 DEF u
  <2>3. l - n - 1 > p + n + 1
    <3>1. \A i \in 1 .. p + n + 1 : w[i] # "]"
      BY <1>1 DEF OpenAt
    <3>2. QED
      BY <1>1, <2>1, <3>1
  <2>4. k >= n + 2 /\ u[k] = "]" /\ u[k - n - 1] = "]"
    <3>1. k \in 1 .. k /\ k - n - 1 \in 1 .. k /\ k >= n + 2
          /\ p + n + 1 + k = l /\ p + n + 1 + (k - n - 1) = l - n - 1
      BY <1>1, <2>2, <2>3
    <3>2. QED
      BY <2>1, <2>2, <3>1
  <2>5. ASSUME NEW i \in k - n .. k - 1 PROVE u[i] = "="
    <3>1. p + n + 1 + i \in l - n .. l - 1 /\ i \in 1 .. k
      BY <1>1, <2>2, <2>3
    <3>2. QED
      BY <2>1, <2>2, <3>1
  <2>6. QED
    BY <2>4, <2>5 DEF LongClose
<1>7. QED
  BY <1>3, <1>5, <1>6 DEF u

-----------------------------------------------------------------------------
(* The invariant.                                                          *)

(* How far the calls that have returned have read. *)
ReadSoFar == IF pushback \/ eos THEN count - 1 ELSE count

(* In a call, the character looked at is the one counted last. *)
AtHand ==
  /\ pushback = FALSE
  /\ ~eos => count \in 1 .. Len(doc) /\ curr = doc[count]
  /\ eos => count = Len(doc) + 1 /\ curr = End

(* Only space lies between the last token and the one in the making, of    *)
(* which the buffer has all that was read but the character looked at.     *)
SpaceUpTo(b) == last.to < b /\ \A i \in last.to + 1 .. b - 1 : doc[i] \in Space

Begun(b) ==
  /\ b \in 1 .. Len(doc) /\ b < count
  /\ SpaceUpTo(b) /\ doc[b] \notin Space
  /\ buffer = Stream!Text(b, count - 1)
  /\ buffer # <<>> /\ buffer[1] = doc[b]

(* It has the form of its mode, and is not over: no shorter text was       *)
(* a token.                                                                *)
Incomplete(b) == \A i \in b .. count - 1 : ~Stream!Over(b, i)

LevelIs(p) ==
  \/ OpenAt(buffer, p, level)
  \/ level = -1 /\ \A n : ~OpenAt(buffer, p, n)

Form(b) ==
  /\ mode = "bracket" => doc[b] = "[" /\ count = b + 1
  /\ mode = "dash" => doc[b] = "-" /\ count = b + 1 /\ level = -1
  /\ mode = "number" =>
       Stream!Number(b) /\ \A i \in b .. count - 1 : doc[i] \in NumberPart
  /\ mode = "name" =>
       Stream!Word(b) /\ \A i \in b .. count - 1 : doc[i] \in NamePart
  /\ mode = "quoted" =>
       Stream!Quoted(b) /\ Incomplete(b) /\ prev = buffer[Len(buffer)]
  /\ mode = "long_string" =>
       /\ Stream!LongText(b) /\ b + 1 < count /\ Incomplete(b) /\ LevelIs(1)
       /\ level < 0 => /\ \A i \in b + 1 .. count - 1 : doc[i] = "="
                       /\ \A i \in 2 .. Len(buffer) : buffer[i] = "="
       /\ level >= 0 => \E i \in b + 1 .. count - 1 : doc[i] = "["
  /\ mode = "comment" =>
       /\ Stream!Comment(b) /\ b + 1 < count /\ Incomplete(b) /\ LevelIs(3)
       /\ Len(buffer) >= 2 /\ buffer[2] = "-"

CutInv ==
  Fits =>
    /\ last.to \in Nat
    /\ mode = "idle" => last.to = ReadSoFar
    /\ mode # "idle" => AtHand
    /\ mode = "space" => SpaceUpTo(count) /\ buffer = <<>> /\ level = -1
    /\ mode \notin {"idle", "space"} => Begun(start.at) /\ Form(start.at)

LEMMA DocFacts ==
  ASSUME Source
  PROVE  /\ Len(doc) \in Nat /\ count \in 0 .. Len(doc) + 1
         /\ \A i \in 1 .. Len(doc) : doc[i] \in Char
         /\ pushback \in BOOLEAN /\ eos \in BOOLEAN
BY LenProperties, ElementOfSeq DEF Source

(* The forms of tokens exclude each other. *)
Sole(b) == \/ doc[b] \in Mark
           \/ doc[b] = "[" /\ ~Stream!LongText(b)

LEMMA OneForm ==
  ASSUME NEW b
  PROVE  /\ Stream!Quoted(b) => ~Stream!LongText(b) /\ ~Stream!Comment(b)
         /\ Stream!LongText(b) => ~Stream!Comment(b) /\ doc[b] = "["
         /\ Stream!Comment(b) => ~Stream!Number(b) /\ doc[b] = "-"
         /\ Stream!Delimited(b) => ~Stream!Word(b) /\ ~Stream!Number(b) /\ ~Sole(b)
         /\ Stream!Word(b) => ~Stream!Number(b) /\ ~Sole(b)
         /\ Stream!Number(b) => ~Sole(b)
<1>1. /\ "-" \notin Letter /\ "[" \notin Letter /\ "." \notin Letter
      /\ "-" \notin Digit /\ "[" \notin Digit /\ "." \notin Digit
      /\ "'" \notin Letter /\ "quote" \notin Letter
      /\ "'" \notin Digit /\ "quote" \notin Digit
      /\ Letter \cap Digit = {} /\ Mark \cap Letter = {} /\ Mark \cap Digit = {}
  BY ClassAssumption DEF NamePart, Quote
<1>2. Stream!Quote = {"'", "quote"}
  BY DEF Stream!Quote
<1>3. \A S, T : Stream!Followed(b, S) /\ Stream!Followed(b, T) => doc[b + 1] \in S \cap T
  BY DEF Stream!Followed
<1>4. Mark = {"]", "{", "}", "=", ",", ";"}
  BY DEF Mark
<1>5. ASSUME Stream!Quoted(b)
      PROVE  /\ ~Stream!LongText(b) /\ ~Stream!Comment(b)
             /\ ~Stream!Word(b) /\ ~Stream!Number(b) /\ ~Sole(b)
  <2>1. doc[b] \in {"'", "quote"}
    BY <1>2, <1>5 DEF Stream!Quoted
  <2>2. QED
    BY <1>1, <1>4, <2>1 DEF Stream!LongText, Stream!Comment, Stream!Word, Stream!Number, Sole
<1>6. ASSUME Stream!LongText(b)
      PROVE  /\ doc[b] = "[" /\ ~Stream!Comment(b)
             /\ ~Stream!Word(b) /\ ~Stream!Number(b) /\ ~Sole(b)
  <2>1. doc[b] = "["
    BY <1>6 DEF Stream!LongText
  <2>2. QED
    BY <1>1, <1>4, <1>6, <2>1 DEF Stream!Comment, Stream!Word, Stream!Number, Sole
<1>7. ASSUME Stream!Comment(b)
      PROVE  /\ doc[b] = "-" /\ ~Stream!Word(b) /\ ~Stream!Number(b) /\ ~Sole(b)
  <2>1. doc[b] = "-" /\ doc[b + 1] = "-"
    BY <1>7 DEF Stream!Comment, Stream!Followed
  <2>2. QED
    BY <1>1, <1>4, <2>1 DEF Stream!Word, Stream!Number, Stream!Followed, Sole
<1>8. ASSUME Stream!Word(b)
      PROVE  ~Stream!Number(b) /\ ~Sole(b)
  BY <1>1, <1>4, <1>8 DEF Stream!Word, Stream!Number, Sole
<1>9. ASSUME Stream!Number(b)
      PROVE  ~Sole(b)
  BY <1>1, <1>4, <1>9 DEF Stream!Number, Sole
<1>10. QED
  BY <1>5, <1>6, <1>7, <1>8, <1>9 DEF Stream!Delimited

(* What a token of each form is. *)
LEMMA TokenOfForm ==
  ASSUME NEW b, NEW e
  PROVE  LET w == Stream!Text(b, e)
             t == Stream!Token(b, e) IN
         /\ Stream!Quoted(b) =>
              t = IF Stream!Closed(w) THEN "STRING" ELSE "INVALID"
         /\ Stream!LongText(b) =>
              t = IF Stream!ClosesLong(w, 1) THEN "LONG_STRING" ELSE "INVALID"
         /\ Stream!Comment(b) =>
              t = IF ~Stream!OpensLong(w, 3) THEN "COMMENT"
                  ELSE IF Stream!ClosesLong(w, 3) THEN "LONG_COMMENT" ELSE "INVALID"
         /\ Stream!Word(b) => t = WordToken(w)
         /\ Stream!Number(b) => t = NumberToken(w)
<1> DEFINE w == Stream!Text(b, e)
           t == Stream!Token(b, e)
<1>1. Stream!Mark = Mark
  BY SameClasses
<1>2. ASSUME Stream!Quoted(b)
      PROVE  t = IF Stream!Closed(w) THEN "STRING" ELSE "INVALID"
  BY <1>1, <1>2, OneForm DEF Stream!Token, Stream!Delimited, Sole
<1>3. ASSUME Stream!LongText(b)
      PROVE  t = IF Stream!ClosesLong(w, 1) THEN "LONG_STRING" ELSE "INVALID"
  <2>1. /\ ~Stream!Quoted(b) /\ ~Stream!Comment(b) /\ ~Stream!Word(b)
        /\ ~Stream!Number(b) /\ doc[b] \notin Stream!Mark
    <3>1. ~Stream!Quoted(b) /\ ~Stream!Comment(b)
      BY <1>3, OneForm
    <3>2. ~Stream!Word(b) /\ ~Stream!Number(b) /\ ~Sole(b)
      BY <1>3, OneForm DEF Stream!Delimited
    <3>3. QED
      BY <1>1, <3>1, <3>2 DEF Sole
  <2>2. QED
    BY <1>3, <2>1 DEF Stream!Token
<1>4. ASSUME Stream!Comment(b)
      PROVE  t = IF ~Stream!OpensLong(w, 3) THEN "COMMENT"
                 ELSE IF Stream!ClosesLong(w, 3) THEN "LONG_COMMENT" ELSE "INVALID"
  BY <1>1, <1>4, OneForm DEF Stream!Token, Stream!Delimited, Sole
<1>5. ASSUME Stream!Word(b) PROVE t = WordToken(w)
  BY <1>1, <1>5, OneForm, SameLibrary DEF Stream!Token, Stream!Delimited, Sole
<1>6. ASSUME Stream!Number(b) PROVE t = NumberToken(w)
  BY <1>1, <1>6, OneForm, SameLibrary DEF Stream!Token, Stream!Delimited, Sole
<1>7. QED
  BY <1>2, <1>3, <1>4, <1>5, <1>6

(* A token of one character is it by that character. *)
LEMMA TokenOfMark ==
  ASSUME NEW b, NEW e, ~Stream!Delimited(b), ~Stream!Word(b), ~Stream!Number(b)
  PROVE  /\ doc[b] \in Mark => Stream!Token(b, e) = MarkToken(doc[b])
         /\ doc[b] = "[" => Stream!Token(b, e) = "SQUARE_OPEN"
         /\ doc[b] \notin Mark \cup {"["} => Stream!Token(b, e) = "INVALID"
<1>1. "[" \notin Mark
  BY DEF Mark
<1>2. QED
  BY <1>1, SameLibrary, SameClasses DEF Stream!Token, Stream!Delimited

-----------------------------------------------------------------------------
(* Steps of the reading.                                                   *)

LEMMA Reads ==
  ASSUME Source, GetNextChar, UNCHANGED doc
  PROVE  /\ ReadSoFar \in 0 .. Len(doc)
         /\ count' = ReadSoFar + 1
         /\ ~(pushback /\ eos) => AtHand'
         /\ pushback /\ eos => eos'
<1>1. /\ Len(doc) \in Nat /\ count \in 0 .. Len(doc) + 1
      /\ \A i \in 1 .. Len(doc) : doc[i] \in Char
      /\ pushback \in BOOLEAN /\ eos \in BOOLEAN
  BY DocFacts
<1>2. CASE pushback
  <2>1. UNCHANGED <<count, eos>> /\ pushback' = FALSE /\ curr' = current
    BY <1>1, <1>2 DEF GetNextChar
  <2>2. count > 0 /\ (~eos => count <= Len(doc))
    BY <1>1, <1>2 DEF Source
  <2>3. ~eos => current = doc[count]
    BY <1>1, <2>2 DEF Source
  <2>4. QED
    BY <1>1, <1>2, <2>1, <2>2, <2>3 DEF ReadSoFar, AtHand
<1>3. CASE ~pushback /\ eos
  <2>1. UNCHANGED <<count, eos, pushback>> /\ curr' = End
    BY <1>1, <1>3 DEF GetNextChar
  <2>2. count = Len(doc) + 1
    BY <1>3 DEF Source
  <2>3. pushback = FALSE
    BY <1>1, <1>3
  <2>4. QED
    BY <1>1, <1>3, <2>1, <2>2, <2>3 DEF ReadSoFar, AtHand
<1>4. CASE ~pushback /\ ~eos
  <2>1. count' = count + 1 /\ pushback' = FALSE
    BY <1>1, <1>4 DEF GetNextChar
  <2>2. count <= Len(doc) /\ ReadSoFar = count
    BY <1>1, <1>4 DEF Source, ReadSoFar
  <2>3. CASE count < Len(doc)
    <3>1. curr' = doc[count + 1] /\ eos' = eos
      BY <1>1, <1>4, <2>3 DEF GetNextChar
    <3>2. QED
      BY <1>1, <1>4, <2>1, <2>2, <2>3, <3>1 DEF AtHand
  <2>4. CASE count >= Len(doc)
    <3>1. curr' = End /\ eos' = TRUE
      BY <1>1, <1>4, <2>4 DEF GetNextChar
    <3>2. QED
      BY <1>1, <1>4, <2>1, <2>2, <2>4, <3>1 DEF AtHand
  <2>5. QED
    BY <1>1, <2>2, <2>3, <2>4
<1>5. QED
  BY <1>1, <1>2, <1>3, <1>4

(* In a call, with a character at hand, the next one is at hand after. *)
LEMMA ReadsOn ==
  ASSUME Source, AtHand, ~eos, GetNextChar, UNCHANGED doc
  PROVE  AtHand' /\ count' = count + 1
BY Reads DEF AtHand, ReadSoFar

(* A document that fits finds memory for every character. *)
LEMMA Keeps ==
  ASSUME IInv, Fits, AtHand, ~eos, NEW b, Begun(b), AppendedIfKept
  PROVE  /\ buffer' = IF curr = "return" THEN buffer ELSE Append(buffer, curr)
         /\ buffer' = Stream!Text(b, count)
         /\ buffer' \in Seq(Char)
<1>1. /\ Len(doc) \in Nat /\ count \in 1 .. Len(doc) /\ curr = doc[count] /\ curr \in Char
      /\ b \in Nat /\ b >= 1 /\ b < count
      /\ buffer \in Seq(Char) /\ buffer = Stream!Text(b, count - 1)
      /\ BufSize \in Nat
  BY DocFacts, DocsAssumption DEF IInv, Making, AtHand, Begun
<1>2. Len(buffer) \in Nat /\ Len(buffer) <= (count - 1) + 1 - b
  BY <1>1, TextLength, LenProperties
<1>3. ~(Len(buffer) + 1 >= BufSize)
  BY <1>1, <1>2 DEF Fits
<1>4. buffer' = IF curr = "return" THEN buffer ELSE Append(buffer, curr)
  BY <1>3 DEF AppendedIfKept, Appended
<1> DEFINE e == count - 1
<1>5. e + 1 = count /\ e \in Int /\ b <= e + 1 /\ buffer = Stream!Text(b, e)
  BY <1>1
<1> HIDE DEF e
<1>6. Stream!Text(b, e + 1) = IF doc[e + 1] = "return" THEN Stream!Text(b, e)
                              ELSE Append(Stream!Text(b, e), doc[e + 1])
  BY <1>1, <1>5, TextGrows
<1>7. buffer' = Stream!Text(b, count)
  BY <1>1, <1>4, <1>5, <1>6
<1>8. buffer' \in Seq(Char)
  BY <1>1, <1>4, AppendProperties
<1>9. QED
  BY <1>4, <1>7, <1>8

-----------------------------------------------------------------------------
(* What a step makes of the token.                                         *)

LEMMA SameShapes ==
  ASSUME UNCHANGED doc, NEW b
  PROVE  /\ Stream!Quoted(b)' <=> Stream!Quoted(b)
         /\ Stream!LongText(b)' <=> Stream!LongText(b)
         /\ Stream!Comment(b)' <=> Stream!Comment(b)
         /\ Stream!Word(b)' <=> Stream!Word(b)
         /\ Stream!Number(b)' <=> Stream!Number(b)
         /\ \A i : Stream!Text(b, i)' = Stream!Text(b, i)
         /\ \A i : Stream!Over(b, i)' <=> Stream!Over(b, i)
<1>1. Stream!Quoted(b)' <=> Stream!Quoted(b)
  BY DEF Stream!Quoted
<1>2. Stream!LongText(b)' <=> Stream!LongText(b)
  BY DEF Stream!LongText, Stream!Followed
<1>3. Stream!Comment(b)' <=> Stream!Comment(b)
  BY DEF Stream!Comment, Stream!Followed
<1>4. Stream!Word(b)' <=> Stream!Word(b)
  BY DEF Stream!Word
<1>5. Stream!Number(b)' <=> Stream!Number(b)
  BY DEF Stream!Number, Stream!Followed
<1>6. ASSUME NEW i PROVE Stream!Text(b, i)' = Stream!Text(b, i)
  BY DEF Stream!Text, Stream!Kept, Stream!KeptAt
<1>7. ASSUME NEW i PROVE Stream!NeverOpens(b, i)' <=> Stream!NeverOpens(b, i)
  BY DEF Stream!NeverOpens
<1>8. ASSUME NEW i PROVE Stream!Over(b, i)' <=> Stream!Over(b, i)
  BY <1>1, <1>2, <1>3, <1>6, <1>7 DEF Stream!Over, Stream!Complete, Stream!CutShort
<1>9. QED
  BY <1>1, <1>2, <1>3, <1>4, <1>5, <1>6, <1>8

(* The token goes on with the next character. *)
LEMMA MakesOn ==
  ASSUME Source, CutInv, Fits, AtHand, ~eos, last.to \in Nat,
         GetNextChar, UNCHANGED <<doc, last>>,
         NEW b, start'.at = b, mode' \notin {"idle", "space"},
         b \in 1 .. Len(doc), b <= count, SpaceUpTo(b), doc[b] \notin Space,
         buffer' = Stream!Text(b, count), buffer' # <<>>, buffer'[1] = doc[b],
         Form(b)'
  PROVE  CutInv'
<1>1. AtHand' /\ count' = count + 1 /\ Len(doc) \in Nat /\ count \in Nat
  <2>1. AtHand' /\ count' = count + 1
    BY ReadsOn
  <2>2. QED
    BY <2>1, DocFacts
<1>2. SpaceUpTo(b)'
  BY DEF SpaceUpTo
<1>3. (buffer = Stream!Text(b, count - 1))'
  <2>1. count' - 1 = count
    BY <1>1
  <2>2. QED
    BY <2>1, SameShapes
<1>4. Begun(b)'
  BY <1>1, <1>2, <1>3 DEF Begun
<1>5. QED
  BY <1>1, <1>4 DEF CutInv

(* A token from b to e. *)
LEMMA Cuts ==
  ASSUME Fits, UNCHANGED doc, last.to \in Nat, NEW t, Return(t),
         NEW b \in 1 .. Len(doc), NEW e \in b .. Len(doc), Len(doc) \in Nat,
         start'.at = b, e = ReadSoFar',
         SpaceUpTo(b), doc[b] \notin Space,
         Stream!Lexeme(b, e), t = Stream!Token(b, e), buffer' = Stream!TokenText(b, e)
  PROVE  CutInv' /\ Stream!Next
<1>1. Fits' /\ mode' = "idle" /\ e \in Nat
  BY DEF Fits, Return
<1>2. last' = [token |-> t, text |-> buffer', line |-> start'.line,
               column |-> start'.column, from |-> b, to |-> e]
  BY DEF Return, ReadSoFar
<1>3. CutInv'
  BY <1>1, <1>2 DEF CutInv
<1>4. b \in last.to + 1 .. Len(doc)
  BY DEF SpaceUpTo
<1>5. Stream!Take(b, e)
  BY <1>1, <1>2, SameClasses DEF Stream!Take, SpaceUpTo
<1>6. QED
  BY <1>3, <1>4, <1>5 DEF Stream!Next

(* The end of the document. *)
LEMMA Ends ==
  ASSUME Fits, UNCHANGED doc, last.to \in Nat, Return("EOF"), Len(doc) \in Nat,
         start'.at = Len(doc) + 1, ReadSoFar' = Len(doc), buffer' = <<>>,
         SpaceUpTo(Len(doc) + 1)
  PROVE  CutInv' /\ Stream!Next
<1>1. Fits' /\ mode' = "idle"
  BY DEF Fits, Return
<1>2. last' = [token |-> "EOF", text |-> <<>>, line |-> start'.line,
               column |-> start'.column, from |-> Len(doc) + 1, to |-> Len(doc)]
  BY DEF Return, ReadSoFar
<1>3. CutInv'
  BY <1>1, <1>2 DEF CutInv
<1>4. \A i \in last.to + 1 .. Len(doc) : doc[i] \in Space
  BY DEF SpaceUpTo
<1>5. Stream!TakeEnd
  BY <1>1, <1>2, <1>4, SameClasses DEF Stream!TakeEnd
<1>6. QED
  BY <1>3, <1>5 DEF Stream!Next

(* What a quoted string is broken by, as documented or not. *)
Breaks(w) == Stream!Broken(w) \/ Stream!BrokenAnyway(w)

(* The forms of a token that is over. *)
LEMMA OverOfForm ==
  ASSUME NEW b, NEW e
  PROVE  LET w == Stream!Text(b, e) IN
         /\ Stream!Quoted(b) =>
              (Stream!Over(b, e) <=> Stream!Closed(w) \/ Breaks(w))
         /\ Stream!LongText(b) =>
              (Stream!Over(b, e) <=>
                 Stream!ClosesLong(w, 1) \/ Stream!NeverOpens(b, e))
         /\ Stream!Comment(b) =>
              (Stream!Over(b, e) <=>
                 \/ Stream!ClosesLong(w, 3)
                 \/ ~Stream!OpensLong(w, 3) /\ doc[e] = "newline")
BY OneForm DEF Stream!Over, Stream!Complete, Stream!CutShort, Breaks

(* A long bracket is not closed by what is no bracket. *)
LEMMA NotClosed ==
  ASSUME NEW w \in Seq(Char), NEW p \in Nat, p > 0, w[Len(w)] # "]",
         \A i \in 1 .. p - 1 : i <= Len(w) => w[i] # "]"
  PROVE  ~Stream!ClosesLong(w, p)
<1>1. CASE \E n : OpenAt(w, p, n)
  <2>1. PICK n : OpenAt(w, p, n)
    BY <1>1
  <2>2. Len(w) >= p
    BY <2>1, LenProperties DEF OpenAt
  <2>3. ~LongClose(w, n)
    BY DEF LongClose
  <2>4. QED
    BY <2>1, <2>2, <2>3, ClosesMeans
<1>2. CASE ~\E n : OpenAt(w, p, n)
  <2>1. ~Stream!OpensLong(w, p)
    BY <1>2, OpensLongMeans
  <2>2. QED
    BY <2>1 DEF Stream!OpensLong, Stream!ClosesLong
<1>3. QED
  BY <1>1, <1>2

(* A token that is not delimited is one by its first character. *)
LEMMA TextOfToken ==
  ASSUME NEW b, NEW e, ~Stream!Quoted(b)
  PROVE  Stream!TokenText(b, e) = Stream!Text(b, e)
BY DEF Stream!TokenText

-----------------------------------------------------------------------------
(* The actions: each keeps the invariant, and leaves the tokens as they    *)
(* are or takes the next one.                                              *)

Same == UNCHANGED <<doc, last>>

LEMMA NextTokenCuts ==
  ASSUME IInv, CutInv, Fits, NextToken
  PROVE  CutInv' /\ (Same \/ Stream!Next)
<1>1. /\ Source /\ mode = "idle" /\ GetNextChar /\ UNCHANGED doc
      /\ buffer' = <<>> /\ level' = -1
      /\ last.to = ReadSoFar /\ last.to \in Nat
  BY DEF IInv, NextToken, CutInv
<1>2. /\ Len(doc) \in Nat /\ ReadSoFar \in 0 .. Len(doc) /\ count' = ReadSoFar + 1
      /\ ~(pushback /\ eos) => AtHand'
      /\ pushback /\ eos => eos'
  BY <1>1, Reads, DocFacts
<1>3. SpaceUpTo(count')
  BY <1>1, <1>2 DEF SpaceUpTo
<1>4. CASE eos' /\ start' = [line |-> line', column |-> column', at |-> count'] /\ Return("EOF")
  <2>1. count' = Len(doc) + 1
    BY <1>1, <1>4, CharacterRead DEF Source
  <2>2. ReadSoFar' = Len(doc) /\ start'.at = Len(doc) + 1
    BY <1>2, <1>4, <2>1 DEF ReadSoFar
  <2>3. QED
    BY <1>1, <1>2, <1>3, <1>4, <2>1, <2>2, Ends
<1>5. CASE ~eos' /\ Enter("space")
  <2>1. AtHand'
    BY <1>2, <1>5
  <2>2. SpaceUpTo(count)'
    BY <1>1, <1>3, <1>5 DEF SpaceUpTo, Enter
  <2>3. CutInv'
    BY <1>1, <1>5, <2>1, <2>2 DEF CutInv, Enter
  <2>4. QED
    BY <1>1, <1>5, <2>3 DEF Enter, Same
<1>6. QED
  BY <1>4, <1>5 DEF NextToken

LEMMA SkipSpaceCuts ==
  ASSUME IInv, CutInv, Fits, SkipSpace
  PROVE  CutInv' /\ (Same \/ Stream!Next)
<1>1. /\ Source /\ mode = "space" /\ curr \in Space /\ GetNextChar
      /\ UNCHANGED <<doc, buffer, mode, level, last>>
      /\ AtHand /\ SpaceUpTo(count) /\ buffer = <<>> /\ level = -1 /\ last.to \in Nat
  BY DEF IInv, SkipSpace, CutInv
<1>2. ~eos
  BY <1>1, EndAssumption DEF AtHand, Char
<1>3. AtHand' /\ count' = count + 1 /\ count \in Nat /\ doc[count] \in Space
  <2>1. AtHand' /\ count' = count + 1
    BY <1>1, <1>2, ReadsOn
  <2>2. QED
    BY <1>1, <1>2, <2>1, DocFacts DEF AtHand
<1>4. SpaceUpTo(count)'
  BY <1>1, <1>3 DEF SpaceUpTo
<1>5. QED
  BY <1>1, <1>3, <1>4 DEF CutInv, Same

(* A character that begins no longer token. *)
LEMMA StandsAlone ==
  ASSUME NEW b
  PROVE  /\ doc[b] \in Mark =>
              ~Stream!Delimited(b) /\ ~Stream!Word(b) /\ ~Stream!Number(b)
         /\ doc[b] \in Other \cup {"+", "backslash"} =>
              /\ ~Stream!Delimited(b) /\ ~Stream!Word(b) /\ ~Stream!Number(b)
              /\ doc[b] \notin Mark \cup {"["}
         /\ doc[b] = "[" /\ ~Stream!LongText(b) =>
              ~Stream!Delimited(b) /\ ~Stream!Word(b) /\ ~Stream!Number(b)
         /\ doc[b] = "-" /\ ~Stream!Comment(b) /\ ~Stream!Number(b) =>
              /\ ~Stream!Delimited(b) /\ ~Stream!Word(b)
              /\ doc[b] \notin Mark \cup {"["}
<1>1. doc[b] \in Mark => ~Stream!Delimited(b) /\ ~Stream!Word(b) /\ ~Stream!Number(b)
  BY OneForm DEF Sole
<1>2. doc[b] = "[" /\ ~Stream!LongText(b) =>
        ~Stream!Delimited(b) /\ ~Stream!Word(b) /\ ~Stream!Number(b)
  BY OneForm DEF Sole
<1>3. Stream!Quote = {"'", "quote"} /\ "-" \notin Letter
  BY ClassAssumption DEF Stream!Quote, NamePart
<1>4. doc[b] = "-" /\ ~Stream!Comment(b) /\ ~Stream!Number(b) =>
        ~Stream!Delimited(b) /\ ~Stream!Word(b) /\ doc[b] \notin Mark \cup {"["}
  BY <1>3 DEF Stream!Delimited, Stream!Quoted, Stream!LongText, Stream!Word, Mark
<1>5. ASSUME doc[b] \in Other \cup {"+", "backslash"}
      PROVE  /\ doc[b] \notin {"'", "quote", "[", "-", "."} \cup Letter \cup Digit \cup Mark
  BY <1>5, ClassAssumption DEF Quote, Mark, NamePart
<1>6. doc[b] \in Other \cup {"+", "backslash"} =>
        /\ ~Stream!Delimited(b) /\ ~Stream!Word(b) /\ ~Stream!Number(b)
        /\ doc[b] \notin Mark \cup {"["}
  BY <1>3, <1>5 DEF Stream!Delimited, Stream!Quoted, Stream!LongText, Stream!Comment,
                    Stream!Word, Stream!Number
<1>7. QED
  BY <1>1, <1>2, <1>4, <1>6

LEMMA BeginCuts ==
  ASSUME IInv, CutInv, Fits, Begin
  PROVE  CutInv' /\ (Same \/ Stream!Next)
<1>1. /\ Source /\ mode = "space" /\ curr \notin Space /\ UNCHANGED <<doc, level>>
      /\ AtHand /\ SpaceUpTo(count) /\ buffer = <<>> /\ level = -1 /\ last.to \in Nat
      /\ start' = [line |-> line, column |-> column, at |-> count]
  BY DEF IInv, Begin, CutInv
<1>2. Len(doc) \in Nat /\ count \in Nat /\ pushback = FALSE /\ start'.at = count
  BY <1>1, DocFacts DEF AtHand
<1>3. CASE curr = End /\ NoGet /\ UNCHANGED buffer /\ Return("EOF")
  <2>1. eos /\ count = Len(doc) + 1
    BY <1>1, <1>3, DocFacts, EndAssumption DEF AtHand
  <2>2. ReadSoFar' = Len(doc)
    BY <1>2, <1>3, <2>1 DEF ReadSoFar, NoGet
  <2>3. QED
    BY <1>1, <1>2, <1>3, <2>1, <2>2, Ends
<1>4. CASE curr # End /\ Appended(curr)
  <2>1. ~eos /\ count \in 1 .. Len(doc) /\ curr = doc[count] /\ curr \in Char
    BY <1>1, <1>4, DocFacts DEF AtHand
  <2>2. PICK b \in 1 .. Len(doc) : b = count
    BY <2>1
  <2>3. /\ buffer' = <<doc[b]>> /\ buffer' = Stream!Text(b, b)
        /\ doc[b] \notin Space /\ SpaceUpTo(b) /\ start'.at = b
    <3>1. ~(0 + 1 >= BufSize) /\ Len(buffer) = 0
      BY <1>1, DocsAssumption
    <3>2. buffer' = <<curr>>
      BY <1>1, <1>4, <3>1 DEF Appended
    <3>3. doc[b] # "return"
      BY <1>1, <2>1, <2>2 DEF Space
    <3>4. Stream!Text(b, b) = <<doc[b]>>
      BY <1>2, <2>1, <2>2, <3>3, TextBegins
    <3>5. QED
      BY <1>1, <1>2, <2>1, <2>2, <3>2, <3>4
  <2>4. ASSUME NEW t, NoGet, Return(t), t = Stream!Token(b, b),
               ~Stream!Delimited(b), ~Stream!Word(b), ~Stream!Number(b)
        PROVE  CutInv' /\ Stream!Next
    <3>1. ReadSoFar' = b
      BY <1>2, <2>1, <2>2, <2>4 DEF ReadSoFar, NoGet
    <3>2. Stream!Lexeme(b, b) /\ buffer' = Stream!TokenText(b, b)
      BY <2>3, <2>4, TextOfToken DEF Stream!Lexeme, Stream!Delimited
    <3>3. b \in b .. Len(doc)
      OBVIOUS
    <3>4. QED
      BY <1>1, <1>2, <2>3, <2>4, <3>1, <3>2, <3>3, Cuts
  <2>5. ASSUME GetNextChar, UNCHANGED last, mode' \notin {"idle", "space"}, Form(b)'
        PROVE  CutInv' /\ Same
    <3>1. buffer' # <<>> /\ buffer'[1] = doc[b] /\ b <= count /\ buffer' = Stream!Text(b, count)
      BY <2>2, <2>3
    <3>2. CutInv'
      BY <1>1, <2>1, <2>3, <2>5, <3>1, MakesOn
    <3>3. QED
      BY <1>1, <2>5, <3>2 DEF Same
  <2>6. CASE curr \in Mark /\ NoGet /\ Return(MarkToken(curr))
    BY <2>1, <2>2, <2>4, <2>6, StandsAlone, TokenOfMark
  <2>7. CASE curr \in Other \cup {"+", "backslash"} /\ NoGet /\ Return("INVALID")
    BY <2>1, <2>2, <2>4, <2>7, StandsAlone, TokenOfMark
  <2>8. GetNextChar => (count = b + 1)' /\ (count - 1 = b)'
    BY <1>1, <2>1, <2>2, ReadsOn
  <2>9. CASE curr = "[" /\ GetNextChar /\ Enter("bracket")
    <3>1. Form(b)'
      BY <1>1, <2>1, <2>2, <2>8, <2>9 DEF Form, Enter
    <3>2. QED
      BY <2>5, <2>9, <3>1 DEF Enter
  <2>10. CASE curr = "-" /\ GetNextChar /\ Enter("dash")
    <3>1. Form(b)'
      BY <1>1, <2>1, <2>2, <2>8, <2>10 DEF Form, Enter
    <3>2. QED
      BY <2>5, <2>10, <3>1 DEF Enter
  <2>11. CASE curr \in Digit \cup {"."} /\ GetNextChar /\ Enter("number")
    <3>1. Stream!Number(b) /\ doc[b] \in NumberPart
      BY <2>1, <2>2, <2>11 DEF Stream!Number, NumberPart
    <3>2. (\A i \in b .. count - 1 : doc[i] \in NumberPart)'
      BY <1>1, <2>8, <2>11, <3>1
    <3>3. Form(b)'
      BY <1>1, <2>11, <3>1, <3>2, SameShapes DEF Form, Enter
    <3>4. QED
      BY <2>5, <2>11, <3>3 DEF Enter
  <2>12. CASE curr \in Letter /\ GetNextChar /\ Enter("name")
    <3>1. Stream!Word(b) /\ doc[b] \in NamePart
      BY <2>1, <2>2, <2>12 DEF Stream!Word, NamePart
    <3>2. (\A i \in b .. count - 1 : doc[i] \in NamePart)'
      BY <1>1, <2>8, <2>12, <3>1
    <3>3. Form(b)'
      BY <1>1, <2>12, <3>1, <3>2, SameShapes DEF Form, Enter
    <3>4. QED
      BY <2>5, <2>12, <3>3 DEF Enter
  <2>13. CASE curr \in Quote /\ GetNextChar /\ Enter("quoted") /\ prev' = curr
    <3>1. Stream!Quoted(b) /\ ~Stream!Over(b, b)
      <4>1. Stream!Quoted(b)
        BY <2>1, <2>2, <2>13, SameClasses DEF Stream!Quoted
      <4>2. Len(Stream!Text(b, b)) = 1
        BY <2>3
      <4>3. ~Stream!Closed(Stream!Text(b, b)) /\ ~Breaks(Stream!Text(b, b))
        BY <4>2 DEF Stream!Closed, Breaks, Stream!Broken,
               Stream!BrokenAnyway, Stream!Unescaped
      <4>4. QED
        BY <4>1, <4>3, OverOfForm
    <3>2. Incomplete(b)'
      BY <1>1, <2>8, <2>13, <3>1, SameShapes DEF Incomplete
    <3>3. (prev = buffer[Len(buffer)])'
      BY <2>1, <2>2, <2>3, <2>13
    <3>4. Form(b)'
      BY <1>1, <2>13, <3>1, <3>2, <3>3, SameShapes DEF Form, Enter
    <3>5. QED
      BY <2>5, <2>13, <3>4 DEF Enter
  <2>14. QED
    BY <1>4, <2>6, <2>7, <2>9, <2>10, <2>11, <2>12, <2>13 DEF Begin
<1>5. QED
  BY <1>3, <1>4 DEF Begin

(* Inside a token. *)
LEMMA Inside ==
  ASSUME IInv, CutInv, Fits, mode \notin {"idle", "space"}
  PROVE  /\ Source /\ AtHand /\ last.to \in Nat /\ buffer \in Seq(Char)
         /\ Len(doc) \in Nat /\ count \in Nat
         /\ Begun(start.at) /\ Form(start.at)
         /\ start.at \in 1 .. Len(doc) /\ count - 1 \in start.at .. Len(doc)
         /\ ~eos => count \in 1 .. Len(doc) /\ curr = doc[count] /\ curr \in Char
         /\ eos => count = Len(doc) + 1 /\ curr = End /\ curr \notin Char
<1>1. /\ Source /\ AtHand /\ last.to \in Nat /\ buffer \in Seq(Char)
      /\ Begun(start.at) /\ Form(start.at)
  BY DEF IInv, Making, CutInv
<1>2. /\ Len(doc) \in Nat /\ count \in 0 .. Len(doc) + 1
      /\ \A i \in 1 .. Len(doc) : doc[i] \in Char
  BY <1>1, DocFacts
<1>3. start.at \in 1 .. Len(doc) /\ start.at < count
  BY <1>1 DEF Begun
<1>4. /\ ~eos => count \in 1 .. Len(doc) /\ curr = doc[count]
      /\ eos => count = Len(doc) + 1 /\ curr = End
  BY <1>1 DEF AtHand
<1>5. QED
  BY <1>1, <1>2, <1>3, <1>4, EndAssumption

(* The character looked at is the one that follows. *)
LEMMA Follows ==
  ASSUME IInv, CutInv, Fits, mode \notin {"idle", "space"}, NEW S, S \subseteq Char
  PROVE  Stream!Followed(count - 1, S) <=> curr \in S
<1>1. /\ Len(doc) \in Nat /\ count \in Nat /\ (count - 1) + 1 = count
      /\ ~eos => count \in 1 .. Len(doc) /\ curr = doc[count]
      /\ eos => count = Len(doc) + 1 /\ curr \notin Char
  BY Inside
<1>2. CASE eos
  <2>1. ~(count - 1 < Len(doc))
    BY <1>1, <1>2
  <2>2. QED
    BY <1>1, <1>2, <2>1 DEF Stream!Followed
<1>3. CASE ~eos
  <2>1. count - 1 < Len(doc) /\ doc[(count - 1) + 1] = curr
    BY <1>1, <1>3
  <2>2. QED
    BY <2>1 DEF Stream!Followed
<1>4. QED
  BY <1>2, <1>3

(* A token that ends before the character looked at, or at the end. *)
LEMMA CutsBefore ==
  ASSUME IInv, CutInv, Fits, mode \notin {"idle", "space"}, UNCHANGED <<doc, start, buffer>>,
         PushBack \/ (eos /\ NoGet), NEW t, Return(t),
         Stream!Lexeme(start.at, count - 1), t = Stream!Token(start.at, count - 1),
         buffer = Stream!TokenText(start.at, count - 1)
  PROVE  CutInv' /\ Stream!Next
<1>1. PICK b \in 1 .. Len(doc) : b = start.at
  BY Inside
<1>2. PICK e \in b .. Len(doc) : e = count - 1
  BY <1>1, Inside
<1>3. e = ReadSoFar'
  BY <1>2, Inside DEF PushBack, NoGet, ReadSoFar
<1>4. /\ Len(doc) \in Nat /\ last.to \in Nat /\ SpaceUpTo(b) /\ doc[b] \notin Space
      /\ start'.at = b
  BY <1>1, Inside DEF Begun
<1>5. QED
  BY <1>1, <1>2, <1>3, <1>4, Cuts

(* One that ends with it. *)
LEMMA CutsBehind ==
  ASSUME IInv, CutInv, Fits, mode \notin {"idle", "space"}, UNCHANGED <<doc, start>>,
         ~eos, NoGet, NEW t, Return(t),
         Stream!Lexeme(start.at, count), t = Stream!Token(start.at, count),
         buffer' = Stream!TokenText(start.at, count)
  PROVE  CutInv' /\ Stream!Next
<1>1. PICK b \in 1 .. Len(doc) : b = start.at
  BY Inside
<1>2. PICK e \in b .. Len(doc) : e = count
  BY <1>1, Inside
<1>3. e = ReadSoFar'
  BY <1>2, Inside DEF NoGet, ReadSoFar, AtHand
<1>4. /\ Len(doc) \in Nat /\ last.to \in Nat /\ SpaceUpTo(b) /\ doc[b] \notin Space
      /\ start'.at = b
  BY <1>1, Inside DEF Begun
<1>5. QED
  BY <1>1, <1>2, <1>3, <1>4, Cuts

(* One that goes on. *)
LEMMA GoesOnWith ==
  ASSUME IInv, CutInv, Fits, mode \notin {"idle", "space"}, UNCHANGED <<doc, start, last>>,
         ~eos, AppendedIfKept, GetNextChar, mode' \notin {"idle", "space"},
         NEW b, b = start.at, Form(b)'
  PROVE  CutInv' /\ Same
<1>1. /\ Source /\ AtHand /\ last.to \in Nat /\ buffer \in Seq(Char) /\ Begun(b)
      /\ b \in 1 .. Len(doc) /\ b <= count /\ start'.at = b
  BY Inside
<1>2. /\ buffer' = IF curr = "return" THEN buffer ELSE Append(buffer, curr)
      /\ buffer' = Stream!Text(b, count)
  BY <1>1, Keeps
<1>3. /\ SpaceUpTo(b) /\ doc[b] \notin Space /\ buffer # <<>> /\ buffer[1] = doc[b]
  BY <1>1 DEF Begun
<1>4. buffer' # <<>> /\ buffer'[1] = doc[b]
  <2>1. curr \in Char /\ Len(buffer) >= 1 /\ Len(buffer) \in Nat
    BY <1>1, <1>3, Inside, EmptySeq, LenProperties
  <2>2. Append(buffer, curr) # <<>> /\ Append(buffer, curr)[1] = buffer[1]
    BY <1>1, <2>1, AppendProperties
  <2>3. QED
    BY <1>2, <1>3, <2>2
<1>5. CutInv'
  BY <1>1, <1>2, <1>3, <1>4, MakesOn
<1>6. QED
  BY <1>5 DEF Same

(* The characters of names and numbers are kept. *)
LEMMA PartsAreKept ==
  /\ NumberPart \cup NamePart \cup Quote \cup {"[", "=", "-", "."} \subseteq Char
  /\ "return" \notin NumberPart \cup NamePart \cup Quote \cup {"[", "=", "-", "."}
<1>1. "return" \notin Letter \cup Digit
  BY ClassAssumption DEF NamePart, Space
<1>2. "return" \notin NumberPart \cup NamePart \cup Quote \cup {"[", "=", "-", "."}
  BY <1>1, ClassAssumption DEF NumberPart, NamePart, Quote
<1>3. NumberPart \cup NamePart \cup Quote \cup {"[", "=", "-", "."} \subseteq Char
  BY ClassAssumption DEF NumberPart, NamePart, Char, Mark
<1>4. QED
  BY <1>2, <1>3

LEMMA NumberCuts ==
  ASSUME IInv, CutInv, Fits, Number
  PROVE  CutInv' /\ (Same \/ Stream!Next)
<1>1. /\ mode = "number" /\ mode \notin {"idle", "space"}
      /\ UNCHANGED <<doc, start>>
  BY DEF Number
<1>2. PICK b : b = start.at
  OBVIOUS
<1>3. Stream!Number(b) /\ \A i \in b .. count - 1 : doc[i] \in NumberPart
  BY <1>1, <1>2, Inside DEF Form
<1>4. NumberPart \subseteq Char /\ "return" \notin NumberPart
  BY PartsAreKept
<1>5. CASE curr \in NumberPart /\ Appended(curr) /\ GetNextChar /\ UNCHANGED <<mode, last>>
  <2>1. ~eos /\ curr = doc[count] /\ AppendedIfKept
    BY <1>1, <1>4, <1>5, Inside DEF AppendedIfKept
  <2>2. Source /\ AtHand /\ count \in Nat
    BY <1>1, Inside
  <2>3. count' = count + 1
    BY <1>1, <1>5, <2>1, <2>2, ReadsOn
  <2>4. (\A i \in b .. count - 1 : doc[i] \in NumberPart)'
    BY <1>1, <1>3, <1>5, <2>1, <2>2, <2>3
  <2>5. Form(b)'
    BY <1>1, <1>3, <1>5, <2>4, SameShapes DEF Form
  <2>6. QED
    BY <1>1, <1>2, <1>5, <2>1, <2>5, GoesOnWith
<1>6. CASE curr \notin NumberPart /\ PushBack /\ UNCHANGED buffer /\ Return(NumberToken(buffer))
  <2>1. ~Stream!Followed(count - 1, NumberPart)
    BY <1>1, <1>4, <1>6, Follows
  <2>2. Stream!Lexeme(b, count - 1)
    BY <1>3, <2>1, SameClasses DEF Stream!Lexeme
  <2>3. ~Stream!Quoted(b) /\ buffer = Stream!Text(b, count - 1)
    BY <1>1, <1>2, <1>3, OneForm, Inside DEF Stream!Delimited, Begun
  <2>4. NumberToken(buffer) = Stream!Token(b, count - 1)
    BY <1>3, <2>3, TokenOfForm
  <2>5. buffer = Stream!TokenText(b, count - 1)
    BY <2>3, TextOfToken
  <2>6. QED
    BY <1>1, <1>2, <1>6, <2>2, <2>4, <2>5, CutsBefore
<1>7. QED
  BY <1>5, <1>6 DEF Number

LEMMA NameCuts ==
  ASSUME IInv, CutInv, Fits, Name
  PROVE  CutInv' /\ (Same \/ Stream!Next)
<1>1. /\ mode = "name" /\ mode \notin {"idle", "space"}
      /\ UNCHANGED <<doc, start>>
  BY DEF Name
<1>2. PICK b : b = start.at
  OBVIOUS
<1>3. Stream!Word(b) /\ \A i \in b .. count - 1 : doc[i] \in NamePart
  BY <1>1, <1>2, Inside DEF Form
<1>4. NamePart \subseteq Char /\ "return" \notin NamePart
  BY PartsAreKept
<1>5. CASE curr \in NamePart /\ Appended(curr) /\ GetNextChar /\ UNCHANGED <<mode, last>>
  <2>1. ~eos /\ curr = doc[count] /\ AppendedIfKept
    BY <1>1, <1>4, <1>5, Inside DEF AppendedIfKept
  <2>2. Source /\ AtHand /\ count \in Nat
    BY <1>1, Inside
  <2>3. count' = count + 1
    BY <1>1, <1>5, <2>1, <2>2, ReadsOn
  <2>4. (\A i \in b .. count - 1 : doc[i] \in NamePart)'
    BY <1>1, <1>3, <1>5, <2>1, <2>2, <2>3
  <2>5. Form(b)'
    BY <1>1, <1>3, <1>5, <2>4, SameShapes DEF Form
  <2>6. QED
    BY <1>1, <1>2, <1>5, <2>1, <2>5, GoesOnWith
<1>6. CASE curr \notin NamePart /\ PushBack /\ UNCHANGED buffer /\ Return(WordToken(buffer))
  <2>1. ~Stream!Followed(count - 1, NamePart)
    BY <1>1, <1>4, <1>6, Follows
  <2>2. Stream!Lexeme(b, count - 1)
    BY <1>3, <2>1, SameClasses DEF Stream!Lexeme
  <2>3. ~Stream!Quoted(b) /\ buffer = Stream!Text(b, count - 1)
    BY <1>1, <1>2, <1>3, OneForm, Inside DEF Stream!Delimited, Begun
  <2>4. WordToken(buffer) = Stream!Token(b, count - 1)
    BY <1>3, <2>3, TokenOfForm
  <2>5. buffer = Stream!TokenText(b, count - 1)
    BY <2>3, TextOfToken
  <2>6. QED
    BY <1>1, <1>2, <1>6, <2>2, <2>4, <2>5, CutsBefore
<1>7. QED
  BY <1>5, <1>6 DEF Name

(* The text of two characters, the second of which is looked at. *)
LEMMA SecondCharacter ==
  ASSUME IInv, CutInv, Fits, mode \notin {"idle", "space"}, NEW b, b = start.at,
         count = b + 1, ~eos, curr # "return", Appended(curr)
  PROVE  /\ AppendedIfKept
         /\ buffer = <<doc[b]>> /\ Stream!Text(b, b) = buffer
         /\ buffer' = <<doc[b], curr>> /\ Stream!Text(b, b + 1) = buffer'
         /\ buffer \in Seq(Char) /\ buffer' \in Seq(Char)
<1>1. AppendedIfKept
  BY DEF AppendedIfKept
<1>2. /\ Source /\ AtHand /\ Begun(b) /\ buffer \in Seq(Char) /\ Len(doc) \in Nat
      /\ b \in 1 .. Len(doc) /\ curr \in Char
  BY Inside
<1>3. doc[b] \in Char /\ doc[b] # "return"
  BY <1>2, DocFacts DEF Begun, Space
<1>4. /\ count - 1 = b
      /\ buffer = Stream!Text(b, count - 1)
  BY <1>2 DEF Begun
<1>5. Stream!Text(b, b) = <<doc[b]>>
  BY <1>2, <1>3, TextBegins
<1>6. /\ buffer' = Append(buffer, curr) /\ buffer' = Stream!Text(b, count)
      /\ buffer' \in Seq(Char)
  BY <1>1, <1>2, Keeps
<1>7. Append(<<doc[b]>>, curr) = <<doc[b], curr>>
  <2>1. /\ <<doc[b]>> \in Seq(Char) /\ Len(<<doc[b]>>) = 1 /\ <<doc[b]>>[1] = doc[b]
        /\ <<doc[b], curr>> \in Seq(Char) /\ Len(<<doc[b], curr>>) = 2
        /\ <<doc[b], curr>>[1] = doc[b] /\ <<doc[b], curr>>[2] = curr
    BY <1>2, <1>3
  <2> DEFINE u == <<doc[b]>>
             v == <<doc[b], curr>>
  <2> HIDE DEF u, v
  <2>2. /\ Append(u, curr) \in Seq(Char) /\ Len(Append(u, curr)) = 2
        /\ Append(u, curr)[1] = doc[b] /\ Append(u, curr)[2] = curr
    BY <1>2, <2>1, AppendProperties DEF u
  <2>3. \A i \in 1 .. 2 : Append(u, curr)[i] = v[i]
    <3>1. \A i \in 1 .. 2 : i = 1 \/ i = 2
      OBVIOUS
    <3>2. QED
      BY <2>1, <2>2, <3>1 DEF v
  <2>4. v \in Seq(Char) /\ Len(v) = 2
    BY <2>1 DEF v
  <2>5. Append(u, curr) = v
    BY <2>2, <2>3, <2>4, SeqEqual
  <2>6. QED
    BY <2>5 DEF u, v
<1>8. QED
  BY <1>1, <1>2, <1>4, <1>5, <1>6, <1>7

LEMMA BracketCuts ==
  ASSUME IInv, CutInv, Fits, Bracket
  PROVE  CutInv' /\ (Same \/ Stream!Next)
<1>1. /\ mode = "bracket" /\ mode \notin {"idle", "space"}
      /\ UNCHANGED <<doc, start>>
  BY DEF Bracket
<1>2. PICK b : b = start.at
  OBVIOUS
<1>3. doc[b] = "[" /\ count = b + 1 /\ b \in 1 .. Len(doc) /\ Len(doc) \in Nat
  BY <1>1, <1>2, Inside DEF Form
<1>4. {"[", "="} \subseteq Char /\ "return" \notin {"[", "="}
  BY PartsAreKept
<1>5. CASE /\ curr \in {"[", "="} /\ Appended(curr)
           /\ level' = (IF curr = "[" THEN 0 ELSE -1)
           /\ GetNextChar /\ Enter("long_string")
  <2>1. ~eos /\ curr = doc[count] /\ curr # "return" /\ count \in 1 .. Len(doc)
    BY <1>1, <1>4, <1>5, Inside
  <2>2. /\ AppendedIfKept
        /\ buffer = <<doc[b]>> /\ Stream!Text(b, b) = buffer
        /\ buffer' = <<doc[b], curr>> /\ Stream!Text(b, b + 1) = buffer'
        /\ buffer \in Seq(Char) /\ buffer' \in Seq(Char)
    BY <1>1, <1>2, <1>3, <1>5, <2>1, SecondCharacter
  <2>3. /\ Len(buffer) = 1 /\ buffer[1] = "["
        /\ Len(buffer') = 2 /\ buffer'[1] = "[" /\ buffer'[2] = curr
    BY <1>3, <2>2
  <2>4. Stream!LongText(b)
    BY <1>3, <1>5, <2>1 DEF Stream!LongText, Stream!Followed
  <2>5. ~Stream!Over(b, b) /\ ~Stream!Over(b, b + 1)
    <3>1. ~Stream!ClosesLong(buffer, 1) /\ ~Stream!ClosesLong(buffer', 1)
      <4>1. buffer[Len(buffer)] # "]" /\ buffer'[Len(buffer')] # "]"
        BY <1>5, <2>3
      <4>2. ASSUME NEW w \in Seq(Char), w[Len(w)] # "]"
            PROVE  ~Stream!ClosesLong(w, 1)
        <5>1. \A i \in 1 .. 1 - 1 : i <= Len(w) => w[i] # "]"
          OBVIOUS
        <5>2. 1 \in Nat /\ 1 > 0
          OBVIOUS
        <5>3. QED
          BY <4>2, <5>1, <5>2, NotClosed
      <4>3. QED
        BY <2>2, <4>1, <4>2
    <3>2. ~Stream!NeverOpens(b, b) /\ ~Stream!NeverOpens(b, b + 1)
      BY <1>3 DEF Stream!NeverOpens
    <3>3. QED
      BY <2>2, <2>4, <3>1, <3>2, OverOfForm
  <2>6. count' = b + 2
    BY <1>1, <1>3, <1>5, <2>1, ReadsOn, Inside
  <2>7. Incomplete(b)'
    <3>1. \A i \in b .. count' - 1 : i = b \/ i = b + 1
      BY <1>3, <2>6
    <3>2. QED
      BY <1>1, <2>5, <3>1, SameShapes DEF Incomplete
  <2>8. LevelIs(1)'
    <3>1. CASE curr = "["
      BY <1>5, <2>3, <3>1 DEF LevelIs, OpenAt
    <3>2. CASE curr = "="
      BY <1>5, <2>3, <3>2 DEF LevelIs, OpenAt
    <3>3. QED
      BY <1>5, <3>1, <3>2
  <2>9. /\ (level < 0 => /\ \A i \in b + 1 .. count - 1 : doc[i] = "="
                         /\ \A i \in 2 .. Len(buffer) : buffer[i] = "=")'
        /\ (level >= 0 => \E i \in b + 1 .. count - 1 : doc[i] = "[")'
    <3>1. /\ doc' = doc /\ curr = doc[b + 1] /\ b \in Nat
      BY <1>1, <1>3, <2>1
    <3>2. CASE curr = "["
      <4>1. level' = 0 /\ b + 1 \in b + 1 .. count' - 1 /\ doc[b + 1] = "["
        BY <1>5, <2>6, <3>1, <3>2
      <4>2. QED
        BY <3>1, <4>1
    <3>3. CASE curr = "="
      <4>1. level' = -1
        BY <1>5, <3>3
      <4>2. /\ \A i \in b + 1 .. count' - 1 : i = b + 1
            /\ \A i \in 2 .. Len(buffer') : i = 2
        BY <2>3, <2>6, <3>1
      <4>3. /\ \A i \in b + 1 .. count' - 1 : doc'[i] = "="
            /\ \A i \in 2 .. Len(buffer') : buffer'[i] = "="
        BY <2>3, <3>1, <3>3, <4>2
      <4>4. ~(level' >= 0)
        BY <4>1
      <4>5. QED
        BY <4>3, <4>4
    <3>4. QED
      BY <1>5, <3>2, <3>3
  <2>10. Form(b)'
    BY <1>1, <1>3, <1>5, <2>4, <2>6, <2>7, <2>8, <2>9, SameShapes DEF Form, Enter
  <2>11. QED
    BY <1>1, <1>2, <1>5, <2>1, <2>2, <2>10, GoesOnWith DEF Enter
<1>6. CASE /\ curr \notin {"[", "="} /\ PushBack /\ UNCHANGED buffer /\ Return("SQUARE_OPEN")
  <2>1. count - 1 = b
    BY <1>3
  <2>2. ~Stream!LongText(b)
    BY <1>1, <1>4, <1>6, <2>1, Follows DEF Stream!LongText
  <2>3. ~Stream!Delimited(b) /\ ~Stream!Word(b) /\ ~Stream!Number(b)
    BY <1>3, <2>2, StandsAlone
  <2>4. Stream!Lexeme(b, count - 1)
    BY <2>1, <2>3 DEF Stream!Lexeme
  <2>5. Stream!Token(b, count - 1) = "SQUARE_OPEN"
    BY <1>3, <2>3, TokenOfMark
  <2>6. buffer = Stream!TokenText(b, count - 1)
    BY <1>1, <1>2, <2>3, TextOfToken, Inside DEF Stream!Delimited, Begun
  <2>7. QED
    BY <1>1, <1>2, <1>6, <2>4, <2>5, <2>6, CutsBefore
<1>7. QED
  BY <1>5, <1>6 DEF Bracket

LEMMA DashCuts ==
  ASSUME IInv, CutInv, Fits, Dash
  PROVE  CutInv' /\ (Same \/ Stream!Next)
<1>1. /\ mode = "dash" /\ mode \notin {"idle", "space"}
      /\ UNCHANGED <<doc, start, level>>
  BY DEF Dash
<1>2. PICK b : b = start.at
  OBVIOUS
<1>3. doc[b] = "-" /\ count = b + 1 /\ level = -1 /\ b \in 1 .. Len(doc) /\ Len(doc) \in Nat
      /\ count - 1 = b
  BY <1>1, <1>2, Inside DEF Form
<1>4. /\ Digit \cup {"."} \subseteq NumberPart /\ "-" \in NumberPart
      /\ NumberPart \subseteq Char /\ "return" \notin NumberPart
      /\ Digit \cup {"."} \subseteq Char /\ {"-"} \subseteq Char
  BY PartsAreKept DEF NumberPart
<1>5. CASE curr = "-" /\ Appended(curr) /\ GetNextChar /\ Enter("comment")
  <2>1. ~eos /\ curr = doc[count] /\ curr # "return" /\ count \in 1 .. Len(doc)
    BY <1>1, <1>4, <1>5, Inside
  <2>2. /\ AppendedIfKept
        /\ buffer = <<doc[b]>> /\ Stream!Text(b, b) = buffer
        /\ buffer' = <<doc[b], curr>> /\ Stream!Text(b, b + 1) = buffer'
        /\ buffer \in Seq(Char) /\ buffer' \in Seq(Char)
    BY <1>1, <1>2, <1>3, <1>5, <2>1, SecondCharacter
  <2>3. /\ Len(buffer) = 1 /\ buffer[1] = "-"
        /\ Len(buffer') = 2 /\ buffer'[1] = "-" /\ buffer'[2] = "-"
    BY <1>3, <1>5, <2>2
  <2>4. Stream!Comment(b)
    BY <1>3, <1>5, <2>1 DEF Stream!Comment, Stream!Followed
  <2>5. ~Stream!Over(b, b) /\ ~Stream!Over(b, b + 1)
    <3>1. ~Stream!ClosesLong(buffer, 3) /\ ~Stream!ClosesLong(buffer', 3)
      <4>1. buffer[Len(buffer)] # "]" /\ buffer'[Len(buffer')] # "]"
        BY <2>3
      <4>2. \A i \in 1 .. 3 - 1 : /\ i <= Len(buffer) => buffer[i] # "]"
                                 /\ i <= Len(buffer') => buffer'[i] # "]"
        <5>1. \A i \in 1 .. 3 - 1 : i = 1 \/ i = 2
          OBVIOUS
        <5>2. QED
          BY <2>3, <5>1
      <4>3. QED
        BY <2>2, <4>1, <4>2, NotClosed
    <3>2. doc[b] # "newline" /\ doc[b + 1] # "newline"
      BY <1>3, <1>5, <2>1
    <3>3. QED
      BY <2>2, <2>4, <3>1, <3>2, OverOfForm
  <2>6. count' = b + 2
    BY <1>1, <1>3, <1>5, <2>1, ReadsOn, Inside
  <2>7. Incomplete(b)'
    <3>1. \A i \in b .. count' - 1 : i = b \/ i = b + 1
      BY <1>3, <2>6
    <3>2. QED
      BY <1>1, <2>5, <3>1, SameShapes DEF Incomplete
  <2>8. LevelIs(3)'
    BY <1>1, <1>3, <2>3 DEF LevelIs, OpenAt
  <2>9. Form(b)'
    BY <1>1, <1>3, <1>5, <2>3, <2>4, <2>6, <2>7, <2>8, SameShapes DEF Form, Enter
  <2>10. QED
    BY <1>1, <1>2, <1>5, <2>1, <2>2, <2>9, GoesOnWith DEF Enter
<1>6. CASE curr \in Digit \cup {"."} /\ Appended(curr) /\ GetNextChar /\ Enter("number")
  <2>1. ~eos /\ curr = doc[count] /\ curr # "return" /\ count \in 1 .. Len(doc)
    BY <1>1, <1>4, <1>6, Inside
  <2>2. Stream!Number(b)
    BY <1>3, <1>6, <2>1 DEF Stream!Number, Stream!Followed
  <2>3. count' = b + 2
    BY <1>1, <1>3, <1>6, <2>1, ReadsOn, Inside
  <2>4. (\A i \in b .. count - 1 : doc[i] \in NumberPart)'
    <3>1. \A i \in b .. count' - 1 : i = b \/ i = count
      BY <1>3, <2>3
    <3>2. doc[b] \in NumberPart /\ doc[count] \in NumberPart
      BY <1>3, <1>4, <1>6, <2>1
    <3>3. QED
      BY <1>1, <3>1, <3>2
  <2>5. Form(b)'
    BY <1>1, <1>6, <2>2, <2>4, SameShapes DEF Form, Enter
  <2>6. AppendedIfKept
    BY <1>6, <2>1 DEF AppendedIfKept
  <2>7. QED
    BY <1>1, <1>2, <1>6, <2>1, <2>5, <2>6, GoesOnWith DEF Enter
<1>7. CASE curr \notin Digit \cup {"-", "."} /\ PushBack /\ UNCHANGED buffer /\ Return("INVALID")
  <2>1. ~Stream!Comment(b) /\ ~Stream!Number(b)
    <3>1. ~Stream!Followed(b, {"-"}) /\ ~Stream!Followed(b, Digit \cup {"."})
      BY <1>1, <1>3, <1>4, <1>7, Follows
    <3>2. "-" \notin Digit \cup {"."}
      BY ClassAssumption DEF NamePart
    <3>3. QED
      BY <1>3, <3>1, <3>2 DEF Stream!Comment, Stream!Number
  <2>2. /\ ~Stream!Delimited(b) /\ ~Stream!Word(b) /\ doc[b] \notin Mark \cup {"["}
    BY <1>3, <2>1, StandsAlone
  <2>3. Stream!Lexeme(b, count - 1)
    BY <1>3, <2>1, <2>2 DEF Stream!Lexeme
  <2>4. Stream!Token(b, count - 1) = "INVALID"
    BY <2>1, <2>2, TokenOfMark
  <2>5. buffer = Stream!TokenText(b, count - 1)
    BY <1>1, <1>2, <2>2, TextOfToken, Inside DEF Stream!Delimited, Begun
  <2>6. QED
    BY <1>1, <1>2, <1>7, <2>3, <2>4, <2>5, CutsBefore
<1>8. QED
  BY <1>5, <1>6, <1>7 DEF Dash

(* The text with the character looked at. *)
LEMMA NextText ==
  ASSUME IInv, CutInv, Fits, mode \notin {"idle", "space"}, ~eos, NEW b, b = start.at
  PROVE  /\ Stream!Text(b, count) = IF curr = "return" THEN buffer ELSE Append(buffer, curr)
         /\ Stream!Text(b, count - 1) = buffer
         /\ Stream!Text(b, count) \in Seq(Char)
<1>1. /\ Len(doc) \in Nat /\ count \in 1 .. Len(doc) /\ curr = doc[count] /\ curr \in Char
      /\ b \in Nat /\ b <= count /\ buffer \in Seq(Char)
      /\ Begun(b)
  BY Inside
<1> DEFINE e == count - 1
<1>2. buffer = Stream!Text(b, e)
  BY <1>1 DEF Begun
<1>3. e + 1 = count /\ e \in Int /\ b <= e + 1
  BY <1>1
<1>4. Stream!Text(b, count - 1) = buffer
  BY <1>2
<1> HIDE DEF e
<1>5. Stream!Text(b, e + 1) = IF doc[e + 1] = "return" THEN Stream!Text(b, e)
                              ELSE Append(Stream!Text(b, e), doc[e + 1])
  BY <1>1, <1>2, <1>3, TextGrows
<1>6. Stream!Text(b, count) = IF curr = "return" THEN buffer ELSE Append(buffer, curr)
  BY <1>1, <1>2, <1>3, <1>5
<1>7. QED
  BY <1>1, <1>4, <1>6, AppendProperties

LEMMA EndsInTwo ==
  ASSUME NEW w \in Seq(Char), NEW a \in Char, NEW c \in Char, NEW n \in Nat, n = Len(w)
  PROVE  IsSuffix(<<a, c>>, w) <=> n >= 2 /\ w[n - 1] = a /\ w[n] = c
<1> DEFINE s == <<a, c>>
           r == Reverse(s)
           t == Reverse(w)
<1>1. s \in Seq(Char) /\ Len(s) = 2 /\ s[1] = a /\ s[2] = c
  OBVIOUS
<1> HIDE DEF s
<1>2. r = [i \in 1 .. 2 |-> s[(2 - i) + 1]] /\ t = [i \in 1 .. n |-> w[(n - i) + 1]]
  BY <1>1 DEF Reverse
<1> HIDE DEF r, t
<1>3. r \in Seq(Char) /\ Len(r) = 2 /\ r[1] = c /\ r[2] = a
  <2>1. \A i \in 1 .. 2 : s[(2 - i) + 1] \in Char
    BY <1>1, ElementOfSeq
  <2>2. r \in [1 .. 2 -> Char]
    BY <1>2, <2>1
  <2>3. r \in Seq(Char) /\ Len(r) = 2
    <3>1. 2 \in Nat
      OBVIOUS
    <3>2. \A n0 \in Nat : \A f \in [1 .. n0 -> Char] : f \in Seq(Char) /\ Len(f) = n0
      BY LenProperties
    <3>3. QED
      BY <2>2, <3>1, <3>2
  <2>4. r[1] = s[2] /\ r[2] = s[1]
    BY <1>2
  <2>5. QED
    BY <1>1, <2>3, <2>4
<1>4. t \in Seq(Char) /\ Len(t) = n /\ \A i \in 1 .. n : t[i] = w[(n - i) + 1]
  <2>1. \A i \in 1 .. n : w[(n - i) + 1] \in Char
    BY ElementOfSeq
  <2>2. t \in [1 .. n -> Char]
    BY <1>2, <2>1
  <2>3. QED
    BY <1>2, <2>2
<1>5. IsPrefix(r, t) <=> n >= 2 /\ SubSeq(r, 1, 2) = SubSeq(t, 1, 2)
  BY <1>3, <1>4 DEF IsPrefix
<1>6. SubSeq(r, 1, 2) = r
  BY <1>3, SubSeqFull
<1>7. ASSUME n >= 2
      PROVE  SubSeq(t, 1, 2) = r <=> w[n - 1] = a /\ w[n] = c
  <2>1. t[1] = w[n] /\ t[2] = w[n - 1]
    BY <1>4, <1>7
  <2>2. \A i \in 1 .. 2 : t[i] \in Char
    BY <1>4, <1>7, ElementOfSeq
  <2>3. /\ SubSeq(t, 1, 2) \in Seq(Char) /\ Len(SubSeq(t, 1, 2)) = 2
        /\ SubSeq(t, 1, 2)[1] = t[1] /\ SubSeq(t, 1, 2)[2] = t[2]
    BY <2>2, SubSeqProperties
  <2> DEFINE u == SubSeq(t, 1, 2)
  <2> HIDE DEF u
  <2>4. u \in Seq(Char) /\ Len(u) = 2 /\ u[1] = w[n] /\ u[2] = w[n - 1]
    BY <2>1, <2>3 DEF u
  <2>5. u = r <=> u[1] = r[1] /\ u[2] = r[2]
    <3>1. \A i \in 1 .. 2 : i = 1 \/ i = 2
      OBVIOUS
    <3>2. u[1] = r[1] /\ u[2] = r[2] => \A i \in 1 .. 2 : u[i] = r[i]
      BY <3>1
    <3>3. QED
      BY <1>3, <2>4, <3>2, SeqEqual
  <2>6. QED
    BY <1>3, <2>4, <2>5 DEF u
<1>8. QED
  BY <1>5, <1>6, <1>7 DEF IsSuffix, r, t, s

(* A quoted string with one more character. *)
LEMMA QuotedGrows ==
  ASSUME NEW w \in Seq(Char), w # <<>>, w[1] \in Quote, NEW c \in Char
  PROVE  /\ Stream!Closed(Append(w, c)) <=> c = w[1] /\ w[Len(w)] # "backslash"
         /\ Breaks(Append(w, c)) <=>
              /\ c = "newline" /\ w[Len(w)] # "backslash"
              /\ ~IsSuffix(<<"backslash", "z">>, w)
<1> DEFINE n == Len(w)
           v == Append(w, c)
<1>1. n \in Nat /\ n >= 1
  BY EmptySeq, LenProperties
<1>2. /\ v \in Seq(Char) /\ Len(v) = n + 1 /\ v[n + 1] = c
      /\ \A i \in 1 .. n : v[i] = w[i]
  BY AppendProperties
<1> HIDE DEF n, v
<1>3. v[1] = w[1] /\ v[Len(v)] = c /\ v[Len(v) - 1] = w[n] /\ Len(v) > 1
  <2>1. 1 \in 1 .. n /\ n \in 1 .. n /\ Len(v) - 1 = n
    BY <1>1, <1>2
  <2>2. QED
    BY <1>1, <1>2, <2>1
<1>4. Stream!Closed(v) <=> c = w[1] /\ w[n] # "backslash"
  BY <1>3 DEF Stream!Closed, Stream!Escaped
<1>5. {"backslash", "z"} \subseteq Char
  BY ClassAssumption DEF Char, NamePart
<1>6. IsSuffix(<<"backslash", "z">>, w) <=> n >= 2 /\ w[n - 1] = "backslash" /\ w[n] = "z"
  BY <1>1, <1>5, EndsInTwo DEF n
<1>7. v[Len(v) - 1] = "z" /\ v[Len(v) - 2] = "backslash" <=>
        IsSuffix(<<"backslash", "z">>, w)
  <2>1. CASE n = 1
    <3>1. w[n] # "z"
      BY <2>1 DEF Quote
    <3>2. QED
      BY <1>3, <1>6, <2>1, <3>1
  <2>2. CASE n >= 2
    <3>1. n - 1 \in 1 .. n /\ Len(v) - 2 = n - 1
      BY <1>1, <1>2, <2>2
    <3>2. QED
      BY <1>2, <1>3, <1>6, <2>2, <3>1
  <2>3. QED
    BY <1>1, <2>1, <2>2
<1>8. Breaks(v) <=> /\ c = "newline" /\ w[n] # "backslash"
                           /\ ~IsSuffix(<<"backslash", "z">>, w)
  <2>1. Stream!Unescaped(v) <=> c = "newline" /\ w[n] # "backslash"
    BY <1>3 DEF Stream!Unescaped, Stream!Escaped
  <2>2. IsSuffix(<<"backslash", "z">>, w) => Stream!Skipping(v)
    <3>1. ASSUME IsSuffix(<<"backslash", "z">>, w)
          PROVE  /\ n - 1 \in 1 .. Len(v) - 2 /\ v[n - 1] = "backslash" /\ v[(n - 1) + 1] = "z"
                 /\ \A i \in (n - 1) + 2 .. Len(v) - 1 : v[i] \in Stream!Space
      BY <1>1, <1>2, <1>6, <3>1
    <3>2. QED
      BY <3>1 DEF Stream!Skipping
  <2>3. QED
    BY <1>7, <2>1, <2>2 DEF Breaks, Stream!Broken, Stream!BrokenAnyway
<1>9. QED
  BY <1>4, <1>8 DEF n, v

LEMMA StaysIncomplete ==
  ASSUME IInv, CutInv, Fits, mode \notin {"idle", "space"}, ~eos, GetNextChar, UNCHANGED doc,
         NEW b, b = start.at, Incomplete(b), ~Stream!Over(b, count)
  PROVE  Incomplete(b)' /\ count' = count + 1
<1>1. /\ Source /\ AtHand /\ count \in Nat /\ b \in 1 .. Len(doc)
  BY Inside
<1>2. count' = count + 1
  BY <1>1, ReadsOn
<1>3. \A i \in b .. count' - 1 : i = count \/ i \in b .. count - 1
  BY <1>1, <1>2
<1>4. \A i \in b .. count' - 1 : ~Stream!Over(b, i)
  BY <1>3 DEF Incomplete
<1>5. QED
  BY <1>2, <1>4, SameShapes DEF Incomplete

(* A delimited token that is complete with the character looked at, or     *)
(* that meets the end of the document.                                     *)
LEMMA DelimitedEnds ==
  ASSUME IInv, CutInv, Fits, mode \notin {"idle", "space"},
         NEW b, b = start.at, Stream!Delimited(b), Incomplete(b)
  PROVE  /\ eos => Stream!Lexeme(b, count - 1) /\ ~Stream!Over(b, count - 1)
         /\ ~eos /\ Stream!Over(b, count) => Stream!Lexeme(b, count)
<1>1. /\ count \in Nat /\ Len(doc) \in Nat /\ b \in 1 .. Len(doc) /\ count - 1 \in b .. Len(doc)
      /\ eos => count = Len(doc) + 1
  BY Inside
<1>2. eos => count - 1 = Len(doc)
  BY <1>1
<1>3. \A i \in b .. (count - 1) - 1 : ~Stream!Over(b, i)
  BY <1>1 DEF Incomplete
<1>4. ~Stream!Over(b, count - 1)
  BY <1>1 DEF Incomplete
<1>5. \A i \in b .. count - 1 : ~Stream!Over(b, i)
  BY DEF Incomplete
<1>6. QED
  BY <1>2, <1>3, <1>4, <1>5 DEF Stream!Lexeme, Stream!Over

LEMMA QuotedCuts ==
  ASSUME IInv, CutInv, Fits, Quoted
  PROVE  CutInv' /\ (Same \/ Stream!Next)
<1> DEFINE breaks == /\ curr = "newline" /\ prev # "backslash"
                     /\ ~IsSuffix(<<"backslash", "z">>, buffer)
           closes == curr = buffer[1] /\ prev # "backslash"
           w == Append(buffer, curr)
<1>1. /\ mode = "quoted" /\ mode \notin {"idle", "space"}
      /\ UNCHANGED <<doc, level, start>>
  BY DEF Quoted
<1>2. PICK b : b = start.at
  OBVIOUS
<1>3. /\ Stream!Quoted(b) /\ Incomplete(b) /\ prev = buffer[Len(buffer)]
      /\ Stream!Delimited(b)
  BY <1>1, <1>2, Inside DEF Form, Stream!Delimited
<1>4. /\ buffer \in Seq(Char) /\ buffer # <<>> /\ buffer[1] = doc[b]
      /\ buffer[1] \in Quote /\ buffer = Stream!Text(b, count - 1)
  BY <1>1, <1>2, <1>3, Inside, SameClasses DEF Begun, Stream!Quoted
<1>5. Head(buffer) = buffer[1]
  BY <1>4
<1>6. "newline" \notin Quote /\ "return" \notin Quote
  BY DEF Quote
<1>7. ASSUME ~eos
      PROVE  /\ curr \in Char
             /\ Stream!Text(b, count) = IF curr = "return" THEN buffer ELSE w
             /\ Stream!Closed(w) <=> closes
             /\ Breaks(w) <=> breaks
  BY <1>1, <1>2, <1>3, <1>4, <1>7, Inside, NextText, QuotedGrows
<1>8. CASE eos /\ NoGet /\ UNCHANGED buffer /\ Return("INVALID")
  <2>1. Stream!Lexeme(b, count - 1) /\ ~Stream!Over(b, count - 1)
    BY <1>1, <1>2, <1>3, <1>8, DelimitedEnds
  <2>2. ~Stream!Closed(buffer) /\ ~Breaks(buffer)
    BY <1>3, <1>4, <2>1, OverOfForm
  <2>3. "INVALID" = Stream!Token(b, count - 1)
    BY <1>3, <1>4, <2>2, TokenOfForm
  <2>4. buffer = Stream!TokenText(b, count - 1)
    BY <1>4, <2>2 DEF Stream!TokenText, Breaks
  <2>5. QED
    BY <1>1, <1>2, <1>8, <2>1, <2>3, <2>4, CutsBefore
<1>9. CASE ~eos /\ breaks /\ NoGet /\ UNCHANGED buffer /\ Return("INVALID")
  <2>1. Stream!Text(b, count) = w /\ Breaks(w) /\ ~Stream!Closed(w)
    BY <1>4, <1>6, <1>7, <1>9
  <2>2. Stream!Over(b, count)
    BY <1>3, <2>1, OverOfForm
  <2>3. Stream!Lexeme(b, count)
    BY <1>1, <1>2, <1>3, <1>9, <2>2, DelimitedEnds
  <2>4. "INVALID" = Stream!Token(b, count)
    BY <1>3, <2>1, TokenOfForm
  <2>5. buffer' = Stream!TokenText(b, count)
    BY <1>3, <1>4, <1>9, <2>1 DEF Stream!TokenText, Breaks
  <2>6. QED
    BY <1>1, <1>2, <1>9, <2>3, <2>4, <2>5, CutsBehind
<1>10. CASE /\ ~eos /\ curr = "return" /\ GetNextChar
            /\ UNCHANGED <<buffer, prev, mode, last>>
  <2>1. AppendedIfKept
    BY <1>10 DEF AppendedIfKept
  <2>2. Stream!Text(b, count) = Stream!Text(b, count - 1)
    BY <1>4, <1>7, <1>10
  <2>3. ~Stream!Over(b, count)
    <3>1. ~Stream!Over(b, count - 1)
      <4>1. count - 1 \in b .. count - 1
        BY <1>1, <1>2, Inside
      <4>2. QED
        BY <1>3, <4>1 DEF Incomplete
    <3>2. QED
      BY <1>3, <2>2, <3>1, OverOfForm
  <2>4. Incomplete(b)'
    BY <1>1, <1>2, <1>3, <1>10, <2>3, StaysIncomplete
  <2>5. Form(b)'
    BY <1>1, <1>3, <1>10, <2>4, SameShapes DEF Form
  <2>6. QED
    BY <1>1, <1>2, <1>10, <2>1, <2>5, GoesOnWith
<1>11. CASE ~eos /\ closes /\ Appended(curr) /\ NoGet /\ Return("STRING")
  <2>1. Stream!Text(b, count) = w /\ Stream!Closed(w) /\ ~Breaks(w)
    BY <1>4, <1>6, <1>7, <1>11
  <2>2. Stream!Over(b, count)
    BY <1>3, <2>1, OverOfForm
  <2>3. Stream!Lexeme(b, count)
    BY <1>1, <1>2, <1>3, <1>11, <2>2, DelimitedEnds
  <2>4. "STRING" = Stream!Token(b, count)
    BY <1>3, <2>1, TokenOfForm
  <2>5. AppendedIfKept
    BY <1>4, <1>6, <1>11 DEF AppendedIfKept
  <2>6. AtHand /\ Begun(b)
    BY <1>1, <1>2, Inside
  <2>7. buffer' = Stream!Text(b, count)
    BY <1>11, <2>5, <2>6, Keeps
  <2>8. buffer' = Stream!TokenText(b, count)
    BY <2>1, <2>7 DEF Stream!TokenText, Breaks
  <2>9. QED
    BY <1>1, <1>2, <1>11, <2>3, <2>4, <2>8, CutsBehind
<1>12. CASE /\ ~eos /\ curr # "return" /\ ~breaks /\ ~closes
            /\ Appended(curr) /\ prev' = curr /\ GetNextChar /\ UNCHANGED <<mode, last>>
  <2>1. AppendedIfKept
    BY <1>12 DEF AppendedIfKept
  <2>2. Stream!Text(b, count) = w /\ ~Stream!Closed(w) /\ ~Breaks(w)
    BY <1>7, <1>12
  <2>3. ~Stream!Over(b, count)
    BY <1>3, <2>2, OverOfForm
  <2>4. Incomplete(b)'
    BY <1>1, <1>2, <1>3, <1>12, <2>3, StaysIncomplete
  <2>5. (prev = buffer[Len(buffer)])'
    <3>1. AtHand /\ Begun(b) /\ curr \in Char
      BY <1>1, <1>2, <1>12, Inside
    <3>2. buffer' = w
      BY <1>12, <2>1, <3>1, Keeps
    <3>3. Len(w) = Len(buffer) + 1 /\ w[Len(buffer) + 1] = curr
      BY <1>4, <3>1, AppendProperties
    <3>4. QED
      BY <1>12, <3>2, <3>3
  <2>6. Form(b)'
    BY <1>1, <1>3, <1>12, <2>4, <2>5, SameShapes DEF Form
  <2>7. QED
    BY <1>1, <1>2, <1>12, <2>1, <2>6, GoesOnWith
<1>13. QED
  BY <1>5, <1>8, <1>9, <1>10, <1>11, <1>12 DEF Quoted

-----------------------------------------------------------------------------
(* The two loops inside long brackets.                                     *)

(* level says what the text has open, and so the end of the bracket is     *)
(* seen where it is.                                                       *)
LEMMA LevelMeans ==
  ASSUME NEW w \in Seq(Char), NEW p \in Nat, p > 0, NEW n,
         OpenAt(w, p, n) \/ (n = -1 /\ \A m : ~OpenAt(w, p, m)),
         \A i \in 1 .. p - 1 : i <= Len(w) => w[i] # "]"
  PROVE  /\ n \in Int
         /\ Stream!OpensLong(w, p) <=> n >= 0
         /\ Stream!ClosesLong(w, p) <=> n >= 0 /\ LongClose(w, n)
<1>1. CASE OpenAt(w, p, n)
  <2>1. n \in Nat /\ Len(w) >= p
    BY <1>1, LenProperties DEF OpenAt
  <2>2. Stream!OpensLong(w, p)
    BY <1>1, OpensLongMeans
  <2>3. Stream!ClosesLong(w, p) <=> LongClose(w, n)
    BY <1>1, <2>1, ClosesMeans
  <2>4. QED
    BY <2>1, <2>2, <2>3
<1>2. CASE n = -1 /\ \A m : ~OpenAt(w, p, m)
  <2>1. ~Stream!OpensLong(w, p)
    BY <1>2, OpensLongMeans
  <2>2. ~Stream!ClosesLong(w, p)
    BY <2>1 DEF Stream!OpensLong, Stream!ClosesLong
  <2>3. QED
    BY <1>2, <2>1, <2>2
<1>3. QED
  BY <1>1, <1>2

LEMMA LevelStays ==
  ASSUME NEW p \in Nat, p > 0, buffer \in Seq(Char), LevelIs(p), curr \in Char,
         buffer' = IF curr = "return" THEN buffer ELSE Append(buffer, curr),
         InLongBracket(p)
  PROVE  /\ LevelIs(p)'
         /\ level >= 0 => level' = level
         /\ level < 0 /\ level' >= 0 => curr = "["
<1> DEFINE w == buffer
           v == buffer'
           k == Len(v) - p - 1
<1>1. w \in Seq(Char) /\ v \in Seq(Char) /\ k \in Int /\ level \in Int
  <2>1. v \in Seq(Char)
    BY AppendProperties
  <2>2. QED
    BY <2>1, LenProperties DEF LevelIs, OpenAt
<1>2. \A n : OpenAt(w, p, n) => OpenAt(v, p, n)
  BY OpenGrows
<1>3. CASE level >= 0
  <2>1. level' = level /\ OpenAt(w, p, level)
    BY <1>3 DEF InLongBracket, LevelIs
  <2>2. OpenAt(v, p, level')
    BY <1>2, <2>1
  <2>3. QED
    BY <1>1, <1>3, <2>1, <2>2 DEF LevelIs
<1>4. CASE level < 0
  <2>1. level = -1 /\ \A n : ~OpenAt(w, p, n)
    BY <1>4 DEF LevelIs, OpenAt
  <2>2. CASE LongOpen(v, p, k) /\ level' = k
    <3>1. k \in Nat /\ OpenAt(v, p, k)
      BY <1>1, <2>2, OpensWithLast
    <3>2. curr # "return"
      BY <2>1, <3>1
    <3>3. v = Append(w, curr)
      BY <3>2
    <3>4. Len(v) = Len(w) + 1 /\ v[Len(w) + 1] = curr /\ Len(w) \in Nat
      BY <1>1, <3>3, AppendProperties, LenProperties
    <3>5. v[p + k + 1] = "[" /\ p + k + 1 = Len(w) + 1
      BY <3>1, <3>4 DEF OpenAt
    <3>6. curr = "["
      BY <3>4, <3>5
    <3>7. QED
      BY <1>1, <1>4, <2>2, <3>1, <3>6 DEF LevelIs
  <2>3. CASE ~LongOpen(v, p, k) /\ level' = -1
    <3>1. ASSUME NEW n, OpenAt(v, p, n) PROVE FALSE
      <4>1. v = Append(w, curr)
        BY <2>1, <3>1
      <4>2. n \in Nat /\ LongOpen(v, p, n)
        BY <2>1, <3>1, <4>1, OpenGrows
      <4>3. n = k
        BY <1>1, <4>2, OpensWithLast
      <4>4. QED
        BY <2>3, <4>2, <4>3
    <3>2. QED
      BY <1>1, <1>4, <2>3, <3>1 DEF LevelIs
  <2>4. QED
    BY <1>1, <1>4, <2>2, <2>3 DEF InLongBracket
<1>5. QED
  BY <1>1, <1>3, <1>4

LEMMA LongStringCuts ==
  ASSUME IInv, CutInv, Fits, LongString
  PROVE  CutInv' /\ (Same \/ Stream!Next)
<1>1. /\ mode = "long_string" /\ mode \notin {"idle", "space"}
      /\ UNCHANGED <<doc, prev, start>>
  BY DEF LongString
<1>2. PICK b : b = start.at
  OBVIOUS
<1>3. /\ Stream!LongText(b) /\ b + 1 < count /\ Incomplete(b) /\ LevelIs(1)
      /\ level < 0 => /\ \A i \in b + 1 .. count - 1 : doc[i] = "="
                      /\ \A i \in 2 .. Len(buffer) : buffer[i] = "="
      /\ level >= 0 => \E i \in b + 1 .. count - 1 : doc[i] = "["
  BY <1>1, <1>2, Inside DEF Form
<1>4. /\ Stream!Delimited(b) /\ ~Stream!Quoted(b) /\ doc[b] = "["
  BY <1>3, OneForm DEF Stream!Delimited
<1>5. /\ buffer \in Seq(Char) /\ buffer # <<>> /\ buffer[1] = "["
      /\ buffer = Stream!Text(b, count - 1)
      /\ Len(buffer) \in Nat /\ Len(buffer) >= 1
      /\ AtHand /\ Begun(b) /\ b \in Nat /\ count \in Nat
  <2>1. /\ buffer \in Seq(Char) /\ buffer # <<>> /\ buffer[1] = "["
        /\ buffer = Stream!Text(b, count - 1)
        /\ AtHand /\ Begun(b) /\ b \in Nat /\ count \in Nat
    BY <1>1, <1>2, <1>4, Inside DEF Begun
  <2>2. QED
    BY <2>1, EmptySeq, LenProperties
<1>6. 1 \in Nat /\ 1 > 0
  OBVIOUS
<1>7. ASSUME NEW w \in Seq(Char), NEW n,
             OpenAt(w, 1, n) \/ (n = -1 /\ \A m : ~OpenAt(w, 1, m))
      PROVE  /\ n \in Int
             /\ Stream!ClosesLong(w, 1) <=> n >= 0 /\ LongClose(w, n)
  <2>1. \A i \in 1 .. 1 - 1 : i <= Len(w) => w[i] # "]"
    OBVIOUS
  <2>2. QED
    BY <1>6, <1>7, <2>1, LevelMeans
<1>8. CASE eos /\ NoGet /\ UNCHANGED <<buffer, level>> /\ Return("INVALID")
  <2>1. Stream!Lexeme(b, count - 1) /\ ~Stream!Over(b, count - 1)
    BY <1>1, <1>2, <1>3, <1>4, <1>8, DelimitedEnds
  <2>2. ~Stream!ClosesLong(buffer, 1)
    BY <1>3, <1>5, <2>1, OverOfForm
  <2>3. "INVALID" = Stream!Token(b, count - 1)
    BY <1>3, <1>5, <2>2, TokenOfForm
  <2>4. buffer = Stream!TokenText(b, count - 1)
    BY <1>4, <1>5, TextOfToken
  <2>5. QED
    BY <1>1, <1>2, <1>8, <2>1, <2>3, <2>4, CutsBefore
<1>9. CASE ~eos /\ AppendedIfKept /\ InLongBracket(1)
  <2>1. /\ buffer' = IF curr = "return" THEN buffer ELSE Append(buffer, curr)
        /\ buffer' = Stream!Text(b, count) /\ buffer' \in Seq(Char)
        /\ curr \in Char /\ curr = doc[count]
    BY <1>1, <1>2, <1>5, <1>9, Inside, Keeps
  <2>2. /\ LevelIs(1)'
        /\ level >= 0 => level' = level
        /\ level < 0 /\ level' >= 0 => curr = "["
    BY <1>3, <1>5, <1>6, <1>9, <2>1, LevelStays
  <2>3. level' \in Int /\ (Stream!ClosesLong(buffer', 1) <=> AtLongClose)
    <3>1. OpenAt(buffer', 1, level') \/ (level' = -1 /\ \A m : ~OpenAt(buffer', 1, m))
      BY <2>2 DEF LevelIs
    <3>2. QED
      BY <1>7, <2>1, <3>1 DEF AtLongClose
  <2>4. level \in Int
    BY <1>3, <1>5, <1>7 DEF LevelIs
  <2>5. Stream!Over(b, count) <=>
          Stream!ClosesLong(buffer', 1) \/ Stream!NeverOpens(b, count)
    BY <1>3, <2>1, OverOfForm
  <2>6. ASSUME Stream!Over(b, count)
        PROVE  /\ Stream!Lexeme(b, count)
               /\ buffer' = Stream!TokenText(b, count)
    BY <1>1, <1>2, <1>3, <1>4, <1>9, <2>1, <2>6, DelimitedEnds, TextOfToken
  <2>7. CASE level' < 0 /\ curr # "=" /\ NoGet /\ Return("INVALID")
    <3>1. level < 0
      BY <2>2, <2>4, <2>7
    <3>2. curr # "["
      <4>1. SUFFICES ASSUME curr = "[" PROVE FALSE
        OBVIOUS
      <4> DEFINE n == Len(buffer) - 1
      <4>2. buffer' = Append(buffer, "[") /\ "[" \in Char
        BY <2>1, <4>1
      <4>3. /\ Len(buffer') = Len(buffer) + 1 /\ buffer'[Len(buffer) + 1] = "["
            /\ \A i \in 1 .. Len(buffer) : buffer'[i] = buffer[i]
        BY <1>5, <4>2, AppendProperties
      <4>4. \A i \in 2 .. Len(buffer) : buffer'[i] = "="
        BY <1>3, <1>5, <3>1, <4>3
      <4>5. n \in Nat /\ 1 + n + 1 = Len(buffer) + 1 /\ 1 + n = Len(buffer) /\ buffer'[1] = "["
        BY <1>5, <4>3
      <4>6. OpenAt(buffer', 1, n)
        BY <4>3, <4>4, <4>5 DEF OpenAt
      <4>7. level' \notin Nat
        BY <2>3, <2>7
      <4>8. QED
        BY <2>2, <4>6, <4>7 DEF LevelIs, OpenAt
    <3>3. Stream!NeverOpens(b, count)
      BY <1>3, <1>5, <2>1, <2>7, <3>1, <3>2 DEF Stream!NeverOpens
    <3>4. ~Stream!ClosesLong(buffer', 1)
      BY <2>3, <2>7 DEF AtLongClose
    <3>5. "INVALID" = Stream!Token(b, count)
      BY <1>3, <2>1, <3>4, TokenOfForm
    <3>6. QED
      BY <1>1, <1>2, <1>9, <2>5, <2>6, <2>7, <3>3, <3>5, CutsBehind
  <2>8. CASE AtLongClose /\ NoGet /\ Return("LONG_STRING")
    <3>1. "LONG_STRING" = Stream!Token(b, count)
      BY <1>3, <2>1, <2>3, <2>8, TokenOfForm
    <3>2. QED
      BY <1>1, <1>2, <1>9, <2>3, <2>5, <2>6, <2>8, <3>1, CutsBehind
  <2>9. CASE /\ level' >= 0 \/ curr = "="
             /\ ~AtLongClose /\ GetNextChar /\ UNCHANGED <<mode, last>>
    <3>1. level' >= 0 => \E i \in b + 1 .. count : doc[i] = "["
      <4>1. CASE level >= 0
        <5>1. PICK i \in b + 1 .. count - 1 : doc[i] = "["
          BY <1>3, <4>1
        <5>2. i \in b + 1 .. count
          BY <1>5
        <5>3. QED
          BY <5>1, <5>2
      <4>2. CASE level < 0 /\ level' >= 0
        <5>1. doc[count] = "[" /\ count \in b + 1 .. count
          BY <1>3, <1>5, <2>1, <2>2, <4>2
        <5>2. QED
          BY <5>1
      <4>3. QED
        BY <2>4, <4>1, <4>2
    <3>2. ~Stream!NeverOpens(b, count)
      <4>1. SUFFICES ASSUME Stream!NeverOpens(b, count) PROVE FALSE
        OBVIOUS
      <4>2. curr \notin {"=", "["} /\ \A i \in b + 1 .. count - 1 : doc[i] = "="
        BY <2>1, <4>1 DEF Stream!NeverOpens
      <4>3. \A i \in b + 1 .. count : i = count \/ i \in b + 1 .. count - 1
        BY <1>5
      <4>4. QED
        BY <2>1, <2>9, <3>1, <4>2, <4>3
    <3>3. Incomplete(b)' /\ count' = count + 1
      BY <1>1, <1>2, <1>3, <1>9, <2>3, <2>5, <2>9, <3>2, StaysIncomplete
    <3>4. (level < 0 => /\ \A i \in b + 1 .. count - 1 : doc[i] = "="
                        /\ \A i \in 2 .. Len(buffer) : buffer[i] = "=")'
      <4>1. SUFFICES ASSUME level' < 0
                     PROVE  /\ \A i \in b + 1 .. count : doc[i] = "="
                            /\ \A i \in 2 .. Len(buffer') : buffer'[i] = "="
        BY <1>1, <1>5, <3>3
      <4>2. level < 0 /\ curr = "=" /\ doc[count] = "="
        BY <2>1, <2>2, <2>3, <2>4, <2>9, <4>1
      <4>3. buffer' = Append(buffer, curr)
        BY <2>1, <4>2
      <4>4. /\ Len(buffer') = Len(buffer) + 1 /\ buffer'[Len(buffer) + 1] = "="
            /\ \A i \in 1 .. Len(buffer) : buffer'[i] = buffer[i]
        BY <1>5, <2>1, <4>2, <4>3, AppendProperties
      <4>5. \A i \in 2 .. Len(buffer') : i = Len(buffer) + 1 \/ i \in 2 .. Len(buffer)
        BY <1>5, <4>4
      <4>6. \A i \in 2 .. Len(buffer) : i \in 1 .. Len(buffer)
        BY <1>5
      <4>7. \A i \in 2 .. Len(buffer') : buffer'[i] = "="
        BY <1>3, <4>2, <4>4, <4>5, <4>6
      <4>8. \A i \in b + 1 .. count : i = count \/ i \in b + 1 .. count - 1
        BY <1>5
      <4>9. QED
        BY <1>3, <4>2, <4>7, <4>8
    <3>5. (level >= 0 => \E i \in b + 1 .. count - 1 : doc[i] = "[")'
      <4>1. count' - 1 = count
        BY <1>5, <3>3
      <4>2. QED
        BY <1>1, <3>1, <4>1
    <3>6. (b + 1 < count)'
      BY <1>3, <1>5, <3>3
    <3>7. Form(b)'
      BY <1>1, <1>3, <2>2, <2>9, <3>3, <3>4, <3>5, <3>6, SameShapes DEF Form
    <3>8. QED
      BY <1>1, <1>2, <1>9, <2>9, <3>7, GoesOnWith
  <2>10. QED
    BY <1>1, <1>9, <2>7, <2>8, <2>9, EndAssumption DEF LongString
<1>10. QED
  BY <1>8, <1>9 DEF LongString

LEMMA CommentCuts ==
  ASSUME IInv, CutInv, Fits, Comment
  PROVE  CutInv' /\ (Same \/ Stream!Next)
<1>1. /\ mode = "comment" /\ mode \notin {"idle", "space"}
      /\ UNCHANGED <<doc, prev, start>>
  BY DEF Comment
<1>2. PICK b : b = start.at
  OBVIOUS
<1>3. /\ Stream!Comment(b) /\ b + 1 < count /\ Incomplete(b) /\ LevelIs(3)
      /\ Len(buffer) >= 2 /\ buffer[2] = "-"
  BY <1>1, <1>2, Inside DEF Form
<1>4. Stream!Delimited(b) /\ ~Stream!Quoted(b) /\ doc[b] = "-"
  BY <1>3, OneForm DEF Stream!Delimited
<1>5. /\ buffer \in Seq(Char) /\ Len(buffer) \in Nat /\ buffer[1] = "-"
      /\ buffer = Stream!Text(b, count - 1)
      /\ AtHand /\ Begun(b) /\ b \in Nat /\ count \in Nat
  BY <1>1, <1>2, <1>4, Inside, LenProperties DEF Begun
<1>6. 3 \in Nat /\ 3 > 0
  OBVIOUS
<1>7. ASSUME NEW w \in Seq(Char), w[1] = "-", w[2] = "-", NEW n,
             OpenAt(w, 3, n) \/ (n = -1 /\ \A m : ~OpenAt(w, 3, m))
      PROVE  /\ n \in Int
             /\ Stream!OpensLong(w, 3) <=> n >= 0
             /\ Stream!ClosesLong(w, 3) <=> n >= 0 /\ LongClose(w, n)
  <2>1. \A i \in 1 .. 3 - 1 : i = 1 \/ i = 2
    OBVIOUS
  <2>2. \A i \in 1 .. 3 - 1 : i <= Len(w) => w[i] # "]"
    BY <1>7, <2>1
  <2>3. QED
    BY <1>6, <1>7, <2>2, LevelMeans
<1>8. /\ level \in Int
      /\ Stream!OpensLong(buffer, 3) <=> level >= 0
      /\ Stream!ClosesLong(buffer, 3) <=> level >= 0 /\ LongClose(buffer, level)
  <2>1. OpenAt(buffer, 3, level) \/ (level = -1 /\ \A m : ~OpenAt(buffer, 3, m))
    BY <1>3 DEF LevelIs
  <2>2. QED
    BY <1>3, <1>5, <1>7, <2>1
<1>9. CASE /\ eos /\ NoGet /\ UNCHANGED <<buffer, level>>
           /\ Return(IF level >= 0 THEN "INVALID" ELSE "COMMENT")
  <2>1. Stream!Lexeme(b, count - 1) /\ ~Stream!Over(b, count - 1)
    BY <1>1, <1>2, <1>3, <1>4, <1>9, DelimitedEnds
  <2>2. ~Stream!ClosesLong(buffer, 3)
    BY <1>3, <1>5, <2>1, OverOfForm
  <2>3. (IF level >= 0 THEN "INVALID" ELSE "COMMENT") = Stream!Token(b, count - 1)
    BY <1>3, <1>5, <1>8, <2>2, TokenOfForm
  <2>4. buffer = Stream!TokenText(b, count - 1)
    BY <1>4, <1>5, TextOfToken
  <2>5. QED
    BY <1>1, <1>2, <1>9, <2>1, <2>3, <2>4, CutsBefore
<1>10. CASE ~eos /\ AppendedIfKept /\ InLongBracket(3)
  <2>1. /\ buffer' = IF curr = "return" THEN buffer ELSE Append(buffer, curr)
        /\ buffer' = Stream!Text(b, count) /\ buffer' \in Seq(Char)
        /\ curr \in Char /\ curr = doc[count]
    BY <1>1, <1>2, <1>5, <1>10, Inside, Keeps
  <2>2. LevelIs(3)'
    BY <1>3, <1>5, <1>6, <1>10, <2>1, LevelStays
  <2>3. Len(buffer') >= 2 /\ buffer'[1] = "-" /\ buffer'[2] = "-"
    <3>1. CASE curr = "return"
      BY <1>3, <1>5, <2>1, <3>1
    <3>2. CASE curr # "return"
      <4>1. buffer' = Append(buffer, curr)
        BY <2>1, <3>2
      <4>2. /\ Len(buffer') = Len(buffer) + 1
            /\ \A i \in 1 .. Len(buffer) : buffer'[i] = buffer[i]
        BY <1>5, <2>1, <4>1, AppendProperties
      <4>3. 1 \in 1 .. Len(buffer) /\ 2 \in 1 .. Len(buffer)
        BY <1>3, <1>5
      <4>4. QED
        BY <1>3, <1>5, <4>2, <4>3
    <3>3. QED
      BY <3>1, <3>2
  <2>4. /\ level' \in Int
        /\ Stream!OpensLong(buffer', 3) <=> level' >= 0
        /\ Stream!ClosesLong(buffer', 3) <=> AtLongClose
    <3>1. OpenAt(buffer', 3, level') \/ (level' = -1 /\ \A m : ~OpenAt(buffer', 3, m))
      BY <2>2 DEF LevelIs
    <3>2. QED
      BY <1>7, <2>1, <2>3, <3>1 DEF AtLongClose
  <2>5. Stream!Over(b, count) <=>
          AtLongClose \/ (level' < 0 /\ curr = "newline")
    <3>1. Stream!Over(b, count) <=>
            \/ Stream!ClosesLong(buffer', 3)
            \/ ~Stream!OpensLong(buffer', 3) /\ doc[count] = "newline"
      BY <1>3, <2>1, OverOfForm
    <3>2. ~(level' >= 0) <=> level' < 0
      BY <2>4
    <3>3. QED
      BY <2>1, <2>4, <3>1, <3>2
  <2>6. ASSUME Stream!Over(b, count)
        PROVE  /\ Stream!Lexeme(b, count)
               /\ buffer' = Stream!TokenText(b, count)
    BY <1>1, <1>2, <1>3, <1>4, <1>10, <2>1, <2>6, DelimitedEnds, TextOfToken
  <2>7. CASE level' < 0 /\ curr = "newline" /\ NoGet /\ Return("COMMENT")
    <3>1. "COMMENT" = Stream!Token(b, count)
      <4>1. ~Stream!OpensLong(buffer', 3)
        BY <2>4, <2>7
      <4>2. QED
        BY <1>3, <2>1, <4>1, TokenOfForm
    <3>2. QED
      BY <1>1, <1>2, <1>10, <2>5, <2>6, <2>7, <3>1, CutsBehind
  <2>8. CASE AtLongClose /\ NoGet /\ Return("LONG_COMMENT")
    <3>1. Stream!OpensLong(buffer', 3) /\ Stream!ClosesLong(buffer', 3)
      BY <2>4, <2>8 DEF AtLongClose
    <3>2. "LONG_COMMENT" = Stream!Token(b, count)
      BY <1>3, <2>1, <3>1, TokenOfForm
    <3>3. QED
      BY <1>1, <1>2, <1>10, <2>5, <2>6, <2>8, <3>2, CutsBehind
  <2>9. CASE /\ level' >= 0 \/ curr # "newline"
             /\ ~AtLongClose /\ GetNextChar /\ UNCHANGED <<mode, last>>
    <3>1. ~Stream!Over(b, count)
      BY <2>4, <2>5, <2>9
    <3>2. Incomplete(b)' /\ count' = count + 1
      BY <1>1, <1>2, <1>3, <1>10, <2>9, <3>1, StaysIncomplete
    <3>3. (b + 1 < count)'
      BY <1>3, <1>5, <3>2
    <3>4. Form(b)'
      BY <1>1, <1>3, <2>2, <2>3, <2>9, <3>2, <3>3, SameShapes DEF Form
    <3>5. QED
      BY <1>1, <1>2, <1>10, <2>9, <3>4, GoesOnWith
  <2>10. QED
    BY <1>1, <1>10, <2>7, <2>8, <2>9 DEF Comment
<1>11. QED
  BY <1>9, <1>10 DEF Comment

-----------------------------------------------------------------------------
(* The theorem.                                                            *)

LEMMA InitCuts == Init => CutInv
<1>1. SUFFICES ASSUME Init PROVE CutInv
  OBVIOUS
<1>2. last.to = 0 /\ mode = "idle" /\ ReadSoFar = 0
  BY <1>1 DEF Init, ReadSoFar
<1>3. QED
  BY <1>2 DEF CutInv

(* A document that does not fit is not held to anything. *)
LEMMA TooLong ==
  ASSUME ~Fits, UNCHANGED doc
  PROVE  CutInv' /\ UNCHANGED Stream!vars
<1>1. ~Fits'
  BY DEF Fits
<1>2. QED
  BY <1>1 DEF CutInv, Stream!vars

LEMMA StepCuts ==
  ASSUME IInv, CutInv, [Next]_vars
  PROVE  CutInv' /\ [Stream!Next]_(Stream!vars)
<1>1. UNCHANGED doc
  BY DEF Next, vars, NextToken, SkipSpace, Begin, Bracket, Dash, Number, Name,
         Quoted, LongString, Comment
<1>2. CASE ~Fits
  BY <1>1, <1>2, TooLong
<1>3. CASE Fits
  <2>1. CASE Next
    <3>1. CutInv' /\ (Same \/ Stream!Next)
      BY <1>3, <2>1, NextTokenCuts, SkipSpaceCuts, BeginCuts, BracketCuts, DashCuts,
         NumberCuts, NameCuts, QuotedCuts, LongStringCuts, CommentCuts DEF Next
    <3>2. Same => UNCHANGED Stream!vars
      BY DEF Same, Stream!vars, Fits
    <3>3. QED
      BY <3>1, <3>2
  <2>2. CASE UNCHANGED vars
    <3>1. /\ Fits' <=> Fits
          /\ UNCHANGED Stream!vars
      BY <2>2 DEF vars, Fits, Stream!vars
    <3>2. /\ ReadSoFar' = ReadSoFar
          /\ AtHand' <=> AtHand
          /\ \A b : SpaceUpTo(b)' <=> SpaceUpTo(b)
      BY <2>2 DEF vars, ReadSoFar, AtHand, SpaceUpTo
    <3>3. \A b : /\ Begun(b)' <=> Begun(b)
                 /\ Form(b)' <=> Form(b)
      <4>1. SUFFICES ASSUME NEW b
                     PROVE  /\ Begun(b)' <=> Begun(b)
                            /\ Form(b)' <=> Form(b)
        OBVIOUS
      <4>2. /\ UNCHANGED doc /\ \A i : Stream!Text(b, i)' = Stream!Text(b, i)
            /\ Incomplete(b)' <=> Incomplete(b)
        BY <2>2, SameShapes DEF vars, Incomplete
      <4>3. Begun(b)' <=> Begun(b)
        BY <2>2, <3>2, <4>2 DEF vars, Begun
      <4>4. \A p : LevelIs(p)' <=> LevelIs(p)
        BY <2>2 DEF vars, LevelIs
      <4>5. Form(b)' <=> Form(b)
        BY <2>2, <4>2, <4>4, SameShapes DEF vars, Form
      <4>6. QED
        BY <4>3, <4>5
    <3>4. CutInv'
      BY <2>2, <3>1, <3>2, <3>3 DEF vars, CutInv
    <3>5. QED
      BY <3>1, <3>4
  <2>3. QED
    BY <2>1, <2>2
<1>4. QED
  BY <1>2, <1>3

(* src/src/elexer.c: the tokens ELTN_Lexer_next_token returns are those    *)
(* the document has by its shape, each beginning at the first character    *)
(* behind the last one that is not space and ending where its own form     *)
(* says: whatever was read ahead or pushed back, no character is lost or   *)
(* read twice.  Of any document shorter than the token buffer.             *)
THEOREM RefinesTokenStream == Spec => ImplementsTokenStream
<1>1. Init => Stream!Init
  BY DEF Init, Stream!Init, Stream!NoToken, Fits
<1>2. IInv /\ CutInv /\ [Next]_vars => IInv' /\ CutInv' /\ [Stream!Next]_(Stream!vars)
  BY StepOK, StepCuts
<1>3. QED
  BY <1>1, <1>2, InitOK, InitCuts, PTL DEF Spec, ImplementsTokenStream, Stream!Spec

=============================================================================
