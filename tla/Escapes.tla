------------------------------ MODULE Escapes ------------------------------
(***************************************************************************)
(* Quoted strings as src/doc/eltn.md has them, the reference for what      *)
(* unescaping must make of one.  A string is quotes about parts, and a     *)
(* part p is some of its bytes, p.src, with the bytes they stand for,      *)
(* p.val.  Which byte stands behind it, next, matters where an escape may  *)
(* be longer or shorter.                                                   *)
(***************************************************************************)
EXTENDS Unicode

Backslash == 92   LineFeed == 10   Return == 13   OpenBrace == 123   CloseBrace == 125
LetterU == 117    LetterX == 120   LetterZ == 122

Whitespace == {9, 10, 11, 12, 13, 32}
OctalDigit == 48 .. 55
HexDigit   == 48 .. 57 \cup 65 .. 70 \cup 97 .. 102

Stands(c) == CASE c \in 48 .. 57 -> c - 48 [] c \in 65 .. 70 -> c - 55 [] c \in 97 .. 102 -> c - 87

(* The number the digits denote. *)
Denoted(digits, base) ==
  LET upTo[i \in 0 .. Len(digits)] ==
        IF i = 0 THEN 0 ELSE upTo[i - 1] * base + Stands(digits[i])
  IN upTo[Len(digits)]

(* The digits of p.src from its place k on, but for the last few bytes.    *)
DigitsOf(p, k, few) == SubSeq(p.src, k, Len(p.src) - few)
AreDigits(digits, set) == digits # <<>> /\ \A i \in 1 .. Len(digits) : digits[i] \in set

IsPlain(p, quote) ==
  p.val = p.src /\ \E c \in Byte \ {Backslash, LineFeed, quote} : p.src = <<c>>

IsLetter(p) ==
  \E e \in {<<97, 7>>, <<98, 8>>, <<102, 12>>, <<110, 10>>, <<114, 13>>, <<116, 9>>, <<118, 11>>} :
    p.src = <<Backslash, e[1]>> /\ p.val = <<e[2]>>

IsItself(p) ==
  \E c \in {Backslash, 34, 39} : p.src = <<Backslash, c>> /\ p.val = <<c>>

(* An escaped newline is a newline (eltn.md, lines 286-299, and            *)
(* test/string.c, line 53); the table of escapes alone, in line 276, gives *)
(* it as 0x0d, which contradicts them and the code, and is not followed.   *)
IsNewline(p) ==
  /\ p.src \in {<<Backslash, LineFeed>>, <<Backslash, Return, LineFeed>>}
  /\ p.val = <<LineFeed>>

IsEscape(p, letter) == Len(p.src) >= 2 /\ p.src[1] = Backslash /\ p.src[2] = letter

IsSkip(p, next) ==
  /\ IsEscape(p, LetterZ)
  /\ \A i \in 3 .. Len(p.src) : p.src[i] \in Whitespace
  /\ next \notin Whitespace
  /\ p.val = <<>>

IsHexByte(p) ==
  /\ IsEscape(p, LetterX) /\ Len(p.src) = 4
  /\ AreDigits(DigitsOf(p, 3, 0), HexDigit)
  /\ p.val = <<Denoted(DigitsOf(p, 3, 0), 16)>>

IsOctalByte(p, next) ==
  /\ Len(p.src) \in 2 .. 4 /\ p.src[1] = Backslash
  /\ Len(p.src) < 4 => next \notin OctalDigit
  /\ AreDigits(DigitsOf(p, 2, 0), OctalDigit)
  /\ p.val = <<Denoted(DigitsOf(p, 2, 0), 8)>>

IsCodePointOf(p) ==
  /\ IsEscape(p, LetterU) /\ Len(p.src) > 4
  /\ p.src[3] = OpenBrace /\ p.src[Len(p.src)] = CloseBrace
  /\ AreDigits(DigitsOf(p, 4, 1), HexDigit)
  /\ LET point == Denoted(DigitsOf(p, 4, 1), 16)
     IN IsCodePoint(point) /\ IsUtf8(p.val, point)

IsPart(p, quote, next) ==
  \/ IsPlain(p, quote) \/ IsLetter(p) \/ IsItself(p) \/ IsNewline(p)
  \/ IsSkip(p, next) \/ IsHexByte(p) \/ IsOctalByte(p, next) \/ IsCodePointOf(p)

Sources(parts) == [i \in 1 .. Len(parts) |-> parts[i].src]
Values(parts)  == [i \in 1 .. Len(parts) |-> parts[i].val]

(* The string consists of these parts. *)
Reads(string, parts) ==
  /\ parts \in Seq([src : Seq(Byte), val : Seq(Byte)])
  /\ string = <<string[1]>> \o FlattenSeq(Sources(parts)) \o <<string[1]>>
  /\ \A i \in 1 .. Len(parts) :
       IsPart(parts[i], string[1], string[2 + Len(FlattenSeq(SubSeq(Sources(parts), 1, i)))])

=============================================================================
