------------------------------ MODULE Unicode ------------------------------
(***************************************************************************)
(* The encodings of text src/src/convert.c is about, as the standard has   *)
(* them, to say what a conversion must keep.  A text is a sequence of code *)
(* points, a code point a number.                                          *)
(***************************************************************************)
EXTENDS Integers, Sequences, SequencesExt

Byte == 0 .. 255

(* The words that stand for code points only in pairs, high and low.       *)
High == 55296 .. 56319
Low  == 56320 .. 57343

LastCodePoint == 1114111
IsCodePoint(p) == p \in Nat /\ p <= LastCodePoint /\ p \notin High \cup Low
IsText(points) == points \in Seq(Nat) /\ \A i \in 1 .. Len(points) : IsCodePoint(points[i])

(* The code point p needs n bytes in UTF-8. *)
Needs(p, n) ==
  \/ n = 1 /\ p < 128
  \/ n = 2 /\ p >= 128 /\ p < 2048
  \/ n = 3 /\ p >= 2048 /\ p < 65536
  \/ n = 4 /\ p >= 65536

(* The number in b: the first byte has the highest bits besides the        *)
(* length, and each of the others six bits more.                           *)
Bits(b) ==
  LET more(number, i) == 64 * number + (b[i] - 128)
  IN CASE Len(b) = 1 -> b[1]
       [] Len(b) = 2 -> more(b[1] - 192, 2)
       [] Len(b) = 3 -> more(more(b[1] - 224, 2), 3)
       [] Len(b) = 4 -> more(more(more(b[1] - 240, 2), 3), 4)

(* b is the UTF-8 of p. *)
IsUtf8(b, p) ==
  /\ b \in Seq(Byte)
  /\ \A i \in 2 .. Len(b) : b[i] \in 128 .. 191
  /\ Needs(p, Len(b)) /\ p = Bits(b)

(* The words of a code point in UTF-16, whose words have two bytes, and in *)
(* UTF-32, whose have four.                                                *)
WordsOf(p, size) ==
  IF size = 4 \/ p <= 65535 THEN <<p>>
  ELSE <<55296 + (p - 65536) \div 1024, 56320 + ((p - 65536) % 1024)>>

Units(points, size) == [i \in 1 .. Len(points) |-> WordsOf(points[i], size)]

(* The word of that number, the byte of the least weight first.            *)
LittleEndian(bytes, size, k) ==
  LET b(i) == bytes[size * (k - 1) + i]
  IN b(1) + 256 * b(2) + (IF size = 2 THEN 0 ELSE 65536 * b(3) + 16777216 * b(4))

(* The bytes are those of the text, in words of that size. *)
Encodes(bytes, size, points) ==
  LET words == FlattenSeq(Units(points, size))
  IN /\ Len(bytes) = size * Len(words)
     /\ \A k \in 1 .. Len(words) : words[k] = LittleEndian(bytes, size, k)

(* The sequence utf8 has the bytes of each code point of the text.         *)
Spells(utf8, points) ==
  /\ Len(utf8) = Len(points)
  /\ \A i \in 1 .. Len(points) : IsUtf8(utf8[i], points[i])

=============================================================================
