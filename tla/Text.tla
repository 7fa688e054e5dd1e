-------------------------------- MODULE Text --------------------------------
(***************************************************************************)
(* Turning text into text: ELTN_unescape_quoted_string                     *)
(* (src/src/estring.c), by which the parser gets the value of a quoted     *)
(* string from its token, and the conversions of text of other encodings   *)
(* to UTF-8 (src/src/convert.c), of which unescaping uses one.  A step is  *)
(* one round of the loop of either.                                        *)
(*                                                                         *)
(* A text is a sequence of bytes, a code point a number.  The host is      *)
(* little-endian.                                                          *)
(***************************************************************************)
EXTENDS Escapes, FiniteSetsExt

CONSTANTS
  Quoted,      (* the strings to unescape: records of the token src and of  *)
               (* means, the set of the sequences of documented parts it is *)
  Conversion,  (* what to convert: records of an order, bytes and outsz,    *)
               (* and of means, the set of the texts the bytes are: of each *)
               (* its code points, as points, and those in UTF-8, as utf8   *)
  Garbage      (* the words there may be behind the end of a text           *)

VARIABLES
  call,        (* "unescape" or "convert"                                   *)
  arg,         (* what it was called with                                   *)
  at,          (* the place it is at, index or i, counted from 1            *)
  out,         (* the bytes written                                         *)
  done         (* how it returned: "", "ok", "none" for a NULL, or that it  *)
               (* "spilled" over the end of its temporary block             *)

vars == <<call, arg, at, out, done>>

Space     == {9, 10, 11, 12, 13, 32}
QuoteMark == {34, 39}
Zero == 48   Plus == 43   Minus == 45
Octal     == 48 .. 55
Hex       == 48 .. 57 \cup 65 .. 70 \cup 97 .. 102
Orders    == {"UCS_4", "UCS_4_SWAP_4321", "UCS_4_SWAP_3412", "UCS_4_SWAP_2143",
              "UCS_2", "UCS_2_SWAP", "BYTE", "UNKNOWN"}
DigitOf(c) == IF c <= 57 THEN c - 48 ELSE IF c <= 70 THEN c - 55 ELSE c - 87

(* A string the lexer takes for a whole token: it ends at the first of its *)
(* quotes with no backslash before it.                                     *)
IsToken(s) ==
  /\ s \in Seq(Byte) /\ Len(s) > 1
  /\ s[1] \in QuoteMark /\ s[Len(s)] = s[1] /\ s[Len(s) - 1] # Backslash
  /\ \A i \in 2 .. Len(s) - 1 : s[i] = s[1] => s[i - 1] = Backslash

(* The parser gives ELTN_unescape_quoted_string nothing but such tokens.   *)
ASSUME QuotedAssumption ==
  \A q \in Quoted : IsToken(q.src) /\ \A parts \in q.means : Reads(q.src, parts)

(* A caller of C_Conv_to_char8 gives it an array and the room it has for   *)
(* the result; the texts are in the byte order of the host.                *)
ASSUME ConversionAssumption ==
  \A c \in Conversion :
    /\ c.order \in Orders /\ c.bytes \in Seq(Byte) /\ c.outsz \in Nat
    /\ \A text \in c.means :
         /\ IsText(text.points) /\ text.utf8 \in Seq(Seq(Byte))
         /\ \/ c.order = "UCS_4" /\ Encodes(c.bytes, 4, text.points)
            \/ c.order = "UCS_2" /\ Encodes(c.bytes, 2, text.points)
         /\ Spells(text.utf8, text.points)

(* The escapes of one letter: a, b, f, n, r, t and v. *)
OneLetter == [c \in {97, 98, 102, 110, 114, 116, 118} |->
  CASE c = 97 -> 7 [] c = 98 -> 8 [] c = 102 -> 12 [] c = 110 -> 10
    [] c = 114 -> 13 [] c = 116 -> 9 [] c = 118 -> 11]

(* Numbers above every code point write_utf8 knows are all alike. *)
Huge == 8388608
Number(digits, base) ==
  FoldLeft(LAMBDA n, c : Min({Huge, n * base + DigitOf(c)}), 0, digits)

-----------------------------------------------------------------------------
(* write_utf8.                                                             *)

(* The six bits of cp from the one that counts for place. *)
Trailing(cp, place) == 128 + ((cp \div place) % 64)

(* Mutant: what has been written already is forgotten. *)
WriteUtf8Anew(cp, outsz, j) ==
  CASE cp <= 127                     -> <<cp>>
    [] cp \in 128 .. 2047 /\ 2 < outsz -> <<192 + cp \div 64, Trailing(cp, 1)>>
    [] cp \in 2048 .. 65535 /\ 3 < outsz ->
         <<224 + cp \div 4096, Trailing(cp, 64), Trailing(cp, 1)>>
    [] OTHER -> <<>>

(* The bytes of cp, or none if it is too great, or if what is written      *)
(* already, j, and its bytes do not leave one byte of outsz to spare; a    *)
(* single byte is written unasked.                                         *)
WriteUtf8(cp, outsz, j) ==
  LET Fits(n, first, last) == first <= cp /\ cp <= last /\ j + n < outsz
  IN CASE cp <= 127              -> <<cp>>
       [] Fits(2, 128, 2047)     -> <<192 + cp \div 64, Trailing(cp, 1)>>
       [] Fits(3, 2048, 65535)   ->
            <<224 + cp \div 4096, Trailing(cp, 64), Trailing(cp, 1)>>
       [] Fits(4, 65536, 2097151) ->
            <<240 + cp \div 262144, Trailing(cp, 4096), Trailing(cp, 64), Trailing(cp, 1)>>
       [] Fits(5, 2097152, 4194303) ->
            <<248, Trailing(cp, 262144), Trailing(cp, 4096), Trailing(cp, 64), Trailing(cp, 1)>>
       [] Fits(6, 4194304, Huge - 1) ->
            <<252, Trailing(cp, 262144), Trailing(cp, 4096), Trailing(cp, 64), Trailing(cp, 64),
              Trailing(cp, 1)>>
       [] OTHER -> <<>>

-----------------------------------------------------------------------------
(* ELTN_unescape_quoted_string.  The token behind arg ends in a NUL.       *)

Char(k) == IF k \in DOMAIN arg.src THEN arg.src[k] ELSE 0

Goes(k, bytes) ==
  /\ at' = k
  /\ out' = out \o bytes
  /\ UNCHANGED <<call, arg, done>>

Finished(how) == done' = how /\ UNCHANGED <<call, arg, at, out>>

Unescaping  == call = "unescape" /\ done = ""
AtQuote     == at > Len(arg.src) \/ (at > 1 /\ arg.src[at] = arg.src[1])
Escape(set) == Unescaping /\ ~AtQuote /\ arg.src[at] = Backslash /\ Char(at + 1) \in set

(* The first character behind k that is not in set, k + most at the latest.*)
Behind(k, set, most) ==
  Min({i \in k .. k + most : i = k + most \/ Char(i) \notin set})

(* There is no memory for the value. *)
NoMemory ==
  /\ Unescaping /\ at = 1
  /\ Finished("none")

OpenQuote ==
  /\ Unescaping /\ at = 1 /\ Char(1) \in QuoteMark
  /\ Goes(2, <<>>)

Plain ==
  /\ Unescaping /\ at > 1 /\ ~AtQuote /\ arg.src[at] # Backslash
  /\ Goes(at + 1, <<arg.src[at]>>)

EscapedNewline ==
  /\ Escape({LineFeed, Return})
  /\ Goes(IF Char(at + 1) = Return /\ Char(at + 2) = LineFeed THEN at + 3 ELSE at + 2,
          <<LineFeed>>)

EscapedLetter ==
  /\ Escape(DOMAIN OneLetter)
  /\ Goes(at + 2, <<OneLetter[arg.src[at + 1]]>>)

(* append_hex: without two digits, the escape is dropped. *)
EscapedHex ==
  /\ Escape({LetterX})
  /\ IF Char(at + 2) \in Hex /\ Char(at + 3) \in Hex
     THEN Goes(at + 4, <<Number(<<Char(at + 2), Char(at + 3)>>, 16)>>)
     ELSE Goes(at + 2, <<>>)

(* The cast of what strtol reads to a char32_t.  Number(digits, 16) is     *)
(* exact below Huge; above, it is the last eight digits that count, in     *)
(* halves of four, and their complement after a minus, unless there are    *)
(* more than a long holds and strtol returns the greatest or the least.    *)
CodePoint(digits, minus) ==
  LET number  == Number(digits, 16)
      padded  == <<Zero, Zero, Zero, Zero, Zero, Zero, Zero, Zero>> \o digits
      low     == Number(SubSeq(padded, Len(digits) + 5, Len(digits) + 8), 16)
      high    == Number(SubSeq(padded, Len(digits) + 1, Len(digits) + 4), 16)
      upper   == IF minus THEN (65535 - high + (IF low = 0 THEN 1 ELSE 0)) % 65536 ELSE high
      lower   == IF minus THEN (65536 - low) % 65536 ELSE low
      tooLong == \E i \in 1 .. Len(digits) - 15 :
                   IF i = Len(digits) - 15 THEN DigitOf(digits[i]) > 7 ELSE digits[i] # Zero
  IN IF digits = <<>> THEN 0
     ELSE IF ~minus /\ number < Huge THEN number
     ELSE IF tooLong THEN (IF minus THEN 0 ELSE Huge)
     ELSE IF upper > 127 THEN Huge ELSE upper * 65536 + lower

(* strtol, base 16, of what begins at k: it skips space, takes a sign and  *)
(* a 0x, and stops at the first character that is no digit.                *)
Strtol(k) ==
  LET start == Behind(k, Space, Len(arg.src))
      first == IF Char(start) \in {Plus, Minus} THEN start + 1 ELSE start
      from  == IF Char(first) = Zero /\ Char(first + 1) \in {LetterX, 88} THEN first + 2 ELSE first
  IN CodePoint(SubSeq(arg.src, from, Behind(from, Hex, Len(arg.src)) - 1), Char(start) = Minus)

(* Mutant: what has been written counts against the room as well. *)
EscapedUnicodeTwice ==
  /\ Escape({LetterU})
  /\ LET closes == {k \in at + 2 .. Len(arg.src) :
                      arg.src[k] = CloseBrace /\ \A i \in at + 2 .. k : arg.src[i] # 0}
     IN IF Char(at + 2) = OpenBrace /\ closes # {}
        THEN Goes(Min(closes) + 1, WriteUtf8(Strtol(at + 3), Len(out), Len(out)))
        ELSE Goes(at + 2, <<>>)

(* append_unicode: what there is between the number and the next closing   *)
(* brace is dropped with it.  The room it gives write_utf8 is what has     *)
(* been written, not what is left.                                         *)
EscapedUnicode ==
  /\ Escape({LetterU})
  /\ LET closes == {k \in at + 2 .. Len(arg.src) :
                      arg.src[k] = CloseBrace /\ \A i \in at + 2 .. k : arg.src[i] # 0}
     IN IF Char(at + 2) = OpenBrace /\ closes # {}
        THEN Goes(Min(closes) + 1, WriteUtf8(Strtol(at + 3), Len(out), 0))
        ELSE Goes(at + 2, <<>>)

EscapedSpace ==
  /\ Escape({LetterZ})
  /\ Goes(Behind(at + 2, Space, Len(arg.src)), <<>>)

(* Mutant: three digits are taken, whatever they are. *)
EscapedOctalOfThree ==
  /\ Escape(Octal)
  /\ Goes(at + 4, <<Number(SubSeq(arg.src, at + 1, at + 1), 8) % 256>>)

(* append_octal: up to three digits. *)
EscapedOctal ==
  /\ Escape(Octal)
  /\ LET end == Behind(at + 1, Octal, 3)
     IN Goes(end, <<Number(SubSeq(arg.src, at + 1, end - 1), 8) % 256>>)

EscapedOther ==
  /\ Escape(Byte \ ({LineFeed, Return, LetterX, LetterU, LetterZ}
                          \cup DOMAIN OneLetter \cup Octal))
  /\ Goes(at + 2, <<Char(at + 1)>>)

CloseQuote ==
  /\ Unescaping /\ AtQuote
  /\ Finished("ok")

-----------------------------------------------------------------------------
(* C_Conv_to_char8.                                                        *)

Swapped(s, i, j) == [s EXCEPT ![i] = s[j], ![j] = s[i]]

(* flip_bytes_4 and flip_bytes_2 on tmpbuf, which has one byte more than   *)
(* the text: both count the bytes of a word from 1, so that the last of    *)
(* one word is the first of the next.  buf + i is the cell i + 1 here.     *)
Rounds(length, size) == (length + size - 1) \div size
Flip4(buf) ==
  FoldLeft(LAMBDA s, w : Swapped(Swapped(s, 4 * w - 2, 4 * w + 1), 4 * w - 1, 4 * w),
           buf, [w \in 1 .. Rounds(Len(buf) - 1, 4) |-> w])
Flip2(buf) ==
  FoldLeft(LAMBDA s, w : Swapped(s, 2 * w, 2 * w + 1),
           buf, [w \in 1 .. Rounds(Len(buf) - 1, 2) |-> w])

(* Both go on while i is in the text, so that the last round may exchange  *)
(* cells behind tmpbuf[insz].                                              *)
FlipsBy(size) ==
  \/ size = 4 /\ arg.order \in {"UCS_4_SWAP_4321", "UCS_4_SWAP_3412"}
  \/ size = 2 /\ arg.order \in {"UCS_4_SWAP_3412", "UCS_4_SWAP_2143", "UCS_2_SWAP"}
Spills ==
  \E size \in {2, 4} : FlipsBy(size) /\ size * Rounds(Len(arg.bytes), size) > Len(arg.bytes)

Tmpbuf ==
  LET buf == Append(arg.bytes, 0)
  IN CASE arg.order = "UCS_4_SWAP_4321" -> Flip4(buf)
       [] arg.order = "UCS_4_SWAP_3412" -> Flip2(Flip4(buf))
       [] arg.order \in {"UCS_4_SWAP_2143", "UCS_2_SWAP"} -> Flip2(buf)
       [] OTHER -> buf

WordSize == CASE arg.order \in {"UCS_2", "UCS_2_SWAP"} -> 2
              [] arg.order \in {"BYTE", "UNKNOWN"} -> 1
              [] OTHER -> 4
Words   == Len(arg.bytes) \div WordSize
Word(k) ==
  LET b(i) == Tmpbuf[WordSize * (k - 1) + i]
  IN IF WordSize = 2 THEN b(1) + 256 * b(2)
     ELSE IF b(4) # 0 THEN Huge ELSE b(1) + 256 * b(2) + 65536 * b(3)

SurrogatePair(high, low) == 65536 + (high - 55296) * 1024 + (low - 56320)

Converting == call = "convert" /\ done = "" /\ ~Spills
More       == at <= Words /\ Len(out) < arg.outsz

Writes(k, cp) ==
  LET bytes == WriteUtf8(cp, arg.outsz, Len(out))
  IN IF bytes = <<>> THEN Finished("ok") ELSE Goes(k, bytes)

(* The flips write over what the stack has behind tmpbuf; whatever the     *)
(* program does then is undefined.                                         *)
Spill ==
  /\ call = "convert" /\ done = "" /\ Spills
  /\ Finished("spilled")

(* A round of C_Conv_char32_to_8. *)
Convert32 ==
  /\ Converting /\ WordSize = 4 /\ More
  /\ Writes(at + 1, Word(at))

(* Mutant: a pair is one word. *)
Convert16Short ==
  /\ Converting /\ WordSize = 2 /\ More
  /\ \E second \in IF at < Words THEN {Word(at + 1)} ELSE Garbage :
       Writes(at + 1, IF Word(at) \in High /\ second \in Low
                      THEN SurrogatePair(Word(at), second) ELSE Word(at))

(* A round of C_Conv_char16_to_8: read_utf16 takes a pair either way       *)
(* round, and looks for its second half behind the end too.                *)
Convert16 ==
  /\ Converting /\ WordSize = 2 /\ More
  /\ LET first == Word(at)
     IN IF first \notin High \cup Low THEN Writes(at + 1, first)
        ELSE \E second \in IF at < Words THEN {Word(at + 1)} ELSE Garbage :
               IF first \in High /\ second \in Low
               THEN Writes(at + 2, SurrogatePair(first, second))
               ELSE IF first \in Low /\ second \in High
               THEN Writes(at + 2, SurrogatePair(second, first))
               ELSE Finished("ok")

(* Any other order is copied. *)
ConvertBytes ==
  /\ Converting /\ WordSize = 1 /\ at = 1
  /\ LET size == Min({Len(arg.bytes), arg.outsz})
     IN /\ out' = SubSeq(arg.bytes, 1, size)
        /\ at' = size + 1
  /\ done' = "ok"
  /\ UNCHANGED <<call, arg>>

ConvertEnds ==
  /\ Converting /\ WordSize > 1 /\ ~More
  /\ Finished("ok")

-----------------------------------------------------------------------------
Init ==
  /\ \/ call = "unescape" /\ arg \in Quoted
     \/ call = "convert" /\ arg \in Conversion
  /\ at = 1
  /\ out = <<>>
  /\ done = ""

Unescape ==
  \/ NoMemory \/ OpenQuote \/ Plain \/ CloseQuote
  \/ EscapedNewline \/ EscapedLetter \/ EscapedHex \/ EscapedUnicode
  \/ EscapedSpace \/ EscapedOctal \/ EscapedOther

Convert == Spill \/ Convert32 \/ Convert16 \/ ConvertBytes \/ ConvertEnds

Next == Unescape \/ Convert

Spec == Init /\ [][Next]_vars

-----------------------------------------------------------------------------
(* Properties.                                                             *)

(* Nothing is read behind the quote that closes a token or written behind  *)
(* the block that was allocated for its value, which is as long as the     *)
(* token (every append_ of estring.c pays for what it writes with what it  *)
(* reads).  A conversion never writes more than the room it was given, and *)
(* stays in its temporary block when the text consists of whole words: the *)
(* flips are known to leave it when a text in swapped order ends within a  *)
(* word (convert.c:117, 124).  What the conversion reads behind the end of *)
(* a text (convert.c:195) is not the subject here.                         *)
StaysInside ==
  /\ out \in Seq(Byte)
  /\ call = "unescape" => at <= Len(arg.src) /\ Len(out) < at
  /\ call = "convert" => Len(out) <= arg.outsz
  /\ done = "spilled" => Len(arg.bytes) % WordSize # 0

(* The parts are not more than append_unicode gives them room for: it is   *)
(* known to lose a code point of several bytes unless more bytes than it   *)
(* has were written before it.                                             *)
HasRoom(parts) ==
  \A i \in 1 .. Len(parts) :
    LET before == Len(FlattenSeq(SubSeq(Values(parts), 1, i - 1)))
    IN Len(parts[i].val) > 1 => before > Len(parts[i].val)

(* A string of the escapes the documentation lists has the value it gives  *)
(* them, whichever escapes stand side by side.                             *)
EscapesMeanAsDocumented ==
  call = "unescape" /\ done = "ok" =>
    \A parts \in arg.means : HasRoom(parts) => out = FlattenSeq(Values(parts))

(* UTF-16 and UTF-32 in the byte order of the host come out as UTF-8 of    *)
(* the same code points: of all of them if there is a byte to spare, else  *)
(* of the first ones, and none of them in part.                            *)
ConversionKeepsText ==
  call = "convert" =>
    \A text \in arg.means :
       /\ \E n \in 0 .. Len(text.utf8) : out = FlattenSeq(SubSeq(text.utf8, 1, n))
       /\ done = "ok" /\ Len(FlattenSeq(text.utf8)) < arg.outsz => out = FlattenSeq(text.utf8)

=============================================================================
