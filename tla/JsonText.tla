------------------------------ MODULE JsonText ------------------------------
(***************************************************************************)
(* Reading, printing and minifying JSON (src/examples/json/cJSON.c).       *)
(*                                                                         *)
(* A client has a text and parses or minifies it; from what it has parsed  *)
(* it prints one more text.  Parsing fills the nodes of JsonHeap; printing *)
(* fills a block that grows, or one the client gives.  memory allocations  *)
(* find memory, and all after them fail.                                   *)
(*                                                                         *)
(* A text is the sequence of its bytes.  Numbers are whole; the texts of   *)
(* strings and names end at their first NUL, as C reads them.              *)
(***************************************************************************)
EXTENDS JsonHeap, FiniteSetsExt

CONSTANTS
  Start,         (* what a client begins with: records of a text and of     *)
                 (* the allocations that find memory                        *)
  Meaning,       (* the documents: records of a text, with nothing behind   *)
                 (* the document, and of the tree it means                  *)
  Commented,     (* the same with comments between the tokens               *)
  Block,         (* the blocks a client prints to: records of format and    *)
                 (* of how, "print", "buffered" or "preallocated", of the   *)
                 (* size of the block and of whether realloc is replaced    *)
  NestingLimit,  (* CJSON_NESTING_LIMIT                                     *)
  DefaultSize,   (* default_buffer_size                                     *)
  IntMax         (* INT_MAX                                                 *)

ASSUME LimitsAreNatural == NestingLimit \in Nat /\ DefaultSize \in Nat \ {0} /\ IntMax \in Nat

(* Nodes are numbered, and the least free one is allocated next.           *)
ASSUME NodesAreNumbers == Node = 1 .. Cardinality(Node)

VARIABLES
  text,     (* the text the client has                                      *)
  memory,   (* how many allocations will find memory                        *)
  heap,     (* the nodes there are                                          *)
  strings,  (* how many copies of strings there are                         *)
  blocks,   (* how many blocks of printed text there are                    *)
  root,     (* what parsing returned                                        *)
  end,      (* *return_parse_end, counted from 0                            *)
  printed,  (* the text that was printed                                    *)
  outside,  (* whether a byte outside its block was read or written         *)
  call      (* the last call and what it was given                          *)

vars == <<text, memory, heap, strings, blocks, root, end, printed, outside, call>>

NUL == 0   Tab == 9   LineFeed == 10   Blank == 32   Quote == 34   Star == 42
Comma == 44   Minus == 45   Slash == 47   Colon == 58   Backslash == 92   LetterU == 117
OpenArray == 91   CloseArray == 93   OpenObject == 123   CloseObject == 125
Digits == 48 .. 57

NullText  == <<110, 117, 108, 108>>
FalseText == <<102, 97, 108, 115, 101>>
TrueText  == <<116, 114, 117, 101>>
ByteOrderMark == <<239, 187, 191>>

Opens(type)  == IF type = "Array" THEN OpenArray ELSE OpenObject
Closes(type) == IF type = "Array" THEN CloseArray ELSE CloseObject

(* What C takes for a string: what is before the first NUL. *)
CString(s) ==
  LET ends == {i \in DOMAIN s : s[i] = NUL} IN
  IF ends = {} THEN s ELSE SubSeq(s, 1, Min(ends) - 1)

OwnsText(r) == r.text # Nil /\ r.type = "String"
Owned(r)    == (IF r.name # Nil THEN 1 ELSE 0) + (IF OwnsText(r) THEN 1 ELSE 0)
OwnedIn(h, S) == FoldSet(LAMBDA n, sum : sum + Owned(h[n]), 0, S)

-----------------------------------------------------------------------------
(* parse_buffer, with the nodes and strings made so far.  at is its        *)
(* offset, counted from 0.                                                 *)

Job(content, enough) ==
  [in |-> content, at |-> 0, depth |-> 0, ok |-> TRUE, outside |-> FALSE,
   heap |-> <<>>, strings |-> 0, memory |-> enough]

Fail(j)    == [j EXCEPT !.ok = FALSE]
Sees(j, i) == j.at + i < Len(j.in)                   (* can_access_at_index  *)
IsAt(j, c) == Sees(j, 0) /\ j.in[j.at + 1] = c
ReadsAt(j, s) == Len(s) <= Len(j.in) - j.at /\ SubSeq(j.in, j.at + 1, j.at + Len(s)) = s
Moved(j, by)  == [j EXCEPT !.at = @ + by]

(* Mutant: at the end of the buffer it stays behind the last byte. *)
SkippedPastEnd(j) ==
  IF ~j.ok \/ ~Sees(j, 0) THEN j
  ELSE [j EXCEPT !.at = Min({k \in @ .. Len(j.in) : k = Len(j.in) \/ j.in[k + 1] > Blank})]

(* buffer_skip_whitespace. *)
Skipped(j) ==
  IF ~j.ok \/ ~Sees(j, 0) THEN j
  ELSE LET stop == Min({k \in j.at .. Len(j.in) : k = Len(j.in) \/ j.in[k + 1] > Blank})
       IN [j EXCEPT !.at = IF stop = Len(j.in) THEN stop - 1 ELSE stop]

(* skip_utf8_bom. *)
MarkSkipped(j) ==
  IF j.ok /\ Sees(j, 4) /\ ReadsAt(j, ByteOrderMark) THEN Moved(j, 3) ELSE j

NextNode(h) == CHOOSE n \in Node \ DOMAIN h : \A m \in Node \ DOMAIN h : n <= m

(* cJSON_New_Item, for node n, linked behind last. *)
Made(j, n, last) ==
  IF j.memory = 0 THEN Fail(j)
  ELSE LET h == Put(j.heap, n, NewItem("Invalid", FALSE, Nil, Nil)) IN
       [j EXCEPT !.memory = @ - 1,
                 !.heap = IF last = Nil THEN h
                          ELSE [h EXCEPT ![last].next = n, ![n].prev = last]]

(* cJSON_Delete. *)
Deleted(j, n) ==
  LET gone == Gone(j.heap, n) IN
  [j EXCEPT !.heap = [m \in DOMAIN @ \ gone |-> @[m]],
            !.strings = @ - OwnedIn(j.heap, gone)]

(* Mutant: what the list had before it went wrong is kept. *)
AbandonedKept(j, head) == Fail(j)

(* The end at fail of parse_array and parse_object. *)
Abandoned(j, head) == Fail(Deleted(j, head))

Filled(j, n, type, value, by) ==
  [j EXCEPT !.heap[n].type = type, !.heap[n].text = value, !.at = @ + by]

(* parse_number; strtod takes a sign and digits.  The text of a number is  *)
(* its value, alone in a sequence.                                         *)
Strtod(s) ==
  LET sign   == IF s[1] = Minus THEN 1 ELSE 0
      stops  == {k \in sign + 1 .. Len(s) : s[k] \notin Digits}
      taken  == IF stops = {} THEN Len(s) ELSE Min(stops) - 1
      amount == FoldLeft(LAMBDA sum, c : 10 * sum + c - 48, 0, SubSeq(s, sign + 1, taken))
  IN [taken |-> IF taken = sign THEN 0 ELSE taken,
      value |-> IF sign = 1 THEN 0 - amount ELSE amount]

NumberRead(j, n, number) ==
  IF number.taken = 0 THEN Fail(j) ELSE Filled(j, n, "Number", <<number.value>>, number.taken)
ParseNumber(j, n) == NumberRead(j, n, Strtod(SubSeq(j.in, j.at + 1, Len(j.in))))

-----------------------------------------------------------------------------
(* Strings.                                                                *)

HexDigits == Digits \cup 65 .. 70 \cup 97 .. 102
HexValue(c) == IF c <= 57 THEN c - 48 ELSE IF c <= 70 THEN c - 55 ELSE c - 87

(* parse_hex4: 0, if there is anything but digits. *)
Hex4(s) ==
  IF \A i \in 1 .. 4 : s[i] \in HexDigits
  THEN FoldLeft(LAMBDA sum, c : 16 * sum + HexValue(c), 0, s) ELSE 0

Continuation(cp, shift) == 128 + ((cp \div 2 ^ shift) % 64)
Utf8(cp) ==
  CASE cp < 128    -> <<cp>>
    [] cp \in 128 .. 2047 -> <<192 + cp \div 64, Continuation(cp, 0)>>
    [] cp \in 2048 .. 65535 ->
         <<224 + cp \div 4096, Continuation(cp, 6), Continuation(cp, 0)>>
    [] OTHER -> <<240 + cp \div 262144, Continuation(cp, 12), Continuation(cp, 6),
                  Continuation(cp, 0)>>

High == 55296 .. 56319
Low  == 56320 .. 57343
NoSequence == [length |-> 0, bytes |-> <<>>]

(* utf16_literal_to_utf8, of what is left of the string. *)
Utf16(s) ==
  LET first  == Hex4(SubSeq(s, 3, 6))
      second == Hex4(SubSeq(s, 9, 12))
  IN CASE Len(s) < 6 -> NoSequence
       [] Len(s) >= 6 /\ first \in Low -> NoSequence
       [] Len(s) >= 6 /\ first \in High ->
            IF Len(s) < 12 \/ SubSeq(s, 7, 8) # <<Backslash, LetterU>> \/ second \notin Low
            THEN NoSequence
            ELSE [length |-> 12,
                  bytes |-> Utf8(65536 + (first - 55296) * 1024 + (second - 56320))]
       [] OTHER -> [length |-> 6, bytes |-> Utf8(first)]

(* The escapes of one character. *)
Escapes == [c \in {98, 102, 110, 114, 116, Quote, Backslash, Slash} |->
  CASE c = 98 -> 8 [] c = 102 -> 12 [] c = 110 -> 10 [] c = 114 -> 13 [] c = 116 -> 9
    [] OTHER -> c]

(* Where the string whose text begins at k ends, and how many escapes it   *)
(* has: the first loop of parse_string.  No stop: it does not end.         *)
RECURSIVE Scan(_, _, _)
Scan(s, k, escapes) ==
  CASE k > Len(s) -> [stop |-> 0, escapes |-> escapes]
    [] k <= Len(s) /\ s[k] = Quote -> [stop |-> k, escapes |-> escapes]
    [] k <= Len(s) /\ s[k] = Backslash -> Scan(s, k + 2, escapes + 1)
    [] OTHER -> Scan(s, k + 1, escapes)

(* The second: what s stands for from k on, or where it is wrong. *)
RECURSIVE Unescaped(_, _, _)
UnescapedUnicode(s, k, out, literal) ==
  IF literal.length = 0 THEN [ok |-> FALSE, at |-> k, out |-> out]
  ELSE Unescaped(s, k + literal.length, out \o literal.bytes)
Unescaped(s, k, out) ==
  IF k > Len(s) THEN [ok |-> TRUE, at |-> k, out |-> out]
  ELSE IF s[k] # Backslash THEN Unescaped(s, k + 1, Append(out, s[k]))
  ELSE IF s[k + 1] \in DOMAIN Escapes
  THEN Unescaped(s, k + 2, Append(out, Escapes[s[k + 1]]))
  ELSE IF s[k + 1] = LetterU
  THEN UnescapedUnicode(s, k, out, Utf16(SubSeq(s, k, Len(s))))
  ELSE [ok |-> FALSE, at |-> k, out |-> out]

(* The string between the quotes has length bytes, and room is what was    *)
(* allocated for its value. *)
StringRead(j, n, length, room, result) ==
  LET used == [j EXCEPT !.memory = @ - 1,
                        !.outside = @ \/ Len(result.out) + 1 > room]
  IN IF result.ok
     THEN [Filled(used, n, "String", CString(result.out), length + 2) EXCEPT !.strings = @ + 1]
     ELSE Fail(Moved(used, result.at))

StringScanned(j, n, scan) ==
  LET length == scan.stop - j.at - 2 IN
  IF scan.stop = 0 \/ j.memory = 0 THEN Fail(Moved(j, 1))
  ELSE StringRead(j, n, length, length + 1 - scan.escapes + 1,
                  Unescaped(SubSeq(j.in, j.at + 2, scan.stop - 1), 1, <<>>))

ParseString(j, n) ==
  IF ~Sees(j, 0) THEN [Fail(j) EXCEPT !.outside = TRUE]
  ELSE IF ~IsAt(j, Quote) THEN Fail(Moved(j, 1))
  ELSE StringScanned(j, n, Scan(j.in, j.at + 2, 0))

-----------------------------------------------------------------------------
(* Values.                                                                 *)

RECURSIVE ParseValue(_, _), ParseItems(_, _, _, _, _)

(* The name of a member is parsed as its text, and then swapped. *)
NameSwapped(j, n) ==
  IF j.ok THEN [j EXCEPT !.heap[n].name = j.heap[n].text, !.heap[n].text = Nil] ELSE j
ColonPassed(j) == IF j.ok /\ IsAt(j, Colon) THEN Moved(j, 1) ELSE Fail(j)
NameParsed(j, n) ==
  IF ~Sees(j, 1) THEN Fail(j)
  ELSE ColonPassed(NameSwapped(Skipped(ParseString(Skipped(Moved(j, 1)), n)), n))

(* An item, from the byte before it to the first behind it. *)
ItemBegun(j, n, type) ==
  CASE ~j.ok -> j
    [] j.ok /\ type = "Array" -> Moved(j, 1)
    [] OTHER -> NameParsed(j, n)
ItemValue(j, n) == IF j.ok THEN Skipped(ParseValue(Skipped(j), n)) ELSE j

(* success of parse_array and parse_object. *)
Closed(j, c, type, head, last) ==
  LET h == IF head = Nil THEN j.heap ELSE [j.heap EXCEPT ![head].prev = last] IN
  [j EXCEPT !.depth = @ - 1, !.at = @ + 1,
            !.heap = [h EXCEPT ![c].type = type, ![c].child = head]]

ItemEnded(j, c, type, head, n) ==
  CASE j.ok /\ IsAt(j, Comma) -> ParseItems(j, c, type, head, n)
    [] j.ok /\ IsAt(j, Closes(type)) -> Closed(j, c, type, head, n)
    [] OTHER -> Abandoned(j, head)

(* A turn of the loop; head and last are the items made before. *)
ParseItems(j, c, type, head, last) ==
  IF j.memory = 0 THEN Abandoned(j, head)
  ELSE LET n == NextNode(j.heap) IN
       ItemEnded(ItemValue(ItemBegun(Made(j, n, last), n, type), n), c, type,
                 IF head = Nil THEN n ELSE head, n)

ListBegun(j, c, type) ==
  IF IsAt(j, Closes(type)) THEN Closed(j, c, type, Nil, Nil)
  ELSE IF ~Sees(j, 0) THEN Fail(Moved(j, -1))
  ELSE ParseItems(Moved(j, -1), c, type, Nil, Nil)

(* parse_array and parse_object. *)
ParseList(j, c, type) ==
  IF j.depth >= NestingLimit THEN Fail(j)
  ELSE ListBegun(Skipped(Moved([j EXCEPT !.depth = @ + 1], 1)), c, type)

ParseValue(j, n) ==
  CASE ReadsAt(j, NullText)  -> Filled(j, n, "Null", Nil, 4)
    [] ReadsAt(j, FalseText) -> Filled(j, n, "False", Nil, 5)
    [] ReadsAt(j, TrueText)  -> Filled(j, n, "True", Nil, 4)
    [] IsAt(j, Quote) -> ParseString(j, n)
    [] \E c \in Digits \cup {Minus} : IsAt(j, c) -> ParseNumber(j, n)
    [] IsAt(j, OpenArray)  -> ParseList(j, n, "Array")
    [] IsAt(j, OpenObject) -> ParseList(j, n, "Object")
    [] OTHER -> Fail(j)

(* cJSON_ParseWithLengthOpts: the root is node 1, if there is one in the   *)
(* end. *)
Ended(j, strict) ==
  IF ~strict \/ ~j.ok \/ IsAt(j, NUL) THEN j ELSE Fail(j)
RootParsed(j, strict) ==
  IF j.ok THEN Ended(IF strict THEN Skipped(ParseValue(j, 1)) ELSE ParseValue(j, 1), strict) ELSE j
Settled(j) ==
  IF j.ok THEN j
  ELSE [Deleted(j, IF 1 \in DOMAIN j.heap THEN 1 ELSE Nil) EXCEPT
          !.at = IF @ < Len(j.in) THEN @ ELSE Max({Len(j.in) - 1, 0})]
ParsedFrom(j, strict) ==
  IF j.in = <<>> THEN Fail(j)
  ELSE Settled(RootParsed(Skipped(MarkSkipped(Made(j, 1, Nil))), strict))

(* cJSON_ParseWithOpts, asked to find a NUL behind the document, which it  *)
(* counts, and cJSON_ParseWithLengthOpts, not asked to.                    *)
Parsed(s, strict, enough) ==
  ParsedFrom(Job(IF strict THEN Append(CString(s), NUL) ELSE s, enough), strict)

-----------------------------------------------------------------------------
(* printbuffer: buf is the block, Nil when there is none, and a byte that  *)
(* was not written to is Junk.                                             *)

Junk == -1
Cells(size) == [i \in 1 .. size |-> Junk]

Buffer(size, how, format, replaced, enough) ==
  [buf |-> Cells(size), offset |-> 0, depth |-> 0, format |-> format,
   noalloc |-> how = "preallocated", replaced |-> replaced, ok |-> TRUE,
   memory |-> enough, blocks |-> IF how = "preallocated" THEN 0 ELSE 1, outside |-> FALSE]

Stop(p) == [p EXCEPT !.ok = FALSE]
LengthOf(p) == IF p.buf = Nil THEN 0 ELSE Len(p.buf)

(* Mutant: of the old block, the bytes up to the offset are forgotten. *)
GrownEmpty(p, size) ==
  IF p.memory = 0 THEN [Stop(p) EXCEPT !.buf = Nil, !.blocks = @ - 1]
  ELSE [p EXCEPT !.memory = @ - 1, !.buf = Cells(size)]

(* The block is reallocated, by hand if realloc is replaced; without       *)
(* memory it is freed.                                                     *)
Grown(p, size) ==
  IF p.memory = 0 THEN [Stop(p) EXCEPT !.buf = Nil, !.blocks = @ - 1]
  ELSE LET kept == IF p.replaced THEN p.offset + 1 ELSE Len(p.buf) IN
       [p EXCEPT !.memory = @ - 1,
                 !.outside = @ \/ kept > Len(p.buf),
                 !.buf = [i \in 1 .. size |->
                            IF i <= kept /\ i <= Len(@) THEN @[i] ELSE Junk]]

(* ensure. *)
Ensure(p, needed) ==
  LET all == needed + p.offset + 1 IN
  CASE ~p.ok -> p
    [] p.ok /\ (p.buf = Nil \/ LengthOf(p) \in 1 .. p.offset \/ needed > IntMax) -> Stop(p)
    [] OTHER ->
         IF all <= LengthOf(p) THEN p
         ELSE IF p.noalloc \/ all > IntMax THEN Stop(p)
         ELSE Grown(p, IF all > IntMax \div 2 THEN IntMax ELSE 2 * all)

Write(p, bytes, by) ==
  IF ~p.ok THEN p
  ELSE [p EXCEPT !.outside = @ \/ p.offset + Len(bytes) > Len(p.buf),
                 !.buf = [i \in DOMAIN @ |-> IF i - p.offset \in DOMAIN bytes
                                             THEN bytes[i - p.offset] ELSE @[i]],
                 !.offset = @ + by]

(* bytes are written where ensure has made room for needed, and offset     *)
(* moves on by so many.                                                    *)
Emit(p, needed, bytes, by) == Write(Ensure(p, needed), bytes, by)

(* update_offset. *)
Updated(p) ==
  LET ends == {i \in p.offset + 1 .. LengthOf(p) : p.buf[i] = NUL} IN
  IF ~p.ok THEN p
  ELSE IF ends = {} THEN [p EXCEPT !.outside = TRUE]
  ELSE [p EXCEPT !.offset = Min(ends) - 1]

-----------------------------------------------------------------------------
(* Printing.                                                               *)

RECURSIVE Decimal(_)
Decimal(n) ==
  CASE n < 0 -> <<Minus>> \o Decimal(0 - n)
    [] n \in 0 .. 9 -> <<48 + n>>
    [] OTHER -> Append(Decimal(n \div 10), 48 + (n % 10))

HexDigit(n) == IF n < 10 THEN 48 + n ELSE 87 + n
Escaped(c) ==
  CASE c \in {Quote, Backslash} -> <<Backslash, c>>
    [] c = 8  -> <<Backslash, 98>>
    [] c = 12 -> <<Backslash, 102>>
    [] c = 10 -> <<Backslash, 110>>
    [] c = 13 -> <<Backslash, 114>>
    [] c = 9  -> <<Backslash, 116>>
    [] c < 32 /\ c \notin {8, 9, 10, 12, 13} ->
         <<Backslash, LetterU, 48, 48, HexDigit(c \div 16), HexDigit(c % 16)>>
    [] OTHER -> <<c>>

(* print_string_ptr. *)
PrintQuoted(p, body) ==
  Emit(p, Len(body) + 3, <<Quote>> \o body \o <<Quote, NUL>>, 0)
PrintString(p, s) ==
  IF s = Nil THEN Emit(p, 3, <<Quote, Quote, NUL>>, 0)
  ELSE PrintQuoted(p, FlattenSeq([i \in DOMAIN s |-> Escaped(s[i])]))

PrintNumber(p, digits) == Emit(p, Len(digits) + 1, Append(digits, NUL), Len(digits))

(* A literal and the NUL behind it. *)
PrintLiteral(p, bytes) == Emit(p, Len(bytes) + 1, Append(bytes, NUL), 0)

Deeper(p, by) == IF p.ok THEN [p EXCEPT !.depth = @ + by] ELSE p
Tabs(n) == [i \in 1 .. n |-> Tab]

RECURSIVE PrintValue(_, _, _)

(* print_array: what comes before the items, between them and behind. *)
ArrayComma(p) ==
  LET bytes == IF p.format THEN <<Comma, Blank>> ELSE <<Comma>> IN
  Emit(p, Len(bytes) + 1, Append(bytes, NUL), Len(bytes))
PrintItem(p, h, n) ==
  LET q == Updated(PrintValue(p, h, n)) IN
  IF h[n].next = Nil THEN q ELSE ArrayComma(q)
PrintItems(p, h, list) == FoldLeft(LAMBDA q, n : PrintItem(q, h, n), p, list)
PrintArray(p, h, n) ==
  Deeper(Emit(PrintItems(Deeper(Emit(p, 1, <<OpenArray>>, 1), 1), h, Items(h, n)),
              2, <<CloseArray, NUL>>, 0), -1)

(* print_object. *)
Indented(p) == IF p.format THEN Emit(p, p.depth, Tabs(p.depth), p.depth) ELSE p
ColonPrinted(p) ==
  LET bytes == IF p.format THEN <<Colon, Tab>> ELSE <<Colon>> IN
  Emit(p, Len(bytes), bytes, Len(bytes))
MemberEnd(p, last) ==
  LET bytes == (IF last THEN <<>> ELSE <<Comma>>)
               \o (IF p.format THEN <<LineFeed>> ELSE <<>>)
  IN Emit(p, Len(bytes) + 1, Append(bytes, NUL), Len(bytes))
PrintMember(p, h, n) ==
  MemberEnd(Updated(PrintValue(ColonPrinted(Updated(PrintString(Indented(p), h[n].name))), h, n)),
            h[n].next = Nil)
PrintMembers(p, h, list) == FoldLeft(LAMBDA q, n : PrintMember(q, h, n), p, list)
ObjectOpened(p) ==
  LET bytes == IF p.format THEN <<OpenObject, LineFeed>> ELSE <<OpenObject>> IN
  Deeper(Emit(p, Len(bytes) + 1, bytes, Len(bytes)), 1)
ObjectClosed(p) ==
  Deeper(Emit(p, IF p.format THEN p.depth + 1 ELSE 2,
              (IF p.format THEN Tabs(p.depth - 1) ELSE <<>>) \o <<CloseObject, NUL>>, 0), -1)
PrintObject(p, h, n) == ObjectClosed(PrintMembers(ObjectOpened(p), h, Items(h, n)))

PrintValue(p, h, n) ==
  CASE ~p.ok -> p
    [] p.ok /\ h[n].type = "Null"  -> PrintLiteral(p, NullText)
    [] p.ok /\ h[n].type = "False" -> PrintLiteral(p, FalseText)
    [] p.ok /\ h[n].type = "True"  -> PrintLiteral(p, TrueText)
    [] p.ok /\ h[n].type = "Number" -> PrintNumber(p, Decimal(Head(h[n].text)))
    [] p.ok /\ h[n].type = "String" -> PrintString(p, h[n].text)
    [] p.ok /\ h[n].type = "Array"  -> PrintArray(p, h, n)
    [] p.ok /\ h[n].type = "Object" -> PrintObject(p, h, n)
    [] OTHER -> Stop(p)

(* The end of print: the text is moved to a block of its own size.         *)
Trimmed(p) ==
  IF p.ok /\ p.memory > 0 THEN [p EXCEPT !.memory = @ - 1] ELSE Stop(p)

(* The ends of the three functions that print: without success the block   *)
(* is freed, if there still is one and it is not the client's. *)
Finished(p) ==
  IF p.ok \/ p.buf = Nil \/ p.noalloc THEN p ELSE [p EXCEPT !.buf = Nil, !.blocks = @ - 1]

(* cJSON_Print, cJSON_PrintBuffered and cJSON_PrintPreallocated.           *)
PrintedTo(block, h, n, enough) ==
  LET p == Buffer(block.size, block.how, block.format, block.replaced,
                  IF block.how = "preallocated" \/ enough = 0 THEN enough ELSE enough - 1)
  IN IF block.how # "preallocated" /\ enough = 0 THEN [Stop(p) EXCEPT !.buf = Nil, !.blocks = 0]
     ELSE IF block.how = "print" THEN Finished(Trimmed(Updated(PrintValue(p, h, n))))
     ELSE Finished(PrintValue(p, h, n))

-----------------------------------------------------------------------------
(* cJSON_Minify.                                                           *)

(* Where the comment that begins at i ends, i + 1 being its second byte. *)
LineEnd(s, i) ==
  LET ends == {k \in i + 2 .. Len(s) : s[k] = LineFeed} IN
  IF ends = {} THEN Len(s) + 1 ELSE Min(ends) + 1
CommentEnd(s, i) ==
  LET ends == {k \in i + 2 .. Len(s) - 1 : s[k] = Star /\ s[k + 1] = Slash} IN
  IF ends = {} THEN Len(s) + 1 ELSE Min(ends) + 2

(* Where the string that begins at i ends: a quote behind a backslash does *)
(* not end it, and a backslash is nothing more than that. *)
RECURSIVE QuoteEnd(_, _)

(* Mutant: the first quote ends a string. *)
QuoteEndFirst(s, k) ==
  IF k > Len(s) THEN Len(s) + 1
  ELSE IF s[k] = Quote THEN k + 1 ELSE QuoteEnd(s, k + 1)

QuoteEnd(s, k) ==
  IF k > Len(s) THEN Len(s) + 1
  ELSE IF s[k] = Quote THEN k + 1
  ELSE IF s[k] = Backslash /\ k < Len(s) /\ s[k + 1] = Quote THEN QuoteEnd(s, k + 2)
  ELSE QuoteEnd(s, k + 1)

RECURSIVE MinifiedFrom(_, _)
MinifiedFrom(s, i) ==
  LET Second(c) == i < Len(s) /\ s[i + 1] = c IN
  CASE i > Len(s) -> <<>>
    [] i <= Len(s) /\ s[i] \in {Tab, LineFeed, 13, Blank} -> MinifiedFrom(s, i + 1)
    [] i <= Len(s) /\ s[i] = Slash ->
         MinifiedFrom(s, IF Second(Slash) THEN LineEnd(s, i)
                         ELSE IF Second(Star) THEN CommentEnd(s, i) ELSE i + 1)
    [] i <= Len(s) /\ s[i] = Quote ->
         SubSeq(s, i, QuoteEnd(s, i + 1) - 1) \o MinifiedFrom(s, QuoteEnd(s, i + 1))
    [] OTHER -> <<s[i]>> \o MinifiedFrom(s, i + 1)

Minified(s) == MinifiedFrom(CString(s), 1)

-----------------------------------------------------------------------------
(* The client.                                                             *)

Init ==
  /\ \E start \in Start : text = start.text /\ memory = start.memory
  /\ heap = <<>> /\ strings = 0 /\ blocks = 0
  /\ root = Nil /\ end = 0 /\ printed = Nil /\ outside = FALSE
  /\ call = [name |-> "none"]

Parse(strict) ==
  /\ call.name = "none"
  /\ \E j \in {Parsed(text, strict, memory)} :
       /\ heap' = j.heap /\ strings' = j.strings /\ end' = j.at
       /\ root' = IF j.ok THEN 1 ELSE Nil
       /\ memory' = j.memory
       /\ outside' = j.outside
  /\ call' = [name |-> "parse", strict |-> strict]
  /\ UNCHANGED <<text, blocks, printed>>

PrintTo(block) ==
  /\ call.name = "parse" /\ root # Nil
  /\ \E p \in {PrintedTo(block, heap, root, memory)} :
       /\ printed' = IF p.ok THEN CString(p.buf) ELSE Nil
       /\ blocks' = p.blocks
       /\ memory' = p.memory
       /\ outside' = p.outside
  /\ call' = [name |-> "print", block |-> block]
  /\ UNCHANGED <<text, heap, strings, root, end>>

Minify ==
  /\ call.name = "none"
  /\ text' = Minified(text)
  /\ call' = [name |-> "minify"]
  /\ UNCHANGED <<memory, heap, strings, blocks, root, end, printed, outside>>

(* cJSON_Delete, of what was parsed. *)
Delete ==
  /\ root # Nil
  /\ \E j \in {Deleted([heap |-> heap, strings |-> strings], root)} :
       heap' = j.heap /\ strings' = j.strings
  /\ root' = Nil
  /\ call' = [name |-> "delete"]
  /\ UNCHANGED <<text, memory, blocks, end, printed, outside>>

Next ==
  \/ \E strict \in BOOLEAN : Parse(strict)
  \/ \E block \in Block : PrintTo(block)
  \/ Minify
  \/ Delete

Spec == Init /\ [][Next]_vars

-----------------------------------------------------------------------------
(* Properties.                                                             *)

(* The value of a node, as a tree. *)
RECURSIVE TreeOf(_, _)
TreeOf(h, n) ==
  LET list == Items(h, n) IN
  [type |-> h[n].type, text |-> h[n].text,
   items |-> [k \in DOMAIN list |-> <<h[list[k]].name, TreeOf(h, list[k])>>]]

TreeIn(j) == TreeOf(j.heap, 1)

Behind(s, k)  == SubSeq(s, k + 1, Len(s))
IsSpace(s)    == \A i \in DOMAIN s : s[i] <= Blank
Means(s, tree) == [text |-> s, tree |-> tree]
Documents     == {d.text : d \in Meaning}
Annotated     == {d.text : d \in Commented}
Beginnings(s) == {k \in 1 .. Len(s) : SubSeq(s, 1, k) \in Documents}

(* Parsing makes the tree of a document, and of nothing else: with a text  *)
(* that need not end where the document does it finds its end, which is    *)
(* the last it can be, and with one that must it wants no more than space  *)
(* behind it.                                                              *)
ParsesExactlyDocuments ==
  call.name = "parse" /\ memory > 0 =>
    LET found == IF call.strict THEN {k \in Beginnings(text) : IsSpace(Behind(text, k))}
                 ELSE Beginnings(text)
    IN /\ root # Nil <=> found # {}
       /\ root # Nil => Means(SubSeq(text, 1, Max(found)), TreeOf(heap, root)) \in Meaning
       /\ root # Nil /\ ~call.strict => end = Max(found)

(* Whatever allocation fails and wherever a text is wrong, what is         *)
(* allocated is what the client can free by what it has: the nodes and     *)
(* strings below root, linked as they must be for that, and one block for  *)
(* one printed text.  No byte outside a block is read or written.          *)
MemoryIsKept ==
  /\ ~outside
  /\ DOMAIN heap = IF root = Nil THEN {} ELSE Gone(heap, root)
  /\ strings = OwnedIn(heap, DOMAIN heap)
  /\ \A n \in DOMAIN heap : heap[n].child # Nil =>
       heap[heap[n].child].prev = Last(Items(heap, n))
  /\ call.name = "print" =>
       blocks = IF printed = Nil \/ call.block.how = "preallocated" THEN 0 ELSE 1

(* What is printed, formatted or not, to a block of any size that grows or *)
(* does not, is a document and has the value that was printed; a printing  *)
(* that has memory succeeds, unless its text comes near the largest size   *)
(* of a block, and so does one to a block of the client's that has room    *)
(* for five bytes more than the text, as cJSON.h:162 wants.                *)
PrintReadsBack ==
  call.name = "print" =>
    /\ printed # Nil => \E j \in {Parsed(printed, TRUE, Cardinality(Node) * 3)} :
                          j.ok /\ TreeIn(j) = TreeOf(heap, root)
    /\ printed = Nil =>
         \/ call.block.how # "preallocated" /\ memory = 0
         \/ \E p \in {PrintedTo([call.block EXCEPT !.how = "print"], heap, root, 99)} :
              \/ ~p.ok /\ Len(text) > IntMax \div 4
              \/ /\ call.block.how = "preallocated"
                 /\ call.block.size < Len(CString(p.buf)) + 1 + 5

(* cJSON_Minify takes nothing from a text but comments and the space       *)
(* between tokens: the value is as before.                                 *)
MinifyKeepsMeaning ==
  [][call'.name = "minify" /\ text \in Annotated =>
       \E j \in {Parsed(text', TRUE, Cardinality(Node) * 3)} :
         j.ok /\ Means(text, TreeIn(j)) \in Commented]_vars

=============================================================================
