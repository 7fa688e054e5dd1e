# ELTN in TLA+

TLA+ specifications of the C library for ELTN, a text notation for Lua-like
tables, and of the JSON library its converter is built on: model-checked with
TLC and, for the core, proved with TLAPS. File names are relative to the
repository; the C code is in `src/src`, its documentation in `src/doc/eltn.md` and in
the comments of `src/src/eltn.h`, the JSON library in `src/examples/json`.

## The system

A client makes an `ELTN_Parser`, gives it a document (a string, a file, or a reader
callback that supplies one chunk after another), and calls `ELTN_Parser_next`
while `ELTN_Parser_has_next`. Everything happens in the thread of the client:

    client --write / read--> Buffer <--chunks-- reader callback, File_Reader
    client --next---------> Parser --next_token--> Lexer --next_char--> Buffer
                              |--unescape--> String routines --> Conversions
    all of them --alloc, free, acquire, release--> Pool

| Component | State | Operations | What makes it correct |
|---|---|---|---|
| Buffer, `ebuffer.c` | block, capacity, head, tail; `eof`; the reader | write, read, set_capacity, close, next_char (which calls the reader) | bytes leave once each and in order; a failed call loses nothing; the reader is asked only when there is nothing left; memory stays bounded |
| Lexer, `elexer.c` | current character, pushback, end of stream, line and column, token text | next_token, token_string | every character belongs to one token; line and column are those of the token; lexing ends |
| Parser, `eparser.c` | current event, depth, `no_defs`, text, string, error code and place | next, has_next, read, read_string, accessors | accepts the documents of the grammar and no others; events come in order; text, depth and error belong to the current event; parsing ends |
| Key set, `ekeyset.c` | hash table and count; iterator | add_key (with resize), has_key, size, iterator, next | it is a set: no key lost, none twice; an iterator shows each key once |
| Pool, `ealloc.c`, and every `_new` and `_free` | reference count, allocator; who owns which block | acquire, release, alloc, realloc, free, new string | freed once, by its last holder; nothing lost or freed twice |
| String routines, `estring.c` | none | unescape, unquote, trim, classes of characters | the text an escaped string stands for, inside the block for it |
| Conversions, `convert.c` | none | UTF-16, UTF-32 and code points to UTF-8, byte order marks | what is written is the same text, inside the room for it |
| File reader, `efiles.c` | FILE, a block | read | the document does not depend on the blocks |
| Emitter, `eemitter.c` | none used | new, free; the rest stubs | - |
| Names, `eenum.c` | none | tables of names | - |
| JSON items, `cJSON.c` | nodes with next, prev, child, name, text, flags | create, add, refer, detach, insert, replace, delete, duplicate, compare | lists linked both ways, one owner for every string, a forest |
| JSON text, `cJSON.c` | offset and depth in the text, the nodes made so far; block, length, offset and depth of what is printed | parse, print (formatted or not, to a block that grows or is the client's), minify | parses documents and nothing else, to what they mean; loses no memory on any failing path; what it prints reads back; minifying keeps the meaning |
| JSON patches, `cJSON_Utils.c` | documents, patches | pointers, sort, compare, generate and apply patches and merge patches | patches do what they say, generated ones lead to the goal |
| TOML, `tomlc17.c`; example programs | - | - | not modelled |

There are no threads. What is hard about this code is elsewhere, and `hazards`
in `PROJECT.json` lists it line by line:

* **failure on the way.** Every allocation may fail: between two steps of a
  resize, after a token was read and before its text was copied, in the copy a
  lookup makes before an insertion, half way through a constructor.
* **callbacks.** A request for one byte can call the reader any number of
  times, and the reader may end, fail, or fail and return a text.
* **boundaries.** A full ring looks like an empty one; a text ends exactly at
  the end of the block; a probe wraps round the table; 0 and -0; the room left
  for a code point; the only item of a list.
* **order and look-ahead.** Separators, brackets and semicolons are read ahead
  of the event they belong to, with text, position and depth set on the way.
* **ownership.** Pools, parsers, sets and iterators may be freed in any order;
  JSON nodes share children, names and texts.
* **liveness.** The client's loop ends only if every call moves on.

## Modules

Operators named `Mutant` in comments are variants of the definition after them
with a plausible bug in it. No specification uses them; each was seen to
violate the property it is there for.

### Buffer

* `ByteQueue.tla` - what the buffer promises: a first-in first-out queue of
  bytes that can be closed. A write takes all of a text or nothing of it.
* `RingBuffer.tla` - `ebuffer.c`. `ring` is the block with its capacity, head
  and tail; `Write`, `SetCapacity`, `Close`, `Read` and `NextChar` are the calls.
  A call that needs the reader stops at it (`pc`), and the answers of the reader
  (`ReaderEnds`, `ReaderErrs`, `ReaderLost`, `ReaderFirst`, `ReaderFills`) are
  steps of their own. `Resized` and `Stored` are the copying of
  `ELTN_Buffer_set_capacity` and `ELTN_Buffer_write`, cell by cell; whether an
  allocation fails is a free choice. A reader that returns a text of no bytes
  makes `ensure_more_bytes` loop with nothing changed: a stuttering step.
* `MCRingBuffer.tla` gives TLC the texts; `RingBufferProofs.tla` has the proofs.
* `Pipeline.tla` - the composition: `RingBuffer` extended with a source of text and
  an instance of `Lexer` that reads from it, a step for every request between
  them. The source is a string (`ELTN_Parser_read_string`), a file (`File_Reader`,
  whose blocks are short only at the end) or a reader of the client's (texts of
  any length, an error with or without one); where it fails, or where the buffer
  has no memory for what it returns, is chosen at the beginning. `answered` says
  that the buffer has returned and the lexer has not yet gone on.
* `PipelineProofs.tla` - the proofs about it: its bytes, on those about the ring, and its
  tokens, on those about the lexer.

A block that was never written to holds `Junk`, so that reading memory the code
did not fill is visible. Byte counts are mathematical integers.

### Lexer

* `Lexis.tla` - the characters, as the classes the lexer tells apart
  (`ELTN_is_space`, `ELTN_is_name_part`, ... of `estring.c`), the token a word, a mark or
  a number is, and the forms of long brackets. What strtod accepts is a parameter.
* `TokenStream.tla` - what the lexer promises: the document cut into tokens. It
  says where a token ends by the shape of its text (a quoted string is closed,
  a long bracket is closed at its level), with no state but how far the document
  has been cut. Where the code is known to cut otherwise than `eltn.md` has it, the module says
  so (its header, `Escaped`, `BrokenAnyway` and `CutShort`; see Findings).
* `Lexer.tla` - `elexer.c`. Every call of the character source is a step:
  `GetNextChar` is `get_next_char`, with pushback, end of stream, line and column;
  `NextToken`, `SkipSpace` and `Begin` are `ELTN_Lexer_next_token` up to its switch, and
  there is an action for every loop behind it (`Number`, `Name`, `Quoted`, `LongString`,
  `Comment`) and for the second character of `[` and `-`; `mode` says which one runs.
  `Appended` is `token_buffer_append`, which may find no memory and then drops the
  character. `token_buffer_equals` compares over the length of the token, and so
  does `WordToken`.
* `MCLexer.tla` - the documents for TLC; `LexerProofs.tla` and `LexerStreamProofs.tla` - the
  proofs, the second that `Lexer` implements `TokenStream`.

A token of twice `INIT_BUF_SIZE` is written past its block, as
`token_buffer_size` does not grow with it; what happens then is undefined, and
`DocsAssumption` leaves such documents out. A byte 0 in a document is like any
other character that begins no token.

### Parser

* `EventStream.tla` - what a client may rely on: the order in which events can
  come.
* `Parser.tla` - `eparser.c`. The document is the sequence of tokens the lexer
  will return, legal or not; `ParserNext` is one call of `ELTN_Parser_next`, with
  an action for each state (the event before the call) and an operator for each
  `expect_` function. `SetEvent` and `SignalError` are `set_event` and
  `signal_error`; where they allocate, the failure is a free choice. A token's text and
  its line and column are represented by its position in the document.
* `Grammar.tla` - the grammar of `eltn.md`, the reference the parser's language is
  compared with: for each rule, the places of a document where a part that begins at a
  given place may end. It knows of no events, states or depth.
* `MCParser.tla` - the documents for TLC, made from the same grammar written a second time,
  as sets of sentences; the assumption `GrammarsAgree` compares the two.
* `ParserProofs.tla` - the proofs.

### Key set

* `KeyRegistry.tla` - a set of values that only grows, and a listing of it.
* `KeySet.tla` - `ekeyset.c`. A key is a text with a value (`Value`; two texts
  may have the same value) and a hash (`Hash`). `AddKey` is `Key_Set_add_key` up to
  the loop of `resize`; `Rehash` moves one cell; `Insert` is the rest. Making the
  copy for a lookup fails only if `LookupMayFail`; the copy that is stored
  and the block of `resize` may always fail. `Iterator` copies the table as
  `Key_Set_iterator` copies the keys, and `IteratorNext` walks it.
* `MCKeySet.tla` - keys that collide; `KeySetProofs.tla` - the proofs.

### Text

* `Text.tla` - `ELTN_unescape_quoted_string` with its `append_` functions, one step
  for an escape, and `C_Conv_to_char8`, one step for a word. Characters are bytes.
  `WriteUtf8` is `write_utf8` with its tests for room; `EscapedUnicode` gives it the room
  `append_unicode` gives it, and `Strtol` is the code point `strtol` makes of what stands in the
  braces: space, a sign or `0x` before the digits, too many of them, and the cast to 32 bits. `Flip2` and
  `Flip4` exchange the bytes the code exchanges, overlapping as they do, and in as many rounds; where the
  last of these leaves `tmpbuf`, `Spill` ends the conversion, as what follows is undefined. What lies behind
  the end of the words, and `read_utf16` may look at, is the constant `Garbage`.
  The parser unescapes nothing but whole tokens: `QuotedAssumption` says what those
  are (`IsToken`).
* `Escapes.tla` - quoted strings as `src/doc/eltn.md` has them, the reference unescaping is compared with:
  a string is quotes about parts, and `IsPart` says of the bytes of a part which bytes they stand for. It asks
  what digits, space and code points denote, and reads them in its own way (`Denoted`, `IsUtf8`), not in that of `estring.c`.
  What a string `means` are the sequences of parts it consists of, and `QuotedAssumption` is that it does (`Reads`).
* `Unicode.tla` - code points and their encodings as the standard has them, the reference
  conversions are compared with: which bytes are the UTF-8 of a code point (`IsUtf8`), read from
  the bytes and not from `write_utf8`, and which are a text in words of two or four bytes (`Encodes`).
  What a conversion `means` are texts, each as code points and as their UTF-8;
  `ConversionAssumption` is that the bytes to convert are in fact these texts, in the byte order of the host.
* `MCText.tla` - strings put together from documented escapes with their values (which TLC holds against `IsPart`),
  every short string of the characters escapes are made of, and code points at
  the edges of the lengths of UTF-8 with their encodings; `TextProofs.tla` - the proofs.

Code points from 2^23 on are one value, `Huge`, as none of them is written.

### Pool and lifecycle

* `Lifecycle.tla` - every constructor, destructor and call that allocates as the
  sequence of what it does with memory, one operation a step: `Alloc` (which
  may be refused and has then another sequence to go on with), `Realloc`, `Free`,
  `Move` of a pointer over another, `Leave` of a local variable that ends, `Follow` of a pointer nobody
  has checked, `Acquire` and `Release`. `blocks` has an entry for every pointer that is set, with the
  allocator it came from; `lost` collects the blocks whose last pointer was
  overwritten or freed, the one an `Alloc` stores its block over included. Blocks have
  no sizes and no contents. The client has one object of each kind and calls
  anything in any order it may: an iterator outlives its set, its own references
  go before or after the objects. `AddKey` follows the array a set may not have, with a copy to look for or
  without, asks for a larger one whenever the set is crowded (`Crowded`: at the fourth key, and if refused at
  the fifth and the sixth), and in a full array leaves the copy of the key behind. There are names for six keys
  (`KeysAssumption`), one more than the first array has places. `Refusals` are the calls
  in which allocations may be refused, one after the other.
* `MCLifecycle.tla` - the refusals for TLC; `LifecycleProofs.tla` - the proofs.

### JSON

* `JsonHeap.tla` - the nodes of `cJSON.c`: following `next`, `prev` and `child`, and what the
  operations do to them (`Added`, `Detached`, `Inserted`, `Replaced`, `Gone`, `CopyOf`, `Same`), as
  functions from heaps to heaps. `ValueOf` is the reference: a tree without pointers.
* `ItemForest.tla` - what a client may rely on: items are in one list each, lists change
  only by the item concerned, and no item comes to be below itself.
* `JsonTree.tla` - the client of `cJSON.c`, an action for every function; it counts the
  copies of strings that are allocated. `MCJsonTree.tla` - four nodes for TLC.
* `JsonText.tla` - text in and out: `parse_buffer` is a record that the functions of
  the parser hand on (a Job), with the nodes and strings made and the allocations
  that are left, and so is `printbuffer`; an operator stands for each function or
  part of one, `Parse`, `PrintTo`, `Minify` and `Delete` are the calls. What documents mean
  is not read from the parser: `MCJsonText.tla` writes trees as tokens, and the tokens as texts.
* `JsonPatch.tla` - `cJSON_Utils.c`: pointers with their escapes, merge sort, compare,
  `create_patches`, `apply_patch` operation by operation, merge patches; and, apart from
  them, what RFC 6902 says of each operation on trees (`Told`) and the two kinds of patches that
  the code is known to answer otherwise (`ToRoot`, `IntoItself`).
  `MCJsonPatch.tla` - the documents.

`JsonHeap`, `JsonTree`, `JsonText` and `JsonPatch` have recursive operators, as the code has recursive
functions; nothing is proved about them.

## Runs

`tlc -config X.cfg M`; json_tree, the longest, takes two to three minutes with two
workers, buffer, lexer and lifecycle a minute and a half each, the others less than one.

| Run | Module, cfg | Shows | Bounds |
|---|---|---|---|
| buffer | MCRingBuffer, RingBuffer.cfg | the reader is called only for an empty, open buffer; the ring implements ByteQueue | 2 byte values, texts up to 2 bytes, block 3 growing and shrinking between 1 and 6 cells: every head, tail and fill level of six sizes of block, wrapped and straight, exactly full less one |
| pipeline | MCPipeline, Pipeline.cfg | tokens are those of the text supplied, whatever the chunks and the fault; no byte is delivered after the end; memory of two blocks; the end comes | all documents of up to 3 of 7 characters and four of 7, so that a long bracket, a comment or a string is cut in every place; chunks of up to 3, block 3, initial ring of 3 cells |
| lexer | MCLexer, Lexer.cfg | the tokens are those of TokenStream, known divergences included, with the line and column of their first characters; lexing ends | all documents of up to 2 of 28 characters; quoted strings with up to 4 more of quotes, backslash, z, line ends; `[`, `--` and `--[` with up to 5 more of brackets, `=`, line ends: a long string of level 1 with its closing bracket needs 5; words and numbers of up to 4 characters of 10; and documents longer than the token buffer of 9, where characters may be dropped |
| lexer_names | MCLexer | violation: see Findings | words of up to 3 |
| parser | MCParser, Parser.cfg | accepts exactly the documents of the grammar (see below); order of events, errors, texts, depth, progress, termination | every sequence of up to 4 tokens of 13 kinds, as all look-ahead of the code is at most 4 tokens (bracket, key, bracket, and a comment or separator); and all documents of up to 8 tokens of 10 kinds with everything one token away from one: nested tables, bracketed keys, two definitions |
| parser_trailing | MCParser | violation: see Findings | up to 4 tokens |
| keyset | MCKeySet, KeySet.cfg | it implements KeyRegistry, with the iterator; no key lost, all reachable | 6 keys, two of them equal, tables of 5 and 11 cells as in the code; collisions in the first, the second and both; a home at the last cell so that probing wraps; a resize that fails leads to a full table |
| text | MCText, Text.cfg | escapes mean what the documentation says; what is written is inside its block, the known spill of the flips apart; conversions keep the text | 3 parts of 15, and 2 parts behind 5 plain characters, so that code points of every length have the room `append_unicode` asks for; 21 numerals for `strtol`, with space, signs, `0x`, NUL, and more digits than 32 and 64 bits hold; texts of 3 to 8 bytes in each byte order, whole words and not; 5 arbitrary characters of 9, so that an escape is cut off after each of its characters; 2 code points at the seven edges of UTF-8; room of 0 to 9 bytes, from none to one more than two code points of four bytes need |
| lifecycle | MCLifecycle, Lifecycle.cfg | the pool outlives and counts its objects; what is lost or goes wrong is known | a client with up to 2 references, sets of up to 6 keys (the fourth resizes; without memory for that, the sixth finds no place); one refused allocation at any place, or the larger array refused three times, or the array of a new set and then the copy of a key |
| json_tree | MCJsonTree, JsonTree.cfg | lists linked, one owner for each string, copies and comparisons right, ItemForest implemented | 4 nodes: a list of three, or an object in a list with two members, or an item with a reference and its copy; names that differ in case only; 2 allocated strings and 1 flag at a time |
| json_text | MCJsonText, JsonText.cfg | texts are parsed to the tree they mean or refused, as documents have it; nothing is lost or touched outside a block; what is printed reads back; minifying keeps the meaning | every text of up to 3 of 12 bytes and of 4 of 6; 118 documents nested up to the limit of 2, one level deeper too, and strings of every escape, each plain and spaced, with comments of both kinds, cut off after every byte, with a token too few or two swapped; 0 to 9 allocations that succeed, more than most of them need; growing blocks from 0, 1, 4 and 6 bytes up to the largest of 40, with realloc and without; blocks of the client's from 0 to 24 bytes |
| json_patch | MCJsonPatch, JsonPatch.cfg | generated patches and merge patches lead from any document to any other; pointers made for an item find it, names with escapes too; a patch applied does what RFC 6902 says of its operation, but for two kinds (Findings); sorting loses no member | every pair of 30 documents with lists of up to 4 and nesting of 2, objects of 4 members in all orders (which merge sort splits twice), names with `/` and `~` only in pairs of a document with itself, so that no patch has an escaped path; patches are applied to a copy made before anything is sorted; one patch of each operation at 10 paths, the root and a place below an item of a list among them, to each document |

`parser` compares what is accepted with `Grammar`: the grammar of `eltn.md` minus the semicolon
after the last definition (Findings) and plus semicolons the parser also skips
before the first definition and in runs between definitions. Before it starts, TLC checks
that each document of the sentences is one of `Grammar`, and that each document of `Grammar`
among the texts is a sentence once comments and those semicolons are left out.

`json_tree` uses the permutations of the nodes as a symmetry: which free node is
allocated is arbitrary, and no property tells nodes apart. It checks no
liveness property.

`EscapesMeanAsDocumented` leaves out the strings in which `\u{...}` stands for more bytes
than were written before it (`HasRoom`; see Findings).

Fairness: only `ParsingEnds`, `LexingEnds` and `PipelineEnds` need any. `FairSpec` of `Parser` has weak fairness of
`HasNext /\ ParserNext`: a client calls `ELTN_Parser_next` again as long as
`ELTN_Parser_has_next` says so, the loop of every example program and test; each call
returns, since the lexer comes to the end of a finite document. That is
`LexingEnds`, under weak fairness of `last.token # "EOF" /\ Next` in `Lexer`: the parser
asks for the next token until there is none, and the source answers each call.
That it does is `PipelineEnds`: `PipelineSpec` has weak fairness of the lexer's steps until the
end, of the first read, and of the reader's: it returns, and not for ever with texts of no
bytes, which would keep `ensure_more_bytes` in its loop (a stuttering step here).

The deadlock check is off in `text`, `lifecycle`, `json_text` and `json_patch`: a conversion, a text that is printed, a program
with a fault, and a client with no edits left really stop. A client of the others
can always call something, and `ELTN_Parser_next` may be called for ever after the end.

## Findings

Each is a run that TLC must fail, and quotes the text it contradicts in
`PROJECT.json`.

* **A semicolon after the last definition is an error** (parser_trailing). The
  grammar, `src/doc/eltn.md:716`, allows it; `a = 1;` ends in
  `ELTN_ERR_UNEXPECTED_TOKEN`.
* **Names become values** (lexer_names): `n`, `t`, `fal` are taken for `nil`, `true`,
  `false`, because `token_buffer_equals` compares no further than the token
  goes (`elexer.c:177`); `src/doc/eltn.md:351` excludes only the words themselves.

These were met while modelling and have no run of their own; the models do what
the code does, and the properties say which cases they leave out:

* **Code points are dropped**: `append_unicode` (`estring.c:80`) gives the number of
  bytes written as the room there is, so that `"\u{e9}"` is an empty string, where
  `src/doc/eltn.md:280` says it is the UTF-8 of the code point. `HasRoom` of `Text` leaves such
  strings out; without it `EscapesMeanAsDocumented` fails.
* **Depth grows without a table** (`eparser.c:420`). When there is no memory for
  the event of `{`, the event is `ELTN_ERROR` but the depth has gone up;
  `src/src/eltn.h:335` says it goes up with every `ELTN_TABLE_START`. An out-of-memory error
  has no line or column either (`eparser.c:267`); `ErrorIsAtItsToken` speaks of the others.
* **0 and -0 are both stored** (`ekeyset.c:153`): they are equal as numbers, so one
  key by `src/doc/eltn.md:574`, but hash differently. `Hashable` of `KeySetProofs` excludes it.
* **A lookup that finds no memory answers "not there"** (`ekeyset.c:178`), and
  `Key_Set_add_key` stores the key again: `LookupMayFail` in `KeySet`, which the run sets to
  FALSE and `ImplementsRegistry` excludes. The other theorems hold with it.
* **An escaped backslash escapes the quote** (`elexer.c:231`): a string that ends in
  two backslashes is not closed by its quote, and a newline behind them does not break it, though
  `src/doc/eltn.md:273` has the pair as an escape. `Escaped` of `TokenStream` says so.
* **`\z` carries a string over one newline, right behind it** (`elexer.c:223`). By `src/doc/eltn.md:252` it
  escapes all the whitespace up to the next printable character, `src/doc/eltn.md:303` says the same, and
  `src/test/string.c:63` unescapes a `\z` with a space and a newline behind it; but in a document, `\z`, a
  space and a newline, or `\z` and two newlines, are an INVALID token that ends there. `Broken` of
  `TokenStream` is what is documented, and `BrokenAnyway` and `CutShort` are what the code does besides.
* **Carriage returns vanish** (`elexer.c:218`, `:308`, `:335`): they are in the text of no token, though by
  `src/doc/eltn.md:220` a long string has every character up to its closing bracket, and they part nothing: `]`, a
  carriage return and `]` close a long string. `Kept` of `TokenStream` drops them in the same places.
* **The value of an escaped newline** is 0x0d in the table of escapes, `src/doc/eltn.md:276`, and a newline, 0x0a, in
  the text below it (`:286`) and in `src/test/string.c:53`. The code writes 0x0a, and so says `IsNewline` of `Escapes`:
  the documentation contradicts itself, and the table is not followed.
* **Numbers in `\u{...}`** are read by `strtol` (`estring.c:78`), which takes space, a sign, or `0x` before the digits,
  and is cast to 32 bits: `\u{ 41}`, `\u{0x41}` and `\u{100000041}` are all `A`. `src/doc/eltn.md:280` lists none of them,
  and `EscapesMeanAsDocumented` says nothing of such strings.
* **Names and keys may come twice**: `src/doc/eltn.md:494` and `:574` forbid it, and the parser, which has a field for the
  keys (`eparser.c:50`) and never uses it, accepts such documents; tokens of `Parser` and `Grammar` do not tell names apart, and
  `AcceptsExactlyDocuments` is about shape.
* **Memory** (`Lifecycle`, where `FaultsAreKnown`, `NothingIsLost` and `ReferencesAreCounted` name
  them): `ELTN_Parser_free` follows the NULL of a part that could not be made (`eparser.c:104`);
  `Key_Set_new` looks at the set where it should look at the array (`ekeyset.c:73`); an
  iterator without memory for its keys keeps its reference (`ekeyset.c:287`); a string is
  lost when realloc fails (`eparser.c:284`); `ELTN_new_string` trusts malloc (`ealloc.c:126`); the
  value of a long string or comment comes from malloc and is freed through the
  parser's pool (`estring.c:202`); the text of the last token is never freed, though
  `eltn.h` says that `ELTN_Parser_free` frees all state.
* **Byte orders** (`convert.c:116`): the flips of swapped words overlap, and do not restore
  the order of the host. When the text ends within a word, the last round exchanges bytes behind `tmpbuf`
  (`convert.c:117`, `:124`), whose last one is its NUL. `StaysInside` names that (`spilled`), and allows it for such texts only.
* **Keys without a place**: `Key_Set_add_key` drops the copy of a key in a full table (`ekeyset.c:217`, `:269`), which
  takes three refused resizes; the third loss `NothingIsLost` names.
* **JSON**: after two objects were compared by a `test` patch, or patches were generated from them,
  the `prev` of their first member is not the last one any more (`cJSON_Utils.c:601`), and a later `add`
  or `copy` to the object reports success and adds nothing; a reference whose name finds
  no memory is lost (`cJSON.c:2094`); `decode_pointer_inplace` (`cJSON_Utils.c:377`) spoils names with
  `/` and `~`; `decode_array_index_from_pointer` tests `pointer[0]` in its loop (`:285`); `detach_path`
  ignores case sensitivity (`:466`); a `copy` or `move` to the root is answered with 9 (`:971`), and a `move` of an
  item of a list into itself, which RFC 6902 forbids, puts it into the next one and reports success, though
  `cJSON_Utils.h:37` has the patches as those of RFC 6902 (`ToRoot` and `IntoItself` of `JsonPatch`); `generate_merge_patch` sorts without regard to case and
  compares with `strcmp` (`:1423`).
* **JSON text**: `\u` with anything but digits behind it is taken for NUL (`cJSON.c:645`), and a string or
  name ends there; leading zeros and control characters in strings are accepted; the byte
  order mark is skipped only if two bytes come behind it (`cJSON.c:1080`); `minify_string` takes the
  quote behind an escaped backslash for an escaped one (`cJSON.c:2853`), so that strings
  behind it lose their space; `cJSON_PrintBuffered` with a size of 0 and without realloc
  copies a byte from an empty block (`cJSON.c:523`). The documents of `MCJsonText` and its blocks have none of these.

## Proofs

TLAPS proves these for every value of the constants: every block size, text,
document, key and hash function. Assumptions are the named `ASSUME`s of the
modules, which TLC evaluates in every run.

**RingBufferProofs.** The type invariant is inductive once stated with what the
copying needs: `RingOK` says not only that head and tail are cells but that every cell
between them holds a byte, so `Resized` and `Stored` copy bytes only. Lemmas give
the contents after each of them (`Content(Stored(r, text)) = Content(r) \o text`
when there is room for one more than the text, and so on), by cases on wrapping
before and after. From them: `TypeCorrect`, `FillsOnlyWhenDry`, and `RefinesQueue`,
that each step of `RingBuffer` is a step of `ByteQueue` on the content. `ReaderNeedsBoundedMemory`
uses that in `ReadSpec` text arrives only in an empty ring, so that a new
block is twice one text.

**LexerProofs.** `TypeCorrect` and `PlacesAreTrue`, by one inductive invariant, which
ties the counted line and column to the character read last (`Source`: `At(doc,
count, line, column)` and `current = doc[count]`), and the start of a token to the
place of its first character. `NextPlace` is the lemma that a newline starts the
next line; `CharacterRead` carries `Source` over `get_next_char`; `GoesOn` and `Returns`
then do most of every action.

**LexerStreamProofs.** `RefinesTokenStream`: whatever is in a document shorter than the
token buffer, the calls of `ELTN_Lexer_next_token` cut it as `TokenStream` says. `CutInv`
ties what the lexer remembers to the part of the document it has read. Between calls the
last token ends where reading will go on (`ReadSoFar`: pushback and the end of the stream
count one too many). In a call there is only space between the last token and the place
where this one starts, the buffer is what is kept of the text from there to the character
before the one at hand (`Begun`), and no part of it that is shorter was complete
(`Incomplete`). Each mode adds its own (`Form`): for the loops in long brackets, that
`level` is the one level at which the text has a bracket open, or -1 when it has none
(`LevelIs`). Lemmas first: how the text grows by a character (`TextGrows`), that a bracket
open in a text stays the only one (`OpenGrows`, `OpenIsOne`), that looking for the closing
bracket in the whole text, as `token_buffer_ends_with_long_bracket` does, finds none inside
the opening one (`ClosesMeans`), and that the forms of tokens exclude each other (`OneForm`). Then every
action either goes on with the token (`GoesOnWith`), returns it before the character at
hand (`CutsBefore`) or with it (`CutsBehind`). The `=` after a `[` needs most: that a long string
which never opens is given up at the character where its shape says so takes both what
the buffer and what the document hold up to there.

**PipelineProofs.** `PipeInv` adds to the types four things. `Flow`: the bytes the
lexer has taken and then those in the ring are the beginning of the file, and no
read byte is missing before the end. `Control`: only an open buffer with an empty ring
waits for the reader, and only for a lexer that has not come to the end. `Ending`: the
buffer is closed once all that the source can supply is in it, and the lexer is told of the end
when it has taken all of that. `MemoryBounded` is inductive with them, as a text is
stored only in an empty ring. The lemmas about `Stored` and `FillsNonEmpty` of
`RingBufferProofs` are used as they are. From it: `InOrderAndWhole` and `MemoryStaysBounded`,
for any alphabet, document, source and place of failure, of documents that are
written in the alphabet (`AlphabetAssumption`).

`TokensAreTheDocuments`, in the same module: the pipeline implements `TokenStream` on
the text the source can supply, when the documents fit the token buffer (`ShortDocs`, as all of
TLC's do). No lexing is proved again. The lexer of the pipeline is `Lexer` on `taken`, which grows
as the buffer answers; `SameCharacter` shows with `PipeInv` that what it reads next is what `Lexer` would read next
with all of the document before it, and that it is told of the end only where that one
would see it. So every step of the pipeline is a step or a stutter of `Lexer` on `Document`
(`WholeStep`), whose invariant and refinement are taken from `LexerStreamProofs` by
INSTANCE. `LexerAssumption` of `Pipeline` restates what `Lexer` assumes, since
an INSTANCE does not.

**ParserProofs.** `TypeCorrect`, `ErrorsHaveCodes`, `TextsAreOfEvents` and
`ErrorsAreAtTheirTokens` are inductive together with the type invariant; the
steps go action by action, and lemmas about `SetEvent` and `SignalError` carry
most of it. `RefinesEventStream` maps `open` to the depth (0 after an error) and
`single` to `no_defs`; it needs that outside an error an event inside a table
has positive depth. `DepthsAreNesting` and `EventsMoveOn` need of a call only which tokens it
goes past (`ReadsUpTo`): every action reads without a gap from `pos` on and a brace only
as its own token, so that the counts of the braces seen change by that one. Their
invariant, `NestInv`, adds that the text of an event that is not the last lies
before what is read next, and that the end of the stream is the end of the document.

`LanguageIsExact`: for every sequence of tokens, of any length and nested to any depth, the parser comes
to the end without an error only if it is a document of `Grammar`, and answers an
error only if it is none, or if memory failed. The grammar refers to itself, so the first part of the proof is that its
functions are what their equations say. `UsesLater` says of a body that it needs its function
only at later places, `Solution` that such an equation is solved; it rests on
`Induction`, down from the end of the document, which the library gives in the form of
minimal elements of a well-founded order (`WFMin`) and so without an operator to
instantiate. `ListsAreSolved` and `DefinitionsAreSolved` then allow a list or the rest of
a document to be unfolded once. `Closable` has the places from which as many tables as are open can be closed and the
document ended, one level after another (`Iteration`). `LanguageInv` is that, unless memory
has failed, the document is one of the language exactly if what is not yet read is what the
state still `Expects`. Lemmas say of each rule of the grammar how it unfolds (`...Unfolds`), of each `expect_`
function what it takes of it (`...Read`), and of each action that it keeps the invariant (`...Turns`).

**TextProofs.** `TextStaysInside`: `ELTN_unescape_quoted_string` reads nothing behind the token
and writes no more than it has read, a conversion writes no more than it has room for, and the flips leave the temporary
block only for texts that end within a word, for every token of `IsToken`, text, order and room. That
`read_utf16` may look behind the end of the words (`convert.c:195`) is in the model and not excluded by it. `Within` adds to `StaysInside` only what the call was given: it is
inductive since a token ends at a quote with no backslash before it, and since that quote is
none of the bytes an escape is made of (`ClosingFacts`), so that each loop, `strtol`'s included, over digits, space or up to a
brace stops at it. Lemmas bound each escape and what `WriteUtf8` writes of it, and a number that `\u{...}` writes in more
than four bytes has at least two digits, which with the backslash, the letter and the braces are read for them.
The folds of the module, over digits (`NumberBounds`) and words (`Flip4IsBuffer`, `Flip2IsBuffer`), are
reasoned about by induction over how far they have come.
`TextIsKept`: for every text in UTF-16 or UTF-32 of the host's byte order, of any code points and any
length, and any room, what has been written is the UTF-8 of its first code points, and when the conversion
returns, of all of them if there was a byte to spare. `KeepInv` adds to `Within` a number of
code points that have been read and written alike: `at` is behind their words, `out` is their UTF-8, and after the return
that is all of them or the whole does not fit (`KeptSoFar`). It says nothing of bytes nobody knows a text for, for which
`ConversionKeepsText` promises nothing either. The lemmas on `Joined` are induction over how many parts of a sequence
have been put together; `WritesUtf8` is that `write_utf8` writes the very bytes `IsUtf8` asks for, of any code point,
or none if they do not fit; `PairIs` that a surrogate pair comes together again; `WordIs` that
the words the code reads are those of the text.
`EscapesMean`: for every string of the parts `src/doc/eltn.md` lists, of any number and in any order, and with
digits, space and code points of any kind, what unescaping returns is what its parts stand for. `MeanInv` adds to
`Within` a number of parts that have been read: `at` is behind their bytes, `out` is what they stand for, and after the
return they are all. So the next part is the one at `at` (`IsAt`, `PartIsAt`). Which escape it is can be told from the byte behind the
backslash (`SecondByte`), which picks one action; each `...Means` lemma is that this action reads just the part
and writes what it stands for. The escapes that may be longer or shorter need what stands behind them: an octal one ends before
something else than a digit, `\z` before something else than space. `DigitsAre` is that the digits in the token are those of the part, and
`NumberIsDenoted` that the fold of `Number`, which stops counting at `Huge`, is what digits denote below it.
That a part has the room it asks for is all that `HasRoom` is needed for, in `EscapedUnicodeMeans`.

**LifecycleProofs.** An invariant of a call that is under way has to speak of the
operations it has left, for any of which memory may be refused: of `todo`. A `View` is
what of a state matters to them: the pointers that are set, the references counted and
due, and the trouble there was, which is whether an unchecked allocation was refused and how often a larger array was. A set of pairs of a sequence of
operations and a view is `Closed` if each view is `Fine` (a part is set only of an object there is, the
pool has not gone while anything is due), if the first operation of each sequence may be
done and every outcome of it leads to a pair of the set again, and if the view of an empty
sequence is at `Rest` (the references are those due, nothing is half done). `InOrder` is part of it: a set that still has
its first array has at most five keys, and each beyond the third one was stored after a larger array had been refused, so that
a copy finds no place only after three refusals. A sequence is `Sound` in a view if a
closed set holds the pair. `LInv` is that `todo` is sound in the view of the state, with `NothingIsLost`,
`FaultsAreKnown` and the owners of the blocks. Rules for `Alloc`, `Realloc`, `Free`, `Move`, `Leave`,
`Follow`, `Acquire` and `Release` go from the last operation of a sequence to the first; with them each constructor,
destructor and token is shown sound wherever the client may call it. Loops over
keys are done one key longer at a time, as there are at most six. From it: `PoolLivesOn`, `PoolCounts`,
`NothingElseIsLost` and `OnlyKnownFaults`, for any number of references of the client's and any
allocations refused, where TLC takes up to two references and the refusals of `MCLifecycle`. `NothingElseIsLost` thus covers
the loss of a key in a full table: it is the third exception, and the proof shows that it needs the three refusals.

**KeySetProofs.** The invariant adds to the types what probing relies on: the
count is the number of occupied cells; a key lies where every cell from its home
to it is occupied; while `resize` runs, the new table has room for all that is
left in the old one. From it `SizeCounts`, `KeysNeverLost`, `KeysAreReachable` and,
when equal keys have equal hashes and a lookup cannot fail, `RefinesRegistry`. 0 and -0
show that the first is needed. Only the proofs cover `LookupMayFail`.

The type invariants are in these theorems and in no run: types that hold without TLC's help leave
its time to the other properties. Only model-checked: `ParsingEnds`, `LexingEnds` and `PipelineEnds` (liveness, fairness and ENABLED are
out of the prover's reach) and everything about JSON (recursive operators, which the prover does not take).

## Not modelled, and plan

1. **Parser on Lexer**: the parser's token sequence and error places over
   `TokenStream`. The parser takes tokens as given: that a token has the kind its text
   deserves is shown of `Lexer` and `Pipeline`.
2. **Proofs**: every safety property the passing runs check is proved but those about JSON,
   which the prover does not take; a composed parser would have its own.

Left out for good: the emitter but for its construction (stubs that return constants), the tables of
names, stdio in `efiles.c`, the example programs, and the TOML parser, third-party
code that one example uses. In `estring.c`, `ELTN_unquote_long_string` and `ELTN_trim_comment` are
marked wrong and only copy. In `convert.c`, `C_Conv_is_ascii` and `C_Conv_byte_order`, which only tests call.
In `Parser`: `current_key` and `include_comments`, which nothing reads. In `JsonPatch`: failing
allocations. In `JsonText`: numbers that are not whole or do not fit an int, the decimal point of a locale,
`cJSON_Raw`, and `cJSON_GetErrorPtr`, which is the end that parsing returns. In `Lifecycle`: the sizes of blocks, but for the places of a set's array. In `JsonTree`: a
reference to a string shares its text, and that the item it was made from may be deleted before it is not represented.
