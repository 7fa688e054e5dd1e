------------------------------- MODULE MCText -------------------------------
(***************************************************************************)
(* Text over every quoted string of up to MaxParts escapes of each kind,   *)
(* with and without Lead plain characters before them, every short string  *)
(* of the characters escapes are made of, and texts of up to MaxPoints     *)
(* code points at the edges of the lengths of UTF-8.                       *)
(***************************************************************************)
EXTENDS Text, TLC

CONSTANTS
  MaxParts,    (* bound: parts of a documented string                       *)
  Lead,        (* bound: plain characters before those that need room       *)
  MaxBroken,   (* bound: characters of any other string                     *)
  MaxPoints,   (* bound: code points of a text to convert                   *)
  MaxOut       (* bound: room for a conversion                              *)

UpTo(n, S) == UNION {[1 .. k -> S] : k \in 0 .. n}
Zeros(n) == [i \in 1 .. n |-> 48]
InQuotes(q, parts) == <<q>> \o FlattenSeq(parts) \o <<q>>

(* Parts of strings, with what src/doc/eltn.md says they mean. *)
Utf8Part == {
  [src |-> <<92, 117, 123, 52, 49, 125>>,                 val |-> <<65>>],
  [src |-> <<92, 117, 123, 56, 48, 125>>,                 val |-> <<194, 128>>],
  [src |-> <<92, 117, 123, 50, 48, 97, 67, 125>>,         val |-> <<226, 130, 172>>],
  [src |-> <<92, 117, 123, 49, 48, 102, 70, 102, 70, 125>>, val |-> <<244, 143, 191, 191>>]}
Part == Utf8Part \cup {
  [src |-> <<110>>,              val |-> <<110>>],
  [src |-> <<92, 110>>,          val |-> <<10>>],
  [src |-> <<92, 97>>,           val |-> <<7>>],
  [src |-> <<92, 92>>,           val |-> <<92>>],
  [src |-> <<92, 39>>,           val |-> <<39>>],
  [src |-> <<92, 10>>,           val |-> <<10>>],
  [src |-> <<92, 13, 10>>,       val |-> <<10>>],
  [src |-> <<92, 122, 32, 10>>,  val |-> <<>>],
  [src |-> <<92, 120, 52, 102>>, val |-> <<79>>],
  [src |-> <<92, 48>>,           val |-> <<0>>],
  [src |-> <<92, 49, 48, 49>>,   val |-> <<65>>]}

DocumentedOf(lists) ==
  {s \in {[src |-> InQuotes(39, Sources(p)), means |-> {p}] : p \in lists} : IsToken(s.src)}

BrokenChar == {Backslash, LetterX, LetterU, LetterZ, OpenBrace, CloseBrace, 32, 39, 52}
Broken     == {s \in {InQuotes(39, <<b>>) : b \in UpTo(MaxBroken, BrokenChar)} : IsToken(s)}
Unknown(S) == {[src |-> s, means |-> {}] : s \in S}
(* More than one byte is written only behind more of them. *)
Letter   == [src |-> <<110>>, val |-> <<110>>]
Led      == {[i \in 1 .. Lead |-> Letter] \o p : p \in UpTo(MaxParts - 1, Part)}

(* What strtol reads besides digits, and numbers of more than 32 bits and  *)
(* of more than 64, plus and minus.                                        *)
Numerals == {<<32, 52, 49>>, <<9, 43, 52, 49>>, <<48, 120, 52, 49>>, <<48, 88>>, <<45>>, <<45, 49>>,
             <<45, 48>>, <<43, 45, 49>>, <<52, 0, 49>>,
             <<49>> \o Zeros(6) \o <<52, 49>>,   <<52, 49>> \o Zeros(8),
             <<55, 102>> \o Zeros(14),           <<56>> \o Zeros(15),
             <<45, 56>> \o Zeros(15),            <<49>> \o Zeros(14) \o <<52, 49>>,
             <<49>> \o Zeros(15) \o <<52, 49>>,  Zeros(16) \o <<52, 49>>,
             <<45, 70, 70, 70, 70, 70, 70, 66, 70>>, <<45, 70, 70, 56, 48, 48, 48, 48, 49>>,
             <<45, 49>> \o Zeros(15) \o <<49>>,   <<102, 102, 102, 102, 102, 102, 102, 102>>}
Numeral  == {InQuotes(34, <<Letter.src>> \o <<<<92, 117, 123>> \o n \o <<125>>>>) : n \in Numerals}

MCQuoted == DocumentedOf(UpTo(MaxParts, Part) \cup Led) \cup
  Unknown(Broken \cup Numeral \cup
          {<<34, 92, 13, 10, 39, 92, 13, 110, 34>>, <<39, 92, 55, 55, 55, 55, 39>>})

-----------------------------------------------------------------------------
(* Code points at the edges of the lengths of UTF-8, with their encodings. *)
Utf8Of ==
  127     :> <<127>>                @@ 128   :> <<194, 128>> @@
  2047    :> <<223, 191>>           @@ 2048  :> <<224, 160, 128>> @@
  65535   :> <<239, 191, 191>>      @@ 65536 :> <<240, 144, 128, 128>> @@
  1114111 :> <<244, 143, 191, 191>>
Point == DOMAIN Utf8Of

BytesOf(points, size) ==
  LET words == FlattenSeq(Units(points, size))
  IN [i \in 1 .. size * Len(words) |->
        (words[1 + (i - 1) \div size] \div 256 ^ ((i - 1) % size)) % 256]

Spelled(points)   == {[points |-> points, utf8 |-> [i \in DOMAIN points |-> Utf8Of[points[i]]]]}
Encodings(points) == {<<"UCS_4", BytesOf(points, 4), Spelled(points)>>,
                      <<"UCS_2", BytesOf(points, 2), Spelled(points)>>}

(* Halves of pairs, the wrong way round and alone; words above all code    *)
(* points; and texts in the other orders, that end within a word too.      *)
Odd == {<<"UCS_2", <<0, 220, 0, 216>>, {}>>, <<"UCS_2", <<0, 216, 65, 0>>, {}>>,
        <<"UCS_2", <<65, 0, 255, 219>>, {}>>, <<"UCS_4", <<65, 0, 0, 0, 0, 0, 32, 0>>, {}>>,
        <<"UCS_4", <<0, 0, 64, 0, 0, 0, 0, 1>>, {}>>}
Other == {<<o, SubSeq(<<0, 0, 0, 65, 0, 1, 32, 172>>, 1, n), {}>> : o \in Orders, n \in 3 .. 8}
MCConversion == {[order |-> e[1], bytes |-> e[2], outsz |-> n, means |-> e[3]] :
                   e \in UNION {Encodings(p) : p \in UpTo(MaxPoints, Point)} \cup Odd \cup Other,
                   n \in 0 .. MaxOut}
MCGarbage == {0, 56320}
=============================================================================
