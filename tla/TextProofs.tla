----------------------------- MODULE TextProofs -----------------------------
(***************************************************************************)
(* Proofs about Text: whatever the token that is unescaped and whatever    *)
(* the text that is converted, nothing is read or written out of bounds;   *)
(* what a conversion writes is the UTF-8 of the text it was given; and a   *)
(* token of documented parts unescapes to what they are documented to mean.*)
(*                                                                         *)
(* The helpers of Text take the least of a set, fold over sequences and    *)
(* join them; the first lemmas are an induction principle over sets of     *)
(* naturals and what it gives for these.                                   *)
(***************************************************************************)
EXTENDS Text, SequenceTheorems, WellFoundedInduction, TLAPS

(* A set with 0 and the successor of each of its numbers has them all.     *)
LEMMA Induction ==
  ASSUME NEW T, 0 \in T, \A n \in Nat : n \in T => n + 1 \in T
  PROVE  Nat \subseteq T
<1> DEFINE R == OpToRel(<, Nat)
           W == Nat \ T
<1>1. IsWellFoundedOn(R, Nat)
  BY NatLessThanWellFounded DEF OpToRel
<1>2. SUFFICES ASSUME W # {} PROVE FALSE
  OBVIOUS
<1>3. W \subseteq Nat
  OBVIOUS
<1> HIDE DEF R, W
<1>4. PICK x \in W : \A y \in W : <<y, x>> \notin R
  BY <1>1, <1>2, <1>3, WFMin
<1> USE DEF W
<1>5. x \in Nat /\ x # 0
  BY <1>4
<1>6. x - 1 \in Nat /\ x - 1 \in W
  BY <1>5, <1>4
<1>7. <<x - 1, x>> \in R
  BY <1>5, <1>6 DEF R, OpToRel
<1>. QED BY <1>4, <1>6, <1>7

(* Min of FiniteSetsExt is the least number of a set.                      *)
LEMMA MinIsLeast ==
  ASSUME NEW S \in SUBSET Nat, S # {}
  PROVE  Min(S) \in S /\ \A y \in S : Min(S) <= y
<1> DEFINE R == OpToRel(<, Nat)
<1>1. IsWellFoundedOn(R, Nat)
  BY NatLessThanWellFounded DEF OpToRel
<1> HIDE DEF R
<1>2. PICK x \in S : \A y \in S : <<y, x>> \notin R
  BY <1>1, WFMin
<1>3. ASSUME NEW y \in S PROVE x <= y
  <2>1. x \in Nat /\ y \in Nat
    OBVIOUS
  <2>2. y < x => <<y, x>> \in R
    BY <2>1 DEF R, OpToRel
  <2>. QED BY <2>1, <2>2, <1>2
<1>. QED BY <1>3 DEF Min

(* Max of FiniteSetsExt is the greatest number of a bounded set.           *)
LEMMA MaxIsGreatest ==
  ASSUME NEW n \in Nat, NEW S \in SUBSET (1 .. n), S # {}
  PROVE  Max(S) \in S /\ \A y \in S : Max(S) >= y
<1> DEFINE D == {d \in 0 .. n : \E x \in S : d = n - x}
<1>1. D \in SUBSET Nat /\ D # {}
  <2>1. PICK x \in S : TRUE
    OBVIOUS
  <2>2. n - x \in D
    BY <2>1
  <2>3. D \subseteq Nat
    OBVIOUS
  <2>. QED BY <2>2, <2>3
<1>2. ASSUME NEW y \in S PROVE n - y \in D
  OBVIOUS
<1> HIDE DEF D
<1>3. Min(D) \in D /\ \A y \in D : Min(D) <= y
  BY <1>1, MinIsLeast
<1>4. PICK x \in S : Min(D) = n - x
  BY <1>3 DEF D
<1>5. ASSUME NEW y \in S PROVE x >= y
  BY <1>2, <1>3, <1>4
<1>. QED BY <1>5 DEF Max

(* What a fold over the places 1 .. n goes through: there is a function of *)
(* the sets of places that starts from base and takes the last place with  *)
(* F, and its values stay in X.                                            *)
FoldsWith(it, n, base, F) ==
  \A s \in SUBSET (1 .. n) :
     it[s] = IF s = {} THEN base ELSE F[<<Max(s), it[s \ {Max(s)}]>>]

LEMMA FoldExists ==
  ASSUME NEW n \in Nat, NEW X, NEW base \in X, NEW F \in [(1 .. n) \X X -> X]
  PROVE  \E it \in [SUBSET (1 .. n) -> X] : FoldsWith(it, n, base, F)
<1> DEFINE Good(k) == \E it \in [SUBSET (1 .. k) -> X] : FoldsWith(it, k, base, F)
           T == {k \in Nat : k <= n => Good(k)}
<1>1. 0 \in T
  <2> DEFINE it == [s \in SUBSET (1 .. 0) |-> base]
  <2>1. \A s \in SUBSET (1 .. 0) : s = {}
    OBVIOUS
  <2>2. FoldsWith(it, 0, base, F)
    BY <2>1 DEF FoldsWith
  <2>. QED BY <2>2
<1>2. ASSUME NEW k \in Nat, k \in T PROVE k + 1 \in T
  <2> HIDE DEF Good
  <2> SUFFICES ASSUME k + 1 <= n PROVE Good(k + 1)
    OBVIOUS
  <2>0. k + 1 \in Nat /\ Good(k)
    BY <1>2
  <2>1. PICK old \in [SUBSET (1 .. k) -> X] : FoldsWith(old, k, base, F)
    BY <2>0 DEF Good
  <2> DEFINE it == [s \in SUBSET (1 .. k + 1) |->
                      IF s = {} THEN base ELSE F[<<Max(s), old[s \ {Max(s)}]>>]]
  <2>2. ASSUME NEW s \in SUBSET (1 .. k + 1), s # {}
        PROVE  Max(s) \in 1 .. k + 1 /\ s \ {Max(s)} \in SUBSET (1 .. k)
    <3>1. Max(s) \in s /\ \A y \in s : Max(s) >= y
      BY <2>0, <2>2, MaxIsGreatest
    <3>2. \A y \in s : y \in 1 .. k + 1 /\ y \in Int
      OBVIOUS
    <3>3. ASSUME NEW y \in s \ {Max(s)} PROVE y \in 1 .. k
      <4>1. y \in 1 .. k + 1 /\ Max(s) \in 1 .. k + 1 /\ y <= Max(s) /\ y # Max(s)
        BY <3>1, <3>2
      <4> HIDE DEF it
      <4>. QED BY <4>1
    <3>. QED BY <3>1, <3>2, <3>3
  <2>3. it \in [SUBSET (1 .. k + 1) -> X]
    <3>1. ASSUME NEW s \in SUBSET (1 .. k + 1), s # {}
          PROVE  F[<<Max(s), old[s \ {Max(s)}]>>] \in X
      <4>1. Max(s) \in 1 .. n /\ old[s \ {Max(s)}] \in X
        BY <2>2, <3>1
      <4>. QED BY <4>1
    <3>. QED BY <3>1
  <2>4. ASSUME NEW s \in SUBSET (1 .. k) PROVE it[s] = old[s]
    <3>1. s \in SUBSET (1 .. k + 1)
      OBVIOUS
    <3>. QED BY <3>1, <2>1 DEF FoldsWith
  <2>5. FoldsWith(it, k + 1, base, F)
    <3> SUFFICES ASSUME NEW s \in SUBSET (1 .. k + 1)
                 PROVE  it[s] = IF s = {} THEN base ELSE F[<<Max(s), it[s \ {Max(s)}]>>]
      BY DEF FoldsWith
    <3>1. s # {} => it[s \ {Max(s)}] = old[s \ {Max(s)}]
      BY <2>2, <2>4
    <3>. QED BY <3>1
  <2>. QED BY <2>3, <2>5 DEF Good
<1>3. Nat \subseteq T
  <2> HIDE DEF T
  <2>. QED BY <1>1, <1>2, Induction
<1>4. Good(n)
  <2> HIDE DEF Good
  <2>. QED BY <1>3
<1>. QED BY <1>4

(* A function that is base on no places, and stays in X with each place it *)
(* takes, is in X on every set of places.                                  *)
LEMMA FoldStays ==
  ASSUME NEW n \in Nat, NEW X, NEW it, it[{}] \in X,
         \A s \in SUBSET (1 .. n) : s # {} /\ it[s \ {Max(s)}] \in X => it[s] \in X
  PROVE  \A s \in SUBSET (1 .. n) : it[s] \in X
<1> DEFINE T == {k \in Nat : k <= n => \A s \in SUBSET (1 .. k) : it[s] \in X}
<1>1. 0 \in T
  <2>1. \A s \in SUBSET (1 .. 0) : s = {}
    OBVIOUS
  <2>. QED BY <2>1
<1>2. ASSUME NEW k \in Nat, k \in T PROVE k + 1 \in T
  <2>0. k + 1 \in Nat
    OBVIOUS
  <2> SUFFICES ASSUME k + 1 <= n, NEW s \in SUBSET (1 .. k + 1) PROVE it[s] \in X
    BY <2>0
  <2>1. CASE s = {}
    BY <2>1
  <2>2. CASE s # {}
    <3>1. Max(s) \in s /\ \A y \in s : Max(s) >= y
      BY <2>0, <2>2, MaxIsGreatest
    <3>2. \A y \in s : y \in 1 .. k + 1 /\ y \in Int
      OBVIOUS
    <3>3. s \ {Max(s)} \in SUBSET (1 .. k) /\ s \in SUBSET (1 .. n)
      <4>1. ASSUME NEW y \in s \ {Max(s)} PROVE y \in 1 .. k
        <5>1. y \in 1 .. k + 1 /\ Max(s) \in 1 .. k + 1 /\ y <= Max(s) /\ y # Max(s)
          BY <3>1, <3>2
        <5>. QED BY <5>1
      <4>2. 1 .. k + 1 \subseteq 1 .. n
        OBVIOUS
      <4>3. s \ {Max(s)} \in SUBSET (1 .. k)
        BY <4>1
      <4>. QED BY <4>2, <4>3
    <3>4. it[s \ {Max(s)}] \in X
      BY <3>3, <1>2
    <3>. QED BY <3>3, <3>4, <2>2
  <2>. QED BY <2>1, <2>2
<1>3. Nat \subseteq T
  <2> HIDE DEF T
  <2>. QED BY <1>1, <1>2, Induction
<1>. QED BY <1>3

-----------------------------------------------------------------------------
(* Numbers of digits.                                                      *)

LEMMA DigitType ==
  \A c \in Hex : DigitOf(c) \in 0 .. 15
BY DEF Hex, DigitOf

LEMMA LesserOfTwo ==
  ASSUME NEW a \in Nat, NEW b \in Nat
  PROVE  Min({a, b}) = IF a <= b THEN a ELSE b
<1>1. Min({a, b}) \in {a, b} /\ \A y \in {a, b} : Min({a, b}) <= y
  BY MinIsLeast
<1>. QED BY <1>1

(* Number is what a function of the sets of its places has for all of them.*)
LEMMA NumberFolds ==
  ASSUME NEW digits \in Seq(Hex), NEW base \in 1 .. 16
  PROVE  \E it :
           /\ it \in [SUBSET (1 .. Len(digits)) -> 0 .. Huge]
           /\ it[{}] = 0
           /\ \A s \in SUBSET (1 .. Len(digits)) :
                 s # {} => it[s] = Min({Huge, it[s \ {Max(s)}] * base + DigitOf(digits[Max(s)])})
           /\ Number(digits, base) = it[1 .. Len(digits)]
<1> DEFINE n == Len(digits)
           Take(v, k) == Min({Huge, v * base + DigitOf(digits[k])})
           F == [p \in (1 .. n) \X (0 .. Huge) |-> Take(p[2], p[1])]
           Eq(it) == it = [s \in SUBSET (1 .. n) |->
                             IF s = {} THEN 0 ELSE Take(it[s \ {Max(s)}], Max(s))]
<1>1. n \in Nat /\ DOMAIN digits = 1 .. n /\ \A k \in 1 .. n : digits[k] \in Hex
  BY LenProperties, ElementOfSeq
<1>2. Huge \in Nat
  BY DEF Huge
<1>3. ASSUME NEW v \in 0 .. Huge, NEW k \in 1 .. n
      PROVE  Take(v, k) \in 0 .. Huge
  <2>1. DigitOf(digits[k]) \in Nat
    BY <1>1, DigitType
  <2>2. v * base + DigitOf(digits[k]) \in Nat
    BY <2>1, <1>2
  <2>. QED BY <2>2, <1>2, LesserOfTwo
<1>4. F \in [(1 .. n) \X (0 .. Huge) -> 0 .. Huge]
  BY <1>3
<1>5. PICK it \in [SUBSET (1 .. n) -> 0 .. Huge] : FoldsWith(it, n, 0, F)
  <2>1. 0 \in 0 .. Huge
    BY <1>2
  <2> HIDE DEF F, n
  <2>. QED BY <1>1, <2>1, <1>4, FoldExists
<1>6. ASSUME NEW s \in SUBSET (1 .. n), s # {}
      PROVE  Max(s) \in 1 .. n /\ s \ {Max(s)} \in SUBSET (1 .. n)
  BY <1>1, <1>6, MaxIsGreatest
<1>7. Eq(it)
  <2> SUFFICES ASSUME NEW s \in SUBSET (1 .. n)
               PROVE  it[s] = IF s = {} THEN 0 ELSE Take(it[s \ {Max(s)}], Max(s))
    OBVIOUS
  <2>1. s # {} => it[s] = F[<<Max(s), it[s \ {Max(s)}]>>]
    BY <1>5 DEF FoldsWith
  <2>2. s # {} => F[<<Max(s), it[s \ {Max(s)}]>>] = Take(it[s \ {Max(s)}], Max(s))
    <3> HIDE DEF Take
    <3>. QED BY <1>6, <1>5
  <2>3. s = {} => it[s] = 0
    BY <1>5 DEF FoldsWith
  <2>. QED BY <2>1, <2>2, <2>3
<1> DEFINE g == CHOOSE f : Eq(f)
<1>8. Eq(g)
  BY <1>7
<1>9. Number(digits, base) = g[1 .. n]
  BY <1>1 DEF Number, FoldLeft, MapThenFoldSet
<1> HIDE DEF g
<1>10. g[{}] = 0 /\ \A s \in SUBSET (1 .. n) : s # {} => g[s] = Take(g[s \ {Max(s)}], Max(s))
  BY <1>8
<1>11. \A s \in SUBSET (1 .. n) : g[s] \in 0 .. Huge
  <2>1. ASSUME NEW s \in SUBSET (1 .. n), s # {}, g[s \ {Max(s)}] \in 0 .. Huge
        PROVE  g[s] \in 0 .. Huge
    <3>1. Take(g[s \ {Max(s)}], Max(s)) \in 0 .. Huge
      BY <1>3, <1>6, <2>1
    <3> HIDE DEF Take
    <3>. QED BY <1>10, <2>1, <3>1
  <2>2. g[{}] \in 0 .. Huge
    BY <1>10, <1>2
  <2> HIDE DEF Take, n
  <2>. QED BY <2>1, <2>2, <1>1, FoldStays
<1>12. g \in [SUBSET (1 .. n) -> 0 .. Huge]
  <2>1. g = [s \in SUBSET (1 .. n) |-> g[s]]
    BY <1>8
  <2>. QED BY <2>1, <1>11
<1>. QED BY <1>9, <1>10, <1>12

LEMMA NumberBounds ==
  ASSUME NEW digits \in Seq(Hex), NEW base \in 1 .. 16
  PROVE  /\ Number(digits, base) \in Nat
         /\ Len(digits) < 2 => Number(digits, base) < 16
         /\ Len(digits) = 2 => Number(digits, base) < 256
<1> DEFINE n == Len(digits)
<1>1. n \in Nat /\ \A k \in 1 .. n : digits[k] \in Hex
  BY LenProperties, ElementOfSeq
<1>2. PICK it :
         /\ it \in [SUBSET (1 .. n) -> 0 .. Huge]
         /\ it[{}] = 0
         /\ \A s \in SUBSET (1 .. n) :
               s # {} => it[s] = Min({Huge, it[s \ {Max(s)}] * base + DigitOf(digits[Max(s)])})
         /\ Number(digits, base) = it[1 .. n]
  BY NumberFolds
<1> HIDE DEF n
<1>3. Huge \in Nat /\ Huge > 255
  BY SMT DEF Huge
<1>4. Number(digits, base) \in Nat
  BY <1>1, <1>2, <1>3
<1>5. ASSUME n \in {1, 2} PROVE it[{1}] < 16
  <2>1. {1} \in SUBSET (1 .. n) /\ {1} # {} /\ 1 \in 1 .. n
    BY <1>5
  <2>2. Max({1}) = 1
    BY MaxIsGreatest, <2>1, <1>1
  <2>3. {1} \ {Max({1})} = {}
    BY <2>2
  <2>4. it[{1}] = Min({Huge, it[{}] * base + DigitOf(digits[1])})
    BY <1>2, <2>1, <2>2, <2>3
  <2>5. DigitOf(digits[1]) \in 0 .. 15
    BY <2>1, <1>1, DigitType
  <2>6. 0 * base + DigitOf(digits[1]) = DigitOf(digits[1])
    BY <2>5
  <2>7. it[{1}] = Min({Huge, DigitOf(digits[1])})
    BY <2>4, <2>6, <1>2
  <2>. QED BY <2>5, <2>7, <1>3, LesserOfTwo
<1>6. n < 2 => Number(digits, base) < 16
  <2>1. CASE n = 0
    BY <2>1, <1>2
  <2>2. CASE n = 1
    <3>1. 1 .. n = {1}
      BY <2>2
    <3>. QED BY <2>2, <3>1, <1>2, <1>5
  <2>. QED BY <1>1, <2>1, <2>2
<1>7. ASSUME n = 2 PROVE Number(digits, base) < 256
  <2>1. 1 .. n = {1, 2} /\ 2 \in 1 .. n
    BY <1>7
  <2>2. Max({1, 2}) = 2
    <3>1. Max({1, 2}) \in {1, 2} /\ \A y \in {1, 2} : Max({1, 2}) >= y
      BY <2>1, <1>1, MaxIsGreatest
    <3>. QED BY <3>1
  <2>3. {1, 2} \ {Max({1, 2})} = {1}
    BY <2>2
  <2>4. it[{1, 2}] = Min({Huge, it[{1}] * base + DigitOf(digits[2])})
    BY <1>2, <2>1, <2>2, <2>3
  <2>5. DigitOf(digits[2]) \in 0 .. 15
    BY <2>1, <1>1, DigitType
  <2>6. it[{1}] \in 0 .. 15
    <3>1. {1} \in SUBSET (1 .. n)
      BY <2>1
    <3>2. it[{1}] \in 0 .. Huge
      BY <3>1, <1>2
    <3>3. n \in {1, 2}
      BY <1>7
    <3>4. it[{1}] < 16
      BY <3>3, <1>5
    <3>5. \A h \in Nat : \A x \in 0 .. h : x < 16 => x \in 0 .. 15
      OBVIOUS
    <3>. QED BY <3>2, <3>4, <3>5, <1>3
  <2>7. it[{1}] * base \in 0 .. 240
    <3>1. \A v \in 0 .. 15 : v * base \in 0 .. 240
      <4>1. \A v \in 0 .. 15, b \in 1 .. 16 : v * b <= 15 * b /\ v * b >= 0 /\ v * b \in Int
        BY SMT
      <4>. QED BY <4>1
    <3>. QED BY <3>1, <2>6
  <2> DEFINE v == it[{1}] * base
             d == DigitOf(digits[2])
  <2>8. it[{1, 2}] = Min({Huge, v + d}) /\ v \in 0 .. 240 /\ d \in 0 .. 15
    BY <2>4, <2>5, <2>7
  <2> HIDE DEF v, d
  <2>9. \A a \in 0 .. 240, b \in 0 .. 15 : a + b \in Nat /\ a + b < 256
    OBVIOUS
  <2>10. it[{1, 2}] < 256
    <3>1. v + d \in Nat /\ v + d < 256
      BY <2>8, <2>9
    <3>. QED BY <2>8, <3>1, <1>3, LesserOfTwo
  <2>. QED BY <2>1, <2>10, <1>2
<1>. QED BY <1>4, <1>6, <1>7 DEF n

-----------------------------------------------------------------------------
(* UTF-8.                                                                  *)

LEMMA TrailingIsByte ==
  ASSUME NEW cp \in Nat, NEW place \in Nat \ {0}
  PROVE  Trailing(cp, place) \in Byte
<1>1. cp \div place \in Int
  OBVIOUS
<1>2. (cp \div place) % 64 \in 0 .. 63
  BY <1>1
<1>. QED BY <1>2 DEF Trailing, Byte

(* What write_utf8 writes are bytes; more than one only if there is room   *)
(* for them, and five and six only for numbers that no text needs.         *)
LEMMA Utf8Bytes ==
  ASSUME NEW cp \in Nat, NEW outsz \in Nat, NEW j \in Nat
  PROVE  LET bytes == WriteUtf8(cp, outsz, j)
         IN  /\ bytes \in Seq(Byte)
             /\ Len(bytes) \in 0 .. 6
             /\ Len(bytes) > 1 => j + Len(bytes) < outsz
             /\ Len(bytes) > 4 => cp > 255
<1> DEFINE bytes == WriteUtf8(cp, outsz, j)
           T0 == Trailing(cp, 1)
           T1 == Trailing(cp, 64)
           T2 == Trailing(cp, 4096)
           T3 == Trailing(cp, 262144)
           P1 == cp <= 127
           P2 == 128 <= cp /\ cp <= 2047 /\ j + 2 < outsz
           P3 == 2048 <= cp /\ cp <= 65535 /\ j + 3 < outsz
           P4 == 65536 <= cp /\ cp <= 2097151 /\ j + 4 < outsz
           P5 == 2097152 <= cp /\ cp <= 4194303 /\ j + 5 < outsz
           P6 == 4194304 <= cp /\ cp <= Huge - 1 /\ j + 6 < outsz
           L2 == 192 + cp \div 64
           L3 == 224 + cp \div 4096
           L4 == 240 + cp \div 262144
<1>1. T0 \in Byte /\ T1 \in Byte /\ T2 \in Byte /\ T3 \in Byte
  BY TrailingIsByte, SMT
<1>2. P1 => cp \in Byte
  BY SMT DEF Byte
<1>3. P2 => ~P1 /\ L2 \in Byte /\ j + 2 < outsz
  BY SMT DEF Byte
<1>4. P3 => ~P1 /\ ~P2 /\ L3 \in Byte /\ j + 3 < outsz
  BY SMT DEF Byte
<1>5. P4 => ~P1 /\ ~P2 /\ ~P3 /\ L4 \in Byte /\ j + 4 < outsz
  <2>1. P4 => cp \div 262144 \in 0 .. 7
    BY SMT
  <2>2. P4 => ~P1 /\ ~P2 /\ ~P3 /\ j + 4 < outsz
    BY SMT
  <2> HIDE DEF P1, P2, P3, P4
  <2>. QED BY <2>1, <2>2, SMT DEF Byte
<1>6. P5 => ~P1 /\ ~P2 /\ ~P3 /\ ~P4 /\ cp > 255 /\ j + 5 < outsz
  BY SMT
<1>7. P6 => ~P1 /\ ~P2 /\ ~P3 /\ ~P4 /\ ~P5 /\ cp > 255 /\ j + 6 < outsz
  BY SMT DEF Huge
<1>8. bytes = CASE P1 -> <<cp>>
                [] P2 -> <<L2, T0>>
                [] P3 -> <<L3, T1, T0>>
                [] P4 -> <<L4, T2, T1, T0>>
                [] P5 -> <<248, T3, T2, T1, T0>>
                [] P6 -> <<252, T3, T2, T1, T1, T0>>
                [] OTHER -> <<>>
  BY DEF WriteUtf8
<1>9. 248 \in Byte /\ 252 \in Byte
  BY DEF Byte
<1> HIDE DEF bytes, T0, T1, T2, T3, P1, P2, P3, P4, P5, P6, L2, L3, L4
<1>10. CASE P1
  <2>1. bytes = <<cp>>
    BY <1>10, <1>3, <1>4, <1>5, <1>6, <1>7, <1>8
  <2>. QED BY <2>1, <1>2, <1>10 DEF bytes
<1>11. CASE P2
  <2>1. bytes = <<L2, T0>>
    BY <1>11, <1>3, <1>4, <1>5, <1>6, <1>7, <1>8
  <2>. QED BY <2>1, <1>1, <1>3, <1>11 DEF bytes
<1>12. CASE P3
  <2>1. bytes = <<L3, T1, T0>>
    BY <1>12, <1>4, <1>5, <1>6, <1>7, <1>8
  <2>. QED BY <2>1, <1>1, <1>4, <1>12 DEF bytes
<1>13. CASE P4
  <2>1. bytes = <<L4, T2, T1, T0>>
    BY <1>13, <1>5, <1>6, <1>7, <1>8
  <2>. QED BY <2>1, <1>1, <1>5, <1>13 DEF bytes
<1>14. CASE P5
  <2>1. bytes = <<248, T3, T2, T1, T0>>
    BY <1>14, <1>6, <1>7, <1>8
  <2>. QED BY <2>1, <1>1, <1>6, <1>9, <1>14 DEF bytes
<1>15. CASE P6
  <2>1. bytes = <<252, T3, T2, T1, T1, T0>>
    BY <1>15, <1>7, <1>8
  <2>. QED BY <2>1, <1>1, <1>7, <1>9, <1>15 DEF bytes
<1>16. CASE ~P1 /\ ~P2 /\ ~P3 /\ ~P4 /\ ~P5 /\ ~P6
  <2>1. bytes = <<>>
    BY <1>16, <1>8
  <2>. QED BY <2>1 DEF bytes
<1>. QED BY <1>10, <1>11, <1>12, <1>13, <1>14, <1>15, <1>16
-----------------------------------------------------------------------------
(* Swapping the bytes of words.                                            *)

Buffers(size) == [1 .. size -> Byte]

LEMMA SwappedIsBuffer ==
  ASSUME NEW size \in Nat, NEW s \in Buffers(size), NEW i \in 1 .. size, NEW j \in 1 .. size
  PROVE  Swapped(s, i, j) \in Buffers(size)
BY DEF Buffers, Swapped

LEMMA RoundsAreEnough ==
  ASSUME NEW size \in Nat \ {0}
  PROVE  Rounds(size - 1, 4) \in Nat /\ Rounds(size - 1, 2) \in Nat
BY SMT DEF Rounds

(* Both flips keep a buffer one, and its size, if they stay inside it.     *)
LEMMA Flip4IsBuffer ==
  ASSUME NEW size \in Nat \ {0}, NEW buf \in Seq(Byte), Len(buf) = size,
         4 * Rounds(size - 1, 4) <= size - 1
  PROVE  Flip4(buf) \in Buffers(size)
<1> DEFINE n == Rounds(size - 1, 4)
           Turn(s, w) == Swapped(Swapped(s, 4 * w - 2, 4 * w + 1), 4 * w - 1, 4 * w)
           F == [p \in (1 .. n) \X Buffers(size) |-> Turn(p[2], p[1])]
           words == [w \in 1 .. n |-> w]
           Eq(it) == it = [s \in SUBSET (1 .. n) |->
                             IF s = {} THEN buf ELSE Turn(it[s \ {Max(s)}], words[Max(s)])]
<1>1. n \in Nat /\ 4 * n <= size - 1
  BY RoundsAreEnough
<1>2. buf \in Buffers(size)
  BY LenProperties DEF Buffers
<1>3. ASSUME NEW s \in Buffers(size), NEW w \in 1 .. n
      PROVE  Turn(s, w) \in Buffers(size)
  <2>1. /\ 4 * w - 2 \in 1 .. size /\ 4 * w + 1 \in 1 .. size
        /\ 4 * w - 1 \in 1 .. size /\ 4 * w \in 1 .. size
    <3> HIDE DEF n
    <3>. QED BY <1>1, SMT
  <2>2. Swapped(s, 4 * w - 2, 4 * w + 1) \in Buffers(size)
    BY <2>1, SwappedIsBuffer
  <2>. QED BY <2>1, <2>2, SwappedIsBuffer
<1>4. F \in [(1 .. n) \X Buffers(size) -> Buffers(size)]
  <2> HIDE DEF Turn
  <2>. QED BY <1>3
<1>5. PICK it \in [SUBSET (1 .. n) -> Buffers(size)] : FoldsWith(it, n, buf, F)
  <2> HIDE DEF F, n
  <2>. QED BY <1>1, <1>2, <1>4, FoldExists
<1> HIDE DEF n, Turn
<1>6. ASSUME NEW s \in SUBSET (1 .. n), s # {}
      PROVE  Max(s) \in 1 .. n /\ s \ {Max(s)} \in SUBSET (1 .. n) /\ words[Max(s)] = Max(s)
  BY <1>1, <1>6, MaxIsGreatest
<1>7. Eq(it)
  <2> SUFFICES ASSUME NEW s \in SUBSET (1 .. n)
               PROVE  it[s] = IF s = {} THEN buf ELSE Turn(it[s \ {Max(s)}], words[Max(s)])
    OBVIOUS
  <2>1. s # {} => it[s] = F[<<Max(s), it[s \ {Max(s)}]>>]
    BY <1>5 DEF FoldsWith
  <2>2. s # {} => F[<<Max(s), it[s \ {Max(s)}]>>] = Turn(it[s \ {Max(s)}], words[Max(s)])
    BY <1>6, <1>5
  <2>3. s = {} => it[s] = buf
    BY <1>5 DEF FoldsWith
  <2>. QED BY <2>1, <2>2, <2>3
<1> DEFINE g == CHOOSE f : Eq(f)
<1>8. Eq(g)
  BY <1>7
<1>9. Flip4(buf) = g[1 .. n]
  BY DEF Flip4, FoldLeft, MapThenFoldSet, n, Turn
<1> HIDE DEF g
<1>10. g[{}] = buf /\ \A s \in SUBSET (1 .. n) : s # {} => g[s] = Turn(g[s \ {Max(s)}], words[Max(s)])
  BY <1>8
<1>11. ASSUME NEW s \in SUBSET (1 .. n), s # {}, g[s \ {Max(s)}] \in Buffers(size)
       PROVE  g[s] \in Buffers(size)
  <2>1. Turn(g[s \ {Max(s)}], Max(s)) \in Buffers(size)
    BY <1>3, <1>6, <1>11
  <2>. QED BY <2>1, <1>6, <1>10, <1>11
<1>12. \A s \in SUBSET (1 .. n) : g[s] \in Buffers(size)
  <2> HIDE DEF words
  <2>. QED BY <1>1, <1>2, <1>10, <1>11, FoldStays
<1>. QED BY <1>9, <1>12

LEMMA Flip2IsBuffer ==
  ASSUME NEW size \in Nat \ {0}, NEW buf \in Seq(Byte), Len(buf) = size,
         2 * Rounds(size - 1, 2) <= size - 1
  PROVE  Flip2(buf) \in Buffers(size)
<1> DEFINE n == Rounds(size - 1, 2)
           Turn(s, w) == Swapped(s, 2 * w, 2 * w + 1)
           F == [p \in (1 .. n) \X Buffers(size) |-> Turn(p[2], p[1])]
           words == [w \in 1 .. n |-> w]
           Eq(it) == it = [s \in SUBSET (1 .. n) |->
                             IF s = {} THEN buf ELSE Turn(it[s \ {Max(s)}], words[Max(s)])]
<1>1. n \in Nat /\ 2 * n <= size - 1
  BY RoundsAreEnough
<1>2. buf \in Buffers(size)
  BY LenProperties DEF Buffers
<1>3. ASSUME NEW s \in Buffers(size), NEW w \in 1 .. n
      PROVE  Turn(s, w) \in Buffers(size)
  <2>1. 2 * w \in 1 .. size /\ 2 * w + 1 \in 1 .. size
    <3> HIDE DEF n
    <3>. QED BY <1>1, SMT
  <2>. QED BY <2>1, SwappedIsBuffer
<1>4. F \in [(1 .. n) \X Buffers(size) -> Buffers(size)]
  <2> HIDE DEF Turn
  <2>. QED BY <1>3
<1>5. PICK it \in [SUBSET (1 .. n) -> Buffers(size)] : FoldsWith(it, n, buf, F)
  <2> HIDE DEF F, n
  <2>. QED BY <1>1, <1>2, <1>4, FoldExists
<1> HIDE DEF n, Turn
<1>6. ASSUME NEW s \in SUBSET (1 .. n), s # {}
      PROVE  Max(s) \in 1 .. n /\ s \ {Max(s)} \in SUBSET (1 .. n) /\ words[Max(s)] = Max(s)
  BY <1>1, <1>6, MaxIsGreatest
<1>7. Eq(it)
  <2> SUFFICES ASSUME NEW s \in SUBSET (1 .. n)
               PROVE  it[s] = IF s = {} THEN buf ELSE Turn(it[s \ {Max(s)}], words[Max(s)])
    OBVIOUS
  <2>1. s # {} => it[s] = F[<<Max(s), it[s \ {Max(s)}]>>]
    BY <1>5 DEF FoldsWith
  <2>2. s # {} => F[<<Max(s), it[s \ {Max(s)}]>>] = Turn(it[s \ {Max(s)}], words[Max(s)])
    BY <1>6, <1>5
  <2>3. s = {} => it[s] = buf
    BY <1>5 DEF FoldsWith
  <2>. QED BY <2>1, <2>2, <2>3
<1> DEFINE g == CHOOSE f : Eq(f)
<1>8. Eq(g)
  BY <1>7
<1>9. Flip2(buf) = g[1 .. n]
  BY DEF Flip2, FoldLeft, MapThenFoldSet, n, Turn
<1> HIDE DEF g
<1>10. g[{}] = buf /\ \A s \in SUBSET (1 .. n) : s # {} => g[s] = Turn(g[s \ {Max(s)}], words[Max(s)])
  BY <1>8
<1>11. ASSUME NEW s \in SUBSET (1 .. n), s # {}, g[s \ {Max(s)}] \in Buffers(size)
       PROVE  g[s] \in Buffers(size)
  <2>1. Turn(g[s \ {Max(s)}], Max(s)) \in Buffers(size)
    BY <1>3, <1>6, <1>11
  <2>. QED BY <2>1, <1>6, <1>10, <1>11
<1>12. \A s \in SUBSET (1 .. n) : g[s] \in Buffers(size)
  <2> HIDE DEF words
  <2>. QED BY <1>1, <1>2, <1>10, <1>11, FoldStays
<1>. QED BY <1>9, <1>12
-----------------------------------------------------------------------------
(* The inductive invariant: what the routine was called with, and a place  *)
(* that is inside the token.                                               *)
Within ==
  /\ call = "unescape" => arg \in Quoted /\ at \in 1 .. Len(arg.src)
  /\ call = "convert" => arg \in Conversion /\ at \in Nat \ {0}
  /\ StaysInside

LEMMA TokenFacts ==
  ASSUME Within, call = "unescape"
  PROVE  /\ arg.src \in Seq(Byte) /\ Len(arg.src) \in Nat /\ Len(arg.src) > 1
         /\ DOMAIN arg.src = 1 .. Len(arg.src)
         /\ at \in 1 .. Len(arg.src)
         /\ out \in Seq(Byte) /\ Len(out) \in Nat /\ Len(out) < at
         /\ arg.src[1] \in QuoteMark /\ arg.src[Len(arg.src)] = arg.src[1]
         /\ arg.src[Len(arg.src) - 1] # Backslash
         /\ \A k \in 1 .. Len(arg.src) : Char(k) = arg.src[k] /\ Char(k) \in Byte
<1>1. IsToken(arg.src) /\ at \in 1 .. Len(arg.src) /\ out \in Seq(Byte) /\ Len(out) < at
  BY QuotedAssumption DEF Within, StaysInside
<1>2. DOMAIN arg.src = 1 .. Len(arg.src) /\ Len(arg.src) \in Nat /\ Len(out) \in Nat
  BY <1>1, LenProperties DEF IsToken
<1>3. \A k \in 1 .. Len(arg.src) : arg.src[k] \in Byte
  BY <1>1, ElementOfSeq DEF IsToken
<1>. QED BY <1>1, <1>2, <1>3 DEF IsToken, Char

(* The byte that closes a token is none an escape is made of.              *)
LEMMA ClosingFacts ==
  ASSUME Within, call = "unescape"
  PROVE  LET last == Char(Len(arg.src))
         IN  /\ last \in QuoteMark /\ last # Backslash /\ last # LineFeed /\ last # Return
             /\ last # OpenBrace /\ last # CloseBrace /\ last # LetterU
             /\ last \notin Octal /\ last \notin Hex /\ last \notin Space
<1>1. Char(Len(arg.src)) \in QuoteMark
  BY TokenFacts
<1>2. Char(Len(arg.src)) = 34 \/ Char(Len(arg.src)) = 39
  BY <1>1 DEF QuoteMark
<1> DEFINE last == Char(Len(arg.src))
<1>3. last \in {34, 39}
  BY <1>2
<1> HIDE DEF last
<1>4. /\ last # Backslash /\ last # LineFeed /\ last # Return /\ last # OpenBrace
      /\ last # CloseBrace /\ last # LetterU /\ last \notin Octal
  BY <1>3 DEF Backslash, LineFeed, Return, OpenBrace, CloseBrace, LetterU, Octal
<1>5. last \notin Hex
  BY <1>3, SMT DEF Hex
<1>6. last \notin Space
  BY <1>3 DEF Space
<1>. QED BY <1>1, <1>4, <1>5, <1>6 DEF last

LEMMA BehindFacts ==
  ASSUME NEW k \in Nat, NEW set, NEW most \in Nat
  PROVE  LET end == Behind(k, set, most)
         IN  /\ end \in k .. k + most
             /\ end # k + most => Char(end) \notin set
             /\ \A i \in k .. end - 1 : Char(i) \in set
<1> DEFINE ends == {i \in k .. k + most : i = k + most \/ Char(i) \notin set}
<1>1. ends \in SUBSET Nat /\ k + most \in ends
  OBVIOUS
<1>2. Behind(k, set, most) = Min(ends)
  BY DEF Behind
<1>3. Min(ends) \in ends /\ \A i \in ends : Min(ends) <= i
  <2> HIDE DEF ends
  <2>. QED BY <1>1, MinIsLeast
<1> DEFINE end == Behind(k, set, most)
<1> HIDE DEF end
<1>4. end \in k .. k + most /\ (end # k + most => Char(end) \notin set)
  BY <1>2, <1>3 DEF end
<1>5. ASSUME NEW i \in k .. end - 1 PROVE Char(i) \in set
  <2>1. i \in k .. k + most /\ i # k + most /\ ~(end <= i)
    BY <1>4
  <2>2. i \notin ends
    BY <1>2, <1>3, <2>1 DEF end
  <2>. QED BY <2>1, <2>2
<1>. QED BY <1>4, <1>5 DEF end

LEMMA SpilledStays ==
  ASSUME Within, arg' = arg, done' = done
  PROVE  done' = "spilled" => Len(arg'.bytes) % WordSize' # 0
<1>1. WordSize' = WordSize
  BY DEF WordSize
<1>. QED BY <1>1 DEF Within, StaysInside

(* A round that goes on to k keeps the invariant if k is in the token and  *)
(* what is written is paid for.                                            *)
LEMMA GoesStaysWithin ==
  ASSUME Within, call = "unescape", NEW k \in Nat, NEW bytes \in Seq(Byte),
         k <= Len(arg.src), Len(out) + Len(bytes) < k, Goes(k, bytes)
  PROVE  Within'
<1>1. out \in Seq(Byte) /\ Len(out) \in Nat /\ Len(bytes) \in Nat /\ at \in 1 .. Len(arg.src)
  BY TokenFacts, LenProperties
<1>2. out' = out \o bytes /\ at' = k /\ call' = call /\ arg' = arg
  BY DEF Goes
<1>3. out' \in Seq(Byte) /\ Len(out') = Len(out) + Len(bytes)
  BY <1>1, <1>2, ConcatProperties
<1>4. k \in 1 .. Len(arg.src)
  BY <1>1, TokenFacts
<1>5. done' = "spilled" => Len(arg'.bytes) % WordSize' # 0
  BY <1>2, SpilledStays DEF Goes
<1>. QED BY <1>1, <1>2, <1>3, <1>4, <1>5 DEF Within, StaysInside

LEMMA FinishedStaysWithin ==
  ASSUME Within, NEW how, how # "spilled", Finished(how)
  PROVE  Within'
<1>1. arg' = arg /\ done' # "spilled"
  BY DEF Finished
<1>. QED BY <1>1 DEF Within, StaysInside, Finished

(* At an escape, the backslash and the byte behind it are in the token.    *)
LEMMA EscapeFacts ==
  ASSUME Within, NEW set, Escape(set)
  PROVE  /\ call = "unescape" /\ at > 1 /\ at + 2 <= Len(arg.src)
         /\ Char(at + 1) \in set /\ Char(at + 1) \in Byte
<1>1. call = "unescape" /\ ~AtQuote /\ arg.src[at] = Backslash /\ Char(at + 1) \in set
  BY DEF Escape, Unescaping
<1>2. at # 1
  BY <1>1, TokenFacts DEF QuoteMark, Backslash
<1>3. at # Len(arg.src) /\ at # Len(arg.src) - 1
  BY <1>1, <1>2, TokenFacts DEF AtQuote
<1>4. at + 2 <= Len(arg.src) /\ at > 1 /\ at + 1 \in 1 .. Len(arg.src)
  BY <1>1, <1>2, <1>3, TokenFacts
<1>. QED BY <1>1, <1>4, TokenFacts

-----------------------------------------------------------------------------
(* Every round of unescaping.                                              *)

LEMMA PlainStaysWithin ==
  ASSUME Within, Plain
  PROVE  Within'
<1>1. call = "unescape" /\ at > 1 /\ arg.src[at] # arg.src[1] /\ Goes(at + 1, <<arg.src[at]>>)
  BY DEF Plain, Unescaping, AtQuote
<1>2. at # Len(arg.src) /\ at + 1 <= Len(arg.src) /\ at + 1 \in Nat
  BY <1>1, TokenFacts
<1>3. <<arg.src[at]>> \in Seq(Byte) /\ Len(<<arg.src[at]>>) = 1
  BY <1>1, TokenFacts
<1>4. Len(out) + 1 < at + 1
  BY <1>1, TokenFacts
<1>. QED BY <1>1, <1>2, <1>3, <1>4, GoesStaysWithin

LEMMA OpenQuoteStaysWithin ==
  ASSUME Within, OpenQuote
  PROVE  Within'
<1>1. call = "unescape" /\ at = 1 /\ Goes(2, <<>>)
  BY DEF OpenQuote, Unescaping
<1>2. <<>> \in Seq(Byte) /\ Len(<<>>) = 0
  OBVIOUS
<1>3. 2 <= Len(arg.src) /\ Len(out) + 0 < 2
  BY <1>1, TokenFacts
<1>. QED BY <1>1, <1>2, <1>3, GoesStaysWithin

LEMMA EscapedNewlineStaysWithin ==
  ASSUME Within, EscapedNewline
  PROVE  Within'
<1>1. Escape({LineFeed, Return})
  BY DEF EscapedNewline
<1>2. call = "unescape" /\ at \in Nat /\ at + 2 <= Len(arg.src) /\ Len(arg.src) \in Nat
  BY <1>1, EscapeFacts, TokenFacts
<1> DEFINE k == IF Char(at + 1) = Return /\ Char(at + 2) = LineFeed THEN at + 3 ELSE at + 2
<1>3. k \in Nat /\ k <= Len(arg.src) /\ k >= at + 2
  <2>1. Char(at + 2) = LineFeed => at + 2 # Len(arg.src)
    BY <1>2, ClosingFacts
  <2>. QED BY <1>2, <2>1
<1>4. <<LineFeed>> \in Seq(Byte) /\ Len(<<LineFeed>>) = 1
  BY DEF LineFeed, Byte
<1>5. Len(out) + 1 < k
  <2> HIDE DEF k
  <2>. QED BY <1>2, <1>3, TokenFacts
<1>6. Goes(k, <<LineFeed>>)
  BY DEF EscapedNewline
<1> HIDE DEF k
<1>. QED BY <1>2, <1>3, <1>4, <1>5, <1>6, GoesStaysWithin

(* An escape of two bytes, for a byte.                                     *)
LEMMA TwoForOneStaysWithin ==
  ASSUME Within, NEW set, Escape(set), NEW c \in Byte, Goes(at + 2, <<c>>)
  PROVE  Within'
<1>1. call = "unescape" /\ at \in Nat /\ at + 2 <= Len(arg.src) /\ at + 2 \in Nat
  BY EscapeFacts, TokenFacts
<1>2. <<c>> \in Seq(Byte) /\ Len(<<c>>) = 1
  OBVIOUS
<1>3. Len(out) + 1 < at + 2
  BY <1>1, TokenFacts
<1>. QED BY <1>1, <1>2, <1>3, GoesStaysWithin

(* An escape that is dropped with nothing written for it.                  *)
LEMMA NothingForSomeStaysWithin ==
  ASSUME Within, call = "unescape", NEW k \in Nat, at < k, k <= Len(arg.src), Goes(k, <<>>)
  PROVE  Within'
<1>1. <<>> \in Seq(Byte) /\ Len(<<>>) = 0
  OBVIOUS
<1>2. Len(out) + 0 < k
  BY TokenFacts
<1>. QED BY <1>1, <1>2, GoesStaysWithin

LEMMA EscapedLetterStaysWithin ==
  ASSUME Within, EscapedLetter
  PROVE  Within'
<1>1. Escape(DOMAIN OneLetter) /\ Goes(at + 2, <<OneLetter[arg.src[at + 1]]>>)
  BY DEF EscapedLetter
<1>2. Char(at + 1) = arg.src[at + 1] /\ Char(at + 1) \in DOMAIN OneLetter
  <2>1. at + 1 \in 1 .. Len(arg.src) /\ call = "unescape"
    BY <1>1, EscapeFacts, TokenFacts
  <2>. QED BY <1>1, <2>1, EscapeFacts, TokenFacts
<1>3. \A c \in DOMAIN OneLetter : OneLetter[c] \in Byte
  BY DEF OneLetter, Byte
<1>. QED BY <1>1, <1>2, <1>3, TwoForOneStaysWithin

LEMMA EscapedOtherStaysWithin ==
  ASSUME Within, EscapedOther
  PROVE  Within'
<1> DEFINE set == Byte \ ({LineFeed, Return, LetterX, LetterU, LetterZ}
                            \cup DOMAIN OneLetter \cup Octal)
<1>1. Escape(set) /\ Goes(at + 2, <<Char(at + 1)>>)
  BY DEF EscapedOther
<1> HIDE DEF set
<1>2. Char(at + 1) \in Byte
  BY <1>1, EscapeFacts
<1>. QED BY <1>1, <1>2, TwoForOneStaysWithin

LEMMA EscapedHexStaysWithin ==
  ASSUME Within, EscapedHex
  PROVE  Within'
<1>1. Escape({LetterX})
  BY DEF EscapedHex
<1>2. call = "unescape" /\ at \in Nat /\ at + 2 <= Len(arg.src) /\ Len(arg.src) \in Nat
  BY <1>1, EscapeFacts, TokenFacts
<1>3. CASE ~(Char(at + 2) \in Hex /\ Char(at + 3) \in Hex)
  <2>1. Goes(at + 2, <<>>)
    BY <1>3 DEF EscapedHex
  <2>. QED BY <1>2, <2>1, NothingForSomeStaysWithin
<1>4. CASE Char(at + 2) \in Hex /\ Char(at + 3) \in Hex
  <2> DEFINE digits == <<Char(at + 2), Char(at + 3)>>
             b == Number(digits, 16)
  <2>1. Goes(at + 4, <<b>>)
    BY <1>4 DEF EscapedHex
  <2>2. digits \in Seq(Hex) /\ Len(digits) = 2
    BY <1>4
  <2> HIDE DEF digits
  <2>3. b \in Byte
    <3>1. b \in Nat /\ b < 256
      BY <2>2, 16 \in 1 .. 16, NumberBounds
    <3> HIDE DEF b
    <3>. QED BY <3>1 DEF Byte
  <2>4. at + 4 <= Len(arg.src)
    <3>1. at + 2 # Len(arg.src)
      BY <1>2, <1>4, ClosingFacts
    <3>2. at + 3 # Len(arg.src)
      BY <1>2, <1>4, ClosingFacts
    <3>. QED BY <1>2, <3>1, <3>2
  <2> HIDE DEF b
  <2>5. <<b>> \in Seq(Byte) /\ Len(<<b>>) = 1
    BY <2>3
  <2>6. Len(out) + 1 < at + 4 /\ at + 4 \in Nat
    BY <1>2, TokenFacts
  <2>. QED BY <1>2, <2>1, <2>4, <2>5, <2>6, GoesStaysWithin
<1>. QED BY <1>3, <1>4

LEMMA EscapedSpaceStaysWithin ==
  ASSUME Within, EscapedSpace
  PROVE  Within'
<1> DEFINE end == Behind(at + 2, Space, Len(arg.src))
<1>1. Escape({LetterZ}) /\ Goes(end, <<>>)
  BY DEF EscapedSpace
<1>2. call = "unescape" /\ at \in Nat /\ at + 2 <= Len(arg.src) /\ Len(arg.src) \in Nat /\ at + 2 \in Nat
  BY <1>1, EscapeFacts, TokenFacts
<1>3. end \in Nat /\ end >= at + 2 /\ \A i \in at + 2 .. end - 1 : Char(i) \in Space
  BY <1>2, BehindFacts
<1> HIDE DEF end
<1>4. Len(arg.src) \notin at + 2 .. end - 1
  BY <1>2, <1>3, ClosingFacts
<1>5. end <= Len(arg.src)
  BY <1>2, <1>3, <1>4
<1>. QED BY <1>1, <1>2, <1>3, <1>5, NothingForSomeStaysWithin

LEMMA DigitsFacts ==
  ASSUME Within, call = "unescape", NEW k \in Nat \ {0}, NEW end \in Nat, k <= end,
         end - 1 <= Len(arg.src), NEW set, set \subseteq Hex,
         \A i \in k .. end - 1 : Char(i) \in set
  PROVE  /\ SubSeq(arg.src, k, end - 1) \in Seq(Hex)
         /\ Len(SubSeq(arg.src, k, end - 1)) = end - k
<1>1. \A i \in k .. end - 1 : arg.src[i] \in Hex
  BY TokenFacts
<1>2. k \in Int /\ end - 1 \in Int
  OBVIOUS
<1>3. /\ SubSeq(arg.src, k, end - 1) \in Seq(Hex)
      /\ Len(SubSeq(arg.src, k, end - 1)) = IF k <= end - 1 THEN end - 1 - k + 1 ELSE 0
  BY <1>1, <1>2, SubSeqProperties
<1>. QED BY <1>3

LEMMA EscapedOctalStaysWithin ==
  ASSUME Within, EscapedOctal
  PROVE  Within'
<1> DEFINE end == Behind(at + 1, Octal, 3)
           digits == SubSeq(arg.src, at + 1, end - 1)
           b == Number(digits, 8) % 256
<1>1. Escape(Octal) /\ Goes(end, <<b>>)
  BY DEF EscapedOctal
<1>2. /\ call = "unescape" /\ at \in Nat /\ at + 2 <= Len(arg.src) /\ Len(arg.src) \in Nat
      /\ at + 1 \in Nat \ {0} /\ Char(at + 1) \in Octal
  BY <1>1, EscapeFacts, TokenFacts
<1>3. /\ end \in at + 1 .. at + 1 + 3
      /\ end # at + 1 + 3 => Char(end) \notin Octal
      /\ \A i \in at + 1 .. end - 1 : Char(i) \in Octal
  BY <1>2, BehindFacts
<1> HIDE DEF end
<1>4. end \in Nat /\ end >= at + 2
  BY <1>2, <1>3
<1>5. Len(arg.src) \notin at + 1 .. end - 1
  BY <1>2, <1>3, ClosingFacts
<1>6. end <= Len(arg.src)
  BY <1>2, <1>4, <1>5
<1>7. digits \in Seq(Hex)
  <2>1. Octal \subseteq Hex
    BY DEF Octal, Hex
  <2>2. at + 1 <= end /\ end - 1 <= Len(arg.src) /\ \A i \in at + 1 .. end - 1 : Char(i) \in Octal
    BY <1>2, <1>3, <1>4, <1>6
  <2>. QED BY <2>1, <2>2, <1>2, <1>4, DigitsFacts
<1> HIDE DEF digits
<1>8. b \in Byte
  <2>1. Number(digits, 8) \in Nat
    BY <1>7, 8 \in 1 .. 16, NumberBounds
  <2> DEFINE n == Number(digits, 8)
  <2> HIDE DEF n
  <2>2. n % 256 \in 0 .. 255
    BY <2>1 DEF n
  <2>. QED BY <2>2 DEF n, Byte
<1> HIDE DEF b
<1>9. <<b>> \in Seq(Byte) /\ Len(<<b>>) = 1
  BY <1>8
<1>10. Len(out) + 1 < end
  BY <1>2, <1>4, TokenFacts
<1>. QED BY <1>1, <1>2, <1>4, <1>6, <1>9, <1>10, GoesStaysWithin

LEMMA StopsBefore ==
  ASSUME NEW k \in Nat, NEW set, NEW most \in Nat, NEW close \in Nat, k <= close,
         Char(close) \notin set
  PROVE  /\ Behind(k, set, most) \in k .. close
         /\ \A i \in k .. Behind(k, set, most) - 1 : Char(i) \in set
<1> DEFINE end == Behind(k, set, most)
<1>1. end \in k .. k + most /\ \A i \in k .. end - 1 : Char(i) \in set
  BY BehindFacts
<1> HIDE DEF end
<1>2. close \notin k .. end - 1
  BY <1>1
<1>3. end \in k .. close
  BY <1>1, <1>2
<1>. QED BY <1>1, <1>3 DEF end

(* The cast leaves a number; a small one of a single digit.                *)
LEMMA CodePointBounds ==
  ASSUME NEW digits \in Seq(Hex), NEW minus \in BOOLEAN
  PROVE  /\ CodePoint(digits, minus) \in Nat
         /\ digits = <<>> => CodePoint(digits, minus) = 0
         /\ Len(digits) < 2 /\ ~minus => CodePoint(digits, minus) < 16
<1> DEFINE n       == Len(digits)
           number  == Number(digits, 16)
           padded  == <<Zero, Zero, Zero, Zero, Zero, Zero, Zero, Zero>> \o digits
           low     == Number(SubSeq(padded, n + 5, n + 8), 16)
           high    == Number(SubSeq(padded, n + 1, n + 4), 16)
           upper   == IF minus THEN (65535 - high + (IF low = 0 THEN 1 ELSE 0)) % 65536 ELSE high
           lower   == IF minus THEN (65536 - low) % 65536 ELSE low
           tooLong == \E i \in 1 .. n - 15 :
                        IF i = n - 15 THEN DigitOf(digits[i]) > 7 ELSE digits[i] # Zero
<1>1. n \in Nat
  BY LenProperties
<1>2. number \in Nat /\ (n < 2 => number < 16)
  BY 16 \in 1 .. 16, NumberBounds
<1>3. padded \in Seq(Hex) /\ Len(padded) = n + 8
  <2> DEFINE zeros == <<Zero, Zero, Zero, Zero, Zero, Zero, Zero, Zero>>
  <2>1. Zero \in Hex
    BY DEF Zero, Hex
  <2>2. zeros \in Seq(Hex) /\ Len(zeros) = 8
    BY <2>1
  <2> HIDE DEF zeros
  <2>3. zeros \o digits \in Seq(Hex) /\ Len(zeros \o digits) = Len(zeros) + Len(digits)
    BY <2>2, ConcatProperties
  <2>4. Len(zeros \o digits) = n + 8
    BY <1>1, <2>2, <2>3
  <2>. QED BY <2>3, <2>4 DEF zeros
<1> HIDE DEF padded
<1>4. \A i \in 1 .. n + 8 : padded[i] \in Hex
  BY <1>3, ElementOfSeq
<1>5. SubSeq(padded, n + 5, n + 8) \in Seq(Hex) /\ SubSeq(padded, n + 1, n + 4) \in Seq(Hex)
  <2>1. \A i \in n + 5 .. n + 8 : padded[i] \in Hex
    BY <1>1, <1>4
  <2>2. \A i \in n + 1 .. n + 4 : padded[i] \in Hex
    BY <1>1, <1>4
  <2>3. n + 5 \in Int /\ n + 8 \in Int /\ n + 1 \in Int /\ n + 4 \in Int
    BY <1>1
  <2> HIDE DEF n
  <2>. QED BY <2>1, <2>2, <2>3, SubSeqProperties
<1>6. low \in Nat /\ high \in Nat
  BY <1>5, 16 \in 1 .. 16, NumberBounds
<1> HIDE DEF number, low, high
<1>7. upper \in Nat /\ lower \in Nat
  <2>1. \A x \in Int : x % 65536 \in Nat
    BY SMT
  <2>2. 65535 - high + (IF low = 0 THEN 1 ELSE 0) \in Int /\ 65536 - low \in Int
    BY <1>6, SMT
  <2>. QED BY <1>6, <2>1, <2>2
<1> HIDE DEF upper, lower, tooLong
<1>8. upper * 65536 + lower \in Nat
  BY <1>7, SMT
<1>9. Huge \in Nat /\ Huge > 16
  BY SMT DEF Huge
<1>10. CodePoint(digits, minus)
         = IF digits = <<>> THEN 0
           ELSE IF ~minus /\ number < Huge THEN number
           ELSE IF tooLong THEN (IF minus THEN 0 ELSE Huge)
           ELSE IF upper > 127 THEN Huge ELSE upper * 65536 + lower
  BY DEF CodePoint, number, upper, lower, tooLong, low, high, padded, n
<1> DEFINE word == upper * 65536 + lower
<1>11. word \in Nat
  BY <1>8
<1> HIDE DEF word
<1>12. CodePoint(digits, minus) \in {0, number, Huge, word}
  BY <1>10 DEF word
<1>13. CodePoint(digits, minus) \in Nat
  BY <1>2, <1>9, <1>11, <1>12
<1>14. ASSUME n < 2, ~minus PROVE CodePoint(digits, minus) < 16
  <2>1. number \in Nat /\ number < 16 /\ number < Huge
    BY <1>2, <1>9, <1>14
  <2>2. CodePoint(digits, minus) \in {0, number}
    BY <1>10, <1>14, <2>1
  <2>. QED BY <2>1, <2>2
<1>. QED BY <1>10, <1>13, <1>14

(* What strtol reads before the closing brace.                             *)
LEMMA StrtolFacts ==
  ASSUME Within, call = "unescape", NEW k \in Nat \ {0}, NEW close \in Nat, k <= close,
         close <= Len(arg.src), Char(close) = CloseBrace
  PROVE  Strtol(k) \in Nat /\ (close < k + 2 => Strtol(k) < 16)
<1> DEFINE room   == Len(arg.src)
           start  == Behind(k, Space, room)
           signed == Char(start) \in {Plus, Minus}
           first  == IF signed THEN start + 1 ELSE start
           prefixed == Char(first) = Zero /\ Char(first + 1) \in {LetterX, 88}
           from   == IF prefixed THEN first + 2 ELSE first
           end    == Behind(from, Hex, room)
           digits == SubSeq(arg.src, from, end - 1)
           minus  == Char(start) = Minus
<1>1. room \in Nat
  BY TokenFacts
<1>2. /\ CloseBrace \notin Space /\ CloseBrace \notin {Plus, Minus} /\ CloseBrace # Zero
      /\ CloseBrace \notin {LetterX, 88} /\ CloseBrace \notin Hex
  BY SMT DEF CloseBrace, Space, Plus, Minus, Zero, LetterX, Hex
<1>3. Strtol(k) = CodePoint(digits, minus)
  BY DEF Strtol
<1>4. start \in k .. close
  BY <1>1, <1>2, StopsBefore
<1> HIDE DEF room, start
<1>5. first \in Nat /\ start <= first /\ first <= close /\ (signed => first = start + 1)
  <2>1. start \in Nat /\ start <= close
    BY <1>4
  <2>2. signed => start # close
    BY <1>2
  <2>. QED BY <2>1, <2>2
<1> HIDE DEF first
<1>6. from \in Nat /\ first <= from /\ from <= close
  <2>1. prefixed => first # close /\ first + 1 # close
    BY <1>2
  <2>. QED BY <1>5, <2>1
<1> HIDE DEF from
<1>7. end \in from .. close /\ \A i \in from .. end - 1 : Char(i) \in Hex
  BY <1>1, <1>2, <1>6, StopsBefore
<1> HIDE DEF end
<1>8. k <= from
  BY <1>4, <1>5, <1>6
<1>9. digits \in Seq(Hex) /\ Len(digits) = end - from
  <2>1. from \in Nat \ {0} /\ end \in Nat /\ from <= end /\ end - 1 <= room
    BY <1>1, <1>6, <1>7, <1>8 DEF room
  <2>. QED BY <2>1, <1>7, Hex \subseteq Hex, DigitsFacts DEF room
<1>10. minus \in BOOLEAN /\ (minus => signed)
  OBVIOUS
<1> HIDE DEF digits, minus, signed
<1>11. CodePoint(digits, minus) \in Nat
  BY <1>9, <1>10, CodePointBounds
<1>12. ASSUME close < k + 2 PROVE CodePoint(digits, minus) < 16
  <2>1. CASE minus
    <3>1. first = start + 1 /\ end - from <= 0 /\ end - from \in Nat
      BY <1>4, <1>5, <1>6, <1>7, <1>10, <1>12, <2>1
    <3>2. Len(digits) = 0
      BY <1>9, <3>1
    <3>3. digits = <<>>
      BY <1>9, <3>2, EmptySeq
    <3>4. CodePoint(digits, minus) = 0
      BY <1>9, <1>10, <3>3, CodePointBounds
    <3>. QED BY <3>4
  <2>2. CASE ~minus
    <3>1. end - from < 2
      BY <1>6, <1>7, <1>8, <1>12
    <3>2. Len(digits) < 2
      BY <1>9, <3>1
    <3>. QED BY <1>9, <1>10, <2>2, <3>2, CodePointBounds
  <2>. QED BY <2>1, <2>2
<1>. QED BY <1>3, <1>11, <1>12

LEMMA EscapedUnicodeStaysWithin ==
  ASSUME Within, EscapedUnicode
  PROVE  Within'
<1> DEFINE closes == {k \in at + 2 .. Len(arg.src) :
                        arg.src[k] = CloseBrace /\ \A i \in at + 2 .. k : arg.src[i] # 0}
           cp == Strtol(at + 3)
           bytes == WriteUtf8(cp, Len(out), 0)
           close == Min(closes)
<1>1. Escape({LetterU})
  BY DEF EscapedUnicode
<1>2. call = "unescape" /\ at \in Nat /\ at + 2 <= Len(arg.src) /\ Len(arg.src) \in Nat
  BY <1>1, EscapeFacts, TokenFacts
<1>3. CASE ~(Char(at + 2) = OpenBrace /\ closes # {})
  <2>1. Goes(at + 2, <<>>)
    BY <1>3 DEF EscapedUnicode
  <2>. QED BY <1>2, <2>1, NothingForSomeStaysWithin
<1>4. CASE Char(at + 2) = OpenBrace /\ closes # {}
  <2>1. Goes(close + 1, bytes)
    BY <1>4 DEF EscapedUnicode
  <2>2. close \in closes
    <3>1. closes \in SUBSET Nat
      BY <1>2
    <3> HIDE DEF closes
    <3>. QED BY <3>1, <1>4, MinIsLeast
  <2>3. close \in at + 2 .. Len(arg.src) /\ Char(close) = CloseBrace
    <3> HIDE DEF close
    <3>1. close \in at + 2 .. Len(arg.src) /\ arg.src[close] = CloseBrace
      BY <2>2
    <3>2. close \in 1 .. Len(arg.src)
      BY <3>1, <1>2
    <3>. QED BY <3>1, <3>2, <1>2, TokenFacts
  <2> HIDE DEF close
  <2>4. close # Len(arg.src) /\ close # at + 2
    <3>1. OpenBrace # CloseBrace
      BY DEF OpenBrace, CloseBrace
    <3>. QED BY <3>1, <2>3, <1>2, <1>4, ClosingFacts
  <2>5. close \in at + 3 .. Len(arg.src) - 1
    BY <2>3, <2>4, <1>2
  <2>6. cp \in Nat /\ (close < (at + 3) + 2 => cp < 16)
    <3>1. at + 3 \in Nat \ {0} /\ close \in Nat /\ at + 3 <= close /\ close <= Len(arg.src)
      BY <1>2, <2>5
    <3>. QED BY <1>2, <2>3, <3>1, StrtolFacts
  <2>7. Len(out) \in Nat /\ Len(out) < at
    BY <1>2, TokenFacts
  <2> HIDE DEF cp
  <2>8. bytes \in Seq(Byte) /\ Len(bytes) \in 0 .. 6 /\ (Len(bytes) > 4 => cp > 255)
    BY <2>6, <2>7, 0 \in Nat, Utf8Bytes
  <2> HIDE DEF bytes
  <2>9. Len(bytes) > 4 => close >= at + 5
    BY <2>5, <2>6, <2>8, <1>2
  <2>10. Len(out) + Len(bytes) < close + 1 /\ close + 1 <= Len(arg.src) /\ close + 1 \in Nat
    <3> DEFINE l == Len(out)
               w == Len(bytes)
               room == Len(arg.src)
    <3>1. l \in Nat /\ l < at /\ w \in 0 .. 6 /\ room \in Nat
      BY <2>7, <2>8, <1>2
    <3>2. w > 4 => close >= at + 5
      BY <2>9
    <3> HIDE DEF l, w, room
    <3>3. close \in Int /\ close >= at + 3
      BY <2>5, <1>2
    <3>4. l + w < close + 1
      BY <3>1, <3>2, <3>3, <1>2
    <3>5. close + 1 <= room /\ close + 1 \in Nat
      BY <2>5, <3>1, <1>2 DEF room
    <3>. QED BY <3>4, <3>5 DEF l, w, room
  <2>. QED BY <1>2, <2>1, <2>8, <2>10, GoesStaysWithin
<1>. QED BY <1>3, <1>4

-----------------------------------------------------------------------------
(* Every round of converting.                                              *)

LEMMA ConvertFacts ==
  ASSUME Within, call = "convert"
  PROVE  /\ arg \in Conversion /\ arg.order \in Orders /\ arg.bytes \in Seq(Byte)
         /\ arg.outsz \in Nat /\ Len(arg.bytes) \in Nat
         /\ at \in Nat \ {0} /\ out \in Seq(Byte) /\ Len(out) \in Nat /\ Len(out) <= arg.outsz
<1>1. arg \in Conversion /\ at \in Nat \ {0} /\ out \in Seq(Byte) /\ Len(out) <= arg.outsz
  BY DEF Within, StaysInside
<1>2. arg.order \in Orders /\ arg.bytes \in Seq(Byte) /\ arg.outsz \in Nat
  BY <1>1, ConversionAssumption
<1>. QED BY <1>1, <1>2, LenProperties

(* The bytes to convert, in whichever order, with the one behind them.     *)
LEMMA TmpbufFacts ==
  ASSUME Within, call = "convert", ~Spills
  PROVE  Tmpbuf \in Buffers(Len(arg.bytes) + 1)
<1> DEFINE buf == Append(arg.bytes, 0)
           size == Len(arg.bytes) + 1
<1>1. size \in Nat \ {0} /\ buf \in Seq(Byte) /\ Len(buf) = size
  <2>1. 0 \in Byte
    BY DEF Byte
  <2>. QED BY <2>1, ConvertFacts
<1> HIDE DEF buf, size
<1>2. \A b \in Buffers(size) : b \in Seq(Byte) /\ Len(b) = size
  BY <1>1 DEF Buffers
<1>3. buf \in Buffers(size)
  BY <1>1, LenProperties DEF Buffers
<1>4. \A k \in {2, 4} : FlipsBy(k) => k * Rounds(size - 1, k) <= size - 1
  <2> SUFFICES ASSUME NEW k \in {2, 4}, FlipsBy(k) PROVE k * Rounds(size - 1, k) <= size - 1
    OBVIOUS
  <2>1. ~(k * Rounds(Len(arg.bytes), k) > Len(arg.bytes)) /\ Len(arg.bytes) \in Nat
    BY ConvertFacts DEF Spills
  <2>2. size - 1 = Len(arg.bytes)
    BY <2>1 DEF size
  <2>3. Rounds(size - 1, k) \in Nat
    BY <1>1, RoundsAreEnough
  <2> DEFINE r == Rounds(size - 1, k)
  <2>4. r \in Nat /\ ~(k * r > size - 1)
    BY <2>1, <2>2, <2>3
  <2> HIDE DEF r
  <2>5. k * r <= size - 1
    BY <1>1, <2>4
  <2>. QED BY <2>5 DEF r
<1>5. FlipsBy(4) => Flip4(buf) \in Buffers(size)
  BY <1>1, <1>4, Flip4IsBuffer
<1>6. FlipsBy(2) => Flip2(buf) \in Buffers(size)
  BY <1>1, <1>4, Flip2IsBuffer
<1>7. FlipsBy(4) /\ FlipsBy(2) => Flip2(Flip4(buf)) \in Buffers(size)
  BY <1>1, <1>2, <1>4, <1>5, Flip2IsBuffer
<1>8. CASE arg.order = "UCS_4_SWAP_4321"
  <2>1. Tmpbuf = Flip4(buf) /\ FlipsBy(4)
    BY <1>8 DEF Tmpbuf, FlipsBy, buf
  <2>. QED BY <1>5, <2>1 DEF size
<1>9. CASE arg.order = "UCS_4_SWAP_3412"
  <2>1. Tmpbuf = Flip2(Flip4(buf)) /\ FlipsBy(4) /\ FlipsBy(2)
    BY <1>9 DEF Tmpbuf, FlipsBy, buf
  <2>. QED BY <1>7, <2>1 DEF size
<1>10. CASE arg.order \in {"UCS_4_SWAP_2143", "UCS_2_SWAP"}
  <2>1. Tmpbuf = Flip2(buf) /\ FlipsBy(2)
    BY <1>10 DEF Tmpbuf, FlipsBy, buf
  <2>. QED BY <1>6, <2>1 DEF size
<1>11. CASE arg.order \notin {"UCS_4_SWAP_4321", "UCS_4_SWAP_3412", "UCS_4_SWAP_2143", "UCS_2_SWAP"}
  <2>1. Tmpbuf = buf
    BY <1>11 DEF Tmpbuf, buf
  <2>. QED BY <1>3, <2>1 DEF size
<1>. QED BY <1>8, <1>9, <1>10, <1>11

LEMMA WordFacts ==
  ASSUME Within, Converting, WordSize \in {2, 4}, NEW k \in Nat \ {0}, k <= Words
  PROVE  Word(k) \in Nat
<1> DEFINE room == Len(arg.bytes)
           Cell(i) == Tmpbuf[WordSize * (k - 1) + i]
<1>1. room \in Nat /\ call = "convert" /\ ~Spills
  BY ConvertFacts DEF Converting
<1>2. \A i \in 1 .. WordSize : WordSize * (k - 1) + i \in 1 .. room
  <2>1. CASE WordSize = 2
    <3>1. k <= room \div 2
      BY <2>1 DEF Words
    <3> HIDE DEF room
    <3>2. 2 * k <= room
      BY <1>1, <3>1
    <3>. QED BY <2>1, <1>1, <3>2
  <2>2. CASE WordSize = 4
    <3>1. k <= room \div 4
      BY <2>2 DEF Words
    <3> HIDE DEF room
    <3>2. 4 * k <= room
      BY <1>1, <3>1
    <3>. QED BY <2>2, <1>1, <3>2
  <2>. QED BY <2>1, <2>2
<1>3. \A i \in 1 .. WordSize : Cell(i) \in Nat
  <2>1. \A j \in 1 .. room : Tmpbuf[j] \in Byte
    BY <1>1, TmpbufFacts DEF Buffers
  <2>2. Byte \subseteq Nat
    BY DEF Byte
  <2>3. \A j \in 1 .. room : Tmpbuf[j] \in Nat
    BY <2>1, <2>2
  <2> HIDE DEF room
  <2>. QED BY <1>2, <2>3
<1>4. Huge \in Nat
  BY SMT DEF Huge
<1> HIDE DEF Cell
<1>5. CASE WordSize = 2
  <2>1. Word(k) = Cell(1) + 256 * Cell(2)
    BY <1>5 DEF Word, Cell
  <2>. QED BY <1>3, <1>5, <2>1
<1>6. CASE WordSize = 4
  <2>1. Word(k) = IF Cell(4) # 0 THEN Huge ELSE Cell(1) + 256 * Cell(2) + 65536 * Cell(3)
    BY <1>6, 4 # 2, SMT DEF Word, Cell
  <2>2. Cell(1) \in Nat /\ Cell(2) \in Nat /\ Cell(3) \in Nat
    BY <1>3, <1>6
  <2>. QED BY <1>4, <2>1, <2>2, SMT
<1>. QED BY <1>5, <1>6

LEMMA WritesStaysWithin ==
  ASSUME Within, Converting, More, NEW k \in Nat \ {0}, NEW cp \in Nat, Writes(k, cp)
  PROVE  Within'
<1> DEFINE bytes == WriteUtf8(cp, arg.outsz, Len(out))
<1>1. call = "convert" /\ Len(out) < arg.outsz
  BY DEF Converting, More
<1>2. arg.outsz \in Nat /\ Len(out) \in Nat /\ out \in Seq(Byte)
  BY <1>1, ConvertFacts
<1>3. /\ bytes \in Seq(Byte) /\ Len(bytes) \in 0 .. 6
      /\ Len(bytes) > 1 => Len(out) + Len(bytes) < arg.outsz
  BY <1>2, Utf8Bytes
<1>4. CASE bytes = <<>>
  <2>1. Finished("ok")
    BY <1>4 DEF Writes
  <2>. QED BY <2>1, FinishedStaysWithin
<1>5. CASE bytes # <<>>
  <2>1. Goes(k, bytes)
    BY <1>5 DEF Writes
  <2>2. out' = out \o bytes /\ at' = k /\ call' = call /\ arg' = arg
    BY <2>1 DEF Goes
  <2> HIDE DEF bytes
  <2>3. out' \in Seq(Byte) /\ Len(out') = Len(out) + Len(bytes)
    BY <1>2, <1>3, <2>2, ConcatProperties
  <2>4. Len(out') <= arg.outsz
    BY <1>1, <1>2, <1>3, <2>3
  <2>5. done' = "spilled" => Len(arg'.bytes) % WordSize' # 0
    BY <2>1, SpilledStays DEF Goes
  <2>. QED BY <1>1, <2>2, <2>3, <2>4, <2>5 DEF Within, StaysInside
<1>. QED BY <1>4, <1>5

LEMMA Convert32StaysWithin ==
  ASSUME Within, Convert32
  PROVE  Within'
<1>1. Converting /\ More /\ WordSize = 4 /\ at <= Words /\ Writes(at + 1, Word(at))
  BY DEF Convert32, More
<1>2. call = "convert" /\ at \in Nat \ {0}
  BY <1>1, ConvertFacts DEF Converting
<1>3. Word(at) \in Nat
  BY <1>1, <1>2, WordFacts
<1>. QED BY <1>1, <1>2, <1>3, at + 1 \in Nat \ {0}, WritesStaysWithin

LEMMA Convert16StaysWithin ==
  ASSUME Within, Convert16
  PROVE  Within'
<1>1. Converting /\ More /\ WordSize = 2 /\ at <= Words
  BY DEF Convert16, More
<1>2. call = "convert" /\ at \in Nat \ {0} /\ at + 1 \in Nat \ {0} /\ at + 2 \in Nat \ {0}
  <2>1. call = "convert"
    BY <1>1 DEF Converting
  <2>2. at \in Nat \ {0}
    BY <2>1, ConvertFacts
  <2>. QED BY <2>1, <2>2
<1> DEFINE first == Word(at)
<1>3. first \in Nat
  BY <1>1, <1>2, WordFacts
<1>4. \A h \in High, l \in Low : SurrogatePair(h, l) \in Nat
  BY SMT DEF High, Low, SurrogatePair
<1> HIDE DEF first
<1>5. \/ Writes(at + 1, first)
      \/ \E second : /\ first \in High /\ second \in Low
                     /\ Writes(at + 2, SurrogatePair(first, second))
      \/ \E second : /\ first \in Low /\ second \in High
                     /\ Writes(at + 2, SurrogatePair(second, first))
      \/ Finished("ok")
  BY DEF Convert16, first
<1>6. CASE Writes(at + 1, first)
  BY <1>1, <1>2, <1>3, <1>6, WritesStaysWithin
<1>7. ASSUME NEW second, first \in High, second \in Low,
             Writes(at + 2, SurrogatePair(first, second))
      PROVE  Within'
  BY <1>1, <1>2, <1>4, <1>7, WritesStaysWithin
<1>8. ASSUME NEW second, first \in Low, second \in High,
             Writes(at + 2, SurrogatePair(second, first))
      PROVE  Within'
  BY <1>1, <1>2, <1>4, <1>8, WritesStaysWithin
<1>9. CASE Finished("ok")
  BY <1>9, FinishedStaysWithin
<1>. QED BY <1>5, <1>6, <1>7, <1>8, <1>9

LEMMA ConvertBytesStaysWithin ==
  ASSUME Within, ConvertBytes
  PROVE  Within'
<1> DEFINE size == Min({Len(arg.bytes), arg.outsz})
<1>1. /\ call = "convert" /\ out' = SubSeq(arg.bytes, 1, size) /\ at' = size + 1
      /\ call' = call /\ arg' = arg /\ done' # "spilled"
  BY DEF ConvertBytes, Converting
<1>2. size \in Nat /\ size <= Len(arg.bytes) /\ size <= arg.outsz
  <2>1. Len(arg.bytes) \in Nat /\ arg.outsz \in Nat
    BY <1>1, ConvertFacts
  <2>. QED BY <2>1, LesserOfTwo
<1> HIDE DEF size
<1>3. \A i \in 1 .. size : arg.bytes[i] \in Byte
  <2>1. arg.bytes \in Seq(Byte) /\ Len(arg.bytes) \in Nat
    BY <1>1, ConvertFacts
  <2>. QED BY <1>2, <2>1, ElementOfSeq
<1>4. out' \in Seq(Byte) /\ Len(out') = size
  <2>1. /\ SubSeq(arg.bytes, 1, size) \in Seq(Byte)
        /\ Len(SubSeq(arg.bytes, 1, size)) = IF 1 <= size THEN size - 1 + 1 ELSE 0
    BY <1>2, <1>3, SubSeqProperties
  <2>. QED BY <1>1, <1>2, <2>1
<1>. QED BY <1>1, <1>2, <1>4 DEF Within, StaysInside

(* The flips leave their block only at the end of a text that ends within  *)
(* a word.                                                                 *)
LEMMA SpillStaysWithin ==
  ASSUME Within, Spill
  PROVE  Within'
<1> DEFINE n == Len(arg.bytes)
<1>1. call = "convert" /\ Spills /\ Finished("spilled")
  BY DEF Spill
<1>2. n \in Nat
  BY <1>1, ConvertFacts
<1>3. PICK size \in {2, 4} : FlipsBy(size) /\ size * Rounds(n, size) > n
  BY <1>1 DEF Spills
<1>4. n % size # 0
  <2> HIDE DEF n
  <2>1. CASE size = 2
    BY <1>2, <1>3, <2>1, SMT DEF Rounds
  <2>2. CASE size = 4
    BY <1>2, <1>3, <2>2, SMT DEF Rounds
  <2>. QED BY <2>1, <2>2
<1>5. WordSize \in {2, 4} /\ (WordSize = 2 => size = 2)
  BY <1>3 DEF FlipsBy, WordSize
<1>6. n % WordSize # 0
  <2> HIDE DEF n
  <2>1. n % 2 # 0 => n % 4 # 0
    BY <1>2, SMT
  <2>. QED BY <1>4, <1>5, <2>1
<1>7. WordSize' = WordSize /\ arg' = arg
  BY <1>1 DEF Finished, WordSize
<1>. QED BY <1>1, <1>6, <1>7 DEF Within, StaysInside, Finished

-----------------------------------------------------------------------------
LEMMA InitIsWithin == Init => Within
<1> SUFFICES ASSUME Init PROVE Within
  OBVIOUS
<1>1. at = 1 /\ out = <<>> /\ out \in Seq(Byte) /\ Len(out) = 0 /\ done # "spilled"
  <2>1. at = 1 /\ out = <<>> /\ done # "spilled"
    BY DEF Init
  <2>. QED BY <2>1
<1>2. CASE call = "unescape"
  <2>1. arg \in Quoted
    BY <1>2 DEF Init
  <2>2. Len(arg.src) > 1 /\ Len(arg.src) \in Nat
    BY <2>1, QuotedAssumption, LenProperties DEF IsToken
  <2>. QED BY <1>1, <1>2, <2>1, <2>2 DEF Within, StaysInside
<1>3. CASE call = "convert"
  <2>1. arg \in Conversion /\ arg.outsz \in Nat
    BY <1>3, ConversionAssumption DEF Init
  <2>. QED BY <1>1, <1>3, <2>1 DEF Within, StaysInside
<1>. QED BY <1>2, <1>3 DEF Init

LEMMA StepStaysWithin == Within /\ [Next]_vars => Within'
<1> SUFFICES ASSUME Within, [Next]_vars PROVE Within'
  OBVIOUS
<1>1. CASE NoMemory
  BY <1>1, FinishedStaysWithin DEF NoMemory
<1>2. CASE OpenQuote
  BY <1>2, OpenQuoteStaysWithin
<1>3. CASE Plain
  BY <1>3, PlainStaysWithin
<1>4. CASE CloseQuote
  BY <1>4, FinishedStaysWithin DEF CloseQuote
<1>5. CASE EscapedNewline
  BY <1>5, EscapedNewlineStaysWithin
<1>6. CASE EscapedLetter
  BY <1>6, EscapedLetterStaysWithin
<1>7. CASE EscapedHex
  BY <1>7, EscapedHexStaysWithin
<1>8. CASE EscapedUnicode
  BY <1>8, EscapedUnicodeStaysWithin
<1>9. CASE EscapedSpace
  BY <1>9, EscapedSpaceStaysWithin
<1>10. CASE EscapedOctal
  BY <1>10, EscapedOctalStaysWithin
<1>11. CASE EscapedOther
  BY <1>11, EscapedOtherStaysWithin
<1>12. CASE Convert32
  BY <1>12, Convert32StaysWithin
<1>13. CASE Convert16
  BY <1>13, Convert16StaysWithin
<1>14. CASE ConvertBytes
  BY <1>14, ConvertBytesStaysWithin
<1>15. CASE ConvertEnds
  BY <1>15, FinishedStaysWithin DEF ConvertEnds
<1>16. CASE Spill
  BY <1>16, SpillStaysWithin
<1>17. CASE UNCHANGED vars
  <2>1. WordSize' = WordSize
    BY <1>17 DEF vars, WordSize
  <2>. QED BY <1>17, <2>1 DEF vars, Within, StaysInside
<1>. QED BY <1>1, <1>2, <1>3, <1>4, <1>5, <1>6, <1>7, <1>8, <1>9, <1>10, <1>11, <1>12, <1>13,
            <1>14, <1>15, <1>16, <1>17 DEF Next, Unescape, Convert

(* Whatever the token, unescaping reads nothing behind its closing quote   *)
(* and writes nothing behind the block it has for the value; whatever the  *)
(* text, a conversion writes no more than it has room for, and leaves its  *)
(* temporary block only if the text ends within a word.                    *)
THEOREM TextStaysInside == Spec => []StaysInside
<1>1. Within => StaysInside
  BY DEF Within
<1>. QED BY <1>1, InitIsWithin, StepStaysWithin, PTL DEF Spec

-----------------------------------------------------------------------------
(* Putting sequences together.                                             *)

(* f has what the first i sequences of s make, for every i up to n.        *)
Joins(f, s, n) == \A i \in 1 .. n : f[i] = IF i = 1 THEN s[i] ELSE f[i - 1] \o s[i]

LEMMA JoinsFewer ==
  ASSUME NEW f, NEW s, NEW m \in Nat, NEW n \in 0 .. m, Joins(f, s, m)
  PROVE  Joins(f, s, n)
<1>1. \A i \in 1 .. n : i \in 1 .. m
  OBVIOUS
<1>. QED BY <1>1 DEF Joins

LEMMA JoinStep ==
  ASSUME NEW f, NEW s, NEW n \in Nat, Joins(f, s, n), NEW k \in Nat, k + 1 \in 1 .. n
  PROVE  f[k + 1] = IF k = 0 THEN s[k + 1] ELSE f[k] \o s[k + 1]
<1>1. f[k + 1] = IF k + 1 = 1 THEN s[k + 1] ELSE f[k + 1 - 1] \o s[k + 1]
  BY DEF Joins
<1>2. k + 1 - 1 = k /\ (k + 1 = 1 <=> k = 0)
  OBVIOUS
<1>. QED BY <1>1, <1>2

LEMMA JoinExists ==
  ASSUME NEW X, NEW s \in Seq(Seq(X))
  PROVE  \E f \in [1 .. Len(s) -> Seq(X)] : Joins(f, s, Len(s))
<1> DEFINE n == Len(s)
           T == {k \in Nat : k <= n => \E f \in [1 .. k -> Seq(X)] : Joins(f, s, k)}
<1>1. n \in Nat /\ \A i \in 1 .. n : s[i] \in Seq(X)
  BY LenProperties, ElementOfSeq
<1> HIDE DEF n
<1>2. 0 \in T
  <2>1. Joins([i \in 1 .. 0 |-> <<>>], s, 0) /\ [i \in 1 .. 0 |-> <<>>] \in [1 .. 0 -> Seq(X)]
    BY DEF Joins
  <2>. QED BY <2>1
<1>3. ASSUME NEW k \in Nat, k \in T PROVE k + 1 \in T
  <2>0. k + 1 \in Nat
    OBVIOUS
  <2> SUFFICES ASSUME k + 1 <= n
               PROVE  \E f \in [1 .. k + 1 -> Seq(X)] : Joins(f, s, k + 1)
    BY <2>0
  <2>1. PICK f \in [1 .. k -> Seq(X)] : Joins(f, s, k)
    BY <1>1, <1>3
  <2> DEFINE last == IF k = 0 THEN s[k + 1] ELSE f[k] \o s[k + 1]
             g == [i \in 1 .. k + 1 |-> IF i = k + 1 THEN last ELSE f[i]]
  <2>2. last \in Seq(X)
    <3>1. s[k + 1] \in Seq(X)
      BY <1>1
    <3>2. CASE k = 0
      BY <3>1, <3>2
    <3>3. CASE k # 0
      <4>1. f[k] \in Seq(X)
        BY <3>3
      <4>. QED BY <3>1, <3>3, <4>1, ConcatProperties
    <3>. QED BY <3>2, <3>3
  <2>3. g[k + 1] = last /\ \A i \in 1 .. k : g[i] = f[i]
    <3> HIDE DEF last
    <3>. QED OBVIOUS
  <2>4. g \in [1 .. k + 1 -> Seq(X)]
    <3> HIDE DEF last
    <3>. QED BY <2>2
  <2> HIDE DEF g
  <2>5. ASSUME NEW i \in 1 .. k + 1
        PROVE  g[i] = IF i = 1 THEN s[i] ELSE g[i - 1] \o s[i]
    <3>1. CASE i = k + 1
      <4>1. k # 0 => g[k] = f[k]
        BY <2>3
      <4>. QED BY <3>1, <2>3, <4>1
    <3>2. CASE i \in 1 .. k
      <4>1. f[i] = IF i = 1 THEN s[i] ELSE f[i - 1] \o s[i]
        BY <3>2, <2>1 DEF Joins
      <4>2. i # 1 => i - 1 \in 1 .. k
        BY <3>2
      <4>. QED BY <3>2, <4>1, <4>2, <2>3
    <3>. QED BY <3>1, <3>2
  <2>. QED BY <2>4, <2>5 DEF Joins
<1>4. Nat \subseteq T
  <2> HIDE DEF T
  <2>. QED BY <1>2, <1>3, Induction
<1>. QED BY <1>1, <1>4 DEF n

LEMMA JoinIsOne ==
  ASSUME NEW s, NEW n \in Nat, NEW f, NEW g, Joins(f, s, n), Joins(g, s, n)
  PROVE  \A i \in 1 .. n : f[i] = g[i]
<1> DEFINE T == {k \in Nat : k \in 1 .. n => f[k] = g[k]}
<1>1. 0 \in T
  OBVIOUS
<1>2. ASSUME NEW k \in Nat, k \in T PROVE k + 1 \in T
  <2>1. k + 1 \in 1 .. n =>
          /\ f[k + 1] = IF k + 1 = 1 THEN s[k + 1] ELSE f[k] \o s[k + 1]
          /\ g[k + 1] = IF k + 1 = 1 THEN s[k + 1] ELSE g[k] \o s[k + 1]
    BY k + 1 - 1 = k DEF Joins
  <2>2. k + 1 \in 1 .. n /\ k + 1 # 1 => f[k] = g[k]
    BY <1>2
  <2>. QED BY <2>1, <2>2
<1>3. Nat \subseteq T
  <2> HIDE DEF T
  <2>. QED BY <1>1, <1>2, Induction
<1>. QED BY <1>3

(* The first n sequences of s, one behind the other. *)
Joined(s, n) == FlattenSeq(SubSeq(s, 1, n))

LEMMA JoinedIs ==
  ASSUME NEW X, NEW s \in Seq(Seq(X)), NEW f \in [1 .. Len(s) -> Seq(X)], Joins(f, s, Len(s)),
         NEW n \in 0 .. Len(s)
  PROVE  Joined(s, n) = IF n = 0 THEN <<>> ELSE f[n]
<1> DEFINE t == SubSeq(s, 1, n)
<1>1. Len(s) \in Nat /\ n \in Nat /\ n <= Len(s)
  BY LenProperties
<1>2. Len(t) = n /\ \A i \in 1 .. n : t[i] = s[i]
  <2>1. \A i \in 1 .. n : s[i] \in Seq(X)
    BY <1>1, ElementOfSeq
  <2>2. /\ Len(t) = IF 1 <= n THEN n - 1 + 1 ELSE 0
        /\ \A i \in 1 .. n - 1 + 1 : t[i] = s[1 + i - 1]
    BY <1>1, <2>1, SubSeqProperties
  <2>. QED BY <1>1, <2>2
<1>3. CASE n = 0
  <2>1. t = <<>>
    BY <1>3
  <2>. QED BY <1>2, <1>3, <2>1 DEF Joined, FlattenSeq
<1>4. CASE n # 0
  <2> DEFINE Eq(g) == g = [i \in 1 .. n |-> IF i = 1 THEN t[i] ELSE g[i - 1] \o t[i]]
             h == CHOOSE g : Eq(g)
             f1 == [i \in 1 .. n |-> f[i]]
  <2>1. Joined(s, n) = h[n]
    BY <1>2, <1>4 DEF Joined, FlattenSeq
  <2>2. Eq(f1)
    <3> SUFFICES ASSUME NEW i \in 1 .. n
                 PROVE  f1[i] = IF i = 1 THEN t[i] ELSE f1[i - 1] \o t[i]
      OBVIOUS
    <3>1. i \in 1 .. Len(s) /\ t[i] = s[i] /\ (i # 1 => i - 1 \in 1 .. n)
      BY <1>1, <1>2
    <3>2. f[i] = IF i = 1 THEN s[i] ELSE f[i - 1] \o s[i]
      BY <3>1 DEF Joins
    <3> HIDE DEF t
    <3>. QED BY <3>1, <3>2
  <2>3. Eq(h)
    BY <2>2
  <2> HIDE DEF h
  <2>4. Joins(h, s, n)
    <3> SUFFICES ASSUME NEW i \in 1 .. n
                 PROVE  h[i] = IF i = 1 THEN s[i] ELSE h[i - 1] \o s[i]
      BY DEF Joins
    <3>1. h[i] = IF i = 1 THEN t[i] ELSE h[i - 1] \o t[i]
      BY <2>3
    <3>. QED BY <3>1, <1>2
  <2>5. Joins(f, s, n)
    BY <1>1, JoinsFewer
  <2>6. h[n] = f[n]
    BY <1>1, <1>4, <2>4, <2>5, JoinIsOne
  <2>. QED BY <1>4, <2>1, <2>6
<1>. QED BY <1>3, <1>4

(* What a sequence more adds. *)
LEMMA JoinedGrows ==
  ASSUME NEW X, NEW s \in Seq(Seq(X))
  PROVE  /\ Joined(s, 0) = <<>>
         /\ \A n \in 0 .. Len(s) : Joined(s, n) \in Seq(X)
         /\ \A n \in 0 .. Len(s) - 1 : Joined(s, n + 1) = Joined(s, n) \o s[n + 1]
         /\ Joined(s, Len(s)) = FlattenSeq(s)
<1>1. PICK f \in [1 .. Len(s) -> Seq(X)] : Joins(f, s, Len(s))
  BY JoinExists
<1>2. Len(s) \in Nat /\ \A i \in 1 .. Len(s) : s[i] \in Seq(X)
  BY LenProperties, ElementOfSeq
<1>3. \A n \in 0 .. Len(s) : Joined(s, n) = IF n = 0 THEN <<>> ELSE f[n]
  BY <1>1, JoinedIs
<1>4. Joined(s, 0) = <<>>
  BY <1>2, <1>3
<1>5. ASSUME NEW n \in 0 .. Len(s)
      PROVE  Joined(s, n) \in Seq(X)
  <2>1. n # 0 => n \in 1 .. Len(s)
    BY <1>2
  <2>2. n # 0 => f[n] \in Seq(X)
    BY <2>1
  <2>3. <<>> \in Seq(X)
    OBVIOUS
  <2>. QED BY <1>3, <2>2, <2>3
<1>6. ASSUME NEW n \in 0 .. Len(s) - 1
      PROVE  Joined(s, n + 1) = Joined(s, n) \o s[n + 1]
  <2>1. n + 1 \in 1 .. Len(s) /\ n \in Nat /\ n + 1 \in 0 .. Len(s) /\ n \in 0 .. Len(s)
    BY <1>2
  <2>2. f[n + 1] = IF n = 0 THEN s[n + 1] ELSE f[n] \o s[n + 1]
    BY <1>1, <1>2, <2>1, JoinStep
  <2>4. Joined(s, n + 1) = f[n + 1]
    BY <1>3, <2>1
  <2>5. CASE n = 0
    <3>1. Joined(s, n) = <<>> /\ s[n + 1] \in Seq(X)
      BY <1>4, <1>2, <2>1, <2>5
    <3>2. <<>> \o s[n + 1] = s[n + 1]
      BY <3>1, ConcatEmptySeq
    <3>. QED BY <2>2, <2>4, <2>5, <3>1, <3>2
  <2>6. CASE n # 0
    <3>1. Joined(s, n) = f[n]
      BY <1>3, <2>1, <2>6
    <3>. QED BY <2>2, <2>4, <2>6, <3>1
  <2>. QED BY <2>5, <2>6
<1>7. Joined(s, Len(s)) = FlattenSeq(s)
  <2>1. SubSeq(s, 1, Len(s)) = s
    BY SubSeqFull
  <2>. QED BY <2>1 DEF Joined
<1>. QED BY <1>4, <1>5, <1>6, <1>7

(* What has been joined stays, whatever is joined behind it.               *)
LEMMA JoinedStays ==
  ASSUME NEW X, NEW s \in Seq(Seq(X)), NEW m \in 0 .. Len(s), NEW n \in m .. Len(s)
  PROVE  /\ Len(Joined(s, m)) \in Nat /\ Len(Joined(s, n)) \in Nat
         /\ Len(Joined(s, m)) <= Len(Joined(s, n))
         /\ \A i \in 1 .. Len(Joined(s, m)) : Joined(s, n)[i] = Joined(s, m)[i]
<1> DEFINE J(k) == Joined(s, k)
           Stays(k) == /\ Len(J(m)) <= Len(J(k))
                       /\ \A i \in 1 .. Len(J(m)) : J(k)[i] = J(m)[i]
           T == {d \in Nat : m + d <= Len(s) => Stays(m + d)}
<1>1. Len(s) \in Nat /\ m \in Nat /\ n \in Nat /\ m <= n /\ n <= Len(s)
  BY LenProperties
<1>2. \A k \in 0 .. Len(s) : J(k) \in Seq(X) /\ Len(J(k)) \in Nat
  <2>1. \A k \in 0 .. Len(s) : J(k) \in Seq(X)
    BY JoinedGrows
  <2>. QED BY <2>1, LenProperties
<1>3. ASSUME NEW k \in 0 .. Len(s) - 1
      PROVE  /\ Len(J(k)) <= Len(J(k + 1))
             /\ \A i \in 1 .. Len(J(k)) : J(k + 1)[i] = J(k)[i]
  <2>1. k \in 0 .. Len(s) /\ k + 1 \in 1 .. Len(s)
    BY <1>1
  <2>2. s[k + 1] \in Seq(X)
    BY <2>1, ElementOfSeq
  <2>3. J(k + 1) = J(k) \o s[k + 1]
    BY JoinedGrows
  <2>4. Len(s[k + 1]) \in Nat /\ Len(J(k)) \in Nat /\ J(k) \in Seq(X)
    BY <1>2, <2>1, <2>2, LenProperties
  <2> HIDE DEF J
  <2>5. /\ Len(J(k) \o s[k + 1]) = Len(J(k)) + Len(s[k + 1])
        /\ \A i \in 1 .. Len(J(k)) + Len(s[k + 1]) :
             (J(k) \o s[k + 1])[i] = IF i <= Len(J(k)) THEN J(k)[i] ELSE s[k + 1][i - Len(J(k))]
    BY <2>2, <2>4, ConcatProperties
  <2>. QED BY <2>3, <2>4, <2>5
<1> HIDE DEF J
<1>4. 0 \in T
  <2>1. m + 0 = m /\ m \in 0 .. Len(s)
    BY <1>1
  <2>2. Stays(m)
    BY <1>2, <2>1
  <2>. QED BY <2>1, <2>2
<1>5. ASSUME NEW d \in Nat, d \in T PROVE d + 1 \in T
  <2> SUFFICES ASSUME m + (d + 1) <= Len(s) PROVE Stays(m + (d + 1))
    OBVIOUS
  <2>1. m + d \in 0 .. Len(s) - 1 /\ m + (d + 1) = (m + d) + 1 /\ m \in 0 .. Len(s)
        /\ m + d \in 0 .. Len(s) /\ (m + d) + 1 \in 0 .. Len(s)
    BY <1>1
  <2>2. Stays(m + d)
    BY <1>5, <2>1
  <2>3. /\ Len(J(m + d)) <= Len(J((m + d) + 1))
        /\ \A i \in 1 .. Len(J(m + d)) : J((m + d) + 1)[i] = J(m + d)[i]
    BY <1>3, <2>1
  <2>4. Len(J(m)) \in Nat /\ Len(J(m + d)) \in Nat /\ Len(J((m + d) + 1)) \in Nat
    BY <1>2, <2>1
  <2>5. Stays((m + d) + 1)
    <3>1. Len(J(m)) <= Len(J((m + d) + 1))
      BY <2>2, <2>3, <2>4
    <3>2. ASSUME NEW i \in 1 .. Len(J(m)) PROVE J((m + d) + 1)[i] = J(m)[i]
      <4>1. i \in 1 .. Len(J(m + d))
        BY <2>2, <2>4
      <4>. QED BY <4>1, <2>2, <2>3
    <3>. QED BY <3>1, <3>2
  <2>. QED BY <2>1, <2>5
<1>6. Nat \subseteq T
  <2> HIDE DEF T
  <2>. QED BY <1>4, <1>5, Induction
<1>7. n - m \in Nat /\ m + (n - m) = n /\ m \in 0 .. Len(s) /\ n \in 0 .. Len(s)
  BY <1>1
<1>8. Stays(n)
  <2> HIDE DEF Stays
  <2>1. n - m \in T
    BY <1>6, <1>7
  <2>. QED BY <2>1, <1>1, <1>7
<1>9. Len(J(m)) \in Nat /\ Len(J(n)) \in Nat
  BY <1>2, <1>7
<1>. QED BY <1>8, <1>9 DEF J

(* The place of what a sequence more adds. *)
LEMMA JoinedParts ==
  ASSUME NEW X, NEW s \in Seq(Seq(X)), NEW n \in 0 .. Len(s) - 1
  PROVE  LET whole == FlattenSeq(s)
         IN  /\ s[n + 1] \in Seq(X) /\ Len(s[n + 1]) \in Nat
             /\ Len(Joined(s, n + 1)) = Len(Joined(s, n)) + Len(s[n + 1])
             /\ Len(Joined(s, n)) \in Nat
             /\ whole \in Seq(X) /\ Len(whole) \in Nat
             /\ Len(Joined(s, n + 1)) <= Len(whole)
             /\ \A j \in 1 .. Len(s[n + 1]) : whole[Len(Joined(s, n)) + j] = s[n + 1][j]
<1> DEFINE whole == FlattenSeq(s)
           l == Len(Joined(s, n))
           k == Len(s[n + 1])
<1>1. Len(s) \in Nat /\ n \in Nat /\ n + 1 \in 1 .. Len(s) /\ n \in 0 .. Len(s)
      /\ n + 1 \in 0 .. Len(s) /\ Len(s) \in n + 1 .. Len(s) /\ Len(s) \in 0 .. Len(s)
  <2>1. Len(s) \in Nat
    BY LenProperties
  <2>. QED BY <2>1
<1>2. s[n + 1] \in Seq(X) /\ k \in Nat
  BY <1>1, ElementOfSeq, LenProperties
<1>3. /\ Joined(s, n) \in Seq(X) /\ Joined(s, n + 1) = Joined(s, n) \o s[n + 1]
      /\ whole = Joined(s, Len(s)) /\ whole \in Seq(X)
  BY <1>1, JoinedGrows
<1>4. l \in Nat /\ Len(whole) \in Nat
  BY <1>3, LenProperties
<1>5. /\ Len(Joined(s, n + 1)) <= Len(whole)
      /\ \A i \in 1 .. Len(Joined(s, n + 1)) : whole[i] = Joined(s, n + 1)[i]
  <2> HIDE DEF whole
  <2>. QED BY <1>1, <1>3, JoinedStays
<1>6. /\ Len(Joined(s, n + 1)) = l + k
      /\ \A i \in 1 .. l + k :
           Joined(s, n + 1)[i] = IF i <= l THEN Joined(s, n)[i] ELSE s[n + 1][i - l]
  BY <1>2, <1>3, ConcatProperties
<1>7. ASSUME NEW j \in 1 .. k PROVE whole[l + j] = s[n + 1][j]
  <2> HIDE DEF whole, l, k
  <2>1. l + j \in 1 .. l + k /\ ~(l + j <= l) /\ (l + j) - l = j
    BY <1>2, <1>4
  <2>. QED BY <2>1, <1>5, <1>6
<1>. QED BY <1>2, <1>3, <1>4, <1>5, <1>6, <1>7

-----------------------------------------------------------------------------
(* UTF-8 once more.                                                        *)

LEMMA SixBits ==
  ASSUME NEW x \in Nat, NEW y \in 0 .. 63
  PROVE  (64 * x + y) \div 64 = x /\ (64 * x + y) % 64 = y
OBVIOUS

(* The bytes write_utf8 writes of a code point that needs so many, if      *)
(* there is room for them.                                                 *)
Bytes2(p) == <<192 + p \div 64, Trailing(p, 1)>>
Bytes3(p) == <<224 + p \div 4096, Trailing(p, 64), Trailing(p, 1)>>
Bytes4(p) == <<240 + p \div 262144, Trailing(p, 4096), Trailing(p, 64), Trailing(p, 1)>>

LEMMA Utf8Lengths ==
  ASSUME NEW p, IsCodePoint(p), NEW outsz \in Nat, NEW j \in Nat
  PROVE  LET bytes == WriteUtf8(p, outsz, j)
         IN  /\ Needs(p, 1) => bytes = <<p>>
             /\ Needs(p, 2) => bytes = IF j + 2 < outsz THEN Bytes2(p) ELSE <<>>
             /\ Needs(p, 3) => bytes = IF j + 3 < outsz THEN Bytes3(p) ELSE <<>>
             /\ Needs(p, 4) => bytes = IF j + 4 < outsz THEN Bytes4(p) ELSE <<>>
<1> DEFINE bytes == WriteUtf8(p, outsz, j)
           R1 == Needs(p, 1)
           R2 == Needs(p, 2)
           R3 == Needs(p, 3)
           R4 == Needs(p, 4)
           S2 == j + 2 < outsz
           S3 == j + 3 < outsz
           S4 == j + 4 < outsz
           P1 == p <= 127
           P2 == 128 <= p /\ p <= 2047 /\ j + 2 < outsz
           P3 == 2048 <= p /\ p <= 65535 /\ j + 3 < outsz
           P4 == 65536 <= p /\ p <= 2097151 /\ j + 4 < outsz
           P5 == 2097152 <= p /\ p <= 4194303 /\ j + 5 < outsz
           P6 == 4194304 <= p /\ p <= Huge - 1 /\ j + 6 < outsz
           B2 == <<192 + p \div 64, Trailing(p, 1)>>
           B3 == <<224 + p \div 4096, Trailing(p, 64), Trailing(p, 1)>>
           B4 == <<240 + p \div 262144, Trailing(p, 4096), Trailing(p, 64), Trailing(p, 1)>>
           B5 == <<248, Trailing(p, 262144), Trailing(p, 4096), Trailing(p, 64), Trailing(p, 1)>>
           B6 == <<252, Trailing(p, 262144), Trailing(p, 4096), Trailing(p, 64), Trailing(p, 64),
                   Trailing(p, 1)>>
<1>0. p \in Nat /\ p <= LastCodePoint
  BY SMT DEF IsCodePoint
<1>1. R1 => P1
  BY <1>0, SMT DEF Needs
<1>2. R2 => ~P1 /\ (P2 <=> S2) /\ ~P3 /\ ~P4 /\ ~P5 /\ ~P6
  BY <1>0, SMT DEF Needs
<1>3. R3 => ~P1 /\ ~P2 /\ (P3 <=> S3) /\ ~P4 /\ ~P5 /\ ~P6
  BY <1>0, SMT DEF Needs
<1>4. R4 => ~P1 /\ ~P2 /\ ~P3 /\ (P4 <=> S4) /\ ~P5 /\ ~P6
  BY <1>0, SMT DEF Needs, LastCodePoint
<1>5. P1 => ~P2 /\ ~P3 /\ ~P4 /\ ~P5 /\ ~P6
  BY <1>0, SMT
<1>6. bytes = CASE P1 -> <<p>> [] P2 -> B2 [] P3 -> B3 [] P4 -> B4 [] P5 -> B5 [] P6 -> B6
                [] OTHER -> <<>>
  BY DEF WriteUtf8
<1> HIDE DEF bytes, R1, R2, R3, R4, S2, S3, S4, P1, P2, P3, P4, P5, P6, B2, B3, B4, B5, B6
<1>7. R1 => bytes = <<p>>
  BY <1>1, <1>5, <1>6
<1>8. R2 => bytes = IF S2 THEN B2 ELSE <<>>
  BY <1>2, <1>6
<1>9. R3 => bytes = IF S3 THEN B3 ELSE <<>>
  BY <1>3, <1>6
<1>10. R4 => bytes = IF S4 THEN B4 ELSE <<>>
  BY <1>4, <1>6
<1>11. B2 = Bytes2(p) /\ B3 = Bytes3(p) /\ B4 = Bytes4(p)
  BY SMT DEF B2, B3, B4, Bytes2, Bytes3, Bytes4
<1> HIDE DEF B2, B3, B4
<1>. QED BY <1>7, <1>8, <1>9, <1>10, <1>11 DEF bytes, R1, R2, R3, R4, S2, S3, S4

(* What write_utf8 writes of a code point is its UTF-8, if there is room.  *)
LEMMA WritesUtf8 ==
  ASSUME NEW b, NEW p, IsCodePoint(p), IsUtf8(b, p), NEW outsz \in Nat, NEW j \in Nat
  PROVE  /\ b \in Seq(Byte) /\ Len(b) \in 1 .. 4
         /\ WriteUtf8(p, outsz, j) = IF Len(b) = 1 \/ j + Len(b) < outsz THEN b ELSE <<>>
<1>1. /\ b \in Seq(Byte) /\ \A i \in 2 .. Len(b) : b[i] \in 128 .. 191
      /\ Len(b) \in 1 .. 4 /\ Needs(p, Len(b)) /\ p = Bits(b)
  BY SMT DEF IsUtf8, Needs
<1>2. \A i \in 1 .. Len(b) : b[i] \in Nat
  <2>1. \A i \in 1 .. Len(b) : b[i] \in Byte
    BY <1>1, ElementOfSeq
  <2>2. Byte \subseteq Nat
    BY DEF Byte
  <2>. QED BY <2>1, <2>2
<1>3. p \in Nat
  BY SMT DEF IsCodePoint
<1>8. p \div 1 = p
  BY <1>3, SMT
<1> DEFINE y2 == b[2] - 128
           y3 == b[3] - 128
           y4 == b[4] - 128
           bytes == WriteUtf8(p, outsz, j)
<1>4. CASE Len(b) = 1
  <2>1. p = b[1]
    BY <1>1, <1>4 DEF Bits
  <2>2. b = <<p>>
    BY <1>1, <1>4, <2>1
  <2>3. bytes = <<p>>
    BY <1>1, <1>3, <1>4, Utf8Lengths
  <2>. QED BY <1>1, <1>3, <1>4, <2>2, <2>3
<1>5. CASE Len(b) = 2
  <2> DEFINE x == b[1] - 192
  <2>1. y2 \in 0 .. 63 /\ b[1] \in Nat /\ b[2] \in Nat
    BY <1>1, <1>2, <1>5
  <2>2. p = 64 * x + y2
    BY <1>1, <1>5, SMT DEF Bits
  <2>3. x \in Int /\ b[1] = 192 + x /\ b[2] = 128 + y2
    BY <2>1
  <2> HIDE DEF x, y2
  <2>4. x \in Nat
    BY <1>3, <2>1, <2>2, <2>3
  <2>5. p \div 64 = x /\ p % 64 = y2
    BY <1>3, <2>1, <2>2, <2>4, SixBits
  <2>6. bytes = IF j + 2 < outsz THEN Bytes2(p) ELSE <<>>
    BY <1>1, <1>3, <1>5, Utf8Lengths
  <2>7. b = <<b[1], b[2]>>
    BY <1>1, <1>5
  <2>8. Bytes2(p) = b
    BY <1>8, <2>3, <2>5, <2>7 DEF Trailing, Bytes2
  <2>. QED BY <1>1, <1>3, <1>5, <2>6, <2>8
<1>6. CASE Len(b) = 3
  <2> DEFINE x == b[1] - 224
             u == 64 * x + y2
  <2>1. y2 \in 0 .. 63 /\ y3 \in 0 .. 63 /\ b[1] \in Nat /\ b[2] \in Nat /\ b[3] \in Nat
    BY <1>1, <1>2, <1>6
  <2>2. p = 64 * u + y3
    BY <1>1, <1>6, SMT DEF Bits
  <2>3. x \in Int /\ b[1] = 224 + x /\ b[2] = 128 + y2 /\ b[3] = 128 + y3
    BY <2>1
  <2> HIDE DEF x, y2, y3
  <2>4. x \in Nat /\ u \in Nat
    BY <1>3, <2>1, <2>2, <2>3
  <2>5. u \div 64 = x /\ u % 64 = y2
    BY <2>1, <2>4, SixBits
  <2>6. p \div 4096 = x
    BY <2>1, <2>2, <2>4, SMT
  <2> HIDE DEF u
  <2>7. p \div 64 = u /\ p % 64 = y3
    BY <1>3, <2>1, <2>2, <2>4, SixBits
  <2>8. bytes = IF j + 3 < outsz THEN Bytes3(p) ELSE <<>>
    BY <1>1, <1>3, <1>6, Utf8Lengths
  <2>9. b = <<b[1], b[2], b[3]>>
    BY <1>1, <1>6
  <2>10. Bytes3(p) = b
    BY <1>8, <2>3, <2>5, <2>6, <2>7, <2>9, SMT DEF Trailing, Bytes3
  <2>. QED BY <1>1, <1>3, <1>6, <2>8, <2>10
<1>7. CASE Len(b) = 4
  <2> DEFINE x == b[1] - 240
             u == 64 * x + y2
             v == 64 * u + y3
  <2>1. /\ y2 \in 0 .. 63 /\ y3 \in 0 .. 63 /\ y4 \in 0 .. 63
        /\ b[1] \in Nat /\ b[2] \in Nat /\ b[3] \in Nat /\ b[4] \in Nat
    BY <1>1, <1>2, <1>7
  <2>2. p = 64 * v + y4
    BY <1>1, <1>7, SMT DEF Bits
  <2>3. x \in Int /\ b[1] = 240 + x /\ b[2] = 128 + y2 /\ b[3] = 128 + y3 /\ b[4] = 128 + y4
    BY <2>1
  <2> HIDE DEF x, y2, y3, y4
  <2>4. x \in Nat /\ u \in Nat /\ v \in Nat
    BY <1>3, <2>1, <2>2, <2>3
  <2>5. v \div 64 = u /\ v % 64 = y3 /\ u \div 64 = x /\ u % 64 = y2
    BY <2>1, <2>4, SixBits
  <2>6. p \div 4096 = u /\ p \div 262144 = x
    BY <2>1, <2>2, <2>4, SMT
  <2> HIDE DEF u, v
  <2>7. p \div 64 = v /\ p % 64 = y4
    BY <1>3, <2>1, <2>2, <2>4, SixBits
  <2>8. bytes = IF j + 4 < outsz THEN Bytes4(p) ELSE <<>>
    BY <1>1, <1>3, <1>7, Utf8Lengths
  <2>9. b = <<b[1], b[2], b[3], b[4]>>
    BY <1>1, <1>7
  <2>10. Bytes4(p) = b
    BY <1>8, <2>3, <2>5, <2>6, <2>7, <2>9, SMT DEF Trailing, Bytes4
  <2>. QED BY <1>1, <1>3, <1>7, <2>8, <2>10
<1>. QED BY <1>1, <1>4, <1>5, <1>6, <1>7
-----------------------------------------------------------------------------
(* Conversions keep the text.                                              *)

(* The halves of a pair in UTF-16, and what the code makes of them again.  *)
LEMMA PairIs ==
  ASSUME NEW p, IsCodePoint(p), p > 65535
  PROVE  LET high == 55296 + (p - 65536) \div 1024
             low  == 56320 + ((p - 65536) % 1024)
         IN  high \in High /\ low \in Low /\ SurrogatePair(high, low) = p
<1> DEFINE q == p - 65536
           x == q \div 1024
           y == q % 1024
<1>1. q \in Nat /\ q <= 1048575 /\ p = 65536 + q
  BY SMT DEF IsCodePoint, LastCodePoint
<1> HIDE DEF q
<1>2. x \in 0 .. 1023 /\ y \in 0 .. 1023 /\ q = 1024 * x + y
  BY <1>1, SMT
<1> HIDE DEF x, y
<1>3. 55296 + x \in High /\ 56320 + y \in Low
  BY <1>2, SMT DEF High, Low
<1>4. SurrogatePair(55296 + x, 56320 + y) = p
  BY <1>1, <1>2, SMT DEF SurrogatePair
<1>. QED BY <1>3, <1>4, SMT DEF x, y, q

LEMMA HalvesDiffer ==
  /\ High \cap Low = {}
  /\ \A p : IsCodePoint(p) => p \in Nat /\ p \notin High /\ p \notin Low
<1>1. High \cap Low = {}
  BY SMT DEF High, Low
<1>. QED BY <1>1 DEF IsCodePoint

LEMMA WordsOfFacts ==
  ASSUME NEW p, IsCodePoint(p), NEW size \in {2, 4}
  PROVE  WordsOf(p, size) \in Seq(Nat) /\ Len(WordsOf(p, size)) \in 1 .. 2
<1>1. p \in Nat
  BY HalvesDiffer
<1>2. CASE size = 4 \/ p <= 65535
  <2>1. WordsOf(p, size) = <<p>>
    BY <1>2, SMT DEF WordsOf
  <2>. QED BY <1>1, <2>1
<1>3. CASE ~(size = 4 \/ p <= 65535)
  <2> DEFINE h == 55296 + (p - 65536) \div 1024
             l == 56320 + ((p - 65536) % 1024)
  <2>1. WordsOf(p, size) = <<h, l>>
    BY <1>3, SMT DEF WordsOf
  <2>2. p > 65535
    BY <1>1, <1>3, SMT
  <2>3. h \in High /\ l \in Low
    BY <2>2, PairIs
  <2> HIDE DEF h, l
  <2>4. h \in Nat /\ l \in Nat
    BY <2>3, SMT DEF High, Low
  <2>. QED BY <2>1, <2>4
<1>. QED BY <1>2, <1>3

LEMMA UnitsFacts ==
  ASSUME NEW points, IsText(points), NEW size \in {2, 4}
  PROVE  /\ Units(points, size) \in Seq(Seq(Nat)) /\ Len(Units(points, size)) = Len(points)
         /\ Len(points) \in Nat
         /\ \A i \in 1 .. Len(points) :
              /\ IsCodePoint(points[i])
              /\ Units(points, size)[i] = WordsOf(points[i], size)
              /\ Len(WordsOf(points[i], size)) \in 1 .. 2
<1> DEFINE n == Len(points)
<1>1. n \in Nat /\ \A i \in 1 .. n : IsCodePoint(points[i])
  BY LenProperties DEF IsText
<1> HIDE DEF n
<1>2. \A i \in 1 .. n : WordsOf(points[i], size) \in Seq(Nat) /\ Len(WordsOf(points[i], size)) \in 1 .. 2
  BY <1>1, WordsOfFacts
<1>3. Units(points, size) = [i \in 1 .. n |-> WordsOf(points[i], size)]
  BY DEF Units, n
<1>4. Units(points, size) \in [1 .. n -> Seq(Nat)]
  BY <1>2, <1>3
<1>5. Units(points, size) \in Seq(Seq(Nat)) /\ Len(Units(points, size)) = n
  <2>1. Units(points, size) \in Seq(Seq(Nat)) /\ DOMAIN Units(points, size) = 1 .. n
    BY <1>1, <1>4, SeqDef
  <2>. QED BY <1>1, <2>1, LenProperties
<1>. QED BY <1>1, <1>2, <1>3, <1>5 DEF n

(* What is known of a conversion whose bytes are those of a text.          *)
LEMMA TextFacts ==
  ASSUME Within, call = "convert", NEW text \in arg.means
  PROVE  /\ WordSize \in {2, 4} /\ IsText(text.points) /\ text.utf8 \in Seq(Seq(Byte))
         /\ Spells(text.utf8, text.points) /\ Len(text.utf8) = Len(text.points)
         /\ Encodes(arg.bytes, WordSize, text.points)
         /\ Tmpbuf = Append(arg.bytes, 0)
<1>1. arg \in Conversion
  BY ConvertFacts
<1>2. /\ IsText(text.points) /\ text.utf8 \in Seq(Seq(Byte)) /\ Spells(text.utf8, text.points)
      /\ \/ arg.order = "UCS_4" /\ Encodes(arg.bytes, 4, text.points)
         \/ arg.order = "UCS_2" /\ Encodes(arg.bytes, 2, text.points)
  BY <1>1, ConversionAssumption
<1>3. arg.order = "UCS_4" => WordSize = 4 /\ Tmpbuf = Append(arg.bytes, 0)
  BY DEF WordSize, Tmpbuf
<1>4. arg.order = "UCS_2" => WordSize = 2 /\ Tmpbuf = Append(arg.bytes, 0)
  BY DEF WordSize, Tmpbuf
<1>. QED BY <1>2, <1>3, <1>4 DEF Spells

LEMMA HighByte ==
  ASSUME NEW w \in Nat, NEW x \in Nat, NEW y \in Nat, NEW z \in Nat,
         w + 256 * x + (65536 * y + 16777216 * z) <= LastCodePoint
  PROVE  z = 0
BY SMT DEF LastCodePoint

(* The words the code reads are those of the text. *)
LEMMA WordIs ==
  ASSUME Within, call = "convert", NEW text \in arg.means
  PROVE  LET words == FlattenSeq(Units(text.points, WordSize))
         IN  /\ Words = Len(words)
             /\ \A k \in 1 .. Words :
                  words[k] \in Nat /\ (WordSize = 2 \/ words[k] <= LastCodePoint) => Word(k) = words[k]
<1> DEFINE words == FlattenSeq(Units(text.points, WordSize))
           size == WordSize
           room == Len(arg.bytes)
           count == Len(words)
<1>1. /\ size \in {2, 4} /\ IsText(text.points) /\ Encodes(arg.bytes, size, text.points)
      /\ Tmpbuf = Append(arg.bytes, 0)
  BY TextFacts
<1>2. words \in Seq(Nat) /\ count \in Nat
  <2>1. Units(text.points, size) \in Seq(Seq(Nat))
    BY <1>1, UnitsFacts
  <2>. QED BY <2>1, JoinedGrows, LenProperties
<1>3. room = size * count /\ \A k \in 1 .. count : words[k] = LittleEndian(arg.bytes, size, k)
  BY <1>1 DEF Encodes
<1>4. arg.bytes \in Seq(Byte) /\ room \in Nat
  BY ConvertFacts
<1> HIDE DEF words, count, room
<1>5. Words = count
  <2>1. Words = room \div size
    BY DEF Words, room
  <2> HIDE DEF size
  <2>. QED BY <1>1, <1>2, <1>3, <2>1
<1>6. \A i \in 1 .. room : Tmpbuf[i] = arg.bytes[i] /\ arg.bytes[i] \in 0 .. 255
  <2>1. \A i \in 1 .. room : Append(arg.bytes, 0)[i] = arg.bytes[i] /\ arg.bytes[i] \in Byte
    BY <1>4, ElementOfSeq, AppendProperties DEF room
  <2>. QED BY <1>1, <2>1 DEF Byte
<1>7. ASSUME NEW k \in 1 .. count, words[k] \in Nat, size = 2 \/ words[k] <= LastCodePoint
      PROVE  Word(k) = words[k]
  <2> DEFINE b(i) == arg.bytes[size * (k - 1) + i]
             c(i) == Tmpbuf[size * (k - 1) + i]
  <2>1. \A i \in 1 .. size : size * (k - 1) + i \in 1 .. room
    <3> HIDE DEF size
    <3>. QED BY <1>1, <1>2, <1>3
  <2>2. \A i \in 1 .. size : c(i) = b(i) /\ b(i) \in 0 .. 255
    BY <1>6, <2>1
  <2> HIDE DEF b, c
  <2>3. CASE size = 2
    <3>1. Word(k) = c(1) + 256 * c(2)
      BY <2>3 DEF Word, c
    <3>2. LittleEndian(arg.bytes, size, k) = b(1) + 256 * b(2) + 0
      BY <2>3 DEF LittleEndian, b
    <3>3. words[k] = LittleEndian(arg.bytes, size, k)
      BY <1>3
    <3>4. b(1) \in Nat /\ b(2) \in Nat /\ c(1) = b(1) /\ c(2) = b(2)
      BY <2>2, <2>3
    <3> HIDE DEF size
    <3>5. b(1) + 256 * b(2) + 0 = b(1) + 256 * b(2)
      BY <3>4
    <3>. QED BY <3>1, <3>2, <3>3, <3>4, <3>5
  <2>4. CASE size = 4
    <3>1. Word(k) = IF c(4) # 0 THEN Huge ELSE c(1) + 256 * c(2) + 65536 * c(3)
      BY <2>4, 4 # 2, SMT DEF Word, c
    <3>2. LittleEndian(arg.bytes, size, k) = b(1) + 256 * b(2) + (65536 * b(3) + 16777216 * b(4))
      BY <2>4, 4 # 2, SMT DEF LittleEndian, b
    <3>3. words[k] = LittleEndian(arg.bytes, size, k) /\ words[k] <= LastCodePoint
      BY <1>3, <1>7, <2>4, SMT
    <3>4. /\ b(1) \in 0 .. 255 /\ b(2) \in 0 .. 255 /\ b(3) \in 0 .. 255 /\ b(4) \in 0 .. 255
          /\ c(1) = b(1) /\ c(2) = b(2) /\ c(3) = b(3) /\ c(4) = b(4)
      BY <2>2, <2>4
    <3> HIDE DEF size
    <3>5. b(4) = 0
      <4>1. b(1) \in Nat /\ b(2) \in Nat /\ b(3) \in Nat /\ b(4) \in Nat
        BY <3>4
      <4>2. b(1) + 256 * b(2) + (65536 * b(3) + 16777216 * b(4)) <= LastCodePoint
        BY <3>2, <3>3, SMT
      <4> DEFINE w == b(1)
                 x == b(2)
                 y == b(3)
                 z == b(4)
      <4>3. w \in Nat /\ x \in Nat /\ y \in Nat /\ z \in Nat
            /\ w + 256 * x + (65536 * y + 16777216 * z) <= LastCodePoint
        BY <4>1, <4>2, SMT
      <4> HIDE DEF w, x, y, z
      <4>4. z = 0
        BY <4>3, SMT DEF LastCodePoint
      <4>. QED BY <4>4, SMT DEF z
    <3>. QED BY <3>1, <3>2, <3>3, <3>4, <3>5, SMT
  <2>. QED BY <1>1, <2>3, <2>4
<1>. QED BY <1>5, <1>7 DEF words, count

-----------------------------------------------------------------------------
(* Where a conversion of a text is: so many words have been read and so    *)
(* much UTF-8 written as n of its code points have; and if it has          *)
(* returned, that is all of them, or there is no room for the whole text.  *)
KeptSoFar(text, size, outsz, place, bytes, how, n) ==
  /\ place = Len(Joined(Units(text.points, size), n)) + 1
  /\ bytes = Joined(text.utf8, n)
  /\ how = "ok" => n = Len(text.points) \/ Len(FlattenSeq(text.utf8)) >= outsz

Kept(text, size, outsz, place, bytes, how) ==
  \E n \in 0 .. Len(text.points) : KeptSoFar(text, size, outsz, place, bytes, how, n)

KeepInv ==
  /\ Within
  /\ call = "convert" =>
       \A text \in arg.means : Kept(text, WordSize, arg.outsz, at, out, done)

(* What a code point more is in words and in UTF-8, and what the code      *)
(* reads and writes of it.                                                 *)
LEMMA PointFacts ==
  ASSUME Within, call = "convert", NEW text \in arg.means, NEW n \in 0 .. Len(text.points) - 1,
         KeptSoFar(text, WordSize, arg.outsz, at, out, done, n)
  PROVE  LET p     == text.points[n + 1]
             words == WordsOf(p, WordSize)
             b     == text.utf8[n + 1]
         IN  /\ IsCodePoint(p)
             /\ Len(words) \in 1 .. 2 /\ at + Len(words) - 1 <= Words
             /\ at + Len(words) = Len(Joined(Units(text.points, WordSize), n + 1)) + 1
             /\ \A j \in 1 .. Len(words) :
                  words[j] \in Nat /\ (WordSize = 2 \/ words[j] <= LastCodePoint)
                    => Word(at + j - 1) = words[j]
             /\ out \o b = Joined(text.utf8, n + 1)
             /\ Len(b) \in 1 .. 4
             /\ WriteUtf8(p, arg.outsz, Len(out))
                  = IF Len(b) = 1 \/ Len(out) + Len(b) < arg.outsz THEN b ELSE <<>>
             /\ Len(out) + Len(b) <= Len(FlattenSeq(text.utf8))
<1> DEFINE p == text.points[n + 1]
           U == Units(text.points, WordSize)
           words == WordsOf(p, WordSize)
           b == text.utf8[n + 1]
           count == Len(text.points)
<1>1. /\ WordSize \in {2, 4} /\ IsText(text.points) /\ text.utf8 \in Seq(Seq(Byte))
      /\ Spells(text.utf8, text.points) /\ Len(text.utf8) = count
  BY TextFacts
<1>2. /\ U \in Seq(Seq(Nat)) /\ Len(U) = count /\ count \in Nat
      /\ \A i \in 1 .. count : /\ IsCodePoint(text.points[i])
                               /\ U[i] = WordsOf(text.points[i], WordSize)
                               /\ Len(WordsOf(text.points[i], WordSize)) \in 1 .. 2
  BY <1>1, UnitsFacts
<1>3. n \in Nat /\ n + 1 \in 1 .. count /\ n \in 0 .. count
  BY <1>2
<1>4. IsCodePoint(p) /\ U[n + 1] = words /\ Len(words) \in 1 .. 2
  BY <1>2, <1>3
<1>5. IsUtf8(b, p)
  BY <1>1, <1>3 DEF Spells
<1>6. at = Len(Joined(U, n)) + 1 /\ out = Joined(text.utf8, n)
  BY DEF KeptSoFar
<1>7. arg.outsz \in Nat /\ Len(out) \in Nat
  BY ConvertFacts
<1>8. /\ Len(b) \in 1 .. 4
      /\ WriteUtf8(p, arg.outsz, Len(out))
           = IF Len(b) = 1 \/ Len(out) + Len(b) < arg.outsz THEN b ELSE <<>>
  BY <1>4, <1>5, <1>7, WritesUtf8
<1>9. Words = Len(FlattenSeq(U))
      /\ \A k \in 1 .. Words :
           FlattenSeq(U)[k] \in Nat /\ (WordSize = 2 \/ FlattenSeq(U)[k] <= LastCodePoint)
             => Word(k) = FlattenSeq(U)[k]
  BY WordIs
<1> HIDE DEF U, words, b, p
<1>10. /\ Len(Joined(U, n + 1)) = Len(Joined(U, n)) + Len(words) /\ Len(Joined(U, n)) \in Nat
       /\ Len(FlattenSeq(U)) \in Nat /\ Len(Joined(U, n + 1)) <= Len(FlattenSeq(U))
       /\ \A j \in 1 .. Len(words) : FlattenSeq(U)[Len(Joined(U, n)) + j] = words[j]
  <2>1. U \in Seq(Seq(Nat)) /\ n \in 0 .. Len(U) - 1 /\ U[n + 1] = words
    BY <1>2, <1>4
  <2> HIDE DEF count
  <2>. QED BY <2>1, JoinedParts
<1>11. out \o b = Joined(text.utf8, n + 1)
  <2>1. n \in 0 .. Len(text.utf8) - 1
    BY <1>1
  <2>. QED BY <1>1, <1>6, <2>1, JoinedGrows DEF b
<1>12. Len(out) + Len(b) <= Len(FlattenSeq(text.utf8))
  <2>1. n \in 0 .. Len(text.utf8) - 1
    BY <1>1
  <2>2. /\ Len(Joined(text.utf8, n + 1)) = Len(Joined(text.utf8, n)) + Len(b)
        /\ Len(Joined(text.utf8, n + 1)) <= Len(FlattenSeq(text.utf8))
    BY <1>1, <2>1, JoinedParts DEF b
  <2>. QED BY <1>6, <2>2
<1>13. at + Len(words) - 1 <= Words /\ at + Len(words) = Len(Joined(U, n + 1)) + 1
  <2> DEFINE l == Len(Joined(U, n))
             l1 == Len(Joined(U, n + 1))
             w == Len(words)
             all == Len(FlattenSeq(U))
  <2>1. /\ at = l + 1 /\ Words = all /\ l1 = l + w /\ l \in Nat /\ all \in Nat /\ l1 <= all
        /\ w \in Nat
    BY <1>4, <1>6, <1>9, <1>10
  <2> HIDE DEF l, l1, w, all
  <2>2. at + w - 1 <= Words /\ at + w = l1 + 1
    BY <2>1
  <2>. QED BY <2>2 DEF l1, w
<1>14. ASSUME NEW j \in 1 .. Len(words), words[j] \in Nat, WordSize = 2 \/ words[j] <= LastCodePoint
       PROVE  Word(at + j - 1) = words[j]
  <2>1. at + j - 1 = Len(Joined(U, n)) + j /\ at + j - 1 \in 1 .. Words
    BY <1>4, <1>6, <1>9, <1>10
  <2>2. FlattenSeq(U)[at + j - 1] = words[j]
    BY <1>10, <2>1
  <2>. QED BY <1>9, <1>14, <2>1, <2>2
<1>. QED BY <1>4, <1>8, <1>11, <1>12, <1>13, <1>14 DEF U, words, b, p

(* As long as there are words, there is a code point more.                 *)
LEMMA MorePoints ==
  ASSUME Within, call = "convert", NEW text \in arg.means, NEW n \in 0 .. Len(text.points),
         KeptSoFar(text, WordSize, arg.outsz, at, out, done, n)
  PROVE  at <= Words <=> n # Len(text.points)
<1> DEFINE U == Units(text.points, WordSize)
<1>1. WordSize \in {2, 4} /\ IsText(text.points)
  BY TextFacts
<1>2. U \in Seq(Seq(Nat)) /\ Len(U) = Len(text.points) /\ Len(text.points) \in Nat
  BY <1>1, UnitsFacts
<1>3. Words = Len(FlattenSeq(U)) /\ at = Len(Joined(U, n)) + 1
  BY WordIs DEF KeptSoFar
<1>4. at \in Nat
  BY ConvertFacts
<1>5. CASE n = Len(text.points)
  <2>1. FlattenSeq(U) = Joined(U, n) /\ FlattenSeq(U) \in Seq(Nat)
    BY <1>2, <1>5, JoinedGrows
  <2>2. Len(FlattenSeq(U)) \in Nat
    BY <2>1, LenProperties
  <2> HIDE DEF U
  <2>. QED BY <1>3, <1>5, <2>1, <2>2
<1>6. CASE n # Len(text.points)
  <2>1. n \in 0 .. Len(text.points) - 1
    BY <1>2, <1>6
  <2> DEFINE l == Len(WordsOf(text.points[n + 1], WordSize))
  <2>2. l \in 1 .. 2 /\ at + l - 1 <= Words
    BY <2>1, PointFacts
  <2>3. Words \in Nat
    <3>1. FlattenSeq(U) \in Seq(Nat)
      BY <1>2, JoinedGrows
    <3>. QED BY <1>3, <3>1, LenProperties
  <2> HIDE DEF l
  <2>. QED BY <1>4, <1>6, <2>2, <2>3
<1>. QED BY <1>5, <1>6

(* Writing a code point keeps the text. *)
LEMMA WritesKeeps ==
  ASSUME Within, Converting, NEW text \in arg.means, NEW n \in 0 .. Len(text.points) - 1,
         KeptSoFar(text, WordSize, arg.outsz, at, out, done, n),
         Writes(at + Len(WordsOf(text.points[n + 1], WordSize)), text.points[n + 1])
  PROVE  Kept(text, WordSize, arg.outsz, at', out', done')
<1> DEFINE p == text.points[n + 1]
           b == text.utf8[n + 1]
           l == Len(WordsOf(p, WordSize))
           bytes == WriteUtf8(p, arg.outsz, Len(out))
<1>0. call = "convert" /\ done = ""
  BY DEF Converting
<1>1. /\ at + l = Len(Joined(Units(text.points, WordSize), n + 1)) + 1
      /\ out \o b = Joined(text.utf8, n + 1)
      /\ Len(b) \in 1 .. 4
      /\ bytes = IF Len(b) = 1 \/ Len(out) + Len(b) < arg.outsz THEN b ELSE <<>>
      /\ Len(out) + Len(b) <= Len(FlattenSeq(text.utf8))
  BY <1>0, PointFacts
<1>2. IF bytes = <<>> THEN Finished("ok") ELSE Goes(at + l, bytes)
  BY DEF Writes
<1>3. arg.outsz \in Nat /\ Len(out) \in Nat /\ Len(text.points) \in Nat
  <2>1. IsText(text.points)
    BY <1>0, TextFacts
  <2>. QED BY <1>0, <2>1, ConvertFacts, LenProperties DEF IsText
<1>4. n \in 0 .. Len(text.points) /\ n + 1 \in 0 .. Len(text.points)
  BY <1>3
<1>5. Len(FlattenSeq(text.utf8)) \in Nat
  <2>1. FlattenSeq(text.utf8) \in Seq(Byte)
    <3>1. text.utf8 \in Seq(Seq(Byte))
      BY <1>0, TextFacts
    <3>. QED BY <3>1, JoinedGrows
  <2>. QED BY <2>1, LenProperties
<1> HIDE DEF p, b, l, bytes
<1>6. CASE bytes = <<>>
  <2>1. at' = at /\ out' = out /\ done' = "ok"
    BY <1>2, <1>6 DEF Finished
  <2>2. b # <<>>
    <3>1. Len(<<>>) = 0
      OBVIOUS
    <3>2. Len(b) # 0
      <4>1. 0 \notin 1 .. 4
        OBVIOUS
      <4>. QED BY <4>1, <1>1
    <3>3. b = <<>> => Len(b) = Len(<<>>)
      OBVIOUS
    <3>. QED BY <3>1, <3>2, <3>3
  <2>3. Len(FlattenSeq(text.utf8)) >= arg.outsz
    BY <1>1, <1>3, <1>5, <1>6, <2>2
  <2>4. KeptSoFar(text, WordSize, arg.outsz, at', out', done', n)
    BY <2>1, <2>3 DEF KeptSoFar
  <2>. QED BY <1>4, <2>4 DEF Kept
<1>7. CASE bytes # <<>>
  <2>1. at' = at + l /\ out' = out \o b /\ done' = ""
    BY <1>0, <1>1, <1>2, <1>7 DEF Goes
  <2>2. KeptSoFar(text, WordSize, arg.outsz, at', out', done', n + 1)
    BY <1>1, <2>1 DEF KeptSoFar
  <2>. QED BY <1>4, <2>2 DEF Kept
<1>. QED BY <1>6, <1>7

-----------------------------------------------------------------------------
LEMMA WordsIsNat ==
  ASSUME Within, call = "convert"
  PROVE  Words \in Nat
<1> DEFINE room == Len(arg.bytes)
<1>1. room \in Nat
  BY ConvertFacts
<1>2. WordSize \in {1, 2, 4} /\ Words = room \div WordSize
  BY DEF WordSize, Words
<1> HIDE DEF room
<1>3. room \div 1 \in Nat /\ room \div 2 \in Nat /\ room \div 4 \in Nat
  BY <1>1
<1>. QED BY <1>2, <1>3

(* As long as a round is made, it is about the next code point.            *)
LEMMA NextPoint ==
  ASSUME Within, Converting, More, NEW text \in arg.means,
         Kept(text, WordSize, arg.outsz, at, out, done)
  PROVE  \E n \in 0 .. Len(text.points) - 1 :
            KeptSoFar(text, WordSize, arg.outsz, at, out, done, n)
<1>1. PICK n \in 0 .. Len(text.points) :
              KeptSoFar(text, WordSize, arg.outsz, at, out, done, n)
  BY DEF Kept
<1>2. call = "convert" /\ at <= Words
  BY DEF Converting, More
<1>3. n # Len(text.points)
  BY <1>1, <1>2, MorePoints
<1>4. Len(text.points) \in Nat
  <2>1. IsText(text.points)
    BY <1>2, TextFacts
  <2>. QED BY <2>1, LenProperties DEF IsText
<1>5. n \in 0 .. Len(text.points) - 1
  BY <1>3, <1>4
<1>. QED BY <1>1, <1>5

LEMMA Convert32Keeps ==
  ASSUME Within, Convert32, NEW text \in arg.means,
         Kept(text, WordSize, arg.outsz, at, out, done)
  PROVE  Kept(text, WordSize, arg.outsz, at', out', done')
<1>1. Converting /\ More /\ WordSize = 4 /\ Writes(at + 1, Word(at))
  BY DEF Convert32
<1>2. call = "convert"
  BY <1>1 DEF Converting
<1>3. PICK n \in 0 .. Len(text.points) - 1 :
              KeptSoFar(text, WordSize, arg.outsz, at, out, done, n)
  BY <1>1, NextPoint
<1> DEFINE p == text.points[n + 1]
           words == WordsOf(p, WordSize)
<1>4. /\ IsCodePoint(p)
      /\ \A j \in 1 .. Len(words) :
           words[j] \in Nat /\ (WordSize = 2 \/ words[j] <= LastCodePoint)
             => Word(at + j - 1) = words[j]
  BY <1>2, <1>3, PointFacts
<1>5. words = <<p>>
  BY <1>1 DEF WordsOf
<1>6. p \in Nat /\ p <= LastCodePoint
  BY <1>4 DEF IsCodePoint
<1> HIDE DEF p, words
<1>7. Len(words) = 1 /\ words[1] = p
  BY <1>5
<1>8. at + 1 - 1 = at
  BY <1>2, ConvertFacts
<1>9. Word(at) = p
  <2>1. 1 \in 1 .. Len(words)
    BY <1>7
  <2>2. Word(at + 1 - 1) = words[1]
    BY <1>4, <1>6, <1>7, <2>1
  <2>. QED BY <1>7, <1>8, <2>2
<1>10. Writes(at + Len(words), p)
  BY <1>1, <1>7, <1>9
<1>. QED BY <1>1, <1>3, <1>10, WritesKeeps DEF p, words

LEMMA Convert16Keeps ==
  ASSUME Within, Convert16, NEW text \in arg.means,
         Kept(text, WordSize, arg.outsz, at, out, done)
  PROVE  Kept(text, WordSize, arg.outsz, at', out', done')
<1>1. Converting /\ More /\ WordSize = 2
  BY DEF Convert16
<1>2. call = "convert"
  BY <1>1 DEF Converting
<1>3. PICK n \in 0 .. Len(text.points) - 1 :
              KeptSoFar(text, WordSize, arg.outsz, at, out, done, n)
  BY <1>1, NextPoint
<1> DEFINE p == text.points[n + 1]
           words == WordsOf(p, WordSize)
           high == 55296 + (p - 65536) \div 1024
           low  == 56320 + ((p - 65536) % 1024)
<1>4. /\ IsCodePoint(p) /\ at + Len(words) - 1 <= Words
      /\ \A j \in 1 .. Len(words) : words[j] \in Nat => Word(at + j - 1) = words[j]
  BY <1>1, <1>2, <1>3, PointFacts
<1>5. p \in Nat /\ p \notin High /\ p \notin Low
  BY <1>4, HalvesDiffer
<1>6. at \in Nat /\ at + 1 - 1 = at /\ at + 2 - 1 = at + 1
  BY <1>2, ConvertFacts
<1>7. p <= 65535 => words = <<p>>
  BY SMT DEF WordsOf
<1>8. ~(p <= 65535) => words = <<high, low>>
  BY <1>1, SMT DEF WordsOf
<1>9. ~(p <= 65535) => high \in High /\ low \in Low /\ SurrogatePair(high, low) = p
  <2>1. ~(p <= 65535) => p > 65535
    BY <1>5, SMT
  <2>. QED BY <1>4, <2>1, PairIs
<1> HIDE DEF p, words, high, low
<1>10. CASE p <= 65535
  <2>1. Len(words) = 1 /\ words[1] = p
    BY <1>7, <1>10
  <2>2. Word(at) = p
    <3>1. 1 \in 1 .. Len(words)
      BY <2>1
    <3>2. Word(at + 1 - 1) = words[1]
      BY <1>4, <1>5, <2>1, <3>1
    <3>. QED BY <1>6, <2>1, <3>2
  <2>3. Word(at) \notin High \cup Low
    BY <2>2, <1>5
  <2>4. Writes(at + 1, Word(at))
    BY <2>3 DEF Convert16
  <2>5. Writes(at + Len(words), p)
    BY <2>1, <2>2, <2>4
  <2>. QED BY <1>1, <1>3, <2>5, WritesKeeps DEF p, words
<1>11. CASE ~(p <= 65535)
  <2>1. Len(words) = 2 /\ words[1] = high /\ words[2] = low
    BY <1>8, <1>11
  <2>2. high \in High /\ low \in Low /\ SurrogatePair(high, low) = p
    BY <1>9, <1>11
  <2>3. high \in Nat /\ low \in Nat
    <3>1. High \subseteq Nat /\ Low \subseteq Nat
      BY SMT DEF High, Low
    <3>. QED BY <2>2, <3>1
  <2>4. 1 \in 1 .. Len(words) /\ 2 \in 1 .. Len(words)
    BY <2>1
  <2>5. Word(at) = high
    <3>1. Word(at + 1 - 1) = words[1]
      BY <1>4, <2>1, <2>3, <2>4
    <3>. QED BY <1>6, <2>1, <3>1
  <2>6. Word(at + 1) = low
    <3>1. Word(at + 2 - 1) = words[2]
      BY <1>4, <2>1, <2>3, <2>4
    <3>. QED BY <1>6, <2>1, <3>1
  <2>7. at < Words
    <3>1. Words \in Nat
      BY <1>2, WordsIsNat
    <3>. QED BY <1>4, <1>6, <2>1, <3>1
  <2>8. Writes(at + 2, SurrogatePair(high, low))
    <3>1. PICK second \in {low} :
             IF high \in High /\ second \in Low
             THEN Writes(at + 2, SurrogatePair(high, second))
             ELSE IF high \in Low /\ second \in High
             THEN Writes(at + 2, SurrogatePair(second, high))
             ELSE Finished("ok")
      BY <2>2, <2>5, <2>6, <2>7 DEF Convert16
    <3>2. second = low
      OBVIOUS
    <3>. QED BY <3>1, <3>2, <2>2
  <2>9. Writes(at + Len(words), p)
    BY <2>1, <2>2, <2>8
  <2>. QED BY <1>1, <1>3, <2>9, WritesKeeps DEF p, words
<1>. QED BY <1>10, <1>11

LEMMA ConvertEndsKeeps ==
  ASSUME Within, ConvertEnds, NEW text \in arg.means,
         Kept(text, WordSize, arg.outsz, at, out, done)
  PROVE  Kept(text, WordSize, arg.outsz, at', out', done')
<1>1. call = "convert" /\ ~More /\ at' = at /\ out' = out /\ done' = "ok"
  BY DEF ConvertEnds, Converting, Finished
<1>2. PICK n \in 0 .. Len(text.points) :
              KeptSoFar(text, WordSize, arg.outsz, at, out, done, n)
  BY DEF Kept
<1>3. text.utf8 \in Seq(Seq(Byte)) /\ Len(text.utf8) = Len(text.points) /\ IsText(text.points)
  BY <1>1, TextFacts
<1>4. Len(text.points) \in Nat
  BY <1>3, LenProperties DEF IsText
<1>5. Words \in Nat /\ at \in Nat /\ Len(out) \in Nat /\ arg.outsz \in Nat
  BY <1>1, WordsIsNat, ConvertFacts
<1>6. CASE ~(at <= Words)
  <2>1. n = Len(text.points)
    BY <1>1, <1>2, <1>6, MorePoints
  <2>2. KeptSoFar(text, WordSize, arg.outsz, at', out', done', n)
    BY <1>1, <1>2, <2>1 DEF KeptSoFar
  <2>. QED BY <2>2 DEF Kept
<1>7. CASE at <= Words
  <2>1. Len(out) >= arg.outsz
    BY <1>1, <1>5, <1>7 DEF More
  <2>2. out = Joined(text.utf8, n) /\ FlattenSeq(text.utf8) = Joined(text.utf8, Len(text.utf8))
    BY <1>2, <1>3, JoinedGrows DEF KeptSoFar
  <2>3. n \in 0 .. Len(text.utf8) /\ Len(text.utf8) \in n .. Len(text.utf8)
    BY <1>3, <1>4
  <2>4. /\ Len(Joined(text.utf8, n)) <= Len(Joined(text.utf8, Len(text.utf8)))
        /\ Len(Joined(text.utf8, Len(text.utf8))) \in Nat
    BY <1>3, <2>3, JoinedStays
  <2>5. Len(FlattenSeq(text.utf8)) >= arg.outsz
    BY <1>5, <2>1, <2>2, <2>4
  <2>6. KeptSoFar(text, WordSize, arg.outsz, at', out', done', n)
    BY <1>1, <1>2, <2>5 DEF KeptSoFar
  <2>. QED BY <2>6 DEF Kept
<1>. QED BY <1>6, <1>7

LEMMA ConvertBytesKeeps ==
  ASSUME Within, ConvertBytes, NEW text \in arg.means
  PROVE  FALSE
<1>1. call = "convert" /\ WordSize = 1
  BY DEF ConvertBytes, Converting
<1>2. WordSize \in {2, 4}
  BY <1>1, TextFacts
<1>. QED BY <1>1, <1>2

-----------------------------------------------------------------------------
LEMMA ArgStays == [Next]_vars => call' = call /\ arg' = arg
BY DEF Next, vars, Goes, Finished, Writes, Unescape, Convert, NoMemory, OpenQuote, Plain,
       CloseQuote, EscapedNewline, EscapedLetter, EscapedHex, EscapedUnicode, EscapedSpace,
       EscapedOctal, EscapedOther, Spill, Convert32, Convert16, ConvertBytes, ConvertEnds

LEMMA UnescapesOnly == Unescape => call = "unescape"
BY DEF Unescape, Unescaping, Escape, NoMemory, OpenQuote, Plain, CloseQuote, EscapedNewline,
       EscapedLetter, EscapedHex, EscapedUnicode, EscapedSpace, EscapedOctal, EscapedOther

LEMMA InitKeeps == Init => KeepInv
<1> SUFFICES ASSUME Init PROVE KeepInv
  OBVIOUS
<1>1. Within
  BY InitIsWithin
<1>2. ASSUME call = "convert", NEW text \in arg.means
      PROVE  Kept(text, WordSize, arg.outsz, at, out, done)
  <2> DEFINE U == Units(text.points, WordSize)
  <2>1. /\ WordSize \in {2, 4} /\ IsText(text.points) /\ text.utf8 \in Seq(Seq(Byte))
    BY <1>1, <1>2, TextFacts
  <2>2. U \in Seq(Seq(Nat)) /\ Len(text.points) \in Nat
    BY <2>1, UnitsFacts
  <2>3. Joined(U, 0) = <<>> /\ Joined(text.utf8, 0) = <<>>
    <3> HIDE DEF U
    <3>. QED BY <2>1, <2>2, JoinedGrows
  <2>4. at = 1 /\ out = <<>> /\ done = "" /\ Len(<<>>) = 0
    BY DEF Init
  <2>5. KeptSoFar(text, WordSize, arg.outsz, at, out, done, 0)
    <3>1. at = Len(Joined(U, 0)) + 1 /\ out = Joined(text.utf8, 0) /\ done # "ok"
      <4>1. out = Joined(text.utf8, 0) /\ done # "ok"
        BY <2>3, <2>4
      <4>2. Len(Joined(U, 0)) = 0
        <5> HIDE DEF U
        <5>. QED BY <2>3, <2>4
      <4>3. \A l : l = 0 => 1 = l + 1
        OBVIOUS
      <4>4. at = 1
        BY <2>4
      <4>. QED BY <4>1, <4>2, <4>3, <4>4
    <3>. QED BY <3>1 DEF KeptSoFar
  <2>6. 0 \in 0 .. Len(text.points)
    BY <2>2
  <2>. QED BY <2>5, <2>6 DEF Kept
<1>. QED BY <1>1, <1>2 DEF KeepInv

LEMMA StepKeeps == KeepInv /\ [Next]_vars => KeepInv'
<1> SUFFICES ASSUME KeepInv, [Next]_vars PROVE KeepInv'
  OBVIOUS
<1>1. Within /\ Within'
  BY StepStaysWithin DEF KeepInv
<1>2. call' = call /\ arg' = arg
  BY ArgStays
<1>3. WordSize' = WordSize
  BY <1>2 DEF WordSize
<1>4. ASSUME call = "convert", NEW text \in arg.means
      PROVE  Kept(text, WordSize, arg.outsz, at', out', done')
  <2>1. Kept(text, WordSize, arg.outsz, at, out, done)
    BY <1>4 DEF KeepInv
  <2>2. Convert \/ UNCHANGED vars
    <3>1. ~Unescape
      BY <1>4, UnescapesOnly
    <3>. QED BY <3>1 DEF Next
  <2>3. CASE Convert32
    BY <1>1, <2>1, <2>3, Convert32Keeps
  <2>4. CASE Convert16
    BY <1>1, <2>1, <2>4, Convert16Keeps
  <2>5. CASE ConvertBytes
    BY <1>1, <2>5, ConvertBytesKeeps
  <2>6. CASE ConvertEnds
    BY <1>1, <2>1, <2>6, ConvertEndsKeeps
  <2>7. CASE Spill
    <3>1. at' = at /\ out' = out /\ done' # "ok"
      BY <2>7 DEF Spill, Finished
    <3>. QED BY <2>1, <3>1 DEF Kept, KeptSoFar
  <2>8. CASE UNCHANGED vars
    BY <2>1, <2>8 DEF vars
  <2>. QED BY <2>2, <2>3, <2>4, <2>5, <2>6, <2>7, <2>8 DEF Convert
<1>. QED BY <1>1, <1>2, <1>3, <1>4 DEF KeepInv

LEMMA KeptIsKept == KeepInv => ConversionKeepsText
<1> SUFFICES ASSUME KeepInv, call = "convert", NEW text \in arg.means
             PROVE  /\ \E n \in 0 .. Len(text.utf8) : out = FlattenSeq(SubSeq(text.utf8, 1, n))
                    /\ done = "ok" /\ Len(FlattenSeq(text.utf8)) < arg.outsz
                         => out = FlattenSeq(text.utf8)
  BY DEF ConversionKeepsText
<1>1. Within /\ Kept(text, WordSize, arg.outsz, at, out, done)
  BY DEF KeepInv
<1>2. PICK n \in 0 .. Len(text.points) :
              KeptSoFar(text, WordSize, arg.outsz, at, out, done, n)
  BY <1>1 DEF Kept
<1>3. text.utf8 \in Seq(Seq(Byte)) /\ Len(text.utf8) = Len(text.points)
  BY <1>1, TextFacts
<1>4. FlattenSeq(text.utf8) = Joined(text.utf8, Len(text.utf8))
      /\ \A k \in 0 .. Len(text.utf8) : Joined(text.utf8, k) \in Seq(Byte)
  BY <1>3, JoinedGrows
<1>5. Len(FlattenSeq(text.utf8)) \in Nat /\ arg.outsz \in Nat
  <2>1. Len(text.utf8) \in Nat
    BY <1>3, LenProperties
  <2>2. Len(text.utf8) \in 0 .. Len(text.utf8)
    BY <2>1
  <2>3. FlattenSeq(text.utf8) \in Seq(Byte)
    BY <1>4, <2>2
  <2>. QED BY <1>1, <2>3, LenProperties, ConvertFacts
<1>6. out = Joined(text.utf8, n)
  BY <1>2 DEF KeptSoFar
<1>7. \E k \in 0 .. Len(text.utf8) : out = FlattenSeq(SubSeq(text.utf8, 1, k))
  BY <1>3, <1>6 DEF Joined
<1>8. done = "ok" /\ Len(FlattenSeq(text.utf8)) < arg.outsz => n = Len(text.points)
  <2>1. done = "ok" => n = Len(text.points) \/ Len(FlattenSeq(text.utf8)) >= arg.outsz
    BY <1>2 DEF KeptSoFar
  <2>. QED BY <2>1, <1>5
<1>. QED BY <1>3, <1>4, <1>6, <1>7, <1>8

(* Whatever the text in UTF-16 or UTF-32 of the host's byte order, what a  *)
(* conversion has written is the UTF-8 of its first code points, none of   *)
(* them in part; and once it returns, of all of them, if there is a byte   *)
(* to spare.                                                               *)
THEOREM TextIsKept == Spec => []ConversionKeepsText
BY InitKeeps, StepKeeps, KeptIsKept, PTL DEF Spec

-----------------------------------------------------------------------------
(* Numbers once more: what the code reads of digits is what they denote.   *)

LEMMA InitialPlaces ==
  ASSUME NEW n \in Nat, NEW i \in 1 .. n
  PROVE  1 .. i \in SUBSET (1 .. n) /\ 1 .. i # {} /\ Max(1 .. i) = i
         /\ (1 .. i) \ {i} = 1 .. (i - 1) /\ 1 .. (i - 1) \in SUBSET (1 .. n)
<1>1. 1 .. i \in SUBSET (1 .. n) /\ 1 .. i # {} /\ i \in 1 .. i /\ i \in Nat
  OBVIOUS
<1>2. Max(1 .. i) \in 1 .. i /\ Max(1 .. i) >= i
  BY <1>1, MaxIsGreatest
<1>3. Max(1 .. i) = i
  BY <1>2
<1>4. (1 .. i) \ {i} = 1 .. (i - 1) /\ 1 .. (i - 1) \in SUBSET (1 .. n)
  OBVIOUS
<1>. QED BY <1>1, <1>3, <1>4

LEMMA StandsIsDigit ==
  \A c \in Hex : Stands(c) = DigitOf(c) /\ Stands(c) \in 0 .. 15
BY SMT DEF Hex, Stands, DigitOf

(* The numbers that digits denote up to each place. *)
LEMMA DenotedSteps ==
  ASSUME NEW digits \in Seq(Hex), NEW base \in {8, 16}
  PROVE  \E v : /\ v[0] = 0
                /\ \A i \in 0 .. Len(digits) : v[i] \in Nat
                /\ \A i \in 1 .. Len(digits) : v[i] = v[i - 1] * base + DigitOf(digits[i])
                /\ Denoted(digits, base) = v[Len(digits)]
<1> DEFINE n == Len(digits)
           F == [p \in (1 .. n) \X Nat |-> p[2] * base + DigitOf(digits[p[1]])]
           Eq(f) == f = [i \in 0 .. n |-> IF i = 0 THEN 0 ELSE f[i - 1] * base + Stands(digits[i])]
<1>1. n \in Nat /\ \A k \in 1 .. n : digits[k] \in Hex
  BY LenProperties, ElementOfSeq
<1>2. \A k \in 1 .. n : Stands(digits[k]) = DigitOf(digits[k]) /\ DigitOf(digits[k]) \in Nat
  BY <1>1, StandsIsDigit
<1> HIDE DEF n
<1>3. \A v \in Nat, k \in 1 .. n : v * base + DigitOf(digits[k]) \in Nat
  BY <1>2
<1>4. F \in [(1 .. n) \X Nat -> Nat]
  BY <1>3
<1>5. PICK it \in [SUBSET (1 .. n) -> Nat] : FoldsWith(it, n, 0, F)
  <2>1. 0 \in Nat
    OBVIOUS
  <2> HIDE DEF F
  <2>. QED BY <1>1, <1>4, <2>1, FoldExists
<1> DEFINE f == [i \in 0 .. n |-> it[1 .. i]]
<1>6. ASSUME NEW i \in 1 .. n
      PROVE  it[1 .. i] = it[1 .. (i - 1)] * base + DigitOf(digits[i])
  <2>1. 1 .. i \in SUBSET (1 .. n) /\ 1 .. i # {} /\ Max(1 .. i) = i
        /\ (1 .. i) \ {i} = 1 .. (i - 1) /\ 1 .. (i - 1) \in SUBSET (1 .. n)
    BY <1>1, InitialPlaces
  <2>2. it[1 .. i] = F[<<i, it[1 .. (i - 1)]>>]
    <3> HIDE DEF F
    <3>1. it[1 .. i] = F[<<Max(1 .. i), it[(1 .. i) \ {Max(1 .. i)}]>>]
      BY <1>5, <2>1 DEF FoldsWith
    <3>. QED BY <2>1, <3>1
  <2>3. it[1 .. (i - 1)] \in Nat
    BY <1>5, <2>1
  <2>. QED BY <2>2, <2>3
<1>7. it[1 .. 0] = 0
  <2>1. 1 .. 0 = {} /\ {} \in SUBSET (1 .. n)
    OBVIOUS
  <2>. QED BY <1>5, <2>1 DEF FoldsWith
<1>8. Eq(f)
  <2> SUFFICES ASSUME NEW i \in 0 .. n
               PROVE  f[i] = IF i = 0 THEN 0 ELSE f[i - 1] * base + Stands(digits[i])
    OBVIOUS
  <2>1. CASE i = 0
    BY <1>7, <2>1
  <2>2. CASE i # 0
    <3>1. i \in 1 .. n /\ i - 1 \in 0 .. n
      BY <1>1, <2>2
    <3>. QED BY <1>2, <1>6, <2>2, <3>1
  <2>. QED BY <2>1, <2>2
<1> DEFINE g == CHOOSE u : Eq(u)
<1>9. Eq(g)
  BY <1>8
<1>10. Denoted(digits, base) = g[n]
  BY DEF Denoted, n
<1> HIDE DEF g
<1>11. g[0] = 0 /\ \A i \in 1 .. n : g[i] = g[i - 1] * base + DigitOf(digits[i])
  <2>1. \A i \in 0 .. n : g[i] = IF i = 0 THEN 0 ELSE g[i - 1] * base + Stands(digits[i])
    BY <1>9
  <2>2. 0 \in 0 .. n /\ \A i \in 1 .. n : i \in 0 .. n /\ i # 0
    BY <1>1
  <2>. QED BY <1>2, <2>1, <2>2
<1>12. \A i \in 0 .. n : g[i] \in Nat
  <2> DEFINE T == {k \in Nat : k <= n => g[k] \in Nat}
  <2>1. 0 \in T
    BY <1>11
  <2>2. ASSUME NEW k \in Nat, k \in T PROVE k + 1 \in T
    <3>1. k + 1 <= n => k + 1 \in 1 .. n /\ (k + 1) - 1 = k /\ g[k] \in Nat
      BY <1>1, <2>2
    <3>2. k + 1 <= n => g[k + 1] = g[k] * base + DigitOf(digits[k + 1])
      BY <1>11, <3>1
    <3>3. k + 1 <= n => g[k + 1] \in Nat
      BY <1>3, <3>1, <3>2
    <3>. QED BY <3>3
  <2>3. Nat \subseteq T
    <3> HIDE DEF T
    <3>. QED BY <2>1, <2>2, Induction
  <2>. QED BY <1>1, <2>3
<1>. QED BY <1>10, <1>11, <1>12 DEF n

(* What strtol reads, if it is no greater than any that counts. *)
LEMMA NumberIsDenoted ==
  ASSUME NEW digits \in Seq(Hex), NEW base \in {8, 16}, Denoted(digits, base) < Huge
  PROVE  Number(digits, base) = Denoted(digits, base) /\ Number(digits, base) \in Nat
<1> DEFINE n == Len(digits)
<1>1. n \in Nat /\ \A k \in 1 .. n : digits[k] \in Hex
  BY LenProperties, ElementOfSeq
<1>2. PICK it :
         /\ it \in [SUBSET (1 .. n) -> 0 .. Huge]
         /\ it[{}] = 0
         /\ \A s \in SUBSET (1 .. n) :
               s # {} => it[s] = Min({Huge, it[s \ {Max(s)}] * base + DigitOf(digits[Max(s)])})
         /\ Number(digits, base) = it[1 .. n]
  BY base \in 1 .. 16, NumberFolds
<1>3. PICK v : /\ v[0] = 0
               /\ \A i \in 0 .. n : v[i] \in Nat
               /\ \A i \in 1 .. n : v[i] = v[i - 1] * base + DigitOf(digits[i])
               /\ Denoted(digits, base) = v[n]
  BY DenotedSteps
<1> HIDE DEF n
<1>4. Huge \in Nat
  BY SMT DEF Huge
<1> DEFINE Less(i) == it[1 .. i] = IF Huge <= v[i] THEN Huge ELSE v[i]
           T == {k \in Nat : k <= n => Less(k)}
<1>5. 0 \in T
  <2>1. 1 .. 0 = {} /\ (Huge <= 0 => Huge = 0)
    BY <1>4
  <2>. QED BY <1>2, <1>3, <2>1
<1>6. ASSUME NEW k \in Nat, k \in T PROVE k + 1 \in T
  <2> SUFFICES ASSUME k + 1 <= n PROVE Less(k + 1)
    OBVIOUS
  <2>1. k + 1 \in 1 .. n /\ k \in 0 .. n /\ (k + 1) - 1 = k
    BY <1>1
  <2>2. Less(k)
    BY <1>6, <2>1
  <2> DEFINE d == DigitOf(digits[k + 1])
             x == v[k]
             y == it[1 .. k]
  <2>3. d \in Nat
    <3>1. digits[k + 1] \in Hex
      BY <1>1, <2>1
    <3>2. DigitOf(digits[k + 1]) \in 0 .. 15
      BY <3>1, DigitType
    <3>3. \A c \in 0 .. 15 : c \in Nat
      OBVIOUS
    <3>. QED BY <3>2, <3>3
  <2>4. v[k + 1] = x * base + d /\ x \in Nat
    BY <1>3, <2>1
  <2>5. 1 .. (k + 1) \in SUBSET (1 .. n) /\ 1 .. (k + 1) # {} /\ Max(1 .. (k + 1)) = k + 1
        /\ (1 .. (k + 1)) \ {k + 1} = 1 .. k
    BY <1>1, <2>1, InitialPlaces
  <2>6. it[1 .. (k + 1)] = Min({Huge, y * base + d})
    <3>1. it[1 .. (k + 1)]
            = Min({Huge, it[(1 .. (k + 1)) \ {Max(1 .. (k + 1))}] * base
                           + DigitOf(digits[Max(1 .. (k + 1))])})
      BY <1>2, <2>5
    <3>. QED BY <2>5, <3>1
  <2>7. y = IF Huge <= x THEN Huge ELSE x
    BY <2>2
  <2> HIDE DEF d, x, y
  <2>8. y \in Nat /\ y * base + d \in Nat
    BY <1>4, <2>3, <2>4, <2>7
  <2>9. it[1 .. (k + 1)] = IF Huge <= y * base + d THEN Huge ELSE y * base + d
    BY <1>4, <2>6, <2>8, LesserOfTwo
  <2> DEFINE h == Huge
             w == x * base + d
  <2>10. (IF h <= y * base + d THEN h ELSE y * base + d) = (IF h <= w THEN h ELSE w)
    <3>1. h \in Nat
      BY <1>4
    <3>2. y = IF h <= x THEN h ELSE x
      BY <2>7
    <3> HIDE DEF h
    <3>3. CASE base = 8
      BY <2>3, <2>4, <3>1, <3>2, <3>3
    <3>4. CASE base = 16
      BY <2>3, <2>4, <3>1, <3>2, <3>4
    <3>. QED BY <3>3, <3>4
  <2>. QED BY <2>4, <2>9, <2>10
<1>7. Less(n)
  <2>1. Nat \subseteq T
    <3> HIDE DEF T
    <3>. QED BY <1>5, <1>6, Induction
  <2>. QED BY <1>1, <2>1
<1>8. v[n] \in Nat /\ n \in 0 .. n
  BY <1>1, <1>3
<1>9. it[1 .. n] = v[n]
  <2>1. v[n] < Huge
    BY <1>3
  <2> DEFINE x == v[n]
             h == Huge
  <2>2. x \in Nat /\ h \in Nat /\ x < h
    BY <1>4, <1>8, <2>1
  <2> HIDE DEF x, h
  <2>3. ~(h <= x)
    BY <2>2
  <2>. QED BY <1>7, <2>3 DEF x, h
<1>. QED BY <1>2, <1>3, <1>8, <1>9

-----------------------------------------------------------------------------
(* Escapes mean what the documentation says.                               *)

(* A string of parts: where each of them is, and what stands behind it.    *)
LEMMA PartsFacts ==
  ASSUME NEW parts \in Seq([src : Seq(Byte), val : Seq(Byte)])
  PROVE  /\ Sources(parts) \in Seq(Seq(Byte)) /\ Values(parts) \in Seq(Seq(Byte))
         /\ Len(Sources(parts)) = Len(parts) /\ Len(Values(parts)) = Len(parts)
         /\ Len(parts) \in Nat
         /\ \A i \in 1 .. Len(parts) :
              /\ Sources(parts)[i] = parts[i].src /\ Values(parts)[i] = parts[i].val
              /\ parts[i].src \in Seq(Byte) /\ parts[i].val \in Seq(Byte)
<1> DEFINE n == Len(parts)
<1>1. n \in Nat /\ \A i \in 1 .. n : parts[i].src \in Seq(Byte) /\ parts[i].val \in Seq(Byte)
  <2>1. n \in Nat
    BY LenProperties
  <2>2. ASSUME NEW i \in 1 .. n
        PROVE  parts[i].src \in Seq(Byte) /\ parts[i].val \in Seq(Byte)
    <3>1. parts[i] \in [src : Seq(Byte), val : Seq(Byte)]
      BY ElementOfSeq
    <3>. QED BY <3>1
  <2>. QED BY <2>1, <2>2
<1>2. Sources(parts) = [i \in 1 .. n |-> parts[i].src] /\ Values(parts) = [i \in 1 .. n |-> parts[i].val]
  BY DEF Sources, Values
<1> HIDE DEF n
<1>3. Sources(parts) \in [1 .. n -> Seq(Byte)] /\ Values(parts) \in [1 .. n -> Seq(Byte)]
  BY <1>1, <1>2
<1>4. /\ Sources(parts) \in Seq(Seq(Byte)) /\ DOMAIN Sources(parts) = 1 .. n
      /\ Values(parts) \in Seq(Seq(Byte)) /\ DOMAIN Values(parts) = 1 .. n
  BY <1>1, <1>3, SeqDef
<1>5. Len(Sources(parts)) = n /\ Len(Values(parts)) = n
  BY <1>1, <1>4, LenProperties
<1>. QED BY <1>1, <1>2, <1>4, <1>5 DEF n

LEMMA ReadsFacts ==
  ASSUME NEW string \in Seq(Byte), Len(string) > 1, NEW parts, Reads(string, parts)
  PROVE  LET text == FlattenSeq(Sources(parts))
         IN  /\ parts \in Seq([src : Seq(Byte), val : Seq(Byte)])
             /\ text \in Seq(Byte) /\ Len(text) \in Nat /\ Len(string) = Len(text) + 2
             /\ \A k \in 1 .. Len(text) : string[k + 1] = text[k]
             /\ \A i \in 1 .. Len(parts) :
                  IsPart(parts[i], string[1], string[2 + Len(Joined(Sources(parts), i))])
<1> DEFINE text == FlattenSeq(Sources(parts))
           q == string[1]
           l == Len(text)
<1>1. /\ parts \in Seq([src : Seq(Byte), val : Seq(Byte)])
      /\ string = (<<q>> \o text) \o <<q>>
      /\ \A i \in 1 .. Len(parts) :
           IsPart(parts[i], q, string[2 + Len(Joined(Sources(parts), i))])
  BY DEF Reads, Joined
<1>2. text \in Seq(Byte) /\ l \in Nat
  <2>1. Sources(parts) \in Seq(Seq(Byte))
    BY <1>1, PartsFacts
  <2>2. Len(Sources(parts)) \in 0 .. Len(Sources(parts))
    BY <2>1, LenProperties
  <2>. QED BY <2>1, <2>2, JoinedGrows, LenProperties
<1>3. q \in Byte
  BY ElementOfSeq, LenProperties
<1> HIDE DEF text, q
<1>4. <<q>> \in Seq(Byte) /\ Len(<<q>>) = 1
  BY <1>3
<1>5. /\ <<q>> \o text \in Seq(Byte) /\ Len(<<q>> \o text) = 1 + l
      /\ \A k \in 1 .. 1 + l : (<<q>> \o text)[k] = IF k <= 1 THEN <<q>>[k] ELSE text[k - 1]
  BY <1>2, <1>4, ConcatProperties
<1>6. /\ Len(string) = (1 + l) + 1
      /\ \A k \in 1 .. (1 + l) + 1 :
           string[k] = IF k <= 1 + l THEN (<<q>> \o text)[k] ELSE <<q>>[k - (1 + l)]
  BY <1>1, <1>4, <1>5, ConcatProperties
<1> HIDE DEF l
<1>7. ASSUME NEW k \in 1 .. l PROVE string[k + 1] = text[k]
  <2>1. k + 1 \in 1 .. 1 + l /\ k + 1 \in 1 .. (1 + l) + 1 /\ k + 1 <= 1 + l /\ ~(k + 1 <= 1)
        /\ (k + 1) - 1 = k
    BY <1>2
  <2>. QED BY <1>5, <1>6, <2>1
<1>8. Len(string) = l + 2
  BY <1>2, <1>6
<1>. QED BY <1>1, <1>2, <1>7, <1>8 DEF text, q, l

(* Where unescaping a string of parts is: before its quote, or n of them   *)
(* have been read and their values written; and if it has returned a       *)
(* value, those are all.                                                   *)
MeantSoFar(parts, place, bytes, how, n) ==
  /\ place = Len(Joined(Sources(parts), n)) + 2
  /\ bytes = Joined(Values(parts), n)
  /\ how = "ok" => n = Len(parts)

Meant(parts, place, bytes, how) ==
  \/ place = 1 /\ bytes = <<>> /\ how # "ok"
  \/ \E n \in 0 .. Len(parts) : MeantSoFar(parts, place, bytes, how, n)

MeanInv ==
  /\ Within
  /\ call = "unescape" =>
       \A parts \in arg.means : HasRoom(parts) => Meant(parts, at, out, done)

(* The next part is p. *)
IsAt(p) ==
  /\ p.src \in Seq(Byte) /\ p.val \in Seq(Byte)
  /\ IsPart(p, arg.src[1], Char(at + Len(p.src)))
  /\ at + Len(p.src) <= Len(arg.src)
  /\ \A j \in 1 .. Len(p.src) : Char(at + j - 1) = p.src[j]
  /\ Len(p.val) > 1 => Len(out) > Len(p.val)

LEMMA MeansFacts ==
  ASSUME Within, call = "unescape", NEW parts \in arg.means
  PROVE  /\ parts \in Seq([src : Seq(Byte), val : Seq(Byte)]) /\ Len(parts) \in Nat
         /\ Sources(parts) \in Seq(Seq(Byte)) /\ Len(Sources(parts)) = Len(parts)
         /\ Values(parts) \in Seq(Seq(Byte)) /\ Len(Values(parts)) = Len(parts)
         /\ Reads(arg.src, parts)
<1>1. Reads(arg.src, parts)
  BY QuotedAssumption DEF Within
<1>2. parts \in Seq([src : Seq(Byte), val : Seq(Byte)])
  BY <1>1 DEF Reads
<1>. QED BY <1>1, <1>2, PartsFacts

LEMMA PartIsAt ==
  ASSUME Within, call = "unescape", NEW parts \in arg.means, HasRoom(parts),
         NEW n \in 0 .. Len(parts) - 1, MeantSoFar(parts, at, out, done, n)
  PROVE  IsAt(parts[n + 1])
<1> DEFINE S == Sources(parts)
           V == Values(parts)
           p == parts[n + 1]
           text == FlattenSeq(S)
           w == Len(p.src)
           l == Len(Joined(S, n))
<1>1. /\ Len(parts) \in Nat /\ S \in Seq(Seq(Byte)) /\ Len(S) = Len(parts) /\ Reads(arg.src, parts)
      /\ parts \in Seq([src : Seq(Byte), val : Seq(Byte)])
  BY MeansFacts
<1>2. n \in Nat /\ n + 1 \in 1 .. Len(parts) /\ n \in 0 .. Len(S) - 1
  BY <1>1
<1>3. p.src \in Seq(Byte) /\ p.val \in Seq(Byte) /\ S[n + 1] = p.src
  BY <1>1, <1>2, PartsFacts
<1>4. /\ w \in Nat /\ Len(Joined(S, n + 1)) = l + w /\ l \in Nat
      /\ text \in Seq(Byte) /\ Len(text) \in Nat /\ l + w <= Len(text)
      /\ \A j \in 1 .. w : text[l + j] = p.src[j]
  <2> HIDE DEF S, p
  <2>1. /\ Len(S[n + 1]) \in Nat
        /\ Len(Joined(S, n + 1)) = Len(Joined(S, n)) + Len(S[n + 1])
        /\ Len(Joined(S, n)) \in Nat /\ FlattenSeq(S) \in Seq(Byte) /\ Len(FlattenSeq(S)) \in Nat
        /\ Len(Joined(S, n + 1)) <= Len(FlattenSeq(S))
        /\ \A j \in 1 .. Len(S[n + 1]) : FlattenSeq(S)[Len(Joined(S, n)) + j] = S[n + 1][j]
    BY <1>1, <1>2, JoinedParts
  <2>. QED BY <1>3, <2>1
<1>5. /\ Len(arg.src) = Len(text) + 2
      /\ \A k \in 1 .. Len(text) : arg.src[k + 1] = text[k]
      /\ IsPart(p, arg.src[1], arg.src[2 + Len(Joined(S, n + 1))])
  <2>1. arg.src \in Seq(Byte) /\ Len(arg.src) > 1
    BY TokenFacts
  <2>2. \A i \in 1 .. Len(parts) :
          IsPart(parts[i], arg.src[1], arg.src[2 + Len(Joined(Sources(parts), i))])
    BY <1>1, <2>1, ReadsFacts
  <2>3. /\ Len(arg.src) = Len(text) + 2
        /\ \A k \in 1 .. Len(text) : arg.src[k + 1] = text[k]
    BY <1>1, <2>1, ReadsFacts
  <2>. QED BY <1>2, <2>2, <2>3
<1>6. at = l + 2 /\ out = Joined(V, n)
  BY DEF MeantSoFar
<1>7. Len(p.val) > 1 => Len(out) > Len(p.val)
  <2>1. (n + 1) - 1 = n
    BY <1>2
  <2>. QED BY <1>2, <1>6, <2>1 DEF HasRoom, Joined
<1>8. /\ DOMAIN arg.src = 1 .. Len(arg.src) /\ Len(arg.src) \in Nat
      /\ \A k \in 1 .. Len(arg.src) : Char(k) = arg.src[k]
  BY TokenFacts
<1> HIDE DEF S, V, p, text, w, l
<1>9. at + w <= Len(arg.src) /\ at + w \in 1 .. Len(arg.src) /\ 2 + (l + w) = at + w
  <2> DEFINE m == Len(text)
  <2>1. at = l + 2 /\ w \in Nat /\ l \in Nat /\ m \in Nat /\ l + w <= m /\ Len(arg.src) = m + 2
    BY <1>4, <1>5, <1>6
  <2> HIDE DEF m
  <2>. QED BY <2>1
<1>10. IsPart(p, arg.src[1], Char(at + w))
  BY <1>4, <1>5, <1>8, <1>9
<1>11. ASSUME NEW j \in 1 .. w PROVE Char(at + j - 1) = p.src[j]
  <2>1. l + j \in 1 .. Len(text) /\ at + j - 1 = (l + j) + 1 /\ at + j - 1 \in 1 .. Len(arg.src)
    <3> DEFINE m == Len(text)
    <3>1. at = l + 2 /\ w \in Nat /\ l \in Nat /\ m \in Nat /\ l + w <= m /\ Len(arg.src) = m + 2
      BY <1>4, <1>5, <1>6
    <3> HIDE DEF m
    <3>2. l + j \in 1 .. m /\ at + j - 1 = (l + j) + 1 /\ at + j - 1 \in 1 .. Len(arg.src)
      BY <3>1
    <3>. QED BY <3>2 DEF m
  <2>. QED BY <1>4, <1>5, <1>8, <2>1
<1>. QED BY <1>3, <1>7, <1>9, <1>10, <1>11 DEF IsAt, w, p

(* Behind the last part is the quote. *)
LEMMA AtLastQuote ==
  ASSUME Within, call = "unescape", NEW parts \in arg.means,
         MeantSoFar(parts, at, out, done, Len(parts))
  PROVE  AtQuote /\ at > 1
<1> DEFINE S == Sources(parts)
           m == Len(FlattenSeq(S))
<1>1. S \in Seq(Seq(Byte)) /\ Len(S) = Len(parts) /\ Reads(arg.src, parts)
  BY MeansFacts
<1>2. Joined(S, Len(S)) = FlattenSeq(S)
  BY <1>1, JoinedGrows
<1>3. m \in Nat /\ Len(arg.src) = m + 2
  BY <1>1, TokenFacts, ReadsFacts
<1>4. at = m + 2
  BY <1>1, <1>2 DEF MeantSoFar
<1> HIDE DEF S, m
<1>5. at = Len(arg.src) /\ at > 1
  BY <1>3, <1>4
<1>. QED BY <1>5, TokenFacts DEF AtQuote

(* While escapes are read, there is a part to read, and reading it as what *)
(* it is keeps the meaning.                                                *)
LEMMA NextPart ==
  ASSUME Within, Unescaping, at > 1, ~AtQuote, NEW parts \in arg.means, HasRoom(parts),
         Meant(parts, at, out, done)
  PROVE  \E p : /\ IsAt(p)
                /\ Goes(at + Len(p.src), p.val) => Meant(parts, at', out', done')
<1>1. call = "unescape" /\ done = ""
  BY DEF Unescaping
<1>2. PICK n \in 0 .. Len(parts) : MeantSoFar(parts, at, out, done, n)
  <2>1. at # 1
    <3>1. \A k : k > 1 /\ k = 1 => FALSE
      OBVIOUS
    <3>. QED BY <3>1
  <2>. QED BY <1>1, <2>1 DEF Meant
<1>3. n # Len(parts)
  BY <1>1, <1>2, AtLastQuote
<1>4. /\ Len(parts) \in Nat /\ parts \in Seq([src : Seq(Byte), val : Seq(Byte)])
      /\ Sources(parts) \in Seq(Seq(Byte)) /\ Len(Sources(parts)) = Len(parts)
      /\ Values(parts) \in Seq(Seq(Byte)) /\ Len(Values(parts)) = Len(parts)
  BY <1>1, MeansFacts
<1>5. n \in 0 .. Len(parts) - 1 /\ n + 1 \in 0 .. Len(parts) /\ n + 1 \in 1 .. Len(parts)
  BY <1>3, <1>4
<1> DEFINE p == parts[n + 1]
<1>6. IsAt(p)
  BY <1>1, <1>2, <1>5, PartIsAt
<1>7. ASSUME Goes(at + Len(p.src), p.val) PROVE Meant(parts, at', out', done')
  <2>1. Sources(parts)[n + 1] = p.src /\ Values(parts)[n + 1] = p.val
    BY <1>4, <1>5, PartsFacts
  <2>2. Joined(Values(parts), n + 1) = Joined(Values(parts), n) \o p.val
    BY <1>4, <1>5, <2>1, JoinedGrows
  <2>3. /\ Len(Joined(Sources(parts), n + 1)) = Len(Joined(Sources(parts), n)) + Len(p.src)
        /\ Len(p.src) \in Nat /\ Len(Joined(Sources(parts), n)) \in Nat
    <3> DEFINE S == Sources(parts)
    <3>1. S \in Seq(Seq(Byte)) /\ n \in 0 .. Len(S) - 1 /\ S[n + 1] = p.src
      BY <1>4, <1>5, <2>1
    <3> HIDE DEF S, p
    <3>2. /\ Len(Joined(S, n + 1)) = Len(Joined(S, n)) + Len(S[n + 1])
          /\ Len(S[n + 1]) \in Nat /\ Len(Joined(S, n)) \in Nat
      BY <3>1, JoinedParts
    <3>. QED BY <3>1, <3>2 DEF S
  <2> HIDE DEF p
  <2>4. at' = at + Len(p.src) /\ out' = out \o p.val /\ done' = ""
    BY <1>1, <1>7 DEF Goes
  <2>5. at' = Len(Joined(Sources(parts), n + 1)) + 2
    <3> DEFINE l == Len(Joined(Sources(parts), n))
               w == Len(p.src)
    <3>1. at = l + 2 /\ l \in Nat /\ w \in Nat /\ at' = at + w
      BY <1>2, <2>3, <2>4 DEF MeantSoFar
    <3> HIDE DEF l, w
    <3>2. at' = (l + w) + 2
      BY <3>1
    <3>. QED BY <2>3, <3>2 DEF l, w
  <2>6. MeantSoFar(parts, at', out', done', n + 1)
    BY <1>2, <2>2, <2>4, <2>5 DEF MeantSoFar
  <2>. QED BY <1>5, <2>6 DEF Meant
<1>. QED BY <1>6, <1>7

(* What an escape is can be told from the byte behind the backslash.       *)
LEMMA SecondByte ==
  ASSUME NEW p, NEW quote, NEW next, IsPart(p, quote, next), p.src \in Seq(Byte),
         p.src[1] = Backslash
  PROVE  /\ Len(p.src) \in Nat /\ Len(p.src) >= 2
         /\ \/ IsLetter(p) /\ p.src[2] \in DOMAIN OneLetter
            \/ IsItself(p) /\ p.src[2] \in {Backslash, 34, 39}
            \/ IsNewline(p) /\ p.src[2] \in {LineFeed, Return}
            \/ IsSkip(p, next) /\ p.src[2] = LetterZ
            \/ IsHexByte(p) /\ p.src[2] = LetterX
            \/ IsOctalByte(p, next) /\ p.src[2] \in Octal
            \/ IsCodePointOf(p) /\ p.src[2] = LetterU
<1>1. Len(p.src) \in Nat
  BY LenProperties
<1>2. ~IsPlain(p, quote)
  <2>1. ASSUME NEW c \in Byte \ {Backslash, LineFeed, quote}, p.src = <<c>> PROVE FALSE
    <3>1. p.src[1] = c
      BY <2>1
    <3>. QED BY <3>1
  <2>. QED BY <2>1 DEF IsPlain
<1>3. CASE IsLetter(p)
  <2>1. PICK c : c \in {97, 98, 102, 110, 114, 116, 118}
                 /\ \E v : p.src = <<Backslash, c>> /\ p.val = <<v>>
    BY <1>3 DEF IsLetter
  <2>2. p.src[2] = c /\ Len(p.src) = 2
    BY <2>1
  <2>3. c \in DOMAIN OneLetter
    BY <2>1 DEF OneLetter
  <2>. QED BY <1>3, <2>2, <2>3
<1>4. CASE IsItself(p)
  <2>1. PICK c \in {Backslash, 34, 39} : p.src = <<Backslash, c>>
    BY <1>4 DEF IsItself
  <2>2. p.src[2] = c /\ Len(p.src) = 2
    BY <2>1
  <2>. QED BY <1>4, <2>2
<1>5. CASE IsNewline(p)
  <2>1. CASE p.src = <<Backslash, LineFeed>>
    BY <1>5, <2>1
  <2>2. CASE p.src = <<Backslash, Return, LineFeed>>
    BY <1>5, <2>2
  <2>. QED BY <1>5, <2>1, <2>2 DEF IsNewline
<1>6. CASE IsSkip(p, next)
  BY <1>1, <1>6 DEF IsSkip, IsEscape
<1>7. CASE IsHexByte(p)
  BY <1>1, <1>7 DEF IsHexByte, IsEscape
<1>8. CASE IsOctalByte(p, next)
  <2> DEFINE d == DigitsOf(p, 2, 0)
  <2>1. Len(p.src) \in 2 .. 4 /\ d # <<>> /\ \A i \in 1 .. Len(d) : d[i] \in OctalDigit
    BY <1>8 DEF IsOctalByte, AreDigits
  <2>2. Len(d) = Len(p.src) - 1 /\ d[1] = p.src[2]
    <3>1. \A i \in 2 .. Len(p.src) : p.src[i] \in Byte
      BY <1>1, ElementOfSeq
    <3>2. d = SubSeq(p.src, 2, Len(p.src))
      BY <1>1 DEF DigitsOf
    <3>3. /\ Len(d) = IF 2 <= Len(p.src) THEN Len(p.src) - 2 + 1 ELSE 0
          /\ \A i \in 1 .. Len(p.src) - 2 + 1 : d[i] = p.src[2 + i - 1]
      BY <1>1, <3>1, <3>2, SubSeqProperties
    <3>4. 1 \in 1 .. Len(p.src) - 2 + 1 /\ 2 + 1 - 1 = 2
      <4> DEFINE w == Len(p.src)
      <4>1. w \in 2 .. 4
        BY <2>1
      <4> HIDE DEF w
      <4>2. 1 \in 1 .. w - 2 + 1 /\ 2 + 1 - 1 = 2
        BY <4>1
      <4>. QED BY <4>2 DEF w
    <3>. QED BY <2>1, <3>3, <3>4
  <2>3. p.src[2] \in OctalDigit
    <3>1. 1 \in 1 .. Len(d)
      BY <2>1, <2>2
    <3>. QED BY <2>1, <2>2, <3>1
  <2>. QED BY <1>1, <1>8, <2>1, <2>3 DEF OctalDigit, Octal
<1>9. CASE IsCodePointOf(p)
  BY <1>1, <1>9 DEF IsCodePointOf, IsEscape
<1>. QED BY <1>2, <1>3, <1>4, <1>5, <1>6, <1>7, <1>8, <1>9 DEF IsPart

(* Which bytes are which. *)
LEMMA BytesDiffer ==
  /\ LineFeed \notin DOMAIN OneLetter \cup Octal \cup {LetterX, LetterU, LetterZ, Backslash, 34, 39}
  /\ Return \notin DOMAIN OneLetter \cup Octal \cup {LetterX, LetterU, LetterZ, Backslash, 34, 39}
  /\ \A c \in DOMAIN OneLetter : c \notin Octal \cup {LetterX, LetterU, LetterZ, Backslash, 34, 39}
  /\ \A c \in Octal : c \notin {LetterX, LetterU, LetterZ, Backslash, 34, 39}
  /\ LetterX \notin {LetterU, LetterZ, Backslash, 34, 39}
  /\ LetterU \notin {LetterZ, Backslash, 34, 39} /\ LetterZ \notin {Backslash, 34, 39}
BY DEF LineFeed, Return, OneLetter, Octal, LetterX, LetterU, LetterZ, Backslash

LEMMA PartHasBytes ==
  ASSUME NEW p, NEW quote, NEW next, IsPart(p, quote, next)
  PROVE  Len(p.src) # 0
<1>1. CASE IsPlain(p, quote)
  <2>1. PICK c : p.src = <<c>>
    BY <1>1 DEF IsPlain
  <2>. QED BY <2>1
<1>2. CASE IsLetter(p) \/ IsItself(p)
  <2>1. PICK c : p.src = <<Backslash, c>>
    BY <1>2 DEF IsLetter, IsItself
  <2>. QED BY <2>1
<1>3. CASE IsNewline(p)
  BY <1>3 DEF IsNewline
<1>4. CASE IsSkip(p, next) \/ IsHexByte(p) \/ IsCodePointOf(p)
  <2>1. Len(p.src) >= 2
    BY <1>4 DEF IsSkip, IsHexByte, IsCodePointOf, IsEscape
  <2>2. \A k : k >= 2 /\ k = 0 => FALSE
    OBVIOUS
  <2>. QED BY <2>1, <2>2
<1>5. CASE IsOctalByte(p, next)
  <2>1. Len(p.src) \in 2 .. 4
    BY <1>5 DEF IsOctalByte
  <2>. QED BY <2>1
<1>. QED BY <1>1, <1>2, <1>3, <1>4, <1>5 DEF IsPart

LEMMA EscapeIsAt ==
  ASSUME Within, NEW set, Escape(set), NEW p, IsAt(p)
  PROVE  /\ call = "unescape" /\ at \in Nat /\ Len(arg.src) \in Nat /\ at + 2 <= Len(arg.src)
         /\ p.src \in Seq(Byte) /\ p.val \in Seq(Byte) /\ Len(p.src) \in Nat /\ Len(p.src) >= 2
         /\ at + Len(p.src) <= Len(arg.src)
         /\ \A j \in 1 .. Len(p.src) : Char(at + j - 1) = p.src[j]
         /\ p.src[2] = Char(at + 1) /\ Char(at + 1) \in set
         /\ LET next == Char(at + Len(p.src))
            IN  \/ IsLetter(p) /\ p.src[2] \in DOMAIN OneLetter
                \/ IsItself(p) /\ p.src[2] \in {Backslash, 34, 39}
                \/ IsNewline(p) /\ p.src[2] \in {LineFeed, Return}
                \/ IsSkip(p, next) /\ p.src[2] = LetterZ
                \/ IsHexByte(p) /\ p.src[2] = LetterX
                \/ IsOctalByte(p, next) /\ p.src[2] \in Octal
                \/ IsCodePointOf(p) /\ p.src[2] = LetterU
<1>1. /\ call = "unescape" /\ at + 2 <= Len(arg.src) /\ arg.src[at] = Backslash
      /\ Char(at + 1) \in set
  BY EscapeFacts DEF Escape
<1>2. at \in 1 .. Len(arg.src) /\ at \in Nat /\ Len(arg.src) \in Nat /\ Char(at) = Backslash
  BY <1>1, TokenFacts
<1>3. /\ p.src \in Seq(Byte) /\ p.val \in Seq(Byte)
      /\ IsPart(p, arg.src[1], Char(at + Len(p.src)))
      /\ at + Len(p.src) <= Len(arg.src)
      /\ \A j \in 1 .. Len(p.src) : Char(at + j - 1) = p.src[j]
  BY DEF IsAt
<1>4. Len(p.src) \in Nat
  BY <1>3, LenProperties
<1>5. Len(p.src) # 0
  BY <1>3, PartHasBytes
<1>6. p.src[1] = Backslash
  <2>1. 1 \in 1 .. Len(p.src) /\ at + 1 - 1 = at
    BY <1>2, <1>4, <1>5
  <2>2. Char(at + 1 - 1) = p.src[1]
    BY <1>3, <2>1
  <2>. QED BY <1>2, <2>1, <2>2
<1>7. Len(p.src) >= 2
  BY <1>3, <1>6, SecondByte
<1>8. p.src[2] = Char(at + 1)
  <2>1. 2 \in 1 .. Len(p.src) /\ at + 2 - 1 = at + 1
    BY <1>2, <1>4, <1>7
  <2>2. Char(at + 2 - 1) = p.src[2]
    BY <1>3, <2>1
  <2>. QED BY <2>1, <2>2
<1>9. LET next == Char(at + Len(p.src))
      IN  \/ IsLetter(p) /\ p.src[2] \in DOMAIN OneLetter
          \/ IsItself(p) /\ p.src[2] \in {Backslash, 34, 39}
          \/ IsNewline(p) /\ p.src[2] \in {LineFeed, Return}
          \/ IsSkip(p, next) /\ p.src[2] = LetterZ
          \/ IsHexByte(p) /\ p.src[2] = LetterX
          \/ IsOctalByte(p, next) /\ p.src[2] \in Octal
          \/ IsCodePointOf(p) /\ p.src[2] = LetterU
  BY <1>3, <1>6, SecondByte
<1>. QED BY <1>1, <1>2, <1>3, <1>4, <1>7, <1>8, <1>9

LEMMA BehindIs ==
  ASSUME NEW k \in Nat, NEW set, NEW most \in Nat, NEW end \in k .. k + most,
         \A i \in k .. end - 1 : Char(i) \in set, end = k + most \/ Char(end) \notin set
  PROVE  Behind(k, set, most) = end
<1> DEFINE e == Behind(k, set, most)
<1>1. /\ e \in k .. k + most /\ (e # k + most => Char(e) \notin set)
      /\ \A i \in k .. e - 1 : Char(i) \in set
  BY BehindFacts
<1> HIDE DEF e
<1>2. ~(e < end)
  <2> SUFFICES ASSUME e < end PROVE FALSE
    OBVIOUS
  <2>1. e \in k .. end - 1 /\ e # k + most
    BY <1>1
  <2>. QED BY <1>1, <2>1
<1>3. ~(end < e)
  <2> SUFFICES ASSUME end < e PROVE FALSE
    OBVIOUS
  <2>1. end \in k .. e - 1 /\ end # k + most
    BY <1>1
  <2>. QED BY <1>1, <2>1
<1>4. e = end
  BY <1>1, <1>2, <1>3
<1>. QED BY <1>4 DEF e

(* A part that begins with another byte than a backslash is that byte.     *)
LEMMA PlainIs ==
  ASSUME NEW p, NEW quote, NEW next, IsPart(p, quote, next), p.src[1] # Backslash
  PROVE  p.val = p.src /\ p.src = <<p.src[1]>> /\ p.src[1] # quote
<1>1. CASE IsPlain(p, quote)
  <2>1. PICK c : p.src = <<c>> /\ p.val = p.src /\ c # quote
    BY <1>1 DEF IsPlain
  <2>2. <<c>>[1] = c
    OBVIOUS
  <2>. QED BY <2>1, <2>2
<1>2. ~IsLetter(p) /\ ~IsItself(p)
  <2>1. ASSUME NEW c, p.src = <<Backslash, c>> PROVE FALSE
    <3>1. <<Backslash, c>>[1] = Backslash
      OBVIOUS
    <3>. QED BY <2>1, <3>1
  <2>. QED BY <2>1 DEF IsLetter, IsItself
<1>3. ~IsNewline(p)
  <2>1. <<Backslash, LineFeed>>[1] = Backslash /\ <<Backslash, Return, LineFeed>>[1] = Backslash
    OBVIOUS
  <2>. QED BY <2>1 DEF IsNewline
<1>4. ~IsSkip(p, next) /\ ~IsHexByte(p) /\ ~IsCodePointOf(p) /\ ~IsOctalByte(p, next)
  BY DEF IsSkip, IsHexByte, IsCodePointOf, IsOctalByte, IsEscape
<1>. QED BY <1>1, <1>2, <1>3, <1>4 DEF IsPart

LEMMA PlainMeans ==
  ASSUME Within, Plain, NEW p, IsAt(p)
  PROVE  Goes(at + Len(p.src), p.val)
<1>1. call = "unescape" /\ arg.src[at] # Backslash /\ Goes(at + 1, <<arg.src[at]>>)
  BY DEF Plain, Unescaping
<1>2. at \in 1 .. Len(arg.src) /\ Len(arg.src) \in Nat /\ Char(at) = arg.src[at]
  BY <1>1, TokenFacts
<1>3. /\ p.src \in Seq(Byte) /\ IsPart(p, arg.src[1], Char(at + Len(p.src)))
      /\ \A j \in 1 .. Len(p.src) : Char(at + j - 1) = p.src[j]
  BY DEF IsAt
<1>4. p.src[1] = arg.src[at]
  <2>1. Len(p.src) \in Nat /\ Len(p.src) # 0
    BY <1>3, PartHasBytes, LenProperties
  <2>2. 1 \in 1 .. Len(p.src) /\ at + 1 - 1 = at
    BY <1>2, <2>1
  <2>3. Char(at + 1 - 1) = p.src[1]
    BY <1>3, <2>2
  <2>. QED BY <1>2, <2>2, <2>3
<1>5. p.val = p.src /\ p.src = <<p.src[1]>>
  BY <1>1, <1>3, <1>4, PlainIs
<1>6. Len(<<p.src[1]>>) = 1
  OBVIOUS
<1>7. Len(p.src) = 1 /\ p.val = <<arg.src[at]>>
  BY <1>4, <1>5, <1>6
<1>. QED BY <1>1, <1>7

LEMMA EscapedNewlineMeans ==
  ASSUME Within, EscapedNewline, NEW p, IsAt(p)
  PROVE  Goes(at + Len(p.src), p.val)
<1>1. /\ Escape({LineFeed, Return})
      /\ Goes(IF Char(at + 1) = Return /\ Char(at + 2) = LineFeed THEN at + 3 ELSE at + 2,
              <<LineFeed>>)
  BY DEF EscapedNewline
<1>2. /\ at \in Nat /\ p.src[2] = Char(at + 1) /\ Char(at + 1) \in {LineFeed, Return}
      /\ Len(p.src) \in Nat /\ \A j \in 1 .. Len(p.src) : Char(at + j - 1) = p.src[j]
  BY <1>1, EscapeIsAt
<1>3. IsNewline(p)
  BY <1>1, <1>2, EscapeIsAt, BytesDiffer
<1>4. LineFeed # Return
  BY DEF LineFeed, Return
<1>5. CASE p.src = <<Backslash, LineFeed>>
  <2>1. Len(p.src) = 2 /\ Char(at + 1) = LineFeed
    BY <1>2, <1>5
  <2>2. p.val = <<LineFeed>>
    BY <1>3 DEF IsNewline
  <2>. QED BY <1>1, <1>4, <2>1, <2>2
<1>6. CASE p.src = <<Backslash, Return, LineFeed>>
  <2>1. Len(p.src) = 3 /\ Char(at + 1) = Return /\ p.src[3] = LineFeed
    BY <1>2, <1>6
  <2>2. 3 \in 1 .. Len(p.src) /\ at + 3 - 1 = at + 2
    BY <1>2, <2>1
  <2>3. Char(at + 3 - 1) = p.src[3]
    BY <1>2, <2>2
  <2>4. p.val = <<LineFeed>>
    BY <1>3 DEF IsNewline
  <2>. QED BY <1>1, <2>1, <2>2, <2>3, <2>4
<1>. QED BY <1>3, <1>5, <1>6 DEF IsNewline

LEMMA EscapedLetterMeans ==
  ASSUME Within, EscapedLetter, NEW p, IsAt(p)
  PROVE  Goes(at + Len(p.src), p.val)
<1>1. Escape(DOMAIN OneLetter) /\ Goes(at + 2, <<OneLetter[arg.src[at + 1]]>>)
  BY DEF EscapedLetter
<1>2. /\ at \in Nat /\ Len(arg.src) \in Nat /\ at + 2 <= Len(arg.src) /\ call = "unescape"
      /\ p.src[2] = Char(at + 1) /\ Char(at + 1) \in DOMAIN OneLetter
  BY <1>1, EscapeIsAt
<1>3. IsLetter(p)
  <2>1. /\ p.src[2] \notin {LineFeed, Return} /\ p.src[2] \notin {Backslash, 34, 39}
        /\ p.src[2] \notin Octal /\ p.src[2] # LetterX /\ p.src[2] # LetterU /\ p.src[2] # LetterZ
    BY <1>2, BytesDiffer
  <2>. QED BY <1>1, <2>1, EscapeIsAt
<1>4. arg.src[at + 1] = p.src[2]
  <2>1. at + 1 \in 1 .. Len(arg.src)
    BY <1>2
  <2>. QED BY <1>2, <2>1, TokenFacts
<1>5. PICK e \in {<<97, 7>>, <<98, 8>>, <<102, 12>>, <<110, 10>>, <<114, 13>>, <<116, 9>>, <<118, 11>>} :
        p.src = <<Backslash, e[1]>> /\ p.val = <<e[2]>>
  BY <1>3 DEF IsLetter
<1>6. e[2] = OneLetter[e[1]]
  BY DEF OneLetter
<1>7. Len(p.src) = 2 /\ p.src[2] = e[1]
  BY <1>5
<1>. QED BY <1>1, <1>4, <1>5, <1>6, <1>7

LEMMA EscapedOtherMeans ==
  ASSUME Within, EscapedOther, NEW p, IsAt(p)
  PROVE  Goes(at + Len(p.src), p.val)
<1> DEFINE set == Byte \ ({LineFeed, Return, LetterX, LetterU, LetterZ}
                            \cup DOMAIN OneLetter \cup Octal)
<1>1. Escape(set) /\ Goes(at + 2, <<Char(at + 1)>>)
  BY DEF EscapedOther
<1>2. p.src[2] = Char(at + 1) /\ Char(at + 1) \in set
  <2> HIDE DEF set
  <2>. QED BY <1>1, EscapeIsAt
<1>3. /\ p.src[2] \notin {LineFeed, Return} /\ p.src[2] # LetterX /\ p.src[2] # LetterU
      /\ p.src[2] # LetterZ /\ p.src[2] \notin DOMAIN OneLetter /\ p.src[2] \notin Octal
  BY <1>2
<1>4. IsItself(p)
  <2> HIDE DEF set
  <2>. QED BY <1>1, <1>3, EscapeIsAt
<1>5. PICK c : p.src = <<Backslash, c>> /\ p.val = <<c>>
  BY <1>4 DEF IsItself
<1>6. Len(p.src) = 2 /\ p.src[2] = c
  BY <1>5
<1>. QED BY <1>1, <1>2, <1>5, <1>6

LEMMA EscapedSpaceMeans ==
  ASSUME Within, EscapedSpace, NEW p, IsAt(p)
  PROVE  Goes(at + Len(p.src), p.val)
<1> DEFINE w == Len(p.src)
           most == Len(arg.src)
<1>1. Escape({LetterZ}) /\ Goes(Behind(at + 2, Space, most), <<>>)
  BY DEF EscapedSpace
<1>2. /\ at \in Nat /\ most \in Nat /\ w \in Nat /\ w >= 2 /\ at + w <= most
      /\ p.src[2] = Char(at + 1) /\ Char(at + 1) \in {LetterZ}
      /\ \A j \in 1 .. w : Char(at + j - 1) = p.src[j]
  BY <1>1, EscapeIsAt
<1>3. IsSkip(p, Char(at + w))
  <2>1. LetterZ \notin {LineFeed, Return} /\ LetterZ \notin DOMAIN OneLetter /\ LetterZ \notin Octal
    BY BytesDiffer
  <2>. QED BY <1>1, <1>2, <2>1, EscapeIsAt, BytesDiffer
<1>4. /\ \A i \in 3 .. w : p.src[i] \in Space
      /\ Char(at + w) \notin Space /\ p.val = <<>>
  BY <1>3 DEF IsSkip, Whitespace, Space
<1> HIDE DEF w, most
<1>5. ASSUME NEW i \in at + 2 .. at + w - 1 PROVE Char(i) \in Space
  <2>1. i - at + 1 \in 3 .. w /\ i - at + 1 \in 1 .. w /\ at + (i - at + 1) - 1 = i
    BY <1>2
  <2>. QED BY <1>2, <1>4, <2>1
<1>6. at + 2 \in Nat /\ at + w \in at + 2 .. at + 2 + most
  BY <1>2
<1>7. Behind(at + 2, Space, most) = at + w
  BY <1>2, <1>4, <1>5, <1>6, BehindIs
<1>. QED BY <1>1, <1>4, <1>7 DEF w

(* The digits of a part are those in the token. *)
LEMMA DigitsAre ==
  ASSUME NEW p, p.src \in Seq(Byte), NEW k \in Nat \ {0}, NEW few \in Nat, k + few <= Len(p.src),
         NEW set, set \subseteq Hex, AreDigits(DigitsOf(p, k, few), set),
         Within, call = "unescape", at + Len(p.src) <= Len(arg.src),
         \A j \in 1 .. Len(p.src) : Char(at + j - 1) = p.src[j]
  PROVE  /\ \A i \in at + k - 1 .. at + Len(p.src) - few - 1 : Char(i) \in set
         /\ SubSeq(arg.src, at + k - 1, at + Len(p.src) - few - 1) = DigitsOf(p, k, few)
         /\ DigitsOf(p, k, few) \in Seq(Hex)
         /\ Len(DigitsOf(p, k, few)) = Len(p.src) - few - k + 1
<1> DEFINE w == Len(p.src)
           d == DigitsOf(p, k, few)
           from == at + k - 1
           to == at + w - few - 1
           t == SubSeq(arg.src, from, to)
<1>1. /\ w \in Nat /\ at \in Nat \ {0} /\ Len(arg.src) \in Nat
      /\ \A i \in 1 .. Len(arg.src) : Char(i) = arg.src[i]
  <2>1. at \in 1 .. Len(arg.src) /\ Len(arg.src) \in Nat
    BY TokenFacts
  <2>2. at \in Nat \ {0}
    BY <2>1
  <2>. QED BY <2>1, <2>2, TokenFacts, LenProperties
<1>2. Len(d) = w - few - k + 1 /\ \A i \in 1 .. w - few - k + 1 : d[i] = p.src[k + i - 1]
  <2>1. \A i \in k .. w - few : p.src[i] \in Byte
    <3>1. \A i \in 1 .. w : p.src[i] \in Byte
      BY ElementOfSeq
    <3>2. \A i \in k .. w - few : i \in 1 .. w
      BY <1>1
    <3>. QED BY <3>1, <3>2
  <2>2. k \in Int /\ w - few \in Int /\ k <= w - few
    BY <1>1
  <2>3. d = SubSeq(p.src, k, w - few)
    BY DEF DigitsOf
  <2> HIDE DEF w, d
  <2>4. /\ Len(d) = IF k <= w - few THEN w - few - k + 1 ELSE 0
        /\ \A i \in 1 .. w - few - k + 1 : d[i] = p.src[k + i - 1]
    BY <2>1, <2>2, <2>3, SubSeqProperties
  <2>. QED BY <2>2, <2>4
<1>3. \A i \in 1 .. Len(d) : d[i] \in set /\ d[i] \in Hex
  BY DEF AreDigits
<1> HIDE DEF w, d
<1>4. ASSUME NEW i \in from .. to
      PROVE  /\ i - from + 1 \in 1 .. w - few - k + 1
             /\ Char(i) = d[i - from + 1] /\ arg.src[i] = Char(i)
  <2>1. /\ i - from + 1 \in 1 .. w - few - k + 1 /\ i - at + 1 \in 1 .. w
        /\ at + (i - at + 1) - 1 = i /\ k + (i - from + 1) - 1 = i - at + 1
        /\ i \in 1 .. Len(arg.src)
    BY <1>1 DEF w
  <2>2. Char(at + (i - at + 1) - 1) = p.src[i - at + 1]
    BY <2>1 DEF w
  <2>. QED BY <1>1, <1>2, <2>1, <2>2
<1>5. \A i \in from .. to : Char(i) \in set /\ arg.src[i] \in Hex
  BY <1>2, <1>3, <1>4
<1>6. from \in Int /\ to \in Int /\ from <= to /\ to - from + 1 = w - few - k + 1
  BY <1>1 DEF w
<1> HIDE DEF from, to
<1>7. /\ t \in Seq(Hex) /\ Len(t) = w - few - k + 1
      /\ \A i \in 1 .. w - few - k + 1 : t[i] = arg.src[from + i - 1]
  <2>1. /\ t \in Seq(Hex) /\ Len(t) = IF from <= to THEN to - from + 1 ELSE 0
        /\ \A i \in 1 .. to - from + 1 : t[i] = arg.src[from + i - 1]
    BY <1>5, <1>6, SubSeqProperties
  <2>. QED BY <1>6, <2>1
<1> HIDE DEF t
<1>8. d \in Seq(Hex)
  <2>1. w - few - k + 1 \in Nat
    BY <1>1 DEF w
  <2>2. d = [i \in 1 .. Len(d) |-> d[i]]
    <3>1. d = SubSeq(p.src, k, w - few)
      BY DEF d, DigitsOf, w
    <3>2. d \in Seq(Byte)
      <4>1. \A i \in k .. w - few : p.src[i] \in Byte
        <5>1. \A i \in k .. w - few : i \in 1 .. w
          BY <1>1
        <5>. QED BY <5>1, ElementOfSeq DEF w
      <4>2. k \in Int /\ w - few \in Int
        BY <1>1
      <4>. QED BY <3>1, <4>1, <4>2, SubSeqProperties
    <3>. QED BY <3>2, LenProperties
  <2>3. d \in [1 .. Len(d) -> Hex]
    BY <1>3, <2>2
  <2>. QED BY <1>2, <2>1, <2>3, SeqDef
<1>9. \A i \in 1 .. w - few - k + 1 : t[i] = d[i]
  <2> SUFFICES ASSUME NEW i \in 1 .. w - few - k + 1 PROVE t[i] = d[i]
    OBVIOUS
  <2>1. from + i - 1 \in from .. to /\ (from + i - 1) - from + 1 = i
    BY <1>6
  <2>. QED BY <1>4, <1>7, <2>1
<1>10. t = d
  BY <1>2, <1>7, <1>8, <1>9, SeqEqual
<1>11. \A i \in at + k - 1 .. at + w - few - 1 : Char(i) \in set
  BY <1>5 DEF from, to
<1>12. SubSeq(arg.src, at + k - 1, at + w - few - 1) = d
  BY <1>10 DEF t, from, to
<1>13. Len(d) = w - few - k + 1
  BY <1>2
<1>. QED BY <1>8, <1>11, <1>12, <1>13 DEF w, d

LEMMA DigitSets ==
  /\ HexDigit = Hex /\ OctalDigit = Octal /\ Octal \subseteq Hex
  /\ OpenBrace \notin Hex /\ CloseBrace \notin Hex /\ OpenBrace # CloseBrace
BY DEF HexDigit, Hex, OctalDigit, Octal, OpenBrace, CloseBrace

(* The same of a part that is next: its digits d, all of it from place k   *)
(* on but for the last few bytes, lie between these places of the token.   *)
DigitsLie(p, k, few, set, d, from, to) ==
  /\ IsAt(p) /\ k \in Nat \ {0} /\ few \in Nat /\ k + few <= Len(p.src)
  /\ d = DigitsOf(p, k, few) /\ AreDigits(d, set) /\ set \in {Hex, Octal}
  /\ from = at + k - 1 /\ to = at + Len(p.src) - few - 1

LEMMA DigitsAt ==
  ASSUME Within, call = "unescape", NEW p, NEW k, NEW few, NEW set, NEW d, NEW from, NEW to,
         DigitsLie(p, k, few, set, d, from, to)
  PROVE  /\ \A i \in from .. to : Char(i) \in set
         /\ SubSeq(arg.src, from, to) = d
         /\ d \in Seq(Hex)
         /\ Len(d) = Len(p.src) - few - k + 1
<1>1. /\ IsAt(p) /\ k \in Nat \ {0} /\ few \in Nat /\ k + few <= Len(p.src)
      /\ d = DigitsOf(p, k, few) /\ AreDigits(d, set) /\ set \in {Hex, Octal}
      /\ from = at + k - 1 /\ to = at + Len(p.src) - few - 1
  BY DEF DigitsLie
<1>2. /\ p.src \in Seq(Byte) /\ at + Len(p.src) <= Len(arg.src)
      /\ \A j \in 1 .. Len(p.src) : Char(at + j - 1) = p.src[j]
  BY <1>1 DEF IsAt
<1>3. set \subseteq Hex
  BY <1>1, DigitSets
<1>4. AreDigits(DigitsOf(p, k, few), set)
  BY <1>1
<1>. QED BY <1>1, <1>2, <1>3, <1>4, DigitsAre

LEMMA SubSeqOfTwo ==
  ASSUME NEW X, NEW s, NEW from \in Nat, NEW to \in Nat, to = from + 1, s[from] \in X, s[to] \in X
  PROVE  SubSeq(s, from, to) = <<s[from], s[to]>>
<1> DEFINE d == SubSeq(s, from, to)
<1>1. \A i \in from .. to : s[i] \in X
  <2>1. \A i \in from .. to : i = from \/ i = to
    OBVIOUS
  <2>. QED BY <2>1
<1>2. /\ d \in Seq(X) /\ Len(d) = IF from <= to THEN to - from + 1 ELSE 0
      /\ \A i \in 1 .. to - from + 1 : d[i] = s[from + i - 1]
  <2>1. from \in Int /\ to \in Int
    OBVIOUS
  <2>. QED BY <1>1, <2>1, SubSeqProperties
<1> HIDE DEF d
<1>3. to - from + 1 = 2 /\ from <= to /\ from + 1 - 1 = from /\ from + 2 - 1 = to
  OBVIOUS
<1>4. Len(d) = 2 /\ d[1] = s[from] /\ d[2] = s[to]
  BY <1>2, <1>3
<1>5. <<d[1], d[2]>> \in Seq(X) /\ Len(<<d[1], d[2]>>) = 2
  BY <1>4
<1>6. \A i \in 1 .. 2 : <<d[1], d[2]>>[i] = d[i]
  OBVIOUS
<1>7. <<d[1], d[2]>> = d
  BY <1>2, <1>4, <1>5, <1>6, SeqEqual
<1>. QED BY <1>4, <1>7 DEF d

LEMMA EscapedHexMeans ==
  ASSUME Within, EscapedHex, NEW p, IsAt(p)
  PROVE  Goes(at + Len(p.src), p.val)
<1> DEFINE d == DigitsOf(p, 3, 0)
<1>1. Escape({LetterX})
  BY DEF EscapedHex
<1>2. /\ call = "unescape" /\ at \in Nat /\ Len(arg.src) \in Nat
      /\ p.src \in Seq(Byte) /\ p.val \in Seq(Byte) /\ at + Len(p.src) <= Len(arg.src)
      /\ p.src[2] = Char(at + 1) /\ Char(at + 1) \in {LetterX}
      /\ \A j \in 1 .. Len(p.src) : Char(at + j - 1) = p.src[j]
  BY <1>1, EscapeIsAt
<1>3. IsHexByte(p)
  <2>1. /\ p.src[2] \notin {LineFeed, Return} /\ p.src[2] \notin {Backslash, 34, 39}
        /\ p.src[2] \notin Octal /\ p.src[2] \notin DOMAIN OneLetter
        /\ p.src[2] # LetterU /\ p.src[2] # LetterZ
    BY <1>2, BytesDiffer
  <2>. QED BY <1>1, <2>1, EscapeIsAt
<1>4. Len(p.src) = 4 /\ AreDigits(d, HexDigit) /\ p.val = <<Denoted(d, 16)>>
  BY <1>3 DEF IsHexByte
<1> HIDE DEF d
<1>5. /\ \A i \in at + 2 .. at + 3 : Char(i) \in Hex
      /\ SubSeq(arg.src, at + 2, at + 3) = d /\ d \in Seq(Hex) /\ Len(d) = 2
  <2> DEFINE from == at + 2
             to == at + 3
  <2>1. from = at + 3 - 1 /\ to = at + Len(p.src) - 0 - 1 /\ 3 + 0 <= Len(p.src)
        /\ 3 \in Nat \ {0} /\ 0 \in Nat
    BY <1>2, <1>4
  <2>2. DigitsLie(p, 3, 0, Hex, d, from, to)
    <3>1. d = DigitsOf(p, 3, 0) /\ AreDigits(d, Hex) /\ Hex \in {Hex, Octal}
      BY <1>4, DigitSets DEF d
    <3> HIDE DEF from, to
    <3>. QED BY <2>1, <3>1 DEF DigitsLie
  <2> HIDE DEF from, to
  <2>3. /\ \A i \in from .. to : Char(i) \in Hex
        /\ SubSeq(arg.src, from, to) = d /\ d \in Seq(Hex)
        /\ Len(d) = Len(p.src) - 0 - 3 + 1
    BY <1>2, <2>2, DigitsAt
  <2>4. Len(p.src) - 0 - 3 + 1 = 2
    BY <1>4
  <2>. QED BY <2>3, <2>4 DEF from, to
<1>7. Char(at + 2) \in Hex /\ Char(at + 3) \in Hex
  <2>1. at + 2 \in at + 2 .. at + 3 /\ at + 3 \in at + 2 .. at + 3
    BY <1>2
  <2>. QED BY <1>5, <2>1
<1>8. Goes(at + 4, <<Number(<<Char(at + 2), Char(at + 3)>>, 16)>>)
  BY <1>7 DEF EscapedHex
<1>9. <<Char(at + 2), Char(at + 3)>> = d
  <2>1. /\ at + 2 \in 1 .. Len(arg.src) /\ at + 3 \in 1 .. Len(arg.src)
        /\ at + 2 \in Nat /\ at + 3 \in Nat /\ at + 3 = (at + 2) + 1
    BY <1>2, <1>4
  <2>2. Char(at + 2) = arg.src[at + 2] /\ Char(at + 3) = arg.src[at + 3]
    BY <1>2, <2>1, TokenFacts
  <2> DEFINE from == at + 2
             to == at + 3
  <2>3. /\ from \in Nat /\ to \in Nat /\ to = from + 1
        /\ arg.src[from] \in Hex /\ arg.src[to] \in Hex
    BY <1>7, <2>1, <2>2
  <2>4. SubSeq(arg.src, from, to) = <<arg.src[from], arg.src[to]>>
    <3> HIDE DEF from, to
    <3>. QED BY <2>3, SubSeqOfTwo
  <2>. QED BY <1>5, <2>2, <2>4
<1>10. Number(d, 16) = Denoted(d, 16)
  <2>1. p.val[1] \in Byte /\ p.val[1] = Denoted(d, 16)
    <3>1. p.val[1] = Denoted(d, 16) /\ Len(p.val) = 1
      BY <1>4
    <3>. QED BY <1>2, <3>1, ElementOfSeq
  <2>2. Denoted(d, 16) < Huge
    BY <2>1, SMT DEF Byte, Huge
  <2>. QED BY <1>5, <2>2, NumberIsDenoted
<1>. QED BY <1>4, <1>8, <1>9, <1>10

LEMMA EscapedOctalMeans ==
  ASSUME Within, EscapedOctal, NEW p, IsAt(p)
  PROVE  Goes(at + Len(p.src), p.val)
<1> DEFINE d == DigitsOf(p, 2, 0)
           w == Len(p.src)
           end == Behind(at + 1, Octal, 3)
<1>1. Escape(Octal) /\ Goes(end, <<Number(SubSeq(arg.src, at + 1, end - 1), 8) % 256>>)
  BY DEF EscapedOctal
<1>2. /\ call = "unescape" /\ at \in Nat /\ Len(arg.src) \in Nat
      /\ p.src \in Seq(Byte) /\ p.val \in Seq(Byte) /\ w \in Nat /\ at + w <= Len(arg.src)
      /\ p.src[2] = Char(at + 1) /\ Char(at + 1) \in Octal
      /\ \A j \in 1 .. w : Char(at + j - 1) = p.src[j]
  BY <1>1, EscapeIsAt
<1>3. IsOctalByte(p, Char(at + w))
  <2>1. /\ p.src[2] \notin {LineFeed, Return} /\ p.src[2] \notin {Backslash, 34, 39}
        /\ p.src[2] \notin DOMAIN OneLetter
        /\ p.src[2] # LetterX /\ p.src[2] # LetterU /\ p.src[2] # LetterZ
    BY <1>2, BytesDiffer
  <2>. QED BY <1>1, <2>1, EscapeIsAt
<1>4. /\ w \in 2 .. 4 /\ (w < 4 => Char(at + w) \notin Octal)
      /\ AreDigits(d, Octal) /\ p.val = <<Denoted(d, 8)>>
  BY <1>3, DigitSets DEF IsOctalByte
<1> HIDE DEF d, end
<1> HIDE DEF w
<1>5. /\ \A i \in at + 1 .. at + w - 1 : Char(i) \in Octal
      /\ SubSeq(arg.src, at + 1, at + w - 1) = d /\ d \in Seq(Hex)
  <2> DEFINE from == at + 1
             to == at + w - 1
  <2>1. from = at + 2 - 1 /\ to = at + w - 0 - 1 /\ 2 + 0 <= w
        /\ 2 \in Nat \ {0} /\ 0 \in Nat
    BY <1>2, <1>4
  <2>2. DigitsLie(p, 2, 0, Octal, d, from, to)
    <3>1. d = DigitsOf(p, 2, 0) /\ AreDigits(d, Octal) /\ Octal \in {Hex, Octal}
      BY <1>4 DEF d
    <3> HIDE DEF from, to
    <3>. QED BY <2>1, <3>1 DEF DigitsLie, w
  <2> HIDE DEF from, to
  <2>3. /\ \A i \in from .. to : Char(i) \in Octal
        /\ SubSeq(arg.src, from, to) = d /\ d \in Seq(Hex)
    BY <1>2, <2>2, DigitsAt DEF w
  <2>. QED BY <2>3 DEF from, to
<1>7. end = at + w
  <2>1. at + 1 \in Nat /\ at + w \in at + 1 .. at + 1 + 3
    BY <1>2, <1>4
  <2>2. \A i \in at + 1 .. (at + w) - 1 : Char(i) \in Octal
    <3>1. (at + w) - 1 = at + w - 1
      BY <1>2
    <3>. QED BY <1>5, <3>1
  <2>3. at + w = at + 1 + 3 \/ Char(at + w) \notin Octal
    <3>1. w = 4 => at + w = at + 1 + 3
      BY <1>2
    <3>2. w = 4 \/ w < 4
      BY <1>4
    <3>. QED BY <1>4, <3>1, <3>2
  <2>4. 3 \in Nat
    OBVIOUS
  <2>. QED BY <2>1, <2>2, <2>3, <2>4, BehindIs DEF end
<1>8. Number(SubSeq(arg.src, at + 1, end - 1), 8) = Number(d, 8)
  <2>1. end - 1 = at + w - 1
    BY <1>2, <1>7
  <2>. QED BY <1>5, <2>1
<1>9. Number(d, 8) % 256 = Denoted(d, 8)
  <2> DEFINE n == Denoted(d, 8)
  <2>1. n \in Byte
    <3>1. p.val[1] = n /\ Len(p.val) = 1
      BY <1>4
    <3>. QED BY <1>2, <3>1, ElementOfSeq
  <2> HIDE DEF n
  <2>2. n < Huge /\ n % 256 = n
    BY <2>1, SMT DEF Byte, Huge
  <2>3. Number(d, 8) = n
    BY <1>5, <2>2, NumberIsDenoted DEF n
  <2>. QED BY <2>2, <2>3 DEF n
<1>. QED BY <1>1, <1>4, <1>7, <1>8, <1>9 DEF w

(* Of digits alone, strtol reads the number they denote.                   *)
LEMMA StrtolOfDigits ==
  ASSUME NEW k \in Nat \ {0}, NEW end \in Nat, k < end, end <= Len(arg.src), Len(arg.src) \in Nat,
         \A i \in k .. end - 1 : Char(i) \in Hex, Char(end) = CloseBrace,
         NEW digits \in Seq(Hex), SubSeq(arg.src, k, end - 1) = digits, digits # <<>>,
         Denoted(digits, 16) < Huge
  PROVE  Strtol(k) = Denoted(digits, 16)
<1> DEFINE room == Len(arg.src)
<1>1. Char(k) \in Hex /\ (Char(k + 1) \in Hex \/ Char(k + 1) = CloseBrace)
  <2>1. k \in k .. end - 1 /\ (k + 1 \in k .. end - 1 \/ k + 1 = end)
    OBVIOUS
  <2>. QED BY <2>1
<1>2. /\ \A c \in Hex : c \notin Space /\ c \notin {Plus, Minus} /\ c \notin {LetterX, 88}
      /\ CloseBrace \notin {LetterX, 88} /\ CloseBrace \notin Hex
  BY SMT DEF CloseBrace, Space, Plus, Minus, LetterX, Hex
<1>3. Behind(k, Space, room) = k
  <2>1. k \in k .. k + room /\ \A i \in k .. k - 1 : Char(i) \in Space
    OBVIOUS
  <2>2. Char(k) \notin Space
    BY <1>1, <1>2
  <2>. QED BY <2>1, <2>2, BehindIs
<1>4. Behind(k, Hex, room) = end
  <2>1. end \in k .. k + room
    OBVIOUS
  <2>2. Char(end) \notin Hex
    BY <1>2
  <2>. QED BY <2>1, <2>2, BehindIs
<1>5. Char(k) \notin {Plus, Minus} /\ Char(k) # Minus /\ Char(k + 1) \notin {LetterX, 88}
  BY <1>1, <1>2
<1>6. Strtol(k) = CodePoint(digits, FALSE)
  BY <1>3, <1>4, <1>5 DEF Strtol
<1>7. Number(digits, 16) = Denoted(digits, 16)
  BY 16 \in {8, 16}, NumberIsDenoted
<1> DEFINE point == Denoted(digits, 16)
<1>8. point < Huge
  OBVIOUS
<1> HIDE DEF point
<1>9. CodePoint(digits, FALSE) = point
  BY <1>7, <1>8 DEF CodePoint, point
<1>. QED BY <1>6, <1>9 DEF point

LEMMA EscapedUnicodeMeans ==
  ASSUME Within, EscapedUnicode, NEW p, IsAt(p)
  PROVE  Goes(at + Len(p.src), p.val)
<1> DEFINE d == DigitsOf(p, 4, 1)
           w == Len(p.src)
           room == Len(arg.src)
           closes == {k \in at + 2 .. room :
                        arg.src[k] = CloseBrace /\ \A i \in at + 2 .. k : arg.src[i] # 0}
           point == Denoted(d, 16)
<1>1. Escape({LetterU})
  BY DEF EscapedUnicode
<1>2. /\ call = "unescape" /\ at \in Nat /\ room \in Nat
      /\ p.src \in Seq(Byte) /\ p.val \in Seq(Byte) /\ w \in Nat /\ at + w <= room
      /\ p.src[2] = Char(at + 1) /\ Char(at + 1) \in {LetterU}
      /\ \A j \in 1 .. w : Char(at + j - 1) = p.src[j]
  BY <1>1, EscapeIsAt
<1>3. IsCodePointOf(p)
  <2>1. /\ p.src[2] \notin {LineFeed, Return} /\ p.src[2] \notin {Backslash, 34, 39}
        /\ p.src[2] \notin Octal /\ p.src[2] \notin DOMAIN OneLetter
        /\ p.src[2] # LetterX /\ p.src[2] # LetterZ
    BY <1>2, BytesDiffer
  <2>. QED BY <1>1, <2>1, EscapeIsAt
<1>4. /\ w > 4 /\ p.src[3] = OpenBrace /\ p.src[w] = CloseBrace
      /\ AreDigits(d, Hex) /\ IsCodePoint(point) /\ IsUtf8(p.val, point)
  BY <1>3, DigitSets DEF IsCodePointOf
<1>5. Len(p.val) > 1 => Len(out) > Len(p.val)
  BY DEF IsAt
<1> HIDE DEF d, point
<1> HIDE DEF w, room
<1>6. /\ \A i \in at + 3 .. at + w - 2 : Char(i) \in Hex
      /\ SubSeq(arg.src, at + 3, at + w - 2) = d /\ d \in Seq(Hex)
  <2> DEFINE from == at + 3
             to == at + w - 2
  <2>1. from = at + 4 - 1 /\ to = at + w - 1 - 1 /\ 4 + 1 <= w
        /\ 4 \in Nat \ {0} /\ 1 \in Nat
    BY <1>2, <1>4
  <2>2. DigitsLie(p, 4, 1, Hex, d, from, to)
    <3>1. d = DigitsOf(p, 4, 1) /\ AreDigits(d, Hex) /\ Hex \in {Hex, Octal}
      BY <1>4 DEF d
    <3> HIDE DEF from, to
    <3>. QED BY <2>1, <3>1 DEF DigitsLie, w
  <2> HIDE DEF from, to
  <2>3. /\ \A i \in from .. to : Char(i) \in Hex
        /\ SubSeq(arg.src, from, to) = d /\ d \in Seq(Hex)
    BY <1>2, <2>2, DigitsAt DEF w
  <2>. QED BY <2>3 DEF from, to
<1>7. \A i \in 1 .. room : Char(i) = arg.src[i]
  BY <1>2, TokenFacts DEF room
<1>9. Char(at + 2) = OpenBrace /\ Char(at + w - 1) = CloseBrace
  <2>1. 3 \in 1 .. w /\ w \in 1 .. w /\ at + 3 - 1 = at + 2
    BY <1>2, <1>4
  <2>2. Char(at + 3 - 1) = p.src[3] /\ Char(at + w - 1) = p.src[w]
    BY <1>2, <2>1
  <2>. QED BY <1>4, <2>1, <2>2
<1>10. ASSUME NEW i \in at + 2 .. at + w - 2 PROVE Char(i) # CloseBrace /\ Char(i) # 0
  <2>1. i = at + 2 \/ i \in at + 3 .. at + w - 2
    BY <1>2
  <2>2. i \in at + 3 .. at + w - 2 => Char(i) \in Hex
    BY <1>6
  <2>3. 0 \notin Hex /\ OpenBrace # 0
    BY SMT DEF Hex, OpenBrace
  <2>. QED BY <1>9, <2>1, <2>2, <2>3, DigitSets
<1>11. closes # {} /\ Min(closes) = at + w - 1
  <2>1. closes \in SUBSET Nat /\ at + w - 1 \in closes
    <3>1. at + w - 1 \in at + 2 .. room /\ at + w - 1 \in 1 .. room
      BY <1>2, <1>4
    <3>2. \A k \in at + 2 .. room : k \in Nat
      BY <1>2
    <3>3. ASSUME NEW i \in at + 2 .. at + w - 1 PROVE arg.src[i] # 0
      <4>1. i \in 1 .. room /\ (i \in at + 2 .. at + w - 2 \/ i = at + w - 1)
        BY <1>2, <3>1
      <4>2. CloseBrace # 0
        BY DEF CloseBrace
      <4>. QED BY <1>7, <1>9, <1>10, <4>1, <4>2
    <3>. QED BY <1>7, <1>9, <3>1, <3>2, <3>3
  <2>2. ASSUME NEW k \in closes PROVE at + w - 1 <= k
    <3>1. k \in at + 2 .. room /\ k \in 1 .. room /\ Char(k) = CloseBrace
      <4>1. k \in at + 2 .. room /\ arg.src[k] = CloseBrace
        OBVIOUS
      <4>2. k \in 1 .. room
        BY <1>2, <4>1
      <4>. QED BY <1>7, <4>1, <4>2
    <3>2. k \notin at + 2 .. at + w - 2
      BY <1>10, <3>1
    <3>. QED BY <1>2, <3>1, <3>2
  <2>3. Min(closes) \in closes /\ \A k \in closes : Min(closes) <= k
    <3> HIDE DEF closes
    <3>. QED BY <2>1, MinIsLeast
  <2>4. at + w - 1 <= Min(closes) /\ Min(closes) <= at + w - 1 /\ Min(closes) \in Nat
    <3> HIDE DEF closes
    <3>. QED BY <2>1, <2>2, <2>3
  <2> DEFINE m == Min(closes)
  <2>5. at + w - 1 <= m /\ m <= at + w - 1 /\ m \in Nat
    BY <2>4
  <2> HIDE DEF m
  <2>6. m = at + w - 1
    BY <1>2, <2>5
  <2>. QED BY <2>1, <2>6 DEF m
<1>12. Goes(Min(closes) + 1, WriteUtf8(Strtol(at + 3), Len(out), 0))
  BY <1>9, <1>11 DEF EscapedUnicode, closes, room
<1>13. Min(closes) + 1 = at + w
  <2> HIDE DEF closes
  <2>. QED BY <1>2, <1>11
<1>14. Strtol(at + 3) = point
  <2>1. point < Huge
    BY <1>4, SMT DEF IsCodePoint, LastCodePoint, Huge
  <2> DEFINE from == at + 3
             to == at + w - 1
  <2>2. /\ from \in Nat \ {0} /\ to \in Nat /\ from < to /\ to <= room /\ to - 1 = at + w - 2
    BY <1>2, <1>4
  <2>3. /\ \A i \in from .. to - 1 : Char(i) \in Hex
        /\ SubSeq(arg.src, from, to - 1) = d /\ d \in Seq(Hex) /\ Char(to) = CloseBrace
    BY <1>6, <1>9, <2>2
  <2>4. d # <<>>
    BY <1>4 DEF AreDigits
  <2> HIDE DEF from, to
  <2>5. Strtol(from) = Denoted(d, 16)
    BY <1>2, <2>1, <2>2, <2>3, <2>4, StrtolOfDigits DEF room, point
  <2>. QED BY <2>5 DEF from, point
<1>15. WriteUtf8(point, Len(out), 0) = p.val
  <2>1. Len(out) \in Nat
    BY <1>2, TokenFacts
  <2>2. /\ Len(p.val) \in 1 .. 4
        /\ WriteUtf8(point, Len(out), 0)
             = IF Len(p.val) = 1 \/ 0 + Len(p.val) < Len(out) THEN p.val ELSE <<>>
    BY <1>4, <2>1, WritesUtf8
  <2> DEFINE l == Len(p.val)
             o == Len(out)
  <2>3. l \in 1 .. 4 /\ o \in Nat /\ (l > 1 => o > l)
    BY <1>5, <2>1, <2>2
  <2> HIDE DEF l, o
  <2>4. l = 1 \/ 0 + l < o
    BY <2>3
  <2>. QED BY <2>2, <2>4 DEF l, o
<1>. QED BY <1>12, <1>13, <1>14, <1>15 DEF w

(* No part begins with the quote of its string. *)
LEMMA PartIsNoQuote ==
  ASSUME Within, call = "unescape", NEW p, IsAt(p)
  PROVE  ~AtQuote
<1>1. /\ p.src \in Seq(Byte) /\ IsPart(p, arg.src[1], Char(at + Len(p.src)))
      /\ at + Len(p.src) <= Len(arg.src)
      /\ \A j \in 1 .. Len(p.src) : Char(at + j - 1) = p.src[j]
  BY DEF IsAt
<1>2. Len(p.src) \in Nat /\ Len(p.src) # 0
  BY <1>1, PartHasBytes, LenProperties
<1>3. at \in 1 .. Len(arg.src) /\ Len(arg.src) \in Nat /\ Char(at) = arg.src[at]
      /\ arg.src[1] \in QuoteMark
  BY TokenFacts
<1>4. arg.src[at] = p.src[1]
  <2>1. 1 \in 1 .. Len(p.src) /\ at + 1 - 1 = at
    BY <1>2, <1>3
  <2>2. Char(at + 1 - 1) = p.src[1]
    BY <1>1, <2>1
  <2>. QED BY <1>3, <2>1, <2>2
<1>5. p.src[1] # arg.src[1]
  <2>1. CASE p.src[1] = Backslash
    BY <1>3, <2>1 DEF Backslash, QuoteMark
  <2>2. CASE p.src[1] # Backslash
    BY <1>1, <2>2, PlainIs
  <2>. QED BY <2>1, <2>2
<1>6. ~(at > Len(arg.src))
  BY <1>3
<1>. QED BY <1>4, <1>5, <1>6 DEF AtQuote

LEMMA OpenQuoteMeans ==
  ASSUME Within, OpenQuote, NEW parts \in arg.means, Meant(parts, at, out, done)
  PROVE  Meant(parts, at', out', done')
<1>1. call = "unescape" /\ done = "" /\ at = 1 /\ at' = 2 /\ out' = out \o <<>> /\ done' = done
  BY DEF OpenQuote, Unescaping, Goes
<1>2. /\ Sources(parts) \in Seq(Seq(Byte)) /\ Values(parts) \in Seq(Seq(Byte))
      /\ Len(parts) \in Nat
  BY <1>1, MeansFacts
<1>3. Joined(Sources(parts), 0) = <<>> /\ Joined(Values(parts), 0) = <<>>
  BY <1>2, JoinedGrows
<1>4. out = <<>>
  <2>1. out \in Seq(Byte) /\ Len(out) \in Nat /\ Len(out) < 1
    BY <1>1, TokenFacts
  <2>2. Len(out) = 0
    BY <2>1
  <2>. QED BY <2>1, <2>2, EmptySeq
<1>5. out' = <<>>
  <2>1. <<>> \in Seq(Byte) /\ <<>> \o <<>> = <<>>
    BY ConcatEmptySeq
  <2>. QED BY <1>1, <1>4, <2>1
<1>6. at' = Len(Joined(Sources(parts), 0)) + 2
  <2>1. Len(Joined(Sources(parts), 0)) = 0
    BY <1>3
  <2>2. \A l : l = 0 => 2 = l + 2
    OBVIOUS
  <2>. QED BY <1>1, <2>1, <2>2
<1>7. done' # "ok"
  BY <1>1
<1>8. MeantSoFar(parts, at', out', done', 0)
  BY <1>3, <1>5, <1>6, <1>7 DEF MeantSoFar
<1>9. 0 \in 0 .. Len(parts)
  BY <1>2
<1>. QED BY <1>8, <1>9 DEF Meant

LEMMA NoMemoryMeans ==
  ASSUME Within, NoMemory, NEW parts \in arg.means, Meant(parts, at, out, done)
  PROVE  Meant(parts, at', out', done')
<1>1. /\ call = "unescape" /\ at = 1 /\ done' = "none" /\ at' = at /\ out' = out
  BY DEF NoMemory, Unescaping, Finished
<1>2. out = <<>>
  <2>1. out \in Seq(Byte) /\ Len(out) \in Nat /\ Len(out) < 1
    BY <1>1, TokenFacts
  <2>2. Len(out) = 0
    BY <2>1
  <2>. QED BY <2>1, <2>2, EmptySeq
<1>3. "none" # "ok"
  OBVIOUS
<1>. QED BY <1>1, <1>2, <1>3 DEF Meant

(* The quote that ends the loop is behind all the parts. *)
LEMMA CloseQuoteMeans ==
  ASSUME Within, CloseQuote, NEW parts \in arg.means, HasRoom(parts),
         Meant(parts, at, out, done)
  PROVE  Meant(parts, at', out', done')
<1>1. call = "unescape" /\ AtQuote /\ done' = "ok" /\ at' = at /\ out' = out
  BY DEF CloseQuote, Unescaping, Finished
<1>2. at # 1
  <2>1. at \in 1 .. Len(arg.src) /\ Len(arg.src) \in Nat
    BY <1>1, TokenFacts
  <2>2. ~(at > Len(arg.src))
    BY <2>1
  <2>3. at > 1
    BY <1>1, <2>2 DEF AtQuote
  <2>. QED BY <2>1, <2>3
<1>3. PICK n \in 0 .. Len(parts) : MeantSoFar(parts, at, out, done, n)
  BY <1>2 DEF Meant
<1>4. n = Len(parts)
  <2> SUFFICES ASSUME n # Len(parts) PROVE FALSE
    OBVIOUS
  <2>1. n \in 0 .. Len(parts) - 1
    BY <1>1, MeansFacts
  <2>2. IsAt(parts[n + 1])
    BY <1>1, <1>3, <2>1, PartIsAt
  <2>. QED BY <1>1, <2>2, PartIsNoQuote
<1>5. MeantSoFar(parts, at', out', done', n)
  BY <1>1, <1>3, <1>4 DEF MeantSoFar
<1>. QED BY <1>5 DEF Meant

(* Every other step reads the next part. *)
ReadsPart ==
  \/ Plain \/ EscapedNewline \/ EscapedLetter \/ EscapedHex \/ EscapedUnicode
  \/ EscapedSpace \/ EscapedOctal \/ EscapedOther

LEMMA PartMeans ==
  ASSUME Within, ReadsPart, NEW p, IsAt(p)
  PROVE  Goes(at + Len(p.src), p.val)
BY PlainMeans, EscapedNewlineMeans, EscapedLetterMeans, EscapedHexMeans, EscapedUnicodeMeans,
   EscapedSpaceMeans, EscapedOctalMeans, EscapedOtherMeans DEF ReadsPart

LEMMA ReadsInside ==
  ASSUME Within, ReadsPart
  PROVE  Unescaping /\ at > 1 /\ ~AtQuote
<1>1. CASE Plain
  BY <1>1 DEF Plain
<1>2. ASSUME NEW set, Escape(set) PROVE Unescaping /\ at > 1 /\ ~AtQuote
  BY <1>2, EscapeFacts DEF Escape
<1>. QED BY <1>1, <1>2 DEF ReadsPart, EscapedNewline, EscapedLetter, EscapedHex,
         EscapedUnicode, EscapedSpace, EscapedOctal, EscapedOther

LEMMA ReadsPartMeans ==
  ASSUME Within, ReadsPart, NEW parts \in arg.means, HasRoom(parts), Meant(parts, at, out, done)
  PROVE  Meant(parts, at', out', done')
<1>1. Unescaping /\ at > 1 /\ ~AtQuote
  BY ReadsInside
<1>2. PICK p : /\ IsAt(p)
               /\ Goes(at + Len(p.src), p.val) => Meant(parts, at', out', done')
  BY <1>1, NextPart
<1>3. Goes(at + Len(p.src), p.val)
  BY <1>2, PartMeans
<1>. QED BY <1>2, <1>3

LEMMA InitMeans == Init => MeanInv
<1> SUFFICES ASSUME Init PROVE MeanInv
  OBVIOUS
<1>1. Within
  BY InitIsWithin
<1>2. at = 1 /\ out = <<>> /\ done # "ok"
  BY DEF Init
<1>. QED BY <1>1, <1>2 DEF MeanInv, Meant

LEMMA StepMeans == MeanInv /\ [Next]_vars => MeanInv'
<1> SUFFICES ASSUME MeanInv, [Next]_vars PROVE MeanInv'
  OBVIOUS
<1>1. Within /\ Within'
  BY StepStaysWithin DEF MeanInv
<1>2. call' = call /\ arg' = arg
  BY ArgStays
<1>3. ASSUME call = "unescape", NEW parts \in arg.means, HasRoom(parts)
      PROVE  Meant(parts, at', out', done')
  <2>1. Meant(parts, at, out, done)
    BY <1>3 DEF MeanInv
  <2>2. Unescape \/ UNCHANGED vars
    <3>1. ~Convert
      BY <1>3 DEF Convert, Spill, Converting, Convert32, Convert16, ConvertBytes, ConvertEnds
    <3>. QED BY <3>1 DEF Next
  <2>3. CASE NoMemory
    BY <1>1, <2>1, <2>3, NoMemoryMeans
  <2>4. CASE OpenQuote
    BY <1>1, <2>1, <2>4, OpenQuoteMeans
  <2>5. CASE CloseQuote
    BY <1>1, <1>3, <2>1, <2>5, CloseQuoteMeans
  <2>6. CASE ReadsPart
    BY <1>1, <1>3, <2>1, <2>6, ReadsPartMeans
  <2>7. CASE UNCHANGED vars
    BY <2>1, <2>7 DEF vars
  <2>. QED BY <2>2, <2>3, <2>4, <2>5, <2>6, <2>7 DEF Unescape, ReadsPart
<1>. QED BY <1>1, <1>2, <1>3 DEF MeanInv

LEMMA MeantIsMeant == MeanInv => EscapesMeanAsDocumented
<1> SUFFICES ASSUME MeanInv, call = "unescape", done = "ok", NEW parts \in arg.means,
                    HasRoom(parts)
             PROVE  out = FlattenSeq(Values(parts))
  BY DEF EscapesMeanAsDocumented
<1>1. Within /\ Meant(parts, at, out, done)
  BY DEF MeanInv
<1>2. PICK n \in 0 .. Len(parts) : MeantSoFar(parts, at, out, done, n)
  BY <1>1 DEF Meant
<1>3. n = Len(parts) /\ out = Joined(Values(parts), n)
  BY <1>2 DEF MeantSoFar
<1>4. Values(parts) \in Seq(Seq(Byte)) /\ Len(Values(parts)) = Len(parts)
  BY <1>1, MeansFacts
<1>5. Joined(Values(parts), Len(Values(parts))) = FlattenSeq(Values(parts))
  BY <1>4, JoinedGrows
<1>. QED BY <1>3, <1>4, <1>5

(* Whatever the string, if it consists of parts src/doc/eltn.md lists and  *)
(* append_unicode has the room it asks for, then unescaping it, if it      *)
(* returns a value, returns what the documentation says the parts stand    *)
(* for, in their order.                                                    *)
THEOREM EscapesMean == Spec => []EscapesMeanAsDocumented
BY InitMeans, StepMeans, MeantIsMeant, PTL DEF Spec

=============================================================================
