---------------------------- MODULE MCJsonPatch ----------------------------
(* JsonPatch over small documents of every shape.                          *)
EXTENDS JsonPatch

A == <<97>>   B == <<98>>   C == <<97, 98>>   D == <<99>>
WithSlash == <<97, Slash>>   WithTilde == <<Tilde, One>>

MCName == {A, B, C, D, WithSlash, WithTilde} \cup {Index(k) : k \in 1 .. 4} \cup {<<Dash>>}
MCFold == [s \in MCName |-> [i \in DOMAIN s |-> Lower(s[i])]]

Leaf(t)  == [type |-> "String", text |-> t, items |-> <<>>]
Null     == [type |-> "Null", text |-> Nil, items |-> <<>>]
Arr(seq) == [type |-> "Array", text |-> Nil, items |-> [k \in DOMAIN seq |-> <<Nil, seq[k]>>]]
Obj(seq) == [type |-> "Object", text |-> Nil, items |-> seq]

X == Leaf("x")   Y == Leaf("y")

Flat == {X, Y, Null}
Inner == {Arr(<<>>), Arr(<<X>>), Arr(<<Y, X>>), Obj(<<>>), Obj(<<<<A, X>>>>),
          Obj(<<<<B, Y>>, <<A, X>>>>)}
Arrays == {Arr(s) : s \in {<<X, Y>>, <<Y, X, X>>, <<X, Null, Y, X>>}}
          \cup {Arr(<<X, v>>) : v \in Inner}
Objects == {Obj(<<<<B, v>>, <<A, w>>>>) : v \in {X, Obj(<<<<B, Y>>, <<A, X>>>>)}, w \in {Y, Null}}
           \cup {Obj(<<<<A, v>>>>) : v \in Inner}
           \cup {Obj(<<<<C, X>>, <<A, X>>, <<B, v>>>>) : v \in {X, Arr(<<X>>)}}
Orders == {p \in [1 .. 4 -> {A, B, C, D}] : \A i, j \in 1 .. 4 : i # j => p[i] # p[j]}
Shuffled == {Obj([k \in 1 .. 4 |-> <<p[k], IF p[k] = v THEN Y ELSE X>>]) :
               p \in Orders, v \in {A, D}}
Plain == Flat \cup Inner \cup Arrays \cup Objects

Escaped == {Obj(<<<<WithSlash, v>>, <<WithTilde, w>>>>) : v, w \in {X, Arr(<<X>>), Obj(<<<<WithTilde, Y>>>>)}}

MCAlone == Plain
MCPair == (Plain \X Plain) \cup (Shuffled \X Shuffled) \cup {<<d, d>> : d \in Escaped}

Zeroth == Index(1)   First == Index(2)
Paths == {<<>>, <<A>>, <<B>>, <<Zeroth>>, <<First>>, <<<<Dash>>>>, <<A, B>>, <<A, Zeroth>>, <<First, A>>, <<Zeroth, A>>}
MCEdit == {[op |-> op, path |-> p, from |-> <<>>, value |-> v] :
             op \in {"add", "replace", "test"}, p \in Paths, 
                      v \in {X, Arr(<<X>>), Obj(<<<<B, Y>>, <<A, X>>>>)}}
          \cup {[op |-> "remove", path |-> p, from |-> <<>>, value |-> Nil] : p \in Paths}
          \cup {[op |-> op, path |-> p, from |-> f, value |-> Nil] :
                  op \in {"move", "copy"}, p \in Paths, f \in {<<>>, <<A>>, <<B>>, <<Zeroth>>}}
=============================================================================
