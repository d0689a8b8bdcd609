------------------------------ MODULE MCImage -------------------------------
(* Instances of Image: small chains around one or two types, flagged whole  *)
(* or in part.                                                              *)
EXTENDS Image, TLC

Num(n)  == <<"num", n>>
Obj(a)  == <<"obj", a>>
Out(x)  == <<"out", x>>
Text(n) == <<"text", n>>

Object(role, of, units) ==
    [role |-> role, of |-> of, units |-> units, own |-> FALSE, attr |-> {}, flagged |-> TRUE]
Unflagged(o) == [o EXCEPT !.flagged = FALSE]
Handle(n)    == [Object("atom", 0, <<Text(n)>>) EXCEPT !.own = TRUE]
Type(h, name) == Object("pair", 0, <<Obj(h), Out(name)>>)
Either(S)    == S \cup {Unflagged(o) : o \in S}

(* <<an instance or a node, an instance, their type, its handle>>.          *)
UnitsOf(name) ==
    CASE name = "int"       -> {<<Num(5)>>}
      [] name = "str"       -> {<<Null>>, <<Text(0)>>, <<Text(3)>>}
      [] name = "ptr"       -> {<<Null>>, <<Out("a")>>}
      [] name = "prim"      -> {<<Out("a"), Null>>, <<Out("a"), Out("a")>>, <<Out("b"), Out("a")>>}
      [] name = "procedure" -> {<<Out("a"), Obj(1)>>, <<Out("b"), Obj(2)>>}
      [] name = "pair"      -> {<<Obj(1), Out("a")>>, <<Obj(2), Null>>, <<Out("a"), Obj(4)>>}
      [] name = "user"      -> {<<Obj(1), Num(2)>>}
      [] OTHER              -> {<<>>}
Names == {"int", "str", "ptr", "prim", "procedure", "pair", "user"}

Firsts(name) ==
    {Object("pair", 0, <<v, w>>) : v \in {Obj(2), Out("a")}, w \in {Obj(1), Obj(3), Out("b")}}
    \cup {Object("nil", 0, <<Num(7)>>), [Object("other", 0, <<Num(7)>>) EXCEPT !.attr = {"ro"}]}
    \cup {Object("struct", 3, u) : u \in UnitsOf(name)}

Chains ==
    UNION {{<<x, Object("struct", 3, u), t, h>> :
                x \in Either(Firsts(name)), u \in UnitsOf(name),
                t \in Either({Type(4, name)}), h \in Either({Handle(2)})} : name \in Names}

(* Just enough, a word short and a character short for the largest, and more *)
(* than any of them needs.                                                  *)
AllCaps == {<<26, 11>>, <<25, 11>>, <<26, 10>>, <<99, 99>>}
Ample   == {<<99, 99>>}

(* A vector of n slots; its length is an object of the INT type.            *)
VectorOf(n) ==
    <<Object("struct", 3, <<Obj(2)>> \o [i \in 1..n |-> Obj(2)]),
      Object("struct", 5, <<Num(n)>>),
      Type(4, "vector"), Handle(6), Type(6, "int"), Handle(3)>>
Vectors == {VectorOf(n) : n \in 0..4}

(* A buffer: the outer, allocated last, its inner, and a text of six with   *)
(* r of it read and w written.                                              *)
BufferOf(r, w) ==
    <<Object("struct", 3, <<Text(6), Obj(2)>>),
      [Object("struct", 3, <<<<"at", r>>, <<"at", w>>>>) EXCEPT !.attr = {"inner"}],
      Type(4, "buffer"), Handle(6)>>
Buffers == {BufferOf(r, w) : r \in 0..2, w \in 2..5}

(* Three nodes that refer to five words outside the chain, in any order:    *)
(* the cache, first given room for one, grows three times.                  *)
Strangers == {"a", "b", "c", "d", "e"}
NodesOf(s) ==
    <<Object("pair", 0, <<Out(s[1]), Out(s[2])>>),
      Object("pair", 0, <<Out(s[3]), Out(s[4])>>),
      Object("pair", 0, <<Out(s[5]), Out(s[1])>>)>>
Crowds == {NodesOf(s) : s \in {t \in [1..5 -> Strangers] :
                                  \A i, j \in 1..5 : t[i] = t[j] => i = j}}

(* A pointer at a word outside the chain and a node that refers to it, in   *)
(* either order: the first of them met says what its external is.           *)
Pointer == Object("struct", 3, <<Out("a")>>)
Node    == Object("pair", 0, <<Out("a"), Null>>)
Mixed   == {<<x, y, Type(4, "ptr"), Handle(3)>> : x, y \in {Pointer, Node}}

AllHeaps == Chains \cup Vectors \cup Buffers \cup Crowds \cup Mixed

(* Addresses: the five of a crowd share slots, before the table grows and   *)
(* after, the last slots' among them; the others follow one another.        *)
MaxObjects == 6
Others == <<"int", "str", "ptr", "prim", "procedure", "pair", "user", "vector", "buffer">>
Addresses ==
    (Out("a") :> 14) @@ (Out("b") :> 15) @@ (Out("c") :> 30) @@ (Out("d") :> 62) @@ (Out("e") :> 64)
    @@ [w \in {"obj"} \X (1..MaxObjects) |-> 100 + 2 * w[2]]
    @@ [w \in {"out"} \X {Others[i] : i \in DOMAIN Others} |->
           200 + 4 * (CHOOSE i \in DOMAIN Others : Others[i] = w[2])]
=============================================================================
