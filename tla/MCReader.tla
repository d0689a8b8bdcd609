------------------------------ MODULE MCReader ------------------------------
(* Instances of Reader: every text a writer can make of a few small data.    *)
EXTENDS Reader

Symbol(s) == <<"symbol", s>>
Integer(n)    == <<"int", n>>
Char(n)   == <<"char", n>>
Str(s)    == <<"str", s>>

(* What a writer spells each atom as.                                        *)
Plain ==
    (Symbol(<<"a">>)      :> <<"a">>) @@
    (Integer(1)               :> <<"1">>) @@
    (Integer(-1)              :> <<"-", "1">>) @@
    (Char(97)             :> <<"#", "\\", "a">>) @@
    (Str(<<49>>)          :> <<"\"", "1", "\"">>) @@
    (Str(<<49, 32, 97>>)  :> <<"\"", "1", " ", "a", "\"">>)
Odd ==
    (Symbol(<<"-", "a">>) :> <<"-", "a">>) @@
    (Symbol(<<".", "a">>) :> <<".", "a">>) @@
    (Integer(26)              :> <<"0", "x", "1", "a">>) @@
    (Integer(-17)             :> <<"-", "0", "x", "1", "1">>) @@
    (Integer(10)              :> <<"0", "1", "0">>) @@
    (Char(40)             :> <<"#", "\\", "(">>) @@
    (Char(59)             :> <<"#", "\\", ";">>) @@
    (Char(34)             :> <<"#", "\\", "\"">>) @@
    (Char(32)             :> <<"#", "\\", " ">>) @@
    (Char(10)             :> <<"#", "\\", "\n">>) @@
    (Char(92)             :> <<"#", "\\", "\\">>) @@
    (Char(9)              :> <<"#", "\\", "t", "a", "b">>) @@
    (Char(233)            :> <<"#", "\\", "C3", "A9">>) @@
    (Char(8364)           :> <<"#", "\\", "E2", "82", "AC">>) @@
    (Char(127145)         :> <<"#", "\\", "F0", "9F", "82", "A9">>) @@
    (Str(<<34, 59, 40>>)  :> <<"\"", "\\", "\"", ";", "(", "\"">>) @@
    (Str(<<10, 49>>)      :> <<"\"", "\n", "1", "\"">>) @@
    (Str(<<92>>)          :> <<"\"", "\\", "\\", "\"">>) @@
    (Str(<<17, 10, 0>>)   :> <<"\"", "\\", "x", "1", "1", "\\", "n", "\\", "0", "\"">>) @@
    (Str(<<92, 120, 49>>) :> <<"\"", "\\", "x", "1", "\"">>)
Spelling == Plain @@ Odd

(* Lists of up to n of the items, proper or with a tail.                     *)
Lists(items, tails, n) ==
    {Nil} \cup
    {<<"list", s, t>> : s \in UNION {[1..k -> items] : k \in 1..n}, t \in tails}

Tails == {Nil, Integer(1)}
Short == Lists({Symbol(<<"a">>), Char(97)}, {Nil, Char(97)}, 1)
Flat  == Lists({Symbol(<<"a">>), Integer(-1), Str(<<49>>)}, Tails, 2)
Deep  == Lists({Integer(1)} \cup Lists({Symbol(<<"a">>)}, Tails, 1), Tails, 2)
Odds  == Lists(DOMAIN Odd, {Nil}, 1)
Data  == DOMAIN Plain \cup Flat \cup Deep \cup Odds

(* The writer: elements apart by gap.                                        *)
RECURSIVE Text(_, _)
Text(d, gap) ==
    CASE d = Nil -> <<"(", ")">>
      [] d[1] = "list" ->
            <<"(">> \o FoldLeft(LAMBDA t, x : (IF t = <<>> THEN t ELSE t \o gap) \o Text(x, gap),
                                <<>>, d[2])
                    \o (IF d[3] = Nil THEN <<>>
                        ELSE gap \o <<".">> \o gap \o Text(d[3], gap))
                    \o <<")">>
      [] OTHER -> Spelling[d]

Gaps == {<<" ">>, <<" ", ";", "(", "\n", "\n">>}

Source(ds, lead, gap) ==
    [text |-> lead \o FlattenSeq([i \in 1..Len(ds) |-> Text(ds[i], gap) \o gap]),
     data |-> ds, bad |-> FALSE]

(* One datum of every shape, two of a few after one another, and after one   *)
(* datum a character of no known name, alone or inside a list.               *)
Ones == {Source(<<d>>, <<>>, <<" ">>) : d \in Data}
        \cup {Source(<<d>>, <<"\n">>, <<";", "a", "\n">>) : d \in Data}
Pairs ==
    {Source(<<d, e>>, <<>>, g) : d \in DOMAIN Odd, e \in Short, g \in {<<";", "\"", "\n">>}}
    \cup {Source(<<d, e>>, <<>>, g) : d, e \in DOMAIN Plain \cup Short, g \in Gaps}
Bad ==
    {[s EXCEPT !.text = @ \o t \o <<"#", "\\", "a", "b">> \o <<" ", ")">>, !.bad = TRUE] :
        s \in {Source(<<d>>, <<>>, <<"\n">>) : d \in DOMAIN Plain}, t \in {<<>>, <<"(">>}}
AllSources == Ones \cup Pairs \cup Bad

(* The alist as the command line's registrations leave it, and turned round. *)
Registered == <<"comment", "whitespace", "char", "str", "int", "list", "symbol">>
BothOrders == {Registered, Reverse(Registered)}
=============================================================================
