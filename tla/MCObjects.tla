----------------------------- MODULE MCObjects ------------------------------
(* Instances of Objects: programs of up to eight operations, each chosen    *)
(* for what a collection in the middle of it could get wrong.               *)
EXTENDS Objects

D(n, ls) == [count |-> n, labels |-> ls]
AllDecls == {Bare(1), Bare(-1), D(2, <<"ref", "word">>), D(2, <<"word", "ref">>),
             D(-1, <<"ref", "ref">>), D(-1, <<"ref", "word">>), D(-1, <<"word", "ref">>), D(3, <<"ref", "word">>)}
AllPrograms ==
  { <<"pair", "pair", "set", "drop", "collect", "drop", "collect">>,
    <<"type", "pair", "instance", "set", "drop", "collect">>,
    <<"type", "instance", "labels", "collect", "labels", "collect">>,
    <<"type", "obj", "int", "set", "set", "drop", "collect">>,
    <<"type", "labels", "obj", "int", "set", "drop", "collect">>,
    <<"type", "obj", "collect">>,
    <<"pair", "vector", "drop", "set", "collect", "drop", "collect">>,
    <<"fn", "type", "pair", "instance", "drop", "collect", "drop", "collect">>,
    <<"base", "child-type", "instance", "drop", "collect", "drop", "collect">>,
    <<"base", "pair", "bind", "drop", "collect", "drop", "collect">>,
    <<"base", "pair", "bind", "pin", "drop", "drop", "collect">>,
    <<"base", "fn", "base-type", "instance", "drop", "collect", "drop", "collect">>,
    <<"buffer", "pair", "collect", "drop", "collect">>,
    <<"pair", "pair", "iter", "next", "drop", "collect">>,
    <<"pair", "iter", "step", "drop", "next", "collect">>,
    <<"fn", "pair", "iter", "call", "drop", "collect", "return">>,
    <<"fn", "pair", "iter", "call", "call", "return", "return">>,
    <<"pair", "pair", "pin", "drop", "set", "collect">>,
    <<"type", "pair", "instance", "pin", "drop", "drop", "collect">>,
    <<"pair", "pair", "set", "pin", "set", "pin", "drop", "collect">>,
    <<"type", "obj", "int", "set", "units", "units">>,
    <<"pair", "pair", "tree-mark", "set", "drop", "collect">>,
    <<"pair", "pair", "tree-mark", "chain-clear", "drop", "collect">> }
=============================================================================
