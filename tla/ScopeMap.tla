------------------------------ MODULE ScopeMap ------------------------------
(* What environments promise: each is a map from symbols to values, with a  *)
(* parent that its own bindings hide and never touch; each base has one     *)
(* symbol to a spelling.                                                    *)
EXTENDS Naturals, Sequences, FiniteSets

CONSTANTS
    Bases, Spellings, Atoms,
    Params,     \* the parameter lists programs use, as numbers of symbols
    Args,       \* the argument lists
    Unbound

VARIABLES
    syms,     \* every symbol made: its base and its spelling
    parents,  \* of each environment, 0 for a base's root
    binds,    \* of each environment, its map
    did       \* the last operation, and what it answered

vars == <<syms, parents, binds, did>>

Nil == <<>>
Own(b, s) == {k \in DOMAIN syms : syms[k] = [base |-> b, name |-> s]}

(* The nearest environment from e on that binds k, or 0; and e's root.      *)
Binder(maps, ups, e, k) ==
    LET up[i \in 0..Len(ups)] ==
            IF i = 0 THEN 0 ELSE IF k \in DOMAIN maps[i] THEN i ELSE up[ups[i]]
    IN up[e]
RootOf(ups, e) ==
    LET up[i \in DOMAIN ups] == IF ups[i] = 0 THEN i ELSE up[ups[i]]
    IN up[e]

(* The bindings a symbol evaluated by b in e stands for: its own, or, when  *)
(* it has none, the root's of b's symbol of its spelling.                   *)
Meant(maps, b, e, k) ==
    LET ups == parents
        at  == Binder(maps, ups, e, k)
        top == RootOf(ups, e)
    IN IF at # 0 THEN {<<at, k>>}
       ELSE {<<top, o>> : o \in {o \in Own(b, syms[k].name) : o \in DOMAIN maps[top]}}

(* What a call's environment maps: a parameter to its last place's value,   *)
(* or nil; the rest parameter, 0 if none, to the values left over.          *)
Nth(vs, i)  == IF i \in DOMAIN vs THEN vs[i] ELSE Nil
From(vs, n) == IF n < Len(vs) THEN SubSeq(vs, n + 1, Len(vs)) ELSE Nil
LastAt(ps, k) == CHOOSE i \in DOMAIN ps : ps[i] = k /\ \A j \in DOMAIN ps : ps[j] = k => j <= i
Matched(ps, rest, vs) ==
    LET named == {ps[i] : i \in DOMAIN ps} IN
    [k \in named \cup ({rest} \ {0}) |->
        IF k = rest THEN From(vs, Len(ps)) ELSE Nth(vs, LastAt(ps, k))]

Init ==
    /\ syms = <<>>
    /\ \E n \in 1..Cardinality(Bases) :
        parents = [i \in 1..n |-> 0] /\ binds = [i \in 1..n |-> <<>>]
    /\ did = Nil

Intern(b, s) ==
    /\ did' = <<"intern", b, s>>
    /\ Own(b, s) = {}
    /\ syms' = Append(syms, [base |-> b, name |-> s])
    /\ UNCHANGED <<parents, binds>>

Enter(e, map) ==
    /\ UNCHANGED syms
    /\ parents' = Append(parents, e)
    /\ binds' = Append(binds, map)

Call(e, ps, rest, vs) == did' = <<"call", e, ps, rest, vs>> /\ Enter(e, Matched(ps, rest, vs))
Module(e)             == did' = <<"module", e>> /\ Enter(e, <<>>)

With(map, k, v) == [j \in {k} \cup DOMAIN map |-> IF j = k THEN v ELSE map[j]]

Bind(e, k, v) ==
    /\ did' = <<"bind", e, k, v>>
    /\ binds' = [binds EXCEPT ![e] = With(@, k, v)]
    /\ UNCHANGED <<syms, parents>>

(* An evaluation answers what its symbol means, an assignment changes that. *)
Eval(b, e, k, answer) ==
    /\ did' = <<"eval", b, e, k, answer>>
    /\ LET maps  == binds
           meant == Meant(maps, b, e, k)
       IN \/ meant = {} /\ answer = Unbound
          \/ \E m \in meant : answer = maps[m[1]][m[2]]
    /\ UNCHANGED <<syms, parents, binds>>

Set(b, e, k, v, answer) ==
    /\ did' = <<"set", b, e, k, answer>>
    /\ LET maps  == binds
           meant == Meant(maps, b, e, k)
       IN \/ meant = {} /\ answer = Unbound /\ binds' = maps
          \/ \E m \in meant : answer = v /\ binds' = [maps EXCEPT ![m[1]][m[2]] = v]
    /\ UNCHANGED <<syms, parents>>

Bound == UNION {{binds[e][k] : k \in DOMAIN binds[e]} : e \in DOMAIN binds}

Next ==
    \/ \E b \in Bases, s \in Spellings : Intern(b, s)
    \/ \E e \in DOMAIN parents :
        \/ Module(e)
        \/ \E ps \in Params, rest \in {0} \cup DOMAIN syms, vs \in Args : Call(e, ps, rest, vs)
        \/ \E k \in DOMAIN syms :
            \/ \E v \in Atoms : Bind(e, k, v)
            \/ \E b \in Bases, answer \in Bound \cup {Unbound} : Eval(b, e, k, answer)
            \/ \E b \in Bases, v \in Atoms, answer \in Atoms \cup {Unbound} :
                Set(b, e, k, v, answer)

Spec == Init /\ [][Next]_vars
=============================================================================
