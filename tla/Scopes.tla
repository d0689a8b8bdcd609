------------------------------- MODULE Scopes -------------------------------
(***************************************************************************)
(* Symbols and environments: the interning of symbols (x-type/symbol.c),   *)
(* the search trees and association lists bindings are kept in             *)
(* (x-alist.c), and how an environment is made, looked up, bound and       *)
(* assigned (x-env.c, x-syntax/binding.c), in several bases at once.       *)
(***************************************************************************)
EXTENDS Naturals, Sequences, FiniteSets

CONSTANTS
    Bases,      \* the bases processes have
    Spellings,  \* the names symbols have, in x_lib_strcmp's order
    Atoms,      \* the values programs define and assign
    Params,     \* the parameter lists they use, of symbols by number
    Args,       \* the argument lists
    Programs,   \* programs, each the bases, names, parameter and argument
                \* lists it uses, and how many environments it makes and
                \* bindings in all of them (bounds)
    Unbound

ASSUME ScopesAssumption ==
    /\ IsFiniteSet(Bases) /\ Bases # {}
    /\ Spellings \subseteq Nat
    /\ Params \subseteq Seq(Nat)
    /\ \A vs \in Args : vs \in Seq({vs[i] : i \in DOMAIN vs})
    /\ \A p \in Programs :
        /\ p.bases \in (SUBSET Bases) \ {{}} /\ p.names \subseteq Spellings
        /\ p.params \subseteq Params /\ p.args \subseteq Args
        /\ {p.envs, p.cells} \subseteq Nat

VARIABLES
    program, \* the program being run
    syms,    \* the symbols made, numbered as they were: base and spelling
    table,   \* per base, the intern tree
    envs,    \* the environments made, numbered as they were
    did      \* the last operation, and what it answered

vars == <<program, syms, table, envs, did>>

Nil == <<>>
Name(k) == syms[k].name

-----------------------------------------------------------------------------
(* Search trees: the nodes in the order they were attached, the root first. *)
(* A walk ends at the node it looks for, or at 0.                           *)
Leaf(k, v) == [key |-> k, val |-> v, left |-> 0, right |-> 0]

(* Which side of a node a spelling lies on.                                 *)
Side(t, n, s) == IF s < Name(t[n].key) THEN t[n].left ELSE t[n].right

(* sym_bst_lookup: the node of a spelling.                                  *)
Named(t, s) ==
    LET from[n \in 0..Len(t)] ==
            IF n = 0 \/ Name(t[n].key) = s THEN n ELSE from[Side(t, n, s)]
    IN IF t = <<>> THEN 0 ELSE from[1]

(* x_alist_bst_lookup: the node of a symbol, by identity.                   *)
Filed(t, k) ==
    LET from[n \in 0..Len(t)] ==
            IF n = 0 \/ t[n].key = k THEN n ELSE from[Side(t, n, Name(k))]
    IN IF t = <<>> THEN 0 ELSE from[1]

(* Where the walk for a spelling ends.                                      *)
Last(t, s) ==
    LET from[n \in 1..Len(t)] == IF Side(t, n, s) = 0 THEN n ELSE from[Side(t, n, s)]
    IN from[1]

(* A variant the checks reject: an equal spelling to the left.              *)
AttachedLeft(t, k, s, v) ==
    IF t = <<>> THEN <<Leaf(k, v)>>
    ELSE Append(IF s <= Name(t[Last(t, s)].key)
                THEN [t EXCEPT ![Last(t, s)].left = Len(t) + 1]
                ELSE [t EXCEPT ![Last(t, s)].right = Len(t) + 1], Leaf(k, v))

(* x_alist_bst_insert and sym_bst_insert, of a symbol k spelled s that the  *)
(* tree has not: a leaf attached in place, where the walk for it ended.     *)
Attached(t, k, s, v) ==
    IF t = <<>> THEN <<Leaf(k, v)>>
    ELSE Append(IF s < Name(t[Last(t, s)].key)
                THEN [t EXCEPT ![Last(t, s)].left = Len(t) + 1]
                ELSE [t EXCEPT ![Last(t, s)].right = Len(t) + 1], Leaf(k, v))

-----------------------------------------------------------------------------
(* Environments: a base's root and a module's scope keep a tree, a call's   *)
(* frame a list of cells, newest first.                                     *)
Root    == [kind |-> "root", parent |-> 0, cells |-> <<>>, tree |-> <<>>]
Scope(p) == [kind |-> "module", parent |-> p, cells |-> <<>>, tree |-> <<>>]
Frame(p, cs) == [kind |-> "frame", parent |-> p, cells |-> cs, tree |-> <<>>]

IsRoot(e) == envs[e].parent = 0
IsTree(e) == IsRoot(e) \/ envs[e].kind = "module"

(* The first cell of a list that binds k, or 0.                             *)
CellOf(cs, k) ==
    LET hits == {i \in DOMAIN cs : cs[i].key = k} IN
    IF hits = {} THEN 0 ELSE CHOOSE i \in hits : \A j \in hits : i <= j

(* Where a cell binding k is in e itself, or 0.                             *)
Within(e, k) == IF IsTree(e) THEN Filed(envs[e].tree, k) ELSE CellOf(envs[e].cells, k)

(* x_env_own_symbol, if b has one.                                          *)
OwnSymbol(b, k) ==
    LET n == Named(table[b], Name(k)) IN IF n = 0 THEN 0 ELSE table[b][n].key

(* The retry runs only where the identity lookup at the root missed.        *)
Retries(e) == IsRoot(e)

(* x_env_lookup: the environment and the place of the cell b's evaluation   *)
(* of k in e finds, or 0.                                                   *)
Lookup(b, e, k) ==
    LET up[i \in 0..Len(envs)] ==
            IF i = 0 THEN <<0, 0>>
            ELSE IF Within(i, k) # 0 THEN <<i, Within(i, k)>>
            ELSE IF Retries(i) /\ OwnSymbol(b, k) \notin {0, k}
                    /\ Filed(envs[i].tree, OwnSymbol(b, k)) # 0
            THEN <<i, Filed(envs[i].tree, OwnSymbol(b, k))>>
            ELSE up[envs[i].parent]
    IN up[e]
Found(at) == at[1] # 0

ValueAt(at) ==
    IF IsTree(at[1]) THEN envs[at[1]].tree[at[2]].val ELSE envs[at[1]].cells[at[2]].val
WithValueAt(at, v) ==
    IF IsTree(at[1]) THEN [envs EXCEPT ![at[1]].tree[at[2]].val = v]
    ELSE [envs EXCEPT ![at[1]].cells[at[2]].val = v]

CellsIn(e) == Len(envs[e].cells) + Len(envs[e].tree)
CellsMade  == LET upto[e \in 0..Len(envs)] == IF e = 0 THEN 0 ELSE upto[e - 1] + CellsIn(e)
              IN upto[Len(envs)]

-----------------------------------------------------------------------------
Init ==
    /\ program \in Programs
    /\ syms = <<>>
    /\ table = [b \in Bases |-> <<>>]
    /\ envs = [i \in 1..Cardinality(program.bases) |-> Root]
    /\ did = Nil

(* A variant the checks reject: the search for the symbol stops at the root.*)
InternUnlessFirst(b, s) ==
    /\ IF table[b] = <<>> THEN TRUE ELSE Name(table[b][1].key) # s
    /\ Len(syms) < 4
    /\ syms' = Append(syms, [base |-> b, name |-> s])
    /\ table' = [table EXCEPT ![b] = Attached(@, Len(syms) + 1, s, Nil)]
    /\ did' = <<"intern", b, s>>
    /\ UNCHANGED envs

(* x_type_symbol_make, when the base has no symbol of the spelling yet.     *)
Intern(b, s) ==
    /\ Named(table[b], s) = 0
    /\ syms' = Append(syms, [base |-> b, name |-> s])
    /\ table' = [table EXCEPT ![b] = Attached(@, Len(syms) + 1, s, Nil)]
    /\ did' = <<"intern", b, s>>
    /\ UNCHANGED envs

Made(e) ==
    /\ Len(envs) < program.envs + Cardinality(program.bases)
    /\ envs' = Append(envs, e)
    /\ CellsMade' <= program.cells
    /\ UNCHANGED <<syms, table>>

(* A variant the checks reject: the parameters in their own order.          *)
CellsInOrder(ps, rest, vs) ==
    [i \in 1..Len(ps) |-> [key |-> ps[i], val |-> IF i <= Len(vs) THEN vs[i] ELSE Nil]]
    \o (IF rest = 0 THEN <<>>
        ELSE <<[key |-> rest,
                val |-> IF Len(ps) < Len(vs) THEN SubSeq(vs, Len(ps) + 1, Len(vs)) ELSE Nil]>>)
(* The cells x_env_extend makes: one to a parameter, each in front of those *)
(* before it, nil where the values ran out; a symbol in the list's place    *)
(* takes the values left over.                                              *)
CellsFor(ps, rest, vs) ==
    (IF rest = 0 THEN <<>>
     ELSE <<[key |-> rest,
             val |-> IF Len(ps) < Len(vs) THEN SubSeq(vs, Len(ps) + 1, Len(vs)) ELSE Nil]>>)
    \o [i \in 1..Len(ps) |->
           LET p == Len(ps) + 1 - i IN
           [key |-> ps[p], val |-> IF p <= Len(vs) THEN vs[p] ELSE Nil]]

(* x_env_extend: a call of a closure or an operative whose environment is e.*)
Extend(e, ps, rest, vs) ==
    /\ \A i \in DOMAIN ps : ps[i] \in DOMAIN syms
    /\ rest \in {0} \cup DOMAIN syms
    /\ Made(Frame(e, CellsFor(ps, rest, vs)))
    /\ did' = <<"call", e, ps, rest, vs>>

(* The language makes a module's scope: a list pair over e.                 *)
MakeModule(e) == Made(Scope(e)) /\ did' = <<"module", e>>

(* x_env_bind: `def` in e, `base bind` in a root.                           *)
Bind(e, k, v) ==
    /\ envs' =
        IF Within(e, k) # 0 THEN WithValueAt(<<e, Within(e, k)>>, v)
        ELSE IF IsTree(e)
        THEN [envs EXCEPT ![e].tree = Attached(@, k, Name(k), v)]
        ELSE [envs EXCEPT ![e].cells = <<[key |-> k, val |-> v]>> \o @]
    /\ CellsMade' <= program.cells
    /\ did' = <<"bind", e, k, v>>
    /\ UNCHANGED <<syms, table>>

(* x_type_symbol_eval, by b in e.                                           *)
Eval(b, e, k) ==
    /\ did' = <<"eval", b, e, k,
                IF Found(Lookup(b, e, k)) THEN ValueAt(Lookup(b, e, k)) ELSE Unbound>>
    /\ UNCHANGED <<syms, table, envs>>

(* x_prim_set, by b in e: the cell evaluation would find, or an error.      *)
Set(b, e, k, v) ==
    /\ did' = <<"set", b, e, k, IF Found(Lookup(b, e, k)) THEN v ELSE Unbound>>
    /\ envs' = IF Found(Lookup(b, e, k)) THEN WithValueAt(Lookup(b, e, k), v) ELSE envs
    /\ UNCHANGED <<syms, table>>

Step ==
    \/ \E b \in program.bases, s \in program.names : Intern(b, s)
    \/ \E e \in DOMAIN envs :
        \/ \E ps \in program.params, rest \in {0} \cup DOMAIN syms, vs \in program.args :
            Extend(e, ps, rest, vs)
        \/ MakeModule(e)
        \/ \E k \in DOMAIN syms :
            \/ \E v \in Atoms : Bind(e, k, v)
            \/ \E b \in program.bases : Eval(b, e, k)
            \/ \E b \in program.bases, v \in Atoms : Set(b, e, k, v)

Next == Step /\ UNCHANGED program

Spec == Init /\ [][Next]_vars

-----------------------------------------------------------------------------
(* Properties.                                                              *)

(* Every node of every tree is found by the walk for its own symbol, or in  *)
(* the intern tree by its spelling: an insertion never hides one made       *)
(* before, spelled alike or not.                                            *)
FoundWhereFiled ==
    /\ \A b \in Bases : \A n \in DOMAIN table[b] : Named(table[b], Name(table[b][n].key)) = n
    /\ \A e \in DOMAIN envs :
        \A n \in DOMAIN envs[e].tree : Filed(envs[e].tree, envs[e].tree[n].key) = n

(* Symbols of one base and spelling are one object.                         *)
InternedOnce ==
    \A j, k \in DOMAIN syms : syms[j] = syms[k] => j = k

(* Environments are maps: what trees and lists hold, in place, in whatever  *)
(* order, is what was bound last, nearest, and of one symbol to a spelling. *)
Entries(e) == IF IsTree(e) THEN envs[e].tree ELSE envs[e].cells
MapOf(e) ==
    [k \in {Entries(e)[i].key : i \in DOMAIN Entries(e)} |-> Entries(e)[Within(e, k)].val]
Map == INSTANCE ScopeMap WITH
    parents <- [e \in DOMAIN envs |-> envs[e].parent],
    binds   <- [e \in DOMAIN envs |-> MapOf(e)]
ImplementsMap == Map!Spec
=============================================================================
