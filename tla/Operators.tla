------------------------------ MODULE Operators ------------------------------
(* Types made at run time and the operators that dispatch on them: making a  *)
(* type in a base or for another (x-prim/type.c, x-prim/base.c), instances,  *)
(* the handler a binary operator picks (x_type_op_try) and what is done when *)
(* there is none (x-prim/arith.c, x-prim/pred.c).  A value is its type.      *)
EXTENDS Naturals, Sequences, FiniteSets

CONSTANTS
    Bases,
    Types,        \* the types programs make
    Handlers,
    Registered,   \* bound: the operators types register
    MaxOps,       \* bound: entries in all ops alists
    MaxFrom,      \* bound: entries in a from alist
    Nil, Plain,   \* a value that is no object; one of a type with no handlers
    Unmade

Operators == {"+", "-", "<", "=", "&", "eq?", "negate"}

ASSUME OperatorsAssumption ==
    /\ Registered \subseteq {"+", "-", "<", "="}
    /\ {MaxOps, MaxFrom} \subseteq Nat
    /\ {Nil, Plain} \cap Types = {} /\ Unmade \notin Bases

VARIABLES
    home,       \* of each type, the base whose type alist has it, or Unmade
    ops,        \* of each type, its ops alist: interned operator and handler
    from,       \* of each type, its from alist: the types it converts from
    instances,  \* the types that have instances
    did         \* the last operation, and what it answered

vars == <<home, ops, from, instances, did>>

Made == {t \in Types : home[t] # Unmade}

(* x_mksymbol: each base interns its own symbol.                             *)
Symbol(b, op) == <<b, op>>

-----------------------------------------------------------------------------
(* x_type_ops_lookup: the entry of an operator's symbol in a value's ops     *)
(* alist, the first of them, or 0.  Nil and plain values have no alist.      *)
Alist(v) == IF v \in Types THEN ops[v] ELSE <<>>
Hits(b, op, v) == {i \in DOMAIN Alist(v) : Alist(v)[i].sym = Symbol(b, op)}
Entry(b, op, v) ==
    IF Hits(b, op, v) = {} THEN 0
    ELSE CHOOSE i \in Hits(b, op, v) : \A j \in Hits(b, op, v) : i <= j
Carries(b, op, v)    == Entry(b, op, v) # 0
HandlerOf(b, op, v)  == Alist(v)[Entry(b, op, v)].by

(* x_type_from_has.                                                          *)
FromHas(t, u) == u \in {from[t][i] : i \in DOMAIN from[t]}

(* A variant the checks reject: unrelated types fall to the left one.        *)
LeftUnlessAbsorbed(b, op, x, y) ==
    IF Carries(b, op, y) /\ (~Carries(b, op, x) \/ FromHas(y, x))
    THEN HandlerOf(b, op, y) ELSE HandlerOf(b, op, x)

(* x_type_op_try, where either side carries a handler.                       *)
Dispatched(b, op, x, y) ==
    CASE ~Carries(b, op, y) \/ x = y   -> HandlerOf(b, op, x)
      [] ~Carries(b, op, x)            -> HandlerOf(b, op, y)
      [] OTHER ->
            IF FromHas(x, y) THEN HandlerOf(b, op, x)
            ELSE IF FromHas(y, x) THEN HandlerOf(b, op, y)
            ELSE IF op = "=" THEN "no" ELSE "raise"

(* The operators that try a handler: neither the bitwise ones do, nor eq?,   *)
(* nor a negation.                                                           *)
Tries(op) == op \in {"+", "-", "<", "="}

(* The integer path: a nil operand raises, is no integer to `=` and eq?, and *)
(* `<` reads it.                                                             *)
OnIntegers(op, x, y) ==
    IF Nil \notin {x, y} \/ op \in {"=", "eq?"} THEN "integers"
    ELSE IF op = "<" THEN "nil read" ELSE "raise"

Answer(b, op, x, y) ==
    IF Tries(op) /\ (Carries(b, op, x) \/ Carries(b, op, y))
    THEN Dispatched(b, op, x, y) ELSE OnIntegers(op, x, y)

-----------------------------------------------------------------------------
Init ==
    /\ home = [t \in Types |-> Unmade]
    /\ ops = [t \in Types |-> <<>>]
    /\ from = [t \in Types |-> <<>>]
    /\ instances = {}
    /\ did = <<>>

(* `type make` in b, and `base make-type` with b the target.                 *)
MakeType(b, t) ==
    /\ home[t] = Unmade
    /\ home' = [home EXCEPT ![t] = b]
    /\ did' = <<"type", b, t>>
    /\ UNCHANGED <<ops, from, instances>>

(* The language registers a handler under b's symbol, in front of the rest.  *)
PushOp(b, t, op, h) ==
    /\ t \in Made /\ Cardinality(UNION {{u} \X DOMAIN ops[u] : u \in Types}) < MaxOps
    /\ ops' = [ops EXCEPT ![t] = <<[sym |-> Symbol(b, op), by |-> h]>> \o @]
    /\ did' = <<"op", b, t, op, h>>
    /\ UNCHANGED <<home, from, instances>>

(* The language declares a conversion.                                       *)
PushFrom(t, u) ==
    /\ {t, u} \subseteq Made /\ t # u /\ Len(from[t]) < MaxFrom
    /\ from' = [from EXCEPT ![t] = <<u>> \o @]
    /\ did' = <<"from", t, u>>
    /\ UNCHANGED <<home, ops, instances>>

(* x_prim_make_instance: nil where the base's alist has not the handle.      *)
MakeInstance(b, t) ==
    /\ t \in Made
    /\ instances' = IF home[t] = b THEN instances \cup {t} ELSE instances
    /\ did' = <<"instance", b, t, IF home[t] = b THEN t ELSE Nil>>
    /\ UNCHANGED <<home, ops, from>>

Apply(b, op, x, y) ==
    /\ {x, y} \subseteq instances \cup {Nil, Plain}
    /\ did' = <<"apply", b, op, x, y, Answer(b, op, x, y)>>
    /\ UNCHANGED <<home, ops, from, instances>>

Next ==
    \/ \E b \in Bases, t \in Types :
        \/ MakeType(b, t)
        \/ MakeInstance(b, t)
        \/ \E op \in Registered, h \in Handlers : PushOp(b, t, op, h)
    \/ \E t, u \in Types : PushFrom(t, u)
    \/ \E b \in Bases, op \in Operators, x, y \in Types \cup {Nil, Plain} : Apply(b, op, x, y)

Spec == Init /\ [][Next]_vars

-----------------------------------------------------------------------------
(* Properties.                                                               *)

(* The alists, searched in order, and the tests made one after the other,    *)
(* come to the rules: a map for each type, the newest registration in it,    *)
(* and a decision in which the sides of the operator have no part.           *)
Syms(t) == {ops[t][i].sym : i \in DOMAIN ops[t]}
Rules == INSTANCE OperatorRules WITH
    handles <- [t \in Types |-> [s \in Syms(t) |-> HandlerOf(s[1], s[2], t)]],
    absorbs <- [t \in Types |-> {u \in Types : FromHas(t, u)}]
ImplementsRules == Rules!Spec
=============================================================================
