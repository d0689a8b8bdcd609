---------------------------- MODULE OperatorRules ----------------------------
(* What generic operators promise: each type has a map from operators to     *)
(* handlers, and types absorb others; the handler that runs depends on these *)
(* alone, whatever the order of the operands or of the registrations.        *)
EXTENDS Naturals, FiniteSets

CONSTANTS
    Bases, Types, Handlers,
    Nil, Plain,   \* a value that is no object; one of a type with no handlers
    Unmade

Operators == {"+", "-", "<", "=", "&", "eq?", "negate"}
Generic   == {"+", "-", "<", "="}
Guarded   == {"+", "-", "&", "negate"}

VARIABLES
    home,       \* of each type, the base that knows its handle, or Unmade
    handles,    \* of each type, a map from symbols to handlers
    absorbs,    \* of each type, the types it converts from
    instances,  \* the types that have instances
    did         \* the last operation, and what it answered

vars == <<home, handles, absorbs, instances, did>>

Symbol(b, op) == <<b, op>>
Carriers(b, op, x, y) ==
    {v \in {x, y} \cap Types : op \in Generic /\ Symbol(b, op) \in DOMAIN handles[v]}

(* The types whose handler may run, of those that carry one: the only one,   *)
(* or one that absorbs the other.                                            *)
Deciders(b, op, x, y) ==
    LET carriers == Carriers(b, op, x, y) IN
    {v \in carriers : carriers \ {v} \subseteq absorbs[v]}

Outcomes(b, op, x, y) ==
    IF Carriers(b, op, x, y) # {}
    THEN IF Deciders(b, op, x, y) = {} THEN {IF op = "=" THEN "no" ELSE "raise"}
         ELSE {handles[v][Symbol(b, op)] : v \in Deciders(b, op, x, y)}
    ELSE IF Nil \in {x, y} /\ op \in Guarded THEN {"raise"}
    ELSE IF Nil \in {x, y} /\ op = "<" THEN {"nil read"}
    ELSE {"integers"}

Init ==
    /\ home = [t \in Types |-> Unmade]
    /\ handles = [t \in Types |-> <<>>]
    /\ absorbs = [t \in Types |-> {}]
    /\ instances = {}
    /\ did = <<>>

MakeType(b, t) ==
    /\ did' = <<"type", b, t>>
    /\ home[t] = Unmade
    /\ home' = [home EXCEPT ![t] = b]
    /\ UNCHANGED <<handles, absorbs, instances>>

With(map, s, h) == [k \in {s} \cup DOMAIN map |-> IF k = s THEN h ELSE map[k]]

Register(b, t, op, h) ==
    /\ did' = <<"op", b, t, op, h>>
    /\ home[t] # Unmade
    /\ handles' = [handles EXCEPT ![t] = With(@, Symbol(b, op), h)]
    /\ UNCHANGED <<home, absorbs, instances>>

Declare(t, u) ==
    /\ did' = <<"from", t, u>>
    /\ Unmade \notin {home[t], home[u]}
    /\ absorbs' = [absorbs EXCEPT ![t] = @ \cup {u}]
    /\ UNCHANGED <<home, handles, instances>>

MakeInstance(b, t) ==
    /\ did' = <<"instance", b, t, IF home[t] = b THEN t ELSE Nil>>
    /\ home[t] # Unmade
    /\ instances' = IF home[t] = b THEN instances \cup {t} ELSE instances
    /\ UNCHANGED <<home, handles, absorbs>>

(* What an application answered is what its operands' types allow.           *)
Apply(b, op, x, y, answer) ==
    /\ b \in Bases /\ op \in Operators
    /\ {x, y} \subseteq instances \cup {Nil, Plain}
    /\ answer \in Outcomes(b, op, x, y)
    /\ UNCHANGED <<home, handles, absorbs, instances>>

Next ==
    \/ \E b \in Bases, t \in Types :
        \/ MakeType(b, t)
        \/ MakeInstance(b, t)
        \/ \E op \in Generic, h \in Handlers : Register(b, t, op, h)
    \/ \E t, u \in Types : Declare(t, u)
    \/ did'[1] = "apply" /\ Apply(did'[2], did'[3], did'[4], did'[5], did'[6])

Spec == Init /\ [][Next]_vars
=============================================================================
