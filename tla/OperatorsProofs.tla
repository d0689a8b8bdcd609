--------------------------- MODULE OperatorsProofs ---------------------------
(* Dispatch by alists searched in order is dispatch by the rules, for any    *)
(* bases, types and handlers and alists of any length.                       *)
EXTENDS Operators, SequenceTheorems, NaturalsInduction, WellFoundedInduction, TLAPS

Entries == [sym : Bases \X Operators, by : Handlers]

(* The types of what programs make: each alist is one of its kind.           *)
Inv ==
    /\ home \in [Types -> Bases \cup {Unmade}]
    /\ ops \in [Types -> Seq(Entries)]
    /\ from \in [Types -> Seq(Types)]
    /\ instances \subseteq Types

(* An alist as the map it is searched for.                                   *)
HitsOf(al, s)  == {i \in DOMAIN al : al[i].sym = s}
FirstOf(al, s) == CHOOSE i \in HitsOf(al, s) : \A j \in HitsOf(al, s) : i <= j
SymsOf(al)     == {al[i].sym : i \in DOMAIN al}
MapOf(al)      == [s \in SymsOf(al) |-> al[FirstOf(al, s)].by]

-----------------------------------------------------------------------------
(* The least of a set of naturals.                                           *)
LEMMA Least ==
    ASSUME NEW T, T \subseteq Nat, T # {}
    PROVE  \E x \in T : \A y \in T : x <= y
<1> DEFINE Less == {p \in Nat \X Nat : p[1] < p[2]}
<1>1. IsWellFoundedOn(OpToRel(<, Nat), Nat)
  BY NatLessThanWellFounded
<1>2. OpToRel(<, Nat) = Less
  BY DEF OpToRel
<1>3. \E x \in T : \A y \in T : <<y, x>> \notin Less
  <2> HIDE DEF Less
  <2> QED
    BY <1>1, <1>2, WFMin
<1>4. PICK x \in T : \A y \in T : <<y, x>> \notin Less
  BY <1>3
<1>5. ASSUME NEW y \in T PROVE x <= y
  <2>1. x \in Nat /\ y \in Nat
    OBVIOUS
  <2>2. y < x => <<y, x>> \in Less
    BY <2>1
  <2> QED
    BY <1>4, <2>1, <2>2
<1> QED
  BY <1>5

(* The search finds the first entry of a symbol, where there is one.         *)
LEMMA FirstFound ==
    ASSUME NEW al \in Seq(Entries), NEW s \in SymsOf(al)
    PROVE  /\ FirstOf(al, s) \in HitsOf(al, s)
           /\ \A j \in HitsOf(al, s) : FirstOf(al, s) <= j
<1>1. HitsOf(al, s) \subseteq Nat /\ HitsOf(al, s) # {}
  BY DEF HitsOf, SymsOf
<1>2. \E i \in HitsOf(al, s) : \A j \in HitsOf(al, s) : i <= j
  BY <1>1, Least
<1> QED
  BY <1>2 DEF FirstOf

(* What makes an index the one the search stops at.                          *)
LEMMA FirstIs ==
    ASSUME NEW al \in Seq(Entries), NEW s \in SymsOf(al),
           NEW i \in HitsOf(al, s), \A j \in HitsOf(al, s) : i <= j
    PROVE  FirstOf(al, s) = i
<1>1. HitsOf(al, s) \subseteq Nat
  BY DEF HitsOf
<1> QED
  BY <1>1, FirstFound

(* An entry pushed in front of an alist is what its symbol finds from then   *)
(* on, and hides nothing of the others.                                      *)
LEMMA PushedInFront ==
    ASSUME NEW al \in Seq(Entries), NEW e \in Entries
    PROVE  MapOf(<<e>> \o al) = Rules!With(MapOf(al), e.sym, e.by)
<1> DEFINE new == <<e>> \o al
<1>1. /\ new \in Seq(Entries) /\ Len(new) = Len(al) + 1
      /\ new[1] = e /\ \A i \in 1..Len(al) : new[i + 1] = al[i]
  OBVIOUS
<1>2. SymsOf(new) = {e.sym} \cup SymsOf(al)
  <2>1. ASSUME NEW i \in DOMAIN new PROVE new[i].sym \in {e.sym} \cup SymsOf(al)
    <3>1. CASE i = 1
      BY <3>1, <1>1
    <3>2. CASE i # 1
      <4>1. i - 1 \in 1..Len(al) /\ (i - 1) + 1 = i
        BY <3>2, <1>1
      <4>2. new[i] = al[i - 1]
        BY <1>1, <4>1
      <4> QED
        BY <4>1, <4>2 DEF SymsOf
    <3> QED
      BY <3>1, <3>2
  <2>2. ASSUME NEW i \in DOMAIN al PROVE al[i].sym \in SymsOf(new)
    <3>1. i + 1 \in DOMAIN new /\ new[i + 1] = al[i]
      BY <1>1
    <3> QED
      BY <3>1 DEF SymsOf
  <2>3. e.sym \in SymsOf(new)
    <3>1. 1 \in DOMAIN new
      BY <1>1
    <3> QED
      BY <1>1, <3>1 DEF SymsOf
  <2> HIDE DEF new
  <2> QED
    BY <2>1, <2>2, <2>3 DEF SymsOf
<1>3. new[FirstOf(new, e.sym)].by = e.by
  <2>1. 1 \in HitsOf(new, e.sym) /\ \A j \in HitsOf(new, e.sym) : 1 <= j
    BY <1>1 DEF HitsOf
  <2>2. e.sym \in SymsOf(new)
    BY <1>2
  <2> HIDE DEF new
  <2>3. FirstOf(new, e.sym) = 1
    BY <1>1, <2>1, <2>2, FirstIs
  <2> QED
    BY <1>1, <2>3
<1>4. ASSUME NEW s \in SymsOf(al), s # e.sym
      PROVE  new[FirstOf(new, s)].by = al[FirstOf(al, s)].by
  <2>1. /\ FirstOf(al, s) \in HitsOf(al, s)
        /\ \A j \in HitsOf(al, s) : FirstOf(al, s) <= j
    BY FirstFound
  <2>2. FirstOf(al, s) \in 1..Len(al) /\ al[FirstOf(al, s)].sym = s
    BY <2>1 DEF HitsOf
  <2>3. FirstOf(al, s) + 1 \in HitsOf(new, s)
    BY <1>1, <2>2 DEF HitsOf
  <2>4. ASSUME NEW j \in HitsOf(new, s) PROVE FirstOf(al, s) + 1 <= j
    <3>1. j \in 1..Len(new) /\ new[j].sym = s
      BY <1>1 DEF HitsOf
    <3>2. j # 1
      BY <1>1, <1>4, <3>1
    <3>3. j - 1 \in 1..Len(al) /\ (j - 1) + 1 = j
      BY <1>1, <3>1, <3>2
    <3>4. al[j - 1] = new[j]
      BY <1>1, <3>3
    <3>5. j - 1 \in HitsOf(al, s)
      BY <3>1, <3>3, <3>4 DEF HitsOf
    <3>6. FirstOf(al, s) <= j - 1
      BY <2>1, <3>5
    <3> QED
      BY <2>2, <3>1, <3>6
  <2>5. s \in SymsOf(new)
    BY <1>2
  <2> HIDE DEF new
  <2>6. FirstOf(new, s) = FirstOf(al, s) + 1
    BY <1>1, <2>3, <2>4, <2>5, FirstIs
  <2> QED
    BY <1>1, <2>2, <2>6
<1> HIDE DEF new
<1>5. MapOf(new) = Rules!With(MapOf(al), e.sym, e.by)
  BY <1>2, <1>3, <1>4 DEF MapOf, Rules!With
<1> QED
  BY <1>5 DEF new

-----------------------------------------------------------------------------
(* What programs make keeps its types.                                       *)
LEMMA InvInit == Init => Inv
BY DEF Init, Inv

LEMMA InvNext == Inv /\ [Next]_vars => Inv'
<1> SUFFICES ASSUME Inv, [Next]_vars PROVE Inv'
  OBVIOUS
<1>1. ASSUME NEW b \in Bases, NEW t \in Types, MakeType(b, t) PROVE Inv'
  BY <1>1 DEF Inv, MakeType
<1>2. ASSUME NEW b \in Bases, NEW t \in Types, MakeInstance(b, t) PROVE Inv'
  BY <1>2 DEF Inv, MakeInstance
<1>3. ASSUME NEW b \in Bases, NEW t \in Types, NEW op \in Registered, NEW h \in Handlers,
             PushOp(b, t, op, h)
      PROVE  Inv'
  <2>1. [sym |-> Symbol(b, op), by |-> h] \in Entries
    BY OperatorsAssumption DEF Entries, Symbol, Operators
  <2>2. ops[t] \in Seq(Entries)
    BY DEF Inv
  <2>3. <<[sym |-> Symbol(b, op), by |-> h]>> \o ops[t] \in Seq(Entries)
    BY <2>1, <2>2
  <2> QED
    BY <1>3, <2>3 DEF Inv, PushOp
<1>4. ASSUME NEW t \in Types, NEW u \in Types, PushFrom(t, u) PROVE Inv'
  <2>1. from[t] \in Seq(Types)
    BY DEF Inv
  <2>2. <<u>> \o from[t] \in Seq(Types)
    BY <2>1
  <2> QED
    BY <1>4, <2>2 DEF Inv, PushFrom
<1>5. ASSUME NEW b \in Bases, NEW op \in Operators,
             NEW x \in Types \cup {Nil, Plain}, NEW y \in Types \cup {Nil, Plain},
             Apply(b, op, x, y)
      PROVE  Inv'
  BY <1>5 DEF Inv, Apply
<1>6. CASE UNCHANGED vars
  BY <1>6 DEF Inv, vars
<1> QED
  BY <1>1, <1>2, <1>3, <1>4, <1>5, <1>6 DEF Next

LEMMA Typed == Spec => []Inv
BY InvInit, InvNext, PTL DEF Spec

-----------------------------------------------------------------------------
(* The maps and the absorptions of the rules, as the alists give them.       *)
Handles == [t \in Types |-> [s \in Syms(t) |-> HandlerOf(s[1], s[2], t)]]
Absorbs == [t \in Types |-> {u \in Types : FromHas(t, u)}]

(* A value carries a handler where its map has the symbol, and it is that    *)
(* of the map.                                                               *)
LEMMA CarriedIsMapped ==
    ASSUME Inv, NEW b \in Bases, NEW op \in Operators, NEW v
    PROVE  /\ Carries(b, op, v) <=> v \in Types /\ Symbol(b, op) \in DOMAIN Handles[v]
           /\ v \in Types /\ Carries(b, op, v)
                => HandlerOf(b, op, v) = Handles[v][Symbol(b, op)]
<1>1. CASE v \notin Types
  BY <1>1 DEF Carries, Entry, Hits, Alist
<1>2. CASE v \in Types
  <2> DEFINE s == Symbol(b, op)
  <2>1. Alist(v) = ops[v] /\ ops[v] \in Seq(Entries)
    BY <1>2 DEF Inv, Alist
  <2>2. DOMAIN Handles[v] = Syms(v) /\ Syms(v) = SymsOf(ops[v])
    BY <1>2 DEF Handles, Syms, SymsOf
  <2>3. Hits(b, op, v) = HitsOf(ops[v], s)
    BY <2>1 DEF Hits, HitsOf
  <2>4. s \in SymsOf(ops[v]) <=> HitsOf(ops[v], s) # {}
    BY DEF SymsOf, HitsOf
  <2>5. s \in SymsOf(ops[v]) => Entry(b, op, v) = FirstOf(ops[v], s)
    BY <2>3, <2>4 DEF Entry, FirstOf
  <2>6. s \in SymsOf(ops[v]) => FirstOf(ops[v], s) # 0
    BY <2>1, FirstFound DEF HitsOf
  <2>7. s \notin SymsOf(ops[v]) => Entry(b, op, v) = 0
    BY <2>3, <2>4 DEF Entry
  <2>8. Carries(b, op, v) <=> s \in DOMAIN Handles[v]
    BY <2>2, <2>5, <2>6, <2>7 DEF Carries
  <2>9. s[1] = b /\ s[2] = op
    BY DEF Symbol
  <2>10. s \in Syms(v) => Handles[v][s] = HandlerOf(b, op, v)
    BY <1>2, <2>9 DEF Handles
  <2> QED
    BY <1>2, <2>2, <2>8, <2>10
<1> QED
  BY <1>1, <1>2

(* A type's map is its alist's.                                              *)
Mapped == [t \in Types |-> MapOf(ops[t])]
AsMaps == Handles = Mapped

LEMMA HandlesAreMaps ==
    Inv => AsMaps
<1> SUFFICES ASSUME Inv PROVE Handles = Mapped
  BY DEF AsMaps
<1>1. ASSUME NEW t \in Types
      PROVE  [s \in Syms(t) |-> HandlerOf(s[1], s[2], t)] = MapOf(ops[t])
  <2>1. ops[t] \in Seq(Entries) /\ Alist(t) = ops[t] /\ Syms(t) = SymsOf(ops[t])
    BY DEF Inv, Alist, Syms, SymsOf
  <2>2. ASSUME NEW s \in SymsOf(ops[t])
        PROVE  HandlerOf(s[1], s[2], t) = ops[t][FirstOf(ops[t], s)].by
    <3>1. s \in Bases \X Operators
      <4>1. PICK i \in DOMAIN ops[t] : ops[t][i].sym = s
        BY DEF SymsOf
      <4>2. ops[t][i] \in Entries
        BY <2>1, <4>1
      <4> QED
        BY <4>1, <4>2 DEF Entries
    <3>2. Symbol(s[1], s[2]) = s
      BY <3>1 DEF Symbol
    <3>3. Hits(s[1], s[2], t) = HitsOf(ops[t], s)
      BY <2>1, <3>2 DEF Hits, HitsOf
    <3>4. HitsOf(ops[t], s) # {}
      BY DEF SymsOf, HitsOf
    <3>5. Entry(s[1], s[2], t) = FirstOf(ops[t], s)
      BY <3>3, <3>4 DEF Entry, FirstOf
    <3> QED
      BY <2>1, <3>5 DEF HandlerOf
  <2> QED
    BY <2>1, <2>2 DEF MapOf
<1> QED
  BY <1>1 DEF Handles, Mapped

(* The steps of the dispatch, which look at one side and then the other,     *)
(* come to the rule, which looks at both.                                    *)
LEMMA AnswersByTheRules ==
    ASSUME Inv, NEW b \in Bases, NEW op \in Operators,
           NEW x \in Types \cup {Nil, Plain}, NEW y \in Types \cup {Nil, Plain}
    PROVE  Answer(b, op, x, y) \in Rules!Outcomes(b, op, x, y)
<1> DEFINE S == Symbol(b, op)
           Able(v) == v \in Types /\ Tries(op) /\ S \in DOMAIN Handles[v]
           carriers == Rules!Carriers(b, op, x, y)
<1>1. carriers = {v \in {x, y} : Able(v)}
  BY DEF Rules!Carriers, Rules!Generic, Rules!Symbol, Symbol, Tries, Handles
<1>2. ASSUME NEW v \in {x, y}
      PROVE  /\ Able(v) <=> Tries(op) /\ Carries(b, op, v)
             /\ Able(v) => HandlerOf(b, op, v) = Handles[v][S]
  BY CarriedIsMapped
<1>3. ASSUME NEW v \in Types, NEW u \in Types PROVE FromHas(v, u) <=> u \in Absorbs[v]
  BY DEF Absorbs
<1>4. Rules!Deciders(b, op, x, y) = {v \in carriers : carriers \ {v} \subseteq Absorbs[v]}
  BY DEF Rules!Deciders, Absorbs
<1>5. Rules!Outcomes(b, op, x, y) =
        IF carriers # {}
        THEN IF Rules!Deciders(b, op, x, y) = {} THEN {IF op = "=" THEN "no" ELSE "raise"}
             ELSE {Handles[v][S] : v \in Rules!Deciders(b, op, x, y)}
        ELSE IF Nil \in {x, y} /\ op \in Rules!Guarded THEN {"raise"}
        ELSE IF Nil \in {x, y} /\ op = "<" THEN {"nil read"}
        ELSE {"integers"}
  BY DEF Rules!Outcomes, Rules!Symbol, Symbol, Handles
<1>6. CASE carriers = {}
  <2>1. Answer(b, op, x, y) = OnIntegers(op, x, y)
    BY <1>1, <1>2, <1>6 DEF Answer
  <2>2. CASE Nil \notin {x, y} \/ op \in {"=", "eq?"}
    <3>1. OnIntegers(op, x, y) = "integers"
      BY <2>2 DEF OnIntegers
    <3> QED
      BY <1>5, <1>6, <2>1, <2>2, <3>1 DEF Rules!Guarded
  <2>3. CASE Nil \in {x, y} /\ op = "<"
    <3>1. OnIntegers(op, x, y) = "nil read"
      BY <2>3 DEF OnIntegers
    <3> QED
      BY <1>5, <1>6, <2>1, <2>3, <3>1 DEF Rules!Guarded
  <2>4. CASE Nil \in {x, y} /\ op \notin {"=", "eq?", "<"}
    <3>1. OnIntegers(op, x, y) = "raise"
      BY <2>4 DEF OnIntegers
    <3> QED
      BY <1>5, <1>6, <2>1, <2>4, <3>1 DEF Rules!Guarded, Operators
  <2> QED
    BY <2>2, <2>3, <2>4
<1> HIDE DEF Able, carriers
<1>7. CASE carriers # {}
  <2>1. Answer(b, op, x, y) = Dispatched(b, op, x, y)
    BY <1>1, <1>2, <1>7 DEF Answer
  <2>2. carriers \subseteq {x, y}
    BY <1>1
  <2>3. ASSUME NEW v \in carriers, carriers \ {v} \subseteq Absorbs[v],
               Dispatched(b, op, x, y) = HandlerOf(b, op, v)
        PROVE  Answer(b, op, x, y) \in Rules!Outcomes(b, op, x, y)
    <3>1. Handles[v][S] = HandlerOf(b, op, v)
      BY <1>1, <1>2
    <3>2. v \in Rules!Deciders(b, op, x, y)
      BY <1>4, <2>3
    <3> QED
      BY <1>5, <1>7, <2>1, <2>3, <3>1, <3>2
  <2>4. CASE ~Carries(b, op, y) \/ x = y
    <3>1. carriers = {x}
      <4>1. CASE x = y
        BY <1>7, <2>2, <4>1
      <4>2. CASE ~Carries(b, op, y)
        <5>1. ~Able(y)
          BY <1>2, <4>2
        <5> QED
          BY <1>1, <1>7, <2>2, <5>1
      <4> QED
        BY <2>4, <4>1, <4>2
    <3>2. Carries(b, op, x)
      BY <1>1, <1>2, <3>1
    <3>3. Dispatched(b, op, x, y) = HandlerOf(b, op, x)
      BY <2>4, <3>2 DEF Dispatched
    <3> QED
      BY <2>3, <3>1, <3>3
  <2>5. CASE Carries(b, op, y) /\ x # y /\ ~Carries(b, op, x)
    <3>1. carriers = {y}
      <4>1. ~Able(x)
        BY <1>2, <2>5
      <4> QED
        BY <1>1, <1>7, <2>2, <4>1
    <3>2. Dispatched(b, op, x, y) = HandlerOf(b, op, y)
      BY <2>5 DEF Dispatched
    <3> QED
      BY <2>3, <3>1, <3>2
  <2>6. CASE Carries(b, op, y) /\ x # y /\ Carries(b, op, x)
    <3>1. carriers = {x, y} /\ x \in Types /\ y \in Types
      <4>1. Tries(op)
        BY <1>1, <1>2, <1>7
      <4>2. Able(x) /\ Able(y)
        BY <1>2, <2>6, <4>1
      <4> QED
        BY <1>1, <4>2 DEF Able
    <3>2. Dispatched(b, op, x, y) =
            IF FromHas(x, y) THEN HandlerOf(b, op, x)
            ELSE IF FromHas(y, x) THEN HandlerOf(b, op, y)
            ELSE IF op = "=" THEN "no" ELSE "raise"
      BY <2>6 DEF Dispatched
    <3>3. CASE FromHas(x, y)
      BY <1>3, <2>3, <3>1, <3>2, <3>3
    <3>4. CASE ~FromHas(x, y) /\ FromHas(y, x)
      BY <1>3, <2>3, <3>1, <3>2, <3>4
    <3>5. CASE ~FromHas(x, y) /\ ~FromHas(y, x)
      <4>1. y \notin Absorbs[x] /\ x \notin Absorbs[y]
        BY <1>3, <3>1, <3>5
      <4>2. Rules!Deciders(b, op, x, y) = {}
        BY <1>4, <2>6, <3>1, <4>1
      <4> QED
        BY <1>5, <1>7, <2>1, <3>2, <3>5, <4>2
    <3> QED
      BY <3>3, <3>4, <3>5
  <2> QED
    BY <2>4, <2>5, <2>6
<1> QED
  BY <1>6, <1>7

-----------------------------------------------------------------------------
LEMMA StartsByTheRules == Init => Rules!Init
<1> SUFFICES ASSUME Init PROVE Rules!Init
  OBVIOUS
<1>1. Handles = [t \in Types |-> <<>>]
  <2>1. ASSUME NEW t \in Types PROVE [s \in Syms(t) |-> HandlerOf(s[1], s[2], t)] = <<>>
    <3>1. Syms(t) = {}
      BY DEF Init, Syms
    <3> QED
      BY <3>1
  <2> QED
    BY <2>1 DEF Handles
<1>2. Absorbs = [t \in Types |-> {}]
  BY DEF Init, Absorbs, FromHas
<1> QED
  BY <1>1, <1>2 DEF Init, Rules!Init, Handles, Absorbs

(* A registration and a declaration change the maps as the rules say.        *)
LEMMA Registers ==
    ASSUME Inv, Inv', NEW b \in Bases, NEW t \in Types, NEW op \in Registered,
           NEW h \in Handlers, PushOp(b, t, op, h)
    PROVE  Rules!Register(b, t, op, h)
<1> DEFINE e == [sym |-> Symbol(b, op), by |-> h]
<1>1. e \in Entries /\ ops[t] \in Seq(Entries)
  BY OperatorsAssumption DEF Inv, Entries, Symbol, Operators
<1>2. ops' = [ops EXCEPT ![t] = <<e>> \o ops[t]]
  BY DEF PushOp
<1>3. Handles = [u \in Types |-> MapOf(ops[u])] /\ Handles' = [u \in Types |-> MapOf(ops'[u])]
  <2>1. Handles = Mapped
    BY HandlesAreMaps DEF AsMaps
  <2>2. Handles' = Mapped'
    <3>1. Inv' => AsMaps'
      BY HandlesAreMaps, PTL
    <3> QED
      BY <3>1 DEF AsMaps
  <2> QED
    BY <2>1, <2>2 DEF Mapped
<1>4. MapOf(<<e>> \o ops[t]) = Rules!With(MapOf(ops[t]), Symbol(b, op), h)
  BY <1>1, PushedInFront
<1>5. Handles' = [Handles EXCEPT ![t] = Rules!With(Handles[t], Symbol(b, op), h)]
  <2>1. ASSUME NEW u \in Types
        PROVE  Handles'[u] = [Handles EXCEPT ![t] = Rules!With(Handles[t], Symbol(b, op), h)][u]
    BY <1>2, <1>3, <1>4 DEF Inv
  <2> QED
    BY <1>3, <2>1
<1>6. Absorbs' = Absorbs
  BY DEF PushOp, Absorbs, FromHas
<1> QED
  BY <1>5, <1>6 DEF PushOp, Made, Rules!Register, Rules!Symbol, Symbol, Handles, Absorbs

LEMMA Declares ==
    ASSUME Inv, NEW t \in Types, NEW u \in Types, PushFrom(t, u)
    PROVE  Rules!Declare(t, u)
<1>1. from[t] \in Seq(Types) /\ from \in [Types -> Seq(Types)]
  BY DEF Inv
<1>2. from' = [from EXCEPT ![t] = <<u>> \o from[t]]
  BY DEF PushFrom
<1>3. ASSUME NEW w \in Types
      PROVE  FromHas(t, w)' <=> w = u \/ FromHas(t, w)
  <2> DEFINE new == <<u>> \o from[t]
  <2>1. from'[t] = new
    BY <1>1, <1>2
  <2>2. /\ DOMAIN new = 1..(Len(from[t]) + 1) /\ DOMAIN from[t] = 1..Len(from[t])
        /\ Len(from[t]) \in Nat
        /\ new[1] = u /\ \A i \in 1..Len(from[t]) : new[i + 1] = from[t][i]
    BY <1>1
  <2>3. ASSUME NEW i \in DOMAIN new PROVE new[i] = u \/ FromHas(t, new[i])
    <3>1. CASE i = 1
      BY <3>1, <2>2
    <3>2. CASE i # 1
      <4>1. i - 1 \in DOMAIN from[t] /\ (i - 1) + 1 = i
        BY <3>2, <2>2
      <4>2. new[i] = from[t][i - 1]
        BY <2>2, <4>1
      <4> QED
        BY <4>1, <4>2 DEF FromHas
    <3> QED
      BY <3>1, <3>2
  <2>4. ASSUME NEW i \in DOMAIN from[t] PROVE \E j \in DOMAIN new : new[j] = from[t][i]
    <3>1. i + 1 \in DOMAIN new /\ new[i + 1] = from[t][i]
      BY <2>2
    <3> QED
      BY <3>1
  <2>5. 1 \in DOMAIN new
    BY <2>2
  <2> HIDE DEF new
  <2>6. FromHas(t, w)' <=> \E i \in DOMAIN new : new[i] = w
    BY <2>1 DEF FromHas
  <2> QED
    BY <2>2, <2>3, <2>4, <2>5, <2>6 DEF FromHas
<1>4. ASSUME NEW v \in Types, v # t, NEW w \in Types
      PROVE  FromHas(v, w)' <=> FromHas(v, w)
  <2>1. from'[v] = from[v]
    BY <1>1, <1>2, <1>4
  <2> QED
    BY <2>1 DEF FromHas
<1>5. Absorbs' = [Absorbs EXCEPT ![t] = Absorbs[t] \cup {u}]
  <2>1. Absorbs'[t] = Absorbs[t] \cup {u}
    BY <1>3 DEF Absorbs
  <2>2. ASSUME NEW v \in Types, v # t PROVE Absorbs'[v] = Absorbs[v]
    BY <1>4, <2>2 DEF Absorbs
  <2>3. DOMAIN Absorbs' = Types /\ DOMAIN Absorbs = Types
    BY DEF Absorbs
  <2>4. Absorbs' = [v \in Types |-> Absorbs'[v]]
    BY DEF Absorbs
  <2> QED
    BY <2>1, <2>2, <2>3, <2>4
<1>6. Handles' = Handles
  BY DEF PushFrom, Handles, Syms, HandlerOf, Alist, Entry, Hits
<1> QED
  BY <1>5, <1>6 DEF PushFrom, Made, Rules!Declare, Handles, Absorbs

(* Each step is one the rules allow.                                         *)
LEMMA StepsByTheRules ==
    ASSUME Inv, Inv', [Next]_vars
    PROVE  [Rules!Next]_(Rules!vars)
<1>1. ASSUME NEW b \in Bases, NEW t \in Types, MakeType(b, t) PROVE Rules!MakeType(b, t)
  BY <1>1 DEF MakeType, Rules!MakeType, Syms, HandlerOf, Alist, Entry, Hits, FromHas
<1>2. ASSUME NEW b \in Bases, NEW t \in Types, MakeInstance(b, t)
      PROVE  Rules!MakeInstance(b, t)
  BY <1>2 DEF MakeInstance, Made, Rules!MakeInstance, Syms, HandlerOf, Alist, Entry, Hits, FromHas
<1>3. ASSUME NEW b \in Bases, NEW t \in Types, NEW op \in Registered, NEW h \in Handlers,
             PushOp(b, t, op, h)
      PROVE  op \in Rules!Generic /\ Rules!Register(b, t, op, h)
  BY <1>3, OperatorsAssumption, Registers DEF Rules!Generic
<1>4. ASSUME NEW t \in Types, NEW u \in Types, PushFrom(t, u) PROVE Rules!Declare(t, u)
  BY <1>4, Declares
<1>5. ASSUME NEW b \in Bases, NEW op \in Operators,
             NEW x \in Types \cup {Nil, Plain}, NEW y \in Types \cup {Nil, Plain},
             Apply(b, op, x, y)
      PROVE  did'[1] = "apply" /\ Rules!Apply(did'[2], did'[3], did'[4], did'[5], did'[6])
  <2>1. did' = <<"apply", b, op, x, y, Answer(b, op, x, y)>>
    BY <1>5 DEF Apply
  <2>2. /\ did'[1] = "apply" /\ did'[2] = b /\ did'[3] = op
        /\ did'[4] = x /\ did'[5] = y /\ did'[6] = Answer(b, op, x, y)
    BY <2>1
  <2>3. Answer(b, op, x, y) \in Rules!Outcomes(b, op, x, y)
    BY AnswersByTheRules
  <2>4. UNCHANGED <<home, ops, from, instances>>
    BY <1>5 DEF Apply
  <2>5. Handles' = Handles /\ Absorbs' = Absorbs
    BY <2>4 DEF Handles, Syms, HandlerOf, Alist, Entry, Hits, Absorbs, FromHas
  <2>6. {x, y} \subseteq instances \cup {Nil, Plain} /\ op \in Rules!Operators
    BY <1>5 DEF Apply, Operators, Rules!Operators
  <2>7. Rules!Apply(b, op, x, y, Answer(b, op, x, y))
    BY <2>3, <2>4, <2>5, <2>6 DEF Rules!Apply, Handles, Absorbs
  <2> QED
    BY <2>2, <2>7
<1>6. CASE UNCHANGED vars
  BY <1>6 DEF vars, Rules!vars, Syms, HandlerOf, Alist, Entry, Hits, FromHas
<1> QED
  BY <1>1, <1>2, <1>3, <1>4, <1>5, <1>6 DEF Next, Rules!Next

(* x_type_op_try picks the handler that the types' maps and declared         *)
(* conversions determine, whichever base interned the symbol, in whatever    *)
(* order the handlers were registered and the operands are given: the alists *)
(* implement the rules.                                                      *)
THEOREM DispatchByTheRules == Spec => ImplementsRules
<1>1. Init => Rules!Init
  BY StartsByTheRules
<1>2. Inv /\ Inv' /\ [Next]_vars => [Rules!Next]_(Rules!vars)
  BY StepsByTheRules
<1> QED
  BY <1>1, <1>2, Typed, PTL DEF Spec, ImplementsRules, Rules!Spec
=============================================================================
