---------------------------- MODULE ScopesProofs ----------------------------
(* The search trees symbols and bindings are kept in, whatever was inserted  *)
(* and in whatever order: each base has one symbol to a spelling, and no     *)
(* insertion hides what was there before.                                    *)
EXTENDS Scopes, SequenceTheorems, FiniteSetTheorems, NaturalsInduction, WellFoundedInduction, TLAPS

(* What symbols, nodes and cells are made of.                                *)
Symbols == [base : Bases, name : Spellings]
Arg     == UNION {{vs[i] : i \in DOMAIN vs} : vs \in Args}
Val     == {Nil} \cup Atoms \cup Arg \cup Seq(Arg)
Node    == [key : Nat, val : Val, left : Nat, right : Nat]
Cell    == [key : Nat, val : Val]

(* The side of a node, against the symbols of any state.                     *)
SideIn(sy, t, n, s) == IF s < sy[t[n].key].name THEN t[n].left ELSE t[n].right

(* The nodes the walk for a spelling passes, were it never to stop: the      *)
(* least set that holds the root and the side taken at each of its nodes.    *)
Covers(sy, t, s, C) ==
    1 \in C /\ \A n \in C : SideIn(sy, t, n, s) # 0 => SideIn(sy, t, n, s) \in C
Passes(sy, t, s) ==
    {n \in DOMAIN t : \A C \in SUBSET DOMAIN t : Covers(sy, t, s, C) => n \in C}

(* A tree grows downwards, and the walk for a node's own spelling passes it. *)
Downward(t) == \A n \in DOMAIN t : {t[n].left, t[n].right} \subseteq {0} \cup (n + 1 .. Len(t))
Keyed(sy, t) == \A n \in DOMAIN t : t[n].key \in DOMAIN sy
Passed(sy, t) == \A n \in DOMAIN t : n \in Passes(sy, t, sy[t[n].key].name)
Tree(sy, t) == t \in Seq(Node) /\ Downward(t) /\ Keyed(sy, t) /\ Passed(sy, t)

(* No two nodes alike, by spelling in an intern tree, by symbol in the rest. *)
OfOneName(sy, t) ==
    \A m, n \in DOMAIN t : sy[t[m].key].name = sy[t[n].key].name => m = n
OfOneKey(t) == \A m, n \in DOMAIN t : t[m].key = t[n].key => m = n

-----------------------------------------------------------------------------
(* The least of a set of naturals.                                           *)
LEMMA Least ==
    ASSUME NEW T, T \subseteq Nat, T # {}
    PROVE  \E x \in T : \A y \in T : x <= y
<1> DEFINE Less == {p \in Nat \X Nat : p[1] < p[2]}
<1>1. IsWellFoundedOn(OpToRel(<, Nat), Nat)
  BY NatLessThanWellFounded
<1>2. OpToRel(<, Nat) = Less
  BY DEF OpToRel
<1>3. \E x \in T : \A y \in T : <<y, x>> \notin Less
  <2> HIDE DEF Less
  <2> QED
    BY <1>1, <1>2, WFMin
<1>4. PICK x \in T : \A y \in T : <<y, x>> \notin Less
  BY <1>3
<1>5. ASSUME NEW y \in T PROVE x <= y
  <2>1. x \in Nat /\ y \in Nat
    OBVIOUS
  <2>2. y < x => <<y, x>> \in Less
    BY <2>1
  <2> QED
    BY <1>4, <2>1, <2>2
<1> QED
  BY <1>5

(* The greatest of a bounded one.                                            *)
LEMMA Greatest ==
    ASSUME NEW N \in Nat, NEW T, T \subseteq 0..N, T # {}
    PROVE  \E x \in T : \A y \in T : y <= x
<1> DEFINE U == {N - x : x \in T}
<1>1. U \subseteq Nat /\ U # {}
  <2>1. ASSUME NEW x \in T PROVE N - x \in Nat /\ N - x \in U
    OBVIOUS
  <2> QED
    BY <2>1
<1>2. PICK u \in U : \A w \in U : u <= w
  <2> HIDE DEF U
  <2> QED
    BY <1>1, Least
<1>3. PICK x \in T : u = N - x
  OBVIOUS
<1>4. ASSUME NEW y \in T PROVE y <= x
  <2>1. N - y \in U /\ x \in 0..N /\ y \in 0..N
    OBVIOUS
  <2>2. N - x <= N - y
    BY <1>2, <1>3, <2>1
  <2> QED
    BY <2>1, <2>2
<1> QED
  BY <1>4

(* A walk whose every step comes nearer to an end has one: the recursive     *)
(* function that follows it is well defined.                                 *)
Follows(f, D, S, v, next) == \A n \in D : f[n] = IF n \in S THEN v[n] ELSE f[next[n]]

LEMMA Walks ==
    ASSUME NEW D, NEW V, NEW S, NEW v, \A n \in D \cap S : v[n] \in V,
           NEW next, \A n \in D \ S : next[n] \in D,
           NEW N \in Nat, NEW rank \in [D -> 0..N], \A n \in D \ S : rank[next[n]] < rank[n]
    PROVE  \E f \in [D -> V] : Follows(f, D, S, v, next)
<1> DEFINE Near(k) == {n \in D : rank[n] < k}
           Ok(k) == \E f \in [Near(k) -> V] : Follows(f, Near(k), S, v, next)
           T == {k \in Nat : ~Ok(k)}
<1>1. T = {}
  <2> SUFFICES ASSUME T # {} PROVE FALSE
    OBVIOUS
  <2>1. PICK k \in T : \A j \in T : k <= j
    BY Least
  <2>2. k # 0
    <3>1. Near(0) = {}
      OBVIOUS
    <3>2. Follows([n \in {} |-> 0], Near(0), S, v, next) /\ [n \in {} |-> 0] \in [Near(0) -> V]
      BY <3>1 DEF Follows
    <3> QED
      BY <3>2
  <2>3. Ok(k - 1)
    <3>1. k - 1 \in Nat /\ ~(k <= k - 1)
      BY <2>2
    <3>2. k - 1 \notin T
      <4> HIDE DEF T
      <4> QED
        BY <2>1, <3>1
    <3> HIDE DEF Ok
    <3> QED
      BY <3>1, <3>2
  <2>4. PICK g \in [Near(k - 1) -> V] : Follows(g, Near(k - 1), S, v, next)
    BY <2>3
  <2> DEFINE f == [n \in Near(k) |-> IF n \in S THEN v[n] ELSE g[next[n]]]
  <2>5. ASSUME NEW n \in Near(k), n \notin S PROVE next[n] \in Near(k - 1)
    <3>1. next[n] \in D /\ rank[next[n]] < rank[n] /\ rank[n] < k
      BY <2>5
    <3>2. rank[next[n]] \in Nat /\ rank[n] \in Nat /\ k \in Nat
      BY <3>1
    <3> QED
      BY <3>1, <3>2
  <2>6. f \in [Near(k) -> V]
    BY <2>4, <2>5
  <2>7. ASSUME NEW n \in Near(k - 1) PROVE n \in Near(k) /\ f[n] = g[n]
    <3>1. n \in Near(k)
      <4>1. rank[n] \in Nat /\ k \in Nat /\ rank[n] < k - 1
        OBVIOUS
      <4> QED
        BY <4>1
    <3> QED
      BY <2>4, <3>1 DEF Follows
  <2>8. ASSUME NEW n \in Near(k) PROVE f[n] = IF n \in S THEN v[n] ELSE f[next[n]]
    <3>1. CASE n \in S
      BY <3>1
    <3>2. CASE n \notin S
      <4>1. next[n] \in Near(k - 1)
        BY <2>5, <3>2
      <4>2. f[next[n]] = g[next[n]]
        BY <2>7, <4>1
      <4> QED
        BY <3>2, <4>2
    <3> QED
      BY <3>1, <3>2
  <2> HIDE DEF f
  <2>9. Follows(f, Near(k), S, v, next)
    BY <2>8 DEF Follows
  <2>10. Ok(k)
    BY <2>6, <2>9
  <2> HIDE DEF Ok
  <2> QED
    BY <2>10
<1>2. Near(N + 1) = D
  BY DEF Near
<1>3. Ok(N + 1)
  <2> HIDE DEF Ok
  <2> QED
    BY <1>1
<1> QED
  BY <1>2, <1>3

-----------------------------------------------------------------------------
(* The sides of a node, in a tree.                                           *)
LEMMA SideIsBelow ==
    ASSUME NEW sy \in Seq(Symbols), NEW t, Tree(sy, t), NEW n \in DOMAIN t, NEW s
    PROVE  /\ t[n] \in Node /\ n \in 1..Len(t) /\ Len(t) \in Nat
           /\ SideIn(sy, t, n, s) \in {0} \cup (n + 1 .. Len(t))
           /\ SideIn(sy, t, n, s) # 0 => SideIn(sy, t, n, s) \in DOMAIN t
<1>1. t \in Seq(Node) /\ n \in 1..Len(t) /\ Len(t) \in Nat
  BY DEF Tree
<1>2. {t[n].left, t[n].right} \subseteq {0} \cup (n + 1 .. Len(t))
  BY DEF Tree, Downward
<1>3. SideIn(sy, t, n, s) \in {t[n].left, t[n].right}
  BY DEF SideIn
<1> QED
  BY <1>1, <1>2, <1>3

(* The nodes a walk passes are a chain: it goes from each to the next.       *)
LEMMA Chain ==
    ASSUME NEW sy \in Seq(Symbols), NEW t, Tree(sy, t), t # <<>>, NEW s
    PROVE  /\ 1 \in Passes(sy, t, s)
           /\ Passes(sy, t, s) \subseteq DOMAIN t
           /\ \A m \in Passes(sy, t, s) :
                 SideIn(sy, t, m, s) # 0 => SideIn(sy, t, m, s) \in Passes(sy, t, s)
           /\ \A m, n \in Passes(sy, t, s) :
                 m < n => SideIn(sy, t, m, s) # 0 /\ SideIn(sy, t, m, s) <= n
<1> DEFINE P == Passes(sy, t, s)
           next(n) == SideIn(sy, t, n, s)
<1>1. P \subseteq DOMAIN t /\ DOMAIN t = 1..Len(t) /\ Len(t) \in Nat /\ 1 \in DOMAIN t
  BY DEF Passes, Tree
<1>2. 1 \in P
  BY <1>1 DEF Passes, Covers
<1>3. ASSUME NEW m \in P, next(m) # 0 PROVE next(m) \in P
  <2>1. next(m) \in DOMAIN t
    BY <1>1, <1>3, SideIsBelow
  <2>2. ASSUME NEW C \in SUBSET DOMAIN t, Covers(sy, t, s, C) PROVE next(m) \in C
    <3>1. m \in C
      BY <2>2 DEF Passes
    <3> QED
      BY <1>3, <2>2, <3>1 DEF Covers
  <2> QED
    BY <2>1, <2>2 DEF Passes
<1>4. ASSUME NEW m \in P PROVE m \in Nat /\ next(m) \in Nat /\ (next(m) = 0 \/ next(m) > m)
  BY <1>1, SideIsBelow
<1> DEFINE Fails(m) == \E n \in P : m < n /\ ~(next(m) # 0 /\ next(m) <= n)
           T == {m \in P : Fails(m)}
<1>5. T = {}
  <2> SUFFICES ASSUME T # {} PROVE FALSE
    OBVIOUS
  <2>1. T \subseteq Nat
    BY <1>4
  <2>2. PICK m \in T : \A j \in T : m <= j
    <3> HIDE DEF T
    <3> QED
      BY <2>1, Least
  <2>3. m \in P
    OBVIOUS
  <2> DEFINE Q == {p \in P : p <= m \/ (next(m) # 0 /\ next(m) <= p)}
  <2>4. 1 \in Q
    BY <1>1, <1>2, <2>3
  <2>5. ASSUME NEW p \in Q, next(p) # 0 PROVE next(p) \in Q
    <3>1. p \in P /\ next(p) \in P /\ p \in Nat /\ next(p) \in Nat /\ next(p) > p /\ m \in Nat
      BY <1>3, <1>4, <2>3, <2>5
    <3>2. CASE p < m
      <4>1. p \notin T
        <5>1. ~(m <= p)
          BY <3>1, <3>2
        <5> HIDE DEF T
        <5> QED
          BY <2>2, <5>1
      <4>2. next(p) <= m
        BY <2>3, <3>1, <3>2, <4>1
      <4> QED
        BY <3>1, <4>2
    <3>3. CASE p = m
      BY <3>1, <3>3
    <3>4. CASE p > m
      <4>1. next(m) # 0 /\ next(m) <= p /\ next(m) \in Nat
        BY <1>4, <2>3, <3>1, <3>4
      <4> QED
        BY <3>1, <4>1
    <3> QED
      BY <3>1, <3>2, <3>3, <3>4
  <2>6. Covers(sy, t, s, Q) /\ Q \in SUBSET DOMAIN t
    BY <1>1, <2>4, <2>5 DEF Covers
  <2>7. P \subseteq Q
    <3> HIDE DEF Q
    <3> QED
      BY <2>6 DEF Passes
  <2>8. PICK n \in P : m < n /\ ~(next(m) # 0 /\ next(m) <= n)
    OBVIOUS
  <2>9. n \in Q /\ n \in Nat /\ m \in Nat
    BY <1>4, <2>3, <2>7, <2>8
  <2> QED
    BY <2>8, <2>9
<1> QED
  BY <1>1, <1>2, <1>3, <1>5

(* A walk that stops at the nodes of H comes to one of them or to 0, and to  *)
(* the one its way passes where it passes one only.                          *)
Stops(f, sy, t, s, H) ==
    f = [n \in 0..Len(t) |-> IF n = 0 \/ n \in H THEN n ELSE f[SideIn(sy, t, n, s)]]

LEMMA StopsExists ==
    ASSUME NEW sy \in Seq(Symbols), NEW t, Tree(sy, t), NEW s, NEW H
    PROVE  \E f : Stops(f, sy, t, s, H)
<1> DEFINE D == 0..Len(t)
           S == {0} \cup H
           v == [n \in D |-> n]
           next == [n \in D |-> SideIn(sy, t, n, s)]
           rank == [n \in D |-> IF n = 0 THEN 0 ELSE Len(t) + 1 - n]
<1>1. Len(t) \in Nat /\ DOMAIN t = 1..Len(t)
  BY DEF Tree
<1>2. ASSUME NEW n \in D \ S
      PROVE  next[n] \in D /\ rank[next[n]] < rank[n]
  <2>1. n \in DOMAIN t
    BY <1>1
  <2>2. SideIn(sy, t, n, s) \in {0} \cup (n + 1 .. Len(t))
    BY <2>1, SideIsBelow
  <2> QED
    BY <1>1, <2>1, <2>2
<1>3. rank \in [D -> 0..(Len(t) + 1)] /\ Len(t) + 1 \in Nat /\ \A n \in D \cap S : v[n] \in D
  BY <1>1
<1>4. PICK f \in [D -> D] : Follows(f, D, S, v, next)
  <2> HIDE DEF D, S, v, next, rank
  <2> QED
    BY <1>2, <1>3, Walks
<1>5. ASSUME NEW n \in 0..Len(t)
      PROVE  f[n] = IF n = 0 \/ n \in H THEN n ELSE f[SideIn(sy, t, n, s)]
  BY <1>4 DEF Follows
<1>6. f = [n \in 0..Len(t) |-> IF n = 0 \/ n \in H THEN n ELSE f[SideIn(sy, t, n, s)]]
  BY <1>4, <1>5
<1> QED
  BY <1>6 DEF Stops

LEMMA WalkEnds ==
    ASSUME NEW sy \in Seq(Symbols), NEW t, Tree(sy, t), t # <<>>, NEW s,
           NEW H \in SUBSET DOMAIN t, NEW f, Stops(f, sy, t, s, H)
    PROVE  /\ f[1] \in {0} \cup H
           /\ \A n \in H \cap Passes(sy, t, s) : H \cap Passes(sy, t, s) = {n} => f[1] = n
<1> DEFINE P == Passes(sy, t, s)
           next(n) == SideIn(sy, t, n, s)
<1>1. /\ P \subseteq DOMAIN t /\ DOMAIN t = 1..Len(t) /\ Len(t) \in Nat /\ 1 \in P
      /\ \A m \in P : next(m) # 0 => next(m) \in P
      /\ \A m, n \in P : m < n => next(m) # 0 /\ next(m) <= n
  BY Chain DEF Tree
<1>2. \A n \in 0..Len(t) : f[n] = IF n = 0 \/ n \in H THEN n ELSE f[next(n)]
  BY DEF Stops
<1>3. \A n \in DOMAIN t : next(n) \in {0} \cup (n + 1 .. Len(t))
  BY SideIsBelow
<1>4. f[1] \in {0} \cup H
  <2> DEFINE T == {n \in 0..Len(t) : f[n] \notin {0} \cup H}
  <2>1. T = {}
    <3> SUFFICES ASSUME T # {} PROVE FALSE
      OBVIOUS
    <3>1. PICK n \in T : \A j \in T : j <= n
      <4>1. T \subseteq 0..Len(t)
        OBVIOUS
      <4> HIDE DEF T
      <4> QED
        BY <1>1, <4>1, Greatest
    <3>2. n \in DOMAIN t /\ n \notin H /\ f[n] = f[next(n)]
      BY <1>1, <1>2
    <3>3. next(n) \in 0..Len(t) /\ (next(n) = 0 \/ next(n) > n)
      BY <1>1, <1>3, <3>2
    <3>4. next(n) # 0
      BY <1>2, <3>2, <3>3
    <3>5. next(n) \notin T
      <4>1. ~(next(n) <= n)
        BY <1>1, <3>2, <3>3, <3>4
      <4> HIDE DEF T
      <4> QED
        BY <3>1, <4>1
    <3> QED
      BY <3>2, <3>3, <3>5
  <2> QED
    BY <1>1, <2>1
<1>5. ASSUME NEW n \in H \cap P, H \cap P = {n} PROVE f[1] = n
  <2> DEFINE T == {m \in P : m <= n /\ f[m] # n}
  <2>1. T = {}
    <3> SUFFICES ASSUME T # {} PROVE FALSE
      OBVIOUS
    <3>1. PICK m \in T : \A j \in T : j <= m
      <4>1. T \subseteq 0..Len(t)
        BY <1>1
      <4> HIDE DEF T
      <4> QED
        BY <1>1, <4>1, Greatest
    <3>2. m \in P /\ m \in 1..Len(t) /\ n \in 1..Len(t) /\ m <= n /\ f[m] # n
      BY <1>1
    <3>3. m # n
      BY <1>2, <3>2
    <3>4. m \notin H
      BY <1>5, <3>2, <3>3
    <3>5. next(m) # 0 /\ next(m) <= n /\ next(m) \in P /\ next(m) > m
      <4>1. m < n
        BY <3>2, <3>3
      <4>2. next(m) # 0 /\ next(m) <= n
        BY <1>1, <3>2, <4>1
      <4> QED
        BY <1>1, <1>3, <3>2, <4>2
    <3>6. f[m] = f[next(m)]
      BY <1>2, <3>2, <3>4
    <3>7. next(m) \notin T
      <4>1. ~(next(m) <= m)
        BY <1>1, <3>2, <3>5
      <4> HIDE DEF T
      <4> QED
        BY <3>1, <4>1
    <3> QED
      BY <3>2, <3>5, <3>6, <3>7
  <2>2. 1 \in P /\ 1 <= n
    BY <1>1
  <2> QED
    BY <2>1, <2>2
<1> QED
  BY <1>4, <1>5

-----------------------------------------------------------------------------
(* The intern tree's search finds the node of a spelling, where there is one.*)
LEMMA NamedFinds ==
    ASSUME syms \in Seq(Symbols), NEW t, Tree(syms, t), OfOneName(syms, t), NEW s
    PROVE  /\ Named(t, s) \in {0} \cup DOMAIN t
           /\ Named(t, s) # 0 => Name(t[Named(t, s)].key) = s
           /\ \A n \in DOMAIN t : Name(t[n].key) = s => Named(t, s) = n
<1> DEFINE H == {n \in DOMAIN t : Name(t[n].key) = s}
           ByName(f) == f = [n \in 0..Len(t) |->
                               IF n = 0 \/ Name(t[n].key) = s THEN n ELSE f[Side(t, n, s)]]
<1>1. DOMAIN t = 1..Len(t) /\ Len(t) \in Nat
  BY DEF Tree
<1>2. ASSUME NEW f PROVE Stops(f, syms, t, s, H) <=> ByName(f)
  <2>1. ASSUME NEW n \in 0..Len(t)
        PROVE  (IF n = 0 \/ n \in H THEN n ELSE f[SideIn(syms, t, n, s)])
               = (IF n = 0 \/ Name(t[n].key) = s THEN n ELSE f[Side(t, n, s)])
    BY <1>1 DEF SideIn, Side, Name
  <2> QED
    BY <2>1 DEF Stops
<1>3. CASE t = <<>>
  BY <1>3 DEF Named
<1>4. CASE t # <<>>
  <2>1. \E f : ByName(f)
    <3>1. \E f : Stops(f, syms, t, s, H)
      BY StopsExists
    <3> QED
      BY <1>2, <3>1
  <2>2. PICK f : ByName(f) /\ Named(t, s) = f[1]
    <3>1. Named(t, s) = (CHOOSE f : ByName(f))[1]
      BY <1>4 DEF Named
    <3> HIDE DEF ByName
    <3> QED
      BY <2>1, <3>1
  <2>3. Stops(f, syms, t, s, H)
    BY <1>2, <2>2
  <2>4. H \in SUBSET DOMAIN t
    OBVIOUS
  <2> HIDE DEF H
  <2>5. /\ f[1] \in {0} \cup H
        /\ \A n \in H \cap Passes(syms, t, s) : H \cap Passes(syms, t, s) = {n} => f[1] = n
    BY <1>4, <2>3, <2>4, WalkEnds
  <2>6. ASSUME NEW n \in DOMAIN t, Name(t[n].key) = s PROVE Named(t, s) = n
    <3>1. n \in Passes(syms, t, s)
      BY <2>6 DEF Tree, Passed, Name
    <3>2. H = {n}
      BY <2>6 DEF H, OfOneName, Name
    <3> QED
      BY <2>2, <2>5, <3>1, <3>2
  <2>7. Named(t, s) \in {0} \cup H
    BY <2>2, <2>5
  <2> QED
    BY <1>1, <2>6, <2>7 DEF H
<1> QED
  BY <1>3, <1>4

(* The search of a tree of bindings finds the node of a symbol, likewise.    *)
LEMMA FiledFinds ==
    ASSUME syms \in Seq(Symbols), NEW t, Tree(syms, t), OfOneKey(t), NEW k
    PROVE  /\ Filed(t, k) \in {0} \cup DOMAIN t
           /\ Filed(t, k) # 0 => t[Filed(t, k)].key = k
           /\ \A n \in DOMAIN t : t[n].key = k => Filed(t, k) = n
<1> DEFINE H == {n \in DOMAIN t : t[n].key = k}
           s == Name(k)
           ByKey(f) == f = [n \in 0..Len(t) |->
                               IF n = 0 \/ t[n].key = k THEN n ELSE f[Side(t, n, Name(k))]]
<1>1. DOMAIN t = 1..Len(t) /\ Len(t) \in Nat
  BY DEF Tree
<1>2. ASSUME NEW f PROVE Stops(f, syms, t, s, H) <=> ByKey(f)
  <2>1. ASSUME NEW n \in 0..Len(t)
        PROVE  (IF n = 0 \/ n \in H THEN n ELSE f[SideIn(syms, t, n, s)])
               = (IF n = 0 \/ t[n].key = k THEN n ELSE f[Side(t, n, s)])
    BY <1>1 DEF SideIn, Side, Name
  <2> QED
    BY <2>1 DEF Stops
<1>3. CASE t = <<>>
  BY <1>3 DEF Filed
<1>4. CASE t # <<>>
  <2>1. \E f : ByKey(f)
    <3>1. \E f : Stops(f, syms, t, s, H)
      BY StopsExists
    <3> QED
      BY <1>2, <3>1
  <2>2. PICK f : ByKey(f) /\ Filed(t, k) = f[1]
    <3>1. Filed(t, k) = (CHOOSE f : ByKey(f))[1]
      BY <1>4 DEF Filed
    <3> HIDE DEF ByKey
    <3> QED
      BY <2>1, <3>1
  <2>3. Stops(f, syms, t, s, H)
    BY <1>2, <2>2
  <2>4. H \in SUBSET DOMAIN t
    OBVIOUS
  <2> HIDE DEF H
  <2>5. /\ f[1] \in {0} \cup H
        /\ \A n \in H \cap Passes(syms, t, s) : H \cap Passes(syms, t, s) = {n} => f[1] = n
    BY <1>4, <2>3, <2>4, WalkEnds
  <2>6. ASSUME NEW n \in DOMAIN t, t[n].key = k PROVE Filed(t, k) = n
    <3>1. n \in Passes(syms, t, s)
      BY <2>6 DEF Tree, Passed, Name
    <3>2. H = {n}
      BY <2>6 DEF H, OfOneKey
    <3> QED
      BY <2>2, <2>5, <3>1, <3>2
  <2>7. Filed(t, k) \in {0} \cup H
    BY <2>2, <2>5
  <2> QED
    BY <1>1, <2>6, <2>7 DEF H
<1> QED
  BY <1>3, <1>4

(* Where the walk for a spelling ends there is nothing on its side.          *)
LEMMA LastIsAnEnd ==
    ASSUME syms \in Seq(Symbols), NEW t, Tree(syms, t), t # <<>>, NEW s
    PROVE  Last(t, s) \in Passes(syms, t, s) /\ SideIn(syms, t, Last(t, s), s) = 0
<1> DEFINE next(n) == SideIn(syms, t, n, s)
           D == 1..Len(t)
           S == {n \in D : next(n) = 0}
           v == [n \in D |-> n]
           nx == [n \in D |-> next(n)]
           rank == [n \in D |-> Len(t) - n]
           Ends(f) == f = [n \in 1..Len(t) |-> IF Side(t, n, s) = 0 THEN n ELSE f[Side(t, n, s)]]
<1>1. Len(t) \in Nat /\ DOMAIN t = 1..Len(t)
  BY DEF Tree
<1>2. \A n \in D : next(n) \in {0} \cup (n + 1 .. Len(t))
  BY <1>1, SideIsBelow
<1>3. \E f : Ends(f)
  <2>1. \A n \in D \ S : nx[n] \in D /\ rank[nx[n]] < rank[n]
    BY <1>1, <1>2
  <2>2. rank \in [D -> 0..Len(t)] /\ \A n \in D \cap S : v[n] \in D
    BY <1>1
  <2>3. PICK f \in [D -> D] : Follows(f, D, S, v, nx)
    <3> HIDE DEF D, S, v, nx, rank
    <3> QED
      BY <1>1, <2>1, <2>2, Walks
  <2>4. ASSUME NEW n \in D
        PROVE  f[n] = IF Side(t, n, s) = 0 THEN n ELSE f[Side(t, n, s)]
    BY <2>3 DEF Follows, SideIn, Side, Name
  <2> QED
    BY <2>3, <2>4
<1>4. PICK f : Ends(f) /\ Last(t, s) = f[1]
  <2>1. Last(t, s) = (CHOOSE f : Ends(f))[1]
    BY DEF Last
  <2> HIDE DEF Ends
  <2> QED
    BY <1>3, <2>1
<1>5. \A n \in D : f[n] = IF next(n) = 0 THEN n ELSE f[next(n)]
  BY <1>4 DEF Side, SideIn, Name
<1>6. /\ 1 \in Passes(syms, t, s) /\ Passes(syms, t, s) \subseteq D
      /\ \A n \in Passes(syms, t, s) : next(n) # 0 => next(n) \in Passes(syms, t, s)
  BY <1>1, Chain
<1> DEFINE T == {n \in Passes(syms, t, s) : ~(f[n] \in Passes(syms, t, s) /\ next(f[n]) = 0)}
<1>7. T = {}
  <2> SUFFICES ASSUME T # {} PROVE FALSE
    OBVIOUS
  <2>1. PICK n \in T : \A j \in T : j <= n
    <3>1. T \subseteq 0..Len(t)
      BY <1>1, <1>6
    <3> HIDE DEF T
    <3> QED
      BY <1>1, <3>1, Greatest
  <2>2. n \in D /\ n \in Passes(syms, t, s)
    BY <1>6
  <2>3. next(n) # 0
    BY <1>5, <2>2
  <2>4. next(n) \in Passes(syms, t, s) /\ next(n) > n /\ f[n] = f[next(n)]
    BY <1>1, <1>2, <1>5, <1>6, <2>2, <2>3
  <2>5. next(n) \notin T
    <3>1. ~(next(n) <= n)
      BY <1>1, <1>6, <2>2, <2>4
    <3> HIDE DEF T
    <3> QED
      BY <2>1, <3>1
  <2> QED
    BY <2>4, <2>5
<1> QED
  BY <1>4, <1>6, <1>7

-----------------------------------------------------------------------------
(* Symbols are only added.                                                   *)
Grown(old, new) ==
    /\ old \in Seq(Symbols) /\ new \in Seq(Symbols)
    /\ Len(old) <= Len(new) /\ \A k \in DOMAIN old : new[k] = old[k]

LEMMA TreeStays ==
    ASSUME NEW old, NEW new, Grown(old, new), NEW t, Tree(old, t)
    PROVE  Tree(new, t) /\ \A n \in DOMAIN t : new[t[n].key].name = old[t[n].key].name
<1>1. \A n \in DOMAIN t : t[n].key \in DOMAIN old /\ t[n].key \in DOMAIN new
  BY DEF Tree, Keyed, Grown
<1>2. \A n \in DOMAIN t : new[t[n].key].name = old[t[n].key].name
  BY <1>1 DEF Grown
<1>3. ASSUME NEW s PROVE Passes(new, t, s) = Passes(old, t, s)
  <2>1. \A n \in DOMAIN t : SideIn(new, t, n, s) = SideIn(old, t, n, s)
    BY <1>2 DEF SideIn
  <2>2. \A C \in SUBSET DOMAIN t : Covers(new, t, s, C) <=> Covers(old, t, s, C)
    BY <2>1 DEF Covers
  <2> QED
    BY <2>2 DEF Passes
<1> QED
  BY <1>1, <1>2, <1>3 DEF Tree, Keyed, Passed

(* A leaf hung where the walk for its spelling ended.                        *)
Hung(t, at, side, k, v) ==
    Append(IF side = "left" THEN [t EXCEPT ![at].left = Len(t) + 1]
                   ELSE [t EXCEPT ![at].right = Len(t) + 1], Leaf(k, v))

IsHung(u, t, at, side, k, v) ==
    /\ u \in Seq(Node) /\ Len(u) = Len(t) + 1 /\ DOMAIN u = 1..(Len(t) + 1)
    /\ u[Len(t) + 1] = Leaf(k, v)
    /\ \A n \in DOMAIN t : u[n].key = t[n].key /\ u[n].val = t[n].val
    /\ \A n \in DOMAIN t : n # at => u[n] = t[n]
    /\ u[at].left = IF side = "left" THEN Len(t) + 1 ELSE t[at].left
    /\ u[at].right = IF side = "left" THEN t[at].right ELSE Len(t) + 1

LEMMA Appended ==
    ASSUME NEW S, NEW q \in Seq(S), NEW x \in S
    PROVE  /\ Append(q, x) \in Seq(S) /\ Len(Append(q, x)) = Len(q) + 1
           /\ DOMAIN Append(q, x) = 1..(Len(q) + 1)
           /\ Append(q, x)[Len(q) + 1] = x
           /\ \A n \in DOMAIN q : Append(q, x)[n] = q[n]
BY AppendProperties

LEMMA HungFacts ==
    ASSUME NEW t \in Seq(Node), NEW at \in DOMAIN t, NEW side, NEW k \in Nat, NEW v \in Val
    PROVE  IsHung(Hung(t, at, side, k, v), t, at, side, k, v)
<1> DEFINE tt == IF side = "left" THEN [t EXCEPT ![at].left = Len(t) + 1]
                 ELSE [t EXCEPT ![at].right = Len(t) + 1]
           u == Hung(t, at, side, k, v)
<1>1. /\ Len(t) \in Nat /\ DOMAIN t = 1..Len(t) /\ \A n \in DOMAIN t : t[n] \in Node
      /\ Len(t) + 1 \in Nat /\ t[at] \in [key : Nat, val : Val, left : Nat, right : Nat]
  <2>1. Len(t) \in Nat /\ DOMAIN t = 1..Len(t) /\ \A n \in DOMAIN t : t[n] \in Node
    OBVIOUS
  <2> QED
    BY <2>1 DEF Node
<1>2. /\ tt \in Seq(Node) /\ Len(tt) = Len(t)
      /\ \A n \in DOMAIN t : n # at => tt[n] = t[n]
      /\ tt[at] = IF side = "left" THEN [t[at] EXCEPT !.left = Len(t) + 1]
                  ELSE [t[at] EXCEPT !.right = Len(t) + 1]
  <2>1. CASE side = "left"
    <3>1. [t[at] EXCEPT !.left = Len(t) + 1] \in Node
      BY <1>1 DEF Node
    <3>2. tt = [t EXCEPT ![at] = [t[at] EXCEPT !.left = Len(t) + 1]]
      BY <2>1
    <3> QED
      BY <1>1, <2>1, <3>1, <3>2, ExceptSeq
  <2>2. CASE side # "left"
    <3>1. [t[at] EXCEPT !.right = Len(t) + 1] \in Node
      BY <1>1 DEF Node
    <3>2. tt = [t EXCEPT ![at] = [t[at] EXCEPT !.right = Len(t) + 1]]
      BY <2>2
    <3> QED
      BY <1>1, <2>2, <3>1, <3>2, ExceptSeq
  <2> QED
    BY <2>1, <2>2
<1>3. Leaf(k, v) \in Node
  BY DEF Leaf, Node
<1> HIDE DEF tt
<1>4. u = Append(tt, Leaf(k, v))
  BY DEF Hung, tt
<1>5. /\ u \in Seq(Node) /\ Len(u) = Len(t) + 1 /\ DOMAIN u = 1..(Len(t) + 1)
      /\ u[Len(t) + 1] = Leaf(k, v) /\ \A n \in DOMAIN t : u[n] = tt[n]
  <2> DEFINE leaf == Leaf(k, v)
  <2>1. tt \in Seq(Node) /\ leaf \in Node /\ u = Append(tt, leaf) /\ Len(tt) = Len(t)
    BY <1>2, <1>3, <1>4
  <2> HIDE DEF leaf, u
  <2>2. /\ u \in Seq(Node) /\ Len(u) = Len(tt) + 1 /\ DOMAIN u = 1..(Len(tt) + 1)
        /\ u[Len(tt) + 1] = leaf /\ \A n \in DOMAIN tt : u[n] = tt[n]
    BY <2>1, Appended
  <2>3. DOMAIN tt = DOMAIN t
    BY <1>1, <2>1
  <2> QED
    BY <2>1, <2>2, <2>3 DEF leaf
<1>6. /\ tt[at].key = t[at].key /\ tt[at].val = t[at].val
      /\ tt[at].left = IF side = "left" THEN Len(t) + 1 ELSE t[at].left
      /\ tt[at].right = IF side = "left" THEN t[at].right ELSE Len(t) + 1
  BY <1>1, <1>2 DEF Node
<1> HIDE DEF u
<1>7. \A n \in DOMAIN t : u[n].key = t[n].key /\ u[n].val = t[n].val
  BY <1>2, <1>5, <1>6
<1>8. \A n \in DOMAIN t : n # at => u[n] = t[n]
  BY <1>2, <1>5
<1> QED
  <2>1. IsHung(u, t, at, side, k, v)
    BY <1>5, <1>6, <1>7, <1>8 DEF IsHung
  <2> QED
    BY <2>1 DEF u

(* An insertion leaves a tree, with what was in it where it was: a walk that *)
(* passed a node passes it still, and the walk for the new leaf passes it.   *)
LEMMA AttachedIsTree ==
    ASSUME NEW new, Grown(syms, new), NEW t, Tree(syms, t),
           NEW k \in DOMAIN new, NEW v \in Val
    PROVE  LET u == Attached(t, k, new[k].name, v) IN
           /\ Tree(new, u) /\ Len(u) = Len(t) + 1 /\ DOMAIN u = 1..(Len(t) + 1)
           /\ u[Len(t) + 1].key = k /\ u[Len(t) + 1].val = v
           /\ \A n \in DOMAIN t : u[n].key = t[n].key /\ u[n].val = t[n].val
<1> DEFINE s == new[k].name
           u == Attached(t, k, s, v)
<1>1. /\ t \in Seq(Node) /\ Len(t) \in Nat /\ DOMAIN t = 1..Len(t)
      /\ new \in Seq(Symbols) /\ syms \in Seq(Symbols) /\ k \in Nat
  BY DEF Tree, Grown
<1>2. CASE t = <<>>
  <2>1. u = <<Leaf(k, v)>> /\ Leaf(k, v) \in Node
    BY <1>1, <1>2 DEF Attached, Leaf, Node
  <2>2. u \in Seq(Node) /\ Len(u) = 1 /\ DOMAIN u = {1} /\ u[1] = Leaf(k, v)
    BY <2>1
  <2>3. u[1].key = k /\ u[1].val = v /\ u[1].left = 0 /\ u[1].right = 0
    BY <2>2 DEF Leaf
  <2> HIDE DEF u
  <2>4. Downward(u) /\ Keyed(new, u)
    BY <2>2, <2>3 DEF Downward, Keyed
  <2>5. 1 \in Passes(new, u, s)
    BY <2>2 DEF Passes, Covers
  <2>6. Passed(new, u)
    BY <2>2, <2>3, <2>5 DEF Passed
  <2> QED
    BY <1>2, <2>2, <2>3, <2>4, <2>6 DEF Tree, u
<1>3. CASE t # <<>>
  <2> DEFINE at == Last(t, s)
             side == IF s < Name(t[at].key) THEN "left" ELSE "right"
  <2>1. u = Hung(t, at, side, k, v)
    BY <1>3 DEF Attached, Hung
  <2>2. at \in Passes(syms, t, s) /\ SideIn(syms, t, at, s) = 0 /\ at \in DOMAIN t
    BY <1>1, <1>3, LastIsAnEnd DEF Passes
  <2> HIDE DEF at, side, u
  <2>4. /\ u \in Seq(Node) /\ Len(u) = Len(t) + 1 /\ DOMAIN u = 1..(Len(t) + 1)
        /\ u[Len(t) + 1] = Leaf(k, v)
        /\ \A n \in DOMAIN t : u[n].key = t[n].key /\ u[n].val = t[n].val
        /\ \A n \in DOMAIN t : n # at => u[n] = t[n]
        /\ u[at].left = IF side = "left" THEN Len(t) + 1 ELSE t[at].left
        /\ u[at].right = IF side = "left" THEN t[at].right ELSE Len(t) + 1
    <3>1. IsHung(Hung(t, at, side, k, v), t, at, side, k, v)
      BY <1>1, <2>2, HungFacts
    <3>2. IsHung(u, t, at, side, k, v)
      BY <2>1, <3>1
    <3> QED
      BY <3>2 DEF IsHung
  <2>5. u[Len(t) + 1].key = k /\ u[Len(t) + 1].val = v /\ u[Len(t) + 1].left = 0
        /\ u[Len(t) + 1].right = 0
    BY <2>4 DEF Leaf
  <2>6. /\ \A n \in DOMAIN t : t[n].key \in DOMAIN new
        /\ \A n \in DOMAIN t : new[t[n].key].name = syms[t[n].key].name
    <3>1. Tree(new, t) /\ \A n \in DOMAIN t : new[t[n].key].name = syms[t[n].key].name
      BY TreeStays
    <3> QED
      BY <3>1 DEF Tree, Keyed
  <2>7. Keyed(new, u)
    <3>1. ASSUME NEW n \in DOMAIN u PROVE u[n].key \in DOMAIN new
      <4>1. CASE n \in DOMAIN t
        BY <2>4, <2>6, <4>1
      <4>2. CASE n = Len(t) + 1
        BY <2>5, <4>2
      <4> QED
        BY <1>1, <2>4, <4>1, <4>2
    <3> QED
      BY <3>1 DEF Keyed
  <2>8. Downward(u)
    <3>1. ASSUME NEW n \in DOMAIN t PROVE {t[n].left, t[n].right} \subseteq {0} \cup (n + 1 .. Len(t))
      BY DEF Tree, Downward
    <3>2. ASSUME NEW n \in DOMAIN u
          PROVE  {u[n].left, u[n].right} \subseteq {0} \cup (n + 1 .. Len(u))
      <4>1. CASE n = Len(t) + 1
        BY <2>5, <4>1
      <4>2. CASE n \in DOMAIN t /\ n # at
        <5>1. u[n] = t[n]
          BY <2>4, <4>2
        <5> QED
          BY <1>1, <2>4, <3>1, <4>2, <5>1
      <4>3. CASE n = at
        <5>1. {t[at].left, t[at].right} \subseteq {0} \cup (at + 1 .. Len(t))
          BY <2>2, <3>1
        <5>2. {u[at].left, u[at].right} \subseteq {t[at].left, t[at].right, Len(t) + 1}
          BY <2>4
        <5>3. Len(t) + 1 \in at + 1 .. Len(u)
          BY <1>1, <2>2, <2>4
        <5> QED
          BY <1>1, <2>2, <2>4, <4>3, <5>1, <5>2, <5>3
      <4> QED
        BY <1>1, <2>4, <4>1, <4>2, <4>3
    <3> QED
      BY <3>2 DEF Downward
  <2>9. \* The sides taken before are taken still.
        ASSUME NEW n \in DOMAIN t, NEW r, SideIn(syms, t, n, r) # 0
        PROVE  SideIn(new, u, n, r) = SideIn(syms, t, n, r)
    <3>1. u[n].key = t[n].key /\ new[u[n].key].name = syms[t[n].key].name
      BY <2>4, <2>6
    <3>2. CASE n # at
      BY <2>4, <3>1, <3>2 DEF SideIn
    <3>3. CASE n = at
      <4>1. side = "left" <=> s < syms[t[at].key].name
        BY DEF side, Name
      <4>2. IF side = "left" THEN t[at].left = 0 ELSE t[at].right = 0
        BY <2>2, <4>1 DEF SideIn
      <4>3. /\ r < syms[t[at].key].name => t[at].left # 0
            /\ ~(r < syms[t[at].key].name) => t[at].right # 0
        BY <2>9, <3>3 DEF SideIn
      <4>4. /\ r < syms[t[at].key].name => u[at].left = t[at].left
            /\ ~(r < syms[t[at].key].name) => u[at].right = t[at].right
        BY <2>4, <4>2, <4>3
      <4> QED
        BY <3>1, <3>3, <4>4 DEF SideIn
    <3> QED
      BY <3>2, <3>3
  <2>10. SideIn(new, u, at, s) = Len(t) + 1
    <3>1. u[at].key = t[at].key /\ new[u[at].key].name = syms[t[at].key].name
      BY <2>2, <2>4, <2>6
    <3> QED
      BY <2>4, <3>1 DEF SideIn, side, Name
  <2>11. ASSUME NEW r, NEW C \in SUBSET DOMAIN u, Covers(new, u, r, C)
         PROVE  Covers(syms, t, r, C \cap DOMAIN t)
    <3>1. 1 \in C \cap DOMAIN t
      BY <1>1, <1>3, <2>11 DEF Covers
    <3>2. ASSUME NEW n \in C \cap DOMAIN t, SideIn(syms, t, n, r) # 0
          PROVE  SideIn(syms, t, n, r) \in C \cap DOMAIN t
      <4>1. SideIn(syms, t, n, r) \in DOMAIN t
        BY <1>1, <3>2, SideIsBelow
      <4>2. SideIn(new, u, n, r) = SideIn(syms, t, n, r)
        BY <2>9, <3>2
      <4> QED
        BY <2>11, <3>2, <4>1, <4>2 DEF Covers
    <3> QED
      BY <3>1, <3>2 DEF Covers
  <2>12. ASSUME NEW r, NEW n \in Passes(syms, t, r) PROVE n \in Passes(new, u, r)
    <3>1. n \in DOMAIN t /\ n \in DOMAIN u
      BY <1>1, <2>4 DEF Passes
    <3>2. ASSUME NEW C \in SUBSET DOMAIN u, Covers(new, u, r, C) PROVE n \in C
      <4>1. Covers(syms, t, r, C \cap DOMAIN t) /\ C \cap DOMAIN t \in SUBSET DOMAIN t
        BY <2>11, <3>2
      <4>2. n \in C \cap DOMAIN t
        BY <4>1 DEF Passes
      <4> QED
        BY <4>2
    <3> QED
      BY <3>1, <3>2 DEF Passes
  <2>13. Len(t) + 1 \in Passes(new, u, s)
    <3>1. at \in Passes(new, u, s)
      BY <2>2, <2>12
    <3>2. ASSUME NEW C \in SUBSET DOMAIN u, Covers(new, u, s, C) PROVE Len(t) + 1 \in C
      <4>1. at \in C
        BY <3>1, <3>2 DEF Passes
      <4>2. Len(t) + 1 # 0
        BY <1>1
      <4> QED
        BY <2>10, <3>2, <4>1, <4>2 DEF Covers
    <3>3. Len(t) + 1 \in DOMAIN u
      BY <1>1, <2>4
    <3> QED
      BY <3>2, <3>3 DEF Passes
  <2>14. ASSUME NEW n \in DOMAIN u PROVE n \in Passes(new, u, new[u[n].key].name)
    <3>1. CASE n = Len(t) + 1
      BY <2>5, <2>13, <3>1
    <3>2. CASE n \in DOMAIN t
      <4>1. n \in Passes(syms, t, syms[t[n].key].name)
        BY <3>2 DEF Tree, Passed
      <4>2. new[u[n].key].name = syms[t[n].key].name
        BY <2>4, <2>6, <3>2
      <4> QED
        BY <2>12, <4>1, <4>2
    <3> QED
      BY <1>1, <2>4, <3>1, <3>2
  <2>15. Tree(new, u)
    BY <2>4, <2>7, <2>8, <2>14 DEF Tree, Passed
  <2> QED
    BY <2>4, <2>5, <2>15 DEF u
<1> QED
  BY <1>2, <1>3

-----------------------------------------------------------------------------
(* The inductive invariant.  An intern tree has its base's symbols and all   *)
(* of them, each spelling once; an environment keeps a tree or a list, the   *)
(* tree each symbol once, and has a parent made before it.                   *)
Env == [kind : {"root", "module", "frame"}, parent : Nat, cells : Seq(Cell), tree : Seq(Node)]

TableOK(sy, t, b) ==
    /\ Tree(sy, t) /\ OfOneName(sy, t)
    /\ \A n \in DOMAIN t : sy[t[n].key].base = b
EnvOK(sy, e, f) ==
    /\ f \in Env
    /\ f.parent < e /\ (f.parent = 0 <=> f.kind = "root")
    /\ Tree(sy, f.tree) /\ OfOneKey(f.tree)
    /\ \A i \in DOMAIN f.cells : f.cells[i].key \in DOMAIN sy
    /\ IF f.kind = "frame" THEN f.tree = <<>> ELSE f.cells = <<>>

Tables == \A b \in Bases : TableOK(syms, table[b], b)
Tabled == \A k \in DOMAIN syms : \E n \in DOMAIN table[syms[k].base] :
              table[syms[k].base][n].key = k
Envs   == \A e \in DOMAIN envs : EnvOK(syms, e, envs[e])

Inv ==
    /\ program \in Programs
    /\ syms \in Seq(Symbols)
    /\ table \in [Bases -> Seq(Node)]
    /\ envs \in Seq(Env)
    /\ Tables /\ Tabled /\ Envs

LEMMA EmptyTree ==
    ASSUME NEW sy PROVE Tree(sy, <<>>) /\ OfOneName(sy, <<>>) /\ OfOneKey(<<>>)
BY DEF Tree, Downward, Keyed, Passed, OfOneName, OfOneKey

(* Searching an environment of its own for a symbol.                         *)
LEMMA WithinFinds ==
    ASSUME Inv, NEW e \in DOMAIN envs, NEW k
    PROVE  /\ Within(e, k) \in {0} \cup DOMAIN Entries(e)
           /\ Within(e, k) # 0 => Entries(e)[Within(e, k)].key = k
           /\ Within(e, k) = 0 => \A n \in DOMAIN Entries(e) : Entries(e)[n].key # k
           /\ IsTree(e) => \A n \in DOMAIN Entries(e) : Entries(e)[n].key = k => Within(e, k) = n
           /\ ~IsTree(e) => \A n \in DOMAIN Entries(e) : Entries(e)[n].key = k => Within(e, k) <= n
           /\ DOMAIN Entries(e) = 1..Len(Entries(e)) /\ Len(Entries(e)) \in Nat
<1> DEFINE t == envs[e].tree
           cs == envs[e].cells
<1>1. /\ Tree(syms, t) /\ OfOneKey(t) /\ t \in Seq(Node) /\ cs \in Seq(Cell)
      /\ syms \in Seq(Symbols)
  BY DEF Inv, Envs, EnvOK, Env
<1> HIDE DEF t, cs
<1>2. CASE IsTree(e)
  <2>1. Entries(e) = t /\ Within(e, k) = Filed(t, k)
    BY <1>2 DEF Entries, Within, t
  <2>2. /\ Filed(t, k) \in {0} \cup DOMAIN t
        /\ Filed(t, k) # 0 => t[Filed(t, k)].key = k
        /\ \A n \in DOMAIN t : t[n].key = k => Filed(t, k) = n
    BY <1>1, FiledFinds
  <2>3. DOMAIN t = 1..Len(t) /\ Len(t) \in Nat
    BY <1>1
  <2> QED
    BY <1>2, <2>1, <2>2, <2>3
<1>3. CASE ~IsTree(e)
  <2> DEFINE hits == {i \in DOMAIN cs : cs[i].key = k}
  <2>1. Entries(e) = cs /\ Within(e, k) = CellOf(cs, k)
    BY <1>3 DEF Entries, Within, cs
  <2>2. DOMAIN cs = 1..Len(cs) /\ Len(cs) \in Nat
    BY <1>1
  <2>3. CASE hits = {}
    <3>1. CellOf(cs, k) = 0
      BY <2>3 DEF CellOf
    <3> QED
      BY <1>3, <2>1, <2>2, <2>3, <3>1
  <2>4. CASE hits # {}
    <3>1. \E i \in hits : \A j \in hits : i <= j
      <4>1. hits \subseteq Nat
        BY <2>2
      <4> HIDE DEF hits
      <4> QED
        BY <2>4, <4>1, Least
    <3>2. CellOf(cs, k) = CHOOSE i \in hits : \A j \in hits : i <= j
      BY <2>4 DEF CellOf
    <3>3. CellOf(cs, k) \in hits /\ \A j \in hits : CellOf(cs, k) <= j
      <4> HIDE DEF hits
      <4> QED
        BY <3>1, <3>2
    <3>4. CellOf(cs, k) # 0 /\ CellOf(cs, k) \in DOMAIN cs /\ cs[CellOf(cs, k)].key = k
      BY <2>2, <3>3
    <3> QED
      BY <1>3, <2>1, <2>2, <3>3, <3>4
  <2> QED
    BY <2>3, <2>4
<1> QED
  BY <1>2, <1>3

(* Looking up: the environments from e on are tried in turn.                 *)
RetriedAt(b, k, i) ==
    Retries(i) /\ OwnSymbol(b, k) \notin {0, k} /\ Filed(envs[i].tree, OwnSymbol(b, k)) # 0

LookupStep(up, b, k) ==
    up = [i \in 0..Len(envs) |->
            IF i = 0 THEN <<0, 0>>
            ELSE IF Within(i, k) # 0 THEN <<i, Within(i, k)>>
            ELSE IF Retries(i) /\ OwnSymbol(b, k) \notin {0, k}
                    /\ Filed(envs[i].tree, OwnSymbol(b, k)) # 0
            THEN <<i, Filed(envs[i].tree, OwnSymbol(b, k))>>
            ELSE up[envs[i].parent]]

LEMMA LookupSteps ==
    ASSUME Inv, NEW b, NEW k
    PROVE  \E up : LookupStep(up, b, k) /\ \A e : Lookup(b, e, k) = up[e]
<1> DEFINE D == 0..Len(envs)
           own == OwnSymbol(b, k)
           S == {i \in D : i = 0 \/ Within(i, k) # 0 \/ RetriedAt(b, k, i)}
           v == [i \in D |-> IF i = 0 THEN <<0, 0>>
                             ELSE IF Within(i, k) # 0 THEN <<i, Within(i, k)>>
                             ELSE <<i, Filed(envs[i].tree, own)>>]
           next == [i \in D |-> envs[i].parent]
           rank == [i \in D |-> i]
           V == {v[i] : i \in D}
<1>1. Len(envs) \in Nat /\ DOMAIN envs = 1..Len(envs)
  BY DEF Inv
<1>2. ASSUME NEW i \in D \ S PROVE next[i] \in D /\ rank[next[i]] < rank[i]
  <2>1. i \in DOMAIN envs
    BY <1>1
  <2>2. envs[i].parent \in Nat /\ envs[i].parent < i
    BY <2>1 DEF Inv, Envs, EnvOK, Env
  <2> QED
    BY <1>1, <2>1, <2>2
<1>3. rank \in [D -> 0..Len(envs)] /\ \A i \in D \cap S : v[i] \in V
  BY <1>1
<1>4. PICK up \in [D -> V] : Follows(up, D, S, v, next)
  <2> HIDE DEF D, S, v, next, rank, V
  <2> QED
    BY <1>1, <1>2, <1>3, Walks
<1>5. ASSUME NEW i \in D
      PROVE  up[i] = IF i = 0 THEN <<0, 0>>
                     ELSE IF Within(i, k) # 0 THEN <<i, Within(i, k)>>
                     ELSE IF RetriedAt(b, k, i) THEN <<i, Filed(envs[i].tree, own)>>
                     ELSE up[envs[i].parent]
  <2>1. up[i] = IF i \in S THEN v[i] ELSE up[next[i]]
    BY <1>4 DEF Follows
  <2> QED
    BY <2>1
<1>6. LookupStep(up, b, k)
  <2>1. up = [i \in D |-> up[i]]
    BY <1>4
  <2> QED
    BY <1>5, <2>1 DEF LookupStep, RetriedAt
<1>7. \E f : LookupStep(f, b, k)
  BY <1>6
<1>8. \A e : Lookup(b, e, k) = (CHOOSE f : LookupStep(f, b, k))[e]
  BY DEF Lookup, LookupStep
<1>9. LookupStep(CHOOSE f : LookupStep(f, b, k), b, k)
  BY <1>7
<1> QED
  BY <1>8, <1>9

(* Where a lookup ends there is a cell, or it found none.                    *)
Nowhere     == <<0, 0>>
IsPlace(at) == at[1] \in DOMAIN envs /\ at[2] \in DOMAIN Entries(at[1])

(* Those steps one by one.                                                   *)
LookupUp(up, b, k) ==
    /\ up[0] = Nowhere
    /\ \A i \in DOMAIN envs :
        /\ Within(i, k) # 0 => up[i] = <<i, Within(i, k)>>
        /\ Within(i, k) = 0 /\ RetriedAt(b, k, i)
              => up[i] = <<i, Filed(envs[i].tree, OwnSymbol(b, k))>>
        /\ Within(i, k) = 0 /\ ~RetriedAt(b, k, i) => up[i] = up[envs[i].parent]

LEMMA LookupsUp ==
    ASSUME Inv, NEW b, NEW k
    PROVE  \E up : LookupUp(up, b, k) /\ \A e : Lookup(b, e, k) = up[e]
<1>1. PICK up : LookupStep(up, b, k) /\ \A i : Lookup(b, i, k) = up[i]
  BY LookupSteps
<1>2. Len(envs) \in Nat /\ DOMAIN envs = 1..Len(envs)
  BY DEF Inv
<1>3. \A i \in 0..Len(envs) :
        up[i] = IF i = 0 THEN <<0, 0>>
                ELSE IF Within(i, k) # 0 THEN <<i, Within(i, k)>>
                ELSE IF RetriedAt(b, k, i) THEN <<i, Filed(envs[i].tree, OwnSymbol(b, k))>>
                ELSE up[envs[i].parent]
  BY <1>1 DEF LookupStep, RetriedAt
<1>4. up[0] = Nowhere
  <2>1. 0 \in 0..Len(envs)
    BY <1>2
  <2>2. up[0] = IF 0 = 0 THEN <<0, 0>>
                ELSE IF Within(0, k) # 0 THEN <<0, Within(0, k)>>
                ELSE IF RetriedAt(b, k, 0) THEN <<0, Filed(envs[0].tree, OwnSymbol(b, k))>>
                ELSE up[envs[0].parent]
    BY <1>3, <2>1
  <2> QED
    BY <2>2 DEF Nowhere
<1>5. ASSUME NEW i \in DOMAIN envs
      PROVE  /\ Within(i, k) # 0 => up[i] = <<i, Within(i, k)>>
             /\ Within(i, k) = 0 /\ RetriedAt(b, k, i)
                   => up[i] = <<i, Filed(envs[i].tree, OwnSymbol(b, k))>>
             /\ Within(i, k) = 0 /\ ~RetriedAt(b, k, i) => up[i] = up[envs[i].parent]
  <2>1. i # 0 /\ i \in 0..Len(envs)
    BY <1>2
  <2> QED
    BY <1>3, <2>1
<1>6. LookupUp(up, b, k)
  BY <1>4, <1>5 DEF LookupUp
<1> QED
  BY <1>1, <1>6

LEMMA LookupFinds ==
    ASSUME Inv, NEW b, NEW k, NEW e \in DOMAIN envs
    PROVE  Lookup(b, e, k) = Nowhere \/ IsPlace(Lookup(b, e, k))
<1>1. PICK up : LookupUp(up, b, k) /\ \A i : Lookup(b, i, k) = up[i]
  BY LookupsUp
<1>2. Len(envs) \in Nat /\ DOMAIN envs = 1..Len(envs)
  BY DEF Inv
<1> DEFINE Good(i) == up[i] = Nowhere \/ IsPlace(up[i])
           T == {i \in 0..Len(envs) : ~Good(i)}
<1>3. T = {}
  <2> SUFFICES ASSUME T # {} PROVE FALSE
    OBVIOUS
  <2>1. PICK i \in T : \A j \in T : i <= j
    <3>1. T \subseteq Nat
      OBVIOUS
    <3> HIDE DEF T
    <3> QED
      BY <3>1, Least
  <2>2. ~Good(i) /\ i \in 0..Len(envs)
    OBVIOUS
  <2>3. Good(0)
    BY <1>1 DEF LookupUp
  <2>4. i \in DOMAIN envs /\ i # 0
    <3> HIDE DEF Good
    <3> QED
      BY <1>2, <2>2, <2>3
  <2>5. /\ Within(i, k) # 0 => up[i] = <<i, Within(i, k)>>
        /\ Within(i, k) = 0 /\ RetriedAt(b, k, i)
              => up[i] = <<i, Filed(envs[i].tree, OwnSymbol(b, k))>>
        /\ Within(i, k) = 0 /\ ~RetriedAt(b, k, i) => up[i] = up[envs[i].parent]
    BY <1>1, <2>4 DEF LookupUp
  <2>6. ASSUME NEW n \in DOMAIN Entries(i) PROVE up[i] # <<i, n>>
    <3>1. IsPlace(<<i, n>>)
      BY <2>4 DEF IsPlace
    <3> QED
      BY <2>2, <3>1
  <2>7. Within(i, k) = 0
    <3>1. Within(i, k) \in {0} \cup DOMAIN Entries(i)
      BY <2>4, WithinFinds
    <3> HIDE DEF T, Good
    <3> QED
      BY <2>5, <2>6, <3>1
  <2>8. ~RetriedAt(b, k, i)
    <3> SUFFICES ASSUME RetriedAt(b, k, i) PROVE FALSE
      OBVIOUS
    <3>1. IsTree(i) /\ Filed(envs[i].tree, OwnSymbol(b, k)) # 0
      BY DEF RetriedAt, Retries, IsTree
    <3>2. Within(i, OwnSymbol(b, k)) = Filed(envs[i].tree, OwnSymbol(b, k))
      BY <3>1 DEF Within
    <3>3. Filed(envs[i].tree, OwnSymbol(b, k)) \in DOMAIN Entries(i)
      BY <2>4, <3>1, <3>2, WithinFinds
    <3> HIDE DEF T, Good
    <3> QED
      BY <2>5, <2>6, <2>7, <3>3
  <2>9. envs[i].parent \in Nat /\ envs[i].parent < i
    BY <2>4 DEF Inv, Envs, EnvOK, Env
  <2>10. ~Good(envs[i].parent)
    <3>1. up[i] = up[envs[i].parent]
      BY <2>5, <2>7, <2>8
    <3> QED
      BY <2>2, <3>1
  <2>11. envs[i].parent \in T
    <3> HIDE DEF Good
    <3> QED
      BY <1>2, <2>4, <2>9, <2>10
  <2>12. ~(i <= envs[i].parent)
    BY <1>2, <2>4, <2>9
  <2> HIDE DEF T
  <2> QED
    BY <2>1, <2>11, <2>12
<1>4. Good(e)
  <2> HIDE DEF Good
  <2> QED
    BY <1>2, <1>3
<1> QED
  BY <1>1, <1>4

-----------------------------------------------------------------------------
(* A value written in a cell's place changes nothing else.                   *)
Rewritten(old, new, n, v) ==
    /\ Len(new) = Len(old) /\ DOMAIN new = DOMAIN old
    /\ \A i \in DOMAIN old : new[i] = IF i = n THEN [old[i] EXCEPT !.val = v] ELSE old[i]

LEMMA RewrittenTree ==
    ASSUME NEW sy \in Seq(Symbols), NEW t, NEW n, NEW v \in Val, Tree(sy, t), OfOneKey(t),
           NEW u, Rewritten(t, u, n, v), u \in Seq(Node)
    PROVE  Tree(sy, u) /\ OfOneKey(u)
<1>1. t \in Seq(Node) /\ DOMAIN u = DOMAIN t /\ Len(u) = Len(t)
  BY DEF Tree, Rewritten
<1>2. ASSUME NEW i \in DOMAIN t
      PROVE  u[i].key = t[i].key /\ u[i].left = t[i].left /\ u[i].right = t[i].right
  <2>1. t[i] \in Node
    BY <1>1
  <2> QED
    BY <2>1 DEF Rewritten, Node
<1>3. ASSUME NEW s PROVE Passes(sy, u, s) = Passes(sy, t, s)
  <2>1. \A i \in DOMAIN t : SideIn(sy, u, i, s) = SideIn(sy, t, i, s)
    BY <1>2 DEF SideIn
  <2>2. \A C \in SUBSET DOMAIN t : Covers(sy, u, s, C) <=> Covers(sy, t, s, C)
    BY <2>1 DEF Covers
  <2> QED
    BY <1>1, <2>2 DEF Passes
<1>4. Downward(u) /\ Keyed(sy, u) /\ OfOneKey(u)
  <2>1. Downward(t) /\ Keyed(sy, t)
    BY DEF Tree
  <2>2. Downward(u)
    BY <1>1, <1>2, <2>1 DEF Downward
  <2> QED
    BY <1>1, <1>2, <2>1, <2>2 DEF Keyed, OfOneKey
<1>5. Passed(sy, u)
  BY <1>1, <1>2, <1>3 DEF Tree, Passed
<1> QED
  BY <1>4, <1>5 DEF Tree

(* What WithValueAt makes of the environments.                               *)
LEMMA ValueWritten ==
    ASSUME Inv, NEW at, IsPlace(at), NEW v \in Val
    PROVE  LET new == WithValueAt(at, v)
               e == at[1]
           IN /\ new \in Seq(Env) /\ DOMAIN new = DOMAIN envs /\ Len(new) = Len(envs)
              /\ \A i \in DOMAIN envs : i # e => new[i] = envs[i]
              /\ new[e].kind = envs[e].kind /\ new[e].parent = envs[e].parent
              /\ IsTree(e) => /\ Rewritten(envs[e].tree, new[e].tree, at[2], v)
                              /\ new[e].cells = envs[e].cells
              /\ ~IsTree(e) => /\ Rewritten(envs[e].cells, new[e].cells, at[2], v)
                               /\ new[e].tree = envs[e].tree
<1> DEFINE e == at[1]
           n == at[2]
           f == envs[e]
           new == WithValueAt(at, v)
<1>1. /\ e \in DOMAIN envs /\ f \in [kind : {"root", "module", "frame"}, parent : Nat,
                                     cells : Seq(Cell), tree : Seq(Node)]
      /\ envs \in Seq(Env) /\ DOMAIN envs = 1..Len(envs) /\ Len(envs) \in Nat
  <2>1. e \in DOMAIN envs /\ envs \in Seq(Env)
    BY DEF Inv, IsPlace
  <2>2. f \in Env
    BY <2>1
  <2> QED
    BY <2>1, <2>2 DEF Env
<1>2. CASE IsTree(e)
  <2> DEFINE t == f.tree
             u == [t EXCEPT ![n] = [t[n] EXCEPT !.val = v]]
             g == [f EXCEPT !.tree = u]
  <2>1. n \in DOMAIN t /\ t \in Seq(Node)
    BY <1>1, <1>2 DEF IsPlace, Entries
  <2>2. [t[n] EXCEPT !.val = v] \in Node
    <3>1. t[n] \in Node
      BY <2>1
    <3> QED
      BY <3>1 DEF Node
  <2>3. u \in Seq(Node) /\ Rewritten(t, u, n, v)
    <3>1. /\ u \in Seq(Node) /\ Len(u) = Len(t)
          /\ \A j \in 1..Len(t) : u[j] = IF j = n THEN [t[n] EXCEPT !.val = v] ELSE t[j]
      BY <2>1, <2>2, ExceptSeq
    <3> QED
      BY <2>1, <3>1 DEF Rewritten
  <2>4. new = [envs EXCEPT ![e] = g]
    BY <1>2 DEF WithValueAt
  <2> HIDE DEF u
  <2>5. g \in Env /\ g.tree = u /\ g.kind = f.kind /\ g.parent = f.parent /\ g.cells = f.cells
    BY <1>1, <2>3 DEF Env
  <2> HIDE DEF g, new
  <2>6. /\ new \in Seq(Env) /\ DOMAIN new = DOMAIN envs /\ Len(new) = Len(envs)
        /\ new[e] = g /\ \A i \in DOMAIN envs : i # e => new[i] = envs[i]
    <3>1. /\ new \in Seq(Env) /\ Len(new) = Len(envs)
          /\ \A j \in 1..Len(envs) : new[j] = IF j = e THEN g ELSE envs[j]
      BY <1>1, <2>4, <2>5, ExceptSeq
    <3> QED
      BY <1>1, <3>1
  <2> QED
    BY <1>2, <2>3, <2>5, <2>6 DEF new
<1>3. CASE ~IsTree(e)
  <2> DEFINE t == f.cells
             u == [t EXCEPT ![n] = [t[n] EXCEPT !.val = v]]
             g == [f EXCEPT !.cells = u]
  <2>1. n \in DOMAIN t /\ t \in Seq(Cell)
    BY <1>1, <1>3 DEF IsPlace, Entries
  <2>2. [t[n] EXCEPT !.val = v] \in Cell
    <3>1. t[n] \in Cell
      BY <2>1
    <3> QED
      BY <3>1 DEF Cell
  <2>3. u \in Seq(Cell) /\ Rewritten(t, u, n, v)
    <3>1. /\ u \in Seq(Cell) /\ Len(u) = Len(t)
          /\ \A j \in 1..Len(t) : u[j] = IF j = n THEN [t[n] EXCEPT !.val = v] ELSE t[j]
      BY <2>1, <2>2, ExceptSeq
    <3> QED
      BY <2>1, <3>1 DEF Rewritten
  <2>4. new = [envs EXCEPT ![e] = g]
    BY <1>3 DEF WithValueAt
  <2> HIDE DEF u
  <2>5. g \in Env /\ g.cells = u /\ g.kind = f.kind /\ g.parent = f.parent /\ g.tree = f.tree
    BY <1>1, <2>3 DEF Env
  <2> HIDE DEF g, new
  <2>6. /\ new \in Seq(Env) /\ DOMAIN new = DOMAIN envs /\ Len(new) = Len(envs)
        /\ new[e] = g /\ \A i \in DOMAIN envs : i # e => new[i] = envs[i]
    <3>1. /\ new \in Seq(Env) /\ Len(new) = Len(envs)
          /\ \A j \in 1..Len(envs) : new[j] = IF j = e THEN g ELSE envs[j]
      BY <1>1, <2>4, <2>5, ExceptSeq
    <3> QED
      BY <1>1, <3>1
  <2> QED
    BY <1>3, <2>3, <2>5, <2>6 DEF new
<1> QED
  BY <1>2, <1>3

-----------------------------------------------------------------------------
(* The invariant, step by step: a value written.                             *)
LEMMA InvWritten ==
    ASSUME Inv, NEW at, IsPlace(at), NEW v \in Val, envs' = WithValueAt(at, v),
           UNCHANGED <<program, syms, table>>
    PROVE  Inv'
<1> DEFINE e == at[1]
<1>1. /\ envs' \in Seq(Env) /\ DOMAIN envs' = DOMAIN envs
      /\ \A i \in DOMAIN envs : i # e => envs'[i] = envs[i]
      /\ envs'[e].kind = envs[e].kind /\ envs'[e].parent = envs[e].parent
      /\ IsTree(e) => /\ Rewritten(envs[e].tree, envs'[e].tree, at[2], v)
                      /\ envs'[e].cells = envs[e].cells
      /\ ~IsTree(e) => /\ Rewritten(envs[e].cells, envs'[e].cells, at[2], v)
                       /\ envs'[e].tree = envs[e].tree
  BY ValueWritten
<1>2. e \in DOMAIN envs /\ EnvOK(syms, e, envs[e]) /\ syms \in Seq(Symbols)
  BY DEF IsPlace, Inv, Envs
<1>3. envs'[e] \in Env
  BY <1>1, <1>2
<1>4. EnvOK(syms, e, envs'[e])
  <2>1. IsTree(e) <=> envs[e].kind # "frame"
    BY <1>2 DEF EnvOK, Env, IsTree, IsRoot
  <2>2. CASE IsTree(e)
    <3>1. envs[e].tree \in Seq(Node) /\ envs'[e].tree \in Seq(Node)
      BY <1>2, <1>3 DEF EnvOK, Env
    <3>2. Tree(syms, envs'[e].tree) /\ OfOneKey(envs'[e].tree)
      BY <1>1, <1>2, <2>2, <3>1, RewrittenTree DEF EnvOK
    <3> QED
      BY <1>1, <1>2, <1>3, <2>1, <2>2, <3>2 DEF EnvOK
  <2>3. CASE ~IsTree(e)
    <3>1. envs[e].cells \in Seq(Cell) /\ envs'[e].cells \in Seq(Cell)
      BY <1>2, <1>3 DEF EnvOK, Env
    <3>2. ASSUME NEW i \in DOMAIN envs[e].cells
          PROVE  envs'[e].cells[i].key = envs[e].cells[i].key
      <4>1. envs[e].cells[i] \in Cell
        BY <3>1
      <4> QED
        BY <1>1, <2>3, <4>1 DEF Rewritten, Cell
    <3>3. \A i \in DOMAIN envs'[e].cells : envs'[e].cells[i].key \in DOMAIN syms
      BY <1>1, <1>2, <2>3, <3>2 DEF Rewritten, EnvOK
    <3> QED
      BY <1>1, <1>2, <1>3, <2>1, <2>3, <3>3 DEF EnvOK
  <2> QED
    BY <2>2, <2>3
<1>5. \A i \in DOMAIN envs' : EnvOK(syms', i, envs'[i])
  BY <1>1, <1>4 DEF Inv, Envs
<1> QED
  BY <1>1, <1>5 DEF Inv, Envs, Tables, Tabled

(* An environment made, of cells and trees whose keys are symbols.           *)
LEMMA InvMade ==
    ASSUME Inv, NEW f, EnvOK(syms, Len(envs) + 1, f), Made(f), UNCHANGED program
    PROVE  Inv'
<1>1. f \in Env /\ envs \in Seq(Env) /\ envs' = Append(envs, f) /\ UNCHANGED <<syms, table>>
  BY DEF EnvOK, Inv, Made
<1>2. /\ envs' \in Seq(Env) /\ Len(envs') = Len(envs) + 1
      /\ \A i \in 1..Len(envs) : envs'[i] = envs[i]
      /\ envs'[Len(envs) + 1] = f
  BY <1>1, AppendProperties
<1>3. DOMAIN envs' = 1..(Len(envs) + 1) /\ Len(envs) \in Nat /\ DOMAIN envs = 1..Len(envs)
  BY <1>1, <1>2
<1>4. ASSUME NEW i \in DOMAIN envs' PROVE EnvOK(syms', i, envs'[i])
  <2>1. CASE i = Len(envs) + 1
    BY <1>1, <1>2, <2>1
  <2>2. CASE i \in DOMAIN envs
    BY <1>1, <1>2, <1>3, <2>2 DEF Inv, Envs
  <2> QED
    BY <1>3, <2>1, <2>2
<1> QED
  BY <1>1, <1>2, <1>4 DEF Inv, Envs, Tables, Tabled

(* The cells of a call.                                                      *)
RestVal(ps, vs) == IF Len(ps) < Len(vs) THEN SubSeq(vs, Len(ps) + 1, Len(vs)) ELSE Nil
First(rest)     == IF rest = 0 THEN 0 ELSE 1
IsCallCells(cs, ps, rest, vs) ==
    /\ cs \in Seq(Cell) /\ Len(cs) = Len(ps) + First(rest) /\ Len(ps) \in Nat
    /\ DOMAIN ps = 1..Len(ps) /\ DOMAIN vs = 1..Len(vs) /\ Len(vs) \in Nat
    /\ rest # 0 => cs[1].key = rest /\ cs[1].val = RestVal(ps, vs)
    /\ \A i \in 1..Len(ps) :
          /\ cs[i + First(rest)].key = ps[Len(ps) + 1 - i]
          /\ cs[i + First(rest)].val = IF Len(ps) + 1 - i <= Len(vs)
                                       THEN vs[Len(ps) + 1 - i] ELSE Nil

LEMMA CellsForFacts ==
    ASSUME Inv, NEW ps \in Params, NEW rest \in {0} \cup DOMAIN syms, NEW vs \in Args,
           \A i \in DOMAIN ps : ps[i] \in DOMAIN syms
    PROVE  IsCallCells(CellsFor(ps, rest, vs), ps, rest, vs)
<1> DEFINE one == IF rest = 0 THEN <<>>
                  ELSE <<[key |-> rest, val |-> RestVal(ps, vs)]>>
           two == [i \in 1..Len(ps) |->
                     LET p == Len(ps) + 1 - i IN
                     [key |-> ps[p], val |-> IF p <= Len(vs) THEN vs[p] ELSE Nil]]
           r   == First(rest)
           cs  == CellsFor(ps, rest, vs)
<1>1. ps \in Seq(Nat) /\ Len(ps) \in Nat /\ DOMAIN ps = 1..Len(ps)
  BY ScopesAssumption
<1>2. vs \in Seq(Arg) /\ Len(vs) \in Nat /\ DOMAIN vs = 1..Len(vs)
  <2>1. vs \in Seq({vs[i] : i \in DOMAIN vs})
    BY ScopesAssumption
  <2>2. {vs[i] : i \in DOMAIN vs} \subseteq Arg
    BY DEF Arg
  <2> QED
    BY <2>1, <2>2
<1>3. ASSUME NEW p \in 1..Len(ps) PROVE (IF p <= Len(vs) THEN vs[p] ELSE Nil) \in Val
  BY <1>1, <1>2 DEF Val
<1>4. syms \in Seq(Symbols) /\ DOMAIN syms \subseteq Nat
  BY DEF Inv
<1>5. two \in Seq(Cell) /\ Len(two) = Len(ps)
  <2>1. ASSUME NEW i \in 1..Len(ps) PROVE two[i] \in Cell
    <3>1. Len(ps) + 1 - i \in 1..Len(ps)
      BY <1>1
    <3>2. ps[Len(ps) + 1 - i] \in Nat
      BY <1>1, <3>1
    <3> QED
      BY <1>3, <3>1, <3>2 DEF Cell
  <2>2. two \in [1..Len(ps) -> Cell]
    <3> HIDE DEF two
    <3>1. two = [i \in 1..Len(ps) |-> two[i]]
      BY DEF two
    <3> QED
      BY <2>1, <3>1
  <2> HIDE DEF two
  <2> QED
    BY <1>1, <2>2
<1>6. RestVal(ps, vs) \in Val
  <2>1. SubSeq(vs, Len(ps) + 1, Len(vs)) \in Seq(Arg)
    <3>1. \A i \in Len(ps) + 1 .. Len(vs) : vs[i] \in Arg
      BY <1>1, <1>2
    <3> QED
      BY <1>1, <1>2, <3>1
  <2> QED
    BY <2>1 DEF Val, RestVal
<1>7. one \in Seq(Cell) /\ Len(one) = r
  <2>1. CASE rest = 0
    BY <2>1 DEF First
  <2>2. CASE rest # 0
    <3>1. rest \in Nat
      BY <1>4
    <3>2. [key |-> rest, val |-> RestVal(ps, vs)] \in Cell
      BY <1>6, <3>1 DEF Cell
    <3> QED
      BY <2>2, <3>2 DEF First
  <2> QED
    BY <2>1, <2>2
<1>8. cs = one \o two
  BY DEF CellsFor, RestVal
<1>9. rest # 0 => one[1].key = rest /\ one[1].val = RestVal(ps, vs)
  OBVIOUS
<1>10. \A i \in 1..Len(ps) :
          /\ two[i].key = ps[Len(ps) + 1 - i]
          /\ two[i].val = IF Len(ps) + 1 - i <= Len(vs) THEN vs[Len(ps) + 1 - i] ELSE Nil
  OBVIOUS
<1> HIDE DEF one, two, cs
<1>11. r \in {0, 1} /\ (rest # 0 => r = 1)
  BY DEF First
<1> HIDE DEF r
<1>12. /\ cs \in Seq(Cell) /\ Len(cs) = r + Len(ps)
       /\ \A i \in 1..r : cs[i] = one[i]
       /\ \A i \in 1..Len(ps) : cs[i + r] = two[i]
  <2>1. /\ one \o two \in Seq(Cell) /\ Len(one \o two) = Len(one) + Len(two)
        /\ \A i \in 1..Len(one) + Len(two) :
              (one \o two)[i] = IF i <= Len(one) THEN one[i] ELSE two[i - Len(one)]
    BY <1>5, <1>7, ConcatProperties
  <2>2. ASSUME NEW i \in 1..Len(ps) PROVE cs[i + r] = two[i]
    <3>1. i + r \in 1..Len(one) + Len(two) /\ ~(i + r <= Len(one)) /\ (i + r) - Len(one) = i
      BY <1>1, <1>5, <1>7, <1>11
    <3> QED
      BY <1>8, <2>1, <3>1
  <2>3. ASSUME NEW i \in 1..r PROVE cs[i] = one[i]
    <3>1. i \in 1..Len(one) + Len(two) /\ i <= Len(one)
      BY <1>1, <1>5, <1>7, <1>11
    <3> QED
      BY <1>8, <2>1, <3>1
  <2> QED
    BY <1>5, <1>7, <1>8, <2>1, <2>2, <2>3
<1>13. rest # 0 => cs[1].key = rest /\ cs[1].val = RestVal(ps, vs)
  BY <1>9, <1>11, <1>12
<1>14. ASSUME NEW i \in 1..Len(ps)
       PROVE  /\ cs[i + r].key = ps[Len(ps) + 1 - i]
              /\ cs[i + r].val = IF Len(ps) + 1 - i <= Len(vs) THEN vs[Len(ps) + 1 - i] ELSE Nil
  BY <1>10, <1>12
<1>15. Len(cs) = Len(ps) + r
  BY <1>1, <1>11, <1>12
<1> QED
  BY <1>1, <1>2, <1>12, <1>13, <1>14, <1>15 DEF cs, r, IsCallCells

(* A symbol made.                                                            *)
LEMMA InvIntern ==
    ASSUME Inv, UNCHANGED program, NEW b \in Bases, NEW s \in Spellings, Intern(b, s)
    PROVE  Inv'
<1> DEFINE sym == [base |-> b, name |-> s]
           k == Len(syms) + 1
           t == table[b]
           u == Attached(t, k, s, Nil)
<1>1. /\ syms \in Seq(Symbols) /\ sym \in Symbols /\ DOMAIN syms = 1..Len(syms)
      /\ Len(syms) \in Nat /\ syms' = Append(syms, sym)
  BY DEF Inv, Symbols, Intern
<1>2. /\ syms' \in Seq(Symbols) /\ Len(syms') = k /\ \A j \in DOMAIN syms : syms'[j] = syms[j]
      /\ syms'[k] = sym
  <2> HIDE DEF sym
  <2> QED
    BY <1>1, AppendProperties
<1>3. Grown(syms, syms') /\ DOMAIN syms' = 1..k /\ k \in DOMAIN syms' /\ k \notin DOMAIN syms
  BY <1>1, <1>2 DEF Grown
<1>4. /\ Tree(syms, t) /\ OfOneName(syms, t) /\ \A n \in DOMAIN t : syms[t[n].key].base = b
      /\ DOMAIN t = 1..Len(t) /\ Len(t) \in Nat
  BY DEF Inv, Tables, TableOK, Tree
<1>5. table' = [table EXCEPT ![b] = u] /\ UNCHANGED envs /\ Named(t, s) = 0
  BY DEF Intern
<1>6. Nil \in Val
  BY DEF Val
<1>7. syms'[k].name = s /\ syms'[k].base = b
  BY <1>2
<1> HIDE DEF sym, k, t
<1>8. /\ Tree(syms', u) /\ Len(u) = Len(t) + 1 /\ DOMAIN u = 1..(Len(t) + 1)
      /\ u[Len(t) + 1].key = k
      /\ \A n \in DOMAIN t : u[n].key = t[n].key
  <2>1. LET w == Attached(t, k, syms'[k].name, Nil) IN
           /\ Tree(syms', w) /\ Len(w) = Len(t) + 1 /\ DOMAIN w = 1..(Len(t) + 1)
           /\ w[Len(t) + 1].key = k /\ w[Len(t) + 1].val = Nil
           /\ \A n \in DOMAIN t : w[n].key = t[n].key /\ w[n].val = t[n].val
    BY <1>3, <1>4, <1>6, AttachedIsTree
  <2> QED
    BY <1>7, <2>1
<1> HIDE DEF u
<1>9. \A n \in DOMAIN t : t[n].key \in DOMAIN syms /\ syms'[t[n].key] = syms[t[n].key]
  BY <1>2, <1>4 DEF Tree, Keyed
<1>10. \A n \in DOMAIN t : syms[t[n].key].name # s
  <2>1. ASSUME NEW n \in DOMAIN t, syms[t[n].key].name = s PROVE FALSE
    <3>1. Named(t, s) = n
      BY <1>1, <1>4, <2>1, NamedFinds DEF Name
    <3> QED
      BY <1>4, <1>5, <3>1
  <2> QED
    BY <2>1
<1>11. TableOK(syms', u, b)
  <2>1. ASSUME NEW m \in DOMAIN u, NEW n \in DOMAIN u,
               syms'[u[m].key].name = syms'[u[n].key].name
        PROVE  m = n
    <3>1. CASE m \in DOMAIN t /\ n \in DOMAIN t
      BY <1>4, <1>8, <1>9, <2>1, <3>1 DEF OfOneName
    <3>2. CASE m \in DOMAIN t /\ n = Len(t) + 1
      BY <1>7, <1>8, <1>9, <1>10, <2>1, <3>2
    <3>3. CASE n \in DOMAIN t /\ m = Len(t) + 1
      BY <1>7, <1>8, <1>9, <1>10, <2>1, <3>3
    <3> QED
      BY <1>4, <1>8, <3>1, <3>2, <3>3
  <2>2. ASSUME NEW n \in DOMAIN u PROVE syms'[u[n].key].base = b
    <3>1. CASE n \in DOMAIN t
      BY <1>4, <1>8, <1>9, <3>1
    <3>2. CASE n = Len(t) + 1
      BY <1>7, <1>8, <3>2
    <3> QED
      BY <1>4, <1>8, <3>1, <3>2
  <2> QED
    BY <1>8, <2>1, <2>2 DEF TableOK, OfOneName
<1>12. table' \in [Bases -> Seq(Node)] /\ table'[b] = u
  BY <1>5, <1>8 DEF Inv, Tree
<1>13. ASSUME NEW c \in Bases PROVE TableOK(syms', table'[c], c)
  <2>1. CASE c = b
    BY <1>11, <1>12, <2>1
  <2>2. CASE c # b
    <3> DEFINE w == table[c]
    <3>1. TableOK(syms, w, c) /\ table'[c] = w
      BY <1>5, <2>2 DEF Inv, Tables
    <3> HIDE DEF w
    <3>2. Tree(syms', w) /\ \A n \in DOMAIN w : syms'[w[n].key].name = syms[w[n].key].name
      BY <1>3, <3>1, TreeStays DEF TableOK
    <3>3. \A n \in DOMAIN w : syms'[w[n].key] = syms[w[n].key]
      BY <1>2, <3>1 DEF TableOK, Tree, Keyed
    <3> QED
      BY <3>1, <3>2, <3>3 DEF TableOK, OfOneName
  <2> QED
    BY <2>1, <2>2
<1>14. ASSUME NEW j \in DOMAIN syms'
       PROVE  \E n \in DOMAIN table'[syms'[j].base] : table'[syms'[j].base][n].key = j
  <2>1. CASE j = k
    BY <1>4, <1>7, <1>8, <1>12, <2>1
  <2>2. CASE j \in DOMAIN syms
    <3>1. syms'[j] = syms[j] /\ syms[j].base \in Bases
      <4>1. syms[j] \in Symbols
        BY <1>1, <2>2
      <4> QED
        BY <1>2, <2>2, <4>1 DEF Symbols
    <3>2. PICK n \in DOMAIN table[syms[j].base] : table[syms[j].base][n].key = j
      BY <2>2 DEF Inv, Tabled
    <3>3. CASE syms[j].base = b
      <4>1. n \in DOMAIN t /\ t[n].key = j
        BY <3>2, <3>3 DEF t
      <4>2. n \in DOMAIN u /\ u[n].key = j
        BY <1>4, <1>8, <4>1
      <4> QED
        BY <1>12, <3>1, <3>3, <4>2
    <3>4. CASE syms[j].base # b
      <4>1. table'[syms[j].base] = table[syms[j].base]
        BY <1>5, <3>1, <3>4 DEF Inv
      <4> QED
        BY <3>1, <3>2, <4>1
    <3> QED
      BY <3>3, <3>4
  <2>3. j = k \/ j \in DOMAIN syms
    <3>1. j \in 1..k /\ k = Len(syms) + 1
      BY <1>3 DEF k
    <3> QED
      BY <1>1, <3>1
  <2> QED
    BY <2>1, <2>2, <2>3
<1>15. ASSUME NEW e \in DOMAIN envs PROVE EnvOK(syms', e, envs[e])
  <2>1. EnvOK(syms, e, envs[e])
    BY DEF Inv, Envs
  <2>2. Tree(syms', envs[e].tree)
    BY <1>3, <2>1, TreeStays DEF EnvOK
  <2>3. DOMAIN syms \subseteq DOMAIN syms'
    BY <1>1, <1>3 DEF k
  <2> QED
    BY <2>1, <2>2, <2>3 DEF EnvOK
<1> QED
  BY <1>2, <1>5, <1>12, <1>13, <1>14, <1>15 DEF Inv, Tables, Tabled, Envs

(* A call's environment, and a module's.                                     *)
LEMMA InvExtend ==
    ASSUME Inv, UNCHANGED program, NEW e \in DOMAIN envs, NEW ps \in Params,
           NEW rest \in {0} \cup DOMAIN syms, NEW vs \in Args, Extend(e, ps, rest, vs)
    PROVE  Inv'
<1> DEFINE cs == CellsFor(ps, rest, vs)
           f == Frame(e, cs)
<1>1. \A i \in DOMAIN ps : ps[i] \in DOMAIN syms
  BY DEF Extend
<1>2. IsCallCells(cs, ps, rest, vs)
  BY <1>1, CellsForFacts
<1>3. e \in Nat /\ e < Len(envs) + 1 /\ e # 0
  <2>1. DOMAIN envs = 1..Len(envs) /\ Len(envs) \in Nat
    BY DEF Inv
  <2> QED
    BY <2>1
<1> HIDE DEF cs
<1>4. \A i \in DOMAIN cs : cs[i].key \in DOMAIN syms
  <2>1. ASSUME NEW i \in DOMAIN cs PROVE cs[i].key \in DOMAIN syms
    <3>1. i \in 1..(Len(ps) + First(rest)) /\ Len(ps) \in Nat /\ DOMAIN ps = 1..Len(ps)
      BY <1>2 DEF IsCallCells
    <3>2. CASE rest # 0 /\ i = 1
      BY <1>2, <3>2 DEF IsCallCells
    <3>3. CASE ~(rest # 0 /\ i = 1)
      <4>1. i - First(rest) \in 1..Len(ps) /\ i = (i - First(rest)) + First(rest)
        BY <3>1, <3>3 DEF First
      <4>2. cs[i].key = ps[Len(ps) + 1 - (i - First(rest))]
        BY <1>2, <4>1 DEF IsCallCells
      <4>3. Len(ps) + 1 - (i - First(rest)) \in DOMAIN ps
        BY <3>1, <4>1
      <4> QED
        BY <1>1, <4>2, <4>3
    <3> QED
      BY <3>2, <3>3
  <2> QED
    BY <2>1
<1>5. /\ f.kind = "frame" /\ f.parent = e /\ f.cells = cs /\ f.tree = <<>>
      /\ f \in Env
  BY <1>2, <1>3 DEF Frame, Env, IsCallCells
<1>6. Made(f)
  BY DEF Extend, cs
<1> HIDE DEF f
<1>7. EnvOK(syms, Len(envs) + 1, f)
  BY <1>3, <1>4, <1>5, EmptyTree DEF EnvOK
<1> QED
  BY <1>6, <1>7, InvMade

LEMMA InvMakeModule ==
    ASSUME Inv, UNCHANGED program, NEW e \in DOMAIN envs, MakeModule(e)
    PROVE  Inv'
<1> DEFINE f == Scope(e)
<1>1. e \in Nat /\ e < Len(envs) + 1 /\ e # 0
  <2>1. DOMAIN envs = 1..Len(envs) /\ Len(envs) \in Nat
    BY DEF Inv
  <2> QED
    BY <2>1
<1>2. /\ f.kind = "module" /\ f.parent = e /\ f.cells = <<>> /\ f.tree = <<>>
      /\ f \in Env
  BY <1>1 DEF Scope, Env
<1>3. Made(f)
  BY DEF MakeModule
<1> HIDE DEF f
<1>4. EnvOK(syms, Len(envs) + 1, f)
  BY <1>1, <1>2, EmptyTree DEF EnvOK
<1> QED
  BY <1>3, <1>4, InvMade

(* An environment in the place of another.                                   *)
LEMMA InvReplaced ==
    ASSUME Inv, UNCHANGED <<program, syms, table>>, NEW e \in DOMAIN envs, NEW g,
           EnvOK(syms, e, g), envs' = [envs EXCEPT ![e] = g]
    PROVE  Inv'
<1>1. envs \in Seq(Env) /\ g \in Env /\ DOMAIN envs = 1..Len(envs)
  BY DEF Inv, EnvOK
<1>2. envs' \in Seq(Env) /\ Len(envs') = Len(envs)
      /\ \A i \in 1..Len(envs) : envs'[i] = IF i = e THEN g ELSE envs[i]
  BY <1>1, ExceptSeq
<1>3. DOMAIN envs' = DOMAIN envs
  BY <1>1, <1>2
<1>4. ASSUME NEW i \in DOMAIN envs' PROVE EnvOK(syms', i, envs'[i])
  <2>1. EnvOK(syms, i, envs[i])
    BY <1>3 DEF Inv, Envs
  <2> QED
    BY <1>1, <1>2, <1>3, <2>1
<1> QED
  BY <1>2, <1>4 DEF Inv, Tables, Tabled, Envs

(* What a binding not there before makes of its environment: an entry added  *)
(* after a tree's others, or in front of a list's.                           *)
WithTree(f, t)   == [f EXCEPT !.tree = t]
WithCells(f, cs) == [f EXCEPT !.cells = cs]
InFront(cs, k, v) == <<[key |-> k, val |-> v]>> \o cs

IsAdded(t, u, k, v) ==
    /\ Len(u) = Len(t) + 1 /\ DOMAIN u = 1..(Len(t) + 1)
    /\ u[Len(t) + 1].key = k /\ u[Len(t) + 1].val = v
    /\ \A n \in DOMAIN t : u[n].key = t[n].key /\ u[n].val = t[n].val
IsInFront(cs, ds, k, v) ==
    /\ Len(ds) = Len(cs) + 1 /\ DOMAIN ds = 1..(Len(cs) + 1)
    /\ ds[1].key = k /\ ds[1].val = v
    /\ \A n \in DOMAIN cs : ds[n + 1] = cs[n]

LEMMA BoundInTree ==
    ASSUME Inv, NEW e \in DOMAIN envs, IsTree(e), NEW k \in DOMAIN syms, NEW v \in Val,
           Within(e, k) = 0
    PROVE  LET u == Attached(envs[e].tree, k, Name(k), v)
           IN EnvOK(syms, e, WithTree(envs[e], u)) /\ IsAdded(envs[e].tree, u, k, v)
<1> DEFINE t == envs[e].tree
           u == Attached(t, k, Name(k), v)
           f == envs[e]
           g == [f EXCEPT !.tree = u]
<1>1. /\ EnvOK(syms, e, f) /\ Tree(syms, t) /\ OfOneKey(t) /\ Grown(syms, syms)
      /\ DOMAIN t = 1..Len(t) /\ Len(t) \in Nat
  BY DEF Inv, Envs, EnvOK, Grown, Tree
<1>2. f.kind # "frame"
  BY <1>1 DEF EnvOK, Env, IsTree, IsRoot
<1>3. \A n \in DOMAIN t : t[n].key # k
  BY WithinFinds DEF Entries
<1>4. /\ Tree(syms, u) /\ Len(u) = Len(t) + 1 /\ DOMAIN u = 1..(Len(t) + 1)
      /\ u[Len(t) + 1].key = k /\ u[Len(t) + 1].val = v
      /\ \A n \in DOMAIN t : u[n].key = t[n].key /\ u[n].val = t[n].val
  <2> DEFINE new == syms
  <2>1. Grown(syms, new) /\ k \in DOMAIN new
    BY <1>1
  <2>3. Tree(syms, t)
    BY <1>1
  <2> HIDE DEF t, u, f, g, new
  <2>2. LET w == Attached(t, k, new[k].name, v) IN
           /\ Tree(new, w) /\ Len(w) = Len(t) + 1 /\ DOMAIN w = 1..(Len(t) + 1)
           /\ w[Len(t) + 1].key = k /\ w[Len(t) + 1].val = v
           /\ \A n \in DOMAIN t : w[n].key = t[n].key /\ w[n].val = t[n].val
    BY <2>1, <2>3, AttachedIsTree
  <2> QED
    BY <2>2 DEF Name, new, u
<1> HIDE DEF u, t
<1>5. OfOneKey(u)
  <2>1. ASSUME NEW m \in DOMAIN u, NEW n \in DOMAIN u, u[m].key = u[n].key PROVE m = n
    <3>1. CASE m \in DOMAIN t /\ n \in DOMAIN t
      BY <1>1, <1>4, <2>1, <3>1 DEF OfOneKey
    <3>2. CASE m \in DOMAIN t /\ n = Len(t) + 1
      BY <1>3, <1>4, <2>1, <3>2 DEF t
    <3>3. CASE n \in DOMAIN t /\ m = Len(t) + 1
      BY <1>3, <1>4, <2>1, <3>3 DEF t
    <3> QED
      BY <1>1, <1>4, <3>1, <3>2, <3>3
  <2> QED
    BY <2>1 DEF OfOneKey
<1>6. /\ g.kind = f.kind /\ g.parent = f.parent /\ g.cells = f.cells /\ g.tree = u /\ g \in Env
  BY <1>1, <1>4 DEF EnvOK, Env, Tree
<1> HIDE DEF g
<1>7. EnvOK(syms, e, g)
  BY <1>1, <1>2, <1>4, <1>5, <1>6 DEF EnvOK
<1> QED
  BY <1>4, <1>7 DEF g, u, t, WithTree, IsAdded

LEMMA BoundInFront ==
    ASSUME Inv, NEW e \in DOMAIN envs, ~IsTree(e), NEW k \in DOMAIN syms, NEW v \in Val
    PROVE  LET ds == InFront(envs[e].cells, k, v)
           IN EnvOK(syms, e, WithCells(envs[e], ds)) /\ IsInFront(envs[e].cells, ds, k, v)
<1> DEFINE cs == envs[e].cells
           c == [key |-> k, val |-> v]
           ds == <<c>> \o cs
           f == envs[e]
           g == [f EXCEPT !.cells = ds]
<1>1. /\ EnvOK(syms, e, f) /\ cs \in Seq(Cell) /\ DOMAIN cs = 1..Len(cs) /\ Len(cs) \in Nat
      /\ DOMAIN syms \subseteq Nat
  <2>1. EnvOK(syms, e, f) /\ syms \in Seq(Symbols)
    BY DEF Inv, Envs
  <2>2. cs \in Seq(Cell)
    BY <2>1 DEF EnvOK, Env
  <2> HIDE DEF cs, f
  <2> QED
    BY <2>1, <2>2
<1>2. f.kind = "frame"
  BY <1>1 DEF EnvOK, Env, IsTree, IsRoot
<1>3. c \in Cell /\ c.key = k /\ c.val = v
  BY <1>1 DEF Cell
<1> HIDE DEF c, cs
<1>4. /\ ds \in Seq(Cell) /\ Len(ds) = Len(cs) + 1 /\ DOMAIN ds = 1..(Len(cs) + 1)
      /\ ds[1] = c /\ \A n \in DOMAIN cs : ds[n + 1] = cs[n]
  <2>1. <<c>> \in Seq(Cell) /\ Len(<<c>>) = 1 /\ <<c>>[1] = c
    BY <1>3
  <2> DEFINE one == <<c>>
  <2> HIDE DEF one
  <2>2. /\ one \o cs \in Seq(Cell) /\ Len(one \o cs) = Len(one) + Len(cs)
        /\ \A i \in 1..Len(one) + Len(cs) :
              (one \o cs)[i] = IF i <= Len(one) THEN one[i] ELSE cs[i - Len(one)]
    BY <1>1, <2>1, ConcatProperties DEF one
  <2>3. ds = one \o cs /\ Len(one) = 1 /\ one[1] = c
    BY <2>1 DEF one
  <2> HIDE DEF ds
  <2>4. ds \in Seq(Cell) /\ Len(ds) = 1 + Len(cs) /\ DOMAIN ds = 1..(Len(cs) + 1)
    BY <1>1, <2>2, <2>3
  <2>5. ds[1] = c
    BY <1>1, <2>2, <2>3
  <2>6. ASSUME NEW n \in DOMAIN cs PROVE ds[n + 1] = cs[n]
    <3>1. n + 1 \in 1..1 + Len(cs) /\ ~(n + 1 <= 1) /\ (n + 1) - 1 = n
      BY <1>1
    <3> QED
      BY <2>2, <2>3, <3>1
  <2> QED
    BY <1>1, <2>4, <2>5, <2>6
<1> HIDE DEF ds
<1>5. \A i \in DOMAIN ds : ds[i].key \in DOMAIN syms
  <2>1. ASSUME NEW i \in DOMAIN ds PROVE ds[i].key \in DOMAIN syms
    <3>1. CASE i = 1
      BY <1>3, <1>4, <3>1
    <3>2. CASE i # 1
      <4>1. i - 1 \in DOMAIN cs /\ i = (i - 1) + 1
        BY <1>1, <1>4, <3>2
      <4>2. ds[i] = cs[i - 1]
        BY <1>4, <4>1
      <4> QED
        BY <1>1, <4>1, <4>2 DEF EnvOK, cs
    <3> QED
      BY <3>1, <3>2
  <2> QED
    BY <2>1
<1>6. /\ g.kind = f.kind /\ g.parent = f.parent /\ g.cells = ds /\ g.tree = f.tree /\ g \in Env
  BY <1>1, <1>4 DEF EnvOK, Env
<1> HIDE DEF g
<1>7. EnvOK(syms, e, g)
  BY <1>1, <1>2, <1>5, <1>6 DEF EnvOK
<1> QED
  BY <1>3, <1>4, <1>7 DEF g, ds, c, cs, WithCells, InFront, IsInFront

LEMMA InvBind ==
    ASSUME Inv, UNCHANGED program, NEW e \in DOMAIN envs, NEW k \in DOMAIN syms, NEW v \in Atoms,
           Bind(e, k, v)
    PROVE  Inv'
<1>1. UNCHANGED <<program, syms, table>> /\ v \in Val
  BY DEF Bind, Val
<1>2. CASE Within(e, k) # 0
  <2> DEFINE at == <<e, Within(e, k)>>
  <2>1. envs' = WithValueAt(at, v)
    BY <1>2 DEF Bind
  <2>2. IsPlace(at)
    BY <1>2, WithinFinds DEF IsPlace
  <2> HIDE DEF at
  <2> QED
    BY <1>1, <2>1, <2>2, InvWritten
<1>3. CASE Within(e, k) = 0 /\ IsTree(e)
  <2> DEFINE g == WithTree(envs[e], Attached(envs[e].tree, k, Name(k), v))
  <2>1. envs' = [envs EXCEPT ![e] = g]
    BY <1>3 DEF Bind, WithTree
  <2>2. EnvOK(syms, e, g)
    BY <1>1, <1>3, BoundInTree
  <2> HIDE DEF g
  <2> QED
    BY <1>1, <2>1, <2>2, InvReplaced
<1>4. CASE Within(e, k) = 0 /\ ~IsTree(e)
  <2> DEFINE g == WithCells(envs[e], InFront(envs[e].cells, k, v))
  <2>1. envs' = [envs EXCEPT ![e] = g]
    BY <1>4 DEF Bind, WithCells, InFront
  <2>2. EnvOK(syms, e, g)
    BY <1>1, <1>4, BoundInFront
  <2> HIDE DEF g
  <2> QED
    BY <1>1, <2>1, <2>2, InvReplaced
<1> QED
  BY <1>2, <1>3, <1>4

(* An assignment.                                                            *)
LEMMA InvSet ==
    ASSUME Inv, UNCHANGED program, NEW b, NEW e \in DOMAIN envs, NEW k, NEW v \in Atoms,
           Set(b, e, k, v)
    PROVE  Inv'
<1> DEFINE at == Lookup(b, e, k)
<1>1. UNCHANGED <<program, syms, table>> /\ v \in Val
  BY DEF Set, Val
<1>2. CASE Found(at)
  <2>1. envs' = WithValueAt(at, v)
    BY <1>2 DEF Set
  <2>2. IsPlace(at)
    <3>1. at = Nowhere \/ IsPlace(at)
      BY LookupFinds
    <3> QED
      BY <1>2, <3>1 DEF Found, Nowhere
  <2> HIDE DEF at
  <2> QED
    BY <1>1, <2>1, <2>2, InvWritten
<1>3. CASE ~Found(at)
  <2>1. UNCHANGED envs
    BY <1>3 DEF Set
  <2> QED
    BY <1>1, <2>1 DEF Inv, Tables, Tabled, Envs
<1> QED
  BY <1>2, <1>3

(* A program's first environments are its bases' roots.                      *)
LEMMA InvInit == Init => Inv
<1> SUFFICES ASSUME Init PROVE Inv
  OBVIOUS
<1> DEFINE N == Cardinality(program.bases)
<1>1. N \in Nat
  <2>1. program.bases \subseteq Bases /\ IsFiniteSet(Bases)
    BY ScopesAssumption DEF Init
  <2>2. IsFiniteSet(program.bases)
    BY <2>1, FS_Subset
  <2> QED
    BY <2>2, FS_CardinalityType
<1>2. program \in Programs /\ syms = <<>> /\ table = [b \in Bases |-> <<>>]
      /\ envs = [i \in 1..N |-> Root]
  BY DEF Init
<1> HIDE DEF N
<1>3. /\ Root \in Env /\ Root.kind = "root" /\ Root.parent = 0 /\ Root.cells = <<>>
      /\ Root.tree = <<>>
  BY DEF Root, Env
<1>4. envs \in Seq(Env) /\ DOMAIN envs = 1..N /\ \A i \in 1..N : envs[i] = Root
  <2>1. envs \in [1..N -> Env]
    BY <1>2, <1>3
  <2> QED
    BY <1>1, <1>2, <2>1
<1>5. ASSUME NEW i \in DOMAIN envs PROVE EnvOK(syms, i, envs[i])
  BY <1>1, <1>3, <1>4, EmptyTree DEF EnvOK
<1>6. ASSUME NEW b \in Bases PROVE TableOK(syms, table[b], b)
  <2>1. table[b] = <<>>
    BY <1>2
  <2> QED
    BY <2>1, EmptyTree DEF TableOK
<1> QED
  BY <1>2, <1>4, <1>5, <1>6 DEF Inv, Tables, Tabled, Envs

LEMMA InvNext == Inv /\ [Next]_vars => Inv'
<1> SUFFICES ASSUME Inv, [Next]_vars PROVE Inv'
  OBVIOUS
<1>1. CASE UNCHANGED vars
  BY <1>1 DEF vars, Inv, Tables, Tabled, Envs
<1>2. CASE Next
  <2>1. UNCHANGED program
    BY <1>2 DEF Next
  <2>2. /\ program.bases \subseteq Bases /\ program.names \subseteq Spellings
        /\ program.params \subseteq Params /\ program.args \subseteq Args
    BY ScopesAssumption DEF Inv
  <2>3. ASSUME NEW b \in program.bases, NEW s \in program.names, Intern(b, s)
        PROVE  Inv'
    BY <2>1, <2>2, <2>3, InvIntern
  <2>4. ASSUME NEW e \in DOMAIN envs, NEW ps \in program.params,
               NEW rest \in {0} \cup DOMAIN syms, NEW vs \in program.args,
               Extend(e, ps, rest, vs)
        PROVE  Inv'
    BY <2>1, <2>2, <2>4, InvExtend
  <2>5. ASSUME NEW e \in DOMAIN envs, MakeModule(e) PROVE Inv'
    BY <2>1, <2>5, InvMakeModule
  <2>6. ASSUME NEW e \in DOMAIN envs, NEW k \in DOMAIN syms, NEW v \in Atoms, Bind(e, k, v)
        PROVE  Inv'
    BY <2>1, <2>6, InvBind
  <2>7. ASSUME NEW e \in DOMAIN envs, NEW k \in DOMAIN syms, NEW b \in program.bases,
               Eval(b, e, k)
        PROVE  Inv'
    BY <2>1, <2>7 DEF Eval, Inv, Tables, Tabled, Envs
  <2>8. ASSUME NEW e \in DOMAIN envs, NEW k \in DOMAIN syms, NEW b \in program.bases,
               NEW v \in Atoms, Set(b, e, k, v)
        PROVE  Inv'
    BY <2>1, <2>8, InvSet
  <2> QED
    BY <1>2, <2>3, <2>4, <2>5, <2>6, <2>7, <2>8 DEF Next, Step
<1> QED
  BY <1>1, <1>2

(* The shape of what was made: intern trees of all a base's symbols and no   *)
(* spelling twice, environments of one binding to a symbol.                  *)
THEOREM KeptInShape == Spec => []Inv
<1>1. Init => Inv
  BY InvInit
<1>2. Inv /\ [Next]_vars => Inv'
  BY InvNext
<1> QED
  BY <1>1, <1>2, PTL DEF Spec

-----------------------------------------------------------------------------
(* Symbols of one base and spelling are one object: sym_bst_lookup finds the *)
(* one there is, so x_type_symbol_make never makes a second.                 *)
THEOREM SymbolsAreInternedOnce == Spec => []InternedOnce
<1>1. Inv => InternedOnce
  <2> SUFFICES ASSUME Inv, NEW j \in DOMAIN syms, NEW k \in DOMAIN syms, syms[j] = syms[k]
               PROVE  j = k
    BY DEF InternedOnce
  <2> DEFINE b == syms[j].base
             t == table[b]
  <2>1. b \in Bases
    <3>1. syms[j] \in Symbols
      BY DEF Inv
    <3> QED
      BY <3>1 DEF Symbols
  <2>2. OfOneName(syms, t)
    BY <2>1 DEF Inv, Tables, TableOK
  <2>3. PICK m \in DOMAIN t : t[m].key = j
    BY DEF Inv, Tabled
  <2>4. PICK n \in DOMAIN t : t[n].key = k
    BY DEF Inv, Tabled
  <2>5. m = n
    BY <2>2, <2>3, <2>4 DEF OfOneName
  <2> QED
    BY <2>3, <2>4, <2>5
<1> QED
  BY <1>1, KeptInShape, PTL

(* No insertion hides what was there: each node of an intern tree is what    *)
(* sym_bst_lookup finds for its spelling, each node of an environment's tree *)
(* what x_alist_bst_lookup finds for its symbol.                             *)
THEOREM NothingIsHidden == Spec => []FoundWhereFiled
<1>1. Inv => FoundWhereFiled
  <2> SUFFICES ASSUME Inv PROVE FoundWhereFiled
    OBVIOUS
  <2>1. syms \in Seq(Symbols)
    BY DEF Inv
  <2>2. ASSUME NEW b \in Bases, NEW n \in DOMAIN table[b]
        PROVE  Named(table[b], Name(table[b][n].key)) = n
    <3>1. Tree(syms, table[b]) /\ OfOneName(syms, table[b])
      BY DEF Inv, Tables, TableOK
    <3> DEFINE t == table[b]
               s == Name(t[n].key)
    <3>2. Name(t[n].key) = s /\ n \in DOMAIN t
      OBVIOUS
    <3>3. Tree(syms, t) /\ OfOneName(syms, t)
      BY <3>1
    <3> HIDE DEF t, s
    <3>4. Named(t, s) = n
      BY <2>1, <3>2, <3>3, NamedFinds
    <3> QED
      BY <3>4 DEF s, t
  <2>3. ASSUME NEW e \in DOMAIN envs, NEW n \in DOMAIN envs[e].tree
        PROVE  Filed(envs[e].tree, envs[e].tree[n].key) = n
    <3> DEFINE t == envs[e].tree
               k == t[n].key
    <3>1. Tree(syms, t) /\ OfOneKey(t)
      BY DEF Inv, Envs, EnvOK
    <3>2. t[n].key = k /\ n \in DOMAIN t
      OBVIOUS
    <3> HIDE DEF t, k
    <3>3. Filed(t, k) = n
      BY <2>1, <3>1, <3>2, FiledFinds
    <3> QED
      BY <3>3 DEF k, t
  <2> QED
    BY <2>2, <2>3 DEF FoundWhereFiled
<1> QED
  BY <1>1, KeptInShape, PTL

-----------------------------------------------------------------------------
(* What the entries of an environment map, without the search for them: each *)
(* symbol to the value of the first entry for it.                            *)
Keys(es)  == {es[i].key : i \in DOMAIN es}
Held(es)  == [k \in Keys(es) |-> es[CellOf(es, k)].val]
Listed(es) == DOMAIN es = 1..Len(es) /\ Len(es) \in Nat

LEMMA FirstCell ==
    ASSUME NEW es, Listed(es), NEW k
    PROVE  /\ k \notin Keys(es) => CellOf(es, k) = 0
           /\ k \in Keys(es) => /\ CellOf(es, k) \in DOMAIN es
                                /\ CellOf(es, k) # 0
                                /\ es[CellOf(es, k)].key = k
                                /\ \A i \in DOMAIN es : es[i].key = k => CellOf(es, k) <= i
           /\ \A n \in DOMAIN es :
                 es[n].key = k /\ (\A i \in DOMAIN es : es[i].key = k => n <= i)
                 => CellOf(es, k) = n
<1> DEFINE hits == {i \in DOMAIN es : es[i].key = k}
<1>1. hits \subseteq Nat /\ \A i \in hits : i # 0
  BY DEF Listed
<1>2. hits = {} <=> k \notin Keys(es)
  BY DEF Keys
<1>3. CASE hits = {}
  <2>1. CellOf(es, k) = 0
    BY <1>3 DEF CellOf
  <2> QED
    BY <1>2, <1>3, <2>1
<1>4. CASE hits # {}
  <2>1. \E i \in hits : \A j \in hits : i <= j
    <3> HIDE DEF hits
    <3> QED
      BY <1>1, <1>4, Least
  <2>2. CellOf(es, k) = CHOOSE i \in hits : \A j \in hits : i <= j
    BY <1>4 DEF CellOf
  <2>3. CellOf(es, k) \in hits /\ \A j \in hits : CellOf(es, k) <= j
    <3> HIDE DEF hits
    <3> QED
      BY <2>1, <2>2
  <2>4. ASSUME NEW n \in DOMAIN es, es[n].key = k, \A i \in DOMAIN es : es[i].key = k => n <= i
        PROVE  CellOf(es, k) = n
    <3> DEFINE c == CellOf(es, k)
    <3>1. n \in hits /\ c \in hits /\ n <= c /\ c <= n
      BY <2>3, <2>4
    <3> HIDE DEF c, hits
    <3>2. n \in Nat /\ c \in Nat
      BY <1>1, <3>1
    <3>3. c = n
      BY <3>1, <3>2
    <3> QED
      BY <3>3 DEF c
  <2> QED
    BY <1>1, <1>2, <1>4, <2>3, <2>4
<1> QED
  BY <1>3, <1>4

(* A value written over the first entry of a symbol.                         *)
LEMMA HeldWritten ==
    ASSUME NEW es, NEW new, NEW n \in DOMAIN es, NEW v, Listed(es),
           Rewritten(es, new, n, v), \A i \in DOMAIN es : es[i] \in Node \/ es[i] \in Cell,
           CellOf(es, es[n].key) = n
    PROVE  Held(new) = [Held(es) EXCEPT ![es[n].key] = v]
<1> DEFINE k == es[n].key
<1>1. DOMAIN new = DOMAIN es /\ Listed(new)
  BY DEF Rewritten, Listed
<1>2. ASSUME NEW i \in DOMAIN es
      PROVE  new[i].key = es[i].key /\ new[i].val = IF i = n THEN v ELSE es[i].val
  <2>1. CASE es[i] \in Node
    BY <2>1 DEF Rewritten, Node
  <2>2. CASE es[i] \in Cell
    BY <2>2 DEF Rewritten, Cell
  <2> QED
    BY <2>1, <2>2
<1>3. Keys(new) = Keys(es)
  BY <1>1, <1>2 DEF Keys
<1>4. ASSUME NEW j \in Keys(es) PROVE CellOf(new, j) = CellOf(es, j)
  <2> DEFINE c == CellOf(es, j)
  <2>1. /\ c \in DOMAIN es /\ es[c].key = j
        /\ \A i \in DOMAIN es : es[i].key = j => c <= i
    BY FirstCell
  <2> HIDE DEF c
  <2>2. c \in DOMAIN new /\ new[c].key = j /\ \A i \in DOMAIN new : new[i].key = j => c <= i
    BY <1>1, <1>2, <2>1
  <2>3. CellOf(new, j) = c
    BY <1>1, <2>2, FirstCell
  <2> QED
    BY <2>3 DEF c
<1>5. ASSUME NEW j \in Keys(es)
      PROVE  new[CellOf(new, j)].val = IF j = k THEN v ELSE es[CellOf(es, j)].val
  <2>1. CellOf(es, j) \in DOMAIN es /\ es[CellOf(es, j)].key = j
    BY FirstCell
  <2>2. CellOf(es, j) = n <=> j = k
    BY <2>1
  <2> QED
    BY <1>2, <1>4, <2>1, <2>2
<1>6. Held(new) = [j \in Keys(es) |-> IF j = k THEN v ELSE es[CellOf(es, j)].val]
  BY <1>3, <1>5 DEF Held
<1> HIDE DEF k
<1>7. [Held(es) EXCEPT ![k] = v] = [j \in Keys(es) |-> IF j = k THEN v ELSE es[CellOf(es, j)].val]
  BY DEF Held
<1> QED
  BY <1>6, <1>7 DEF k

(* An entry added after the others, for a symbol they have none for.         *)
LEMMA HeldAdded ==
    ASSUME NEW t, NEW u, NEW k, NEW v, Listed(t), k \notin Keys(t), IsAdded(t, u, k, v)
    PROVE  Held(u) = Map!With(Held(t), k, v)
<1>0. /\ Len(u) = Len(t) + 1 /\ DOMAIN u = 1..(Len(t) + 1)
      /\ u[Len(t) + 1].key = k /\ u[Len(t) + 1].val = v
      /\ \A n \in DOMAIN t : u[n].key = t[n].key /\ u[n].val = t[n].val
  BY DEF IsAdded
<1>1. /\ Listed(u) /\ DOMAIN t \subseteq DOMAIN u /\ Len(t) + 1 \in DOMAIN u
      /\ DOMAIN t = 1..Len(t) /\ Len(t) \in Nat
      /\ \A i \in DOMAIN u : i \in DOMAIN t \/ i = Len(t) + 1
  BY <1>0 DEF Listed
<1>2. Keys(u) = {k} \cup Keys(t)
  <2>1. ASSUME NEW i \in DOMAIN u PROVE u[i].key \in {k} \cup Keys(t)
    BY <1>0, <1>1 DEF Keys
  <2>2. ASSUME NEW i \in DOMAIN t PROVE t[i].key \in Keys(u)
    <3>1. u[i].key = t[i].key /\ i \in DOMAIN u
      BY <1>0, <1>1
    <3> QED
      BY <3>1 DEF Keys
  <2>3. k \in Keys(u)
    BY <1>0, <1>1 DEF Keys
  <2> QED
    BY <2>1, <2>2, <2>3 DEF Keys
<1>3. CellOf(u, k) = Len(t) + 1
  <2>1. \A i \in DOMAIN u : u[i].key = k => i = Len(t) + 1
    BY <1>0, <1>1 DEF Keys
  <2>2. \A i \in DOMAIN u : u[i].key = k => Len(t) + 1 <= i
    BY <1>1, <2>1
  <2> QED
    BY <1>0, <1>1, <2>2, FirstCell
<1>4. ASSUME NEW j \in Keys(t) PROVE u[CellOf(u, j)].val = t[CellOf(t, j)].val
  <2> DEFINE c == CellOf(t, j)
  <2>1. /\ c \in DOMAIN t /\ t[c].key = j
        /\ \A i \in DOMAIN t : t[i].key = j => c <= i
    BY FirstCell
  <2> HIDE DEF c
  <2>2. \A i \in DOMAIN u : u[i].key = j => c <= i
    <3>1. c <= Len(t) + 1
      BY <1>1, <2>1
    <3> QED
      BY <1>0, <1>1, <2>1, <3>1
  <2>3. CellOf(u, j) = c
    BY <1>0, <1>1, <2>1, <2>2, FirstCell
  <2> QED
    BY <1>0, <2>1, <2>3 DEF c
<1>5. Map!With(Held(t), k, v) = [j \in {k} \cup Keys(t) |-> IF j = k THEN v ELSE Held(t)[j]]
  BY DEF Map!With, Held
<1>6. ASSUME NEW j \in {k} \cup Keys(t)
      PROVE  u[CellOf(u, j)].val = IF j = k THEN v ELSE Held(t)[j]
  <2>1. CASE j = k
    BY <1>0, <1>3, <2>1
  <2>2. CASE j # k
    BY <1>4, <2>2 DEF Held
  <2> QED
    BY <2>1, <2>2
<1>7. Held(u) = [j \in {k} \cup Keys(t) |-> IF j = k THEN v ELSE Held(t)[j]]
  BY <1>2, <1>6 DEF Held
<1> QED
  BY <1>5, <1>7

(* An entry put in front of the others.                                      *)
LEMMA HeldInFront ==
    ASSUME NEW cs, NEW ds, NEW k, NEW v, Listed(cs), IsInFront(cs, ds, k, v)
    PROVE  Held(ds) = Map!With(Held(cs), k, v)
<1>0. /\ Len(ds) = Len(cs) + 1 /\ DOMAIN ds = 1..(Len(cs) + 1)
      /\ ds[1].key = k /\ ds[1].val = v /\ \A n \in DOMAIN cs : ds[n + 1] = cs[n]
  BY DEF IsInFront
<1>1. /\ Listed(ds) /\ DOMAIN cs = 1..Len(cs) /\ Len(cs) \in Nat
      /\ \A i \in DOMAIN ds : i = 1 \/ (i - 1 \in DOMAIN cs /\ ds[i] = cs[i - 1])
      /\ \A n \in DOMAIN cs : n + 1 \in DOMAIN ds /\ n + 1 # 1
      /\ 1 \in DOMAIN ds
  <2>1. Listed(ds) /\ DOMAIN cs = 1..Len(cs) /\ Len(cs) \in Nat
    BY <1>0 DEF Listed
  <2>2. ASSUME NEW i \in DOMAIN ds, i # 1 PROVE i - 1 \in DOMAIN cs /\ ds[i] = cs[i - 1]
    <3>1. i - 1 \in DOMAIN cs /\ (i - 1) + 1 = i
      BY <1>0, <2>1, <2>2
    <3> QED
      BY <1>0, <3>1
  <2> QED
    BY <1>0, <2>1, <2>2
<1>2. Keys(ds) = {k} \cup Keys(cs)
  <2>1. ASSUME NEW i \in DOMAIN ds PROVE ds[i].key \in {k} \cup Keys(cs)
    BY <1>0, <1>1 DEF Keys
  <2>2. ASSUME NEW i \in DOMAIN cs PROVE cs[i].key \in Keys(ds)
    <3>1. ds[i + 1].key = cs[i].key /\ i + 1 \in DOMAIN ds
      BY <1>0, <1>1
    <3> QED
      BY <3>1 DEF Keys
  <2>3. k \in Keys(ds)
    BY <1>0, <1>1 DEF Keys
  <2> QED
    BY <2>1, <2>2, <2>3 DEF Keys
<1>3. CellOf(ds, k) = 1
  <2>1. \A i \in DOMAIN ds : 1 <= i
    BY <1>1
  <2> QED
    BY <1>0, <1>1, <2>1, FirstCell
<1>4. ASSUME NEW j \in Keys(cs), j # k PROVE ds[CellOf(ds, j)].val = cs[CellOf(cs, j)].val
  <2> DEFINE c == CellOf(cs, j)
  <2>1. /\ c \in DOMAIN cs /\ cs[c].key = j
        /\ \A i \in DOMAIN cs : cs[i].key = j => c <= i
    BY FirstCell
  <2> HIDE DEF c
  <2>2. c + 1 \in DOMAIN ds /\ ds[c + 1] = cs[c]
    BY <1>0, <1>1, <2>1
  <2>3. ASSUME NEW i \in DOMAIN ds, ds[i].key = j PROVE c + 1 <= i
    <3>1. i # 1
      BY <1>0, <1>4, <2>3
    <3>2. i - 1 \in DOMAIN cs /\ ds[i] = cs[i - 1]
      BY <1>1, <3>1
    <3>3. c <= i - 1
      BY <2>1, <2>3, <3>2
    <3> QED
      BY <1>0, <1>1, <2>1, <3>3
  <2>4. CellOf(ds, j) = c + 1
    BY <1>1, <2>1, <2>2, <2>3, FirstCell
  <2> QED
    BY <2>2, <2>4 DEF c
<1>5. Map!With(Held(cs), k, v) = [j \in {k} \cup Keys(cs) |-> IF j = k THEN v ELSE Held(cs)[j]]
  BY DEF Map!With, Held
<1>6. ASSUME NEW j \in {k} \cup Keys(cs)
      PROVE  ds[CellOf(ds, j)].val = IF j = k THEN v ELSE Held(cs)[j]
  <2>1. CASE j = k
    BY <1>0, <1>3, <2>1
  <2>2. CASE j # k
    BY <1>4, <2>2 DEF Held
  <2> QED
    BY <2>1, <2>2
<1>7. Held(ds) = [j \in {k} \cup Keys(cs) |-> IF j = k THEN v ELSE Held(cs)[j]]
  BY <1>2, <1>6 DEF Held
<1> QED
  BY <1>5, <1>7

(* The cells of a call hold what its parameters are matched with.            *)
LEMMA HeldMatched ==
    ASSUME NEW cs, NEW ps, NEW rest, NEW vs, IsCallCells(cs, ps, rest, vs),
           rest \in Nat, \A i \in DOMAIN ps : ps[i] \in Nat /\ ps[i] # 0
    PROVE  Held(cs) = Map!Matched(ps, rest, vs)
<1> DEFINE r == First(rest)
           named == {ps[i] : i \in DOMAIN ps}
<1>1. /\ Listed(cs) /\ Len(cs) = Len(ps) + r /\ Len(ps) \in Nat
      /\ DOMAIN ps = 1..Len(ps) /\ DOMAIN vs = 1..Len(vs) /\ Len(vs) \in Nat
  BY DEF IsCallCells, Listed
<1>2. /\ rest # 0 => r = 1 /\ cs[1].key = rest /\ cs[1].val = RestVal(ps, vs)
      /\ rest = 0 => r = 0
      /\ r \in Nat
  BY DEF IsCallCells, First
<1> HIDE DEF r
<1>3. ASSUME NEW p \in DOMAIN ps
      PROVE  /\ (Len(ps) + 1 - p) + r \in DOMAIN cs
             /\ cs[(Len(ps) + 1 - p) + r].key = ps[p]
             /\ cs[(Len(ps) + 1 - p) + r].val = Map!Nth(vs, p)
  <2> DEFINE i == Len(ps) + 1 - p
  <2>1. i \in 1..Len(ps) /\ Len(ps) + 1 - i = p /\ i + r \in DOMAIN cs
    <3>1. p \in Nat /\ 1 <= p /\ p <= Len(ps)
      BY <1>1
    <3>2. DOMAIN cs = 1..(Len(ps) + r)
      BY <1>1 DEF Listed
    <3>3. i \in Nat /\ 1 <= i /\ i <= Len(ps) /\ Len(ps) + 1 - i = p
      BY <1>1, <3>1
    <3>4. i + r \in Nat /\ 1 <= i + r /\ i + r <= Len(ps) + r
      <4> HIDE DEF i
      <4> QED
        BY <1>1, <1>2, <3>3
    <3> HIDE DEF i
    <3> QED
      BY <1>1, <1>2, <3>2, <3>3, <3>4
  <2> HIDE DEF i
  <2>2. /\ cs[i + r].key = ps[Len(ps) + 1 - i]
        /\ cs[i + r].val = IF Len(ps) + 1 - i <= Len(vs) THEN vs[Len(ps) + 1 - i] ELSE Nil
    BY <2>1 DEF IsCallCells, r
  <2>3. Map!Nth(vs, p) = IF p <= Len(vs) THEN vs[p] ELSE Nil
    BY <1>1 DEF Map!Nth, Map!Nil, Nil
  <2> QED
    BY <2>1, <2>2, <2>3 DEF i
<1>4. ASSUME NEW c \in DOMAIN cs, ~(rest # 0 /\ c = 1)
      PROVE  \E p \in DOMAIN ps : c = (Len(ps) + 1 - p) + r
  <2> DEFINE p == Len(ps) + 1 - (c - r)
  <2>1. c \in Nat /\ c <= Len(ps) + r /\ r < c
    BY <1>1, <1>2, <1>4 DEF Listed
  <2>2. p \in DOMAIN ps /\ c = (Len(ps) + 1 - p) + r
    BY <1>1, <1>2, <2>1
  <2> QED
    BY <2>2
<1>5. Keys(cs) = named \cup ({rest} \ {0})
  <2>1. ASSUME NEW c \in DOMAIN cs PROVE cs[c].key \in named \cup ({rest} \ {0})
    <3>1. CASE rest # 0 /\ c = 1
      BY <1>2, <3>1
    <3>2. CASE ~(rest # 0 /\ c = 1)
      BY <1>3, <1>4, <3>2
    <3> QED
      BY <3>1, <3>2
  <2>2. ASSUME NEW p \in DOMAIN ps PROVE ps[p] \in Keys(cs)
    BY <1>3 DEF Keys
  <2>3. rest # 0 => rest \in Keys(cs)
    <3>1. rest # 0 => 1 \in DOMAIN cs
      BY <1>1, <1>2 DEF Listed
    <3> QED
      BY <1>2, <3>1 DEF Keys
  <2> QED
    BY <2>1, <2>2, <2>3 DEF Keys
<1>6. Map!Matched(ps, rest, vs) =
        [k \in named \cup ({rest} \ {0}) |->
            IF k = rest THEN Map!From(vs, Len(ps)) ELSE Map!Nth(vs, Map!LastAt(ps, k))]
  BY DEF Map!Matched
<1>7. ASSUME NEW k \in Keys(cs)
      PROVE  cs[CellOf(cs, k)].val =
                IF k = rest THEN Map!From(vs, Len(ps)) ELSE Map!Nth(vs, Map!LastAt(ps, k))
  <2> DEFINE c == CellOf(cs, k)
  <2>1. /\ c \in DOMAIN cs /\ cs[c].key = k /\ c \in Nat
        /\ \A i \in DOMAIN cs : cs[i].key = k => c <= i
    <3>1. /\ c \in DOMAIN cs /\ cs[c].key = k
          /\ \A i \in DOMAIN cs : cs[i].key = k => c <= i
      BY <1>1, FirstCell
    <3> QED
      BY <1>1, <3>1 DEF Listed
  <2> HIDE DEF c
  <2>2. k # 0
    BY <1>5
  <2>3. CASE k = rest
    <3>1. 1 \in DOMAIN cs /\ cs[1].key = k
      BY <1>1, <1>2, <2>2, <2>3 DEF Listed
    <3>2. c <= 1 /\ c # 0
      BY <1>1, <2>1, <3>1 DEF Listed
    <3>3. c = 1
      BY <2>1, <3>2
    <3> QED
      BY <1>2, <2>2, <2>3, <3>3 DEF c, RestVal, Map!From, Map!Nil, Nil
  <2>4. CASE k # rest
    <3>1. ~(rest # 0 /\ c = 1)
      BY <1>2, <2>1, <2>4
    <3>2. PICK p \in DOMAIN ps : c = (Len(ps) + 1 - p) + r
      BY <1>4, <2>1, <3>1
    <3>3. ps[p] = k /\ cs[c].val = Map!Nth(vs, p)
      BY <1>3, <2>1, <3>2
    <3>4. ASSUME NEW q \in DOMAIN ps, ps[q] = k PROVE q <= p
      <4>1. c <= (Len(ps) + 1 - q) + r
        BY <1>3, <2>1, <3>4
      <4> QED
        BY <1>1, <1>2, <3>2, <4>1
    <3>5. Map!LastAt(ps, k) = p
      <4> DEFINE Is(i) == ps[i] = k /\ \A j \in DOMAIN ps : ps[j] = k => j <= i
      <4>1. Is(p)
        BY <3>3, <3>4
      <4>2. ASSUME NEW i \in DOMAIN ps, Is(i) PROVE i = p
        <5>1. i <= p /\ p <= i
          BY <3>3, <3>4, <4>2
        <5> QED
          BY <1>1, <5>1
      <4>3. Map!LastAt(ps, k) = CHOOSE i \in DOMAIN ps : Is(i)
        BY DEF Map!LastAt
      <4> HIDE DEF Is
      <4> QED
        BY <4>1, <4>2, <4>3
    <3> QED
      BY <2>4, <3>3, <3>5 DEF c
  <2> QED
    BY <2>3, <2>4
<1> QED
  BY <1>5, <1>6, <1>7 DEF Held

(* An environment's map is what its entries hold.                            *)
AllHeld == \A e \in DOMAIN envs : MapOf(e) = Held(Entries(e)) /\ Listed(Entries(e))

LEMMA MapsHeld == Inv => AllHeld
<1> SUFFICES ASSUME Inv, NEW e \in DOMAIN envs
             PROVE  MapOf(e) = Held(Entries(e)) /\ Listed(Entries(e))
  BY DEF AllHeld
<1> DEFINE es == Entries(e)
<1>1. Listed(es)
  BY WithinFinds DEF Listed
<1>2. ASSUME NEW k \in Keys(es) PROVE Within(e, k) = CellOf(es, k)
  <2> DEFINE n == Within(e, k)
  <2>1. /\ n \in {0} \cup DOMAIN es
        /\ n # 0 => es[n].key = k
        /\ n = 0 => \A i \in DOMAIN es : es[i].key # k
        /\ IsTree(e) => \A i \in DOMAIN es : es[i].key = k => n = i
        /\ ~IsTree(e) => \A i \in DOMAIN es : es[i].key = k => n <= i
    BY WithinFinds
  <2> HIDE DEF n, es
  <2>2. n \in DOMAIN es /\ es[n].key = k
    BY <2>1 DEF Keys
  <2>3. \A i \in DOMAIN es : es[i].key = k => n <= i
    <3>1. \A i \in DOMAIN es : i \in Nat
      BY <1>1 DEF Listed
    <3> QED
      BY <2>1, <2>2, <3>1
  <2>4. CellOf(es, k) = n
    BY <1>1, <2>2, <2>3, FirstCell
  <2> QED
    BY <2>4 DEF n
<1>3. MapOf(e) = [k \in Keys(es) |-> es[Within(e, k)].val]
  BY DEF MapOf, Keys
<1> HIDE DEF es
<1>4. MapOf(e) = Held(es)
  BY <1>2, <1>3 DEF Held
<1> QED
  BY <1>1, <1>4 DEF es

-----------------------------------------------------------------------------
(* The environments as the map sees them.                                    *)
Ups   == [e \in DOMAIN envs |-> envs[e].parent]
Binds == [e \in DOMAIN envs |-> MapOf(e)]

LEMMA Seen ==
    ASSUME Inv
    PROVE  /\ DOMAIN envs = 1..Len(envs) /\ Len(envs) \in Nat
           /\ Ups \in Seq(Nat) /\ Len(Ups) = Len(envs) /\ DOMAIN Ups = DOMAIN envs
           /\ DOMAIN Binds = DOMAIN envs
           /\ \A e \in DOMAIN envs : /\ Ups[e] = envs[e].parent /\ Ups[e] \in Nat /\ Ups[e] < e
                                     /\ Binds[e] = MapOf(e)
                                     /\ IsRoot(e) <=> Ups[e] = 0
<1>1. DOMAIN envs = 1..Len(envs) /\ Len(envs) \in Nat
  BY DEF Inv
<1>2. ASSUME NEW e \in DOMAIN envs PROVE envs[e].parent \in Nat /\ envs[e].parent < e
  BY DEF Inv, Envs, EnvOK, Env
<1>3. Ups \in [1..Len(envs) -> Nat]
  BY <1>1, <1>2 DEF Ups
<1>4. Ups \in Seq(Nat) /\ Len(Ups) = Len(envs)
  BY <1>1, <1>3
<1> QED
  BY <1>1, <1>2, <1>4 DEF Ups, Binds, IsRoot

LEMMA MapsWithin ==
    ASSUME Inv, NEW e \in DOMAIN envs, NEW k
    PROVE  /\ k \in DOMAIN MapOf(e) <=> Within(e, k) # 0
           /\ Within(e, k) # 0 => MapOf(e)[k] = Entries(e)[Within(e, k)].val
<1> DEFINE es == Entries(e)
           n == Within(e, k)
<1>1. MapOf(e) = [j \in Keys(es) |-> es[Within(e, j)].val]
  BY DEF MapOf, Keys
<1>2. /\ n \in {0} \cup DOMAIN es
      /\ n # 0 => es[n].key = k
      /\ n = 0 => \A i \in DOMAIN es : es[i].key # k
      /\ DOMAIN es = 1..Len(es)
  BY WithinFinds
<1> HIDE DEF es
<1>3. n # 0 <=> k \in Keys(es)
  <2> HIDE DEF n
  <2> QED
    BY <1>2 DEF Keys
<1> QED
  BY <1>1, <1>3 DEF es

(* Which environment binds, by those steps.                                  *)
BinderStep(up, maps, ups, k) ==
    up = [i \in 0..Len(ups) |->
            IF i = 0 THEN 0 ELSE IF k \in DOMAIN maps[i] THEN i ELSE up[ups[i]]]

LEMMA Binders ==
    ASSUME Inv, NEW k
    PROVE  \E up : /\ up[0] = 0
                   /\ \A i \in DOMAIN envs :
                        /\ Within(i, k) # 0 => up[i] = i
                        /\ Within(i, k) = 0 => up[i] = up[envs[i].parent]
                   /\ \A e : Map!Binder(Binds, Ups, e, k) = up[e]
<1> DEFINE D == 0..Len(Ups)
           S == {i \in D : i = 0 \/ k \in DOMAIN Binds[i]}
           v == [i \in D |-> i]
           next == [i \in D |-> Ups[i]]
           rank == [i \in D |-> i]
<1>1. /\ DOMAIN envs = 1..Len(envs) /\ Len(envs) \in Nat
      /\ Len(Ups) = Len(envs) /\ DOMAIN Ups = DOMAIN envs
      /\ \A e \in DOMAIN envs : /\ Ups[e] = envs[e].parent /\ Ups[e] \in Nat /\ Ups[e] < e
                                /\ Binds[e] = MapOf(e)
  BY Seen
<1>2. ASSUME NEW i \in D \ S PROVE next[i] \in D /\ rank[next[i]] < rank[i]
  <2>1. i \in DOMAIN envs
    BY <1>1
  <2> QED
    BY <1>1, <2>1
<1>3. rank \in [D -> 0..Len(Ups)] /\ \A i \in D \cap S : v[i] \in D
  BY <1>1
<1>4. PICK f \in [D -> D] : Follows(f, D, S, v, next)
  <2> HIDE DEF D, S, v, next, rank
  <2> QED
    BY <1>1, <1>2, <1>3, Walks
<1>5. ASSUME NEW i \in D
      PROVE  f[i] = IF i = 0 THEN 0 ELSE IF k \in DOMAIN Binds[i] THEN i ELSE f[Ups[i]]
  <2>1. f[i] = IF i \in S THEN v[i] ELSE f[next[i]]
    BY <1>4 DEF Follows
  <2> QED
    BY <2>1
<1>6. BinderStep(f, Binds, Ups, k)
  <2>1. f = [i \in D |-> f[i]]
    BY <1>4
  <2> QED
    BY <1>5, <2>1 DEF BinderStep
<1>7. PICK up : BinderStep(up, Binds, Ups, k)
                /\ \A e : Map!Binder(Binds, Ups, e, k) = up[e]
  <2>1. \A e : Map!Binder(Binds, Ups, e, k) = (CHOOSE u : BinderStep(u, Binds, Ups, k))[e]
    BY DEF Map!Binder, BinderStep
  <2>2. BinderStep(CHOOSE u : BinderStep(u, Binds, Ups, k), Binds, Ups, k)
    BY <1>6
  <2> QED
    BY <2>1, <2>2
<1>8. \A i \in 0..Len(Ups) :
        up[i] = IF i = 0 THEN 0 ELSE IF k \in DOMAIN Binds[i] THEN i ELSE up[Ups[i]]
  BY <1>7 DEF BinderStep
<1>9. up[0] = 0
  <2>1. 0 \in 0..Len(Ups)
    BY <1>1
  <2> QED
    BY <1>8, <2>1
<1>10. ASSUME NEW i \in DOMAIN envs
       PROVE  /\ Within(i, k) # 0 => up[i] = i
              /\ Within(i, k) = 0 => up[i] = up[envs[i].parent]
  <2>1. i \in 0..Len(Ups) /\ i # 0 /\ Binds[i] = MapOf(i) /\ Ups[i] = envs[i].parent
    BY <1>1
  <2>2. k \in DOMAIN Binds[i] <=> Within(i, k) # 0
    BY <2>1, MapsWithin
  <2> QED
    BY <1>8, <2>1, <2>2
<1> QED
  BY <1>7, <1>9, <1>10

(* The root environments are in.                                             *)
RootStep(up, ups) == up = [i \in DOMAIN ups |-> IF ups[i] = 0 THEN i ELSE up[ups[i]]]

LEMMA Roots ==
    ASSUME Inv
    PROVE  \E up : /\ \A i \in DOMAIN envs :
                        up[i] = IF envs[i].parent = 0 THEN i ELSE up[envs[i].parent]
                   /\ \A e : Map!RootOf(Ups, e) = up[e]
<1> DEFINE D == DOMAIN Ups
           S == {i \in D : Ups[i] = 0}
           v == [i \in D |-> i]
           next == [i \in D |-> Ups[i]]
           rank == [i \in D |-> i]
<1>1. /\ DOMAIN envs = 1..Len(envs) /\ Len(envs) \in Nat
      /\ Len(Ups) = Len(envs) /\ DOMAIN Ups = DOMAIN envs
      /\ \A e \in DOMAIN envs : Ups[e] = envs[e].parent /\ Ups[e] \in Nat /\ Ups[e] < e
  BY Seen
<1>2. ASSUME NEW i \in D \ S PROVE next[i] \in D /\ rank[next[i]] < rank[i]
  BY <1>1
<1>3. rank \in [D -> 0..Len(Ups)] /\ \A i \in D \cap S : v[i] \in D
  BY <1>1
<1>4. PICK f \in [D -> D] : Follows(f, D, S, v, next)
  <2> HIDE DEF D, S, v, next, rank
  <2> QED
    BY <1>1, <1>2, <1>3, Walks
<1>5. ASSUME NEW i \in D PROVE f[i] = IF Ups[i] = 0 THEN i ELSE f[Ups[i]]
  <2>1. f[i] = IF i \in S THEN v[i] ELSE f[next[i]]
    BY <1>4 DEF Follows
  <2> QED
    BY <2>1
<1>6. RootStep(f, Ups)
  <2>1. f = [i \in D |-> f[i]]
    BY <1>4
  <2> QED
    BY <1>5, <2>1 DEF RootStep
<1>7. PICK up : RootStep(up, Ups) /\ \A e : Map!RootOf(Ups, e) = up[e]
  <2>1. \A e : Map!RootOf(Ups, e) = (CHOOSE u : RootStep(u, Ups))[e]
    BY DEF Map!RootOf, RootStep
  <2>2. RootStep(CHOOSE u : RootStep(u, Ups), Ups)
    BY <1>6
  <2> QED
    BY <2>1, <2>2
<1>8. \A i \in DOMAIN envs : up[i] = IF envs[i].parent = 0 THEN i ELSE up[envs[i].parent]
  BY <1>1, <1>7 DEF RootStep
<1> QED
  BY <1>7, <1>8

(* A lookup ends where the map says: at the environment that binds the       *)
(* symbol, or at the root, at the base's own symbol of its spelling.         *)
LookupAgrees(b, e, k) ==
    LET j   == Map!Binder(Binds, Ups, e, k)
        top == Map!RootOf(Ups, e)
    IN /\ top \in DOMAIN envs /\ IsRoot(top)
       /\ j # 0 => /\ j \in DOMAIN envs /\ Within(j, k) # 0
                   /\ Lookup(b, e, k) = <<j, Within(j, k)>>
       /\ j = 0 => /\ Within(top, k) = 0
                   /\ RetriedAt(b, k, top)
                         => Lookup(b, e, k) = <<top, Filed(envs[top].tree, OwnSymbol(b, k))>>
                   /\ ~RetriedAt(b, k, top) => Lookup(b, e, k) = Nowhere

LEMMA LookupByTheMap ==
    ASSUME Inv, NEW b, NEW k, NEW e \in DOMAIN envs
    PROVE  LookupAgrees(b, e, k)
<1>1. PICK up : LookupUp(up, b, k) /\ \A i : Lookup(b, i, k) = up[i]
  BY LookupsUp
<1>2. PICK bi : /\ bi[0] = 0
                /\ \A i \in DOMAIN envs :
                     /\ Within(i, k) # 0 => bi[i] = i
                     /\ Within(i, k) = 0 => bi[i] = bi[envs[i].parent]
                /\ \A i : Map!Binder(Binds, Ups, i, k) = bi[i]
  BY Binders
<1>3. PICK ro : /\ \A i \in DOMAIN envs :
                     ro[i] = IF envs[i].parent = 0 THEN i ELSE ro[envs[i].parent]
                /\ \A i : Map!RootOf(Ups, i) = ro[i]
  BY Roots
<1>4. DOMAIN envs = 1..Len(envs) /\ Len(envs) \in Nat
  BY Seen
<1> DEFINE Agrees(i) ==
             /\ ro[i] \in DOMAIN envs /\ IsRoot(ro[i])
             /\ bi[i] # 0 => /\ bi[i] \in DOMAIN envs /\ Within(bi[i], k) # 0
                             /\ up[i] = <<bi[i], Within(bi[i], k)>>
             /\ bi[i] = 0 => /\ Within(ro[i], k) = 0
                             /\ RetriedAt(b, k, ro[i])
                                   => up[i] = <<ro[i], Filed(envs[ro[i]].tree, OwnSymbol(b, k))>>
                             /\ ~RetriedAt(b, k, ro[i]) => up[i] = Nowhere
           T == {i \in DOMAIN envs : ~Agrees(i)}
<1>5. T = {}
  <2> SUFFICES ASSUME T # {} PROVE FALSE
    OBVIOUS
  <2>1. PICK i \in T : \A j \in T : i <= j
    <3>1. T \subseteq Nat
      BY <1>4
    <3> HIDE DEF T
    <3> QED
      BY <3>1, Least
  <2>2. i \in DOMAIN envs /\ ~Agrees(i)
    OBVIOUS
  <2>3. /\ Within(i, k) # 0 => up[i] = <<i, Within(i, k)>>
        /\ Within(i, k) = 0 /\ RetriedAt(b, k, i)
              => up[i] = <<i, Filed(envs[i].tree, OwnSymbol(b, k))>>
        /\ Within(i, k) = 0 /\ ~RetriedAt(b, k, i) => up[i] = up[envs[i].parent]
        /\ up[0] = Nowhere
    BY <1>1, <2>2 DEF LookupUp
  <2>4. envs[i].parent \in Nat /\ envs[i].parent < i /\ i \in Nat /\ i # 0
    <3>1. Ups[i] = envs[i].parent /\ Ups[i] \in Nat /\ Ups[i] < i
      BY <2>2, Seen
    <3> QED
      BY <1>4, <2>2, <3>1
  <2>5. CASE envs[i].parent = 0
    <3>1. ro[i] = i /\ IsRoot(i)
      BY <1>3, <2>2, <2>5 DEF IsRoot
    <3>2. CASE Within(i, k) # 0
      <4>1. bi[i] = i
        BY <1>2, <2>2, <3>2
      <4> QED
        BY <2>2, <2>3, <2>4, <3>1, <3>2, <4>1
    <3>3. CASE Within(i, k) = 0
      <4>1. bi[i] = 0
        BY <1>2, <2>2, <2>5, <3>3
      <4> QED
        BY <2>2, <2>3, <2>5, <3>1, <3>3, <4>1
    <3> QED
      BY <3>2, <3>3
  <2>6. CASE envs[i].parent # 0
    <3> DEFINE p == envs[i].parent
    <3>1. p \in DOMAIN envs /\ p < i
      BY <1>4, <2>2, <2>4, <2>6
    <3>2. Agrees(p)
      <4>1. ~(i <= p)
        BY <2>4, <3>1
      <4>2. p \notin T
        <5> HIDE DEF T, p
        <5> QED
          BY <2>1, <4>1
      <4> HIDE DEF Agrees
      <4> QED
        BY <3>1, <4>2
    <3>3. ro[i] = ro[p]
      BY <1>3, <2>2, <2>6
    <3>4. ~RetriedAt(b, k, i)
      BY <2>6 DEF RetriedAt, Retries, IsRoot
    <3>5. ro[p] \in DOMAIN envs /\ IsRoot(ro[p])
      BY <3>2
    <3>6. CASE Within(i, k) # 0
      <4>1. bi[i] = i
        BY <1>2, <2>2, <3>6
      <4> QED
        BY <2>2, <2>3, <2>4, <3>3, <3>5, <3>6, <4>1
    <3>7. CASE Within(i, k) = 0
      <4>1. bi[i] = bi[p] /\ up[i] = up[p]
        BY <1>2, <2>2, <2>3, <3>4, <3>7
      <4>2. Agrees(i)
        BY <3>2, <3>3, <4>1
      <4> QED
        BY <2>2, <4>2
    <3> QED
      BY <3>6, <3>7
  <2> QED
    BY <2>5, <2>6
<1>6. Agrees(e)
  <2> HIDE DEF Agrees
  <2> QED
    BY <1>5
<1> QED
  BY <1>1, <1>2, <1>3, <1>6 DEF LookupAgrees

(* A base's symbol of a spelling is the one its table has.                   *)
LEMMA OwnInTable ==
    ASSUME Inv, NEW b \in Bases, NEW s
    PROVE  LET n == Named(table[b], s) IN
           /\ n # 0 => n \in DOMAIN table[b] /\ Map!Own(b, s) = {table[b][n].key}
                       /\ table[b][n].key # 0
           /\ n = 0 => Map!Own(b, s) = {}
<1> DEFINE t == table[b]
           n == Named(t, s)
<1>1. /\ syms \in Seq(Symbols) /\ Tree(syms, t) /\ OfOneName(syms, t)
      /\ \A i \in DOMAIN t : syms[t[i].key].base = b
      /\ \A i \in DOMAIN t : t[i].key \in DOMAIN syms
  BY DEF Inv, Tables, TableOK, Tree, Keyed
<1>2. \A k \in DOMAIN syms : syms[k].base = b => \E i \in DOMAIN t : t[i].key = k
  BY DEF Inv, Tabled
<1> HIDE DEF t, n
<1>3. /\ n \in {0} \cup DOMAIN t
      /\ n # 0 => syms[t[n].key].name = s
      /\ \A i \in DOMAIN t : syms[t[i].key].name = s => n = i
  BY <1>1, NamedFinds DEF n, Name
<1>4. \A k \in DOMAIN syms : syms[k] \in [base : Bases, name : Spellings] /\ k # 0
  <2>1. \A k \in DOMAIN syms : syms[k] \in Symbols /\ k # 0
    BY <1>1
  <2> QED
    BY <2>1 DEF Symbols
<1>5. ASSUME NEW k \in Map!Own(b, s) PROVE n # 0 /\ k = t[n].key
  <2>1. k \in DOMAIN syms /\ syms[k].base = b /\ syms[k].name = s
    BY DEF Map!Own
  <2>2. PICK i \in DOMAIN t : t[i].key = k
    BY <1>2, <2>1
  <2>3. n = i /\ i # 0
    <3>1. DOMAIN t = 1..Len(t)
      BY <1>1 DEF Tree
    <3> QED
      BY <1>3, <2>1, <2>2, <3>1
  <2> QED
    BY <2>2, <2>3
<1>6. n # 0 => t[n].key \in Map!Own(b, s) /\ n \in DOMAIN t /\ t[n].key # 0
  BY <1>1, <1>3, <1>4 DEF Map!Own
<1> QED
  <2>1. /\ n # 0 => n \in DOMAIN t /\ Map!Own(b, s) = {t[n].key} /\ t[n].key # 0
        /\ n = 0 => Map!Own(b, s) = {}
    BY <1>5, <1>6
  <2> QED
    BY <2>1 DEF n, t

(* What a symbol means to an evaluation is what its lookup finds.            *)
MeantAs(b, e, k) ==
    LET at    == Lookup(b, e, k)
        meant == Map!Meant(Binds, b, e, k)
    IN /\ ~Found(at) => meant = {}
       /\ Found(at) => \E j \in DOMAIN envs, o \in Nat :
             <<j, o>> \in meant /\ Within(j, o) # 0 /\ at = <<j, Within(j, o)>>

LEMMA MeantIsFound ==
    ASSUME Inv, NEW b \in Bases, NEW k \in DOMAIN syms, NEW e \in DOMAIN envs
    PROVE  MeantAs(b, e, k)
<1> DEFINE at    == Lookup(b, e, k)
           meant == Map!Meant(Binds, b, e, k)
           j     == Map!Binder(Binds, Ups, e, k)
           top   == Map!RootOf(Ups, e)
           own   == Map!Own(b, Name(k))
           o     == OwnSymbol(b, k)
<1>1. meant = IF j # 0 THEN {<<j, k>>}
              ELSE {<<top, q>> : q \in {q \in own : q \in DOMAIN Binds[top]}}
  BY DEF Map!Meant, Ups, Name
<1>2. /\ top \in DOMAIN envs /\ IsRoot(top)
      /\ j # 0 => j \in DOMAIN envs /\ Within(j, k) # 0 /\ at = <<j, Within(j, k)>>
      /\ j = 0 => /\ Within(top, k) = 0
                  /\ RetriedAt(b, k, top) => at = <<top, Filed(envs[top].tree, o)>>
                  /\ ~RetriedAt(b, k, top) => at = Nowhere
  BY LookupByTheMap DEF LookupAgrees
<1>3. /\ o # 0 => own = {o}
      /\ o = 0 => own = {}
  BY OwnInTable DEF OwnSymbol
<1>4. syms \in Seq(Symbols) /\ k \in Nat /\ own \subseteq DOMAIN syms /\ DOMAIN syms \subseteq Nat
  BY DEF Inv, Map!Own
<1>5. DOMAIN envs = 1..Len(envs) /\ \A i \in DOMAIN envs : i # 0
  BY Seen
<1> HIDE DEF at, meant, j, top, own, o
<1>6. CASE j # 0
  <2>1. Found(at)
    BY <1>2, <1>5, <1>6 DEF Found
  <2> QED
    BY <1>1, <1>2, <1>4, <1>6, <2>1 DEF MeantAs, at, meant
<1>7. CASE j = 0 /\ RetriedAt(b, k, top)
  <2>1. o # 0 /\ own = {o} /\ o \in Nat
    BY <1>3, <1>4, <1>7 DEF RetriedAt, o
  <2>2. Within(top, o) = Filed(envs[top].tree, o) /\ Within(top, o) # 0
    BY <1>2, <1>7 DEF Within, IsTree, RetriedAt, o
  <2>3. o \in DOMAIN Binds[top]
    <3>1. o \in DOMAIN MapOf(top)
      BY <1>2, <2>2, MapsWithin
    <3> QED
      BY <1>2, <3>1, Seen
  <2>4. <<top, o>> \in meant
    BY <1>1, <1>7, <2>1, <2>3
  <2>5. at = <<top, Within(top, o)>> /\ Found(at)
    BY <1>2, <1>5, <1>7, <2>2 DEF Found
  <2> QED
    BY <1>2, <2>1, <2>2, <2>4, <2>5 DEF MeantAs, at, meant
<1>8. CASE j = 0 /\ ~RetriedAt(b, k, top)
  <2>1. ~Found(at)
    BY <1>2, <1>8 DEF Found, Nowhere
  <2>2. ASSUME NEW q \in own, q \in DOMAIN Binds[top] PROVE FALSE
    <3>1. q = o /\ o # 0
      BY <1>3
    <3>2. Within(top, o) # 0
      <4>1. Binds[top] = MapOf(top)
        BY <1>2, Seen
      <4> QED
        BY <1>2, <2>2, <3>1, <4>1, MapsWithin
    <3>3. o # k
      BY <1>2, <1>8, <3>2
    <3>4. Within(top, o) = Filed(envs[top].tree, o) /\ Retries(top)
      BY <1>2 DEF Within, IsTree, Retries
    <3> QED
      BY <1>8, <3>1, <3>2, <3>3, <3>4 DEF RetriedAt, o
  <2>3. meant = {}
    BY <1>1, <1>8, <2>2
  <2> QED
    BY <2>1, <2>3 DEF MeantAs, at, meant
<1> QED
  BY <1>6, <1>7, <1>8

-----------------------------------------------------------------------------
(* What each step does to the maps.                                          *)
LEMMA SameMaps ==
    ASSUME AllHeld, AllHeld', UNCHANGED envs
    PROVE  Ups' = Ups /\ Binds' = Binds
<1>1. ASSUME NEW e \in DOMAIN envs PROVE MapOf(e)' = MapOf(e)
  <2>1. Entries(e)' = Entries(e)
    BY DEF Entries, IsTree, IsRoot
  <2>2. MapOf(e)' = Held(Entries(e)') /\ MapOf(e) = Held(Entries(e))
    BY DEF AllHeld
  <2> QED
    BY <2>1, <2>2
<1> QED
  BY <1>1 DEF Ups, Binds

LEMMA OneMapChanged ==
    ASSUME Inv, AllHeld, AllHeld', NEW e \in DOMAIN envs, NEW g,
           DOMAIN envs' = DOMAIN envs, \A i \in DOMAIN envs : i # e => envs'[i] = envs[i],
           envs'[e].parent = envs[e].parent, envs'[e].kind = envs[e].kind,
           g = IF IsTree(e) THEN envs'[e].tree ELSE envs'[e].cells
    PROVE  Ups' = Ups /\ Binds' = [Binds EXCEPT ![e] = Held(g)]
<1>1. Ups' = Ups
  <2>1. \A i \in DOMAIN envs : envs'[i].parent = envs[i].parent
    OBVIOUS
  <2> QED
    BY <2>1 DEF Ups
<1>2. ASSUME NEW i \in DOMAIN envs
      PROVE  MapOf(i)' = IF i = e THEN Held(g) ELSE MapOf(i)
  <2>1. MapOf(i)' = Held(Entries(i)') /\ MapOf(i) = Held(Entries(i))
    BY DEF AllHeld
  <2>2. CASE i = e
    <3>1. Entries(i)' = g
      BY <2>2 DEF Entries, IsTree, IsRoot
    <3> QED
      BY <2>1, <2>2, <3>1
  <2>3. CASE i # e
    <3>1. Entries(i)' = Entries(i)
      BY <2>3 DEF Entries, IsTree, IsRoot
    <3> QED
      BY <2>1, <2>3, <3>1
  <2> QED
    BY <2>2, <2>3
<1>3. Binds' = [i \in DOMAIN envs |-> IF i = e THEN Held(g) ELSE MapOf(i)]
  BY <1>2 DEF Binds
<1>4. [Binds EXCEPT ![e] = Held(g)] = [i \in DOMAIN envs |-> IF i = e THEN Held(g) ELSE MapOf(i)]
  BY DEF Binds
<1> QED
  BY <1>1, <1>3, <1>4

LEMMA WrittenMap ==
    ASSUME Inv, AllHeld, AllHeld', NEW j \in DOMAIN envs, NEW o, NEW v \in Val,
           Within(j, o) # 0, envs' = WithValueAt(<<j, Within(j, o)>>, v)
    PROVE  /\ Ups' = Ups /\ o \in DOMAIN Binds[j]
           /\ Binds' = [Binds EXCEPT ![j] = [Binds[j] EXCEPT ![o] = v]]
<1> DEFINE n == Within(j, o)
           at == <<j, n>>
           es == Entries(j)
           g == IF IsTree(j) THEN envs'[j].tree ELSE envs'[j].cells
<1>1. n \in DOMAIN es /\ es[n].key = o /\ IsPlace(at)
  BY WithinFinds DEF IsPlace
<1>2. /\ DOMAIN envs' = DOMAIN envs /\ \A i \in DOMAIN envs : i # j => envs'[i] = envs[i]
      /\ envs'[j].kind = envs[j].kind /\ envs'[j].parent = envs[j].parent
      /\ IsTree(j) => Rewritten(envs[j].tree, envs'[j].tree, n, v)
      /\ ~IsTree(j) => Rewritten(envs[j].cells, envs'[j].cells, n, v)
  <2> DEFINE new == WithValueAt(at, v)
             e == at[1]
  <2>1. /\ new \in Seq(Env) /\ DOMAIN new = DOMAIN envs /\ Len(new) = Len(envs)
        /\ \A i \in DOMAIN envs : i # e => new[i] = envs[i]
        /\ new[e].kind = envs[e].kind /\ new[e].parent = envs[e].parent
        /\ IsTree(e) => /\ Rewritten(envs[e].tree, new[e].tree, at[2], v)
                        /\ new[e].cells = envs[e].cells
        /\ ~IsTree(e) => /\ Rewritten(envs[e].cells, new[e].cells, at[2], v)
                         /\ new[e].tree = envs[e].tree
    <3> HIDE DEF at, n
    <3> QED
      BY <1>1, ValueWritten
  <2>2. envs' = new /\ e = j /\ at[2] = n
    OBVIOUS
  <2> HIDE DEF new, e, at, n
  <2> QED
    BY <2>1, <2>2
<1>3. Rewritten(es, g, n, v)
  BY <1>2 DEF Entries
<1>4. Listed(es) /\ MapOf(j) = Held(es)
  BY DEF AllHeld
<1>5. \A i \in DOMAIN es : es[i] \in Node \/ es[i] \in Cell
  <2>1. envs[j].cells \in Seq(Cell) /\ envs[j].tree \in Seq(Node)
    BY DEF Inv, Envs, EnvOK, Env
  <2>2. CASE IsTree(j)
    BY <2>1, <2>2 DEF Entries
  <2>3. CASE ~IsTree(j)
    BY <2>1, <2>3 DEF Entries
  <2> QED
    BY <2>2, <2>3
<1>6. CellOf(es, o) = n
  <2>1. \A i \in DOMAIN es : es[i].key = o => n <= i
    <3>1. /\ IsTree(j) => \A i \in DOMAIN es : es[i].key = o => n = i
          /\ ~IsTree(j) => \A i \in DOMAIN es : es[i].key = o => n <= i
      BY WithinFinds
    <3>2. \A i \in DOMAIN es : i \in Nat
      BY <1>4 DEF Listed
    <3> QED
      BY <1>1, <3>1, <3>2
  <2> HIDE DEF es, n
  <2> QED
    BY <1>1, <1>4, <2>1, FirstCell
<1> HIDE DEF at, es, n, g
<1>7. Held(g) = [Held(es) EXCEPT ![o] = v]
  BY <1>1, <1>3, <1>4, <1>5, <1>6, HeldWritten
<1>8. Ups' = Ups /\ Binds' = [Binds EXCEPT ![j] = Held(g)]
  BY <1>2, OneMapChanged DEF g
<1>9. Binds[j] = Held(es)
  BY <1>4, Seen
<1>10. o \in DOMAIN Binds[j]
  BY <1>1, <1>9 DEF Held, Keys
<1> QED
  BY <1>7, <1>8, <1>9, <1>10

LEMMA OneMapMade ==
    ASSUME Inv, AllHeld, AllHeld', NEW f, envs' = Append(envs, f), f \in Env,
           f.parent # 0, NEW m,
           m = Held(IF f.kind = "module" THEN f.tree ELSE f.cells)
    PROVE  Ups' = Append(Ups, f.parent) /\ Binds' = Append(Binds, m)
<1> DEFINE N == Len(envs)
<1>1. /\ envs \in Seq(Env) /\ N \in Nat /\ DOMAIN envs = 1..N
      /\ Ups \in Seq(Nat) /\ Len(Ups) = N
  BY Seen DEF Inv
<1>2. /\ DOMAIN envs' = 1..(N + 1) /\ \A i \in 1..N : envs'[i] = envs[i]
      /\ envs'[N + 1] = f
  BY <1>1, AppendProperties
<1>3. f.parent \in Nat
  BY DEF Env
<1>4. Binds \in Seq({MapOf(i) : i \in 1..N}) /\ Len(Binds) = N
  <2> DEFINE V == {MapOf(i) : i \in 1..N}
             B == Binds
  <2>1. B \in [1..N -> V] /\ N \in Nat
    BY <1>1 DEF Binds
  <2> HIDE DEF V, B, N
  <2>2. B \in Seq(V) /\ Len(B) = N
    BY <2>1
  <2> QED
    BY <2>2 DEF V, B
<1> HIDE DEF N
<1>5. ASSUME NEW i \in 1..(N + 1)
      PROVE  /\ Ups'[i] = IF i = N + 1 THEN f.parent ELSE Ups[i]
             /\ Binds'[i] = IF i = N + 1 THEN m ELSE Binds[i]
  <2>1. Ups'[i] = envs'[i].parent /\ Binds'[i] = MapOf(i)' /\ MapOf(i)' = Held(Entries(i)')
    BY <1>2 DEF Ups, Binds, AllHeld
  <2>2. CASE i = N + 1
    <3>1. Entries(i)' = IF f.kind = "module" THEN f.tree ELSE f.cells
      BY <1>2, <2>2 DEF Entries, IsTree, IsRoot
    <3> QED
      BY <1>2, <2>1, <2>2, <3>1
  <2>3. CASE i # N + 1
    <3>1. i \in DOMAIN envs
      BY <1>1, <2>3
    <3>2. Entries(i)' = Entries(i)
      BY <1>1, <1>2, <3>1 DEF Entries, IsTree, IsRoot
    <3>3. Binds[i] = Held(Entries(i)) /\ Ups[i] = envs[i].parent
      BY <3>1 DEF AllHeld, Ups, Binds
    <3> QED
      BY <1>1, <1>2, <2>1, <2>3, <3>1, <3>2, <3>3
  <2> QED
    BY <2>2, <2>3
<1>6. Ups' = [i \in 1..(N + 1) |-> Ups'[i]] /\ Binds' = [i \in 1..(N + 1) |-> Binds'[i]]
  BY <1>2 DEF Ups, Binds
<1>7. Append(Ups, f.parent) = [i \in 1..(N + 1) |-> IF i = N + 1 THEN f.parent ELSE Ups[i]]
  BY <1>1, <1>3
<1>8. Append(Binds, m) = [i \in 1..(N + 1) |-> IF i = N + 1 THEN m ELSE Binds[i]]
  <2> DEFINE B == Binds
  <2> HIDE DEF B
  <2>1. B \in Seq({MapOf(i) : i \in 1..N} \cup {m}) /\ Len(B) = N /\ N \in Nat
    BY <1>1, <1>4 DEF B
  <2>2. Append(B, m) = [i \in 1..(N + 1) |-> IF i = N + 1 THEN m ELSE B[i]]
    BY <2>1
  <2> QED
    BY <2>2 DEF B
<1> QED
  BY <1>5, <1>6, <1>7, <1>8

-----------------------------------------------------------------------------
(* The initial state and each step are the map's.                            *)
LEMMA HeldNothing == Held(<<>>) = <<>>
<1>1. Keys(<<>>) = {}
  BY DEF Keys
<1>2. Held(<<>>) = [k \in {} |-> <<>>[CellOf(<<>>, k)].val]
  BY <1>1 DEF Held
<1> QED
  BY <1>2

LEMMA StartsByTheMap ==
    ASSUME Inv, AllHeld, Init
    PROVE  Map!Init
<1> DEFINE N == Cardinality(program.bases)
<1>1. N \in 1..Cardinality(Bases)
  <2>1. program.bases \subseteq Bases /\ IsFiniteSet(Bases) /\ program.bases # {}
    BY ScopesAssumption DEF Init
  <2>2. IsFiniteSet(program.bases) /\ N <= Cardinality(Bases)
    BY <2>1, FS_Subset
  <2>3. N \in Nat /\ Cardinality(Bases) \in Nat /\ N # 0
    BY <2>1, <2>2, FS_CardinalityType, FS_EmptySet
  <2> QED
    BY <2>2, <2>3
<1>2. envs = [i \in 1..N |-> Root]
  BY DEF Init
<1> HIDE DEF N
<1>3. Ups = [i \in 1..N |-> 0]
  BY <1>2 DEF Ups, Root
<1>4. ASSUME NEW i \in 1..N PROVE MapOf(i) = <<>>
  <2>1. Entries(i) = <<>>
    BY <1>2 DEF Entries, Root
  <2>2. MapOf(i) = Held(Entries(i))
    BY <1>2 DEF AllHeld
  <2> QED
    BY <2>1, <2>2, HeldNothing
<1>5. Binds = [i \in 1..N |-> <<>>]
  BY <1>2, <1>4 DEF Binds
<1> QED
  <2>1. syms = <<>> /\ did = <<>>
    BY DEF Init, Nil
  <2>2. \E n \in 1..Cardinality(Bases) :
            Ups = [i \in 1..n |-> 0] /\ Binds = [i \in 1..n |-> <<>>]
    BY <1>1, <1>3, <1>5
  <2>3. Map!Cardinality(Bases) = Cardinality(Bases)
    BY DEF Map!Cardinality, Cardinality
  <2> QED
    BY <2>1, <2>2, <2>3 DEF Map!Init, Map!Nil, Ups, Binds

LEMMA InternsByTheMap ==
    ASSUME Inv, AllHeld, AllHeld', NEW b \in Bases, NEW s, Intern(b, s)
    PROVE  Map!Intern(b, s)
<1>1. Map!Own(b, s) = {}
  BY OwnInTable DEF Intern
<1>2. Ups' = Ups /\ Binds' = Binds
  BY SameMaps DEF Intern
<1> QED
  BY <1>1, <1>2 DEF Intern, Map!Intern, Ups, Binds

LEMMA CallsByTheMap ==
    ASSUME Inv, AllHeld, AllHeld', NEW e \in DOMAIN envs, NEW ps \in Params,
           NEW rest \in {0} \cup DOMAIN syms, NEW vs \in Args, Extend(e, ps, rest, vs)
    PROVE  Map!Call(e, ps, rest, vs)
<1> DEFINE cs == CellsFor(ps, rest, vs)
           f == Frame(e, cs)
           m == Held(cs)
<1>1. \A i \in DOMAIN ps : ps[i] \in DOMAIN syms
  BY DEF Extend
<1>2. IsCallCells(cs, ps, rest, vs)
  BY <1>1, CellsForFacts
<1>3. \A k \in DOMAIN syms : k \in Nat /\ k # 0
  BY DEF Inv
<1>4. m = Map!Matched(ps, rest, vs)
  <2> HIDE DEF cs
  <2>1. rest \in Nat /\ \A i \in DOMAIN ps : ps[i] \in Nat /\ ps[i] # 0
    BY <1>1, <1>3
  <2> QED
    BY <1>2, <2>1, HeldMatched
<1> HIDE DEF cs
<1>5. /\ f.kind = "frame" /\ f.parent = e /\ f.cells = cs /\ f.tree = <<>>
      /\ f \in Env /\ e # 0
  BY <1>2, Seen DEF Frame, Env, IsCallCells
<1>6. envs' = Append(envs, f) /\ syms' = syms
  BY DEF Extend, Made, cs
<1> HIDE DEF f, m
<1>7. Ups' = Append(Ups, e) /\ Binds' = Append(Binds, m)
  <2>1. m = Held(IF f.kind = "module" THEN f.tree ELSE f.cells)
    BY <1>5 DEF m
  <2> QED
    BY <1>5, <1>6, <2>1, OneMapMade
<1>8. did' = <<"call", e, ps, rest, vs>>
  BY DEF Extend
<1> QED
  BY <1>4, <1>6, <1>7, <1>8 DEF Map!Call, Map!Enter, Ups, Binds

LEMMA ModulesByTheMap ==
    ASSUME Inv, AllHeld, AllHeld', NEW e \in DOMAIN envs, MakeModule(e)
    PROVE  Map!Module(e)
<1> DEFINE f == Scope(e)
           m == <<>>
<1>1. /\ f.kind = "module" /\ f.parent = e /\ f.cells = <<>> /\ f.tree = <<>>
      /\ f \in Env /\ e # 0
  BY Seen DEF Scope, Env
<1>2. envs' = Append(envs, f) /\ syms' = syms /\ did' = <<"module", e>>
  BY DEF MakeModule, Made
<1> HIDE DEF f
<1>3. Ups' = Append(Ups, e) /\ Binds' = Append(Binds, <<>>)
  <2>1. m = Held(IF f.kind = "module" THEN f.tree ELSE f.cells)
    BY <1>1, HeldNothing
  <2> QED
    BY <1>1, <1>2, <2>1, OneMapMade
<1> QED
  BY <1>2, <1>3 DEF Map!Module, Map!Enter, Ups, Binds

LEMMA BindsByTheMap ==
    ASSUME Inv, AllHeld, AllHeld', NEW e \in DOMAIN envs, NEW k \in DOMAIN syms, NEW v \in Atoms,
           Bind(e, k, v)
    PROVE  Map!Bind(e, k, v)
<1>1. v \in Val /\ syms' = syms /\ did' = <<"bind", e, k, v>>
  BY DEF Bind, Val
<1>2. Binds[e] = Held(Entries(e)) /\ Listed(Entries(e)) /\ e \in DOMAIN Binds
  BY Seen DEF AllHeld
<1>3. Ups' = Ups /\ Binds' = [Binds EXCEPT ![e] = Map!With(Binds[e], k, v)]
  <2>1. CASE Within(e, k) # 0
    <3>1. envs' = WithValueAt(<<e, Within(e, k)>>, v)
      BY <2>1 DEF Bind
    <3>2. /\ Ups' = Ups /\ k \in DOMAIN Binds[e]
          /\ Binds' = [Binds EXCEPT ![e] = [Binds[e] EXCEPT ![k] = v]]
      BY <1>1, <2>1, <3>1, WrittenMap
    <3>3. [Binds[e] EXCEPT ![k] = v] = Map!With(Binds[e], k, v)
      <4> DEFINE M == Binds[e]
      <4>1. M = [j \in DOMAIN M |-> M[j]]
        BY <1>2 DEF Held
      <4>2. k \in DOMAIN M
        BY <3>2
      <4> HIDE DEF M
      <4>3. [M EXCEPT ![k] = v] = [j \in {k} \cup DOMAIN M |-> IF j = k THEN v ELSE M[j]]
        BY <4>1, <4>2
      <4> QED
        BY <4>3 DEF Map!With, M
    <3> QED
      BY <3>2, <3>3
  <2>2. CASE Within(e, k) = 0 /\ IsTree(e)
    <3> DEFINE t == envs[e].tree
               u == Attached(t, k, Name(k), v)
               g == WithTree(envs[e], u)
    <3>1. IsAdded(t, u, k, v)
      BY <1>1, <2>2, BoundInTree
    <3>2. Entries(e) = t /\ Listed(t) /\ k \notin Keys(t)
      <4>1. Entries(e) = t
        BY <2>2 DEF Entries
      <4>2. \A n \in DOMAIN t : t[n].key # k
        BY <2>2, <4>1, WithinFinds
      <4> QED
        BY <1>2, <4>1, <4>2 DEF Keys
    <3>3. envs' = [envs EXCEPT ![e] = g]
      BY <2>2 DEF Bind, WithTree
    <3>4. envs[e] \in Env
      BY DEF Inv, Envs, EnvOK
    <3>5. g.parent = envs[e].parent /\ g.kind = envs[e].kind /\ g.tree = u
      BY <3>4 DEF Env, WithTree
    <3> HIDE DEF u, t, g
    <3>6. /\ DOMAIN envs' = DOMAIN envs /\ envs'[e] = g
          /\ \A i \in DOMAIN envs : i # e => envs'[i] = envs[i]
      BY <3>3
    <3>7. Held(u) = Map!With(Held(t), k, v)
      BY <3>1, <3>2, HeldAdded
    <3>8. u = IF IsTree(e) THEN envs'[e].tree ELSE envs'[e].cells
      BY <2>2, <3>5, <3>6
    <3>9. Ups' = Ups /\ Binds' = [Binds EXCEPT ![e] = Held(u)]
      BY <3>5, <3>6, <3>8, OneMapChanged
    <3> QED
      BY <1>2, <3>2, <3>7, <3>9
  <2>3. CASE Within(e, k) = 0 /\ ~IsTree(e)
    <3> DEFINE cs == envs[e].cells
               ds == InFront(cs, k, v)
               g == WithCells(envs[e], ds)
    <3>1. IsInFront(cs, ds, k, v)
      BY <1>1, <2>3, BoundInFront
    <3>2. Entries(e) = cs /\ Listed(cs)
      BY <1>2, <2>3 DEF Entries
    <3>3. envs' = [envs EXCEPT ![e] = g]
      BY <2>3 DEF Bind, WithCells, InFront
    <3>4. envs[e] \in Env
      BY DEF Inv, Envs, EnvOK
    <3>5. g.parent = envs[e].parent /\ g.kind = envs[e].kind /\ g.cells = ds
      BY <3>4 DEF Env, WithCells
    <3> HIDE DEF ds, cs, g
    <3>6. /\ DOMAIN envs' = DOMAIN envs /\ envs'[e] = g
          /\ \A i \in DOMAIN envs : i # e => envs'[i] = envs[i]
      BY <3>3
    <3>7. Held(ds) = Map!With(Held(cs), k, v)
      BY <3>1, <3>2, HeldInFront
    <3>8. ds = IF IsTree(e) THEN envs'[e].tree ELSE envs'[e].cells
      BY <2>3, <3>5, <3>6
    <3>9. Ups' = Ups /\ Binds' = [Binds EXCEPT ![e] = Held(ds)]
      BY <3>5, <3>6, <3>8, OneMapChanged
    <3> QED
      BY <1>2, <3>2, <3>7, <3>9
  <2> QED
    BY <2>1, <2>2, <2>3
<1> QED
  BY <1>1, <1>2, <1>3 DEF Map!Bind, Ups, Binds

LEMMA EvalsByTheMap ==
    ASSUME Inv, AllHeld, AllHeld', NEW b \in Bases, NEW e \in DOMAIN envs, NEW k \in DOMAIN syms,
           Eval(b, e, k)
    PROVE  \E answer \in Map!Bound \cup {Unbound} : Map!Eval(b, e, k, answer)
<1> DEFINE at == Lookup(b, e, k)
           meant == Map!Meant(Binds, b, e, k)
           answer == IF Found(at) THEN ValueAt(at) ELSE Unbound
<1>1. did' = <<"eval", b, e, k, answer>> /\ syms' = syms
  BY DEF Eval
<1>2. Ups' = Ups /\ Binds' = Binds
  BY SameMaps DEF Eval
<1>3. /\ ~Found(at) => meant = {}
      /\ Found(at) => \E j \in DOMAIN envs, o \in Nat :
             <<j, o>> \in meant /\ Within(j, o) # 0 /\ at = <<j, Within(j, o)>>
  BY MeantIsFound DEF MeantAs
<1> HIDE DEF at, meant
<1>4. CASE ~Found(at)
  BY <1>1, <1>2, <1>3, <1>4 DEF Map!Eval, Ups, Binds, meant
<1>5. CASE Found(at)
  <2>1. PICK j \in DOMAIN envs, o \in Nat :
             <<j, o>> \in meant /\ Within(j, o) # 0 /\ at = <<j, Within(j, o)>>
    BY <1>3, <1>5
  <2>2. ValueAt(at) = Entries(j)[Within(j, o)].val
    BY <2>1 DEF ValueAt, Entries
  <2>3. Binds[j][o] = Entries(j)[Within(j, o)].val /\ o \in DOMAIN Binds[j]
        /\ j \in DOMAIN Binds
    BY <2>1, Seen, MapsWithin
  <2>4. answer = Binds[j][o]
    BY <1>5, <2>2, <2>3
  <2>5. answer \in Map!Bound
    BY <2>3, <2>4 DEF Map!Bound, Binds
  <2> DEFINE at2 == <<j, o>>
  <2>6. at2 \in meant /\ answer = Binds[at2[1]][at2[2]]
    BY <2>1, <2>4
  <2> HIDE DEF at2, answer
  <2>7. Map!Eval(b, e, k, answer)
    BY <1>1, <1>2, <2>6 DEF Map!Eval, Ups, Binds, meant
  <2> QED
    BY <2>5, <2>7
<1> QED
  BY <1>4, <1>5

LEMMA SetsByTheMap ==
    ASSUME Inv, AllHeld, AllHeld', NEW b \in Bases, NEW e \in DOMAIN envs, NEW k \in DOMAIN syms,
           NEW v \in Atoms, Set(b, e, k, v)
    PROVE  \E answer \in Atoms \cup {Unbound} : Map!Set(b, e, k, v, answer)
<1> DEFINE at == Lookup(b, e, k)
           meant == Map!Meant(Binds, b, e, k)
           answer == IF Found(at) THEN v ELSE Unbound
<1>1. did' = <<"set", b, e, k, answer>> /\ syms' = syms
  BY DEF Set
<1>2. /\ ~Found(at) => meant = {}
      /\ Found(at) => \E j \in DOMAIN envs, o \in Nat :
             <<j, o>> \in meant /\ Within(j, o) # 0 /\ at = <<j, Within(j, o)>>
  BY MeantIsFound DEF MeantAs
<1>3. envs' = IF Found(at) THEN WithValueAt(at, v) ELSE envs
  BY DEF Set
<1> HIDE DEF at, meant
<1>4. CASE ~Found(at)
  <2>1. Ups' = Ups /\ Binds' = Binds
    BY <1>3, <1>4, SameMaps
  <2>2. Map!Set(b, e, k, v, Unbound)
    BY <1>1, <1>2, <1>4, <2>1 DEF Map!Set, Ups, Binds, meant
  <2> QED
    BY <2>2
<1>5. CASE Found(at)
  <2>1. PICK j \in DOMAIN envs, o \in Nat :
             <<j, o>> \in meant /\ Within(j, o) # 0 /\ at = <<j, Within(j, o)>>
    BY <1>2, <1>5
  <2>2. envs' = WithValueAt(<<j, Within(j, o)>>, v) /\ v \in Val
    BY <1>3, <1>5, <2>1 DEF Val
  <2>3. Ups' = Ups /\ Binds' = [Binds EXCEPT ![j] = [Binds[j] EXCEPT ![o] = v]]
    BY <2>1, <2>2, WrittenMap
  <2> DEFINE m == <<j, o>>
  <2>4. m \in meant /\ m[1] = j /\ m[2] = o
    BY <2>1
  <2> HIDE DEF m
  <2>5. Binds' = [Binds EXCEPT ![m[1]][m[2]] = v]
    BY <2>3, <2>4
  <2>6. did' = <<"set", b, e, k, v>>
    BY <1>1, <1>5
  <2>7. Map!Set(b, e, k, v, v)
    BY <1>1, <2>3, <2>4, <2>5, <2>6 DEF Map!Set, Ups, Binds, meant
  <2> QED
    BY <2>7
<1> QED
  BY <1>4, <1>5

LEMMA StepsByTheMap ==
    ASSUME Inv, AllHeld, AllHeld', [Next]_vars
    PROVE  [Map!Next]_(Map!vars)
<1>1. DOMAIN [e \in DOMAIN envs |-> envs[e].parent] = DOMAIN envs
  OBVIOUS
<1>2. CASE UNCHANGED vars
  <2>1. Ups' = Ups /\ Binds' = Binds
    BY <1>2, SameMaps DEF vars
  <2> QED
    BY <1>2, <2>1 DEF vars, Map!vars, Ups, Binds
<1>3. CASE Next
  <2>1. /\ program.bases \subseteq Bases /\ program.names \subseteq Spellings
        /\ program.params \subseteq Params /\ program.args \subseteq Args
    BY ScopesAssumption DEF Inv
  <2>2. ASSUME NEW b \in program.bases, NEW s \in program.names, Intern(b, s)
        PROVE  Map!Next
    <3>1. Map!Intern(b, s)
      BY <2>1, <2>2, InternsByTheMap
    <3> QED
      BY <2>1, <3>1 DEF Map!Next
  <2>3. ASSUME NEW e \in DOMAIN envs, NEW ps \in program.params,
               NEW rest \in {0} \cup DOMAIN syms, NEW vs \in program.args,
               Extend(e, ps, rest, vs)
        PROVE  Map!Next
    <3>1. Map!Call(e, ps, rest, vs)
      BY <2>1, <2>3, CallsByTheMap
    <3> QED
      BY <1>1, <2>1, <3>1 DEF Map!Next
  <2>4. ASSUME NEW e \in DOMAIN envs, MakeModule(e) PROVE Map!Next
    <3>1. Map!Module(e)
      BY <2>4, ModulesByTheMap
    <3> QED
      BY <1>1, <3>1 DEF Map!Next
  <2>5. ASSUME NEW e \in DOMAIN envs, NEW k \in DOMAIN syms, NEW v \in Atoms, Bind(e, k, v)
        PROVE  Map!Next
    <3>1. Map!Bind(e, k, v)
      BY <2>5, BindsByTheMap
    <3> QED
      BY <1>1, <3>1 DEF Map!Next
  <2>6. ASSUME NEW e \in DOMAIN envs, NEW k \in DOMAIN syms, NEW b \in program.bases,
               Eval(b, e, k)
        PROVE  Map!Next
    <3>1. \E answer \in Map!Bound \cup {Unbound} : Map!Eval(b, e, k, answer)
      BY <2>1, <2>6, EvalsByTheMap
    <3> QED
      BY <1>1, <2>1, <3>1 DEF Map!Next
  <2>7. ASSUME NEW e \in DOMAIN envs, NEW k \in DOMAIN syms, NEW b \in program.bases,
               NEW v \in Atoms, Set(b, e, k, v)
        PROVE  Map!Next
    <3>1. \E answer \in Atoms \cup {Unbound} : Map!Set(b, e, k, v, answer)
      BY <2>1, <2>7, SetsByTheMap
    <3> QED
      BY <1>1, <2>1, <3>1 DEF Map!Next
  <2> QED
    BY <1>3, <2>2, <2>3, <2>4, <2>5, <2>6, <2>7 DEF Next, Step
<1> QED
  BY <1>2, <1>3

(* Lookup, binding and assignment over chains of trees and lists are those   *)
(* of maps: the nearest binding hides the others, a symbol of another base   *)
(* reads the evaluating base's own of its spelling at the root, an assignment*)
(* changes the one binding an evaluation would have read.                    *)
THEOREM EnvironmentsAreMaps == Spec => ImplementsMap
<1>1. Inv /\ AllHeld /\ Init => Map!Init
  BY StartsByTheMap
<1>2. Inv /\ AllHeld /\ AllHeld' /\ [Next]_vars => [Map!Next]_(Map!vars)
  BY StepsByTheMap
<1>3. Spec => [](Inv /\ AllHeld)
  BY KeptInShape, MapsHeld, PTL
<1> QED
  BY <1>1, <1>2, <1>3, PTL DEF Spec, ImplementsMap, Map!Spec
=============================================================================
