--------------------------- MODULE EvaluatorProofs ---------------------------
(* Whatever the program does, errors, deferred tails and re-entered          *)
(* continuations included, the root chain, the handlers and the save-stack   *)
(* are those of the C frames in progress, and a deferred tail is its own     *)
(* activation's.  And Evaluator implements EvalContract, for every program   *)
(* that writes neither a tail that is nil or untyped nor a tail-eval where   *)
(* x_eval has kept no environment.                                           *)
EXTENDS EvaluatorContract, FiniteSetTheorems, SequenceTheorems, TLAPS

(* What a frame must hold to be come back to: the chain and the save-stack a *)
(* guard unwinds to, the handlers it displaced, and the save-stack a         *)
(* top-level bracket parked are those of the frames below.                   *)
Keeps(f, d, nodes, guards, pushes) ==
    /\ f.ph = "guarded" =>
          Lists(f.roots, nodes \cup {[at |-> d, what |-> "list"], [at |-> d, what |-> "tco"]})
    /\ f.ph \in {"guarded", "handling"} => Installed(f.prev, guards)
    /\ f.ph \in {"guarded"} \cup Brackets => Len(f.stk) = pushes

Pushes(fs, n) == Cardinality(Pushed(fs, n))
KeepsAt(fs, d) == Keeps(fs[d], d, NodesUpTo(fs, d - 1), GuardsUpTo(fs, d - 1), Pushes(fs, d - 1))

(* Chain, handlers and save-stack against a stack of n frames.               *)
InStep(fs, n, c, hs, ss) ==
    /\ Lists(c, NodesUpTo(fs, n))
    /\ Installed(hs, GuardsUpTo(fs, n))
    /\ Len(ss) = Pushes(fs, n)
    /\ \A d \in 1..n : KeepsAt(fs, d)

(* A frame that will make its saved environment current has one; a handler   *)
(* body's frame will make its parent current.                                *)
Scoped == {"opbody", "apbody", "applied", "handling"} \cup Brackets
ScopeKept(f, up) ==
    f.ph \in Scoped => f.saved \in Env /\ (f.ph = "handling" => up[f.saved] \in Env)

Frames == [Slots -> Frame]

Stacked ==
    /\ frames \in Frames
    /\ depth \in 0..MaxDepth
    /\ chain \in Seq(Node)
    /\ handler \in Seq(Handler)
    /\ InStep(frames, depth, chain, handler, saveStack)
    /\ \A d \in Slots : ScopeKept(frames[d], parent)

(* The continuation the program holds is a stack in step as well.            *)
Continued ==
    /\ cont \in Continuation \cup {NoCont}
    /\ cont # NoCont =>
          /\ InStep(cont.frames, cont.depth, cont.chain, cont.handler, cont.saveStack)
          /\ cont.frames[cont.depth].ph = "list"
          /\ \A d \in Slots : ScopeKept(cont.frames[d], parent)

Values ==
    /\ program \in Programs
    /\ env \in Env
    /\ saveStack \in Seq(Env)
    /\ tcoExpr \in BOOLEAN
    /\ tcoEnv \in EnvOrNil
    /\ parent \in [Env -> EnvOrNil]
    /\ swept \subseteq Env
    /\ exited \in BOOLEAN

Inv == Stacked /\ Values /\ TcoClean /\ Continued

-----------------------------------------------------------------------------
(* Induction on the naturals, by the least of a set of them.                 *)
LEMMA Least ==
    ASSUME NEW T, T \subseteq Nat, T # {}
    PROVE  \E x \in T : \A y \in T : x <= y
<1> DEFINE Less == {p \in Nat \X Nat : p[1] < p[2]}
<1>1. IsWellFoundedOn(OpToRel(<, Nat), Nat)
  BY NatLessThanWellFounded
<1>2. OpToRel(<, Nat) = Less
  BY DEF OpToRel
<1>3. \E x \in T : \A y \in T : <<y, x>> \notin Less
  <2> HIDE DEF Less
  <2> QED
    BY <1>1, <1>2, WFMin
<1>4. PICK x \in T : \A y \in T : <<y, x>> \notin Less
  BY <1>3
<1>5. ASSUME NEW y \in T PROVE x <= y
  <2>1. x \in Nat /\ y \in Nat
    OBVIOUS
  <2>2. y < x => <<y, x>> \in Less
    BY <2>1
  <2> QED
    BY <1>4, <2>1, <2>2
<1> QED
  BY <1>5

(* A recursion on 0..N whose steps are those of a function is well defined.  *)
Goes(g, s, f, N) == g[0] = s /\ \A k \in 1..N : g[k] = f[g[k-1]]

LEMMA Iterated ==
    ASSUME NEW D, NEW s \in D, NEW f \in [D -> D], NEW N \in Nat
    PROVE  \E g \in [0..N -> D] : Goes(g, s, f, N)
<1> DEFINE Ok(n, g) == g[0] = s /\ \A k \in 1..n : g[k] = f[g[k-1]]
           T == {n \in Nat : ~ \E g \in [0..n -> D] : Ok(n, g)}
<1>1. T = {}
  <2> SUFFICES ASSUME T # {} PROVE FALSE
    OBVIOUS
  <2>1. PICK n \in T : \A m \in T : n <= m
    BY Least
  <2>2. n # 0
    <3>1. [k \in 0..0 |-> s] \in [0..0 -> D] /\ Ok(0, [k \in 0..0 |-> s])
      OBVIOUS
    <3> QED
      BY <3>1
  <2>3. PICK g \in [0..n-1 -> D] : Ok(n - 1, g)
    <3>1. n - 1 \in Nat /\ ~(n <= n - 1)
      BY <2>2
    <3>2. n - 1 \notin T
      <4> HIDE DEF T
      <4> QED
        BY <2>1, <3>1
    <3> QED
      BY <3>1, <3>2
  <2> DEFINE h == [k \in 0..n |-> IF k = n THEN f[g[n-1]] ELSE g[k]]
  <2>4. h \in [0..n -> D]
    BY <2>2
  <2>5. Ok(n, h)
    <3>1. h[0] = s
      BY <2>2, <2>3
    <3>2. ASSUME NEW k \in 1..n PROVE h[k] = f[h[k-1]]
      <4>1. CASE k = n
        BY <4>1, <2>2
      <4>2. CASE k # n
        BY <4>2, <2>2, <2>3
      <4> QED
        BY <4>1, <4>2
    <3> QED
      BY <3>1, <3>2
  <2> QED
    BY <2>4, <2>5
<1> QED
  BY <1>1 DEF Goes

(* What the collector reaches from S, one generation of parents at a time.   *)
Climbs(S, u) ==
    LET N == Cardinality(Env)
    IN  /\ u \in [0..N -> SUBSET Env]
        /\ u[0] = S \ {NoEnv}
        /\ \A n \in 1..N : u[n] = u[n-1] \cup ({parent[e] : e \in u[n-1]} \ {NoEnv})
        /\ Closure(S) = u[N]

LEMMA ClosureClimbs ==
    ASSUME NEW S \in SUBSET EnvOrNil, parent \in [Env -> EnvOrNil]
    PROVE  \E u : Climbs(S, u)
<1> DEFINE f == [A \in SUBSET Env |-> A \cup ({parent[e] : e \in A} \ {NoEnv})]
           N == Cardinality(Env)
           Up(u) == [n \in 0..N |-> IF n = 0 THEN S \ {NoEnv}
                                    ELSE u[n-1] \cup ({parent[e] : e \in u[n-1]} \ {NoEnv})]
<1>1. N \in Nat /\ NoEnv \notin Env
  BY EnvAssumption, FS_CardinalityType
<1>2. S \ {NoEnv} \in SUBSET Env
  BY DEF EnvOrNil
<1>3. f \in [SUBSET Env -> SUBSET Env]
  BY DEF EnvOrNil
<1>4. PICK g \in [0..N -> SUBSET Env] :
         g[0] = S \ {NoEnv} /\ \A k \in 1..N : g[k] = f[g[k-1]]
  <2> DEFINE D == SUBSET Env
             s == S \ {NoEnv}
  <2>1. s \in D /\ f \in [D -> D] /\ N \in Nat
    BY <1>1, <1>2, <1>3
  <2> HIDE DEF f, N, D, s
  <2>2. \E g \in [0..N -> D] : Goes(g, s, f, N)
    BY <2>1, Iterated
  <2> QED
    BY <2>2 DEF Goes, D, s
<1>5. g = Up(g)
  <2>1. ASSUME NEW n \in 0..N, n # 0
        PROVE  g[n] = g[n-1] \cup ({parent[e] : e \in g[n-1]} \ {NoEnv})
    <3>1. n \in 1..N /\ g[n-1] \in SUBSET Env
      BY <1>1, <2>1
    <3> QED
      BY <1>4, <3>1
  <2> HIDE DEF f, N
  <2> QED
    BY <1>4, <2>1
<1> DEFINE u == CHOOSE v : v = Up(v)
<1>6. u = Up(u)
  <2> HIDE DEF Up
  <2> QED
    BY <1>5
<1>7. Closure(S) = u[N]
  BY DEF Closure
<1> DEFINE Ok(n) == S \ {NoEnv} \subseteq u[n] /\ u[n] \subseteq Env
           T == {n \in 0..N : ~Ok(n)}
<1>8. T = {}
  <2> SUFFICES ASSUME T # {} PROVE FALSE
    OBVIOUS
  <2>1. PICK n \in T : \A m \in T : n <= m
    <3>1. T \subseteq Nat
      BY <1>1
    <3> QED
      BY <3>1, Least
  <2>2. n \in 0..N /\ ~Ok(n)
    BY <2>1
  <2>3. u[n] = IF n = 0 THEN S \ {NoEnv} ELSE u[n-1] \cup ({parent[e] : e \in u[n-1]} \ {NoEnv})
    <3> HIDE DEF u
    <3> QED
      BY <1>6, <2>2
  <2>4. n # 0
    <3> HIDE DEF u
    <3> QED
      BY <1>2, <2>2, <2>3
  <2>5. Ok(n - 1)
    <3>1. n - 1 \in 0..N /\ ~(n <= n - 1)
      BY <1>1, <2>2, <2>4
    <3>2. n - 1 \notin T
      <4> HIDE DEF T
      <4> QED
        BY <2>1, <3>1
    <3> QED
      BY <3>1, <3>2
  <2>6. Ok(n)
    <3> HIDE DEF u
    <3>1. \A e \in u[n-1] : parent[e] \in EnvOrNil
      BY <2>5
    <3> QED
      BY <2>3, <2>4, <2>5, <3>1 DEF EnvOrNil
  <2> QED
    BY <2>2, <2>6
<1>9. u \in [0..N -> SUBSET Env]
  <2>1. ASSUME NEW n \in 0..N PROVE u[n] \in SUBSET Env
    <3>1. Ok(n)
      <4> HIDE DEF Ok, N
      <4> QED
        BY <1>8, <2>1
    <3> HIDE DEF u, N
    <3> QED
      BY <3>1
  <2>2. u = [n \in 0..N |-> u[n]]
    <3>1. Up(u) = [n \in 0..N |-> Up(u)[n]]
      <4> HIDE DEF u
      <4> QED
        OBVIOUS
    <3> HIDE DEF u, Up, N
    <3> QED
      BY <1>6, <3>1
  <2> HIDE DEF u, N
  <2> QED
    BY <2>1, <2>2
<1>10. ASSUME NEW n \in 1..N
       PROVE  u[n] = u[n-1] \cup ({parent[e] : e \in u[n-1]} \ {NoEnv})
  <2>1. n \in 0..N /\ n # 0
    BY <1>1
  <2> HIDE DEF u
  <2> QED
    BY <1>6, <2>1
<1>11. u[0] = S \ {NoEnv}
  <2>1. 0 \in 0..N
    BY <1>1
  <2> HIDE DEF u
  <2> QED
    BY <1>6, <2>1
<1> QED
  <2> HIDE DEF u, Up
  <2> QED
    BY <1>7, <1>9, <1>10, <1>11 DEF Climbs

(* It is environments, those it starts from among them.                      *)
LEMMA ClosureType ==
    ASSUME NEW S \in SUBSET EnvOrNil, parent \in [Env -> EnvOrNil]
    PROVE  Closure(S) \subseteq Env /\ S \ {NoEnv} \subseteq Closure(S)
<1>1. PICK u : Climbs(S, u)
  BY ClosureClimbs
<1> DEFINE N == Cardinality(Env)
           T == {n \in Nat : n <= N /\ ~(u[0] \subseteq u[n])}
<1>2. /\ N \in Nat /\ u \in [0..N -> SUBSET Env] /\ u[0] = S \ {NoEnv} /\ Closure(S) = u[N]
      /\ \A n \in 1..N : u[n-1] \subseteq u[n]
  BY <1>1, EnvAssumption, FS_CardinalityType DEF Climbs
<1> HIDE DEF N
<1>3. T = {}
  <2> SUFFICES ASSUME T # {} PROVE FALSE
    OBVIOUS
  <2>1. PICK n \in T : \A m \in T : n <= m
    BY Least
  <2>2. n # 0 /\ n \in 1..N
    BY <1>2
  <2>3. n - 1 \in Nat /\ n - 1 <= N /\ ~(n <= n - 1)
    BY <1>2, <2>2
  <2>4. n - 1 \notin T
    <3> HIDE DEF T
    <3> QED
      BY <2>1, <2>3
  <2> QED
    BY <1>2, <2>2, <2>3, <2>4
<1>4. u[0] \subseteq u[N] /\ u[N] \in SUBSET Env
  BY <1>2, <1>3
<1> QED
  BY <1>2, <1>4

(* It is closed under parents: there are no more generations than there are  *)
(* environments.                                                             *)
LEMMA ClosureUp ==
    ASSUME NEW S \in SUBSET EnvOrNil, parent \in [Env -> EnvOrNil],
           NEW e \in Closure(S), parent[e] # NoEnv
    PROVE  parent[e] \in Closure(S)
<1>1. PICK u : Climbs(S, u)
  BY ClosureClimbs
<1> DEFINE N == Cardinality(Env)
           Up(A) == A \cup ({parent[x] : x \in A} \ {NoEnv})
           Short(n) == ~(n <= Cardinality(u[n]))
<1>2. /\ N \in Nat /\ IsFiniteSet(Env) /\ u \in [0..N -> SUBSET Env] /\ Closure(S) = u[N]
      /\ \A n \in 1..N : u[n] = Up(u[n-1])
  BY <1>1, EnvAssumption, FS_CardinalityType DEF Climbs
<1>3. \A A \in SUBSET Env : /\ IsFiniteSet(A) /\ Cardinality(A) \in Nat /\ Cardinality(A) <= N
                            /\ Up(A) \in SUBSET Env /\ A \subseteq Up(A)
  <2>1. \A A \in SUBSET Env : IsFiniteSet(A) /\ Cardinality(A) \in Nat /\ Cardinality(A) <= N
    BY <1>2, FS_Subset, FS_CardinalityType
  <2>2. \A A \in SUBSET Env : Up(A) \in SUBSET Env /\ A \subseteq Up(A)
    BY DEF EnvOrNil
  <2> QED
    BY <2>1, <2>2
<1>4. \A A \in SUBSET Env : Up(A) # A => Cardinality(A) + 1 <= Cardinality(Up(A))
  <2> SUFFICES ASSUME NEW A \in SUBSET Env, Up(A) # A
               PROVE  Cardinality(A) + 1 <= Cardinality(Up(A))
    OBVIOUS
  <2> HIDE DEF Up
  <2>1. PICK x \in Up(A) : x \notin A
    BY <1>3
  <2>2. A \cup {x} \subseteq Up(A) /\ IsFiniteSet(Up(A)) /\ IsFiniteSet(A)
    BY <1>3, <2>1
  <2>3. Cardinality(A \cup {x}) = Cardinality(A) + 1
    BY <2>1, <2>2, FS_AddElement
  <2> QED
    BY <2>2, <2>3, FS_Subset
<1> HIDE DEF N, Up
<1>5. ASSUME Up(u[N]) # u[N] PROVE FALSE
  <2>1. \A n \in 0..N : Up(u[n]) # u[n]
    <3> DEFINE M == {m \in Nat : m <= N /\ Up(u[N-m]) = u[N-m]}
    <3> SUFFICES ASSUME M # {} PROVE FALSE
      <4>1. \A n \in 0..N : N - n \in Nat /\ N - n <= N /\ N - (N - n) = n
        BY <1>2
      <4> QED
        BY <4>1
    <3>1. PICK m \in M : \A i \in M : m <= i
      BY Least
    <3>2. m # 0
      <4>1. N - 0 = N
        BY <1>2
      <4> QED
        BY <1>5, <4>1
    <3>3. m - 1 \in Nat /\ m - 1 <= N /\ ~(m <= m - 1) /\ N - (m - 1) \in 1..N
          /\ N - (m - 1) - 1 = N - m /\ Up(u[N-m]) = u[N-m]
      BY <1>2, <3>2
    <3>4. u[N-(m-1)] = u[N-m]
      BY <1>2, <3>3
    <3>5. m - 1 \in M
      BY <3>3, <3>4
    <3> HIDE DEF M
    <3> QED
      BY <3>1, <3>3, <3>5
  <2> DEFINE T == {n \in Nat : n <= N /\ Short(n)}
  <2>2. T = {}
    <3> SUFFICES ASSUME T # {} PROVE FALSE
      OBVIOUS
    <3>1. PICK n \in T : \A m \in T : n <= m
      BY Least
    <3>2. n # 0
      <4>1. 0 \in 0..N
        BY <1>2
      <4>2. u[0] \in SUBSET Env
        BY <1>2, <4>1
      <4>3. Cardinality(u[0]) \in Nat
        BY <1>3, <4>2
      <4> QED
        BY <4>3
    <3>3. n - 1 \in Nat /\ n - 1 <= N /\ ~(n <= n - 1) /\ n \in 1..N /\ n - 1 \in 0..N /\ n \in 0..N
      BY <1>2, <3>2
    <3>4. n - 1 <= Cardinality(u[n-1])
      <4>1. n - 1 \notin T
        <5> HIDE DEF T
        <5> QED
          BY <3>1, <3>3
      <4> QED
        BY <3>3, <4>1
    <3>5. u[n-1] \in SUBSET Env /\ u[n] \in SUBSET Env /\ u[n] = Up(u[n-1]) /\ Up(u[n-1]) # u[n-1]
      BY <1>2, <2>1, <3>3
    <3>6. Cardinality(u[n-1]) + 1 <= Cardinality(u[n])
      BY <1>4, <3>5
    <3>7. Cardinality(u[n-1]) \in Nat /\ Cardinality(u[n]) \in Nat
      BY <1>3, <3>5
    <3>8. n <= Cardinality(u[n])
      BY <3>3, <3>4, <3>6, <3>7
    <3> QED
      BY <3>8
  <2>3. N \in 0..N /\ u[N] \in SUBSET Env
    BY <1>2
  <2>4. N <= Cardinality(u[N])
    BY <1>2, <2>2
  <2>5. Cardinality(u[N]) + 1 <= Cardinality(Up(u[N]))
    BY <1>4, <1>5, <2>3
  <2>6. Cardinality(Up(u[N])) <= N /\ Cardinality(Up(u[N])) \in Nat /\ Cardinality(u[N]) \in Nat
    BY <1>3, <2>3
  <2> QED
    BY <1>2, <2>4, <2>5, <2>6
<1> QED
  BY <1>2, <1>5 DEF Up

(* It is the least such set.                                                 *)
LEMMA ClosureLeast ==
    ASSUME NEW S \in SUBSET EnvOrNil, parent \in [Env -> EnvOrNil],
           NEW C, S \ {NoEnv} \subseteq C, \A e \in C : parent[e] # NoEnv => parent[e] \in C
    PROVE  Closure(S) \subseteq C
<1>1. PICK u : Climbs(S, u)
  BY ClosureClimbs
<1> DEFINE N == Cardinality(Env)
           T == {n \in Nat : n <= N /\ ~(u[n] \subseteq C)}
<1>2. /\ N \in Nat /\ u[0] = S \ {NoEnv} /\ Closure(S) = u[N]
      /\ \A n \in 1..N : u[n] = u[n-1] \cup ({parent[e] : e \in u[n-1]} \ {NoEnv})
  BY <1>1, EnvAssumption, FS_CardinalityType DEF Climbs
<1> HIDE DEF N
<1>3. T = {}
  <2> SUFFICES ASSUME T # {} PROVE FALSE
    OBVIOUS
  <2>1. PICK n \in T : \A m \in T : n <= m
    BY Least
  <2>2. n # 0 /\ n \in 1..N
    BY <1>2
  <2>3. n - 1 \in Nat /\ n - 1 <= N /\ ~(n <= n - 1)
    BY <1>2, <2>2
  <2>4. n - 1 \notin T
    <3> HIDE DEF T
    <3> QED
      BY <2>1, <2>3
  <2>5. u[n-1] \subseteq C
    BY <2>3, <2>4
  <2>6. u[n] \subseteq C
    BY <1>2, <2>2, <2>5
  <2> QED
    BY <2>6
<1> QED
  BY <1>2, <1>3

-----------------------------------------------------------------------------
(* The order of the chain.                                                   *)
LEMMA NewerOrders ==
    /\ \A m \in Node : ~Newer(m, m)
    /\ \A m, n \in Node : Newer(m, n) => ~Newer(n, m) /\ m # n
<1> SUFFICES ASSUME NEW m \in Node, NEW n \in Node
             PROVE  ~Newer(m, m) /\ (Newer(m, n) => ~Newer(n, m) /\ m # n)
  OBVIOUS
<1>1. m.at \in Nat /\ n.at \in Nat
  BY EnvAssumption DEF Node, Slots
<1>2. Layer(m) \in 0..2 /\ Layer(n) \in 0..2
  BY DEF Layer
<1> QED
  BY <1>1, <1>2 DEF Newer

LEMMA ListsCons ==
    ASSUME NEW c \in Seq(Node), NEW x \in Node, NEW nodes,
           Lists(c, nodes), \A y \in nodes : Newer(x, y)
    PROVE  Cons(x, c) \in Seq(Node) /\ Lists(Cons(x, c), nodes \cup {x})
<1> DEFINE t == Cons(x, c)
<1>1. /\ t \in Seq(Node) /\ Len(t) = Len(c) + 1
      /\ \A i \in 1..Len(t) : t[i] = IF i = 1 THEN x ELSE c[i-1]
  <2>1. <<x>> \in Seq(Node) /\ Len(<<x>>) = 1 /\ <<x>>[1] = x
    OBVIOUS
  <2>2. Len(c) \in Nat
    BY LenProperties
  <2> QED
    BY <2>1, <2>2, ConcatProperties DEF Cons
<1>2. Len(c) \in Nat /\ DOMAIN c = 1..Len(c) /\ DOMAIN t = 1..Len(t)
  BY <1>1, LenProperties
<1> HIDE DEF t
<1>3. Range(t) = nodes \cup {x}
  <2>1. ASSUME NEW i \in DOMAIN t PROVE t[i] \in nodes \cup {x}
    <3>1. i # 1 => i - 1 \in DOMAIN c
      BY <1>1, <1>2
    <3> QED
      BY <1>1, <1>2, <3>1 DEF Lists, Range
  <2>2. x \in Range(t)
    BY <1>1, <1>2 DEF Range
  <2>3. ASSUME NEW y \in nodes PROVE y \in Range(t)
    <3>1. PICK i \in DOMAIN c : c[i] = y
      BY DEF Lists, Range
    <3>2. i + 1 \in DOMAIN t /\ t[i+1] = y
      BY <1>1, <1>2, <3>1
    <3> QED
      BY <3>2 DEF Range
  <2> QED
    BY <2>1, <2>2, <2>3 DEF Range
<1>4. ASSUME NEW i \in DOMAIN t, NEW j \in DOMAIN t, i < j PROVE Newer(t[i], t[j])
  <2>1. j \in 1..Len(t) /\ j # 1 /\ j - 1 \in DOMAIN c /\ t[j] = c[j-1] /\ c[j-1] \in nodes
    BY <1>1, <1>2, <1>4 DEF Lists, Range
  <2>2. CASE i = 1
    BY <1>1, <1>2, <2>1, <2>2
  <2>3. CASE i # 1
    <3>1. i - 1 \in DOMAIN c /\ t[i] = c[i-1] /\ i - 1 < j - 1
      BY <1>1, <1>2, <1>4, <2>3
    <3> QED
      BY <2>1, <3>1 DEF Lists
  <2> QED
    BY <2>2, <2>3
<1> QED
  BY <1>1, <1>3, <1>4 DEF Lists, t

LEMMA ListsTail ==
    ASSUME NEW c \in Seq(Node), NEW x \in Node, NEW nodes \in SUBSET Node,
           Lists(c, nodes \cup {x}), \A y \in nodes : Newer(x, y)
    PROVE  c # <<>> /\ Tail(c) \in Seq(Node) /\ Lists(Tail(c), nodes)
<1>1. Len(c) \in Nat /\ DOMAIN c = 1..Len(c)
  BY LenProperties
<1>2. PICK k \in 1..Len(c) : c[k] = x
  BY <1>1 DEF Lists, Range
<1>3. c # <<>>
  BY <1>1, <1>2
<1>4. /\ Tail(c) \in Seq(Node) /\ Len(Tail(c)) = Len(c) - 1
      /\ \A i \in 1..Len(Tail(c)) : Tail(c)[i] = c[i+1]
  BY <1>3, HeadTailProperties
<1>5. DOMAIN Tail(c) = 1..Len(c)-1
  BY <1>4, LenProperties
<1>6. c[1] = x
  <2>1. 1 \in DOMAIN c /\ c[1] \in nodes \cup {x}
    BY <1>1, <1>2 DEF Lists, Range
  <2>2. k # 1 => Newer(c[1], x)
    BY <1>1, <1>2, <2>1 DEF Lists
  <2> QED
    BY <1>2, <2>1, <2>2, NewerOrders
<1>7. \A i \in 2..Len(c) : c[i] \in nodes
  <2> SUFFICES ASSUME NEW i \in 2..Len(c) PROVE c[i] \in nodes
    OBVIOUS
  <2>1. i \in DOMAIN c /\ 1 \in DOMAIN c /\ 1 < i
    BY <1>1
  <2>2. Newer(x, c[i]) /\ c[i] \in nodes \cup {x}
    BY <1>6, <2>1 DEF Lists, Range
  <2> QED
    BY <2>2, NewerOrders
<1>8. Range(Tail(c)) = nodes
  <2>1. ASSUME NEW i \in DOMAIN Tail(c) PROVE Tail(c)[i] \in nodes
    <3>1. i + 1 \in 2..Len(c) /\ Tail(c)[i] = c[i+1]
      BY <1>1, <1>4, <1>5
    <3> QED
      BY <1>7, <3>1
  <2>2. ASSUME NEW y \in nodes PROVE \E i \in DOMAIN Tail(c) : Tail(c)[i] = y
    <3>1. PICK j \in DOMAIN c : c[j] = y
      BY DEF Lists, Range
    <3>2. y # x
      BY NewerOrders
    <3>3. j - 1 \in DOMAIN Tail(c) /\ Tail(c)[j-1] = y
      BY <1>1, <1>4, <1>5, <1>6, <3>1, <3>2
    <3> QED
      BY <3>3
  <2> QED
    BY <2>1, <2>2 DEF Range
<1>9. ASSUME NEW i \in DOMAIN Tail(c), NEW j \in DOMAIN Tail(c), i < j
      PROVE  Newer(Tail(c)[i], Tail(c)[j])
  <2>1. /\ i + 1 \in DOMAIN c /\ j + 1 \in DOMAIN c /\ i + 1 < j + 1
        /\ Tail(c)[i] = c[i+1] /\ Tail(c)[j] = c[j+1]
    BY <1>1, <1>4, <1>5, <1>9
  <2> QED
    BY <2>1 DEF Lists
<1> QED
  BY <1>3, <1>4, <1>8, <1>9 DEF Lists

(* What Answer leaves of the chain.                                          *)
LEMMA Unregistered ==
    ASSUME NEW c \in Seq(Node), c # <<>>
    PROVE  /\ SubSeq(c, 2, Len(c)) = Tail(c)
           /\ Tail(c) # <<>> => SubSeq(c, 3, Len(c)) = Tail(Tail(c))
<1>1. SubSeq(c, 2, Len(c)) = Tail(c)
  BY TailIsSubSeq
<1>2. ASSUME Tail(c) # <<>> PROVE SubSeq(c, 3, Len(c)) = Tail(Tail(c))
  <2>1. Len(c) \in Nat /\ Len(c) >= 2
    BY <1>2, HeadTailProperties, LenProperties, EmptySeq
  <2>2. Tail(SubSeq(c, 2, Len(c))) = SubSeq(c, 3, Len(c))
    BY <2>1, HeadTailOfSubSeq
  <2> QED
    BY <1>1, <2>2
<1> QED
  BY <1>1, <1>2

-----------------------------------------------------------------------------
(* Stacks of frames.                                                         *)
(* What InStep asks of the topmost frame f of d.                             *)
Rests(f, d, nodes, guards, pushes, c, hs, ss) ==
    /\ Lists(c, nodes \cup NodesOf(f, d))
    /\ Installed(hs, guards \cup (IF f.ph = "guarded" THEN {d} ELSE {}))
    /\ Len(ss) = IF f.ph \in Brackets THEN 0
                 ELSE IF f.ph \in Pushers THEN pushes + 1 ELSE pushes
    /\ Keeps(f, d, nodes, guards, pushes)

LEMMA NodesType ==
    ASSUME NEW f \in Frame, NEW d \in Slots
    PROVE  NodesOf(f, d) \subseteq Node /\ \A y \in NodesOf(f, d) : y.at = d
BY DEF NodesOf, Node, NodeKind, Brackets

LEMMA Layers ==
    ASSUME NEW fs \in Frames, NEW n \in Slots
    PROVE  /\ NodesUpTo(fs, n) = NodesUpTo(fs, n-1) \cup NodesOf(fs[n], n)
           /\ NodesUpTo(fs, n-1) \subseteq Node
           /\ \A y \in NodesUpTo(fs, n-1) : y.at \in 1..n-1
           /\ GuardsUpTo(fs, n) = GuardsUpTo(fs, n-1) \cup
                                     (IF fs[n].ph = "guarded" THEN {n} ELSE {})
           /\ Pushes(fs, n) = IF fs[n].ph \in Brackets THEN 0
                              ELSE IF fs[n].ph \in Pushers THEN Pushes(fs, n-1) + 1
                              ELSE Pushes(fs, n-1)
           /\ Pushes(fs, n-1) \in Nat
<1>1. n \in Nat /\ n >= 1 /\ 1..n = 1..n-1 \cup {n} /\ 1..n-1 \subseteq Slots /\ n \notin 1..n-1
  BY EnvAssumption DEF Slots
<1>2. \A d \in 1..n : fs[d] \in Frame /\ d \in Slots
  BY <1>1 DEF Frames
<1>3. NodesUpTo(fs, n) = NodesUpTo(fs, n-1) \cup NodesOf(fs[n], n)
  BY <1>1 DEF NodesUpTo
<1>4. /\ NodesUpTo(fs, n-1) \subseteq Node
      /\ \A y \in NodesUpTo(fs, n-1) : y.at \in 1..n-1
  <2> SUFFICES ASSUME NEW d \in 1..n-1, NEW y \in NodesOf(fs[d], d)
               PROVE  y \in Node /\ y.at \in 1..n-1
    BY DEF NodesUpTo
  <2> QED
    BY <1>1, <1>2, NodesType
<1>5. GuardsUpTo(fs, n) = GuardsUpTo(fs, n-1) \cup (IF fs[n].ph = "guarded" THEN {n} ELSE {})
  BY <1>1 DEF GuardsUpTo
<1>6. Pushed(fs, n) = IF fs[n].ph \in Brackets THEN {}
                      ELSE IF fs[n].ph \in Pushers THEN Pushed(fs, n-1) \cup {n}
                      ELSE Pushed(fs, n-1)
  <2>1. \A d \in 1..n-1 : d+1..n = (d+1..n-1) \cup {n}
    BY <1>1
  <2>2. n+1..n = {}
    BY <1>1
  <2>3. \A d : d \in Pushed(fs, n) <=>
              /\ d \in 1..n-1 \cup {n} /\ fs[d].ph \in Pushers
              /\ d # n => fs[n].ph \notin Brackets /\ \A c \in d+1..n-1 : fs[c].ph \notin Brackets
    BY <1>1, <2>1, <2>2 DEF Pushed
  <2>4. Brackets \cap Pushers = {}
    BY DEF Brackets, Pushers
  <2>5. \A d : d \in Pushed(fs, n-1) <=>
              /\ d \in 1..n-1 /\ fs[d].ph \in Pushers
              /\ \A c \in d+1..n-1 : fs[c].ph \notin Brackets
    BY DEF Pushed
  <2>6. CASE fs[n].ph \in Brackets
    BY <2>3, <2>4, <2>6
  <2>7. CASE fs[n].ph \notin Brackets
    BY <1>1, <2>3, <2>5, <2>7
  <2> QED
    BY <2>6, <2>7
<1>7. IsFiniteSet(Pushed(fs, n-1)) /\ n \notin Pushed(fs, n-1)
  <2>1. Pushed(fs, n-1) \in SUBSET (1..n-1) /\ IsFiniteSet(1..n-1)
    BY <1>1, FS_Interval DEF Pushed
  <2> QED
    BY <1>1, <2>1, FS_Subset
<1>8. /\ Pushes(fs, n-1) \in Nat /\ Cardinality({}) = 0
      /\ Cardinality(Pushed(fs, n-1) \cup {n}) = Pushes(fs, n-1) + 1
  BY <1>7, FS_CardinalityType, FS_AddElement, FS_EmptySet DEF Pushes
<1> QED
  BY <1>3, <1>4, <1>5, <1>6, <1>8 DEF Pushes

(* Only the phases of frames tell, and not whether the evaluation a frame    *)
(* asked for has answered.                                                   *)
Like(g, f) ==
    /\ g.ph = f.ph \/ g.ph = Resumed(f.ph)
    /\ g.roots = f.roots /\ g.prev = f.prev /\ g.stk = f.stk

LEMMA SameBelow ==
    ASSUME NEW fs \in Frames, NEW gs \in Frames, NEW n \in 0..MaxDepth,
           \A d \in 1..n : Like(gs[d], fs[d])
    PROVE  /\ NodesUpTo(gs, n) = NodesUpTo(fs, n)
           /\ GuardsUpTo(gs, n) = GuardsUpTo(fs, n)
           /\ Pushes(gs, n) = Pushes(fs, n)
           /\ (\A d \in 1..n : KeepsAt(fs, d)) => \A d \in 1..n : KeepsAt(gs, d)
<1>1. n \in Nat /\ \A d \in 1..n : d \in Slots /\ d \in Nat
  BY EnvAssumption DEF Slots
<1>2. ASSUME NEW d \in 1..n
      PROVE  /\ gs[d].ph = fs[d].ph \/ gs[d].ph = Resumed(fs[d].ph)
             /\ gs[d].roots = fs[d].roots /\ gs[d].prev = fs[d].prev /\ gs[d].stk = fs[d].stk
  BY DEF Like
<1>3. ASSUME NEW d \in 1..n
      PROVE  /\ NodesOf(gs[d], d) = NodesOf(fs[d], d)
             /\ gs[d].ph = "guarded" <=> fs[d].ph = "guarded"
             /\ gs[d].ph = "handling" <=> fs[d].ph = "handling"
             /\ gs[d].ph \in Pushers <=> fs[d].ph \in Pushers
             /\ gs[d].ph \in Brackets <=> fs[d].ph \in Brackets
  BY <1>2 DEF NodesOf, Resumed, Pushers, Brackets
<1>4. ASSUME NEW m \in 0..n
      PROVE  /\ NodesUpTo(gs, m) = NodesUpTo(fs, m)
             /\ GuardsUpTo(gs, m) = GuardsUpTo(fs, m)
             /\ Pushed(gs, m) = Pushed(fs, m)
  <2>1. \A d \in 1..m : d \in 1..n /\ \A c \in d+1..m : c \in 1..n
    BY <1>1
  <2>2. NodesUpTo(gs, m) = NodesUpTo(fs, m)
    BY <1>3, <2>1 DEF NodesUpTo
  <2>3. GuardsUpTo(gs, m) = GuardsUpTo(fs, m)
    BY <1>3, <2>1 DEF GuardsUpTo
  <2>4. Pushed(gs, m) = Pushed(fs, m)
    BY <1>3, <2>1 DEF Pushed
  <2> QED
    BY <2>2, <2>3, <2>4
<1>5. ASSUME NEW d \in 1..n, KeepsAt(fs, d) PROVE KeepsAt(gs, d)
  <2>1. d - 1 \in 0..n
    BY <1>1
  <2> QED
    BY <1>2, <1>3, <1>4, <1>5, <2>1 DEF KeepsAt, Keeps, Pushes
<1>6. n \in 0..n
  BY <1>1
<1> QED
  BY <1>4, <1>5, <1>6 DEF Pushes

(* A stack in step below, with a topmost frame that rests on it.             *)
LEMMA StackTop ==
    ASSUME NEW fs \in Frames, NEW gs \in Frames, NEW n \in Slots,
           \A d \in 1..n-1 : Like(gs[d], fs[d]),
           \A d \in 1..n-1 : KeepsAt(fs, d),
           NEW c, NEW hs, NEW ss,
           Rests(gs[n], n, NodesUpTo(fs, n-1), GuardsUpTo(fs, n-1), Pushes(fs, n-1), c, hs, ss)
    PROVE  InStep(gs, n, c, hs, ss)
<1>1. n - 1 \in 0..MaxDepth /\ n \in Nat /\ n >= 1
  BY EnvAssumption DEF Slots
<1>2. /\ NodesUpTo(gs, n-1) = NodesUpTo(fs, n-1)
      /\ GuardsUpTo(gs, n-1) = GuardsUpTo(fs, n-1)
      /\ Pushes(gs, n-1) = Pushes(fs, n-1)
      /\ \A d \in 1..n-1 : KeepsAt(gs, d)
  BY <1>1, SameBelow
<1>3. KeepsAt(gs, n)
  BY <1>2 DEF KeepsAt, Rests
<1>4. \A d \in 1..n : d \in 1..n-1 \/ d = n
  BY <1>1
<1> QED
  BY <1>2, <1>3, <1>4, Layers DEF InStep, Rests

LEMMA TopRests ==
    ASSUME NEW fs \in Frames, NEW n \in Slots, NEW c, NEW hs, NEW ss, InStep(fs, n, c, hs, ss)
    PROVE  /\ Rests(fs[n], n, NodesUpTo(fs, n-1), GuardsUpTo(fs, n-1), Pushes(fs, n-1), c, hs, ss)
           /\ \A d \in 1..n-1 : KeepsAt(fs, d)
<1>1. n \in 1..n /\ \A d \in 1..n-1 : d \in 1..n
  BY EnvAssumption DEF Slots
<1> QED
  BY <1>1, Layers DEF InStep, Rests, KeepsAt

-----------------------------------------------------------------------------
(* The chain as the topmost frame moves it.                                  *)
At(d, k) == [at |-> d, what |-> k]

Bare     == {"start", "back"}
Formed   == {"list", "evalin", "evaled"}
Guarding == {"body", "applied", "guarded", "handling", "opbody", "apbody", "loop"}
            \cup Brackets
LocalKinds == {"body", "op", "loop", "park"}
LocalOf(ph) == CASE ph \in {"body", "applied", "guarded", "handling"} -> "body"
                 [] ph \in {"opbody", "apbody"}                      -> "op"
                 [] ph = "loop"                                      -> "loop"
                 [] OTHER                                            -> "park"

LEMMA NodesByPhase ==
    ASSUME NEW f, NEW d
    PROVE  /\ f.ph \in Bare => NodesOf(f, d) = {At(d, "tco")}
           /\ f.ph \in Formed => NodesOf(f, d) = {At(d, "tco"), At(d, "list")}
           /\ f.ph \in Guarding =>
                 /\ LocalOf(f.ph) \in LocalKinds
                 /\ NodesOf(f, d) = {At(d, "tco"), At(d, "list"), At(d, LocalOf(f.ph))}
<1>1. f.ph \in Bare => NodesOf(f, d) = {At(d, "tco")}
  BY DEF Bare, NodesOf, At, Brackets
<1>2. f.ph \in Formed => NodesOf(f, d) = {At(d, "tco"), At(d, "list")}
  BY DEF Formed, NodesOf, At, Brackets
<1>3. f.ph \in Guarding =>
         /\ LocalOf(f.ph) \in LocalKinds
         /\ NodesOf(f, d) = {At(d, "tco"), At(d, "list"), At(d, LocalOf(f.ph))}
  BY DEF Guarding, NodesOf, At, Brackets, LocalOf, LocalKinds
<1> QED
  BY <1>1, <1>2, <1>3

LEMMA ChainMoves ==
    ASSUME NEW fs \in Frames, NEW n \in Slots, NEW c \in Seq(Node), NEW nodes,
           nodes = NodesUpTo(fs, n-1), Lists(c, nodes \cup NodesOf(fs[n], n))
    PROVE  /\ fs[n].ph \in Bare =>
                 /\ Tail(c) \in Seq(Node) /\ Lists(Tail(c), nodes)
                 /\ Cons(At(n, "list"), c) \in Seq(Node)
                 /\ Lists(Cons(At(n, "list"), c), nodes \cup {At(n, "tco"), At(n, "list")})
           /\ fs[n].ph \in Formed =>
                 /\ SubSeq(c, 2, Len(c)) \in Seq(Node) /\ SubSeq(c, 2, Len(c)) = Tail(c)
                 /\ Lists(SubSeq(c, 2, Len(c)), nodes \cup {At(n, "tco")})
                 /\ \A k \in LocalKinds :
                       /\ Cons(At(n, k), c) \in Seq(Node)
                       /\ Lists(Cons(At(n, k), c),
                                nodes \cup {At(n, "tco"), At(n, "list"), At(n, k)})
           /\ fs[n].ph \in Guarding =>
                 /\ Tail(c) \in Seq(Node)
                 /\ Lists(Tail(c), nodes \cup {At(n, "tco"), At(n, "list")})
                 /\ SubSeq(c, 3, Len(c)) \in Seq(Node)
                 /\ Lists(SubSeq(c, 3, Len(c)), nodes \cup {At(n, "tco")})
                 /\ \A k \in LocalKinds :
                       /\ Cons(At(n, k), Tail(c)) \in Seq(Node)
                       /\ Lists(Cons(At(n, k), Tail(c)),
                                nodes \cup {At(n, "tco"), At(n, "list"), At(n, k)})
<1> DEFINE tco  == At(n, "tco")
           list == At(n, "list")
<1>1. n \in Nat
  BY EnvAssumption DEF Slots
<1>2. nodes \subseteq Node /\ \A y \in nodes : y.at \in 1..n-1
  BY Layers
<1>3. tco \in Node /\ list \in Node /\ \A k \in LocalKinds : At(n, k) \in Node
  BY DEF At, Node, NodeKind, LocalKinds
<1>4. /\ \A k : \A y \in nodes : Newer(At(n, k), y)
      /\ Newer(list, tco)
      /\ \A k \in LocalKinds : Newer(At(n, k), tco) /\ Newer(At(n, k), list)
  BY <1>1, <1>2 DEF Newer, At, Layer, LocalKinds
<1> HIDE DEF tco, list
<1>5. ASSUME NEW k \in LocalKinds, NEW d \in Seq(Node), Lists(d, nodes \cup {tco, list})
      PROVE  /\ Cons(At(n, k), d) \in Seq(Node)
             /\ Lists(Cons(At(n, k), d), nodes \cup {tco, list, At(n, k)})
  <2>1. \A y \in nodes \cup {tco, list} : Newer(At(n, k), y)
    BY <1>4
  <2>2. nodes \cup {tco, list, At(n, k)} = (nodes \cup {tco, list}) \cup {At(n, k)}
    OBVIOUS
  <2> QED
    BY <1>3, <1>5, <2>1, <2>2, ListsCons
<1>6. ASSUME NEW d \in Seq(Node), Lists(d, nodes \cup {tco, list})
      PROVE  d # <<>> /\ Tail(d) \in Seq(Node) /\ Lists(Tail(d), nodes \cup {tco})
  <2>1. \A y \in nodes \cup {tco} : Newer(list, y)
    BY <1>4 DEF list
  <2>2. nodes \cup {tco, list} = (nodes \cup {tco}) \cup {list} /\ nodes \cup {tco} \subseteq Node
    BY <1>2, <1>3
  <2> QED
    BY <1>3, <1>6, <2>1, <2>2, ListsTail
<1>7. ASSUME fs[n].ph \in Bare
      PROVE  /\ Tail(c) \in Seq(Node) /\ Lists(Tail(c), nodes)
             /\ Cons(list, c) \in Seq(Node) /\ Lists(Cons(list, c), nodes \cup {tco, list})
  <2>1. Lists(c, nodes \cup {tco})
    BY <1>7, NodesByPhase DEF tco
  <2>2. Tail(c) \in Seq(Node) /\ Lists(Tail(c), nodes)
    <3>1. \A y \in nodes : Newer(tco, y)
      BY <1>4 DEF tco
    <3> QED
      BY <1>2, <1>3, <2>1, <3>1, ListsTail
  <2>3. Cons(list, c) \in Seq(Node) /\ Lists(Cons(list, c), nodes \cup {tco, list})
    <3>1. \A y \in nodes \cup {tco} : Newer(list, y)
      BY <1>4 DEF list
    <3>2. nodes \cup {tco, list} = (nodes \cup {tco}) \cup {list}
      OBVIOUS
    <3> QED
      BY <1>3, <2>1, <3>1, <3>2, ListsCons
  <2> QED
    BY <2>2, <2>3
<1>8. ASSUME fs[n].ph \in Formed
      PROVE  /\ SubSeq(c, 2, Len(c)) \in Seq(Node) /\ SubSeq(c, 2, Len(c)) = Tail(c)
             /\ Lists(SubSeq(c, 2, Len(c)), nodes \cup {tco})
             /\ \A k \in LocalKinds : /\ Cons(At(n, k), c) \in Seq(Node)
                                      /\ Lists(Cons(At(n, k), c), nodes \cup {tco, list, At(n, k)})
  <2>1. Lists(c, nodes \cup {tco, list})
    BY <1>8, NodesByPhase DEF tco, list
  <2> QED
    BY <1>5, <1>6, <2>1, Unregistered
<1>9. ASSUME fs[n].ph \in Guarding
      PROVE  /\ Tail(c) \in Seq(Node) /\ Lists(Tail(c), nodes \cup {tco, list})
             /\ SubSeq(c, 3, Len(c)) \in Seq(Node)
             /\ Lists(SubSeq(c, 3, Len(c)), nodes \cup {tco})
             /\ \A k \in LocalKinds :
                   /\ Cons(At(n, k), Tail(c)) \in Seq(Node)
                   /\ Lists(Cons(At(n, k), Tail(c)), nodes \cup {tco, list, At(n, k)})
  <2> DEFINE x == At(n, LocalOf(fs[n].ph))
  <2>1. LocalOf(fs[n].ph) \in LocalKinds /\ Lists(c, (nodes \cup {tco, list}) \cup {x})
    <3>1. nodes \cup {tco, list, x} = (nodes \cup {tco, list}) \cup {x}
      OBVIOUS
    <3> QED
      BY <1>9, <3>1, NodesByPhase DEF tco, list
  <2>2. x \in Node /\ nodes \cup {tco, list} \subseteq Node
    BY <1>2, <1>3, <2>1
  <2>3. \A y \in nodes \cup {tco, list} : Newer(x, y)
    BY <1>4, <2>1
  <2>4. c # <<>> /\ Tail(c) \in Seq(Node) /\ Lists(Tail(c), nodes \cup {tco, list})
    <3> HIDE DEF x
    <3> QED
      BY <2>1, <2>2, <2>3, ListsTail
  <2>5. Tail(c) # <<>> /\ Tail(Tail(c)) \in Seq(Node) /\ Lists(Tail(Tail(c)), nodes \cup {tco})
    BY <1>6, <2>4
  <2> QED
    BY <1>5, <2>4, <2>5, Unregistered
<1> QED
  BY <1>7, <1>8, <1>9 DEF tco, list

-----------------------------------------------------------------------------
(* What is reached, and what a C frame holds, are environments.              *)
LEMMA StackEnvs ==
    ASSUME NEW fs \in Frames
    PROVE  /\ LocalsOf(fs) \in SUBSET EnvOrNil
           /\ \A d \in Slots : fs[d].saved \in LocalsOf(fs)
<1>1. ASSUME NEW d \in Slots
      PROVE  fs[d].kept \in EnvOrNil /\ fs[d].saved \in EnvOrNil /\ fs[d].stk \in Seq(Env)
  BY DEF Frames, Frame
<1>2. \A d \in Slots : Range(fs[d].stk) \subseteq Env
  BY <1>1, LenProperties DEF Range
<1>3. \A d \in Slots : {fs[d].kept, fs[d].saved} \cup Range(fs[d].stk) \subseteq EnvOrNil
  BY <1>1, <1>2 DEF EnvOrNil
<1> QED
  BY <1>3 DEF LocalsOf

(* What the collector starts from.                                           *)
Roots == {Root, env, tcoEnv} \cup Range(saveStack)
         \cup {h.env : h \in Range(handler)}
         \cup HeldByCont
         \cup (UNION {NodeEnvs(n) : n \in Range(chain)})

LEMMA RootsType ==
    ASSUME Inv
    PROVE  Roots \in SUBSET EnvOrNil /\ Reached = Closure(Roots)
<1>1. /\ frames \in Frames /\ chain \in Seq(Node) /\ handler \in Seq(Handler)
      /\ env \in Env /\ tcoEnv \in EnvOrNil /\ saveStack \in Seq(Env) /\ Root \in Env
  BY EnvAssumption DEF Inv, Stacked, Values
<1>2. cont # NoCont => /\ cont.env \in Env /\ cont.saveStack \in Seq(Env)
                       /\ cont.handler \in Seq(Handler)
  BY DEF Inv, Continued, Continuation
<1>3. \A ss \in Seq(Env) : Range(ss) \subseteq Env
  BY LenProperties DEF Range
<1>4. \A hs \in Seq(Handler) : {h.env : h \in Range(hs)} \subseteq Env
  <2>1. \A hs \in Seq(Handler) : Range(hs) \subseteq Handler
    BY LenProperties DEF Range
  <2>2. \A h \in Handler : h.env \in Env
    BY DEF Handler
  <2> QED
    BY <2>1, <2>2
<1>5. ASSUME NEW n \in Range(chain) PROVE NodeEnvs(n) \subseteq EnvOrNil
  <2>1. n \in Node
    BY <1>1, LenProperties DEF Range
  <2>2. n.at \in Slots /\ frames[n.at] \in Frame
    BY <1>1, <2>1 DEF Node, Frames
  <2>3. frames[n.at].kept \in EnvOrNil /\ frames[n.at].saved \in EnvOrNil
        /\ Range(frames[n.at].stk) \subseteq Env
    BY <1>3, <2>2 DEF Frame
  <2> QED
    BY <2>3 DEF NodeEnvs, EnvOrNil
<1>6. HeldByCont \subseteq EnvOrNil
  BY <1>2, <1>3, <1>4 DEF HeldByCont, EnvOrNil
<1> DEFINE A == {Root, env, tcoEnv} \cup Range(saveStack)
           B == {h.env : h \in Range(handler)}
           C == UNION {NodeEnvs(n) : n \in Range(chain)}
<1>7. A \subseteq EnvOrNil
  BY <1>1, <1>3 DEF EnvOrNil
<1>8. B \subseteq EnvOrNil
  BY <1>1, <1>4 DEF EnvOrNil
<1>9. C \subseteq EnvOrNil
  BY <1>5
<1>10. Roots = A \cup B \cup HeldByCont \cup C
  BY DEF Roots
<1>11. Reached = Closure(Roots)
  BY DEF Reached, Roots
<1> HIDE DEF A, B, C
<1> QED
  BY <1>6, <1>7, <1>8, <1>9, <1>10, <1>11

LEMMA HeapEnvs ==
    ASSUME Inv
    PROVE  /\ Reached \subseteq Env /\ Locals \subseteq Env /\ Fresh \subseteq Env
           /\ \A x \in Env \cap LocalsOf(frames) : x \notin Fresh
           /\ cont # NoCont => \A x \in Env \cap LocalsOf(cont.frames) : x \notin Fresh
<1>1. /\ frames \in Frames /\ parent \in [Env -> EnvOrNil] /\ NoEnv \notin Env
      /\ cont # NoCont => cont.frames \in Frames
  BY EnvAssumption DEF Inv, Stacked, Values, Continued, Continuation, Frames
<1>2. Reached \subseteq Env
  BY <1>1, RootsType, ClosureType
<1> DEFINE L == LocalsOf(frames) \cup
                (IF cont = NoCont THEN {} ELSE LocalsOf(cont.frames))
<1>3. L \in SUBSET EnvOrNil
  BY <1>1, StackEnvs
<1>4. Locals = Closure(L)
  BY DEF Locals
<1>5. Locals \subseteq Env /\ L \ {NoEnv} \subseteq Locals
  <2> HIDE DEF L
  <2> QED
    BY <1>1, <1>3, <1>4, ClosureType
<1>6. Fresh \subseteq Env /\ Fresh \cap Locals = {}
  BY DEF Fresh
<1> QED
  BY <1>1, <1>2, <1>5, <1>6

(* The heap changes only by making environments of unused memory, whose      *)
(* parents are environments.                                                 *)
HeapMoves ==
    \/ parent' = parent /\ swept' \subseteq Env
    \/ \E e \in Fresh, p \in Env : NewEnv(e, p)

LEMMA HeapMoved ==
    ASSUME Inv, HeapMoves
    PROVE  /\ parent' \in [Env -> EnvOrNil] /\ swept' \subseteq Env
           /\ \A d \in Slots : ScopeKept(frames[d], parent')
           /\ cont # NoCont => \A d \in Slots : ScopeKept(cont.frames[d], parent')
<1>1. /\ parent \in [Env -> EnvOrNil] /\ swept \subseteq Env
      /\ frames \in Frames /\ \A d \in Slots : ScopeKept(frames[d], parent)
      /\ cont # NoCont => /\ cont.frames \in Frames
                          /\ \A d \in Slots : ScopeKept(cont.frames[d], parent)
  BY DEF Inv, Stacked, Values, Continued, Continuation, Frames
<1>2. CASE parent' = parent /\ swept' \subseteq Env
  BY <1>1, <1>2
<1>3. CASE \E e \in Fresh, p \in Env : NewEnv(e, p)
  <2>1. PICK e \in Fresh, p \in Env : NewEnv(e, p)
    BY <1>3
  <2>2. /\ parent' = [x \in Env |-> IF x = e THEN p
                                    ELSE IF x \in Fresh THEN NoEnv ELSE parent[x]]
        /\ swept' = swept \ {e}
    BY <2>1 DEF NewEnv
  <2>3. parent' \in [Env -> EnvOrNil] /\ swept' \subseteq Env
    BY <1>1, <2>2 DEF EnvOrNil
  <2>4. \A x \in Env : x \notin Fresh => parent'[x] = parent[x]
    BY <2>1, <2>2
  <2>5. ASSUME NEW fs \in Frames, NEW d \in Slots, ScopeKept(fs[d], parent),
               \A x \in Env \cap LocalsOf(fs) : x \notin Fresh
        PROVE  ScopeKept(fs[d], parent')
    <3>1. fs[d].saved \in LocalsOf(fs)
      BY StackEnvs
    <3> QED
      BY <2>4, <2>5, <3>1 DEF ScopeKept
  <2> QED
    BY <1>1, <2>3, <2>5, HeapEnvs
<1> QED
  BY <1>2, <1>3 DEF HeapMoves

-----------------------------------------------------------------------------
(* Steps of the topmost frame.                                               *)
NodesBelow  == NodesUpTo(frames, depth - 1)
GuardsBelow == GuardsUpTo(frames, depth - 1)
PushesBelow == Pushes(frames, depth - 1)

LEMMA TopFacts ==
    ASSUME Inv, depth > 0
    PROVE  /\ depth \in Slots /\ Me \in Frame /\ frames \in Frames /\ chain \in Seq(Node)
           /\ Rests(Me, depth, NodesBelow, GuardsBelow, PushesBelow, chain, handler, saveStack)
           /\ \A d \in 1..depth-1 : KeepsAt(frames, d)
           /\ PushesBelow \in Nat
<1>1. depth \in Slots /\ frames \in Frames /\ chain \in Seq(Node)
  BY EnvAssumption DEF Inv, Stacked, Slots
<1>2. Me \in Frame
  BY <1>1 DEF Me, Frames
<1>3. InStep(frames, depth, chain, handler, saveStack)
  BY DEF Inv, Stacked
<1> QED
  BY <1>1, <1>2, <1>3, TopRests, Layers DEF Me, NodesBelow, GuardsBelow, PushesBelow

LEMMA ContinuationKept ==
    ASSUME Inv, HeapMoves,
           cont' = cont \/ cont' = NoCont
              \/ (cont' = Captured /\ depth > 0 /\ Me.ph = "list")
    PROVE  Continued'
<1>1. CASE cont' = cont
  BY <1>1, HeapMoved DEF Inv, Continued
<1>2. CASE cont' = NoCont
  BY <1>2 DEF Continued
<1>3. CASE cont' = Captured /\ depth > 0 /\ Me.ph = "list"
  <2>1. depth \in Slots
    BY <1>3, TopFacts
  <2>2. Captured \in Continuation
    BY <2>1 DEF Captured, Continuation, Inv, Stacked, Values, Frames
  <2>3. /\ cont'.frames = frames /\ cont'.depth = depth /\ cont'.chain = chain
        /\ cont'.handler = handler /\ cont'.saveStack = saveStack
    BY <1>3 DEF Captured
  <2>4. InStep(frames, depth, chain, handler, saveStack) /\ frames[depth].ph = "list"
    BY <1>3 DEF Inv, Stacked, Me
  <2>5. \A d \in Slots : ScopeKept(frames[d], parent')
    BY HeapMoved
  <2> QED
    BY <1>3, <2>2, <2>3, <2>4, <2>5 DEF Continued
<1> QED
  BY <1>1, <1>2, <1>3

(* The topmost frame becomes g.                                              *)
LEMMA Became ==
    ASSUME Inv, HeapMoves, depth > 0, depth' = depth,
           NEW g \in Frame, frames' = [frames EXCEPT ![depth] = g],
           chain' \in Seq(Node), handler' \in Seq(Handler), ScopeKept(g, parent'),
           Rests(g, depth, NodesBelow, GuardsBelow, PushesBelow, chain', handler', saveStack')
    PROVE  Stacked' /\ Me' = g
<1>1. /\ depth \in Slots /\ frames \in Frames
      /\ \A d \in 1..depth-1 : KeepsAt(frames, d)
  BY TopFacts
<1>2. frames' \in Frames /\ frames'[depth] = g
  BY <1>1 DEF Frames
<1>3. \A d \in 1..depth-1 : Like(frames'[d], frames[d])
  BY <1>1, EnvAssumption DEF Frames, Slots, Like
<1>4. InStep(frames', depth, chain', handler', saveStack')
  BY <1>1, <1>2, <1>3, StackTop DEF NodesBelow, GuardsBelow, PushesBelow
<1>5. \A d \in Slots : ScopeKept(frames'[d], parent')
  BY <1>1, <1>2, HeapMoved DEF Frames
<1>6. depth' \in 0..MaxDepth
  BY DEF Inv, Stacked
<1> QED
  BY <1>2, <1>4, <1>5, <1>6 DEF Stacked, Me

LEMMA IdleType ==
    Idle \in Frame /\ \A up : ScopeKept(Idle, up)
<1>1. <<>> \in Seq(Env) /\ <<>> \in Seq(Handler) /\ <<>> \in Seq(Node)
  BY EmptySeq
<1>2. NoEnv \in EnvOrNil /\ "idle" \in Phase
  BY DEF EnvOrNil, Phase
<1>3. Idle.ph = "idle"
  BY DEF Idle
<1> QED
  BY <1>1, <1>2, <1>3 DEF Idle, Frame, ScopeKept, Scoped, Brackets

LEMMA Answered ==
    ASSUME Inv, HeapMoves, depth > 0, depth' = depth, NEW pops \in {0, 1}, Answer(pops),
           pops = 0 => Me.ph \in Formed, pops = 1 => Me.ph \in Guarding,
           handler' \in Seq(Handler), Installed(handler', GuardsBelow),
           Len(saveStack') = PushesBelow
    PROVE  Stacked' /\ Me'.ph = "back"
<1> DEFINE g == [Idle EXCEPT !.ph = "back", !.tramp = Me.tramp, !.kept = Me.kept]
<1>1. /\ depth \in Slots /\ Me \in Frame /\ frames \in Frames /\ chain \in Seq(Node)
      /\ Lists(chain, NodesBelow \cup NodesOf(Me, depth))
  BY TopFacts DEF Rests
<1>2. Idle \in Frame
  BY IdleType
<1>3. g \in Frame /\ g.ph = "back"
  <2>1. Me.tramp \in BOOLEAN /\ Me.kept \in EnvOrNil /\ "back" \in Phase
    BY <1>1 DEF Frame, Phase
  <2> QED
    BY <1>2, <2>1 DEF Frame
<1> HIDE DEF g
<1>4. chain' \in Seq(Node) /\ Lists(chain', NodesBelow \cup {At(depth, "tco")})
  <2>1. chain' = SubSeq(chain, pops + 2, Len(chain))
    BY DEF Answer
  <2>2. CASE pops = 0
    <3>1. chain' = SubSeq(chain, 2, Len(chain))
      BY <2>1, <2>2
    <3> QED
      BY <1>1, <2>2, <3>1, ChainMoves DEF NodesBelow, Me
  <2>3. CASE pops = 1
    <3>1. chain' = SubSeq(chain, 3, Len(chain))
      BY <2>1, <2>3
    <3> QED
      BY <1>1, <2>3, <3>1, ChainMoves DEF NodesBelow, Me
  <2> QED
    BY <2>2, <2>3
<1>5. NodesOf(g, depth) = {At(depth, "tco")}
  BY <1>3, NodesByPhase DEF Bare
<1>6. Rests(g, depth, NodesBelow, GuardsBelow, PushesBelow, chain', handler', saveStack')
  BY <1>3, <1>4, <1>5 DEF Rests, Keeps, Brackets, Pushers
<1>7. frames' = [frames EXCEPT ![depth] = g]
  BY DEF Answer, g
<1>8. ScopeKept(g, parent')
  BY <1>3 DEF ScopeKept, Scoped, Brackets
<1> QED
  BY <1>3, <1>4, <1>6, <1>7, <1>8, Became

(* The list handler's frame enters a local of its own: it registers a node   *)
(* for it.                                                                   *)
LEMMA Entered ==
    ASSUME Inv, HeapMoves, depth > 0, depth' = depth, Me.ph = "list",
           NEW g \in Frame, frames' = [frames EXCEPT ![depth] = g], g.ph \in Guarding,
           ScopeKept(g, parent'),
           chain' = Cons([at |-> depth, what |-> LocalOf(g.ph)], chain),
           handler' = IF g.ph = "guarded" THEN Cons([at |-> depth, env |-> env], handler)
                      ELSE handler,
           g.ph # "handling",
           g.ph = "guarded" => g.stk = saveStack /\ g.prev = handler /\ g.roots = chain,
           g.ph \in Brackets => g.stk = saveStack,
           Len(saveStack') = IF g.ph \in Brackets THEN 0
                             ELSE IF g.ph = "body" THEN Len(saveStack) + 1 ELSE Len(saveStack)
    PROVE  Stacked' /\ Me' = g
<1>1. /\ depth \in Slots /\ Me \in Frame /\ frames \in Frames /\ chain \in Seq(Node)
      /\ Rests(Me, depth, NodesBelow, GuardsBelow, PushesBelow, chain, handler, saveStack)
      /\ PushesBelow \in Nat
  BY TopFacts
<1>2. /\ Lists(chain, NodesBelow \cup NodesOf(Me, depth))
      /\ Installed(handler, GuardsBelow) /\ Len(saveStack) = PushesBelow
  BY <1>1 DEF Rests, Brackets, Pushers
<1>3. NodesOf(Me, depth) = {At(depth, "tco"), At(depth, "list")}
  BY NodesByPhase DEF Formed
<1>4. /\ LocalOf(g.ph) \in LocalKinds
      /\ NodesOf(g, depth) = {At(depth, "tco"), At(depth, "list"), At(depth, LocalOf(g.ph))}
  BY NodesByPhase
<1>5. chain' \in Seq(Node) /\ Lists(chain', NodesBelow \cup NodesOf(g, depth))
  <2>1. chain' = Cons(At(depth, LocalOf(g.ph)), chain)
    BY DEF At
  <2>2. frames[depth].ph \in Formed /\ NodesBelow = NodesUpTo(frames, depth-1)
    BY DEF Formed, Me, NodesBelow
  <2>3. Lists(chain, NodesBelow \cup NodesOf(frames[depth], depth))
    BY <1>2 DEF Me
  <2>4. \A k \in LocalKinds :
           /\ Cons(At(depth, k), chain) \in Seq(Node)
           /\ Lists(Cons(At(depth, k), chain),
                    NodesBelow \cup {At(depth, "tco"), At(depth, "list"), At(depth, k)})
    BY <1>1, <2>2, <2>3, ChainMoves
  <2> QED
    BY <1>4, <2>1, <2>4
<1>6. /\ handler' \in Seq(Handler)
      /\ Installed(handler', GuardsBelow \cup (IF g.ph = "guarded" THEN {depth} ELSE {}))
  <2>1. handler \in Seq(Handler) /\ env \in Env
    BY DEF Inv, Stacked, Values
  <2>2. CASE g.ph # "guarded"
    BY <1>2, <2>1, <2>2
  <2>3. CASE g.ph = "guarded"
    <3> DEFINE h == [at |-> depth, env |-> env]
    <3>1. h \in Handler /\ h.at = depth
      BY <1>1, <2>1 DEF Handler
    <3> HIDE DEF h
    <3>2. <<h>> \in Seq(Handler) /\ Len(<<h>>) = 1 /\ <<h>>[1] = h
      BY <3>1
    <3>3. Len(handler) \in Nat /\ DOMAIN handler = 1..Len(handler)
      BY <2>1, LenProperties
    <3>4. handler' = <<h>> \o handler
      BY <2>3 DEF Cons, h
    <3>5. /\ handler' \in Seq(Handler) /\ Len(handler') = Len(handler) + 1
          /\ \A i \in 1..Len(handler) + 1 : handler'[i] = IF i = 1 THEN h ELSE handler[i-1]
      BY <2>1, <3>2, <3>3, <3>4, ConcatProperties
    <3>6. DOMAIN handler' = 1..Len(handler) + 1
      BY <3>5, LenProperties
    <3>7. \A i \in DOMAIN handler : /\ handler[i].at \in GuardsBelow /\ handler[i].at < depth
                                    /\ i + 1 \in DOMAIN handler' /\ handler'[i+1] = handler[i]
      <4>1. \A d \in GuardsBelow : d \in Nat /\ d < depth
        BY <1>1, EnvAssumption DEF GuardsBelow, GuardsUpTo, Slots
      <4> QED
        BY <1>2, <3>3, <3>5, <3>6, <4>1 DEF Installed
    <3>8. \A i \in DOMAIN handler' : i = 1 \/ (i - 1 \in DOMAIN handler /\ handler'[i] = handler[i-1])
      BY <3>3, <3>5, <3>6
    <3>9. 1 \in DOMAIN handler' /\ handler'[1] = h
      BY <3>3, <3>5, <3>6
    <3>10. {handler'[i].at : i \in DOMAIN handler'} = GuardsBelow \cup {depth}
      <4>1. {handler[i].at : i \in DOMAIN handler} = GuardsBelow
        BY <1>2 DEF Installed
      <4>2. \A i \in DOMAIN handler' : handler'[i].at \in GuardsBelow \cup {depth}
        BY <3>1, <3>7, <3>8, <3>9
      <4>3. \A d \in GuardsBelow : \E i \in DOMAIN handler' : handler'[i].at = d
        BY <3>7, <4>1
      <4> QED
        BY <3>1, <3>9, <4>2, <4>3
    <3>11. ASSUME NEW i \in DOMAIN handler', NEW j \in DOMAIN handler', i < j
           PROVE  handler'[i].at > handler'[j].at
      <4>1. j - 1 \in DOMAIN handler /\ handler'[j] = handler[j-1] /\ handler[j-1].at < depth
        BY <3>6, <3>7, <3>8, <3>11
      <4>2. CASE i = 1
        BY <1>1, <3>1, <3>9, <4>1, <4>2
      <4>3. CASE i # 1
        <5>1. i - 1 \in DOMAIN handler /\ handler'[i] = handler[i-1] /\ i - 1 < j - 1
          BY <3>6, <3>8, <3>11, <4>3
        <5> QED
          BY <1>2, <4>1, <5>1 DEF Installed
      <4> QED
        BY <4>2, <4>3
    <3> QED
      BY <2>3, <3>5, <3>10, <3>11 DEF Installed
  <2> QED
    BY <2>2, <2>3
<1>7. Keeps(g, depth, NodesBelow, GuardsBelow, PushesBelow)
  <2>1. g.ph = "guarded" => Lists(g.roots, NodesBelow \cup {[at |-> depth, what |-> "list"],
                                                          [at |-> depth, what |-> "tco"]})
    BY <1>2, <1>3 DEF At
  <2> QED
    BY <1>2, <2>1 DEF Keeps, Brackets
<1>8. Rests(g, depth, NodesBelow, GuardsBelow, PushesBelow, chain', handler', saveStack')
  <2>1. Len(saveStack') = IF g.ph \in Brackets THEN 0
                          ELSE IF g.ph \in Pushers THEN PushesBelow + 1 ELSE PushesBelow
    BY <1>2 DEF Guarding, Pushers, Brackets
  <2> QED
    BY <1>5, <1>6, <1>7, <2>1 DEF Rests
<1> QED
  BY <1>5, <1>6, <1>8, Became


(* x_eval returns with e: the frame below goes on.                           *)
LEMMA Left ==
    ASSUME Inv, HeapMoves, depth > 0, Me.ph \in Bare, NEW e, Leave(e),
           UNCHANGED <<handler, saveStack>>
    PROVE  Stacked'
<1>1. /\ depth \in Slots /\ Me \in Frame /\ frames \in Frames /\ chain \in Seq(Node)
      /\ Rests(Me, depth, NodesBelow, GuardsBelow, PushesBelow, chain, handler, saveStack)
      /\ \A d \in 1..depth-1 : KeepsAt(frames, d)
  BY TopFacts
<1>2. /\ depth \in Nat /\ depth - 1 \in 0..MaxDepth /\ \A d \in 1..depth-1 : d \in Slots
      /\ handler \in Seq(Handler)
  BY <1>1, EnvAssumption DEF Slots, Inv, Stacked
<1>3. /\ depth' = depth - 1 /\ chain' = Tail(chain)
      /\ frames' = [d \in Slots |->
                      CASE d = depth     -> Idle
                        [] d = depth - 1 -> [frames[d] EXCEPT !.ph = Resumed(@)]
                        [] OTHER         -> frames[d]]
  BY DEF Leave
<1>4. ASSUME NEW d \in Slots
      PROVE  /\ frames'[d] \in Frame /\ ScopeKept(frames'[d], parent')
             /\ d # depth => Like(frames'[d], frames[d])
  <2>1. frames[d] \in Frame /\ ScopeKept(frames[d], parent')
    BY <1>1, HeapMoved DEF Frames
  <2>2. CASE d = depth
    <3>1. frames'[d] = Idle
      BY <1>2, <1>3, <2>2
    <3> QED
      BY <2>2, <3>1, IdleType
  <2>3. CASE d # depth /\ d = depth - 1
    <3>1. frames'[d] = [frames[d] EXCEPT !.ph = Resumed(@)]
      BY <1>3, <2>3
    <3>2. Resumed(frames[d].ph) \in Phase
      BY <2>1 DEF Resumed, Phase, Frame
    <3>3. /\ frames'[d].ph = Resumed(frames[d].ph) /\ frames'[d].saved = frames[d].saved
          /\ frames'[d].roots = frames[d].roots /\ frames'[d].prev = frames[d].prev
          /\ frames'[d].stk = frames[d].stk /\ frames'[d] \in Frame
      BY <2>1, <3>1, <3>2 DEF Frame
    <3> QED
      BY <2>1, <3>3 DEF Like, ScopeKept, Resumed, Scoped, Brackets
  <2>4. CASE d # depth /\ d # depth - 1
    BY <1>3, <2>1, <2>4 DEF Like
  <2> QED
    BY <2>2, <2>3, <2>4
<1>5. frames' \in Frames
  <2>1. frames' = [d \in Slots |-> frames'[d]]
    BY <1>3
  <2> QED
    BY <1>4, <2>1 DEF Frames
<1>6. /\ NodesUpTo(frames', depth-1) = NodesBelow /\ GuardsUpTo(frames', depth-1) = GuardsBelow
      /\ Pushes(frames', depth-1) = PushesBelow
      /\ \A d \in 1..depth-1 : KeepsAt(frames', d)
  <2>1. ASSUME NEW d \in 1..depth-1 PROVE Like(frames'[d], frames[d])
    <3>1. d \in Slots /\ d # depth
      BY <1>2
    <3> QED
      BY <1>4, <3>1
  <2> QED
    BY <1>1, <1>2, <1>5, <2>1, SameBelow DEF NodesBelow, GuardsBelow, PushesBelow
<1>7. Tail(chain) \in Seq(Node) /\ Lists(Tail(chain), NodesBelow)
  BY <1>1, ChainMoves DEF Rests, Me, NodesBelow
<1>8. Installed(handler, GuardsBelow) /\ Len(saveStack) = PushesBelow
  BY <1>1 DEF Rests, Bare, Brackets, Pushers
<1>9. InStep(frames', depth', chain', handler', saveStack')
  BY <1>3, <1>6, <1>7, <1>8 DEF InStep
<1> QED
  BY <1>2, <1>3, <1>4, <1>5, <1>7, <1>9 DEF Stacked

(* A nested x_eval, or the first.                                            *)
LEMMA Called ==
    ASSUME Inv, HeapMoves, depth < program.depth, depth' = depth + 1,
           NEW g, frames' = [g EXCEPT ![depth + 1] = [Idle EXCEPT !.ph = "start"]],
           g \in Frames,
           \A d \in Slots : Like(g[d], frames[d]) /\ ScopeKept(g[d], parent'),
           chain' = Cons([at |-> depth + 1, what |-> "tco"], chain),
           UNCHANGED <<handler, saveStack>>
    PROVE  Stacked'
<1> DEFINE n == depth + 1
<1>1. /\ depth \in 0..MaxDepth /\ n \in Slots /\ n - 1 = depth
      /\ \A d \in 1..n-1 : d \in Slots /\ d # n
  <2>1. program.depth \in 0..MaxDepth /\ depth \in 0..MaxDepth
    BY EnvAssumption DEF Inv, Stacked, Values
  <2> QED
    BY <2>1, EnvAssumption DEF Slots
<1>2. /\ frames \in Frames /\ chain \in Seq(Node) /\ handler \in Seq(Handler)
      /\ Lists(chain, NodesUpTo(frames, n-1)) /\ Installed(handler, GuardsUpTo(frames, n-1))
      /\ Len(saveStack) = Pushes(frames, n-1)
      /\ \A d \in 1..n-1 : KeepsAt(frames, d)
  BY <1>1 DEF Inv, Stacked, InStep
<1>3. [Idle EXCEPT !.ph = "start"] \in Frame /\ [Idle EXCEPT !.ph = "start"].ph = "start"
  BY IdleType DEF Frame, Phase
<1> DEFINE start == [Idle EXCEPT !.ph = "start"]
<1> HIDE DEF start, n
<1>4. /\ frames' \in Frames /\ frames'[n] = start /\ start.ph = "start"
      /\ \A d \in Slots : d # n => frames'[d] = g[d]
  BY <1>1, <1>3 DEF Frames, start, n
<1>5. \A d \in Slots : ScopeKept(frames'[d], parent')
  BY <1>4 DEF ScopeKept, Scoped, Brackets
<1>6. NodesOf(start, n) = {At(n, "tco")}
  BY <1>4, NodesByPhase DEF Bare
<1>7. /\ chain' \in Seq(Node)
      /\ Lists(chain', NodesUpTo(frames, n-1) \cup NodesOf(start, n))
  <2>1. \A y \in NodesUpTo(frames, n-1) : y.at \in 1..n-1
    BY <1>1, <1>2, Layers
  <2>2. At(n, "tco") \in Node /\ n \in Nat
    BY <1>1, EnvAssumption DEF At, Node, NodeKind, Slots
  <2>3. \A y \in NodesUpTo(frames, n-1) : Newer(At(n, "tco"), y)
    BY <2>1, <2>2 DEF Newer, At
  <2>4. chain' = Cons(At(n, "tco"), chain)
    BY DEF At, n
  <2> QED
    BY <1>2, <1>6, <2>2, <2>3, <2>4, ListsCons
<1>8. Rests(start, n, NodesUpTo(frames, n-1), GuardsUpTo(frames, n-1), Pushes(frames, n-1),
            chain', handler', saveStack')
  BY <1>2, <1>4, <1>7 DEF Rests, Keeps, Brackets, Pushers
<1>9. \A d \in 1..n-1 : Like(frames'[d], frames[d])
  BY <1>1, <1>4
<1>10. InStep(frames', n, chain', handler', saveStack')
  BY <1>1, <1>2, <1>4, <1>8, <1>9, StackTop
<1>11. depth' = n /\ n \in 0..MaxDepth
  BY <1>1, EnvAssumption DEF n, Slots
<1> QED
  BY <1>2, <1>4, <1>5, <1>7, <1>10, <1>11 DEF Stacked

(* The longjmp to the innermost guard, whose frame is still on the stack and *)
(* kept what its frames below still have.                                    *)
LEMMA Raised ==
    ASSUME Inv, Raise
    PROVE  HeapMoves /\ Stacked' /\ env' \in Env /\ saveStack' \in Seq(Env)
<1> DEFINE n == Head(handler).at
           g == frames[n]
<1>1. /\ handler # <<>> /\ handler \in Seq(Handler) /\ frames \in Frames
      /\ Installed(handler, GuardsUpTo(frames, depth))
      /\ \A d \in 1..depth : KeepsAt(frames, d)
      /\ depth \in 0..MaxDepth
  BY DEF Raise, Inv, Stacked, InStep
<1>2. Head(handler) = handler[1] /\ 1 \in DOMAIN handler /\ handler[1] \in Handler
  BY <1>1, HeadTailProperties, LenProperties, EmptySeq
<1>3. n \in 1..depth /\ n \in Slots /\ g.ph = "guarded"
  BY <1>1, <1>2 DEF Installed, GuardsUpTo, Handler
<1>4. g \in Frame /\ KeepsAt(frames, n)
  BY <1>1, <1>3 DEF Frames
<1>5. PICK e \in Fresh :
         /\ NewEnv(e, Head(handler).env)
         /\ env' = e /\ saveStack' = g.stk
         /\ chain' = UnwoundChain(g, n) /\ handler' = Enclosing(g) /\ depth' = n
         /\ frames' = [d \in Slots |->
                         CASE d = n -> [g EXCEPT !.ph = "handling", !.saved = e]
                           [] d > n -> Idle
                           [] OTHER -> frames[d]]
  BY DEF Raise, UnwoundSaves
<1>6. Head(handler).env \in Env /\ e \in Env
  BY <1>2, HeapEnvs DEF Handler
<1>7. HeapMoves
  BY <1>5, <1>6 DEF HeapMoves
<1> DEFINE f == [g EXCEPT !.ph = "handling", !.saved = e]
<1>8. /\ f \in Frame /\ f.ph = "handling" /\ f.saved = e
      /\ f.prev = g.prev /\ f.stk = g.stk
  BY <1>4, <1>6 DEF Frame, Phase, EnvOrNil
<1>9. parent'[e] = Head(handler).env
  BY <1>5, <1>6 DEF NewEnv
<1> HIDE DEF n, g, f
<1>10. n \in Nat /\ \A d \in Slots : d \in Nat
  BY <1>3, EnvAssumption DEF Slots
<1>11. /\ frames' = [d \in Slots |-> frames'[d]] /\ frames'[n] = f
       /\ \A d \in Slots : d > n => frames'[d] = Idle
       /\ \A d \in Slots : d < n => frames'[d] = frames[d]
  BY <1>3, <1>5, <1>10 DEF f
<1>12. ASSUME NEW d \in Slots PROVE frames'[d] \in Frame /\ ScopeKept(frames'[d], parent')
  <2>1. CASE d = n
    BY <1>6, <1>8, <1>9, <1>11, <2>1 DEF ScopeKept
  <2>2. CASE d > n
    BY <1>11, <2>2, IdleType
  <2>3. CASE d < n
    BY <1>1, <1>7, <1>11, <2>3, HeapMoved DEF Frames
  <2> QED
    BY <1>10, <2>1, <2>2, <2>3
<1>13. frames' \in Frames
  BY <1>11, <1>12 DEF Frames
<1> DEFINE nodes == NodesUpTo(frames, n-1)
<1>14. /\ Lists(g.roots, nodes \cup {At(n, "list"), At(n, "tco")})
       /\ Installed(g.prev, GuardsUpTo(frames, n-1))
       /\ Len(g.stk) = Pushes(frames, n-1)
       /\ g.roots \in Seq(Node) /\ g.prev \in Seq(Handler) /\ g.stk \in Seq(Env)
  BY <1>3, <1>4 DEF KeepsAt, Keeps, At, Frame, g
<1>15. NodesOf(f, n) = {At(n, "tco"), At(n, "list"), At(n, "body")}
  BY <1>8, NodesByPhase DEF Guarding, LocalOf
<1>16. chain' \in Seq(Node) /\ Lists(chain', nodes \cup NodesOf(f, n))
  <2>1. chain' = Cons(At(n, "body"), g.roots)
    BY <1>5 DEF UnwoundChain, At
  <2>2. At(n, "body") \in Node
    BY <1>3 DEF At, Node, NodeKind
  <2>3. \A y \in nodes : y.at \in 1..n-1
    BY <1>1, <1>3, Layers
  <2>4. \A y \in nodes \cup {At(n, "list"), At(n, "tco")} : Newer(At(n, "body"), y)
    BY <1>10, <2>3 DEF Newer, At, Layer
  <2>5. nodes \cup NodesOf(f, n) =
          (nodes \cup {At(n, "list"), At(n, "tco")}) \cup {At(n, "body")}
    BY <1>15
  <2> HIDE DEF nodes
  <2> QED
    BY <1>14, <2>1, <2>2, <2>4, <2>5, ListsCons
<1>17. handler' = g.prev /\ saveStack' = g.stk /\ depth' = n
  BY <1>5 DEF Enclosing, g
<1>18. Rests(f, n, nodes, GuardsUpTo(frames, n-1), Pushes(frames, n-1),
             chain', handler', saveStack')
  BY <1>8, <1>14, <1>16, <1>17 DEF Rests, Keeps, Brackets, Pushers
<1>19. InStep(frames', n, chain', handler', saveStack')
  <2>1. \A d \in 1..n-1 : d \in Slots /\ d < n /\ d \in 1..depth
    BY <1>1, <1>3, <1>10, EnvAssumption DEF Slots
  <2>2. \A d \in 1..n-1 : Like(frames'[d], frames[d]) /\ KeepsAt(frames, d)
    BY <1>1, <1>11, <2>1 DEF Like
  <2> QED
    BY <1>1, <1>3, <1>11, <1>13, <1>18, <2>2, StackTop
<1>20. n \in 0..MaxDepth
  BY <1>3, EnvAssumption DEF Slots
<1> QED
  BY <1>5, <1>6, <1>7, <1>12, <1>13, <1>14, <1>16, <1>17, <1>19, <1>20 DEF Stacked

(* The captured stack comes back, its call/cc form answered.                 *)
LEMMA Reentered ==
    ASSUME Inv, Invoke
    PROVE  Stacked' /\ env' \in Env /\ saveStack' \in Seq(Env)
<1> DEFINE n == cont.depth
           fs == cont.frames
           f == [fs[n] EXCEPT !.ph = "back"]
<1>1. /\ cont # NoCont /\ UNCHANGED parent
      /\ env' = cont.env /\ saveStack' = cont.saveStack /\ handler' = cont.handler
      /\ chain' = Tail(cont.chain) /\ depth' = n /\ frames' = [fs EXCEPT ![n].ph = "back"]
  BY DEF Invoke, heap
<1>2. /\ cont.env \in Env /\ cont.saveStack \in Seq(Env) /\ cont.handler \in Seq(Handler)
      /\ cont.chain \in Seq(Node) /\ fs \in Frames /\ n \in Slots
      /\ InStep(fs, n, cont.chain, cont.handler, cont.saveStack)
      /\ fs[n].ph = "list"
      /\ \A d \in Slots : ScopeKept(fs[d], parent')
  BY <1>1 DEF Inv, Continued, Continuation, Frames
<1> HIDE DEF n, fs
<1>3. fs[n] \in Frame /\ f \in Frame /\ f.ph = "back"
  BY <1>2 DEF Frames, Frame, Phase
<1>4. frames' = [fs EXCEPT ![n] = f]
  BY <1>1
<1> HIDE DEF f
<1>5. frames' \in Frames /\ frames'[n] = f /\ \A d \in Slots : d # n => frames'[d] = fs[d]
  BY <1>2, <1>3, <1>4 DEF Frames
<1>6. \A d \in Slots : ScopeKept(frames'[d], parent')
  BY <1>2, <1>3, <1>5 DEF ScopeKept, Scoped, Brackets
<1>7. /\ Rests(fs[n], n, NodesUpTo(fs, n-1), GuardsUpTo(fs, n-1), Pushes(fs, n-1),
               cont.chain, cont.handler, cont.saveStack)
      /\ \A d \in 1..n-1 : KeepsAt(fs, d)
  BY <1>2, TopRests
<1>8. chain' \in Seq(Node) /\ Lists(chain', NodesUpTo(fs, n-1) \cup NodesOf(f, n))
  <2>1. Lists(cont.chain, NodesUpTo(fs, n-1) \cup NodesOf(fs[n], n)) /\ fs[n].ph \in Formed
    BY <1>2, <1>7 DEF Rests, Formed
  <2>2. Tail(cont.chain) \in Seq(Node)
        /\ Lists(Tail(cont.chain), NodesUpTo(fs, n-1) \cup {At(n, "tco")})
    <3>1. /\ SubSeq(cont.chain, 2, Len(cont.chain)) \in Seq(Node)
          /\ SubSeq(cont.chain, 2, Len(cont.chain)) = Tail(cont.chain)
          /\ Lists(SubSeq(cont.chain, 2, Len(cont.chain)), NodesUpTo(fs, n-1) \cup {At(n, "tco")})
      BY <1>2, <2>1, ChainMoves
    <3> QED
      BY <3>1
  <2>3. NodesOf(f, n) = {At(n, "tco")}
    BY <1>3, NodesByPhase DEF Bare
  <2> QED
    BY <1>1, <2>2, <2>3
<1>9. Rests(f, n, NodesUpTo(fs, n-1), GuardsUpTo(fs, n-1), Pushes(fs, n-1),
            chain', handler', saveStack')
  BY <1>1, <1>2, <1>3, <1>7, <1>8 DEF Rests, Keeps, Brackets, Pushers
<1>10. \A d \in 1..n-1 : Like(frames'[d], fs[d])
  BY <1>2, <1>5, EnvAssumption DEF Slots, Like
<1>11. InStep(frames', n, chain', handler', saveStack')
  BY <1>2, <1>5, <1>7, <1>9, <1>10, StackTop
<1>12. n \in 0..MaxDepth
  BY <1>2, EnvAssumption DEF Slots
<1> QED
  BY <1>1, <1>2, <1>5, <1>6, <1>8, <1>11, <1>12 DEF Stacked

-----------------------------------------------------------------------------
(* Every step keeps the invariant.                                           *)
LEMMA InvTyped ==
    ASSUME Inv PROVE TypeOK
BY DEF Inv, Stacked, Values, Continued, Frames, TypeOK

(* What a handler running in phase ph finds.                                 *)
LEMMA Running ==
    ASSUME Inv, NEW ph, In(ph)
    PROVE  /\ depth > 0 /\ ~exited /\ Me.ph = ph /\ env \in Env /\ depth \in Slots
           /\ saveStack \in Seq(Env) /\ handler \in Seq(Handler) /\ chain \in Seq(Node)
           /\ tcoEnv \in EnvOrNil /\ tcoExpr \in BOOLEAN /\ swept \subseteq Env
           /\ tcoEnv # NoEnv => tcoExpr
           /\ ph \notin {"back", "loop"} => ~tcoExpr /\ tcoEnv = NoEnv
           /\ Me \in Frame
           /\ ph \in Scoped => Me.saved \in Env
           /\ ph = "handling" => parent[Me.saved] \in Env
           /\ PushesBelow \in Nat
           /\ ph \notin Pushers \cup Brackets => Len(saveStack) = PushesBelow
           /\ ph \in Pushers => /\ Head(saveStack) \in Env
                                /\ Tail(saveStack) \in Seq(Env)
                                /\ Len(Tail(saveStack)) = PushesBelow
           /\ ph \in Brackets => Len(Me.stk) = PushesBelow
           /\ ph # "guarded" => Installed(handler, GuardsBelow)
           /\ ph \in {"guarded", "handling"} => Installed(Me.prev, GuardsBelow)
<1>1. /\ depth > 0 /\ ~exited /\ Me.ph = ph
  BY DEF In
<1>2. /\ env \in Env /\ saveStack \in Seq(Env) /\ handler \in Seq(Handler)
      /\ tcoEnv \in EnvOrNil /\ tcoExpr \in BOOLEAN /\ swept \subseteq Env
  BY DEF Inv, Stacked, Values
<1>3. /\ tcoEnv # NoEnv => tcoExpr
      /\ ph \notin {"back", "loop"} => ~tcoExpr /\ tcoEnv = NoEnv
  BY <1>1, <1>2 DEF Inv, TcoClean
<1>4. /\ depth \in Slots /\ Me \in Frame /\ chain \in Seq(Node) /\ PushesBelow \in Nat
      /\ Rests(Me, depth, NodesBelow, GuardsBelow, PushesBelow, chain, handler, saveStack)
  BY <1>1, TopFacts
<1>5. ScopeKept(Me, parent)
  BY <1>4 DEF Inv, Stacked, Me
<1>6. ph \in Scoped => Me.saved \in Env /\ (ph = "handling" => parent[Me.saved] \in Env)
  BY <1>1, <1>5 DEF ScopeKept
<1>7. ph = "handling" => ph \in Scoped
  BY DEF Scoped
<1>8. /\ Len(saveStack) = IF ph \in Brackets THEN 0
                          ELSE IF ph \in Pushers THEN PushesBelow + 1 ELSE PushesBelow
      /\ Installed(handler, GuardsBelow \cup (IF ph = "guarded" THEN {depth} ELSE {}))
      /\ ph \in {"guarded", "handling"} => Installed(Me.prev, GuardsBelow)
      /\ ph \in {"guarded"} \cup Brackets => Len(Me.stk) = PushesBelow
  BY <1>1, <1>4 DEF Rests, Keeps
<1>9. ph \in Pushers => ph \notin Brackets
  BY DEF Pushers, Brackets
<1>10. ASSUME ph \in Pushers
       PROVE  /\ Head(saveStack) \in Env /\ Tail(saveStack) \in Seq(Env)
              /\ Len(Tail(saveStack)) = PushesBelow
  <2>1. Len(saveStack) = PushesBelow + 1
    BY <1>8, <1>9, <1>10
  <2>2. saveStack # <<>>
    BY <1>4, <2>1, EmptySeq
  <2> QED
    BY <1>2, <1>4, <2>1, <2>2, HeadTailProperties
<1>11. GuardsBelow \cup {} = GuardsBelow
  OBVIOUS
<1>12. ph # "guarded" => Installed(handler, GuardsBelow)
  BY <1>8, <1>11
<1>13. ph \notin Pushers \cup Brackets => Len(saveStack) = PushesBelow
  BY <1>8
<1>14. ph \in Brackets => Len(Me.stk) = PushesBelow
  BY <1>8
<1> QED
  BY <1>1, <1>2, <1>3, <1>4, <1>6, <1>7, <1>8, <1>10, <1>12, <1>13, <1>14

(* The parts put together.                                                   *)
LEMMA Kept ==
    ASSUME Inv, HeapMoves, Stacked', UNCHANGED program,
           cont' = cont \/ cont' = NoCont
              \/ (cont' = Captured /\ depth > 0 /\ Me.ph = "list"),
           env' \in Env, saveStack' \in Seq(Env), exited' \in BOOLEAN,
           tcoExpr' \in BOOLEAN, tcoEnv' \in EnvOrNil,
           ~exited' => /\ tcoEnv' # NoEnv => tcoExpr'
                       /\ tcoExpr' => depth' > 0 /\ Me'.ph \in {"back", "loop"}
    PROVE  Inv'
<1>1. Values'
  BY HeapMoved DEF Inv, Values
<1>2. TcoClean'
  BY DEF TcoClean
<1>3. Continued'
  BY ContinuationKept
<1> QED
  BY <1>1, <1>2, <1>3 DEF Inv

(* The registers a handler answers with.                                     *)
Settled ==
    /\ env' \in Env /\ saveStack' \in Seq(Env) /\ Len(saveStack') = PushesBelow
    /\ handler' \in Seq(Handler) /\ Installed(handler', GuardsBelow)
    /\ tcoExpr' \in BOOLEAN /\ tcoEnv' \in EnvOrNil /\ (tcoEnv' # NoEnv => tcoExpr')

LEMMA AnswerStep ==
    ASSUME Inv, UNCHANGED <<program, depth, exited, parent, cont>>, swept' \subseteq Env,
           NEW ph, In(ph), NEW pops \in {0, 1}, Answer(pops),
           pops = 0 => ph \in Formed, pops = 1 => ph \in Guarding,
           Settled
    PROVE  Inv'
<1>1. HeapMoves
  BY DEF HeapMoves
<1>2. depth > 0 /\ Me.ph = ph /\ ~exited
  BY DEF In
<1>3. Stacked' /\ Me'.ph = "back"
  BY <1>1, <1>2, Answered DEF Settled
<1>4. depth' > 0 /\ exited' \in BOOLEAN /\ cont' = cont /\ UNCHANGED program
  BY <1>2 DEF Inv, Values
<1> QED
  BY <1>1, <1>3, <1>4, Kept DEF Settled

LEMMA EnterStep ==
    ASSUME Inv, HeapMoves, UNCHANGED <<program, depth, exited, tcoExpr, tcoEnv>>, In("list"),
           cont' = cont \/ cont' = NoCont \/ cont' = Captured,
           NEW g \in Frame, frames' = [frames EXCEPT ![depth] = g], g.ph \in Guarding,
           ScopeKept(g, parent'),
           chain' = Cons([at |-> depth, what |-> LocalOf(g.ph)], chain),
           handler' = IF g.ph = "guarded" THEN Cons([at |-> depth, env |-> env], handler)
                      ELSE handler,
           g.ph # "handling",
           g.ph = "guarded" => g.stk = saveStack /\ g.prev = handler /\ g.roots = chain,
           g.ph \in Brackets => g.stk = saveStack,
           env' \in Env, saveStack' \in Seq(Env),
           Len(saveStack') = IF g.ph \in Brackets THEN 0
                             ELSE IF g.ph = "body" THEN Len(saveStack) + 1 ELSE Len(saveStack)
    PROVE  Inv'
<1>1. depth > 0 /\ Me.ph = "list" /\ ~tcoExpr /\ tcoEnv = NoEnv
  BY Running
<1>2. Stacked'
  BY <1>1, Entered
<1>3. /\ exited' \in BOOLEAN /\ tcoExpr' \in BOOLEAN /\ tcoEnv' \in EnvOrNil
      /\ ~tcoExpr' /\ tcoEnv' = NoEnv /\ UNCHANGED program
  BY <1>1 DEF Inv, Values
<1> QED
  BY <1>1, <1>2, <1>3, Kept

(* The forms that answer.                                                    *)
Answering ==
    \/ Data \/ BodyTail \/ BodyNilTail \/ OpTail \/ OpNilTail \/ Applied \/ LoopDone
    \/ DeferPlain \/ TailEval \/ EvalInDone \/ LeaveTop \/ GuardDone \/ HandlingDone
    \/ Collect

LEMMA AnsweringKeeps ==
    ASSUME Inv, UNCHANGED program, Answering
    PROVE  Inv'
<1> USE DEF registers, heap
<1>1. CASE Data
  <2>1. /\ In("list")
        /\ Answer(0) /\ UNCHANGED <<depth, exited, heap>>
        /\ UNCHANGED <<env, saveStack, tcoExpr, tcoEnv, handler>>
    BY <1>1 DEF Data
  <2>2. Settled
    BY <2>1, Running DEF Settled, Pushers, Brackets, Scoped, EnvOrNil
  <2>3. swept' \subseteq Env
    BY <2>1, Running
  <2> QED
    BY <2>1, <2>2, <2>3, AnswerStep DEF Formed
<1>2. CASE BodyTail
  <2>1. /\ In("body")
        /\ Answer(1) /\ UNCHANGED <<depth, exited, heap>>
        /\ tcoExpr' = TRUE
        /\ tcoEnv' = IF tcoEnv = NoEnv THEN Head(saveStack) ELSE tcoEnv
        /\ saveStack' = Tail(saveStack)
        /\ UNCHANGED <<env, handler>>
    BY <1>2 DEF BodyTail
  <2>2. Settled
    BY <2>1, Running DEF Settled, Pushers, Brackets, Scoped, EnvOrNil
  <2>3. swept' \subseteq Env
    BY <2>1, Running
  <2> QED
    BY <2>1, <2>2, <2>3, AnswerStep DEF Guarding, Brackets
<1>3. CASE BodyNilTail
  <2>1. /\ In("body")
        /\ Answer(1) /\ UNCHANGED <<depth, exited, heap>>
        /\ env' = Head(saveStack)
        /\ saveStack' = Tail(saveStack)
        /\ UNCHANGED <<tcoExpr, tcoEnv, handler>>
    BY <1>3 DEF BodyNilTail
  <2>2. Settled
    BY <2>1, Running DEF Settled, Pushers, Brackets, Scoped, EnvOrNil
  <2>3. swept' \subseteq Env
    BY <2>1, Running
  <2> QED
    BY <2>1, <2>2, <2>3, AnswerStep DEF Guarding, Brackets
<1>4. CASE OpTail
  <2>1. /\ In("opbody")
        /\ Answer(1) /\ UNCHANGED <<depth, exited, heap>>
        /\ tcoExpr' = TRUE
        /\ tcoEnv' = Me.saved
        /\ UNCHANGED <<env, saveStack, handler>>
    BY <1>4 DEF OpTail
  <2>2. Settled
    BY <2>1, Running DEF Settled, Pushers, Brackets, Scoped, EnvOrNil
  <2>3. swept' \subseteq Env
    BY <2>1, Running
  <2> QED
    BY <2>1, <2>2, <2>3, AnswerStep DEF Guarding, Brackets
<1>5. CASE OpNilTail
  <2>1. /\ In("opbody")
        /\ Answer(1) /\ UNCHANGED <<depth, exited, heap>>
        /\ env' = Me.saved
        /\ UNCHANGED <<saveStack, tcoExpr, tcoEnv, handler>>
    BY <1>5 DEF OpNilTail
  <2>2. Settled
    BY <2>1, Running DEF Settled, Pushers, Brackets, Scoped, EnvOrNil
  <2>3. swept' \subseteq Env
    BY <2>1, Running
  <2> QED
    BY <2>1, <2>2, <2>3, AnswerStep DEF Guarding, Brackets
<1>6. CASE Applied
  <2>1. /\ In("applied")
        /\ Answer(1) /\ UNCHANGED <<depth, exited, heap>>
        /\ env' = Me.saved
        /\ UNCHANGED <<saveStack, tcoExpr, tcoEnv, handler>>
    BY <1>6 DEF Applied
  <2>2. Settled
    BY <2>1, Running DEF Settled, Pushers, Brackets, Scoped, EnvOrNil
  <2>3. swept' \subseteq Env
    BY <2>1, Running
  <2> QED
    BY <2>1, <2>2, <2>3, AnswerStep DEF Guarding, Brackets
<1>7. CASE LoopDone
  <2>1. /\ In("loop")
        /\ Answer(1) /\ UNCHANGED <<depth, exited, heap>>
        /\ env' = IF Me.saved # NoEnv THEN Me.saved ELSE env
        /\ ~tcoExpr
        /\ UNCHANGED <<saveStack, tcoExpr, tcoEnv, handler>>
    BY <1>7 DEF LoopDone
  <2>2. Settled
    BY <2>1, Running DEF Settled, Pushers, Brackets, Scoped, EnvOrNil, Frame
  <2>3. swept' \subseteq Env
    BY <2>1, Running
  <2> QED
    BY <2>1, <2>2, <2>3, AnswerStep DEF Guarding, Brackets
<1>8. CASE DeferPlain
  <2>1. /\ In("list")
        /\ Answer(0) /\ UNCHANGED <<depth, exited, heap>>
        /\ tcoExpr' = TRUE
        /\ UNCHANGED <<env, saveStack, tcoEnv, handler>>
    BY <1>8 DEF DeferPlain
  <2>2. Settled
    BY <2>1, Running DEF Settled, Pushers, Brackets, Scoped, EnvOrNil
  <2>3. swept' \subseteq Env
    BY <2>1, Running
  <2> QED
    BY <2>1, <2>2, <2>3, AnswerStep DEF Formed
<1>9. CASE TailEval
  <2>1. /\ In("list")
        /\ Answer(0) /\ UNCHANGED <<depth, exited, heap>>
        /\ tcoExpr' = TRUE
        /\ env' \in Reached
        /\ UNCHANGED <<saveStack, tcoEnv, handler>>
    BY <1>9 DEF TailEval, Form
  <2>2. Settled
    BY <2>1, Running, HeapEnvs DEF Settled, Pushers, Brackets, Scoped, EnvOrNil
  <2>3. swept' \subseteq Env
    BY <2>1, Running
  <2> QED
    BY <2>1, <2>2, <2>3, AnswerStep DEF Formed
<1>10. CASE EvalInDone
  <2>1. /\ In("evaled")
        /\ Answer(0) /\ UNCHANGED <<depth, exited, heap>>
        /\ env' = Head(saveStack)
        /\ saveStack' = Tail(saveStack)
        /\ UNCHANGED <<tcoExpr, tcoEnv, handler>>
    BY <1>10 DEF EvalInDone
  <2>2. Settled
    BY <2>1, Running DEF Settled, Pushers, Brackets, Scoped, EnvOrNil
  <2>3. swept' \subseteq Env
    BY <2>1, Running
  <2> QED
    BY <2>1, <2>2, <2>3, AnswerStep DEF Formed
<1>11. CASE LeaveTop
  <2>1. PICK ph \in {"topped", "load"} : In(ph)
    BY <1>11 DEF LeaveTop
  <2>2. /\ Answer(1) /\ UNCHANGED <<depth, exited, heap>>
        /\ saveStack' = Me.stk /\ env' = Me.saved
        /\ UNCHANGED <<tcoExpr, tcoEnv, handler>>
    BY <1>11 DEF LeaveTop
  <2>3. ph \in Brackets \cap Scoped \cap Guarding /\ ph \notin {"back", "loop", "guarded"}
    BY DEF Brackets, Scoped, Guarding
  <2>4. Me.stk \in Seq(Env)
    BY <2>1, Running DEF Frame
  <2>5. Settled
    BY <2>1, <2>2, <2>3, <2>4, Running DEF Settled
  <2>6. swept' \subseteq Env
    BY <2>1, <2>2, Running
  <2> QED
    BY <2>1, <2>2, <2>3, <2>5, <2>6, AnswerStep
<1>12. CASE GuardDone
  <2>1. /\ In("guarded")
        /\ Answer(1) /\ UNCHANGED <<depth, exited, heap>>
        /\ handler' = Me.prev
        /\ UNCHANGED <<env, saveStack, tcoExpr, tcoEnv>>
    BY <1>12 DEF GuardDone
  <2>2. Settled
    BY <2>1, Running DEF Settled, Pushers, Brackets, Scoped, EnvOrNil, Frame
  <2>3. swept' \subseteq Env
    BY <2>1, Running
  <2> QED
    BY <2>1, <2>2, <2>3, AnswerStep DEF Guarding, Brackets
<1>13. CASE HandlingDone
  <2>1. /\ In("handling")
        /\ Answer(1) /\ UNCHANGED <<depth, exited, heap>>
        /\ env' = parent[Me.saved]
        /\ handler' = Me.prev
        /\ UNCHANGED <<saveStack, tcoExpr, tcoEnv>>
    BY <1>13 DEF HandlingDone
  <2>2. Settled
    BY <2>1, Running DEF Settled, Pushers, Brackets, Scoped, EnvOrNil, Frame
  <2>3. swept' \subseteq Env
    BY <2>1, Running
  <2> QED
    BY <2>1, <2>2, <2>3, AnswerStep DEF Guarding, Brackets
<1>14. CASE Collect
  <2>1. /\ In("list")
        /\ Answer(0) /\ UNCHANGED <<depth, exited, parent, cont>>
        /\ swept' = swept \cup (Locals \ Reached)
        /\ UNCHANGED <<env, saveStack, tcoExpr, tcoEnv, handler>>
    BY <1>14 DEF Collect, Form
  <2>2. Settled
    BY <2>1, Running DEF Settled, Pushers, Brackets, Scoped, EnvOrNil
  <2>3. swept' \subseteq Env
    BY <2>1, Running, HeapEnvs
  <2> QED
    BY <2>1, <2>2, <2>3, AnswerStep DEF Formed
<1> QED
  BY <1>1, <1>2, <1>3, <1>4, <1>5, <1>6, <1>7, <1>8, <1>9, <1>10, <1>11, <1>12, <1>13, <1>14 DEF Answering

(* The forms that go on in a phase of their own.                             *)
Entering ==
    \/ Procedure \/ Operative \/ Sequence \/ ApplyProcedure \/ ApplyOperative
    \/ EvalTop \/ Load \/ Guard \/ CallCC

LEMMA MadeEnv ==
    ASSUME Inv, \E e \in Fresh, p \in Reached : NewEnv(e, p) /\ env' = e
    PROVE  HeapMoves /\ env' \in Env
<1>1. Fresh \subseteq Env /\ Reached \subseteq Env
  BY HeapEnvs
<1> QED
  BY <1>1 DEF HeapMoves

(* A frame that walks a body, the caller's environment in a local.           *)
LEMMA WalkStep ==
    ASSUME Inv, HeapMoves, UNCHANGED <<program, depth, exited, tcoExpr, tcoEnv, handler>>,
           In("list"), cont' = cont \/ cont' = NoCont \/ cont' = Captured,
           NEW ph \in {"opbody", "apbody", "applied"},
           frames' = [frames EXCEPT ![depth] = [@ EXCEPT !.ph = ph, !.saved = env]],
           chain' = Cons([at |-> depth, what |-> LocalOf(ph)], chain),
           env' \in Env, saveStack' = saveStack
    PROVE  Inv'
<1> DEFINE g == [Me EXCEPT !.ph = ph, !.saved = env]
<1>1. Me \in Frame /\ env \in Env /\ saveStack \in Seq(Env) /\ depth \in Slots
  BY Running
<1>2. ph \in Phase /\ env \in EnvOrNil /\ ph \in Guarding /\ ph \notin {"guarded", "handling", "body"}
      /\ ph \notin Brackets
  BY <1>1 DEF Phase, EnvOrNil, Guarding, Brackets
<1>3. g \in Frame /\ g.ph = ph /\ g.saved = env
  BY <1>1, <1>2 DEF Frame
<1>4. ScopeKept(g, parent')
  BY <1>1, <1>2, <1>3 DEF ScopeKept
<1>5. frames' = [frames EXCEPT ![depth] = g]
  BY DEF Me
<1> HIDE DEF g
<1> QED
  BY <1>1, <1>2, <1>3, <1>4, <1>5, EnterStep

LEMMA TopStep ==
    ASSUME Inv, UNCHANGED program, In("list"), NEW ph \in {"top", "load"}, EnterTop(ph)
    PROVE  Inv'
<1> DEFINE g == [Me EXCEPT !.ph = ph, !.saved = env, !.stk = saveStack]
<1>1. Me \in Frame /\ env \in Env /\ saveStack \in Seq(Env) /\ swept \subseteq Env
  BY Running
<1>2. ph \in Phase /\ env \in EnvOrNil /\ ph \in Guarding /\ ph \in Brackets
      /\ ph \notin {"guarded", "handling"} /\ LocalOf(ph) = "park"
  BY <1>1 DEF Phase, EnvOrNil, Guarding, Brackets, LocalOf
<1>3. g \in Frame /\ g.ph = ph /\ g.saved = env /\ g.stk = saveStack
  BY <1>1, <1>2 DEF Frame
<1>4. /\ frames' = [frames EXCEPT ![depth] = g]
      /\ saveStack' = <<>> /\ env' = Root
      /\ chain' = Cons([at |-> depth, what |-> "park"], chain)
      /\ UNCHANGED <<tcoExpr, tcoEnv, handler, depth, exited, parent, swept, cont>>
  BY DEF EnterTop, heap, Me
<1> HIDE DEF g
<1>5. ScopeKept(g, parent') /\ HeapMoves
  BY <1>1, <1>2, <1>3, <1>4 DEF ScopeKept, HeapMoves
<1>6. saveStack' \in Seq(Env) /\ Len(saveStack') = 0 /\ env' \in Env
  BY <1>4, EnvAssumption, EmptySeq
<1>7. /\ g.ph \in Guarding /\ g.ph \in Brackets /\ g.ph \notin {"guarded", "handling"}
      /\ chain' = Cons([at |-> depth, what |-> LocalOf(g.ph)], chain)
      /\ UNCHANGED <<program, depth, exited, tcoExpr, tcoEnv>> /\ handler' = handler
      /\ cont' = cont
  BY <1>2, <1>3, <1>4
<1>8. /\ handler' = IF g.ph = "guarded" THEN Cons([at |-> depth, env |-> env], handler)
                    ELSE handler
      /\ Len(saveStack') = IF g.ph \in Brackets THEN 0
                            ELSE IF g.ph = "body" THEN Len(saveStack) + 1 ELSE Len(saveStack)
      /\ g.ph # "handling" /\ g.ph # "guarded"
  BY <1>6, <1>7
<1> QED
  BY <1>3, <1>4, <1>5, <1>6, <1>7, <1>8, EnterStep

LEMMA EnteringKeeps ==
    ASSUME Inv, UNCHANGED program, Entering
    PROVE  Inv'
<1>1. CASE Procedure
  <2> DEFINE g == [Me EXCEPT !.ph = "body"]
  <2>1. /\ In("list") /\ \E e \in Fresh, p \in Reached : NewEnv(e, p) /\ env' = e
        /\ saveStack' = Cons(env, saveStack)
        /\ frames' = [frames EXCEPT ![depth].ph = "body"]
        /\ chain' = Cons([at |-> depth, what |-> "body"], chain)
        /\ UNCHANGED <<tcoExpr, tcoEnv, handler, depth, cont, exited>>
    BY <1>1 DEF Procedure, Form, Become
  <2>2. Me \in Frame /\ env \in Env /\ saveStack \in Seq(Env)
    BY <2>1, Running
  <2>3. g \in Frame /\ g.ph = "body"
    BY <2>2 DEF Frame, Phase
  <2>4. frames' = [frames EXCEPT ![depth] = g]
    BY <2>1 DEF Me
  <2>5. saveStack' \in Seq(Env) /\ Len(saveStack') = Len(saveStack) + 1
    <3>1. <<env>> \in Seq(Env) /\ Len(<<env>>) = 1
      BY <2>2
    <3>2. /\ <<env>> \o saveStack \in Seq(Env)
          /\ Len(<<env>> \o saveStack) = 1 + Len(saveStack)
      BY <2>2, <3>1, ConcatProperties
    <3>3. Len(saveStack) \in Nat
      BY <2>2, LenProperties
    <3> QED
      BY <2>1, <3>1, <3>2, <3>3 DEF Cons
  <2> HIDE DEF g
  <2>6. ScopeKept(g, parent') /\ g.ph \in Guarding /\ g.ph \notin Brackets
        /\ LocalOf(g.ph) = "body"
    BY <2>3 DEF ScopeKept, Scoped, Brackets, Guarding, LocalOf
  <2> QED
    BY <2>1, <2>3, <2>4, <2>5, <2>6, MadeEnv, EnterStep
<1>2. CASE Operative
  <2>1. /\ In("list") /\ \E e \in Fresh, p \in Reached : NewEnv(e, p) /\ env' = e
        /\ frames' = [frames EXCEPT ![depth] = [@ EXCEPT !.ph = "opbody", !.saved = env]]
        /\ chain' = Cons([at |-> depth, what |-> "op"], chain)
        /\ UNCHANGED <<saveStack, tcoExpr, tcoEnv, handler, depth, cont, exited>>
    BY <1>2 DEF Operative, Form, EnterOperative
  <2>2. LocalOf("opbody") = "op"
    BY DEF LocalOf
  <2> QED
    BY <2>1, <2>2, MadeEnv, WalkStep
<1>3. CASE Sequence
  <2>1. /\ In("list") /\ UNCHANGED <<registers, depth, heap, exited>>
        /\ frames' = [frames EXCEPT ![depth] = [@ EXCEPT !.ph = "opbody", !.saved = env]]
        /\ chain' = Cons([at |-> depth, what |-> "op"], chain)
    BY <1>3 DEF Sequence, Form
  <2>2. UNCHANGED <<env, saveStack, tcoExpr, tcoEnv, handler, depth, parent, swept, cont, exited>>
    BY <2>1 DEF registers, heap
  <2>3. HeapMoves /\ env' \in Env
    BY <2>1, <2>2, Running DEF HeapMoves
  <2>4. LocalOf("opbody") = "op"
    BY DEF LocalOf
  <2> QED
    BY <2>1, <2>2, <2>3, <2>4, WalkStep
<1>4. CASE ApplyProcedure
  <2>1. /\ In("list") /\ \E e \in Fresh, p \in Reached : NewEnv(e, p) /\ env' = e
        /\ frames' = [frames EXCEPT ![depth] = [@ EXCEPT !.ph = "applied", !.saved = env]]
        /\ chain' = Cons([at |-> depth, what |-> "body"], chain)
        /\ UNCHANGED <<saveStack, tcoExpr, tcoEnv, handler, depth, cont, exited>>
    BY <1>4 DEF ApplyProcedure, Form
  <2>2. LocalOf("applied") = "body"
    BY DEF LocalOf
  <2> QED
    BY <2>1, <2>2, MadeEnv, WalkStep
<1>5. CASE ApplyOperative
  <2>1. /\ In("list") /\ \E e \in Fresh, p \in Reached : NewEnv(e, p) /\ env' = e
        /\ frames' = [frames EXCEPT ![depth] = [@ EXCEPT !.ph = "apbody", !.saved = env]]
        /\ chain' = Cons([at |-> depth, what |-> "op"], chain)
        /\ UNCHANGED <<saveStack, tcoExpr, tcoEnv, handler, depth, cont, exited>>
    BY <1>5 DEF ApplyOperative, Form, EnterOperative
  <2>2. LocalOf("apbody") = "op"
    BY DEF LocalOf
  <2> QED
    BY <2>1, <2>2, MadeEnv, WalkStep
<1>6. CASE EvalTop
  BY <1>6, TopStep DEF EvalTop, Form
<1>7. CASE Load
  BY <1>7, TopStep DEF Load, Form
<1>8. CASE Guard
  <2> DEFINE g == [Me EXCEPT !.ph = "guarded", !.stk = saveStack, !.prev = handler,
                             !.roots = chain]
  <2>1. /\ In("list")
        /\ frames' = [frames EXCEPT ![depth] = [@ EXCEPT !.ph = "guarded", !.stk = saveStack,
                                                        !.prev = handler, !.roots = chain]]
        /\ handler' = Cons([at |-> depth, env |-> env], handler)
        /\ chain' = Cons([at |-> depth, what |-> "body"], chain)
        /\ UNCHANGED <<env, saveStack, tcoExpr, tcoEnv, depth, parent, swept, cont, exited>>
    BY <1>8 DEF Guard, Form, heap
  <2>2. /\ Me \in Frame /\ env \in Env /\ saveStack \in Seq(Env) /\ swept \subseteq Env
        /\ handler \in Seq(Handler) /\ chain \in Seq(Node)
    BY <2>1, Running
  <2>3. g \in Frame /\ g.ph = "guarded" /\ g.stk = saveStack /\ g.prev = handler
        /\ g.roots = chain
    BY <2>2 DEF Frame, Phase
  <2>4. frames' = [frames EXCEPT ![depth] = g]
    BY <2>1 DEF Me
  <2> HIDE DEF g
  <2>5. ScopeKept(g, parent') /\ g.ph \in Guarding /\ g.ph \notin Brackets
        /\ LocalOf(g.ph) = "body"
    BY <2>3 DEF ScopeKept, Scoped, Brackets, Guarding, LocalOf
  <2>6. HeapMoves
    BY <2>1, <2>2 DEF HeapMoves
  <2> QED
    BY <2>1, <2>2, <2>3, <2>4, <2>5, <2>6, EnterStep
<1>9. CASE CallCC
  <2>1. /\ In("list") /\ cont' \in {Captured, NoCont}
        /\ \E e \in Fresh, p \in Reached : NewEnv(e, p) /\ env' = e
        /\ UNCHANGED <<saveStack, tcoExpr, tcoEnv, handler, depth, exited>>
    BY <1>9 DEF CallCC, Form, EnterOperative
  <2>2. \/ /\ frames' = [frames EXCEPT ![depth] = [@ EXCEPT !.ph = "applied", !.saved = env]]
           /\ chain' = Cons([at |-> depth, what |-> "body"], chain)
        \/ /\ frames' = [frames EXCEPT ![depth] = [@ EXCEPT !.ph = "apbody", !.saved = env]]
           /\ chain' = Cons([at |-> depth, what |-> "op"], chain)
    BY <1>9 DEF CallCC, EnterOperative
  <2>3. LocalOf("applied") = "body" /\ LocalOf("apbody") = "op"
    BY DEF LocalOf
  <2>4. HeapMoves /\ env' \in Env
    BY <2>1, MadeEnv
  <2> QED
    BY <2>1, <2>2, <2>3, <2>4, WalkStep
<1> QED
  BY <1>1, <1>2, <1>3, <1>4, <1>5, <1>6, <1>7, <1>8, <1>9 DEF Entering

(* The steps of x_eval itself, the pass of x_eval_tco_trampoline, and the    *)
(* ones that leave the frame.                                                *)
LEMMA CallKeeps ==
    ASSUME Inv, UNCHANGED program, Call
    PROVE  Inv'
<1>1. /\ ~exited /\ depth < program.depth /\ (depth > 0 => Me.ph \in Calling)
      /\ depth' = depth + 1
      /\ frames' = [frames EXCEPT ![depth + 1] = [Idle EXCEPT !.ph = "start"]]
      /\ chain' = Cons([at |-> depth + 1, what |-> "tco"], chain)
      /\ UNCHANGED <<env, saveStack, tcoExpr, tcoEnv, handler, parent, swept, cont, exited>>
  BY DEF Call, registers, heap
<1>2. /\ swept \subseteq Env /\ env \in Env /\ saveStack \in Seq(Env) /\ tcoEnv \in EnvOrNil
      /\ tcoExpr \in BOOLEAN /\ exited \in BOOLEAN /\ frames \in Frames /\ depth \in Nat
      /\ \A d \in Slots : ScopeKept(frames[d], parent)
  BY EnvAssumption DEF Inv, Stacked, Values
<1>3. HeapMoves
  BY <1>1, <1>2 DEF HeapMoves
<1>4. ~tcoExpr /\ tcoEnv = NoEnv
  <2>1. Calling \cap {"back", "loop"} = {}
    BY DEF Calling
  <2> QED
    BY <1>1, <1>2, <2>1 DEF Inv, TcoClean
<1>5. Stacked'
  <2>1. \A d \in Slots : Like(frames[d], frames[d]) /\ ScopeKept(frames[d], parent')
    BY <1>1, <1>2 DEF Like
  <2> QED
    BY <1>1, <1>2, <1>3, <2>1, Called
<1> QED
  BY <1>1, <1>2, <1>3, <1>4, <1>5, Kept

LEMMA LeaveKeeps ==
    ASSUME Inv, UNCHANGED program, SelfEvaluate \/ Return
    PROVE  Inv'
<1> DEFINE e == IF SelfEvaluate THEN env ELSE Restored
<1>1. PICK ph \in {"start", "back"} : In(ph)
  BY DEF SelfEvaluate, Return
<1>2. /\ depth > 0 /\ Me.ph = ph /\ env \in Env /\ saveStack \in Seq(Env)
      /\ Me.kept \in EnvOrNil /\ swept \subseteq Env /\ exited \in BOOLEAN
  BY <1>1, Running DEF Frame, Inv, Values
<1>3. ~tcoExpr /\ tcoEnv = NoEnv
  <2>1. CASE SelfEvaluate
    <3>1. In("start")
      BY <2>1 DEF SelfEvaluate
    <3> QED
      BY <3>1, Running
  <2>2. CASE Return
    BY <1>1, <2>2, Running DEF Return
  <2> QED
    BY <2>1, <2>2
<1>4. /\ Leave(e) /\ UNCHANGED <<saveStack, tcoExpr, handler, parent, swept, cont, exited>>
      /\ tcoEnv' = NoEnv
  BY <1>3 DEF SelfEvaluate, Return, heap
<1>5. e \in Env
  BY <1>2 DEF Restored, EnvOrNil
<1> HIDE DEF e
<1>6. env' \in Env
  BY <1>4, <1>5 DEF Leave
<1>7. HeapMoves
  BY <1>2, <1>4 DEF HeapMoves
<1>8. Stacked'
  <2>1. Me.ph \in Bare
    BY <1>2 DEF Bare
  <2> QED
    BY <1>2, <1>4, <1>7, <2>1, Left
<1>9. tcoExpr' \in BOOLEAN /\ ~tcoExpr' /\ tcoEnv' \in EnvOrNil
  BY <1>3, <1>4 DEF EnvOrNil, Inv, Values
<1> QED
  BY <1>2, <1>4, <1>6, <1>7, <1>8, <1>9, Kept

(* The frame changes phase, and with it what is registered and pushed.       *)
LEMMA PhaseStep ==
    ASSUME Inv, UNCHANGED <<program, depth, exited, parent, cont, handler>>, swept' = swept,
           NEW ph \in {"start", "back", "list", "apbody"}, In(ph),
           NEW g \in Frame, frames' = [frames EXCEPT ![depth] = g],
           g.ph \in {"start", "back", "list", "evalin", "loop"},
           chain' \in Seq(Node), Lists(chain', NodesBelow \cup NodesOf(g, depth)),
           env' \in Env, saveStack' \in Seq(Env),
           Len(saveStack') = IF g.ph = "evalin" THEN PushesBelow + 1 ELSE PushesBelow,
           tcoExpr' \in BOOLEAN, tcoEnv' \in EnvOrNil, tcoEnv' # NoEnv => tcoExpr',
           tcoExpr' => g.ph \in {"back", "loop"}
    PROVE  Inv'
<1>1. /\ depth > 0 /\ swept \subseteq Env /\ exited \in BOOLEAN
      /\ handler \in Seq(Handler) /\ Installed(handler, GuardsBelow)
  BY Running DEF Inv, Values
<1>2. HeapMoves
  BY <1>1 DEF HeapMoves
<1>3. ScopeKept(g, parent')
  BY DEF ScopeKept, Scoped, Brackets
<1>4. Rests(g, depth, NodesBelow, GuardsBelow, PushesBelow, chain', handler', saveStack')
  BY <1>1 DEF Rests, Keeps, Brackets, Pushers
<1>5. Stacked' /\ Me' = g
  BY <1>1, <1>2, <1>3, <1>4, Became
<1>6. Me'.ph = g.ph /\ depth' > 0 /\ exited' \in BOOLEAN
  BY <1>1, <1>5
<1> QED
  BY <1>2, <1>5, <1>6, Kept

LEMMA PassKeeps ==
    ASSUME Inv, UNCHANGED program,
           Atom \/ Combine \/ Trampoline \/ ApBodyTail \/ ApBodyNilTail \/ EvalIn
    PROVE  Inv'
<1> USE DEF registers, heap
<1>1. ASSUME NEW ph, In(ph)
      PROVE  /\ Me \in Frame /\ chain \in Seq(Node) /\ depth \in Slots /\ frames \in Frames
             /\ Lists(chain, NodesBelow \cup NodesOf(Me, depth))
  BY <1>1, TopFacts DEF In, Rests
<1> DEFINE Ready == /\ env \in Env /\ saveStack \in Seq(Env) /\ Len(saveStack) = PushesBelow
                    /\ tcoExpr \in BOOLEAN /\ tcoEnv \in EnvOrNil
<1>2. ASSUME NEW ph \in {"start", "back", "list", "apbody"}, In(ph)
      PROVE  Ready /\ (ph # "back" => ~tcoExpr /\ tcoEnv = NoEnv)
  BY <1>2, Running DEF Pushers, Brackets
<1>3. CASE Atom
  <2> DEFINE g == [Me EXCEPT !.ph = "back"]
  <2>1. /\ In("start") /\ frames' = [frames EXCEPT ![depth] = g]
        /\ UNCHANGED <<registers, chain, depth, heap, exited>>
    BY <1>3 DEF Atom, Become, Me
  <2>2. g \in Frame /\ g.ph = "back"
    BY <1>1, <2>1 DEF Frame, Phase
  <2>3. NodesOf(g, depth) = NodesOf(Me, depth)
    BY <2>1, <2>2, NodesByPhase DEF Bare, In
  <2> HIDE DEF g
  <2> QED
    BY <1>1, <1>2, <2>1, <2>2, <2>3, PhaseStep
<1>4. CASE Combine
  <2> DEFINE g == [Me EXCEPT !.ph = "list"]
  <2>1. /\ In("start") /\ frames' = [frames EXCEPT ![depth] = g]
        /\ chain' = Cons(At(depth, "list"), chain)
        /\ UNCHANGED <<registers, depth, heap, exited>>
    BY <1>4 DEF Combine, Become, Me, At
  <2>2. g \in Frame /\ g.ph = "list"
    BY <1>1, <2>1 DEF Frame, Phase
  <2> HIDE DEF g
  <2>3. NodesOf(g, depth) = {At(depth, "tco"), At(depth, "list")}
    BY <2>2, NodesByPhase DEF Formed
  <2>4. chain' \in Seq(Node) /\ Lists(chain', NodesBelow \cup NodesOf(g, depth))
    <3>1. frames[depth].ph \in Bare
      BY <2>1 DEF In, Me, Bare
    <3> QED
      BY <1>1, <2>1, <2>3, <3>1, ChainMoves DEF NodesBelow, Me
  <2> QED
    BY <1>2, <2>1, <2>2, <2>4, PhaseStep
<1>5. CASE Trampoline
  <2> DEFINE g == [Me EXCEPT !.ph = "start", !.tramp = TRUE, !.kept = Keep(Me.kept)]
  <2>1. /\ In("back") /\ frames' = [frames EXCEPT ![depth] = g]
        /\ tcoExpr' = FALSE /\ tcoEnv' = NoEnv
        /\ UNCHANGED <<env, saveStack, handler, chain, depth, heap, exited>>
    BY <1>5 DEF Trampoline
  <2>2. Keep(Me.kept) \in EnvOrNil
    BY <1>1, <2>1, Running DEF Frame, Keep
  <2>3. g \in Frame /\ g.ph = "start"
    BY <1>1, <2>1, <2>2 DEF Frame, Phase
  <2> HIDE DEF g
  <2>4. NodesOf(g, depth) = NodesOf(Me, depth)
    BY <2>1, <2>3, NodesByPhase DEF Bare, In
  <2>5. NoEnv \in EnvOrNil
    BY DEF EnvOrNil
  <2> QED
    BY <1>1, <1>2, <2>1, <2>3, <2>4, <2>5, PhaseStep
<1>6. CASE ApBodyTail \/ ApBodyNilTail
  <2> DEFINE g == [Me EXCEPT !.ph = "loop", !.saved = NoEnv]
  <2>1. /\ In("apbody") /\ frames' = [frames EXCEPT ![depth] = g]
        /\ chain' = Cons(At(depth, "loop"), Tail(chain))
        /\ UNCHANGED <<saveStack, handler, depth, heap, exited>>
        /\ \/ tcoExpr' = TRUE /\ tcoEnv' = Me.saved /\ env' = env
           \/ UNCHANGED <<tcoExpr, tcoEnv>> /\ env' = Me.saved
    BY <1>6 DEF ApBodyTail, ApBodyNilTail, EnterLoop, Me, At
  <2>2. g \in Frame /\ g.ph = "loop"
    BY <1>1, <2>1 DEF Frame, Phase, EnvOrNil
  <2> HIDE DEF g
  <2>3. NodesOf(g, depth) = {At(depth, "tco"), At(depth, "list"), At(depth, "loop")}
    BY <2>2, NodesByPhase DEF Guarding, LocalOf
  <2>4. chain' \in Seq(Node) /\ Lists(chain', NodesBelow \cup NodesOf(g, depth))
    <3>1. frames[depth].ph \in Guarding /\ "loop" \in LocalKinds
      BY <2>1 DEF In, Me, Guarding, LocalKinds
    <3>2. /\ Cons(At(depth, "loop"), Tail(chain)) \in Seq(Node)
          /\ Lists(Cons(At(depth, "loop"), Tail(chain)),
                   NodesBelow \cup {At(depth, "tco"), At(depth, "list"), At(depth, "loop")})
      <4>1. /\ frames \in Frames /\ depth \in Slots /\ chain \in Seq(Node)
            /\ Lists(chain, NodesBelow \cup NodesOf(frames[depth], depth))
            /\ NodesBelow = NodesUpTo(frames, depth - 1)
        BY <1>1, <2>1 DEF Me, NodesBelow
      <4> QED
        BY <3>1, <4>1, ChainMoves
    <3> QED
      BY <2>1, <2>3, <3>2
  <2>5. Me.saved \in Env /\ env \in Env /\ tcoEnv = NoEnv /\ ~tcoExpr
        /\ tcoExpr \in BOOLEAN /\ tcoEnv \in EnvOrNil
    BY <2>1, Running DEF Scoped
  <2>6. /\ env' \in Env /\ tcoExpr' \in BOOLEAN /\ tcoEnv' \in EnvOrNil
        /\ (tcoEnv' # NoEnv => tcoExpr')
    BY <2>1, <2>5 DEF EnvOrNil
  <2> QED
    BY <1>2, <2>1, <2>2, <2>4, <2>6, PhaseStep
<1>7. CASE EvalIn
  <2> DEFINE g == [Me EXCEPT !.ph = "evalin"]
  <2>1. /\ In("list") /\ frames' = [frames EXCEPT ![depth] = g]
        /\ saveStack' = Cons(env, saveStack) /\ env' \in Reached
        /\ UNCHANGED <<tcoExpr, tcoEnv, handler, chain, depth, heap, exited>>
    BY <1>7 DEF EvalIn, Form, Become, Me
  <2>2. g \in Frame /\ g.ph = "evalin"
    BY <1>1, <2>1 DEF Frame, Phase
  <2>3. NodesOf(g, depth) = NodesOf(Me, depth)
    BY <2>1, <2>2, NodesByPhase DEF Formed, In
  <2> HIDE DEF g
  <2>4. /\ env \in Env /\ saveStack \in Seq(Env) /\ Len(saveStack) = PushesBelow
        /\ PushesBelow \in Nat
    BY <2>1, Running DEF Pushers, Brackets
  <2>5. saveStack' \in Seq(Env) /\ Len(saveStack') = PushesBelow + 1
    <3>1. <<env>> \in Seq(Env) /\ Len(<<env>>) = 1
      BY <2>4
    <3>2. /\ <<env>> \o saveStack \in Seq(Env)
          /\ Len(<<env>> \o saveStack) = 1 + Len(saveStack)
      BY <2>4, <3>1, ConcatProperties
    <3> QED
      BY <2>1, <2>4, <3>2 DEF Cons
  <2>6. env' \in Env
    BY <2>1, HeapEnvs
  <2> QED
    BY <1>1, <2>1, <2>2, <2>3, <2>5, <2>6, Running, PhaseStep
<1> QED
  BY <1>3, <1>4, <1>5, <1>6, <1>7

LEMMA LoopKeeps ==
    ASSUME Inv, UNCHANGED program, LoopPass
    PROVE  Inv'
<1> DEFINE g == [frames EXCEPT ![depth].saved = Keep(@)]
<1>1. /\ In("loop") /\ depth < program.depth /\ tcoExpr' = FALSE /\ tcoEnv' = NoEnv
      /\ frames' = [frames EXCEPT ![depth].saved = Keep(@),
                                  ![depth + 1] = [Idle EXCEPT !.ph = "start"]]
      /\ chain' = Cons([at |-> depth + 1, what |-> "tco"], chain) /\ depth' = depth + 1
      /\ UNCHANGED <<env, saveStack, handler, parent, swept, cont, exited>>
  BY DEF LoopPass, heap
<1>2. /\ frames \in Frames /\ depth \in Slots /\ Me \in Frame /\ Me.ph = "loop"
      /\ env \in Env /\ saveStack \in Seq(Env) /\ tcoEnv \in EnvOrNil
      /\ exited \in BOOLEAN /\ swept \subseteq Env
      /\ \A d \in Slots : ScopeKept(frames[d], parent)
  BY <1>1, Running DEF Inv, Stacked, Values
<1>3. HeapMoves
  BY <1>1, <1>2 DEF HeapMoves
<1>4. Keep(Me.saved) \in EnvOrNil
  BY <1>2 DEF Keep, Frame
<1> DEFINE f == [Me EXCEPT !.saved = Keep(@)]
<1>5. /\ f \in Frame /\ f.ph = "loop" /\ f.roots = Me.roots /\ f.prev = Me.prev
      /\ f.stk = Me.stk
  BY <1>2, <1>4 DEF Frame
<1>6. g = [frames EXCEPT ![depth] = f]
  BY DEF Me
<1>7. frames' = [g EXCEPT ![depth + 1] = [Idle EXCEPT !.ph = "start"]]
  BY <1>1
<1> HIDE DEF f, g
<1>8. /\ g \in Frames /\ g[depth] = f /\ \A d \in Slots : d # depth => g[d] = frames[d]
  BY <1>2, <1>5, <1>6 DEF Frames
<1>9. ASSUME NEW d \in Slots PROVE Like(g[d], frames[d]) /\ ScopeKept(g[d], parent')
  <2>1. CASE d = depth
    BY <1>2, <1>5, <1>8, <2>1 DEF Like, ScopeKept, Scoped, Brackets, Me
  <2>2. CASE d # depth
    BY <1>1, <1>2, <1>8, <2>2 DEF Like
  <2> QED
    BY <2>1, <2>2
<1>10. Stacked'
  BY <1>1, <1>3, <1>7, <1>8, <1>9, Called
<1>11. tcoExpr' \in BOOLEAN /\ ~tcoExpr' /\ tcoEnv' \in EnvOrNil
  BY <1>1 DEF EnvOrNil
<1> QED
  BY <1>1, <1>2, <1>3, <1>10, <1>11, Kept

LEMMA UnwindKeeps ==
    ASSUME Inv, UNCHANGED program, Raise \/ Uncaught \/ Invoke
    PROVE  Inv'
<1>1. NoEnv \in EnvOrNil /\ exited \in BOOLEAN /\ swept \subseteq Env
  BY DEF EnvOrNil, Inv, Values
<1>2. CASE Raise
  <2>1. tcoExpr' = FALSE /\ tcoEnv' = NoEnv /\ UNCHANGED <<cont, exited>>
    BY <1>2 DEF Raise
  <2> QED
    BY <1>1, <1>2, <2>1, Raised, Kept
<1>3. CASE Uncaught
  <2>1. /\ exited' = TRUE
        /\ UNCHANGED <<env, saveStack, tcoExpr, tcoEnv, handler, chain, frames, depth,
                       parent, swept, cont>>
    BY <1>3 DEF Uncaught, registers, heap
  <2>2. Stacked'
    BY <2>1 DEF Inv, Stacked
  <2>3. HeapMoves
    BY <1>1, <2>1 DEF HeapMoves
  <2> QED
    BY <2>1, <2>2, <2>3, Kept DEF Inv, Values
<1>4. CASE Invoke
  <2>1. tcoExpr' = FALSE /\ tcoEnv' = NoEnv /\ UNCHANGED <<parent, swept, cont, exited>>
    BY <1>4 DEF Invoke, heap
  <2>2. HeapMoves
    BY <1>1, <2>1 DEF HeapMoves
  <2> QED
    BY <1>1, <1>4, <2>1, <2>2, Reentered, Kept
<1> QED
  BY <1>2, <1>3, <1>4

-----------------------------------------------------------------------------
(* The theorems.                                                             *)
(* Every step keeps the invariant.                                           *)
LEMMA InvKept ==
    ASSUME Inv, [Next]_vars PROVE Inv'
<1>1. CASE UNCHANGED vars
  BY <1>1 DEF vars, registers, Inv, Stacked, Values, TcoClean, Continued, Me
<1>2. CASE Next
  <2>1. UNCHANGED program /\ Step
    BY <1>2 DEF Next
  <2>2. CASE Answering
    BY <2>1, <2>2, AnsweringKeeps
  <2>3. CASE Entering
    BY <2>1, <2>3, EnteringKeeps
  <2>4. CASE Call
    BY <2>1, <2>4, CallKeeps
  <2>5. CASE SelfEvaluate \/ Return
    BY <2>1, <2>5, LeaveKeeps
  <2>6. CASE Atom \/ Combine \/ Trampoline \/ ApBodyTail \/ ApBodyNilTail \/ EvalIn
    BY <2>1, <2>6, PassKeeps
  <2>7. CASE LoopPass
    BY <2>1, <2>7, LoopKeeps
  <2>8. CASE Raise \/ Uncaught \/ Invoke
    BY <2>1, <2>8, UnwindKeeps
  <2> QED
    BY <2>1, <2>2, <2>3, <2>4, <2>5, <2>6, <2>7, <2>8 DEF Step, Answering, Entering
<1> QED
  BY <1>1, <1>2

LEMMA InvHolds ==
    Spec => []Inv
<1>1. Init => Inv
  <2> SUFFICES ASSUME Init PROVE Inv
    OBVIOUS
  <2>1. /\ frames = [d \in Slots |-> Idle] /\ depth = 0 /\ cont = NoCont /\ chain = <<>>
        /\ handler = <<>> /\ saveStack = <<>> /\ env = Root /\ program \in Programs
        /\ tcoExpr = FALSE /\ tcoEnv = NoEnv /\ parent = [e \in Env |-> NoEnv]
        /\ swept = {} /\ exited = FALSE
    BY DEF Init
  <2>2. frames \in Frames /\ \A d \in Slots : ScopeKept(frames[d], parent)
    BY <2>1, IdleType DEF Frames
  <2>3. NodesUpTo(frames, 0) = {} /\ GuardsUpTo(frames, 0) = {} /\ Pushed(frames, 0) = {}
    BY DEF NodesUpTo, GuardsUpTo, Pushed
  <2>4. /\ chain \in Seq(Node) /\ handler \in Seq(Handler) /\ saveStack \in Seq(Env)
        /\ DOMAIN chain = {} /\ DOMAIN handler = {} /\ Len(saveStack) = 0
    BY <2>1
  <2>5. InStep(frames, depth, chain, handler, saveStack)
    <3>1. Lists(chain, NodesUpTo(frames, depth))
      BY <2>1, <2>3, <2>4 DEF Lists, Range
    <3>2. Installed(handler, GuardsUpTo(frames, depth))
      BY <2>1, <2>3, <2>4 DEF Installed
    <3>3. Len(saveStack) = Pushes(frames, depth)
      BY <2>1, <2>3, <2>4, FS_EmptySet DEF Pushes
    <3>4. \A d \in 1..depth : FALSE
      BY <2>1
    <3> QED
      BY <3>1, <3>2, <3>3, <3>4 DEF InStep
  <2>6. 0 \in 0..MaxDepth
    BY EnvAssumption
  <2>7. Stacked
    BY <2>1, <2>2, <2>4, <2>5, <2>6 DEF Stacked
  <2>8. Values
    BY <2>1, <2>4, EnvAssumption DEF Values, EnvOrNil
  <2> QED
    BY <2>1, <2>7, <2>8 DEF Inv, TcoClean, Continued
<1>2. Inv /\ [Next]_vars => Inv'
  BY InvKept
<1> QED
  BY <1>1, <1>2, PTL DEF Spec

(* Every register, C frame, root-chain node and captured continuation keeps  *)
(* a value of its kind: no pop of the save-stack finds it empty, and no      *)
(* handler makes current an environment it does not hold.                    *)
THEOREM EvaluatorTyped == Spec => []TypeOK
<1>1. Inv => TypeOK
  BY InvTyped
<1> QED
  BY <1>1, InvHolds, PTL

(* x_heap_root_push and its pops: the collector's root chain is the nodes of *)
(* the C frames in progress, newest first, whatever calls, deferred tails,   *)
(* errors caught by a guard and re-entered continuations the program makes.  *)
THEOREM ChainFollowsStack == Spec => []ChainMatchesStack
<1>1. Inv => ChainMatchesStack
  BY DEF Inv, Stacked, InStep, ChainMatchesStack
<1> QED
  BY <1>1, InvHolds, PTL

(* x_prim_guard: a longjmp lands in a guard whose C frame is in progress.    *)
THEOREM HandlersFollowStack == Spec => []HandlersOnStack
<1>1. Inv => HandlersOnStack
  BY DEF Inv, Stacked, InStep, HandlersOnStack
<1> QED
  BY <1>1, InvHolds, PTL

(* The save-stack holds what the frames in progress pushed and no more.      *)
THEOREM SavesFollowStack == Spec => []SaveStackMatches
<1>1. Inv => SaveStackMatches
  BY DEF Inv, Stacked, InStep, SaveStackMatches, Pushes
<1> QED
  BY <1>1, InvHolds, PTL

(* No x_eval starts and no handler runs with another's deferred tail set.    *)
THEOREM TailsAreTheirOwn == Spec => []TcoClean
<1>1. Inv => TcoClean
  BY DEF Inv
<1> QED
  BY <1>1, InvHolds, PTL
-----------------------------------------------------------------------------
(* The contract.                                                             *)

Simple == {"simple-tail", "bare-tail-eval"} \cap program.forms = {}
Plain  == \A p \in Programs : {"simple-tail", "bare-tail-eval"} \cap p.forms = {}

(* What a frame relies on: x_eval restores what it kept only once it has     *)
(* trampolined; while a guard is in progress, the evaluation it asked for    *)
(* will leave the environment its handler holds, the save-stack it saved and *)
(* the handlers it installed; and while a handler body is, the environment   *)
(* made for it, that save-stack and the handlers displaced.                  *)
AnswersAt(seen, f, d) ==
    /\ f.kept # NoEnv => f.tramp
    /\ f.ph = "guarded" =>
          \E x \in Env : seen[d+1] = [env |-> x, stk |-> f.stk,
                                      hnd |-> Cons([at |-> d, env |-> x], f.prev)]
    /\ f.ph = "handling" => seen[d+1] = [env |-> f.saved, stk |-> f.stk, hnd |-> f.prev]

Answers(up, fs, n, s, pending) ==
    \A d \in 1..n : AnswersAt(Seen(up, fs, n, s, pending), fs[d], d)

HeldAnswers == cont # NoCont => Answers(parent, cont.frames, cont.depth, Then, NoEnv)

Promises ==
    /\ Answers(parent, frames, depth, Now, tcoEnv)
    /\ HeldAnswers
    /\ In("loop") /\ tcoExpr => Me.saved = NoEnv

-----------------------------------------------------------------------------
(* What the activations leave.                                               *)

(* Of n activations the topmost has an environment handed over.              *)
Given(d, n, pending) == IF d = n THEN pending ELSE NoEnv

(* Frame g passes on what f does.                                            *)
PassesOn(up, f, p, vp, g, q) == \A x : Leaves(vp, g, x, q) = Leaves(up, f, x, p)

(* The recursion runs down from the top of the stack and is well defined.    *)
SeenStep(up, fs, n, s, pending, g, d) ==
    IF d > n THEN s ELSE Leaves(up, fs[d], g[d+1], Given(d, n, pending))

(* The recursion is well defined: no stack is deeper than MaxDepth.          *)
LEMMA SeenIs ==
    ASSUME NEW up, NEW fs, NEW n \in 0..MaxDepth, NEW s, NEW pending
    PROVE  \A d \in 1..MaxDepth + 1 :
              Seen(up, fs, n, s, pending)[d] =
                  SeenStep(up, fs, n, s, pending, Seen(up, fs, n, s, pending), d)
<1> DEFINE St(g, d) == SeenStep(up, fs, n, s, pending, g, d)
           M == MaxDepth + 1
           Is(g, k) == g = [d \in M-k..M |-> St(g, d)]
           T == {k \in Nat : k <= MaxDepth /\ ~ \E g : Is(g, k)}
<1>1. MaxDepth \in Nat /\ n \in Nat /\ M > n
  BY EnvAssumption
<1>2. T = {}
  <2> SUFFICES ASSUME T # {} PROVE FALSE
    OBVIOUS
  <2>1. PICK k \in T : \A m \in T : k <= m
    BY Least
  <2>2. k \in Nat /\ k <= MaxDepth /\ ~ \E g : Is(g, k)
    BY <2>1
  <2>3. k # 0
    <3> DEFINE g == [d \in M..M |-> s]
    <3>1. \A d \in M..M : St(g, d) = s
      BY <1>1 DEF SeenStep
    <3>2. M - 0 = M
      BY <1>1
    <3>3. Is(g, 0)
      BY <3>1, <3>2
    <3> QED
      BY <2>2, <3>3
  <2>4. PICK g : Is(g, k - 1)
    <3>1. k - 1 \in Nat /\ k - 1 <= MaxDepth /\ ~(k <= k - 1)
      BY <1>1, <2>2, <2>3
    <3>2. k - 1 \notin T
      <4> HIDE DEF T
      <4> QED
        BY <2>1, <3>1
    <3> QED
      BY <3>1, <3>2
  <2> DEFINE h == [d \in M-k..M |-> IF d = M-k THEN St(g, d) ELSE g[d]]
  <2>5. /\ M - k \in Nat /\ \A d \in M-k..M : d \in Nat
        /\ \A d \in M-k..M : d # M-k => d \in M-(k-1)..M
        /\ \A d \in M-k..M : d <= n => d + 1 \in M-k..M /\ d + 1 # M-k
    BY <1>1, <2>2, <2>3
  <2>6. \A d \in M-(k-1)..M : g[d] = St(g, d)
    <3> HIDE DEF St, M
    <3> QED
      BY <2>4
  <2>7. ASSUME NEW d \in M-k..M PROVE St(h, d) = St(g, d)
    <3>1. CASE d > n
      BY <3>1 DEF SeenStep
    <3>2. CASE ~(d > n)
      <4>1. h[d+1] = g[d+1]
        BY <1>1, <2>5, <3>2
      <4> QED
        BY <4>1 DEF SeenStep
    <3> QED
      BY <3>1, <3>2
  <2>8. \A d \in M-k..M : h[d] = St(h, d)
    <3>1. \A d \in M-k..M : h[d] = St(g, d)
      <4> HIDE DEF St, M
      <4> QED
        BY <2>5, <2>6
    <3> QED
      BY <2>7, <3>1
  <2>9. Is(h, k)
    <3>1. h = [d \in M-k..M |-> h[d]]
      OBVIOUS
    <3> HIDE DEF h, St, M
    <3> QED
      BY <2>8, <3>1
  <2> QED
    BY <2>2, <2>9
<1>3. \E g : g = [d \in 1..M |-> St(g, d)]
  <2>1. MaxDepth \notin T
    <3> HIDE DEF T
    <3> QED
      BY <1>2
  <2>2. PICK g : Is(g, MaxDepth)
    BY <1>1, <2>1
  <2>3. M - MaxDepth = 1
    BY <1>1
  <2> HIDE DEF St, M
  <2> QED
    BY <2>2, <2>3
<1> DEFINE Body(g) == [d \in 1..M |-> St(g, d)]
           c == CHOOSE g : g = Body(g)
<1>4. c = Body(c)
  <2>1. \E g : g = Body(g)
    BY <1>3
  <2> HIDE DEF Body
  <2> QED
    BY <2>1
<1>5. Seen(up, fs, n, s, pending) = c
  BY DEF Seen, SeenStep, Given
<1>6. \A d \in 1..M : c[d] = St(c, d)
  <2> HIDE DEF c, St
  <2> QED
    BY <1>4
<1> QED
  BY <1>5, <1>6

(* Two stacks whose lower activations pass on alike, and whose next one      *)
(* leaves the same, leave the same.                                          *)
LEMMA Agree ==
    ASSUME NEW up, NEW fs, NEW n \in 0..MaxDepth, NEW s, NEW p,
           NEW vp, NEW gs, NEW m \in 0..MaxDepth, NEW t, NEW q,
           NEW k \in 0..MaxDepth, k <= n, k <= m,
           Seen(vp, gs, m, t, q)[k+1] = Seen(up, fs, n, s, p)[k+1],
           \A d \in 1..k : PassesOn(up, fs[d], Given(d, n, p), vp, gs[d], Given(d, m, q))
    PROVE  \A d \in 1..k+1 : Seen(vp, gs, m, t, q)[d] = Seen(up, fs, n, s, p)[d]
<1> DEFINE A == Seen(up, fs, n, s, p)
           B == Seen(vp, gs, m, t, q)
           T == {j \in Nat : j <= k /\ B[k+1-j] # A[k+1-j]}
<1>1. k \in Nat /\ m \in Nat /\ n \in Nat /\ MaxDepth \in Nat
  BY EnvAssumption
<1>2. /\ \A d \in 1..k : A[d] = Leaves(up, fs[d], A[d+1], Given(d, n, p))
      /\ \A d \in 1..k : B[d] = Leaves(vp, gs[d], B[d+1], Given(d, m, q))
  <2>1. \A d \in 1..k : d \in 1..MaxDepth + 1 /\ ~(d > n) /\ ~(d > m)
    BY <1>1
  <2> HIDE DEF A, B
  <2>2. /\ \A d \in 1..MaxDepth+1 : A[d] = SeenStep(up, fs, n, s, p, A, d)
        /\ \A d \in 1..MaxDepth+1 : B[d] = SeenStep(vp, gs, m, t, q, B, d)
    BY SeenIs DEF A, B
  <2> QED
    BY <2>1, <2>2 DEF SeenStep
<1> HIDE DEF A, B
<1>3. T = {}
  <2> SUFFICES ASSUME T # {} PROVE FALSE
    OBVIOUS
  <2>1. PICK j \in T : \A i \in T : j <= i
    BY Least
  <2>2. j \in Nat /\ j <= k /\ B[k+1-j] # A[k+1-j]
    BY <2>1
  <2>3. j # 0
    <3>1. k + 1 - 0 = k + 1
      BY <1>1
    <3> QED
      BY <2>2, <3>1 DEF A, B
  <2>4. /\ j - 1 \in Nat /\ j - 1 <= k /\ ~(j <= j - 1) /\ k+1-j \in 1..k
        /\ k+1-(j-1) = (k+1-j) + 1
    BY <1>1, <2>2, <2>3
  <2>5. j - 1 \notin T
    <3> HIDE DEF T
    <3> QED
      BY <2>1, <2>4
  <2>6. B[(k+1-j)+1] = A[(k+1-j)+1]
    BY <2>4, <2>5
  <2> DEFINE e == k + 1 - j
  <2>7. e \in 1..k /\ B[e+1] = A[e+1] /\ B[e] # A[e]
    BY <2>2, <2>4, <2>6
  <2> HIDE DEF e
  <2>8. PassesOn(up, fs[e], Given(e, n, p), vp, gs[e], Given(e, m, q))
    BY <2>7
  <2>9. B[e] = A[e]
    BY <1>2, <2>7, <2>8 DEF PassesOn
  <2> QED
    BY <2>7, <2>9
<1>4. ASSUME NEW d \in 1..k+1 PROVE B[d] = A[d]
  <2>1. k+1-d \in Nat /\ k+1-d <= k /\ k+1-(k+1-d) = d
    BY <1>1
  <2>2. k+1-d \notin T
    BY <1>3
  <2> QED
    BY <2>1, <2>2
<1> QED
  BY <1>4 DEF A, B

-----------------------------------------------------------------------------
(* Stacks of activations as sequences.                                       *)
LEMMA Pushing ==
    ASSUME NEW S, NEW n \in Nat, NEW A \in [1..n -> S], NEW B \in [1..n+1 -> S],
           \A d \in 1..n : B[d] = A[d]
    PROVE  B = Append(A, B[n+1])
<1>1. /\ A \in Seq(S) /\ Len(A) = n /\ B \in Seq(S) /\ Len(B) = n + 1
      /\ n + 1 \in 1..n+1 /\ B[n+1] \in S
  OBVIOUS
<1> DEFINE C == Append(A, B[n+1])
<1>2. C \in Seq(S) /\ Len(C) = n + 1 /\ (\A d \in 1..n : C[d] = A[d]) /\ C[n+1] = B[n+1]
  BY <1>1, AppendProperties
<1> HIDE DEF C
<1>3. ASSUME NEW d \in 1..n+1 PROVE B[d] = C[d]
  <2>1. d = n + 1 \/ d \in 1..n
    OBVIOUS
  <2> QED
    BY <1>2, <2>1
<1>4. B = C
  BY <1>1, <1>2, <1>3, SeqEqual
<1> QED
  BY <1>4 DEF C

(* The first m of a stack's activations.                                     *)
LEMMA Popping ==
    ASSUME NEW S, NEW n \in Nat, NEW A \in [1..n -> S], NEW m \in 0..n, NEW B \in [1..m -> S],
           \A d \in 1..m : B[d] = A[d]
    PROVE  B = SubSeq(A, 1, m)
<1>1. m \in Nat /\ B \in Seq(S) /\ Len(B) = m /\ \A d \in 1..m : A[d] \in S
  OBVIOUS
<1> DEFINE C == SubSeq(A, 1, m)
<1>2. /\ C \in Seq(S) /\ Len(C) = (IF 1 <= m THEN m - 1 + 1 ELSE 0)
      /\ \A d \in 1..m - 1 + 1 : C[d] = A[1 + d - 1]
  BY <1>1, SubSeqProperties
<1> HIDE DEF C
<1>3. Len(C) = m /\ m - 1 + 1 = m
  BY <1>1, <1>2
<1>4. ASSUME NEW d \in 1..m PROVE B[d] = C[d]
  <2>1. 1 + d - 1 = d
    OBVIOUS
  <2> QED
    BY <1>2, <1>3, <2>1
<1>5. B = C
  BY <1>1, <1>2, <1>3, <1>4, SeqEqual
<1> QED
  BY <1>5 DEF C

(* A pop takes what was pushed.                                              *)
LEMMA ConsParts ==
    ASSUME NEW S, NEW x \in S, NEW t \in Seq(S)
    PROVE  Head(Cons(x, t)) = x /\ Tail(Cons(x, t)) = t
<1>1. <<x>> \in Seq(S) /\ Len(<<x>>) = 1 /\ <<x>>[1] = x
  OBVIOUS
<1>2. /\ Cons(x, t) \in Seq(S) /\ Len(Cons(x, t)) = 1 + Len(t) /\ Len(t) \in Nat
      /\ \A i \in 1..1 + Len(t) : Cons(x, t)[i] = IF i <= 1 THEN <<x>>[i] ELSE t[i-1]
  BY <1>1, ConcatProperties, LenProperties DEF Cons
<1> DEFINE c == Cons(x, t)
<1>3. c # <<>> /\ c[1] = x
  BY <1>1, <1>2, EmptySeq
<1> HIDE DEF c
<1>4. Head(c) = x /\ Tail(c) \in Seq(S) /\ Len(Tail(c)) = Len(t)
      /\ \A i \in 1..Len(t) : Tail(c)[i] = t[i]
  BY <1>2, <1>3, HeadTailProperties DEF c
<1>5. Tail(c) = t
  BY <1>4, SeqEqual
<1> QED
  BY <1>4, <1>5 DEF c

-----------------------------------------------------------------------------
(* Two stacks that agree below.                                              *)

(* Frame g relies on what f does.                                            *)
ReliesOn(f, g) ==
    /\ g.kept = f.kept /\ g.tramp = f.tramp
    /\ g.ph = f.ph \/ {g.ph, f.ph} \cap {"guarded", "handling"} = {}
    /\ f.ph \in {"guarded", "handling"} =>
          g.stk = f.stk /\ g.prev = f.prev /\ g.saved = f.saved

Follows(up, fs, n, p, vp, gs, m, q, k) ==
    \A d \in 1..k : /\ PassesOn(up, fs[d], Given(d, n, p), vp, gs[d], Given(d, m, q))
                   /\ ReliesOn(fs[d], gs[d])

SameGuards(fs, gs, k) == \A d \in 1..k : (gs[d].ph = "guarded") <=> (fs[d].ph = "guarded")

AnswersUpTo(seen, fs, k) == \A d \in 1..k : AnswersAt(seen, fs[d], d)

(* The topmost activation sees the registers as they are.                    *)
LEMMA SeenTop ==
    ASSUME NEW up, NEW fs, NEW n \in 0..MaxDepth, NEW s, NEW p
    PROVE  /\ Seen(up, fs, n, s, p)[n+1] = s
           /\ n > 0 => Seen(up, fs, n, s, p)[n] = Leaves(up, fs[n], s, p)
<1> DEFINE A == Seen(up, fs, n, s, p)
<1>1. n \in Nat /\ MaxDepth \in Nat /\ n <= MaxDepth
  BY EnvAssumption
<1>2. \A d \in 1..MaxDepth+1 : A[d] = SeenStep(up, fs, n, s, p, A, d)
  BY SeenIs
<1> HIDE DEF A
<1>3. A[n+1] = s
  BY <1>1, <1>2 DEF SeenStep
<1>4. n > 0 => A[n] = Leaves(up, fs[n], s, p)
  <2>1. n > 0 => A[n] = SeenStep(up, fs, n, s, p, A, n)
    BY <1>1, <1>2
  <2>2. ~(n > n)
    BY <1>1
  <2> QED
    BY <1>3, <2>1, <2>2 DEF SeenStep, Given
<1> QED
  BY <1>3, <1>4 DEF A

(* The second stack does below k what the first, which keeps its word, does. *)
AlikeBelow(up, fs, n, s, p, vp, gs, m, t, q, k) ==
    /\ n \in 0..MaxDepth /\ m \in 0..MaxDepth /\ k \in 0..MaxDepth /\ k <= n /\ k <= m
    /\ Seen(vp, gs, m, t, q)[k+1] = Seen(up, fs, n, s, p)[k+1]
    /\ Follows(up, fs, n, p, vp, gs, m, q, k)
    /\ Answers(up, fs, n, s, p)

(* Then it leaves the same at each of them, and keeps its word as well.      *)
LEMMA AgreeBelow ==
    ASSUME NEW up, NEW fs, NEW n, NEW s, NEW p, NEW vp, NEW gs, NEW m, NEW t, NEW q, NEW k,
           AlikeBelow(up, fs, n, s, p, vp, gs, m, t, q, k)
    PROVE  /\ \A d \in 1..k+1 : Seen(vp, gs, m, t, q)[d] = Seen(up, fs, n, s, p)[d]
           /\ AnswersUpTo(Seen(vp, gs, m, t, q), gs, k)
           /\ SameGuards(fs, gs, k)
<1> DEFINE A == Seen(up, fs, n, s, p)
           B == Seen(vp, gs, m, t, q)
<1>0. /\ n \in 0..MaxDepth /\ m \in 0..MaxDepth /\ k \in 0..MaxDepth /\ k <= n /\ k <= m
      /\ Seen(vp, gs, m, t, q)[k+1] = Seen(up, fs, n, s, p)[k+1]
      /\ Follows(up, fs, n, p, vp, gs, m, q, k) /\ Answers(up, fs, n, s, p)
  BY DEF AlikeBelow
<1>1. \A d \in 1..k+1 : B[d] = A[d]
  <2>1. \A d \in 1..k : PassesOn(up, fs[d], Given(d, n, p), vp, gs[d], Given(d, m, q))
    BY <1>0 DEF Follows
  <2> QED
    BY <1>0, <2>1, Agree
<1>2. k \in Nat /\ n \in Nat /\ MaxDepth \in Nat
  BY <1>0, EnvAssumption
<1>3. ASSUME NEW d \in 1..k PROVE AnswersAt(B, gs[d], d)
  <2>1. d \in 1..n /\ d + 1 \in 1..k+1
    BY <1>0, <1>2
  <2>2. B[d+1] = A[d+1]
    BY <1>1, <2>1
  <2>3. AnswersAt(A, fs[d], d)
    BY <1>0, <2>1 DEF Answers
  <2>4. ReliesOn(fs[d], gs[d])
    BY <1>0 DEF Follows
  <2> DEFINE f == fs[d]
             g == gs[d]
             v == A[d+1]
  <2>5. AnswersAt(A, f, d) /\ ReliesOn(f, g) /\ B[d+1] = A[d+1]
    BY <2>2, <2>3, <2>4
  <2> HIDE DEF A, B, f, g
  <2>6. g.kept # NoEnv => g.tramp
    BY <2>5 DEF AnswersAt, ReliesOn
  <2>7. g.ph = "guarded" => \E x \in Env : B[d+1] = [env |-> x, stk |-> g.stk,
                                      hnd |-> Cons([at |-> d, env |-> x], g.prev)]
    BY <2>5 DEF AnswersAt, ReliesOn
  <2>8. g.ph = "handling" => B[d+1] = [env |-> g.saved, stk |-> g.stk, hnd |-> g.prev]
    BY <2>5 DEF AnswersAt, ReliesOn
  <2>9. AnswersAt(B, g, d)
    BY <2>6, <2>7, <2>8 DEF AnswersAt
  <2> QED
    BY <2>9 DEF g
<1>4. SameGuards(fs, gs, k)
  BY <1>0 DEF Follows, ReliesOn, SameGuards
<1> QED
  BY <1>1, <1>3, <1>4 DEF AnswersUpTo

(* A stack none of whose handler bodies' environments changes its parent.    *)
LEMMA StackKept ==
    ASSUME NEW up, NEW vp, NEW fs, NEW n \in 0..MaxDepth, NEW s, NEW p,
           \A d \in 1..n : fs[d].ph = "handling" => vp[fs[d].saved] = up[fs[d].saved],
           Answers(up, fs, n, s, p)
    PROVE  ActsOf(vp, fs, n, s, p) = ActsOf(up, fs, n, s, p) /\ Answers(vp, fs, n, s, p)
<1> DEFINE A == Seen(up, fs, n, s, p)
           B == Seen(vp, fs, n, s, p)
<1>1. n \in Nat
  BY EnvAssumption
<1>2. \A d \in 1..n : \A x, pending : Leaves(vp, fs[d], x, pending) = Leaves(up, fs[d], x, pending)
  BY DEF Leaves
<1>3. \A d \in 1..n : ReliesOn(fs[d], fs[d])
  BY DEF ReliesOn
<1>4. (\A d \in 1..n+1 : B[d] = A[d]) /\ AnswersUpTo(B, fs, n)
  <2>1. Follows(up, fs, n, p, vp, fs, n, p, n)
    BY <1>2, <1>3 DEF Follows, PassesOn
  <2>2. n <= n /\ B[n+1] = A[n+1]
    BY <1>1, SeenTop
  <2>3. AlikeBelow(up, fs, n, s, p, vp, fs, n, s, p, n)
    BY <2>1, <2>2 DEF AlikeBelow
  <2> HIDE DEF A, B
  <2> QED
    BY <2>3, AgreeBelow DEF A, B
<1>5. \A d \in 1..n : B[d] = A[d]
  BY <1>1, <1>4
<1> HIDE DEF A, B
<1> QED
  BY <1>4, <1>5 DEF ActsOf, Answers, AnswersUpTo, A, B

-----------------------------------------------------------------------------
(* The moves of the contract, on the activations of two stacks.              *)
Shows(A, seen, fs, n) ==
    /\ A \in [1..n -> Range(A)] /\ Len(A) = n
    /\ \A d \in 1..n : A[d] = [answer |-> seen[d], guarding |-> fs[d].ph = "guarded"]

(* The activations of a stack, one by one.                                   *)
LEMMA ActsOfStack ==
    ASSUME NEW up, NEW fs, NEW n \in 0..MaxDepth, NEW s, NEW p
    PROVE  Shows(ActsOf(up, fs, n, s, p), Seen(up, fs, n, s, p), fs, n)
<1> DEFINE A == ActsOf(up, fs, n, s, p)
           seen == Seen(up, fs, n, s, p)
<1>1. n \in Nat
  BY EnvAssumption
<1>2. A = [d \in 1..n |-> [answer |-> seen[d], guarding |-> fs[d].ph = "guarded"]]
  BY DEF ActsOf
<1> HIDE DEF A, seen
<1>3. A \in [1..n -> Range(A)]
  <2>1. DOMAIN A = 1..n /\ A = [d \in 1..n |-> A[d]]
    BY <1>2
  <2>2. \A d \in 1..n : A[d] \in Range(A)
    BY <2>1 DEF Range
  <2> QED
    BY <2>1, <2>2
<1>4. Len(A) = n
  BY <1>1, <1>3
<1>5. \A d \in 1..n : A[d] = [answer |-> seen[d], guarding |-> fs[d].ph = "guarded"]
  BY <1>2
<1>6. Shows(A, seen, fs, n)
  BY <1>3, <1>4, <1>5 DEF Shows
<1> QED
  BY <1>6 DEF A, seen

(* The topmost activation may start or stop guarding.                        *)
LEMMA WorkShape ==
    ASSUME NEW n \in Nat \ {0}, NEW A, NEW B, NEW a, NEW b, NEW fs, NEW gs,
           Shows(A, a, fs, n), Shows(B, b, gs, n), \A d \in 1..n : b[d] = a[d],
           SameGuards(fs, gs, n-1)
    PROVE  /\ A # <<>>
           /\ \E g \in BOOLEAN :
                 B = Append(SubSeq(A, 1, Len(A) - 1), [A[Len(A)] EXCEPT !.guarding = g])
<1>1. n - 1 \in 0..n /\ n - 1 \in Nat /\ n - 1 + 1 = n /\ n \in 1..n /\ Len(A) = n
      /\ \A d \in 1..n-1 : d \in 1..n
  BY DEF Shows
<1> DEFINE S == Range(A) \cup Range(B)
           C == [d \in 1..n-1 |-> A[d]]
<1>2. A \in [1..n -> S] /\ B \in [1..n-1+1 -> S]
  BY <1>1 DEF Shows
<1>3. C \in [1..n-1 -> S] /\ \A d \in 1..n-1 : C[d] = A[d]
  BY <1>1, <1>2
<1>4. ASSUME NEW d \in 1..n-1 PROVE B[d] = C[d]
  <2>1. B[d] = A[d]
    BY <1>1 DEF Shows, SameGuards
  <2> QED
    BY <1>3, <2>1
<1> HIDE DEF S, C
<1>5. C = SubSeq(A, 1, n-1)
  BY <1>1, <1>2, <1>3, Popping
<1>6. B = Append(C, B[n])
  BY <1>1, <1>2, <1>3, <1>4, Pushing
<1> DEFINE x == gs[n].ph = "guarded"
<1>7. B[n] = [A[n] EXCEPT !.guarding = x]
  BY <1>1 DEF Shows
<1>8. x \in BOOLEAN
  OBVIOUS
<1>9. A # <<>>
  BY <1>1
<1> HIDE DEF x
<1>10. B = Append(SubSeq(A, 1, Len(A) - 1), [A[Len(A)] EXCEPT !.guarding = x])
  BY <1>1, <1>5, <1>6, <1>7
<1> QED
  BY <1>8, <1>9, <1>10

(* An activation more.                                                       *)
LEMMA BeginShape ==
    ASSUME NEW n \in Nat, NEW A, NEW B, NEW a, NEW b, NEW fs, NEW gs,
           Shows(A, a, fs, n), Shows(B, b, gs, n+1), \A d \in 1..n : b[d] = a[d],
           SameGuards(fs, gs, n), gs[n+1].ph # "guarded"
    PROVE  B = Append(A, [answer |-> b[n+1], guarding |-> FALSE])
<1>1. n + 1 \in 1..n+1 /\ \A d \in 1..n : d \in 1..n+1
  OBVIOUS
<1> DEFINE S == Range(A) \cup Range(B)
<1>2. A \in [1..n -> S] /\ B \in [1..n+1 -> S]
  BY DEF Shows
<1>3. \A d \in 1..n : B[d] = A[d]
  BY <1>1 DEF Shows, SameGuards
<1>4. B[n+1] = [answer |-> b[n+1], guarding |-> FALSE]
  BY <1>1 DEF Shows
<1> HIDE DEF S
<1>5. B = Append(A, B[n+1])
  BY <1>2, <1>3, Pushing
<1> QED
  BY <1>4, <1>5

(* An activation less.                                                       *)
LEMMA EndShape ==
    ASSUME NEW n \in Nat \ {0}, NEW A, NEW B, NEW a, NEW b, NEW fs, NEW gs,
           Shows(A, a, fs, n), Shows(B, b, gs, n-1), \A d \in 1..n-1 : b[d] = a[d],
           SameGuards(fs, gs, n-1)
    PROVE  A # <<>> /\ A[Len(A)].answer = a[n] /\ B = SubSeq(A, 1, Len(A) - 1)
<1>1. n - 1 \in 0..n /\ n \in 1..n /\ Len(A) = n /\ \A d \in 1..n-1 : d \in 1..n
  BY DEF Shows
<1> DEFINE S == Range(A) \cup Range(B)
<1>2. A \in [1..n -> S] /\ B \in [1..n-1 -> S]
  BY DEF Shows
<1>3. ASSUME NEW d \in 1..n-1 PROVE B[d] = A[d]
  <2>1. d \in 1..n /\ b[d] = a[d] /\ (gs[d].ph = "guarded") = (fs[d].ph = "guarded")
    BY <1>1 DEF SameGuards
  <2> QED
    BY <2>1 DEF Shows
<1> HIDE DEF S
<1>4. B = SubSeq(A, 1, n-1)
  BY <1>1, <1>2, <1>3, Popping
<1>5. A[n].answer = a[n] /\ A # <<>>
  BY <1>1 DEF Shows
<1> QED
  BY <1>1, <1>4, <1>5

(* Everything above the innermost guard is cut away.                         *)
LEMMA UnwindShape ==
    ASSUME NEW n \in Nat, NEW m \in 1..n, NEW A, NEW B, NEW a, NEW b, NEW fs, NEW gs,
           Shows(A, a, fs, n), Shows(B, b, gs, m), \A d \in 1..m : b[d] = a[d],
           SameGuards(fs, gs, m-1),
           gs[m].ph # "guarded", fs[m].ph = "guarded",
           \A d \in m+1..n : fs[d].ph # "guarded"
    PROVE  /\ m \in 1..Len(A)
           /\ A[m].guarding /\ \A d \in m+1..Len(A) : ~A[d].guarding
           /\ A[m].answer = a[m]
           /\ B = [SubSeq(A, 1, m) EXCEPT ![m].guarding = FALSE]
<1>1. m \in 0..n /\ m \in 1..m /\ m \in Nat /\ Len(A) = n
      /\ (\A d \in 1..m : d \in 1..n) /\ (\A d \in 1..m-1 : d \in 1..n /\ d \in 1..m)
      /\ (\A d \in m+1..n : d \in 1..n)
  BY DEF Shows
<1> DEFINE S == Range(A)
           C == [d \in 1..m |-> A[d]]
<1>2. A \in [1..n -> S] /\ B \in [1..m -> Range(B)]
  BY DEF Shows
<1>3. C \in [1..m -> S] /\ \A d \in 1..m : C[d] = A[d]
  BY <1>1, <1>2
<1>4. A[m] = [answer |-> a[m], guarding |-> TRUE] /\ B[m] = [A[m] EXCEPT !.guarding = FALSE]
  <2> DEFINE x == gs[m].ph = "guarded"
             y == fs[m].ph = "guarded"
  <2>1. B[m] = [A[m] EXCEPT !.guarding = x] /\ A[m] = [answer |-> a[m], guarding |-> y]
    BY <1>1 DEF Shows
  <2>2. x = FALSE /\ y = TRUE
    OBVIOUS
  <2> HIDE DEF x, y
  <2> QED
    BY <2>1, <2>2
<1>5. ASSUME NEW d \in 1..m, d # m PROVE B[d] = A[d]
  <2>1. d \in 1..m-1
    BY <1>1, <1>5
  <2> QED
    BY <1>1, <2>1 DEF Shows, SameGuards
<1> HIDE DEF S, C
<1>6. C = SubSeq(A, 1, m)
  BY <1>1, <1>2, <1>3, Popping
<1>7. B = [C EXCEPT ![m].guarding = FALSE]
  <2>1. \A d \in 1..m : B[d] = IF d = m THEN [C[m] EXCEPT !.guarding = FALSE] ELSE C[d]
    <3>1. C[m] = A[m]
      BY <1>1, <1>3
    <3> QED
      BY <1>3, <1>4, <1>5, <3>1
  <2>2. [C EXCEPT ![m].guarding = FALSE] =
           [d \in 1..m |-> IF d = m THEN [C[m] EXCEPT !.guarding = FALSE] ELSE C[d]]
    BY <1>3
  <2> QED
    BY <1>2, <2>1, <2>2
<1>8. ASSUME NEW d \in m+1..n PROVE ~A[d].guarding
  <2>1. A[d] = [answer |-> a[d], guarding |-> FALSE]
    BY <1>1 DEF Shows
  <2> QED
    BY <2>1
<1>9. A[m].guarding /\ A[m].answer = a[m]
  BY <1>4
<1> QED
  BY <1>1, <1>6, <1>7, <1>8, <1>9

-----------------------------------------------------------------------------
(* Steps of the evaluator.                                                   *)
ParentKept(fs) == \A d \in Slots : fs[d].ph = "handling" => parent'[fs[d].saved] = parent[fs[d].saved]

(* No environment that a C frame holds gets another parent.                  *)
LEMMA ParentsKept ==
    ASSUME Inv, HeapMoves
    PROVE  ParentKept(frames) /\ (cont # NoCont => ParentKept(cont.frames))
<1>1. /\ frames \in Frames /\ \A d \in Slots : ScopeKept(frames[d], parent)
      /\ cont # NoCont => /\ cont.frames \in Frames
                          /\ \A d \in Slots : ScopeKept(cont.frames[d], parent)
  BY DEF Inv, Stacked, Continued, Continuation, Frames
<1>2. CASE parent' = parent
  BY <1>2 DEF ParentKept
<1>3. CASE \E e \in Fresh, p \in Env : NewEnv(e, p)
  <2>1. PICK e \in Fresh, p \in Env : NewEnv(e, p)
    BY <1>3
  <2>2. \A x \in Env : x \notin Fresh => parent'[x] = parent[x]
    BY <2>1 DEF NewEnv
  <2>3. ASSUME NEW fs \in Frames, \A d \in Slots : ScopeKept(fs[d], parent),
               \A x \in Env \cap LocalsOf(fs) : x \notin Fresh
        PROVE  ParentKept(fs)
    <3>1. \A d \in Slots : fs[d].saved \in LocalsOf(fs)
      BY StackEnvs
    <3> QED
      BY <2>2, <2>3, <3>1 DEF ScopeKept, Scoped, ParentKept
  <2> QED
    BY <1>1, <2>3, HeapEnvs
<1> QED
  BY <1>2, <1>3 DEF HeapMoves

(* What becomes of the continuation the program holds.                       *)
Holds ==
    \/ cont' = cont
    \/ cont' = NoCont
    \/ cont' = Captured /\ In("list")

(* What the held continuation is going to leave stays the same, and a newly  *)
(* captured one leaves what the stack does.                                  *)
LEMMA HeldStep ==
    ASSUME Inv, Promises, HeapMoves, Holds
    PROVE  /\ Held' \in {Held, [acts |-> Acts, cur |-> Now], Contract!NoneHeld}
           /\ cont' = cont => Held' = Held
           /\ HeldAnswers'
<1>1. ParentKept(frames) /\ (cont # NoCont => ParentKept(cont.frames))
  BY ParentsKept
<1>2. CASE cont' = NoCont
  BY <1>2 DEF Held, HeldAnswers, Contract!NoneHeld
<1>3. CASE cont' = cont /\ cont # NoCont
  <2>1. cont.depth \in 0..MaxDepth /\ \A d \in 1..cont.depth : d \in Slots
    BY <1>3, EnvAssumption DEF Inv, Continued, Continuation, Slots
  <2>2. /\ ActsOf(parent', cont.frames, cont.depth, Then, NoEnv) =
              ActsOf(parent, cont.frames, cont.depth, Then, NoEnv)
        /\ Answers(parent', cont.frames, cont.depth, Then, NoEnv)
    <3>1. \A d \in 1..cont.depth : cont.frames[d].ph = "handling" =>
             parent'[cont.frames[d].saved] = parent[cont.frames[d].saved]
      BY <1>1, <1>3, <2>1 DEF ParentKept
    <3>2. Answers(parent, cont.frames, cont.depth, Then, NoEnv)
      BY <1>3 DEF Promises, HeldAnswers
    <3> QED
      BY <2>1, <3>1, <3>2, StackKept
  <2>3. Then' = Then
    BY <1>3 DEF Then
  <2> QED
    BY <1>3, <2>2, <2>3 DEF Held, HeldAnswers
<1>4. CASE cont' = Captured /\ In("list") /\ cont' # NoCont
  <2>1. depth \in 0..MaxDepth /\ tcoEnv = NoEnv /\ \A d \in 1..depth : d \in Slots
    BY <1>4, Running, EnvAssumption DEF Inv, Stacked, Slots
  <2>2. /\ ActsOf(parent', frames, depth, Now, NoEnv) = ActsOf(parent, frames, depth, Now, NoEnv)
        /\ Answers(parent', frames, depth, Now, NoEnv)
    BY <1>1, <2>1, StackKept DEF Promises, ParentKept
  <2>3. Then' = Now /\ cont'.frames = frames /\ cont'.depth = depth
    BY <1>4 DEF Then, Now, Captured
  <2>4. Held' = [acts |-> Acts, cur |-> Now]
    BY <1>4, <2>1, <2>2, <2>3 DEF Held, Acts
  <2>5. HeldAnswers'
    BY <2>2, <2>3 DEF HeldAnswers
  <2>6. cont' # cont \/ Held' = Held
    <3>1. CASE cont' = cont
      <4>1. cont # NoCont /\ Then = Now /\ cont.frames = frames /\ cont.depth = depth
        BY <1>4, <2>3, <3>1 DEF Then
      <4> QED
        BY <2>1, <2>4, <4>1 DEF Held, Acts
    <3> QED
      BY <3>1
  <2> QED
    BY <2>4, <2>5, <2>6
<1> QED
  BY <1>2, <1>3, <1>4 DEF Holds

(* The frames below k are left alone.                                        *)
LEMMA LowerPasses ==
    ASSUME Inv, HeapMoves, NEW k \in 0..MaxDepth, NEW n, NEW p, NEW m, NEW q,
           \A d \in 1..k : frames'[d] = frames[d] /\ Given(d, n, p) = Given(d, m, q)
    PROVE  Follows(parent, frames, n, p, parent', frames', m, q, k)
<1>1. ParentKept(frames)
  BY ParentsKept
<1>2. \A d \in 1..k : d \in Slots
  BY EnvAssumption DEF Slots
<1>3. ASSUME NEW d \in 1..k
      PROVE  /\ PassesOn(parent, frames[d], Given(d, n, p), parent', frames'[d], Given(d, m, q))
             /\ ReliesOn(frames[d], frames'[d])
  <2> DEFINE f == frames[d]
             r == Given(d, n, p)
  <2>1. frames'[d] = f /\ Given(d, m, q) = r
    OBVIOUS
  <2>2. f.ph = "handling" => parent'[f.saved] = parent[f.saved]
    BY <1>1, <1>2 DEF ParentKept
  <2> HIDE DEF f, r
  <2>3. PassesOn(parent, f, r, parent', f, r)
    BY <2>2 DEF PassesOn, Leaves
  <2>4. ReliesOn(f, f)
    BY DEF ReliesOn
  <2> QED
    BY <2>1, <2>3, <2>4 DEF f, r
<1> QED
  BY <1>3 DEF Follows

(* The topmost activation becomes g.                                         *)
Becomes(g) == frames' = [frames EXCEPT ![depth] = g]

(* The topmost activation runs on: it becomes g, and what it is going to     *)
(* leave stays the same.                                                     *)
LEMMA WorkStep ==
    ASSUME Inv, Inv', Promises, HeapMoves, Holds, depth > 0, depth' = depth,
           NEW g \in Frame, Becomes(g),
           Leaves(parent', g, Now', tcoEnv') = Leaves(parent, Me, Now, tcoEnv),
           g.kept # NoEnv => g.tramp,
           g.ph = "guarded" => g.stk = saveStack' /\ handler' = Cons([at |-> depth, env |-> env'], g.prev),
           g.ph # "handling",
           g.ph = "loop" /\ tcoExpr' => g.saved = NoEnv
    PROVE  Contract!Work /\ Promises'
<1> DEFINE A == Seen(parent, frames, depth, Now, tcoEnv)
           B == Seen(parent', frames', depth, Now', tcoEnv')
<1>1. /\ depth \in 1..MaxDepth /\ depth \in 0..MaxDepth /\ depth - 1 \in 0..MaxDepth
      /\ depth \in Slots /\ depth - 1 <= depth /\ depth - 1 + 1 = depth
      /\ \A d \in 1..depth-1 : d \in 1..depth /\ d # depth
  BY EnvAssumption DEF Inv, Stacked, Slots
<1>2. /\ frames \in Frames /\ frames'[depth] = g /\ Me' = g
      /\ \A d \in 1..depth-1 : frames'[d] = frames[d]
      /\ env' \in Env /\ saveStack' \in Seq(Env) /\ handler' \in Seq(Handler)
  <2>1. frames \in [Slots -> Frame] /\ \A d \in 1..depth-1 : d \in Slots
    BY <1>1, EnvAssumption DEF Inv, Stacked, Frames, Slots
  <2>2. env' \in Env /\ saveStack' \in Seq(Env) /\ handler' \in Seq(Handler)
    BY DEF Inv, Stacked, Values
  <2>3. frames'[depth] = g /\ \A d \in 1..depth-1 : frames'[d] = frames[d]
    BY <1>1, <2>1 DEF Becomes
  <2> QED
    BY <2>1, <2>2, <2>3 DEF Frames, Me
<1>3. B[depth - 1 + 1] = A[depth - 1 + 1]
  <2>1. depth > 0
    OBVIOUS
  <2>2. A[depth] = Leaves(parent, Me, Now, tcoEnv)
    BY <1>1, <2>1, SeenTop DEF Me
  <2>3. B[depth] = Leaves(parent', frames'[depth], Now', tcoEnv')
    BY <1>1, <2>1, SeenTop
  <2> QED
    BY <1>1, <1>2, <2>2, <2>3
<1>4. B[depth + 1] = Now'
  BY <1>1, SeenTop
<1>5. Follows(parent, frames, depth, tcoEnv, parent', frames', depth, tcoEnv', depth - 1)
  <2>1. \A d \in 1..depth-1 : Given(d, depth, tcoEnv) = Given(d, depth, tcoEnv')
    BY <1>1 DEF Given
  <2> QED
    BY <1>1, <1>2, <2>1, LowerPasses
<1>6. Answers(parent, frames, depth, Now, tcoEnv)
  BY DEF Promises
<1> HIDE DEF A, B
<1>7. /\ \A d \in 1..depth-1+1 : B[d] = A[d]
      /\ AnswersUpTo(B, frames', depth-1) /\ SameGuards(frames, frames', depth-1)
  <2>1. AlikeBelow(parent, frames, depth, Now, tcoEnv,
                   parent', frames', depth, Now', tcoEnv', depth - 1)
    BY <1>1, <1>3, <1>5, <1>6 DEF AlikeBelow, A, B
  <2> QED
    BY <2>1, AgreeBelow DEF A, B
<1>8. AnswersAt(B, frames'[depth], depth)
  BY <1>2, <1>4 DEF AnswersAt, Now
<1>9. Answers(parent', frames', depth', Now', tcoEnv')
  <2>1. \A d \in 1..depth : AnswersAt(B, frames'[d], d)
    BY <1>1, <1>7, <1>8 DEF AnswersUpTo
  <2> QED
    BY <2>1 DEF Answers, B
<1>10. /\ Acts # <<>>
       /\ \E x \in BOOLEAN :
             Acts' = Append(SubSeq(Acts, 1, Len(Acts) - 1), [Acts[Len(Acts)] EXCEPT !.guarding = x])
  <2>1. Acts = ActsOf(parent, frames, depth, Now, tcoEnv)
        /\ Acts' = ActsOf(parent', frames', depth, Now', tcoEnv')
    BY DEF Acts
  <2>2. Shows(Acts, A, frames, depth)
    BY <1>1, <2>1, ActsOfStack DEF A
  <2>3. Shows(Acts', B, frames', depth)
    BY <1>1, <2>1, ActsOfStack DEF B
  <2>4. depth \in Nat \ {0} /\ \A d \in 1..depth : B[d] = A[d]
    BY <1>1, <1>7
  <2> QED
    BY <1>7, <2>2, <2>3, <2>4, WorkShape
<1>11. Held' \in {Held, [acts |-> Acts, cur |-> Now], Contract!NoneHeld} /\ HeldAnswers'
  BY HeldStep
<1>12. Now' \in Registers
  BY <1>2 DEF Now, Registers, EnvOrNil
<1>13. (In("loop") /\ tcoExpr => Me.saved = NoEnv)'
  BY <1>2 DEF In
<1> QED
  BY <1>9, <1>10, <1>11, <1>12, <1>13 DEF Contract!Work, Contract!Mine, Contract!Others, Promises

(* The continuation is left alone.                                           *)
LEMMA HeldStays ==
    ASSUME Inv, Promises, HeapMoves, cont' = cont
    PROVE  Held' = Held /\ HeldAnswers'
BY HeldStep DEF Holds

(* A new activation starts.                                                  *)
LEMMA BeginStep ==
    ASSUME Inv, Promises, UNCHANGED <<heap, env, saveStack, handler>>,
           depth < MaxDepth, depth' = depth + 1, tcoEnv' = NoEnv,
           frames'[depth + 1] = [Idle EXCEPT !.ph = "start"],
           \A d \in 1..depth : d # depth => frames'[d] = frames[d],
           depth > 0 => /\ PassesOn(parent, Me, tcoEnv, parent, frames'[depth], NoEnv)
                        /\ ReliesOn(Me, frames'[depth])
    PROVE  Contract!Begin /\ Promises'
<1> DEFINE A == Seen(parent, frames, depth, Now, tcoEnv)
           B == Seen(parent, frames', depth + 1, Now, NoEnv)
<1>1. /\ depth \in Nat /\ depth \in 0..MaxDepth /\ depth + 1 \in 0..MaxDepth /\ depth <= depth + 1
      /\ \A d \in 1..depth : d # depth + 1 /\ d > 0
      /\ depth + 1 > 0
  BY EnvAssumption DEF Inv, Stacked
<1>2. HeapMoves /\ parent' = parent /\ cont' = cont /\ Now' = Now
  BY DEF heap, HeapMoves, Now, Inv, Values
<1>3. B[depth+1] = Now
  <2>1. B[depth+1] = Leaves(parent, frames'[depth+1], Now, NoEnv)
    BY <1>1, SeenTop
  <2>2. Leaves(parent, frames'[depth+1], Now, NoEnv) = Now
    BY DEF Leaves, Idle, Now
  <2> QED
    BY <2>1, <2>2
<1>4. A[depth+1] = Now /\ B[depth+2] = Now
  <2>1. depth + 1 + 1 = depth + 2
    BY <1>1
  <2> QED
    BY <1>1, <2>1, SeenTop
<1>5. Follows(parent, frames, depth, tcoEnv, parent, frames', depth + 1, NoEnv, depth)
  <2>1. ASSUME NEW d \in 1..depth
        PROVE  /\ PassesOn(parent, frames[d], Given(d, depth, tcoEnv), parent, frames'[d], NoEnv)
               /\ ReliesOn(frames[d], frames'[d])
    <3>1. CASE d = depth
      <4>1. Given(d, depth, tcoEnv) = tcoEnv /\ frames[d] = Me /\ depth > 0
        BY <1>1, <3>1 DEF Me, Given
      <4> QED
        BY <3>1, <4>1
    <3>2. CASE d # depth
      <4>1. frames'[d] = frames[d] /\ Given(d, depth, tcoEnv) = NoEnv
        BY <3>2 DEF Given
      <4> QED
        BY <4>1 DEF PassesOn, ReliesOn
    <3> QED
      BY <3>1, <3>2
  <2>2. \A d \in 1..depth : Given(d, depth + 1, NoEnv) = NoEnv
    BY DEF Given
  <2> QED
    BY <2>1, <2>2 DEF Follows
<1>6. Answers(parent, frames, depth, Now, tcoEnv)
  BY DEF Promises
<1> HIDE DEF A, B
<1>7. /\ \A d \in 1..depth+1 : B[d] = A[d]
      /\ AnswersUpTo(B, frames', depth) /\ SameGuards(frames, frames', depth)
  <2>1. /\ depth \in 0..MaxDepth /\ depth + 1 \in 0..MaxDepth /\ depth <= depth
        /\ depth <= depth + 1 /\ B[depth+1] = A[depth+1]
    BY <1>1, <1>3, <1>4
  <2>2. AlikeBelow(parent, frames, depth, Now, tcoEnv,
                   parent, frames', depth + 1, Now, NoEnv, depth)
    BY <1>5, <1>6, <2>1 DEF AlikeBelow, A, B
  <2> QED
    BY <2>2, AgreeBelow DEF A, B
<1>8. AnswersAt(B, frames'[depth+1], depth+1) /\ frames'[depth+1].ph = "start"
  BY DEF AnswersAt, Idle
<1>9. Answers(parent', frames', depth', Now', tcoEnv')
  <2>1. \A d \in 1..depth+1 : AnswersAt(B, frames'[d], d)
    BY <1>1, <1>7, <1>8 DEF AnswersUpTo
  <2> QED
    BY <1>2, <2>1 DEF Answers, B
<1>10. Acts' = Append(Acts, [answer |-> Now, guarding |-> FALSE])
  <2>1. Acts = ActsOf(parent, frames, depth, Now, tcoEnv)
        /\ Acts' = ActsOf(parent, frames', depth + 1, Now, NoEnv)
    BY <1>2 DEF Acts
  <2>2. Shows(Acts, A, frames, depth)
    BY <1>1, <2>1, ActsOfStack DEF A
  <2>3. Shows(Acts', B, frames', depth + 1)
    BY <1>1, <2>1, ActsOfStack DEF B
  <2>4. (\A d \in 1..depth : B[d] = A[d]) /\ frames'[depth+1].ph # "guarded"
    BY <1>1, <1>7, <1>8
  <2>5. Acts' = Append(Acts, [answer |-> B[depth+1], guarding |-> FALSE])
    BY <1>1, <1>7, <2>2, <2>3, <2>4, BeginShape
  <2> QED
    BY <1>3, <2>5
<1>11. Held' = Held /\ HeldAnswers'
  BY <1>2, HeldStays
<1>12. (In("loop") /\ tcoExpr => Me.saved = NoEnv)'
  BY <1>8 DEF In, Me
<1> QED
  BY <1>2, <1>9, <1>10, <1>11, <1>12 DEF Contract!Begin, Promises

(* The topmost activation answers, and its caller resumes.                   *)
LEMMA EndStep ==
    ASSUME Inv, Promises, UNCHANGED heap, depth > 0, depth' = depth - 1,
           ~tcoExpr', tcoEnv' = NoEnv, Now' = Leaves(parent, Me, Now, tcoEnv),
           \A d \in 1..depth-1 : frames'[d] \in {frames[d], [frames[d] EXCEPT !.ph = Resumed(@)]}
    PROVE  Contract!End /\ Promises'
<1> DEFINE A == Seen(parent, frames, depth, Now, tcoEnv)
           B == Seen(parent, frames', depth - 1, Now', NoEnv)
<1>1. /\ depth \in Nat /\ depth \in 1..MaxDepth /\ depth \in 0..MaxDepth
      /\ depth - 1 \in 0..MaxDepth /\ depth - 1 <= depth /\ depth - 1 + 1 = depth
      /\ \A d \in 1..depth-1 : d # depth /\ d \in Slots
  BY EnvAssumption DEF Inv, Stacked, Slots
<1>2. HeapMoves /\ parent' = parent /\ cont' = cont
  BY DEF heap, HeapMoves, Inv, Values
<1>3. B[depth] = Now' /\ A[depth] = Now' /\ B[depth - 1 + 1] = A[depth - 1 + 1]
  <2>1. A[depth] = Leaves(parent, Me, Now, tcoEnv)
    BY <1>1, SeenTop DEF Me
  <2>2. B[depth - 1 + 1] = Now'
    BY <1>1, SeenTop
  <2> QED
    BY <1>1, <2>1, <2>2
<1>4. Follows(parent, frames, depth, tcoEnv, parent, frames', depth - 1, NoEnv, depth - 1)
  <2>1. ASSUME NEW d \in 1..depth-1
        PROVE  /\ PassesOn(parent, frames[d], NoEnv, parent, frames'[d], NoEnv)
               /\ ReliesOn(frames[d], frames'[d])
    <3>1. CASE frames'[d] = frames[d]
      BY <3>1 DEF PassesOn, ReliesOn
    <3>2. CASE frames'[d] = [frames[d] EXCEPT !.ph = Resumed(@)]
      <4>1. frames[d] \in Frame
        BY <1>1 DEF Inv, Stacked, Frames
      <4> DEFINE f == frames[d]
                 g == [f EXCEPT !.ph = Resumed(f.ph)]
      <4>2. /\ g.ph = Resumed(f.ph) /\ g.kept = f.kept /\ g.saved = f.saved /\ g.stk = f.stk
            /\ g.prev = f.prev /\ g.tramp = f.tramp
        BY <4>1 DEF Frame
      <4> HIDE DEF f, g
      <4>3. ReliesOn(f, g)
        BY <4>2 DEF ReliesOn, Resumed
      <4>4. PassesOn(parent, f, NoEnv, parent, g, NoEnv)
        <5>1. CASE f.ph = "evalin"
          BY <4>2, <5>1 DEF PassesOn, Leaves, Resumed
        <5>2. CASE f.ph = "top"
          BY <4>2, <5>2 DEF PassesOn, Leaves, Resumed
        <5>3. CASE f.ph \notin {"evalin", "top"}
          <6>1. g.ph = f.ph
            BY <4>2, <5>3 DEF Resumed
          <6> QED
            BY <4>2, <6>1 DEF PassesOn, Leaves
        <5> QED
          BY <5>1, <5>2, <5>3
      <4>5. frames'[d] = g /\ frames[d] = f
        BY <3>2 DEF f, g
      <4> QED
        BY <4>3, <4>4, <4>5
    <3> QED
      BY <3>1, <3>2
  <2>2. \A d \in 1..depth-1 : Given(d, depth, tcoEnv) = NoEnv /\ Given(d, depth - 1, NoEnv) = NoEnv
    BY <1>1 DEF Given
  <2> QED
    BY <2>1, <2>2 DEF Follows
<1>5. Answers(parent, frames, depth, Now, tcoEnv)
  BY DEF Promises
<1> HIDE DEF A, B
<1>6. /\ \A d \in 1..depth-1+1 : B[d] = A[d]
      /\ AnswersUpTo(B, frames', depth-1) /\ SameGuards(frames, frames', depth-1)
  <2>1. AlikeBelow(parent, frames, depth, Now, tcoEnv,
                   parent, frames', depth - 1, Now', NoEnv, depth - 1)
    BY <1>1, <1>3, <1>4, <1>5 DEF AlikeBelow, A, B
  <2> QED
    BY <2>1, AgreeBelow DEF A, B
<1>7. Answers(parent', frames', depth', Now', tcoEnv')
  BY <1>2, <1>6 DEF Answers, AnswersUpTo, B
<1>8. /\ Acts # <<>> /\ Now' = Acts[Len(Acts)].answer
      /\ Acts' = SubSeq(Acts, 1, Len(Acts) - 1)
  <2>1. Acts = ActsOf(parent, frames, depth, Now, tcoEnv)
        /\ Acts' = ActsOf(parent, frames', depth - 1, Now', NoEnv)
    BY <1>2 DEF Acts
  <2>2. Shows(Acts, A, frames, depth)
    BY <1>1, <2>1, ActsOfStack DEF A
  <2>3. Shows(Acts', B, frames', depth - 1)
    BY <1>1, <2>1, ActsOfStack DEF B
  <2>4. depth \in Nat \ {0} /\ \A d \in 1..depth-1 : B[d] = A[d]
    BY <1>1, <1>6
  <2>5. Acts # <<>> /\ Acts[Len(Acts)].answer = A[depth] /\ Acts' = SubSeq(Acts, 1, Len(Acts) - 1)
    BY <1>6, <2>2, <2>3, <2>4, EndShape
  <2> QED
    BY <1>3, <2>5
<1>9. Held' = Held /\ HeldAnswers'
  BY <1>2, HeldStays
<1> QED
  BY <1>7, <1>8, <1>9 DEF Contract!End, Contract!Mine, Contract!Others, Promises

(* The handlers installed are those the innermost guard's body runs under.   *)
LEMMA InnermostGuard ==
    ASSUME Inv, Promises, handler # <<>>, NEW m, m = Head(handler).at
    PROVE  /\ m \in 1..depth /\ frames[m].ph = "guarded"
           /\ \A d \in m+1..depth : frames[d].ph # "guarded"
           /\ Seen(parent, frames, depth, Now, tcoEnv)[m+1] =
                 [env |-> Head(handler).env, stk |-> frames[m].stk, hnd |-> handler]
<1> DEFINE A == Seen(parent, frames, depth, Now, tcoEnv)
           T == {j \in Nat : j <= depth - m /\ A[depth+1-j].hnd # handler}
<1>1. /\ depth \in Nat /\ depth \in 0..MaxDepth /\ MaxDepth \in Nat
      /\ handler \in Seq(Handler) /\ Installed(handler, GuardsUpTo(frames, depth))
  BY EnvAssumption DEF Inv, Stacked, InStep
<1>2. /\ Len(handler) \in Nat \ {0} /\ DOMAIN handler = 1..Len(handler)
      /\ handler[1] = Head(handler) /\ Head(handler) \in Handler
  BY <1>1, HeadTailProperties, LenProperties, EmptySeq
<1>3. 1 \in DOMAIN handler /\ \A i \in DOMAIN handler : i # 1 => 1 < i
  BY <1>2
<1>4. m \in GuardsUpTo(frames, depth)
  BY <1>1, <1>2, <1>3 DEF Installed
<1>5. m \in 1..depth /\ frames[m].ph = "guarded"
  BY <1>4 DEF GuardsUpTo
<1>6. ASSUME NEW d \in m+1..depth PROVE frames[d].ph # "guarded"
  <2> SUFFICES ASSUME frames[d].ph = "guarded" PROVE FALSE
    OBVIOUS
  <2>1. d \in 1..depth /\ d # m /\ ~(m > d) /\ m \in Nat
    BY <1>1, <1>5
  <2>2. d \in GuardsUpTo(frames, depth)
    BY <2>1 DEF GuardsUpTo
  <2>3. PICK i \in DOMAIN handler : handler[i].at = d
    BY <1>1, <2>2 DEF Installed
  <2>4. i # 1
    BY <1>2, <2>1, <2>3
  <2>5. handler[1].at > handler[i].at
    BY <1>1, <1>3, <2>4 DEF Installed
  <2> QED
    BY <1>2, <2>1, <2>3, <2>5
<1>7. \A d \in 1..MaxDepth+1 : A[d] = SeenStep(parent, frames, depth, Now, tcoEnv, A, d)
  BY <1>1, SeenIs
<1>8. A[depth+1] = Now /\ Now.hnd = handler
  BY <1>1, SeenTop DEF Now
<1>9. \A d \in 1..depth : AnswersAt(A, frames[d], d)
  BY DEF Promises, Answers
<1> HIDE DEF A
<1>10. T = {}
  <2> SUFFICES ASSUME T # {} PROVE FALSE
    OBVIOUS
  <2>1. PICK j \in T : \A i \in T : j <= i
    BY Least
  <2>2. j \in Nat /\ j <= depth - m /\ A[depth+1-j].hnd # handler
    BY <2>1
  <2>3. j # 0
    <3>1. depth + 1 - 0 = depth + 1
      BY <1>1
    <3> QED
      BY <1>8, <2>2, <3>1
  <2> DEFINE d == depth + 1 - j
  <2>4. /\ j - 1 \in Nat /\ j - 1 <= depth - m /\ ~(j <= j - 1) /\ depth + 1 - (j - 1) = d + 1
        /\ d \in m+1..depth /\ d \in 1..depth /\ d \in 1..MaxDepth+1 /\ ~(d > depth)
    BY <1>1, <1>5, <2>2, <2>3
  <2>5. j - 1 \notin T
    <3> HIDE DEF T
    <3> QED
      BY <2>1, <2>4
  <2> HIDE DEF d
  <2>6. A[d+1].hnd = handler
    BY <2>4, <2>5
  <2>7. PICK p : A[d] = Leaves(parent, frames[d], A[d+1], p)
    BY <1>7, <2>4 DEF SeenStep
  <2>8. frames[d].ph # "guarded" /\ (frames[d].ph = "handling" => frames[d].prev = handler)
    <3>1. frames[d].ph = "handling" =>
             A[d+1] = [env |-> frames[d].saved, stk |-> frames[d].stk, hnd |-> frames[d].prev]
      BY <1>9, <2>4 DEF AnswersAt
    <3>2. frames[d].ph = "handling" => A[d+1].hnd = frames[d].prev
      BY <3>1
    <3> QED
      BY <1>6, <2>4, <2>6, <3>2
  <2>9. A[d].hnd = handler
    BY <2>6, <2>7, <2>8 DEF Leaves
  <2> QED
    BY <2>2, <2>9 DEF d
<1>11. A[m+1].hnd = handler
  <2>1. depth - m \in Nat /\ depth - m <= depth - m /\ depth + 1 - (depth - m) = m + 1
    BY <1>1, <1>5
  <2>2. depth - m \notin T
    <3> HIDE DEF T
    <3> QED
      BY <1>10
  <2> QED
    BY <2>1, <2>2
<1>12. PICK x \in Env : A[m+1] = [env |-> x, stk |-> frames[m].stk,
                                  hnd |-> Cons([at |-> m, env |-> x], frames[m].prev)]
  BY <1>5, <1>9 DEF AnswersAt
<1>13. Head(handler).env = x
  <2>1. handler = Cons([at |-> m, env |-> x], frames[m].prev)
    BY <1>11, <1>12
  <2>2. frames[m].prev \in Seq(Handler) /\ m \in Slots
    BY <1>1, <1>5, EnvAssumption DEF Inv, Stacked, Frames, Frame, Slots
  <2>3. [at |-> m, env |-> x] \in Handler
    BY <2>2 DEF Handler
  <2>4. Head(handler) = [at |-> m, env |-> x]
    BY <2>1, <2>2, <2>3, ConsParts
  <2> QED
    BY <2>4
<1> QED
  BY <1>5, <1>6, <1>11, <1>12, <1>13 DEF A

(* The error side of guard: longjmp to the innermost guard, unwind, and run  *)
(* its handler body.                                                         *)
LEMMA RaiseStep ==
    ASSUME Inv, Inv', Promises, Raise
    PROVE  Contract!Unwind /\ Promises'
<1> DEFINE m == Head(handler).at
           g == frames[m]
           A == Seen(parent, frames, depth, Now, tcoEnv)
           B == Seen(parent', frames', m, Now', NoEnv)
<1>1. /\ handler # <<>> /\ frames \in Frames /\ depth \in 0..MaxDepth /\ cont' = cont
      /\ tcoEnv = NoEnv /\ tcoEnv' = NoEnv /\ ~tcoExpr'
  BY DEF Raise, CanRaise, Raising, Inv, Stacked, Values, TcoClean
<1>2. HeapMoves
  BY Raised
<1>3. /\ m \in 1..depth /\ g.ph = "guarded"
      /\ \A d \in m+1..depth : frames[d].ph # "guarded"
      /\ A[m+1] = [env |-> Head(handler).env, stk |-> g.stk, hnd |-> handler]
  BY <1>1, InnermostGuard
<1> HIDE DEF m
<1>4. /\ depth \in Nat /\ MaxDepth \in Nat /\ m \in Nat /\ depth \in 1..MaxDepth
      /\ m \in 0..MaxDepth /\ m - 1 \in 0..MaxDepth /\ m - 1 + 1 = m
      /\ m \in Slots /\ m <= depth /\ m > 0 /\ m - 1 <= m /\ m - 1 <= depth
      /\ m \in 1..MaxDepth + 1
      /\ \A d \in 1..m-1 : d # m /\ ~(d > m) /\ d \in Slots /\ d \in 1..m
  BY <1>1, <1>3, EnvAssumption DEF Slots
<1>5. g \in Frame
  BY <1>1, <1>4 DEF Frames
<1>6. PICK e \in Fresh :
         /\ NewEnv(e, Head(handler).env)
         /\ env' = e /\ saveStack' = g.stk /\ handler' = g.prev /\ depth' = m
         /\ frames' = [d \in Slots |->
                         CASE d = m -> [g EXCEPT !.ph = "handling", !.saved = e]
                           [] d > m -> Idle
                           [] OTHER -> frames[d]]
  BY Zenon DEF Raise, UnwoundSaves, Enclosing, m
<1>7. parent'[e] = Head(handler).env
  BY <1>6, HeapEnvs DEF NewEnv
<1> DEFINE f == [g EXCEPT !.ph = "handling", !.saved = e]
<1>8. /\ f.ph = "handling" /\ f.saved = e /\ f.kept = g.kept /\ f.stk = g.stk /\ f.prev = g.prev
      /\ f.tramp = g.tramp
  BY <1>5 DEF Frame
<1>9. frames'[m] = f /\ \A d \in 1..m-1 : frames'[d] = frames[d]
  BY <1>4, <1>6
<1> HIDE DEF f, g
<1>10. A[m] = Leaves(parent, g, A[m+1], NoEnv) /\ B[m] = Leaves(parent', f, Now', NoEnv)
       /\ B[m+1] = Now'
  <2>1. A[m] = SeenStep(parent, frames, depth, Now, tcoEnv, A, m)
    BY <1>1, <1>4, SeenIs
  <2>2. ~(m > depth)
    BY <1>4
  <2>3. A[m] = Leaves(parent, g, A[m+1], NoEnv)
    BY <1>1, <2>1, <2>2 DEF SeenStep, Given, g
  <2> QED
    BY <1>4, <1>9, <2>3, SeenTop
<1> HIDE DEF A, B
<1>11. B[m] = A[m]
  BY <1>3, <1>6, <1>7, <1>8, <1>10 DEF Leaves, Now
<1>12. Follows(parent, frames, depth, tcoEnv, parent', frames', m, NoEnv, m - 1)
  <2>1. \A d \in 1..m-1 : Given(d, depth, tcoEnv) = Given(d, m, NoEnv)
    BY <1>1 DEF Given
  <2> QED
    BY <1>2, <1>4, <1>9, <2>1, LowerPasses
<1>13. Answers(parent, frames, depth, Now, tcoEnv)
  BY DEF Promises
<1>14. /\ \A d \in 1..m-1+1 : B[d] = A[d]
       /\ AnswersUpTo(B, frames', m-1) /\ SameGuards(frames, frames', m-1)
  <2>1. AlikeBelow(parent, frames, depth, Now, tcoEnv,
                   parent', frames', m, Now', NoEnv, m - 1)
    BY <1>1, <1>4, <1>11, <1>12, <1>13 DEF AlikeBelow, A, B
  <2> QED
    BY <2>1, AgreeBelow DEF A, B
<1>15. AnswersAt(B, frames'[m], m)
  <2>1. g.kept # NoEnv => g.tramp
    BY <1>3, <1>13 DEF Answers, AnswersAt, g
  <2> QED
    BY <1>6, <1>8, <1>9, <1>10, <2>1 DEF AnswersAt, Now
<1>16. Answers(parent', frames', depth', Now', tcoEnv')
  <2>1. \A d \in 1..m : AnswersAt(B, frames'[d], d)
    BY <1>4, <1>14, <1>15 DEF AnswersUpTo
  <2> QED
    BY <1>1, <1>6, <2>1 DEF Answers, B
<1>17. /\ m \in 1..Len(Acts) /\ Acts[m].guarding
       /\ \A d \in m+1..Len(Acts) : ~Acts[d].guarding
       /\ Acts[m].answer = A[m]
       /\ Acts' = [SubSeq(Acts, 1, m) EXCEPT ![m].guarding = FALSE]
  <2>1. Acts = ActsOf(parent, frames, depth, Now, tcoEnv)
        /\ Acts' = ActsOf(parent', frames', m, Now', NoEnv)
    BY <1>1, <1>6 DEF Acts
  <2>2. \A d \in 1..m : B[d] = A[d]
    BY <1>4, <1>14
  <2>3. frames'[m].ph # "guarded" /\ frames[m].ph = "guarded"
    BY <1>3, <1>8, <1>9 DEF g
  <2>4. Shows(Acts, A, frames, depth)
    BY <1>1, <2>1, ActsOfStack DEF A
  <2>5. Shows(Acts', B, frames', m)
    BY <1>4, <2>1, ActsOfStack DEF B
  <2> QED
    BY <1>3, <1>4, <1>14, <2>2, <2>3, <2>4, <2>5, UnwindShape
<1>18. Now' \in Registers
  BY DEF Now, Registers, EnvOrNil, Inv, Values, Stacked
<1>19. Now'.stk = Acts[m].answer.stk /\ Now'.hnd = Acts[m].answer.hnd
  BY <1>3, <1>6, <1>10, <1>17 DEF Leaves, Now
<1>20. Held' = Held /\ HeldAnswers'
  BY <1>1, <1>2, HeldStays
<1>21. (In("loop") /\ tcoExpr => Me.saved = NoEnv)'
  BY <1>1
<1> QED
  BY <1>16, <1>17, <1>18, <1>19, <1>20, <1>21 DEF Contract!Unwind, Promises

(* %cc-invoke brings back the stack as it was captured.                      *)
LEMMA InvokeStep ==
    ASSUME Inv, Promises, Invoke
    PROVE  Contract!Reenter /\ Promises'
<1> DEFINE n == cont.depth
           A == Seen(parent, cont.frames, n, Then, NoEnv)
           B == Seen(parent, frames', n, Then, NoEnv)
<1>1. /\ cont # NoCont /\ cont.frames \in Frames /\ n \in Slots /\ cont.frames[n].ph = "list"
      /\ frames' = [cont.frames EXCEPT ![n].ph = "back"] /\ depth' = n
      /\ Now' = Then /\ tcoEnv' = NoEnv /\ ~tcoExpr' /\ parent' = parent /\ cont' = cont
      /\ HeapMoves
  BY DEF Invoke, Inv, Continued, Continuation, Frames, Now, Then, heap, HeapMoves, Values
<1>2. n \in Nat /\ n \in 1..MaxDepth /\ n \in 0..MaxDepth /\ n > 0 /\ n <= n
  BY <1>1, EnvAssumption DEF Slots
<1>3. ASSUME NEW d \in 1..n
      PROVE  /\ PassesOn(parent, cont.frames[d], Given(d, n, NoEnv),
                         parent, frames'[d], Given(d, n, NoEnv))
             /\ ReliesOn(cont.frames[d], frames'[d])
  <2> DEFINE f == cont.frames[d]
             g == frames'[d]
  <2>1. f \in Frame /\ g = IF d = n THEN [f EXCEPT !.ph = "back"] ELSE f
    <3>1. d \in Slots
      BY <1>2, EnvAssumption DEF Slots
    <3> HIDE DEF n
    <3> QED
      BY <1>1, <3>1 DEF Frames
  <2>2. /\ g.kept = f.kept /\ g.saved = f.saved /\ g.stk = f.stk /\ g.prev = f.prev
        /\ g.tramp = f.tramp /\ (g.ph = f.ph \/ (f.ph = "list" /\ g.ph = "back"))
    BY <1>1, <2>1 DEF Frame
  <2> HIDE DEF f, g
  <2>3. ReliesOn(f, g)
    BY <2>2 DEF ReliesOn
  <2>4. PassesOn(parent, f, NoEnv, parent, g, NoEnv)
    BY <2>2 DEF PassesOn, Leaves
  <2>5. Given(d, n, NoEnv) = NoEnv
    BY DEF Given
  <2> QED
    BY <2>3, <2>4, <2>5 DEF f, g
<1>4. Answers(parent, cont.frames, n, Then, NoEnv)
  BY <1>1 DEF Promises, HeldAnswers
<1>5. A[n+1] = Then /\ B[n+1] = Then
  BY <1>2, SeenTop
<1> HIDE DEF n, A, B
<1>6. /\ \A d \in 1..n+1 : B[d] = A[d]
      /\ AnswersUpTo(B, frames', n) /\ SameGuards(cont.frames, frames', n)
  <2>1. Follows(parent, cont.frames, n, NoEnv, parent, frames', n, NoEnv, n)
    BY <1>3 DEF Follows
  <2>2. AlikeBelow(parent, cont.frames, n, Then, NoEnv, parent, frames', n, Then, NoEnv, n)
    BY <1>2, <1>4, <1>5, <2>1 DEF AlikeBelow, A, B
  <2> QED
    BY <2>2, AgreeBelow DEF A, B
<1>7. Answers(parent', frames', depth', Now', tcoEnv')
  BY <1>1, <1>6 DEF Answers, AnswersUpTo, B
<1>8. Acts' = Held.acts /\ Now' = Held.cur /\ Held # Contract!NoneHeld
  <2>1. Held.acts = ActsOf(parent, cont.frames, n, Then, NoEnv) /\ Held.cur = Then
    BY <1>1 DEF Held, n
  <2>2. Acts' = ActsOf(parent, frames', n, Then, NoEnv)
    BY <1>1 DEF Acts
  <2>3. \A d \in 1..n : B[d] = A[d]
    BY <1>2, <1>6
  <2>4. Acts' = Held.acts
    <3> DEFINE F(d) == [answer |-> B[d], guarding |-> frames'[d].ph = "guarded"]
               G(d) == [answer |-> A[d], guarding |-> cont.frames[d].ph = "guarded"]
    <3>1. Acts' = [d \in 1..n |-> F(d)] /\ Held.acts = [d \in 1..n |-> G(d)]
      BY <2>1, <2>2 DEF ActsOf, A, B
    <3>2. \A d \in 1..n : F(d) = G(d)
      BY <1>6, <2>3 DEF SameGuards
    <3> HIDE DEF F, G
    <3> QED
      BY <3>1, <3>2
  <2>5. Len(Held.acts) = n /\ n # 0
    <3>1. Shows(Held.acts, A, cont.frames, n)
      BY <1>2, <2>1, ActsOfStack DEF A
    <3> QED
      BY <1>2, <3>1 DEF Shows
  <2> QED
    BY <1>1, <2>1, <2>4, <2>5 DEF Contract!NoneHeld
<1>9. Held' = Held /\ HeldAnswers'
  BY <1>1, HeldStays
<1>10. (In("loop") /\ tcoExpr => Me.saved = NoEnv)'
  BY <1>1
<1> QED
  BY <1>7, <1>8, <1>9, <1>10 DEF Contract!Reenter, Promises

(* The running handler returns.                                              *)
LEMMA AnswerWorks ==
    ASSUME Inv, Inv', Promises, UNCHANGED <<depth, parent, cont>>, depth > 0,
           NEW pops, Answer(pops),
           Leaves(parent, Me, Now, tcoEnv) =
              [env |-> IF Me.kept # NoEnv THEN Me.kept
                       ELSE IF tcoEnv' # NoEnv THEN tcoEnv' ELSE env',
               stk |-> saveStack', hnd |-> handler']
    PROVE  Contract!Work /\ Promises'
<1> DEFINE g == [Idle EXCEPT !.ph = "back", !.tramp = Me.tramp, !.kept = Me.kept]
<1>1. frames' = [frames EXCEPT ![depth] = g]
  BY DEF Answer
<1>2. Me \in Frame /\ depth \in 1..depth
  BY TopFacts, EnvAssumption DEF Slots
<1>3. g \in Frame /\ g.ph = "back" /\ g.kept = Me.kept /\ g.tramp = Me.tramp
  BY <1>2, IdleType DEF Frame, Phase
<1>4. g.kept # NoEnv => g.tramp
  <2>1. Me.kept # NoEnv => Me.tramp
    BY <1>2 DEF Promises, Answers, AnswersAt, Me
  <2> HIDE DEF g
  <2> QED
    BY <1>3, <2>1
<1> HIDE DEF g
<1>5. Leaves(parent', g, Now', tcoEnv') = Leaves(parent, Me, Now, tcoEnv)
  BY <1>3 DEF Leaves, Now
<1>6. HeapMoves /\ Holds
  BY DEF HeapMoves, Holds, Inv, Values
<1> QED
  BY <1>1, <1>3, <1>4, <1>5, <1>6, WorkStep DEF Becomes

(* Every form whose handler answers, whether it restores the environment     *)
(* itself or hands it over with a tail.                                      *)
LEMMA AnsweringWorks ==
    ASSUME Simple, Inv, Inv', Promises, Answering
    PROVE  Contract!Work /\ Promises'
<1> USE DEF registers, heap
<1>1. CASE Data
  <2>1. /\ In("list") /\ Answer(0) /\ UNCHANGED <<depth, parent, cont>>
        /\ UNCHANGED <<env, saveStack, tcoEnv, handler>>
    BY <1>1 DEF Data
  <2>2. /\ depth > 0 /\ Me.ph \in {"list"} /\ (tcoEnv # NoEnv => tcoExpr)
        /\ Me.ph \notin {"back", "loop"} => tcoEnv = NoEnv
        /\ Me.ph \in Pushers => Head(saveStack) \in Env
        /\ Me.ph \in Scoped => Me.saved \in Env
    BY <2>1, Running
  <2> QED
    BY <2>1, <2>2, EnvAssumption, AnswerWorks DEF Leaves, Now, Pushers, Scoped, Brackets
<1>2. CASE BodyTail
  <2>1. /\ In("body") /\ Answer(1) /\ UNCHANGED <<depth, parent, cont>>
        /\ tcoEnv' = IF tcoEnv = NoEnv THEN Head(saveStack) ELSE tcoEnv
        /\ saveStack' = Tail(saveStack) /\ UNCHANGED <<env, handler>>
    BY <1>2 DEF BodyTail
  <2>2. /\ depth > 0 /\ Me.ph \in {"body"} /\ (tcoEnv # NoEnv => tcoExpr)
        /\ Me.ph \notin {"back", "loop"} => tcoEnv = NoEnv
        /\ Me.ph \in Pushers => Head(saveStack) \in Env
        /\ Me.ph \in Scoped => Me.saved \in Env
    BY <2>1, Running
  <2> QED
    BY <2>1, <2>2, EnvAssumption, AnswerWorks DEF Leaves, Now, Pushers, Scoped, Brackets
<1>3. CASE BodyNilTail
  <2>1. /\ In("body") /\ Answer(1) /\ UNCHANGED <<depth, parent, cont>>
        /\ env' = Head(saveStack) /\ saveStack' = Tail(saveStack)
        /\ UNCHANGED <<tcoEnv, handler>>
    BY <1>3 DEF BodyNilTail
  <2>2. /\ depth > 0 /\ Me.ph \in {"body"} /\ (tcoEnv # NoEnv => tcoExpr)
        /\ Me.ph \notin {"back", "loop"} => tcoEnv = NoEnv
        /\ Me.ph \in Pushers => Head(saveStack) \in Env
        /\ Me.ph \in Scoped => Me.saved \in Env
    BY <2>1, Running
  <2> QED
    BY <2>1, <2>2, EnvAssumption, AnswerWorks DEF Leaves, Now, Pushers, Scoped, Brackets
<1>4. CASE OpTail
  <2>1. /\ In("opbody") /\ Answer(1) /\ UNCHANGED <<depth, parent, cont>>
        /\ tcoEnv' = Me.saved /\ UNCHANGED <<env, saveStack, handler>>
    BY <1>4 DEF OpTail
  <2>2. /\ depth > 0 /\ Me.ph \in {"opbody"} /\ (tcoEnv # NoEnv => tcoExpr)
        /\ Me.ph \notin {"back", "loop"} => tcoEnv = NoEnv
        /\ Me.ph \in Pushers => Head(saveStack) \in Env
        /\ Me.ph \in Scoped => Me.saved \in Env
    BY <2>1, Running
  <2> QED
    BY <2>1, <2>2, EnvAssumption, AnswerWorks DEF Leaves, Now, Pushers, Scoped, Brackets
<1>5. CASE OpNilTail
  <2>1. /\ In("opbody") /\ Answer(1) /\ UNCHANGED <<depth, parent, cont>>
        /\ env' = Me.saved /\ UNCHANGED <<saveStack, tcoEnv, handler>>
    BY <1>5 DEF OpNilTail
  <2>2. /\ depth > 0 /\ Me.ph \in {"opbody"} /\ (tcoEnv # NoEnv => tcoExpr)
        /\ Me.ph \notin {"back", "loop"} => tcoEnv = NoEnv
        /\ Me.ph \in Pushers => Head(saveStack) \in Env
        /\ Me.ph \in Scoped => Me.saved \in Env
    BY <2>1, Running
  <2> QED
    BY <2>1, <2>2, EnvAssumption, AnswerWorks DEF Leaves, Now, Pushers, Scoped, Brackets
<1>6. CASE Applied
  <2>1. /\ In("applied") /\ Answer(1) /\ UNCHANGED <<depth, parent, cont>>
        /\ env' = Me.saved /\ UNCHANGED <<saveStack, tcoEnv, handler>>
    BY <1>6 DEF Applied
  <2>2. /\ depth > 0 /\ Me.ph \in {"applied"} /\ (tcoEnv # NoEnv => tcoExpr)
        /\ Me.ph \notin {"back", "loop"} => tcoEnv = NoEnv
        /\ Me.ph \in Pushers => Head(saveStack) \in Env
        /\ Me.ph \in Scoped => Me.saved \in Env
    BY <2>1, Running
  <2> QED
    BY <2>1, <2>2, EnvAssumption, AnswerWorks DEF Leaves, Now, Pushers, Scoped, Brackets
<1>7. CASE LoopDone
  <2>1. /\ In("loop") /\ Answer(1) /\ UNCHANGED <<depth, parent, cont>>
        /\ ~tcoExpr /\ env' = IF Me.saved # NoEnv THEN Me.saved ELSE env
        /\ UNCHANGED <<saveStack, tcoEnv, handler>>
    BY <1>7 DEF LoopDone
  <2>2. /\ depth > 0 /\ Me.ph \in {"loop"} /\ (tcoEnv # NoEnv => tcoExpr)
        /\ Me.ph \notin {"back", "loop"} => tcoEnv = NoEnv
        /\ Me.ph \in Pushers => Head(saveStack) \in Env
        /\ Me.ph \in Scoped => Me.saved \in Env
    BY <2>1, Running
  <2> QED
    BY <2>1, <2>2, EnvAssumption, AnswerWorks DEF Leaves, Now, Pushers, Scoped, Brackets
<1>8. CASE DeferPlain
  <2>1. /\ In("list") /\ Answer(0) /\ UNCHANGED <<depth, parent, cont>>
        /\ UNCHANGED <<env, saveStack, tcoEnv, handler>>
    BY <1>8 DEF DeferPlain, Form
  <2>2. /\ depth > 0 /\ Me.ph \in {"list"} /\ (tcoEnv # NoEnv => tcoExpr)
        /\ Me.ph \notin {"back", "loop"} => tcoEnv = NoEnv
        /\ Me.ph \in Pushers => Head(saveStack) \in Env
        /\ Me.ph \in Scoped => Me.saved \in Env
    BY <2>1, Running
  <2> QED
    BY <2>1, <2>2, EnvAssumption, AnswerWorks DEF Leaves, Now, Pushers, Scoped, Brackets
<1>9. CASE TailEval
  <2>1. /\ In("list") /\ Answer(0) /\ UNCHANGED <<depth, parent, cont>>
        /\ Me.kept # NoEnv /\ UNCHANGED <<saveStack, tcoEnv, handler>>
    BY <1>9 DEF TailEval, Form, Simple
  <2>2. /\ depth > 0 /\ Me.ph \in {"list"} /\ (tcoEnv # NoEnv => tcoExpr)
        /\ Me.ph \notin {"back", "loop"} => tcoEnv = NoEnv
        /\ Me.ph \in Pushers => Head(saveStack) \in Env
        /\ Me.ph \in Scoped => Me.saved \in Env
    BY <2>1, Running
  <2> QED
    BY <2>1, <2>2, EnvAssumption, AnswerWorks DEF Leaves, Now, Pushers, Scoped, Brackets
<1>10. CASE EvalInDone
  <2>1. /\ In("evaled") /\ Answer(0) /\ UNCHANGED <<depth, parent, cont>>
        /\ env' = Head(saveStack) /\ saveStack' = Tail(saveStack)
        /\ UNCHANGED <<tcoEnv, handler>>
    BY <1>10 DEF EvalInDone
  <2>2. /\ depth > 0 /\ Me.ph \in {"evaled"} /\ (tcoEnv # NoEnv => tcoExpr)
        /\ Me.ph \notin {"back", "loop"} => tcoEnv = NoEnv
        /\ Me.ph \in Pushers => Head(saveStack) \in Env
        /\ Me.ph \in Scoped => Me.saved \in Env
    BY <2>1, Running
  <2> QED
    BY <2>1, <2>2, EnvAssumption, AnswerWorks DEF Leaves, Now, Pushers, Scoped, Brackets
<1>11. CASE LeaveTop
  <2>1. /\ (In("topped") \/ In("load")) /\ Answer(1) /\ UNCHANGED <<depth, parent, cont>>
        /\ saveStack' = Me.stk /\ env' = Me.saved /\ UNCHANGED <<tcoEnv, handler>>
    BY <1>11 DEF LeaveTop
  <2>2. /\ depth > 0 /\ Me.ph \in {"topped", "load"} /\ (tcoEnv # NoEnv => tcoExpr)
        /\ Me.ph \notin {"back", "loop"} => tcoEnv = NoEnv
        /\ Me.ph \in Pushers => Head(saveStack) \in Env
        /\ Me.ph \in Scoped => Me.saved \in Env
    BY <2>1, Running
  <2> QED
    BY <2>1, <2>2, EnvAssumption, AnswerWorks DEF Leaves, Now, Pushers, Scoped, Brackets
<1>12. CASE GuardDone
  <2>1. /\ In("guarded") /\ Answer(1) /\ UNCHANGED <<depth, parent, cont>>
        /\ handler' = Me.prev /\ UNCHANGED <<env, saveStack, tcoEnv>>
    BY <1>12 DEF GuardDone
  <2>2. /\ depth > 0 /\ Me.ph \in {"guarded"} /\ (tcoEnv # NoEnv => tcoExpr)
        /\ Me.ph \notin {"back", "loop"} => tcoEnv = NoEnv
        /\ Me.ph \in Pushers => Head(saveStack) \in Env
        /\ Me.ph \in Scoped => Me.saved \in Env
    BY <2>1, Running
  <2> QED
    BY <2>1, <2>2, EnvAssumption, AnswerWorks DEF Leaves, Now, Pushers, Scoped, Brackets
<1>13. CASE HandlingDone
  <2>1. /\ In("handling") /\ Answer(1) /\ UNCHANGED <<depth, parent, cont>>
        /\ env' = parent[Me.saved] /\ handler' = Me.prev
        /\ UNCHANGED <<saveStack, tcoEnv>>
    BY <1>13 DEF HandlingDone
  <2>2. /\ depth > 0 /\ Me.ph \in {"handling"} /\ (tcoEnv # NoEnv => tcoExpr)
        /\ Me.ph \notin {"back", "loop"} => tcoEnv = NoEnv
        /\ Me.ph \in Pushers => Head(saveStack) \in Env
        /\ Me.ph \in Scoped => Me.saved \in Env
    BY <2>1, Running
  <2> QED
    BY <2>1, <2>2, EnvAssumption, AnswerWorks DEF Leaves, Now, Pushers, Scoped, Brackets
<1>14. CASE Collect
  <2>1. /\ In("list") /\ Answer(0) /\ UNCHANGED <<depth, parent, cont>>
        /\ UNCHANGED <<env, saveStack, tcoEnv, handler>>
    BY <1>14 DEF Collect, Form
  <2>2. /\ depth > 0 /\ Me.ph \in {"list"} /\ (tcoEnv # NoEnv => tcoExpr)
        /\ Me.ph \notin {"back", "loop"} => tcoEnv = NoEnv
        /\ Me.ph \in Pushers => Head(saveStack) \in Env
        /\ Me.ph \in Scoped => Me.saved \in Env
    BY <2>1, Running
  <2> QED
    BY <2>1, <2>2, EnvAssumption, AnswerWorks DEF Leaves, Now, Pushers, Scoped, Brackets
<1> QED
  BY <1>1, <1>2, <1>3, <1>4, <1>5, <1>6, <1>7, <1>8, <1>9, <1>10, <1>11, <1>12, <1>13, <1>14 DEF Answering

(* A frame that walks a body, the caller's environment in a local.           *)
LEMMA WalkWorks ==
    ASSUME Inv, Inv', Promises, HeapMoves, Holds,
           UNCHANGED <<depth, saveStack, handler, tcoEnv>>, In("list"),
           NEW ph \in {"opbody", "apbody", "applied"},
           frames' = [frames EXCEPT ![depth] = [@ EXCEPT !.ph = ph, !.saved = env]]
    PROVE  Contract!Work /\ Promises'
<1> DEFINE g == [Me EXCEPT !.ph = ph, !.saved = env]
<1>1. Me \in Frame /\ Me.ph = "list" /\ env \in Env /\ tcoEnv = NoEnv /\ depth > 0 /\ depth \in 1..depth
  BY Running, EnvAssumption DEF Slots
<1>2. /\ g \in Frame /\ g.ph = ph /\ g.saved = env /\ g.kept = Me.kept /\ g.tramp = Me.tramp
  BY <1>1 DEF Frame, Phase, EnvOrNil
<1>3. frames' = [frames EXCEPT ![depth] = g]
  BY DEF Me
<1>4. Me.kept # NoEnv => Me.tramp
  BY <1>1 DEF Promises, Answers, AnswersAt, Me
<1> HIDE DEF g
<1>5. Leaves(parent', g, Now', tcoEnv') = Leaves(parent, Me, Now, tcoEnv)
  BY <1>1, <1>2 DEF Leaves, Now
<1> QED
  BY <1>1, <1>2, <1>3, <1>4, <1>5, WorkStep DEF Becomes

(* The top-level bracket parks what it displaces.                            *)
LEMMA TopWorks ==
    ASSUME Inv, Inv', Promises, In("list"), NEW ph \in {"top", "load"}, EnterTop(ph)
    PROVE  Contract!Work /\ Promises'
<1> DEFINE g == [Me EXCEPT !.ph = ph, !.saved = env, !.stk = saveStack]
<1>1. /\ Me \in Frame /\ Me.ph = "list" /\ env \in Env /\ tcoEnv = NoEnv /\ depth > 0
      /\ depth \in 1..depth /\ saveStack \in Seq(Env)
  BY Running, EnvAssumption DEF Slots
<1>2. /\ frames' = [frames EXCEPT ![depth] = g]
      /\ UNCHANGED <<tcoEnv, handler, depth, parent, cont>>
  BY DEF EnterTop, heap, Me
<1>3. /\ g \in Frame /\ g.ph = ph /\ g.saved = env /\ g.kept = Me.kept /\ g.tramp = Me.tramp
      /\ g.stk = saveStack
  BY <1>1 DEF Frame, Phase, EnvOrNil
<1>4. Me.kept # NoEnv => Me.tramp
  BY <1>1 DEF Promises, Answers, AnswersAt, Me
<1>5. HeapMoves /\ Holds
  BY <1>2 DEF HeapMoves, Holds, Inv, Values
<1> HIDE DEF g
<1>6. Leaves(parent', g, Now', tcoEnv') = Leaves(parent, Me, Now, tcoEnv)
  BY <1>1, <1>2, <1>3 DEF Leaves, Now
<1> QED
  BY <1>1, <1>2, <1>3, <1>4, <1>5, <1>6, WorkStep DEF Becomes

(* A frame about to pop what it pushed leaves what it would have left.       *)
LEMMA PushLeaves ==
    ASSUME NEW up, NEW vp, NEW f, NEW g, NEW s, NEW t,
           f.ph = "list", g.ph \in {"body", "evalin"}, g.kept = f.kept,
           Head(t.stk) = s.env, Tail(t.stk) = s.stk, t.hnd = s.hnd
    PROVE  Leaves(vp, g, t, NoEnv) = Leaves(up, f, s, NoEnv)
BY DEF Leaves

(* Every form that goes on to evaluate something.                            *)
LEMMA EnteringWorks ==
    ASSUME Inv, Inv', Promises, Entering
    PROVE  Contract!Work /\ Promises'
<1>1. ASSUME NEW ph, In(ph)
      PROVE  /\ Me \in Frame /\ Me.ph = ph /\ env \in Env /\ depth > 0
             /\ (ph = "list" => tcoEnv = NoEnv) /\ saveStack \in Seq(Env) /\ handler \in Seq(Handler)
             /\ chain \in Seq(Node) /\ (Me.kept # NoEnv => Me.tramp)
  <2>1. depth \in 1..depth
    BY <1>1, Running, EnvAssumption DEF Slots
  <2>2. Me.kept # NoEnv => Me.tramp
    BY <2>1 DEF Promises, Answers, AnswersAt, Me
  <2> QED
    BY <1>1, <2>2, Running
<1>2. CASE Procedure
  <2> DEFINE g == [Me EXCEPT !.ph = "body"]
  <2>1. /\ In("list") /\ \E e \in Fresh, p \in Reached : NewEnv(e, p) /\ env' = e
        /\ saveStack' = Cons(env, saveStack)
        /\ frames' = [frames EXCEPT ![depth] = g]
        /\ UNCHANGED <<tcoEnv, handler, depth, cont>>
    BY <1>2 DEF Procedure, Form, Become, Me
  <2>2. g \in Frame /\ g.ph = "body" /\ g.kept = Me.kept /\ g.tramp = Me.tramp
    BY <1>1, <2>1 DEF Frame, Phase
  <2> HIDE DEF g
  <2>3. Head(saveStack') = env /\ Tail(saveStack') = saveStack
    BY <1>1, <2>1, ConsParts
  <2>4. Leaves(parent', g, Now', tcoEnv') = Leaves(parent, Me, Now, tcoEnv)
    <3>1. /\ Head(Now'.stk) = Now.env /\ Tail(Now'.stk) = Now.stk /\ Now'.hnd = Now.hnd
          /\ Me.ph = "list" /\ tcoEnv = NoEnv /\ tcoEnv' = NoEnv
      BY <1>1, <2>1, <2>3 DEF Now
    <3>2. Leaves(parent', g, Now', NoEnv) = Leaves(parent, Me, Now, NoEnv)
      BY <2>2, <3>1, PushLeaves
    <3> QED
      BY <3>1, <3>2
  <2>5. HeapMoves /\ Holds
    BY <2>1, MadeEnv DEF Holds
  <2> QED
    BY <1>1, <2>1, <2>2, <2>4, <2>5, WorkStep DEF Becomes
<1>3. CASE Operative \/ ApplyProcedure \/ ApplyOperative
  <2>1. /\ In("list") /\ \E e \in Fresh, p \in Reached : NewEnv(e, p) /\ env' = e
        /\ \E ph \in {"opbody", "apbody", "applied"} :
              frames' = [frames EXCEPT ![depth] = [@ EXCEPT !.ph = ph, !.saved = env]]
        /\ UNCHANGED <<saveStack, tcoEnv, handler, depth, cont>>
    BY <1>3 DEF Operative, ApplyProcedure, ApplyOperative, Form, EnterOperative
  <2> QED
    BY <2>1, MadeEnv, WalkWorks DEF Holds
<1>4. CASE Sequence
  <2>1. /\ In("list")
        /\ frames' = [frames EXCEPT ![depth] = [@ EXCEPT !.ph = "opbody", !.saved = env]]
        /\ UNCHANGED <<saveStack, tcoEnv, handler, depth, cont, parent, swept>>
    BY <1>4 DEF Sequence, Form, registers, heap
  <2>2. HeapMoves /\ Holds
    BY <2>1 DEF HeapMoves, Holds, Inv, Values
  <2> QED
    BY <2>1, <2>2, WalkWorks
<1>5. CASE EvalTop \/ Load
  BY <1>5, TopWorks DEF EvalTop, Load, Form
<1>6. CASE Guard
  <2> DEFINE g == [Me EXCEPT !.ph = "guarded", !.stk = saveStack, !.prev = handler,
                             !.roots = chain]
  <2>1. /\ In("list") /\ frames' = [frames EXCEPT ![depth] = g]
        /\ handler' = Cons([at |-> depth, env |-> env], handler)
        /\ UNCHANGED <<env, saveStack, tcoEnv, depth, parent, swept, cont>>
    BY <1>6 DEF Guard, Form, heap, Me
  <2>2. /\ g \in Frame /\ g.ph = "guarded" /\ g.stk = saveStack /\ g.prev = handler
        /\ g.kept = Me.kept /\ g.tramp = Me.tramp
    BY <1>1, <2>1 DEF Frame, Phase
  <2> HIDE DEF g
  <2>3. Leaves(parent', g, Now', tcoEnv') = Leaves(parent, Me, Now, tcoEnv)
    BY <1>1, <2>1, <2>2 DEF Leaves, Now
  <2>4. HeapMoves /\ Holds
    BY <2>1 DEF HeapMoves, Holds, Inv, Values
  <2> QED
    BY <1>1, <2>1, <2>2, <2>3, <2>4, WorkStep DEF Becomes
<1>7. CASE CallCC
  <2>1. /\ In("list") /\ \E e \in Fresh, p \in Reached : NewEnv(e, p) /\ env' = e
        /\ \E ph \in {"opbody", "apbody", "applied"} :
              frames' = [frames EXCEPT ![depth] = [@ EXCEPT !.ph = ph, !.saved = env]]
        /\ cont' \in {Captured, NoCont}
        /\ UNCHANGED <<saveStack, tcoEnv, handler, depth>>
    BY <1>7 DEF CallCC, Form, EnterOperative
  <2> QED
    BY <2>1, MadeEnv, WalkWorks DEF Holds
<1> QED
  BY <1>2, <1>3, <1>4, <1>5, <1>6, <1>7 DEF Entering

(* The trampoline, and what moves between phases of one activation.          *)
LEMMA PassWorks ==
    ASSUME Inv, Inv', Promises,
           Atom \/ Combine \/ Trampoline \/ ApBodyTail \/ ApBodyNilTail \/ EvalIn
    PROVE  Contract!Work /\ Promises'
<1>1. ASSUME NEW ph, In(ph)
      PROVE  /\ Me \in Frame /\ Me.ph = ph /\ env \in Env /\ depth > 0
             /\ (ph \notin {"back", "loop"} => tcoEnv = NoEnv /\ ~tcoExpr)
             /\ tcoEnv \in EnvOrNil /\ saveStack \in Seq(Env) /\ (ph = "apbody" => Me.saved \in Env)
             /\ (Me.kept # NoEnv => Me.tramp)
  <2>1. depth \in 1..depth
    BY <1>1, Running, EnvAssumption DEF Slots
  <2>2. Me.kept # NoEnv => Me.tramp
    BY <2>1 DEF Promises, Answers, AnswersAt, Me
  <2> QED
    BY <1>1, <2>2, Running DEF Scoped
<1>2. ASSUME UNCHANGED <<parent, swept, cont>> PROVE HeapMoves /\ Holds
  BY <1>2 DEF HeapMoves, Holds, Inv, Values
<1>3. CASE Atom \/ Combine
  <2>1. PICK ph \in {"back", "list"} :
           /\ In("start") /\ frames' = [frames EXCEPT ![depth] = [Me EXCEPT !.ph = ph]]
           /\ UNCHANGED <<env, saveStack, handler, tcoEnv, tcoExpr, depth, parent, swept, cont>>
    BY <1>3 DEF Atom, Combine, Become, Me, registers, heap
  <2> DEFINE g == [Me EXCEPT !.ph = ph]
  <2>2. g \in Frame /\ g.ph = ph /\ g.kept = Me.kept /\ g.tramp = Me.tramp
    BY <1>1, <2>1 DEF Frame, Phase
  <2> HIDE DEF g
  <2>3. Leaves(parent', g, Now', tcoEnv') = Leaves(parent, Me, Now, tcoEnv)
    BY <1>1, <2>1, <2>2 DEF Leaves, Now
  <2> QED
    BY <1>1, <1>2, <2>1, <2>2, <2>3, WorkStep DEF Becomes, g
<1>4. CASE Trampoline
  <2> DEFINE g == [Me EXCEPT !.ph = "start", !.tramp = TRUE, !.kept = Keep(Me.kept)]
  <2>1. /\ In("back") /\ frames' = [frames EXCEPT ![depth] = g] /\ tcoEnv' = NoEnv
        /\ UNCHANGED <<env, saveStack, handler, depth, parent, swept, cont>>
    BY <1>4 DEF Trampoline, heap
  <2>2. Keep(Me.kept) \in EnvOrNil
    BY <1>1, <2>1 DEF Frame, Keep
  <2>3. g \in Frame /\ g.ph = "start" /\ g.kept = Keep(Me.kept) /\ g.tramp = TRUE
    BY <1>1, <2>1, <2>2 DEF Frame, Phase
  <2> HIDE DEF g
  <2>4. Leaves(parent', g, Now', tcoEnv') = Leaves(parent, Me, Now, tcoEnv)
    BY <1>1, <2>1, <2>3 DEF Leaves, Now, Keep
  <2> QED
    BY <1>1, <1>2, <2>1, <2>3, <2>4, WorkStep DEF Becomes
<1>5. CASE ApBodyTail \/ ApBodyNilTail
  <2> DEFINE g == [Me EXCEPT !.ph = "loop", !.saved = NoEnv]
  <2>1. /\ In("apbody") /\ frames' = [frames EXCEPT ![depth] = g]
        /\ UNCHANGED <<saveStack, handler, depth, parent, swept, cont>>
        /\ \/ tcoEnv' = Me.saved /\ env' = env
           \/ tcoEnv' = tcoEnv /\ env' = Me.saved
    BY <1>5 DEF ApBodyTail, ApBodyNilTail, EnterLoop, Me, heap
  <2>2. g \in Frame /\ g.ph = "loop" /\ g.saved = NoEnv /\ g.kept = Me.kept /\ g.tramp = Me.tramp
    BY <1>1, <2>1 DEF Frame, Phase, EnvOrNil
  <2> HIDE DEF g
  <2>3. Leaves(parent', g, Now', tcoEnv') = Leaves(parent, Me, Now, tcoEnv)
    BY <1>1, <2>1, <2>2, EnvAssumption DEF Leaves, Now
  <2> QED
    BY <1>1, <1>2, <2>1, <2>2, <2>3, WorkStep DEF Becomes
<1>6. CASE EvalIn
  <2> DEFINE g == [Me EXCEPT !.ph = "evalin"]
  <2>1. /\ In("list") /\ frames' = [frames EXCEPT ![depth] = g]
        /\ saveStack' = Cons(env, saveStack)
        /\ UNCHANGED <<tcoEnv, handler, depth, parent, swept, cont>>
    BY <1>6 DEF EvalIn, Form, Become, Me, heap
  <2>2. g \in Frame /\ g.ph = "evalin" /\ g.kept = Me.kept /\ g.tramp = Me.tramp
    BY <1>1, <2>1 DEF Frame, Phase
  <2> HIDE DEF g
  <2>3. Head(saveStack') = env /\ Tail(saveStack') = saveStack
    BY <1>1, <2>1, ConsParts
  <2>4. Leaves(parent', g, Now', tcoEnv') = Leaves(parent, Me, Now, tcoEnv)
    <3>1. /\ Head(Now'.stk) = Now.env /\ Tail(Now'.stk) = Now.stk /\ Now'.hnd = Now.hnd
          /\ Me.ph = "list" /\ tcoEnv = NoEnv /\ tcoEnv' = NoEnv
      BY <1>1, <2>1, <2>3 DEF Now
    <3>2. Leaves(parent', g, Now', NoEnv) = Leaves(parent, Me, Now, NoEnv)
      BY <2>2, <3>1, PushLeaves
    <3> QED
      BY <3>1, <3>2
  <2> QED
    BY <1>1, <1>2, <2>1, <2>2, <2>4, WorkStep DEF Becomes
<1> QED
  BY <1>3, <1>4, <1>5, <1>6

(* A nested x_eval starts, with no tail of anybody else's.                   *)
LEMMA CallBegins ==
    ASSUME Inv, Promises, UNCHANGED program, Call
    PROVE  Contract!Begin /\ Promises'
<1>1. /\ UNCHANGED <<heap, env, saveStack, handler, tcoEnv>> /\ depth' = depth + 1 /\ ~exited
      /\ depth < program.depth /\ (depth > 0 => Me.ph \in Calling)
      /\ frames' = [frames EXCEPT ![depth + 1] = [Idle EXCEPT !.ph = "start"]]
  BY DEF Call, registers
<1>2. /\ depth \in Nat /\ MaxDepth \in Nat /\ program.depth \in 0..MaxDepth /\ frames \in Frames
      /\ tcoEnv # NoEnv => tcoExpr
      /\ tcoExpr => depth > 0 /\ Me.ph \in {"back", "loop"}
  BY <1>1, EnvAssumption DEF Inv, Stacked, Values, TcoClean
<1>3. tcoEnv = NoEnv
  BY <1>1, <1>2 DEF Calling
<1>4. depth < MaxDepth /\ depth + 1 \in Slots /\ \A d \in 1..depth : d \in Slots /\ d # depth + 1
  BY <1>1, <1>2, EnvAssumption DEF Slots
<1>5. frames'[depth + 1] = [Idle EXCEPT !.ph = "start"] /\ \A d \in 1..depth : frames'[d] = frames[d]
  BY <1>1, <1>2, <1>4 DEF Frames
<1>6. depth > 0 => frames'[depth] = Me
  BY <1>2, <1>5 DEF Me
<1>7. depth > 0 => /\ PassesOn(parent, Me, tcoEnv, parent, frames'[depth], NoEnv)
                   /\ ReliesOn(Me, frames'[depth])
  BY <1>3, <1>6 DEF PassesOn, ReliesOn
<1>8. tcoEnv' = NoEnv
  BY <1>1, <1>3
<1> QED
  BY <1>1, <1>4, <1>5, <1>7, <1>8, BeginStep

(* x_eval_tco_trampoline starts an x_eval on the tail it was handed, and     *)
(* keeps the environment that came with it.                                  *)
LEMMA LoopBegins ==
    ASSUME Inv, Promises, UNCHANGED program, LoopPass
    PROVE  Contract!Begin /\ Promises'
<1> DEFINE g == [Me EXCEPT !.saved = tcoEnv]
<1>1. /\ UNCHANGED <<heap, env, saveStack, handler>> /\ depth' = depth + 1 /\ In("loop") /\ tcoExpr
      /\ depth < program.depth /\ tcoEnv' = NoEnv
      /\ frames' = [frames EXCEPT ![depth].saved = Keep(@),
                                  ![depth + 1] = [Idle EXCEPT !.ph = "start"]]
  BY DEF LoopPass
<1>2. /\ depth \in Nat /\ MaxDepth \in Nat /\ program.depth \in 0..MaxDepth /\ frames \in Frames
      /\ depth > 0 /\ Me \in Frame /\ Me.ph = "loop" /\ Me.saved = NoEnv
  BY <1>1, Running, EnvAssumption DEF Inv, Stacked, Values, Promises
<1>3. depth < MaxDepth /\ depth \in Slots /\ depth + 1 \in Slots /\ depth # depth + 1
      /\ \A d \in 1..depth : d \in Slots /\ d # depth + 1
  BY <1>1, <1>2, EnvAssumption DEF Slots
<1>4. /\ frames'[depth + 1] = [Idle EXCEPT !.ph = "start"]
      /\ \A d \in 1..depth : d # depth => frames'[d] = frames[d]
      /\ frames'[depth] = [Me EXCEPT !.saved = Keep(Me.saved)]
  BY <1>1, <1>2, <1>3 DEF Frames, Me
<1>5. frames'[depth] = g
  BY <1>2, <1>4 DEF Keep
<1>6. g.ph = "loop" /\ g.saved = tcoEnv /\ g.kept = Me.kept /\ g.stk = Me.stk /\ g.prev = Me.prev
      /\ g.tramp = Me.tramp
  BY <1>2 DEF Frame
<1> HIDE DEF g
<1>7. ReliesOn(Me, g)
  BY <1>2, <1>6 DEF ReliesOn
<1>8. PassesOn(parent, Me, tcoEnv, parent, g, NoEnv)
  BY <1>2, <1>6 DEF PassesOn, Leaves
<1> QED
  BY <1>1, <1>3, <1>4, <1>5, <1>7, <1>8, BeginStep

(* x_eval answers: with what it kept if it trampolined, and at once, before  *)
(* any restore, only where there is nothing to restore.                      *)
LEMMA LeaveEnds ==
    ASSUME Simple, Inv, Promises, UNCHANGED program, SelfEvaluate \/ Return
    PROVE  Contract!End /\ Promises'
<1>1. PICK e : /\ Leave(e) /\ depth > 0 /\ ~tcoExpr' /\ UNCHANGED <<heap, saveStack, handler>>
               /\ tcoEnv = NoEnv /\ tcoEnv' = NoEnv /\ Me.ph \in {"start", "back"}
               /\ e = IF Me.kept # NoEnv THEN Me.kept ELSE env
  <2>1. depth > 0 => (Me.kept # NoEnv => Me.tramp)
    <3>1. depth > 0 => depth \in 1..depth
      BY EnvAssumption DEF Inv, Stacked
    <3> QED
      BY <3>1 DEF Promises, Answers, AnswersAt, Me
  <2>2. CASE SelfEvaluate
    <3>1. /\ In("start") /\ Leave(env) /\ UNCHANGED <<heap, saveStack, handler, tcoExpr, tcoEnv>>
          /\ Me.tramp => "simple-tail" \in program.forms
      BY <2>2 DEF SelfEvaluate
    <3>2. "simple-tail" \notin program.forms
      BY DEF Simple
    <3> QED
      BY <2>1, <3>1, <3>2, Running
  <2>3. CASE Return
    <3>1. /\ In("back") /\ ~tcoExpr /\ Leave(Restored) /\ UNCHANGED <<heap, saveStack, handler, tcoExpr>>
          /\ tcoEnv' = IF Me.tramp THEN NoEnv ELSE tcoEnv
      BY <2>3 DEF Return
    <3> QED
      BY <2>1, <3>1, Running DEF Restored
  <2> QED
    BY <2>2, <2>3
<1>2. /\ depth' = depth - 1 /\ env' = e
      /\ frames' = [d \in Slots |->
                      CASE d = depth     -> Idle
                        [] d = depth - 1 -> [frames[d] EXCEPT !.ph = Resumed(@)]
                        [] OTHER         -> frames[d]]
  BY <1>1 DEF Leave
<1>3. \A d \in 1..depth-1 : d \in Slots /\ d # depth
  BY EnvAssumption DEF Inv, Stacked, Slots
<1>4. \A d \in 1..depth-1 : frames'[d] \in {frames[d], [frames[d] EXCEPT !.ph = Resumed(@)]}
  BY <1>2, <1>3
<1>5. Now' = Leaves(parent, Me, Now, tcoEnv)
  BY <1>1, <1>2 DEF Leaves, Now
<1> QED
  BY <1>1, <1>2, <1>4, <1>5, EndStep

(* No handler is installed, and the process ends.                            *)
LEMMA StandsStill ==
    ASSUME Promises, UNCHANGED vars \/ Uncaught
    PROVE  UNCHANGED Contract!vars /\ Promises'
<1>1. UNCHANGED <<env, saveStack, tcoExpr, tcoEnv, handler, frames, depth, parent, cont>>
      /\ exited' \in {exited, TRUE}
  BY DEF vars, Uncaught, registers, heap
<1>2. Now' = Now /\ Then' = Then
  BY <1>1 DEF Now, Then
<1>3. Acts' = Acts /\ Held' = Held
  BY <1>1, <1>2 DEF Acts, Held
<1>4. Promises'
  <2>1. Answers(parent', frames', depth', Now', tcoEnv') /\ HeldAnswers'
    BY <1>1, <1>2 DEF Promises, HeldAnswers
  <2>2. (In("loop") /\ tcoExpr => Me.saved = NoEnv)'
    BY <1>1 DEF Promises, In, Me
  <2> QED
    BY <2>1, <2>2 DEF Promises
<1> QED
  BY <1>2, <1>3, <1>4 DEF Contract!vars

(* The base as it is made.                                                   *)
LEMMA StartsWell ==
    ASSUME Init
    PROVE  Contract!Init /\ Promises
<1>1. /\ frames = [d \in Slots |-> Idle] /\ depth = 0 /\ cont = NoCont
      /\ handler = <<>> /\ saveStack = <<>> /\ env = Root
  BY DEF Init
<1>2. 0 \in 0..MaxDepth /\ 0 \in Nat /\ 1..0 = {}
  BY EnvAssumption
<1>3. Acts = <<>>
  <2>1. Shows(Acts, Seen(parent, frames, 0, Now, tcoEnv), frames, 0)
    BY <1>1, <1>2, ActsOfStack DEF Acts
  <2>2. Acts \in Seq(Range(Acts)) /\ Len(Acts) = 0
    BY <2>1 DEF Shows
  <2> QED
    BY <2>2, EmptySeq
<1>4. Now \in Registers
  BY <1>1, EnvAssumption DEF Now, Registers, EnvOrNil
<1>5. Held = Contract!NoneHeld
  BY <1>1 DEF Held, Contract!NoneHeld
<1>6. Promises
  BY <1>1, <1>2 DEF Promises, Answers, HeldAnswers, In
<1> QED
  BY <1>3, <1>4, <1>5, <1>6 DEF Contract!Init

(* Every step of the evaluator is one of the contract's, or none.            *)
LEMMA StepKeepsPromise ==
    ASSUME Simple, Inv, Inv', Promises, [Next]_vars
    PROVE  [Contract!Next]_(Contract!vars) /\ Promises'
<1>1. CASE UNCHANGED vars
  BY <1>1, StandsStill
<1>2. CASE Next
  <2>1. UNCHANGED program /\ Step
    BY <1>2 DEF Next
  <2>2. CASE Answering
    BY <2>2, AnsweringWorks DEF Contract!Next
  <2>3. CASE Entering
    BY <2>3, EnteringWorks DEF Contract!Next
  <2>4. CASE Call
    BY <2>1, <2>4, CallBegins DEF Contract!Next
  <2>5. CASE SelfEvaluate \/ Return
    BY <2>1, <2>5, LeaveEnds DEF Contract!Next
  <2>6. CASE Atom \/ Combine \/ Trampoline \/ ApBodyTail \/ ApBodyNilTail \/ EvalIn
    BY <2>6, PassWorks DEF Contract!Next
  <2>7. CASE LoopPass
    BY <2>1, <2>7, LoopBegins DEF Contract!Next
  <2>8. CASE Raise
    BY <2>8, RaiseStep DEF Contract!Next
  <2>9. CASE Invoke
    BY <2>9, InvokeStep DEF Contract!Next
  <2>10. CASE Uncaught
    BY <2>10, StandsStill
  <2> QED
    BY <2>1, <2>2, <2>3, <2>4, <2>5, <2>6, <2>7, <2>8, <2>9, <2>10 DEF Step, Answering, Entering
<1> QED
  BY <1>1, <1>2

(* The program stays what it is.                                             *)
LEMMA PromisesKept ==
    ASSUME Inv, Inv', Simple => Promises, [Next]_vars
    PROVE  Simple' => Promises'
<1>1. program' = program
  BY DEF Next, vars
<1>2. Simple' <=> Simple
  BY <1>1 DEF Simple
<1> QED
  BY <1>2, StepKeepsPromise

LEMMA PlainSimple ==
    ASSUME Plain, Inv PROVE Simple
BY DEF Plain, Simple, Inv, Values

(* Every x_eval that answers leaves its caller's environment, save-stack and *)
(* error handler, however the program calls, defers tails, raises errors and *)
(* re-enters continuations, if no tail it writes is nil or untyped and every *)
(* tail-eval has an x_eval that has kept a caller's environment.             *)
THEOREM EvaluatorKeepsItsPromise ==
    ASSUME Plain PROVE Spec => EvalKeepsItsPromise
<1>1. Init => Contract!Init /\ Promises
  BY StartsWell
<1>2. Inv /\ Inv' /\ Promises /\ [Next]_vars => [Contract!Next]_(Contract!vars) /\ Promises'
  BY PlainSimple, StepKeepsPromise
<1> QED
  BY <1>1, <1>2, InvHolds, PTL DEF Spec, EvalKeepsItsPromise, Contract!Spec

-----------------------------------------------------------------------------
(* What C frames hold, the collector reaches.                                *)

(* A frame holds nothing its handler has no use for, apply's does not run,   *)
(* and activations that have answered are gone.                              *)
Tidied(f) ==
    /\ f.ph \notin Scoped \cup {"loop"} => f.saved = NoEnv
    /\ f.ph \notin {"guarded", "handling"} \cup Brackets => f.stk = <<>>
    /\ f.ph # "applied"

Tidy ==
    /\ cont = NoCont
    /\ swept = {}
    /\ \A d \in Slots : Tidied(frames[d]) /\ (d > depth => frames[d] = Idle)

LEMMA ReachedHolds ==
    ASSUME Inv
    PROVE  /\ Reached \subseteq Env
           /\ \A e \in Reached : parent[e] # NoEnv => parent[e] \in Reached
           /\ env \in Reached /\ Range(saveStack) \subseteq Reached
           /\ tcoEnv # NoEnv => tcoEnv \in Reached
           /\ \A n \in Range(chain) : NodeEnvs(n) \ {NoEnv} \subseteq Reached
<1>1. /\ parent \in [Env -> EnvOrNil] /\ NoEnv \notin Env /\ env \in Env
      /\ saveStack \in Seq(Env)
  BY EnvAssumption DEF Inv, Values
<1>2. Roots \in SUBSET EnvOrNil /\ Reached = Closure(Roots)
  BY RootsType
<1>3. Reached \subseteq Env /\ Roots \ {NoEnv} \subseteq Reached
  BY <1>1, <1>2, ClosureType
<1>4. \A e \in Reached : parent[e] # NoEnv => parent[e] \in Reached
  BY <1>1, <1>2, ClosureUp
<1>5. env \in Roots /\ tcoEnv \in Roots /\ Range(saveStack) \subseteq Roots
      /\ \A n \in Range(chain) : NodeEnvs(n) \subseteq Roots
  BY DEF Roots
<1>6. Range(saveStack) \subseteq Env
  BY <1>1, LenProperties DEF Range
<1> QED
  BY <1>1, <1>3, <1>4, <1>5, <1>6

(* The promise, as the frame of a guard or of a handler body reads it.       *)
LEMMA AnswerSeen ==
    ASSUME NEW seen, NEW f, NEW d, AnswersAt(seen, f, d)
    PROVE  /\ f.ph = "guarded" => seen[d+1].stk = f.stk
           /\ f.ph = "handling" => seen[d+1].env = f.saved /\ seen[d+1].stk = f.stk
<1>1. ASSUME f.ph = "guarded" PROVE seen[d+1].stk = f.stk
  <2>1. PICK x \in Env :
           seen[d+1] = [env |-> x, stk |-> f.stk, hnd |-> Cons([at |-> d, env |-> x], f.prev)]
    BY <1>1 DEF AnswersAt
  <2> QED
    BY <2>1
<1>2. ASSUME f.ph = "handling" PROVE seen[d+1].env = f.saved /\ seen[d+1].stk = f.stk
  <2>1. seen[d+1] = [env |-> f.saved, stk |-> f.stk, hnd |-> f.prev]
    BY <1>2 DEF AnswersAt
  <2> QED
    BY <2>1
<1> QED
  BY <1>1, <1>2

(* What the nodes of a frame protect.                                        *)
LEMMA FrameRooted ==
    ASSUME Inv, NEW d \in 1..depth
    PROVE  LET f == frames[d] IN
           /\ f.kept # NoEnv => f.kept \in Reached
           /\ f.ph \in {"opbody", "apbody", "loop"} \cup Brackets /\ f.saved # NoEnv =>
                 f.saved \in Reached
           /\ f.ph \in Brackets => Range(f.stk) \subseteq Reached
<1> DEFINE f == frames[d]
<1>1. /\ Range(chain) = NodesUpTo(frames, depth) /\ d \in Slots /\ f \in Frame /\ NoEnv \notin Env
  BY EnvAssumption DEF Inv, Stacked, InStep, Lists, Slots, Frames
<1>2. NodesOf(f, d) \subseteq Range(chain)
  BY <1>1 DEF NodesUpTo
<1>3. \A k : NodeEnvs(At(d, k)) =
                CASE k = "tco"            -> {f.kept}
                  [] k \in {"op", "loop"} -> {f.saved}
                  [] k = "park"           -> {f.saved} \cup Range(f.stk)
                  [] OTHER                -> {}
  BY DEF NodeEnvs, At
<1>4. Range(f.stk) \subseteq Env
  BY <1>1, LenProperties DEF Range, Frame
<1> HIDE DEF f
<1>5. At(d, "tco") \in NodesOf(f, d)
  BY DEF NodesOf, At
<1>6. f.ph \in {"opbody", "apbody"} => At(d, "op") \in NodesOf(f, d)
  BY DEF NodesOf, At, Brackets
<1>7. f.ph = "loop" => At(d, "loop") \in NodesOf(f, d)
  BY DEF NodesOf, At, Brackets
<1>8. f.ph \in Brackets => At(d, "park") \in NodesOf(f, d)
  BY DEF NodesOf, At, Brackets
<1>9. \A n \in NodesOf(f, d) : NodeEnvs(n) \ {NoEnv} \subseteq Reached
  BY <1>2, ReachedHolds
<1>10. f.kept # NoEnv => f.kept \in Reached
  BY <1>3, <1>5, <1>9
<1>11. f.ph \in {"opbody", "apbody"} /\ f.saved # NoEnv => f.saved \in Reached
  BY <1>3, <1>6, <1>9
<1>12. f.ph = "loop" /\ f.saved # NoEnv => f.saved \in Reached
  BY <1>3, <1>7, <1>9
<1>13. f.ph \in Brackets =>
          (f.saved # NoEnv => f.saved \in Reached) /\ Range(f.stk) \subseteq Reached
  BY <1>1, <1>3, <1>4, <1>8, <1>9
<1> QED
  BY <1>10, <1>11, <1>12, <1>13 DEF f

LEMMA Popped ==
    ASSUME NEW ss \in Seq(Env), NEW C, Range(ss) \subseteq C, NEW n \in Nat, Len(ss) = n + 1
    PROVE  /\ Head(ss) \in C /\ Tail(ss) \in Seq(Env) /\ Range(Tail(ss)) \subseteq C
           /\ Len(Tail(ss)) = n
<1>1. ss # <<>> /\ DOMAIN ss = 1..n+1
  BY LenProperties, EmptySeq
<1>2. /\ Head(ss) = ss[1] /\ Tail(ss) \in Seq(Env) /\ Len(Tail(ss)) = Len(ss) - 1
      /\ \A i \in 1..Len(Tail(ss)) : Tail(ss)[i] = ss[i+1]
  BY <1>1, HeadTailProperties
<1>3. DOMAIN Tail(ss) = 1..n /\ Len(Tail(ss)) = n
  BY <1>2, LenProperties
<1>4. 1 \in 1..n+1 /\ \A i \in 1..n : i + 1 \in 1..n+1
  OBVIOUS
<1> QED
  BY <1>1, <1>2, <1>3, <1>4 DEF Range

(* The environment and the save-stack every activation sees are reached: by  *)
(* the registers, or by what the activations above it keep to restore.       *)
Reaches(s, n) ==
    /\ s.env \in Reached
    /\ s.stk \in Seq(Env) /\ Range(s.stk) \subseteq Reached /\ Len(s.stk) = n

LEMMA SeenReached ==
    ASSUME Inv, Promises, Tidy
    PROVE  \A d \in 1..depth+1 :
              Reaches(Seen(parent, frames, depth, Now, tcoEnv)[d], Pushes(frames, d-1))
<1> DEFINE A == Seen(parent, frames, depth, Now, tcoEnv)
           T == {j \in Nat : j <= depth /\ ~Reaches(A[depth+1-j], Pushes(frames, depth-j))}
<1>1. /\ depth \in Nat /\ depth \in 0..MaxDepth /\ MaxDepth \in Nat /\ frames \in Frames
      /\ env \in Env /\ saveStack \in Seq(Env) /\ Len(saveStack) = Pushes(frames, depth)
      /\ NoEnv \notin Env
  BY EnvAssumption DEF Inv, Stacked, InStep, Values
<1>2. A[depth+1] = Now
  BY <1>1, SeenTop
<1>3. \A d \in 1..MaxDepth+1 : A[d] = SeenStep(parent, frames, depth, Now, tcoEnv, A, d)
  BY <1>1, SeenIs
<1>4. \A d \in 1..depth : AnswersAt(A, frames[d], d)
  BY DEF Promises, Answers
<1> HIDE DEF A
<1>5. ASSUME NEW d \in 1..depth, Reaches(A[d+1], Pushes(frames, d))
      PROVE  Reaches(A[d], Pushes(frames, d-1))
  <2> DEFINE f == frames[d]
             s == A[d+1]
             n == Pushes(frames, d-1)
             p == Given(d, depth, tcoEnv)
  <2>1. d \in Slots /\ d \in 1..MaxDepth+1 /\ ~(d > depth) /\ f \in Frame
    BY <1>1 DEF Slots, Frames
  <2>2. A[d] = Leaves(parent, f, s, p)
    BY <1>3, <2>1 DEF SeenStep
  <2>3. /\ n \in Nat
        /\ Pushes(frames, d) = IF f.ph \in Brackets THEN 0
                               ELSE IF f.ph \in Pushers THEN n + 1 ELSE n
    BY <1>1, <2>1, Layers
  <2>4. f.ph \in Brackets => Len(f.stk) = n
    BY DEF Inv, Stacked, InStep, KeepsAt, Keeps
  <2>5. f.ph \in Scoped => f.saved \in Env /\ (f.ph = "handling" => parent[f.saved] \in Env)
    BY <2>1 DEF Inv, Stacked, ScopeKept
  <2>6. f.ph # "applied"
    BY <2>1 DEF Tidy, Tidied
  <2>7. f.ph = "handling" => s.env = f.saved
    BY <1>4, AnswerSeen
  <2>8. p # NoEnv => p \in Reached
    BY ReachedHolds DEF Given
  <2>9. /\ f.kept # NoEnv => f.kept \in Reached
        /\ f.ph \in {"opbody", "apbody", "loop"} \cup Brackets /\ f.saved # NoEnv =>
              f.saved \in Reached
        /\ f.ph \in Brackets => Range(f.stk) \subseteq Reached
    BY FrameRooted
  <2>10. f.stk \in Seq(Env)
    BY <2>1 DEF Frame
  <2>11. Reaches(s, Pushes(frames, d))
    BY <1>5
  <2> HIDE DEF f, s, n, p
  <2>12. f.ph \in Pushers => /\ Head(s.stk) \in Reached /\ Tail(s.stk) \in Seq(Env)
                             /\ Range(Tail(s.stk)) \subseteq Reached /\ Len(Tail(s.stk)) = n
    <3> SUFFICES ASSUME f.ph \in Pushers
                 PROVE  /\ Head(s.stk) \in Reached /\ Tail(s.stk) \in Seq(Env)
                        /\ Range(Tail(s.stk)) \subseteq Reached /\ Len(Tail(s.stk)) = n
      OBVIOUS
    <3>1. f.ph \notin Brackets
      BY DEF Pushers, Brackets
    <3>2. s.stk \in Seq(Env) /\ Range(s.stk) \subseteq Reached /\ Len(s.stk) = n + 1
      BY <2>3, <2>11, <3>1 DEF Reaches
    <3> QED
      BY <2>3, <3>2, Popped
  <2>13. A[d].env \in Reached
    <3>1. f.ph = "handling" => parent[f.saved] \in Reached
      <4>1. f.ph = "handling" => f.saved \in Reached /\ parent[f.saved] \in Env
        BY <2>5, <2>7, <2>11 DEF Reaches, Scoped
      <4> QED
        BY <1>1, <4>1, ReachedHolds
    <3>2. f.ph \in {"opbody", "apbody"} \cup Brackets => f.saved \in Reached
      BY <1>1, <2>5, <2>9 DEF Scoped
    <3>3. CASE f.kept # NoEnv
      BY <2>2, <2>9, <3>3 DEF Leaves
    <3>4. CASE f.kept = NoEnv /\ p # NoEnv
      BY <2>2, <2>8, <3>4 DEF Leaves
    <3>5. CASE f.kept = NoEnv /\ p = NoEnv
      <4>1. CASE f.ph \in Pushers
        BY <2>2, <2>12, <3>5, <4>1 DEF Leaves, Pushers
      <4>2. CASE f.ph \in {"opbody", "apbody"} \cup Brackets
        BY <2>2, <3>2, <3>5, <4>2 DEF Leaves, Brackets
      <4>3. CASE f.ph = "handling"
        BY <2>2, <3>1, <3>5, <4>3 DEF Leaves
      <4>4. CASE f.ph = "loop" /\ f.saved # NoEnv
        BY <2>2, <2>9, <3>5, <4>4 DEF Leaves
      <4>5. CASE /\ f.ph \notin Pushers \cup {"opbody", "apbody", "handling"} \cup Brackets
                 /\ ~(f.ph = "loop" /\ f.saved # NoEnv)
        <5>1. A[d].env = s.env
          BY <2>2, <2>6, <3>5, <4>5 DEF Leaves, Pushers, Brackets
        <5> QED
          BY <2>11, <5>1 DEF Reaches
      <4> QED
        BY <4>1, <4>2, <4>3, <4>4, <4>5
    <3> QED
      BY <3>3, <3>4, <3>5
  <2>14. A[d].stk \in Seq(Env) /\ Range(A[d].stk) \subseteq Reached /\ Len(A[d].stk) = n
    <3>1. CASE f.ph \in Pushers
      <4>1. A[d].stk = Tail(s.stk)
        BY <2>2, <3>1 DEF Leaves, Pushers
      <4> QED
        BY <2>12, <3>1, <4>1
    <3>2. CASE f.ph \in Brackets
      <4>1. A[d].stk = f.stk
        BY <2>2, <3>2 DEF Leaves, Brackets
      <4> QED
        BY <2>4, <2>9, <2>10, <3>2, <4>1
    <3>3. CASE f.ph \notin Pushers \cup Brackets
      <4>1. A[d].stk = s.stk
        BY <2>2, <3>3 DEF Leaves, Pushers, Brackets
      <4> QED
        BY <2>3, <2>11, <3>3, <4>1 DEF Reaches
    <3> QED
      BY <3>1, <3>2, <3>3
  <2> QED
    BY <2>13, <2>14 DEF Reaches, n
<1>6. T = {}
  <2> SUFFICES ASSUME T # {} PROVE FALSE
    OBVIOUS
  <2>1. PICK j \in T : \A i \in T : j <= i
    BY Least
  <2>2. j \in Nat /\ j <= depth /\ ~Reaches(A[depth+1-j], Pushes(frames, depth-j))
    BY <2>1
  <2>3. j # 0
    <3>1. Reaches(Now, Pushes(frames, depth))
      BY <1>1, ReachedHolds DEF Reaches, Now
    <3>2. depth + 1 - 0 = depth + 1 /\ depth - 0 = depth
      BY <1>1
    <3> QED
      BY <1>2, <2>2, <3>1, <3>2
  <2> DEFINE d == depth + 1 - j
  <2>4. /\ j - 1 \in Nat /\ j - 1 <= depth /\ ~(j <= j - 1) /\ d \in 1..depth
        /\ depth + 1 - (j - 1) = d + 1 /\ depth - (j - 1) = d /\ depth - j = d - 1
    BY <1>1, <2>2, <2>3
  <2>5. j - 1 \notin T
    <3> HIDE DEF T, d
    <3> QED
      BY <2>1, <2>4
  <2>6. ~Reaches(A[d], Pushes(frames, d-1))
    BY <2>2, <2>4
  <2> HIDE DEF d
  <2>7. Reaches(A[d+1], Pushes(frames, d))
    BY <2>4, <2>5
  <2> QED
    BY <1>5, <2>4, <2>6, <2>7
<1>7. ASSUME NEW d \in 1..depth+1 PROVE Reaches(A[d], Pushes(frames, d-1))
  <2>1. depth + 1 - d \in Nat /\ depth + 1 - d <= depth
        /\ depth + 1 - (depth + 1 - d) = d /\ depth - (depth + 1 - d) = d - 1
    BY <1>1
  <2>2. depth + 1 - d \notin T
    BY <1>6
  <2> QED
    BY <2>1, <2>2
<1> QED
  BY <1>7 DEF A

(* Hence whatever a frame holds is reached.                                  *)
LEMMA TidyRooted ==
    ASSUME Inv, Promises, Tidy
    PROVE  Closure(LocalsOf(frames)) \subseteq Reached
<1>1. /\ frames \in Frames /\ parent \in [Env -> EnvOrNil] /\ depth \in Nat
      /\ depth <= MaxDepth /\ NoEnv \notin Env /\ MaxDepth \in Nat
  BY EnvAssumption DEF Inv, Stacked, Values
<1> DEFINE A == Seen(parent, frames, depth, Now, tcoEnv)
<1>2. \A d \in 1..depth : AnswersAt(A, frames[d], d) /\ Reaches(A[d+1], Pushes(frames, d))
  <2>1. \A d \in 1..depth : d + 1 \in 1..depth+1 /\ (d + 1) - 1 = d
    BY <1>1
  <2>2. \A d \in 1..depth+1 : Reaches(A[d], Pushes(frames, d-1))
    BY SeenReached
  <2>3. \A d \in 1..depth : AnswersAt(A, frames[d], d)
    BY DEF Promises, Answers
  <2> HIDE DEF A
  <2>4. ASSUME NEW d \in 1..depth PROVE Reaches(A[d+1], Pushes(frames, d))
    <3>1. Reaches(A[d+1], Pushes(frames, (d+1)-1))
      BY <2>1, <2>2
    <3> QED
      BY <2>1, <3>1
  <2> QED
    BY <2>3, <2>4
<1> HIDE DEF A
<1>3. ASSUME NEW d \in Slots
      PROVE  ({frames[d].kept, frames[d].saved} \cup Range(frames[d].stk)) \ {NoEnv} \subseteq Reached
  <2> DEFINE f == frames[d]
  <2>1. Range(<<>>) = {}
    BY DEF Range
  <2>2. CASE d > depth
    <3>1. f.kept = NoEnv /\ f.saved = NoEnv /\ f.stk = <<>>
      BY <2>2 DEF Tidy, Idle
    <3> HIDE DEF f
    <3>2. ({f.kept, f.saved} \cup Range(f.stk)) \ {NoEnv} = {}
      BY <2>1, <3>1
    <3> QED
      BY <3>2 DEF f
  <2>3. CASE ~(d > depth)
    <3>1. d \in 1..depth
      BY <1>1, <2>3 DEF Slots
    <3>2. /\ f.kept # NoEnv => f.kept \in Reached
          /\ f.ph \in {"opbody", "apbody", "loop"} \cup Brackets /\ f.saved # NoEnv =>
                f.saved \in Reached
          /\ f.ph \in Brackets => Range(f.stk) \subseteq Reached
      BY <3>1, FrameRooted
    <3>3. Tidied(f)
      BY DEF Tidy
    <3> DEFINE s == A[d+1]
    <3>4. AnswersAt(A, f, d) /\ Reaches(s, Pushes(frames, d))
      BY <1>2, <3>1
    <3>5. f.ph = "handling" => s.env = f.saved /\ s.stk = f.stk
      BY <3>4, AnswerSeen
    <3>6. f.ph = "guarded" => s.stk = f.stk
      BY <3>4, AnswerSeen
    <3> HIDE DEF f, s
    <3>7. f.saved # NoEnv => f.saved \in Reached
      BY <3>2, <3>3, <3>4, <3>5 DEF Tidied, Scoped, Reaches
    <3>8. Range(f.stk) \subseteq Reached
      <4>1. CASE f.ph \in {"guarded", "handling"}
        BY <3>4, <3>5, <3>6, <4>1 DEF Reaches
      <4>2. CASE f.ph \in Brackets
        BY <3>2, <4>2
      <4>3. CASE f.ph \notin {"guarded", "handling"} \cup Brackets
        <5>1. f.stk = <<>>
          BY <3>3, <4>3 DEF Tidied
        <5> QED
          BY <2>1, <5>1
      <4> QED
        BY <4>1, <4>2, <4>3
    <3>9. ({f.kept, f.saved} \cup Range(f.stk)) \ {NoEnv} \subseteq Reached
      BY <3>2, <3>7, <3>8
    <3> QED
      BY <3>9 DEF f
  <2> QED
    BY <2>2, <2>3
<1>4. LocalsOf(frames) \ {NoEnv} \subseteq Reached
  BY <1>3 DEF LocalsOf
<1>5. LocalsOf(frames) \in SUBSET EnvOrNil
  BY <1>1, StackEnvs
<1> QED
  BY <1>1, <1>4, <1>5, ReachedHolds, ClosureLeast

(* The running activation's frame changes.                                   *)
LEMMA TopTidied ==
    ASSUME Tidy, frames \in Frames, NEW g, Tidied(g),
           frames' = [frames EXCEPT ![depth] = g],
           UNCHANGED <<depth, cont>>, swept' \subseteq swept
    PROVE  Tidy'
<1>1. ASSUME NEW d \in Slots
      PROVE  Tidied(frames'[d]) /\ (d > depth' => frames'[d] = Idle)
  <2>1. Tidied(frames[d]) /\ (d > depth => frames[d] = Idle)
    BY DEF Tidy
  <2>2. CASE d = depth
    <3>1. frames'[d] = g /\ ~(d > depth')
      BY <2>2, EnvAssumption DEF Frames, Slots
    <3> QED
      BY <3>1
  <2>3. CASE d # depth
    <3>1. frames'[d] = frames[d]
      BY <2>3 DEF Frames
    <3> QED
      BY <2>1, <3>1
  <2> QED
    BY <2>2, <2>3
<1> QED
  BY <1>1 DEF Tidy

(* It calls, or answers, or unwinds: frames above the new top are gone.      *)
LEMMA NewTopTidied ==
    ASSUME Tidy, \A d \in Slots : Tidied(frames'[d]) /\ (d > depth' => frames'[d] = Idle),
           UNCHANGED cont, swept' \subseteq swept
    PROVE  Tidy'
BY DEF Tidy

LEMMA IdleTidied ==
    ASSUME NEW ph \in {"idle", "start", "back"}, NEW t, NEW k
    PROVE  Tidied([Idle EXCEPT !.ph = ph, !.tramp = t, !.kept = k])
           /\ Tidied([Idle EXCEPT !.ph = ph]) /\ Tidied(Idle)
BY DEF Tidied, Idle, Scoped, Brackets

(* A form answers; a collection finds nothing that a frame alone holds.      *)
LEMMA AnsweringTidies ==
    ASSUME Inv, Promises, Tidy, Answering
    PROVE  Tidy'
<1>1. /\ UNCHANGED <<depth, cont>> /\ frames \in Frames
      /\ frames' = [frames EXCEPT ![depth] =
                       [Idle EXCEPT !.ph = "back", !.tramp = Me.tramp, !.kept = Me.kept]]
  BY DEF Answering, Data, BodyTail, BodyNilTail, OpTail, OpNilTail, Applied, LoopDone,
         DeferPlain, TailEval, EvalInDone, LeaveTop, GuardDone, HandlingDone, Collect,
         Answer, heap, Inv, Stacked
<1>2. swept' \subseteq swept
  <2>1. CASE Collect
    <3>1. Locals = Closure(LocalsOf(frames))
      BY DEF Tidy, Locals
    <3>2. Locals \ Reached = {}
      BY <3>1, TidyRooted
    <3> QED
      BY <2>1, <3>2 DEF Collect
  <2>2. CASE ~Collect
    BY <2>2 DEF Answering, Data, BodyTail, BodyNilTail, OpTail, OpNilTail, Applied, LoopDone,
         DeferPlain, TailEval, EvalInDone, LeaveTop, GuardDone, HandlingDone, heap
  <2> QED
    BY <2>1, <2>2
<1> QED
  BY <1>1, <1>2, IdleTidied, TopTidied

(* A form is entered.                                                        *)
LEMMA EnteringTidies ==
    ASSUME Inv, Tidy, Sheltered, Entering
    PROVE  Tidy'
<1>1. ~ApplyProcedure /\ ~ApplyOperative /\ ~CallCC
  BY DEF Sheltered, ApplyProcedure, ApplyOperative, CallCC, Form
<1>2. In("list")
  BY DEF Entering, Procedure, Operative, Sequence, ApplyProcedure, ApplyOperative, EvalTop,
         Load, Guard, CallCC, Form
<1>3. /\ depth \in Slots /\ frames \in Frames /\ Me = frames[depth] /\ Me \in Frame
      /\ Me.ph = "list" /\ Tidied(Me)
  BY <1>2, Running DEF Inv, Stacked, Me, Tidy
<1>4. Me.saved = NoEnv /\ Me.stk = <<>>
  BY <1>3 DEF Tidied, Scoped, Brackets
<1>5. UNCHANGED <<depth, cont>> /\ swept' \subseteq swept
  BY <1>1 DEF Entering, Procedure, Operative, EnterOperative, Sequence, EvalTop, Load,
              EnterTop, Guard, NewEnv, heap
<1>6. CASE Procedure
  <2> DEFINE g == [Me EXCEPT !.ph = "body"]
  <2>1. frames' = [frames EXCEPT ![depth] = g]
    BY <1>6 DEF Procedure, Become, Me
  <2>2. Tidied(g)
    BY <1>3, <1>4 DEF Tidied, Scoped, Brackets, Frame
  <2> QED
    BY <1>3, <1>5, <2>1, <2>2, TopTidied
<1>7. CASE Operative \/ Sequence
  <2> DEFINE g == [Me EXCEPT !.ph = "opbody", !.saved = env]
  <2>1. frames' = [frames EXCEPT ![depth] = g]
    BY <1>7 DEF Operative, EnterOperative, Sequence, Me
  <2>2. Tidied(g)
    BY <1>3, <1>4 DEF Tidied, Scoped, Brackets, Frame
  <2> QED
    BY <1>3, <1>5, <2>1, <2>2, TopTidied
<1>8. ASSUME NEW ph \in {"top", "load"}, EnterTop(ph) PROVE Tidy'
  <2> DEFINE g == [Me EXCEPT !.ph = ph, !.saved = env, !.stk = saveStack]
  <2>1. frames' = [frames EXCEPT ![depth] = g]
    BY <1>8 DEF EnterTop, Me
  <2>2. Tidied(g)
    BY <1>3 DEF Tidied, Scoped, Brackets, Frame
  <2> QED
    BY <1>3, <1>5, <2>1, <2>2, TopTidied
<1>9. CASE Guard
  <2> DEFINE g == [Me EXCEPT !.ph = "guarded", !.stk = saveStack, !.prev = handler,
                             !.roots = chain]
  <2>1. frames' = [frames EXCEPT ![depth] = g]
    BY <1>9 DEF Guard, Me
  <2>2. Tidied(g)
    BY <1>3, <1>4 DEF Tidied, Scoped, Brackets, Frame
  <2> QED
    BY <1>3, <1>5, <2>1, <2>2, TopTidied
<1> QED
  BY <1>1, <1>6, <1>7, <1>8, <1>9 DEF Entering, EvalTop, Load

(* An activation moves on by itself.                                         *)
LEMMA PassTidies ==
    ASSUME Inv, Tidy, Sheltered,
           Atom \/ Combine \/ Trampoline \/ ApBodyTail \/ ApBodyNilTail \/ EvalIn
    PROVE  Tidy'
<1>1. UNCHANGED <<depth, cont, swept>> /\ frames \in Frames
  BY DEF Atom, Combine, Trampoline, ApBodyTail, ApBodyNilTail, EvalIn, heap, Inv, Stacked
<1>2. ASSUME NEW ph, In(ph)
      PROVE  Me = frames[depth] /\ Me \in Frame /\ Me.ph = ph /\ Tidied(Me)
  BY <1>2, Running DEF Me, Tidy
<1>3. ASSUME NEW old \in {"start", "list"}, In(old), NEW ph \in {"back", "list", "evalin"},
             Become(ph)
      PROVE  Tidy'
  <2> DEFINE g == [Me EXCEPT !.ph = ph]
  <2>1. frames' = [frames EXCEPT ![depth] = g]
    BY <1>3 DEF Become, Me
  <2>2. Me.saved = NoEnv /\ Me.stk = <<>> /\ Me \in Frame
    BY <1>2, <1>3 DEF Tidied, Scoped, Brackets
  <2>3. Tidied(g)
    BY <2>2 DEF Tidied, Scoped, Brackets, Frame
  <2> QED
    BY <1>1, <2>1, <2>3, TopTidied
<1>4. CASE Trampoline
  <2> DEFINE g == [Me EXCEPT !.ph = "start", !.tramp = TRUE, !.kept = Keep(Me.kept)]
  <2>1. In("back") /\ frames' = [frames EXCEPT ![depth] = g]
    BY <1>4 DEF Trampoline
  <2>2. Me.saved = NoEnv /\ Me.stk = <<>> /\ Me \in Frame
    BY <1>2, <2>1 DEF Tidied, Scoped, Brackets
  <2>3. Tidied(g)
    BY <2>2 DEF Tidied, Scoped, Brackets, Frame
  <2> QED
    BY <1>1, <2>1, <2>3, TopTidied
<1>5. CASE ApBodyTail \/ ApBodyNilTail
  <2> DEFINE g == [Me EXCEPT !.ph = "loop", !.saved = NoEnv]
  <2>1. In("apbody") /\ frames' = [frames EXCEPT ![depth] = g]
    BY <1>5 DEF ApBodyTail, ApBodyNilTail, EnterLoop, Me
  <2>2. Me.stk = <<>> /\ Me \in Frame
    BY <1>2, <2>1 DEF Tidied, Brackets
  <2>3. Tidied(g)
    BY <2>2 DEF Tidied, Scoped, Brackets, Frame
  <2> QED
    BY <1>1, <2>1, <2>3, TopTidied
<1> QED
  BY <1>3, <1>4, <1>5 DEF Atom, Combine, EvalIn, Form

(* x_eval is entered.                                                        *)
LEMMA CallTidies ==
    ASSUME Inv, Tidy, Call \/ LoopPass
    PROVE  Tidy'
<1>1. /\ UNCHANGED <<cont, swept>> /\ frames \in Frames /\ depth \in Nat /\ depth' = depth + 1
  BY EnvAssumption DEF Call, LoopPass, heap, Inv, Stacked
<1>2. \A d \in Slots : Tidied(frames[d]) /\ (d > depth => frames[d] = Idle)
  BY DEF Tidy
<1>3. CASE Call
  <2>1. frames' = [frames EXCEPT ![depth + 1] = [Idle EXCEPT !.ph = "start"]]
    BY <1>3 DEF Call
  <2>2. ASSUME NEW d \in Slots
        PROVE  Tidied(frames'[d]) /\ (d > depth' => frames'[d] = Idle)
    <3>1. CASE d = depth + 1
      <4>1. frames'[d] = [Idle EXCEPT !.ph = "start"] /\ ~(d > depth')
        BY <1>1, <2>1, <3>1 DEF Frames
      <4> QED
        BY <4>1, IdleTidied
    <3>2. CASE d # depth + 1
      <4>1. frames'[d] = frames[d] /\ (d > depth' => d > depth)
        BY <1>1, <2>1, <3>2 DEF Frames, Slots
      <4> QED
        BY <1>2, <4>1
    <3> QED
      BY <3>1, <3>2
  <2> QED
    BY <1>1, <2>2, NewTopTidied
<1>4. CASE LoopPass
  <2> DEFINE k == Keep(Me.saved)
             g == [Me EXCEPT !.saved = k]
  <2>1. /\ In("loop") /\ depth \in Slots /\ Me \in Frame /\ Me.ph = "loop" /\ Tidied(Me)
        /\ Me = frames[depth]
        /\ frames' = [frames EXCEPT ![depth].saved = Keep(@),
                                    ![depth + 1] = [Idle EXCEPT !.ph = "start"]]
    BY <1>4, Running DEF LoopPass, Me, Tidy
  <2>2. Tidied(g)
    BY <2>1 DEF Tidied, Frame
  <2>3. ASSUME NEW d \in Slots
        PROVE  Tidied(frames'[d]) /\ (d > depth' => frames'[d] = Idle)
    <3>1. CASE d = depth + 1
      <4>1. frames'[d] = [Idle EXCEPT !.ph = "start"] /\ ~(d > depth')
        BY <1>1, <2>1, <3>1 DEF Frames
      <4> QED
        BY <4>1, IdleTidied
    <3>2. CASE d = depth
      <4>1. frames'[d] = g /\ ~(d > depth')
        BY <1>1, <2>1, <3>2 DEF Frames
      <4> QED
        BY <2>2, <4>1
    <3>3. CASE d # depth /\ d # depth + 1
      <4>1. frames'[d] = frames[d] /\ (d > depth' => d > depth)
        BY <1>1, <2>1, <3>3 DEF Frames, Slots
      <4> QED
        BY <1>2, <4>1
    <3> QED
      BY <3>1, <3>2, <3>3
  <2> QED
    BY <1>1, <2>3, NewTopTidied
<1> QED
  BY <1>3, <1>4

(* x_eval answers.                                                           *)
LEMMA LeaveTidies ==
    ASSUME Inv, Tidy, SelfEvaluate \/ Return
    PROVE  Tidy'
<1>1. /\ UNCHANGED <<cont, swept>> /\ frames \in Frames /\ depth \in Nat
      /\ depth > 0 /\ depth' = depth - 1
      /\ frames' = [d \in Slots |->
                       CASE d = depth     -> Idle
                         [] d = depth - 1 -> [frames[d] EXCEPT !.ph = Resumed(@)]
                         [] OTHER         -> frames[d]]
  BY EnvAssumption DEF SelfEvaluate, Return, Leave, In, heap, Inv, Stacked
<1>2. \A d \in Slots : Tidied(frames[d]) /\ (d > depth => frames[d] = Idle)
  BY DEF Tidy
<1>3. ASSUME NEW d \in Slots
      PROVE  Tidied(frames'[d]) /\ (d > depth' => frames'[d] = Idle)
  <2>1. CASE d = depth
    <3>1. frames'[d] = Idle
      BY <1>1, <2>1
    <3> QED
      BY <3>1, IdleTidied
  <2>2. CASE d = depth - 1
    <3>1. frames'[d] = [frames[d] EXCEPT !.ph = Resumed(@)] /\ ~(d > depth')
      BY <1>1, <2>2
    <3>2. Tidied([frames[d] EXCEPT !.ph = Resumed(@)])
      BY <1>1, <1>2 DEF Tidied, Resumed, Scoped, Brackets, Frames, Frame
    <3> QED
      BY <3>1, <3>2
  <2>3. CASE d # depth /\ d # depth - 1
    <3>1. frames'[d] = frames[d] /\ (d > depth' => d > depth)
      BY <1>1, <2>3 DEF Slots
    <3> QED
      BY <1>2, <3>1
  <2> QED
    BY <2>1, <2>2, <2>3
<1> QED
  BY <1>1, <1>3, NewTopTidied

(* An error unwinds to the innermost guard.                                  *)
LEMMA RaiseTidies ==
    ASSUME Inv, Tidy, Raise
    PROVE  Tidy'
<1> DEFINE h == Head(handler)
           g == frames[h.at]
<1>1. PICK e \in Fresh :
        /\ NewEnv(e, h.env)
        /\ depth' = h.at
        /\ frames' = [d \in Slots |->
                        CASE d = h.at -> [g EXCEPT !.ph = "handling", !.saved = e]
                          [] d > h.at -> Idle
                          [] OTHER    -> frames[d]]
  BY DEF Raise
<1>2. h.at \in Slots /\ g \in Frame /\ UNCHANGED cont /\ swept' \subseteq swept
  <2>1. handler # <<>> /\ handler \in Seq(Handler) /\ frames \in Frames
    BY DEF Raise, Inv, Stacked
  <2>2. h \in Handler
    BY <2>1, HeadTailProperties
  <2> QED
    BY <1>1, <2>1, <2>2 DEF Raise, NewEnv, Handler, Frames
<1>3. \A d \in Slots : Tidied(frames[d])
  BY DEF Tidy
<1> HIDE DEF h, g
<1>4. Tidied([g EXCEPT !.ph = "handling", !.saved = e])
  BY <1>2 DEF Tidied, Scoped, Brackets, Frame
<1>5. ASSUME NEW d \in Slots
      PROVE  Tidied(frames'[d]) /\ (d > depth' => frames'[d] = Idle)
  <2>1. CASE d = h.at
    <3>1. frames'[d] = [g EXCEPT !.ph = "handling", !.saved = e] /\ ~(d > depth')
      BY <1>1, <2>1 DEF Slots
    <3> QED
      BY <1>4, <3>1
  <2>2. CASE d > h.at
    <3>1. frames'[d] = Idle
      BY <1>1, <1>2, <2>2 DEF Slots
    <3> QED
      BY <3>1, IdleTidied
  <2>3. CASE d # h.at /\ ~(d > h.at)
    <3>1. frames'[d] = frames[d] /\ ~(d > depth')
      BY <1>1, <2>3
    <3> QED
      BY <1>3, <3>1
  <2> QED
    BY <2>1, <2>2, <2>3
<1> QED
  BY <1>2, <1>5, NewTopTidied

LEMMA TidyKept ==
    ASSUME Inv, Promises, Tidy, Sheltered, [Next]_vars
    PROVE  Tidy'
<1>1. CASE UNCHANGED vars \/ Uncaught
  BY <1>1 DEF vars, Uncaught, heap, Tidy
<1>2. CASE Next
  <2>1. UNCHANGED program /\ Step
    BY <1>2 DEF Next
  <2>2. ~Invoke
    BY DEF Sheltered, Invoke, Form
  <2>3. CASE Answering
    BY <2>3, AnsweringTidies
  <2>4. CASE Entering
    BY <2>4, EnteringTidies
  <2>5. CASE Call \/ LoopPass
    BY <2>5, CallTidies
  <2>6. CASE SelfEvaluate \/ Return
    BY <2>6, LeaveTidies
  <2>7. CASE Atom \/ Combine \/ Trampoline \/ ApBodyTail \/ ApBodyNilTail \/ EvalIn
    BY <2>7, PassTidies
  <2>8. CASE Raise
    BY <2>8, RaiseTidies
  <2> QED
    BY <1>1, <2>1, <2>2, <2>3, <2>4, <2>5, <2>6, <2>7, <2>8 DEF Step, Answering, Entering
<1> QED
  BY <1>1, <1>2

(* With the promises, what the frames hold is an invariant of every program  *)
(* without apply and call/cc, and without the tails that x_eval leaves       *)
(* unrestored.                                                               *)
Orderly == (Simple => Promises) /\ (Sheltered => Tidy)

LEMMA OrderlyHolds ==
    Spec => []Orderly
<1>1. Init => Orderly
  <2>1. Init => Promises
    BY StartsWell
  <2>2. Init => Tidy
    BY IdleTidied DEF Init, Tidy
  <2> QED
    BY <2>1, <2>2 DEF Orderly
<1>2. Inv /\ Inv' /\ Orderly /\ [Next]_vars => Orderly'
  <2> SUFFICES ASSUME Inv, Inv', Orderly, [Next]_vars PROVE Orderly'
    OBVIOUS
  <2>1. program' = program
    BY DEF Next, vars
  <2>2. Sheltered' <=> Sheltered
    BY <2>1 DEF Sheltered
  <2>3. Sheltered => Simple
    BY DEF Sheltered, Simple
  <2>4. Simple' => Promises'
    BY PromisesKept DEF Orderly
  <2>5. Sheltered' => Tidy'
    BY <2>2, <2>3, TidyKept DEF Orderly
  <2> QED
    BY <2>4, <2>5 DEF Orderly
<1> QED
  BY <1>1, <1>2, InvHolds, PTL DEF Spec

(* Whatever x_eval, a body walker, a bracket, a guard or a handler body is   *)
(* going to use again, a collection at any point of the program reaches.     *)
THEOREM FramesAreRooted == Spec => []LocalsRooted
<1>1. Inv /\ Orderly => LocalsRooted
  <2>1. Sheltered => Simple
    BY DEF Sheltered, Simple
  <2> QED
    BY <2>1, TidyRooted DEF Orderly, LocalsRooted
<1> QED
  BY <1>1, InvHolds, OrderlyHolds, PTL

(* So no environment is ever freed that a frame, and through it a register,  *)
(* still has a use for.                                                      *)
THEOREM NothingIsSwept == Spec => [](Sheltered => NothingSwept)
<1>1. Orderly => (Sheltered => NothingSwept)
  BY DEF Orderly, Tidy, NothingSwept
<1> QED
  BY <1>1, OrderlyHolds, PTL
=============================================================================
