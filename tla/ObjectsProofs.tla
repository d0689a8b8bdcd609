---------------------------- MODULE ObjectsProofs ---------------------------
(* What the collector of typed objects does, for every number of objects and *)
(* whatever their types declare: as long as each traversal is begun over     *)
(* objects that are what their types say, it reads no more than there is,    *)
(* and a sweep leaves what is live or pinned and nothing else.               *)
EXTENDS Objects, FiniteSetTheorems, SequenceTheorems, NaturalsInduction, WellFoundedInduction, TLAPS

(* Induction on the naturals, by the least of a set of them.                 *)
LEMMA Least ==
    ASSUME NEW T, T \subseteq Nat, T # {}
    PROVE  \E x \in T : \A y \in T : x <= y
<1> DEFINE Less == {p \in Nat \X Nat : p[1] < p[2]}
<1>1. IsWellFoundedOn(OpToRel(<, Nat), Nat)
  BY NatLessThanWellFounded
<1>2. OpToRel(<, Nat) = Less
  BY DEF OpToRel
<1>3. \E x \in T : \A y \in T : <<y, x>> \notin Less
  <2> HIDE DEF Less
  <2> QED
    BY <1>1, <1>2, WFMin
<1>4. PICK x \in T : \A y \in T : <<y, x>> \notin Less
  BY <1>3
<1>5. ASSUME NEW y \in T PROVE x <= y
  <2>1. x \in Nat /\ y \in Nat
    OBVIOUS
  <2>2. y < x => <<y, x>> \in Less
    BY <2>1
  <2> QED
    BY <1>4, <2>1, <2>2
<1> QED
  BY <1>5

(* A recursion on 0..N whose steps are those of a function is well defined.  *)
Goes(g, s, f, N) == g[0] = s /\ \A k \in 1..N : g[k] = f[g[k-1]]

LEMMA Iterated ==
    ASSUME NEW D, NEW s \in D, NEW f \in [D -> D], NEW N \in Nat
    PROVE  \E g \in [0..N -> D] : Goes(g, s, f, N)
<1> DEFINE Ok(n, g) == g[0] = s /\ \A k \in 1..n : g[k] = f[g[k-1]]
           T == {n \in Nat : ~ \E g \in [0..n -> D] : Ok(n, g)}
<1>1. T = {}
  <2> SUFFICES ASSUME T # {} PROVE FALSE
    OBVIOUS
  <2>1. PICK n \in T : \A m \in T : n <= m
    BY Least
  <2>2. n # 0
    <3>1. [k \in 0..0 |-> s] \in [0..0 -> D] /\ Ok(0, [k \in 0..0 |-> s])
      OBVIOUS
    <3> QED
      BY <3>1
  <2>3. PICK g \in [0..n-1 -> D] : Ok(n - 1, g)
    <3>1. n - 1 \in Nat /\ ~(n <= n - 1)
      BY <2>2
    <3>2. n - 1 \notin T
      <4> HIDE DEF T
      <4> QED
        BY <2>1, <3>1
    <3> QED
      BY <3>1, <3>2
  <2> DEFINE h == [k \in 0..n |-> IF k = n THEN f[g[n-1]] ELSE g[k]]
  <2>4. h \in [0..n -> D]
    BY <2>2
  <2>5. Ok(n, h)
    <3>1. h[0] = s
      BY <2>2, <2>3
    <3>2. ASSUME NEW k \in 1..n PROVE h[k] = f[h[k-1]]
      <4>1. CASE k = n
        BY <4>1, <2>2
      <4>2. CASE k # n
        BY <4>2, <2>2, <2>3
      <4> QED
        BY <4>1, <4>2
    <3> QED
      BY <3>1, <3>2
  <2> QED
    BY <2>4, <2>5
<1> QED
  BY <1>1 DEF Goes

-----------------------------------------------------------------------------
(* What an object refers to, and what is reached from a set, in a heap os.   *)
Refs(os, o) == {w \in 1..Len(os) : w = o.of \/ \E i \in DOMAIN o.units : o.units[i] = w}
Reaches(os, S) ==
    LET Reached[n \in 0..Len(os)] ==
            IF n = 0 THEN S
            ELSE Reached[n - 1] \cup UNION {Refs(os, os[i]) : i \in Reached[n - 1]}
    IN Reached[Len(os)]

Widened(os, R) == R \cup UNION {Refs(os, os[i]) : i \in R}
Widens(os, S, g) ==
    g[0] = S /\ \A n \in 1..Len(os) : g[n] = Widened(os, g[n - 1])

LEMMA ReachSteps ==
    ASSUME NEW os, Len(os) \in Nat, NEW S \in SUBSET (1..Len(os))
    PROVE  \E g \in [0..Len(os) -> SUBSET (1..Len(os))] :
              Widens(os, S, g) /\ Reaches(os, S) = g[Len(os)]
<1> DEFINE N == Len(os)
           D == SUBSET (1..N)
           f == [R \in D |-> Widened(os, R)]
           Up(u) == [n \in 0..N |-> IF n = 0 THEN S
                                    ELSE u[n - 1] \cup UNION {Refs(os, os[i]) : i \in u[n - 1]}]
           u == CHOOSE v : v = Up(v)
<1>1. \A R \in D : Widened(os, R) \in D
  BY DEF Widened, Refs
<1>2. f \in [D -> D] /\ S \in D /\ N \in Nat
  BY <1>1
<1>3. PICK g \in [0..N -> D] : Goes(g, S, f, N)
  <2> HIDE DEF D, f, N
  <2> QED
    BY <1>2, Iterated
<1>4. g[0] = S /\ \A n \in 1..N : g[n - 1] \in D /\ g[n] = Widened(os, g[n - 1])
  <2>1. ASSUME NEW n \in 1..N PROVE g[n - 1] \in D /\ g[n] = Widened(os, g[n - 1])
    <3>1. n - 1 \in 0..N
      OBVIOUS
    <3>2. g[n - 1] \in D
      BY <3>1
    <3>3. g[n] = f[g[n - 1]]
      BY <1>3 DEF Goes
    <3> QED
      BY <3>2, <3>3
  <2> QED
    BY <1>3, <2>1 DEF Goes
<1>5. g = Up(g)
  <2>1. ASSUME NEW n \in 0..N, n # 0
        PROVE  g[n] = g[n - 1] \cup UNION {Refs(os, os[i]) : i \in g[n - 1]}
    <3>1. n \in 1..N
      BY <2>1
    <3> QED
      BY <1>4, <3>1 DEF Widened
  <2> HIDE DEF D, f
  <2> QED
    BY <1>4, <2>1
<1>6. u = Up(u)
  <2> HIDE DEF Up
  <2> QED
    BY <1>5
<1>7. Reaches(os, S) = u[N]
  BY DEF Reaches
<1>8. \A n \in 0..N : u[n] = IF n = 0 THEN S ELSE u[n - 1] \cup UNION {Refs(os, os[i]) : i \in u[n - 1]}
  <2> HIDE DEF u
  <2> QED
    BY <1>6
<1> DEFINE T == {n \in 0..N : u[n] # g[n]}
<1>9. T = {}
  <2> SUFFICES ASSUME T # {} PROVE FALSE
    OBVIOUS
  <2>1. PICK n \in T : \A m \in T : n <= m
    <3>1. T \subseteq Nat
      OBVIOUS
    <3> HIDE DEF T
    <3> QED
      BY <3>1, Least
  <2>2. n \in 0..N /\ u[n] # g[n]
    BY <2>1
  <2> HIDE DEF u, f, D
  <2>3. n # 0
    BY <1>4, <1>8, <2>2
  <2>4. n \in 1..N /\ n - 1 \in 0..N /\ ~(n <= n - 1)
    BY <2>2, <2>3
  <2>5. u[n - 1] = g[n - 1]
    BY <2>1, <2>4
  <2> QED
    BY <1>4, <1>8, <2>2, <2>3, <2>4, <2>5 DEF Widened
<1>10. u[N] = g[N]
  BY <1>9
<1> QED
  <2> HIDE DEF u, f
  <2> QED
    BY <1>3, <1>4, <1>7, <1>10 DEF Widens

(* What is closed and has the roots has all that is reached.                 *)
Closed(os, X) == \A i \in X : Refs(os, os[i]) \subseteq X

LEMMA ReachWithin ==
    ASSUME NEW os, Len(os) \in Nat, NEW S \in SUBSET (1..Len(os)), NEW X, S \subseteq X, Closed(os, X)
    PROVE  Reaches(os, S) \subseteq X
<1>1. PICK g \in [0..Len(os) -> SUBSET (1..Len(os))] :
         Widens(os, S, g) /\ Reaches(os, S) = g[Len(os)]
  BY ReachSteps
<1> DEFINE T == {n \in 0..Len(os) : ~(g[n] \subseteq X)}
<1>2. T = {}
  <2> SUFFICES ASSUME T # {} PROVE FALSE
    OBVIOUS
  <2>1. PICK n \in T : \A m \in T : n <= m
    <3>1. T \subseteq Nat
      OBVIOUS
    <3> HIDE DEF T
    <3> QED
      BY <3>1, Least
  <2>2. n \in 0..Len(os) /\ ~(g[n] \subseteq X)
    BY <2>1
  <2>3. n # 0
    BY <1>1, <2>2 DEF Widens
  <2>4. n \in 1..Len(os) /\ n - 1 \in 0..Len(os) /\ ~(n <= n - 1)
    BY <2>2, <2>3
  <2>5. g[n - 1] \subseteq X
    BY <2>1, <2>4
  <2>6. g[n] = Widened(os, g[n - 1])
    BY <1>1, <2>4 DEF Widens
  <2> QED
    BY <2>2, <2>5, <2>6 DEF Widened, Closed
<1> QED
  BY <1>1, <1>2

(* It is closed itself: a chain of sets that grow has no room to grow for    *)
(* as many steps as there are objects.                                       *)
LEMMA ReachCovers ==
    ASSUME NEW os, Len(os) \in Nat, NEW S \in SUBSET (1..Len(os))
    PROVE  /\ S \subseteq Reaches(os, S) /\ Reaches(os, S) \subseteq 1..Len(os)
           /\ Closed(os, Reaches(os, S))
<1> DEFINE N == Len(os)
           D == SUBSET (1..N)
<1>1. PICK g \in [0..N -> D] : Widens(os, S, g) /\ Reaches(os, S) = g[N]
  BY ReachSteps
<1>2. g[0] = S /\ \A n \in 1..N : g[n] = Widened(os, g[n - 1])
  BY <1>1 DEF Widens
<1>3. \A R : R \subseteq Widened(os, R)
  BY DEF Widened
<1>4. N \in 0..N /\ 0 \in 0..N /\ \A n \in 1..N : n \in 0..N /\ n - 1 \in 0..N
  OBVIOUS
<1>5. \A n \in 0..N : g[n] \in D
  BY <1>1
<1>6. IsFiniteSet(1..N) /\ Cardinality(1..N) = N
  <2>1. N \in Nat
    OBVIOUS
  <2> HIDE DEF N
  <2>2. IsFiniteSet(1..N) /\ Cardinality(1..N) = IF 1 > N THEN 0 ELSE N - 1 + 1
    BY ONLY <2>1, FS_Interval
  <2> QED
    BY ONLY <2>1, <2>2
<1>7. \A n \in 0..N : IsFiniteSet(g[n]) /\ Cardinality(g[n]) \in Nat /\ Cardinality(g[n]) <= N
  <2> TAKE n \in 0..N
  <2>1. g[n] \in SUBSET (1..N)
    BY <1>5
  <2>2. IsFiniteSet(g[n]) /\ Cardinality(g[n]) <= N
    BY <1>6, <2>1, FS_Subset
  <2> QED
    BY <2>2, FS_CardinalityType
<1> HIDE DEF N, D
\* Once it does not grow it is closed, and stays.
<1>8. ASSUME NEW n \in 1..N, g[n] = g[n - 1] PROVE Closed(os, g[n - 1])
  <2>1. Widened(os, g[n - 1]) = g[n - 1]
    BY <1>2, <1>8
  <2> QED
    BY <2>1 DEF Widened, Closed
<1>9. ASSUME NEW R, Closed(os, R) PROVE Widened(os, R) = R
  BY <1>9 DEF Closed, Widened
<1> DEFINE Stuck == \E m \in 0..N : Closed(os, g[m])
           Grown(n) == S \subseteq g[n] /\ (Closed(os, g[n]) \/ Cardinality(g[n]) > n \/ g[n] = {})
           T == {n \in 0..N : ~Grown(n)}
<1>10. T = {}
  <2> SUFFICES ASSUME T # {} PROVE FALSE
    OBVIOUS
  <2>1. PICK n \in T : \A m \in T : n <= m
    <3>1. T \subseteq Nat
      BY DEF N
    <3> HIDE DEF T
    <3> QED
      BY <3>1, Least
  <2>2. n \in 0..N /\ ~Grown(n)
    BY <2>1
  <2>3. CASE n = 0
    <3>1. S = {} \/ Cardinality(S) # 0
      BY <1>2, <1>4, <1>7, FS_EmptySet
    <3>2. Cardinality(S) \in Nat
      BY <1>2, <1>4, <1>7
    <3>3. g[n] = S
      BY <1>2, <2>3
    <3>4. S = {} \/ Cardinality(S) > 0
      BY <3>1, <3>2
    <3>5. Grown(n)
      BY <2>3, <3>3, <3>4
    <3> QED
      BY <2>2, <3>5
  <2>4. CASE n # 0
    <3>1. n \in 1..N /\ n - 1 \in 0..N /\ ~(n <= n - 1)
      BY <2>2, <2>4 DEF N
    <3>2. Grown(n - 1)
      <4>1. n - 1 \notin T
        <5> HIDE DEF T
        <5> QED
          BY <2>1, <3>1
      <4> QED
        BY <3>1, <4>1
    <3>3. g[n] = Widened(os, g[n - 1]) /\ g[n - 1] \subseteq g[n]
      BY <1>2, <1>3, <3>1
    <3>4. CASE g[n] = g[n - 1]
      <4>1. Closed(os, g[n])
        BY <1>8, <3>1, <3>4
      <4> QED
        BY <2>2, <3>2, <3>4, <4>1
    <3>5. CASE g[n] # g[n - 1]
      <4>1. ~Closed(os, g[n - 1]) 
        BY <1>9, <3>3, <3>5
      <4>2. g[n - 1] # {}
        BY <4>1 DEF Closed
      <4>3. Cardinality(g[n - 1]) > n - 1
        BY <3>2, <4>1, <4>2
      <4>4. g[n - 1] \in SUBSET g[n] /\ IsFiniteSet(g[n])
        BY <1>7, <3>1, <3>3
      <4>5. Cardinality(g[n - 1]) <= Cardinality(g[n]) /\ Cardinality(g[n - 1]) # Cardinality(g[n])
        BY <3>5, <4>4, FS_Subset
      <4>6. Cardinality(g[n]) \in Nat /\ Cardinality(g[n - 1]) \in Nat /\ n \in Nat
        <5>1. \A m \in 0..N : m \in Nat
          BY DEF N
        <5> QED
          BY <1>7, <2>2, <3>1, <5>1
      <4>7. Cardinality(g[n]) > n
        BY <4>3, <4>5, <4>6
      <4> QED
        BY <2>2, <3>2, <3>3, <4>7
    <3> QED
      BY <3>4, <3>5
  <2> QED
    BY <2>3, <2>4
<1>11. Grown(N)
  BY <1>4, <1>10
<1>12. Cardinality(g[N]) \in Nat /\ Cardinality(g[N]) <= N /\ N \in Nat
  BY <1>4, <1>7 DEF N
<1>13. Closed(os, g[N])
  BY <1>11, <1>12 DEF Closed
<1>14. g[N] \subseteq 1..N
  BY <1>4, <1>5 DEF D
<1> QED
  BY <1>1, <1>11, <1>13, <1>14 DEF N

(* Two heaps that agree on what is reached in one reach the same.            *)
LEMMA ReachAgrees ==
    ASSUME NEW os, Len(os) \in Nat, NEW pt, Len(pt) \in Nat, Len(os) <= Len(pt),
           NEW S \in SUBSET (1..Len(os)),
           \A i \in Reaches(os, S) : Refs(pt, pt[i]) = Refs(os, os[i])
    PROVE  Reaches(pt, S) = Reaches(os, S)
<1> DEFINE A == Reaches(os, S)
           B == Reaches(pt, S)
<1>1. S \subseteq A /\ A \subseteq 1..Len(os) /\ Closed(os, A)
  BY ReachCovers
<1>2. S \in SUBSET (1..Len(pt))
  BY <1>1
<1>3. S \subseteq B /\ Closed(pt, B)
  BY <1>2, ReachCovers
<1> HIDE DEF A, B
<1>4. \A i \in A : Refs(pt, pt[i]) = Refs(os, os[i])
  BY DEF A
<1>5. B \subseteq A
  <2>1. Closed(pt, A)
    BY <1>1, <1>4 DEF Closed
  <2> QED
    BY <1>1, <1>2, <2>1, ReachWithin DEF B
<1>6. A \subseteq A \cap B
  <2>1. Closed(os, A \cap B)
    BY <1>1, <1>3, <1>4 DEF Closed
  <2>2. S \subseteq A \cap B
    BY <1>1, <1>3
  <2> QED
    BY <2>1, <2>2, ReachWithin DEF A
<1> QED
  BY <1>5, <1>6 DEF A, B

-----------------------------------------------------------------------------
(* What objects are made of.                                                 *)
Kinds  == {"pair", "procedure", "int", "vector", "buffer", "struct", "made", "base", "slots", "iter"}
Decl   == [count : Int, labels : Seq({"ref", "word"})]
Obj    == [type : Kinds, of : Int, units : Seq(Int), val : Nat, decl : Decl]

Word(os)     == {Nil, Raw, Static} \cup 1..Len(os)
Labelled(d)  == d.labels = <<>> \/ Len(d.labels) >= Described(d)
Innermost(o) == o.type = "buffer" /\ o.units[1] = Raw /\ o.units[2] = Raw

(* The object at place i of a heap os whose objects sh are pinned.           *)
Shape(os, sh, i, o) ==
    /\ Labelled(o.decl)
    /\ \A u \in 1..Len(o.units) : o.units[u] \in Word(os)
    /\ o.type = "made" => o.of \in 1..i - 1 /\ os[o.of].type = "struct"
    /\ o.type # "made" => o.of = Nil
    /\ o.type \in {"pair", "procedure", "buffer", "iter"} => Len(o.units) = 2
    /\ o.type \in {"struct", "base"} => Len(o.units) >= 1
    /\ o.type = "struct" => o.units[1] \in {Nil} \cup 1..Len(os)
    /\ o.type = "base" => o.units[1] \in sh
    /\ o.type \in {"int", "slots"} => \A u \in 1..Len(o.units) : o.units[u] \notin 1..Len(os)
    /\ o.type = "buffer" => /\ o.units[1] = Raw
                            /\ \/ o.units[2] = Raw
                               \/ o.units[2] \in 1..Len(os) /\ Innermost(os[o.units[2]])

Formed(os, sh) ==
    /\ os \in Seq(Obj) /\ sh \subseteq 1..Len(os)
    /\ \A i \in 1..Len(os) : Shape(os, sh, i, os[i])

(* The iterators whose steps are running, and all that they, with the        *)
(* program, reach.                                                           *)
Driven  == {drives[k].iter : k \in 1..Len(drives)}
Near    == Reaches(objs, Roots \cup Driven)
Running == {i \in Near : objs[i].type = "iter"}

Typed ==
    /\ Formed(objs, flagged.shared)
    /\ freed \subseteq Ids /\ held \subseteq Ids /\ registry \subseteq Ids /\ pinned \subseteq Ids
    /\ \A t \in registry : objs[t].type = "struct"
    /\ flagged \in [mark : SUBSET Ids, shared : SUBSET Ids]
    /\ flag \in {"mark", "shared"} /\ then \in {"run", "sweep"}
    /\ pc \in {"run", "mark", "sweep", "crashed"}
    /\ todo \in Seq(Word(objs)) /\ at \in 0..Len(objs)
    /\ drives \in Seq([iter : Ids, how : {"next", "step"}])
    /\ \A i \in Driven : objs[i].type = "iter"
    /\ honest \in BOOLEAN
    /\ then = "sweep" /\ pc = "mark" => flag = "mark"

LEMMA LenNat ==
    ASSUME NEW S, NEW s \in Seq(S)
    PROVE  Len(s) \in Nat /\ DOMAIN s = 1..Len(s) /\ \A i \in 1..Len(s) : s[i] \in S
BY LenProperties, ElementOfSeq

LEMMA FormedTypes ==
    ASSUME NEW os, NEW sh, Formed(os, sh)
    PROVE  /\ Len(os) \in Nat
           /\ \A i \in 1..Len(os) :
                 /\ os[i] \in Obj /\ Shape(os, sh, i, os[i])
                 /\ Len(os[i].units) \in Nat /\ DOMAIN os[i].units = 1..Len(os[i].units)
                 /\ os[i].decl \in Decl
<1>1. os \in Seq(Obj)
  BY DEF Formed
<1>2. Len(os) \in Nat /\ \A i \in 1..Len(os) : os[i] \in Obj
  BY <1>1, LenNat
<1>3. \A i \in 1..Len(os) : os[i].units \in Seq(Int) /\ os[i].decl \in Decl
  BY <1>2 DEF Obj
<1> QED
  BY <1>2, <1>3, LenNat DEF Formed

(* What the program can reach is objects, closed under reference.            *)
LEMMA ReachedIs ==
    \A S : ReachedFrom(S) = Reaches(objs, S)
BY DEF ReachedFrom, Reaches, Refers, Refs, Ids

LEMMA RefersIs ==
    \A o : Refers(o) = Refs(objs, o)
BY DEF Refers, Refs, Ids

LEMMA LiveIs ==
    ASSUME Typed
    PROVE  /\ Live = Reaches(objs, Roots) /\ Live \subseteq Ids
           /\ held \subseteq Live /\ registry \subseteq Live /\ Closed(objs, Live)
<1>1. Len(objs) \in Nat
  BY FormedTypes DEF Typed
<1>2. Roots \in SUBSET (1..Len(objs))
  BY DEF Typed, Roots, Ids
<1>3. Live = Reaches(objs, Roots)
  BY ReachedIs DEF Live
<1> QED
  BY <1>1, <1>2, <1>3, ReachCovers DEF Roots, Ids

LEMMA DrivenIs ==
    ASSUME Typed
    PROVE  Driven \subseteq Ids /\ \A k \in DOMAIN drives : drives[k].iter \in Driven /\ drives[k].how \in {"next", "step"}
<1>1. drives \in Seq([iter : Ids, how : {"next", "step"}])
  BY DEF Typed
<1>2. /\ DOMAIN drives = 1..Len(drives)
      /\ \A k \in 1..Len(drives) : drives[k] \in [iter : Ids, how : {"next", "step"}]
  BY <1>1, LenNat
<1> QED
  BY <1>2 DEF Driven

LEMMA NearIs ==
    ASSUME Typed
    PROVE  /\ Near \subseteq Ids /\ Closed(objs, Near) /\ Live \subseteq Near
           /\ held \subseteq Near /\ registry \subseteq Near /\ Driven \subseteq Near
           /\ Driven \subseteq Live => Near = Live
<1>1. Len(objs) \in Nat /\ Ids = 1..Len(objs)
  BY FormedTypes DEF Typed, Ids
<1>2. Roots \in SUBSET (1..Len(objs)) /\ Roots \cup Driven \in SUBSET (1..Len(objs))
  BY <1>1, DrivenIs DEF Typed, Roots
<1>3. Roots \cup Driven \subseteq Near /\ Near \subseteq 1..Len(objs) /\ Closed(objs, Near)
  BY <1>1, <1>2, ReachCovers DEF Near
<1>4. Live = Reaches(objs, Roots) /\ Closed(objs, Live) /\ Roots \subseteq Live
  BY LiveIs DEF Roots
<1>5. Live \subseteq Near
  BY <1>1, <1>2, <1>3, <1>4, ReachWithin
<1>6. Driven \subseteq Live => Near \subseteq Live
  BY <1>1, <1>2, <1>4, ReachWithin DEF Near
<1> QED
  BY <1>1, <1>3, <1>5, <1>6 DEF Roots

-----------------------------------------------------------------------------
(* What an operation of the program does to the heap: types and the types of *)
(* objects stay, and what it makes or stores refers to what was live or is   *)
(* new.                                                                      *)
New(os, pt) == Len(os) + 1 .. Len(pt)
Built(os, pt, L, sh, i) ==
    Shape(pt, sh, i, pt[i]) /\ Refs(pt, pt[i]) \subseteq L \cup New(os, pt)
Keeps(os, pt, i) ==
    /\ pt[i].type = os[i].type /\ pt[i].of = os[i].of
    /\ os[i].type = "buffer" => pt[i] = os[i]
Grows(os, pt, L, sh) ==
    /\ pt \in Seq(Obj) /\ Len(os) <= Len(pt) /\ sh \subseteq 1..Len(pt)
    /\ \A i \in 1..Len(os) : Keeps(os, pt, i)
    /\ \A i \in 1..Len(pt) : (i \in 1..Len(os) /\ pt[i] = os[i]) \/ Built(os, pt, L, sh, i)

LEMMA ShapeKept ==
    ASSUME NEW os, NEW s0, NEW pt, NEW L, NEW sh, Formed(os, s0), Grows(os, pt, L, sh), s0 \subseteq sh,
           NEW i \in 1..Len(os), pt[i] = os[i]
    PROVE  Shape(pt, sh, i, pt[i]) /\ Refs(pt, pt[i]) = Refs(os, os[i])
<1> DEFINE o == os[i]
<1>1. Len(os) \in Nat /\ o \in Obj /\ Shape(os, s0, i, o)
      /\ Len(o.units) \in Nat /\ DOMAIN o.units = 1..Len(o.units)
  BY FormedTypes
<1>2. Len(pt) \in Nat /\ Len(os) <= Len(pt) /\ \A j \in 1..Len(os) : j \in 1..Len(pt) /\ Keeps(os, pt, j)
  <2>1. Len(pt) \in Nat
    BY LenNat DEF Grows
  <2> QED
    BY <1>1, <2>1 DEF Grows
<1>3. Word(os) \subseteq Word(pt)
  BY <1>2 DEF Word
<1>4. \A u \in 1..Len(o.units) : o.units[u] \in Word(os)
  BY <1>1 DEF Shape
<1>5. \A w \in Word(os) : w \in 1..Len(pt) => w \in 1..Len(os)
  BY <1>1, <1>2 DEF Word, Nil, Raw, Static
<1> HIDE DEF o
<1>6. Shape(pt, sh, i, o)
  <2>1. o.type = "made" => o.of \in 1..i - 1 /\ pt[o.of].type = "struct"
    <3>1. o.type = "made" => o.of \in 1..i - 1 /\ os[o.of].type = "struct"
      BY <1>1 DEF Shape
    <3>2. 1..i - 1 \subseteq 1..Len(os)
      BY <1>1
    <3> QED
      BY <1>2, <3>1, <3>2 DEF Keeps
  <2>2. o.type = "buffer" => /\ o.units[1] = Raw
                             /\ \/ o.units[2] = Raw
                                \/ o.units[2] \in 1..Len(pt) /\ Innermost(pt[o.units[2]])
    <3>1. o.type = "buffer" => /\ o.units[1] = Raw
                               /\ \/ o.units[2] = Raw
                                  \/ o.units[2] \in 1..Len(os) /\ Innermost(os[o.units[2]])
      BY <1>1 DEF Shape
    <3>2. \A j \in 1..Len(os) : Innermost(os[j]) => j \in 1..Len(pt) /\ Innermost(pt[j])
      BY <1>2 DEF Innermost, Keeps
    <3> QED
      BY <3>1, <3>2
  <2>3. \A u \in 1..Len(o.units) : o.units[u] \notin 1..Len(os) => o.units[u] \notin 1..Len(pt)
    BY <1>4, <1>5
  <2>4. {Nil} \cup 1..Len(os) \subseteq {Nil} \cup 1..Len(pt)
    BY <1>2
  <2> QED
    BY <1>1, <1>3, <1>4, <2>1, <2>2, <2>3, <2>4 DEF Shape
<1>7. Refs(pt, o) = Refs(os, o)
  <2>1. o.of \in Word(os)
    <3>1. 1..i - 1 \subseteq 1..Len(os)
      BY <1>1
    <3> QED
      BY <1>1, <3>1 DEF Shape, Word
  <2>2. \A w \in 1..Len(os) : w \in 1..Len(pt)
    BY <1>2
  <2> QED
    BY <1>1, <1>4, <1>5, <2>1, <2>2 DEF Refs
<1> QED
  BY <1>6, <1>7 DEF o

LEMMA GrowsFormed ==
    ASSUME NEW os, NEW s0, NEW pt, NEW L, NEW sh, Formed(os, s0), Grows(os, pt, L, sh), s0 \subseteq sh
    PROVE  Formed(pt, sh)
<1>1. ASSUME NEW i \in 1..Len(pt) PROVE Shape(pt, sh, i, pt[i])
  <2>1. CASE i \in 1..Len(os) /\ pt[i] = os[i]
    BY <2>1, ShapeKept
  <2>2. CASE Built(os, pt, L, sh, i)
    BY <2>2 DEF Built
  <2> QED
    BY <2>1, <2>2 DEF Grows
<1> QED
  BY <1>1 DEF Formed, Grows

(* Nothing comes alive but what is new.                                      *)
LEMMA GrowsLive ==
    ASSUME NEW os, NEW s0, NEW pt, NEW L, NEW sh, Formed(os, s0), Grows(os, pt, L, sh), s0 \subseteq sh,
           L \subseteq 1..Len(os), Closed(os, L),
           NEW S \in SUBSET (1..Len(pt)), S \subseteq L \cup New(os, pt)
    PROVE  Reaches(pt, S) \subseteq L \cup New(os, pt)
<1> DEFINE X == L \cup New(os, pt)
<1>1. Len(os) \in Nat
  BY FormedTypes
<1>2. Len(pt) \in Nat
  BY LenNat DEF Grows
<1>3. ASSUME NEW i \in X PROVE Refs(pt, pt[i]) \subseteq X
  <2>1. i \in 1..Len(pt)
    <3>1. Len(os) <= Len(pt)
      BY DEF Grows
    <3>2. i \in 1..Len(os) \/ i \in Len(os) + 1 .. Len(pt)
      BY <1>3 DEF New
    <3> QED
      BY <1>1, <1>2, <3>1, <3>2
  <2>2. CASE i \in 1..Len(os) /\ pt[i] = os[i]
    <3>1. i \notin New(os, pt)
      BY <1>1, <2>2 DEF New
    <3>2. i \in L
      BY <1>3, <3>1
    <3>3. Refs(pt, pt[i]) = Refs(os, os[i])
      BY <2>2, ShapeKept
    <3> QED
      BY <3>2, <3>3 DEF Closed
  <2>3. CASE Built(os, pt, L, sh, i)
    BY <2>3 DEF Built
  <2> QED
    BY <2>1, <2>2, <2>3 DEF Grows
<1>4. Closed(pt, X)
  BY <1>3 DEF Closed
<1> HIDE DEF X
<1>5. S \subseteq X
  BY DEF X
<1> QED
  BY <1>2, <1>4, <1>5, ReachWithin DEF X

ToDo   == {todo[k] : k \in 1..Len(todo)}

(* What an operation of the program does, but for those that begin a         *)
(* traversal, clear marks or end the process.                                *)
Mutates ==
    /\ pc = "run" /\ pc' = "run"
    /\ Grows(objs, objs', Near, flagged'.shared)
    /\ held' \subseteq held \cup Near \cup New(objs, objs')
    /\ registry' \subseteq registry \cup New(objs, objs')
    /\ \A t \in registry' \ registry : objs'[t].type = "struct"
    /\ \E more \in SUBSET New(objs, objs') :
          /\ flagged' = [flagged EXCEPT !.shared = @ \cup more]
          /\ \A i \in more : objs'[i].type # "made"
    /\ drives' \in Seq([iter : Ids, how : {"next", "step"}]) /\ Driven' \subseteq Driven \cup Running
    /\ UNCHANGED <<freed, flag, todo, then, at, honest, pinned>>

LEMMA SeqWider ==
    ASSUME NEW S, NEW T, NEW s \in Seq(S), \A i \in 1..Len(s) : s[i] \in T
    PROVE  s \in Seq(T)
BY LenNat, SeqDef

LEMMA HeapWider ==
    ASSUME Typed, objs' \in Seq(Obj), Len(objs) <= Len(objs')
    PROVE  /\ Len(objs) \in Nat /\ Len(objs') \in Nat
           /\ Ids = 1..Len(objs) /\ Ids' = 1..Len(objs') /\ Ids \subseteq Ids'
           /\ Word(objs) \subseteq Word(objs') /\ 0..Len(objs) \subseteq 0..Len(objs')
           /\ New(objs, objs') \subseteq Ids' /\ New(objs, objs') \cap Ids = {}
<1>1. Len(objs) \in Nat /\ Len(objs') \in Nat
  BY FormedTypes, LenNat DEF Typed
<1> QED
  BY <1>1 DEF Ids, Word, New

(* Whatever makes of the heap no more than this keeps what is said of it.    *)
Extends ==
    /\ Grows(objs, objs', Near, flagged'.shared)
    /\ flagged' \in [mark : SUBSET Ids', shared : SUBSET Ids']
    /\ flagged.shared \subseteq flagged'.shared
    /\ flagged'.shared \subseteq flagged.shared \cup Near \cup New(objs, objs')
    /\ held' \subseteq held \cup Near \cup New(objs, objs')
    /\ registry' \subseteq registry \cup New(objs, objs')
    /\ \A t \in registry' \ registry : objs'[t].type = "struct"
    /\ drives' \in Seq([iter : Ids, how : {"next", "step"}]) /\ Driven' \subseteq Driven \cup Running
    /\ pinned' \subseteq pinned \cup Near \cup New(objs, objs')
    /\ freed' = freed

LEMMA ExtendsTyped ==
    ASSUME Typed, Extends, flag' \in {"mark", "shared"}, then' \in {"run", "sweep"},
           pc' \in {"run", "mark", "sweep", "crashed"}, todo' \in Seq(Word(objs')), at' \in 0..Len(objs'),
           honest' \in BOOLEAN, then' = "sweep" /\ pc' = "mark" => flag' = "mark"
    PROVE  Typed'
<1>1. /\ Grows(objs, objs', Near, flagged'.shared) /\ objs' \in Seq(Obj) /\ Len(objs) <= Len(objs')
      /\ \A i \in 1..Len(objs) : Keeps(objs, objs', i)
  BY DEF Extends, Grows
<1>2. /\ Len(objs) \in Nat /\ Len(objs') \in Nat
      /\ Ids = 1..Len(objs) /\ Ids' = 1..Len(objs') /\ Ids \subseteq Ids'
      /\ Word(objs) \subseteq Word(objs') /\ 0..Len(objs) \subseteq 0..Len(objs')
      /\ New(objs, objs') \subseteq Ids' /\ New(objs, objs') \cap Ids = {}
  BY <1>1, HeapWider
<1>3. Near \subseteq Ids
  BY NearIs
<1>4. flagged' \in [mark : SUBSET Ids', shared : SUBSET Ids'] /\ flagged.shared \subseteq flagged'.shared
  BY DEF Extends
<1>5. Formed(objs', flagged'.shared)
  BY <1>1, <1>4, GrowsFormed DEF Typed
<1>6. /\ freed' \subseteq Ids' /\ held' \subseteq Ids' /\ registry' \subseteq Ids' /\ pinned' \subseteq Ids'
  BY <1>2, <1>3 DEF Extends, Typed
<1>7. \A t \in registry' : objs'[t].type = "struct"
  <2>1. registry \subseteq Ids /\ \A t \in registry : objs[t].type = "struct"
    BY DEF Typed
  <2>2. \A t \in registry' \ registry : objs'[t].type = "struct"
    BY DEF Extends
  <2> QED
    BY <1>1, <1>2, <2>1, <2>2 DEF Keeps
<1>9. drives' \in Seq([iter : Ids', how : {"next", "step"}])
  <2>1. drives' \in Seq([iter : Ids, how : {"next", "step"}])
    BY DEF Extends
  <2>2. \A k \in 1..Len(drives') : drives'[k] \in [iter : Ids, how : {"next", "step"}]
    BY <2>1, LenNat
  <2>3. [iter : Ids, how : {"next", "step"}] \subseteq [iter : Ids', how : {"next", "step"}]
    BY <1>2
  <2> QED
    BY <2>1, <2>2, <2>3, SeqWider
<1>11. \A i \in Driven' : objs'[i].type = "iter"
  <2>1. Driven \subseteq Ids /\ \A i \in Driven : objs[i].type = "iter"
    BY DrivenIs DEF Typed
  <2>2. Driven' \subseteq Driven \cup Running
    BY DEF Extends
  <2> QED
    BY <1>1, <1>2, <1>3, <2>1, <2>2 DEF Running, Keeps
<1> QED
  BY <1>4, <1>5, <1>6, <1>7, <1>9, <1>11 DEF Typed

LEMMA MutatesExtends ==
    ASSUME Typed, Mutates
    PROVE  Extends
<1>1. objs' \in Seq(Obj) /\ Len(objs) <= Len(objs')
  BY DEF Mutates, Grows
<1>2. Ids \subseteq Ids' /\ New(objs, objs') \subseteq Ids'
  BY <1>1, HeapWider
<1>3. PICK more \in SUBSET New(objs, objs') : flagged' = [flagged EXCEPT !.shared = @ \cup more]
  BY DEF Mutates
<1>4. /\ flagged' \in [mark : SUBSET Ids', shared : SUBSET Ids'] /\ flagged'.shared = flagged.shared \cup more
  BY <1>2, <1>3 DEF Typed
<1> QED
  BY <1>4 DEF Mutates, Extends

LEMMA MutatesTyped ==
    ASSUME Typed, Mutates
    PROVE  Typed'
<1>1. Extends
  BY MutatesExtends
<1>2. objs' \in Seq(Obj) /\ Len(objs) <= Len(objs')
  BY DEF Mutates, Grows
<1>3. todo' \in Seq(Word(objs'))
  <2>1. todo \in Seq(Word(objs)) /\ Word(objs) \subseteq Word(objs')
    BY <1>2, HeapWider DEF Typed
  <2> QED
    BY <2>1, LenNat, SeqWider DEF Mutates
<1>4. /\ flag' \in {"mark", "shared"} /\ then' \in {"run", "sweep"} /\ pc' = "run"
      /\ at' \in 0..Len(objs') /\ honest' \in BOOLEAN
  BY <1>2, HeapWider DEF Mutates, Typed
<1> QED
  BY <1>1, <1>3, <1>4, ExtendsTyped

-----------------------------------------------------------------------------
(* Safety.                                                                   *)
Unfreed ==
    /\ Near \cap freed = {}
    /\ flagged.shared \cap freed = {} /\ pinned \cap freed = {}
    /\ \A i \in Ids \ freed : objs[i].type = "made" => objs[i].of \notin freed

(* While a pin's traversal is on its way, what it promised is reached from   *)
(* what it was begun for, through no base, at whose tree it would stop, and  *)
(* what it has met of it has been taken on.                                  *)
Pinning == flag = "shared" /\ pc = "mark"
Promised(S) ==
    /\ pinned \subseteq flagged.shared \cup ReachedFrom(S)
    /\ S \subseteq flagged.shared \cup ToDo
    /\ \A i \in ReachedFrom(S) \cap flagged.shared : Refers(objs[i]) \subseteq flagged.shared \cup ToDo
    /\ \A i \in ReachedFrom(S) : objs[i].type # "base"
Pinned ==
    /\ IF Pinning THEN \E S \in SUBSET Ids : Promised(S) ELSE pinned \subseteq flagged.shared
    /\ \A i \in flagged.shared : objs[i].type = "made" =>
          objs[i].of \in flagged.shared \/ (Pinning /\ objs[i].of \in ToDo)

(* A traversal stays in what is live and was found sound.                    *)
Meant(i) ==
    Sound(objs[i]) /\ (objs[i].type # "buffer" => \A w \in Refers(objs[i]) : ~Inner(w))
Tracing ==
    pc = "mark" =>
        /\ \A i \in Live : Meant(i)
        /\ ToDo \subseteq Live \cup {Nil, Static} /\ \A w \in ToDo : ~Inner(w)
        /\ Driven \subseteq Live

(* The collector's: what is marked and what is to do cover what they refer   *)
(* to.                                                                       *)
Collecting ==
    pc = "mark" /\ then = "sweep" =>
        /\ flagged.mark \subseteq Live /\ Roots \subseteq flagged.mark \cup ToDo
        /\ \A i \in flagged.mark : Refers(objs[i]) \subseteq flagged.mark \cup ToDo

Sweeping ==
    pc = "sweep" =>
        /\ flagged.mark = {i \in Live : i <= at}
        /\ Driven \subseteq Live
        /\ \A i \in Ids \ freed : i > at => i \in Live \cup flagged.shared

Safe == honest => pc # "crashed" /\ Unfreed /\ Pinned /\ Tracing /\ Collecting /\ Sweeping

LEMMA LiveNext ==
    ASSUME Typed'
    PROVE  /\ Live' = Reaches(objs', Roots') /\ Live' \subseteq Ids'
           /\ held' \subseteq Live' /\ registry' \subseteq Live' /\ Closed(objs', Live')
<1>1. Len(objs') \in Nat
  BY FormedTypes DEF Typed
<1>2. Roots' \in SUBSET (1..Len(objs'))
  BY DEF Typed, Roots, Ids
<1>3. Live' = Reaches(objs', Roots')
  BY DEF Live, ReachedFrom, Reaches, Refers, Refs, Ids
<1> QED
  BY <1>1, <1>2, <1>3, ReachCovers DEF Roots, Ids

LEMMA ExtendsUnfreed ==
    ASSUME Typed, Extends, Typed', Unfreed
    PROVE  Unfreed' /\ Near' \subseteq Near \cup New(objs, objs')
<1>2. /\ Grows(objs, objs', Near, flagged'.shared) /\ objs' \in Seq(Obj) /\ Len(objs) <= Len(objs')
      /\ \A i \in 1..Len(objs) : Keeps(objs, objs', i)
  BY DEF Extends, Grows
<1>3. /\ Len(objs) \in Nat /\ Len(objs') \in Nat
      /\ Ids = 1..Len(objs) /\ Ids' = 1..Len(objs') /\ Ids \subseteq Ids'
      /\ New(objs, objs') \subseteq Ids' /\ New(objs, objs') \cap Ids = {}
      /\ \A i \in Ids' : i \in Ids \/ i \in New(objs, objs')
  <2>1. \A i \in 1..Len(objs') : i \in 1..Len(objs) \/ i \in New(objs, objs')
    <3>1. Len(objs) \in Nat /\ Len(objs') \in Nat
      BY <1>2, HeapWider
    <3> QED
      BY <3>1 DEF New
  <2> QED
    BY <1>2, <2>1, HeapWider
<1>5. /\ Near \subseteq Ids /\ Closed(objs, Near)
      /\ held \subseteq Near /\ registry \subseteq Near /\ Driven \subseteq Near
  BY NearIs
<1>8. /\ freed' = freed /\ freed \subseteq Ids /\ pinned' \subseteq pinned \cup Near \cup New(objs, objs')
      /\ flagged.shared \subseteq flagged'.shared
      /\ flagged'.shared \subseteq flagged.shared \cup Near \cup New(objs, objs')
  BY DEF Extends, Typed
<1>9. Near' \subseteq Near \cup New(objs, objs')
  <2> DEFINE S == Roots' \cup Driven'
  <2>1. S \subseteq Near \cup New(objs, objs')
    BY <1>5 DEF Extends, Roots, Running
  <2>2. S \in SUBSET (1..Len(objs'))
    BY <1>3, <1>5, <2>1
  <2>3. Near' = Reaches(objs', S)
    BY DEF Near, Reaches, Refs
  <2> HIDE DEF S
  <2>4. Formed(objs, flagged.shared) /\ flagged.shared \subseteq flagged'.shared
    BY <1>8 DEF Typed
  <2>5. Near \subseteq 1..Len(objs)
    BY <1>3, <1>5
  <2> QED
    BY <1>2, <1>5, <2>1, <2>2, <2>3, <2>4, <2>5, GrowsLive
<1>10. New(objs, objs') \cap freed = {}
  BY <1>3, <1>8
<1>11. Unfreed'
  <2>1. Near' \cap freed' = {}
    BY <1>8, <1>9, <1>10 DEF Unfreed
  <2>3. flagged'.shared \cap freed' = {} /\ pinned' \cap freed' = {}
    BY <1>8, <1>10 DEF Unfreed
  <2>4. ASSUME NEW i \in Ids' \ freed', objs'[i].type = "made" PROVE objs'[i].of \notin freed'
    <3>1. CASE i \in Ids
      BY <1>2, <1>3, <1>8, <2>4, <3>1 DEF Keeps, Unfreed
    <3>2. CASE i \in New(objs, objs')
      <4>1. i \notin 1..Len(objs) /\ i \in 1..Len(objs')
        BY <1>3, <3>2
      <4>2. Built(objs, objs', Near, flagged'.shared, i)
        BY <1>2, <4>1 DEF Grows
      <4>3. objs'[i].of \in 1..i - 1
        BY <2>4, <4>2 DEF Built, Shape
      <4>4. objs'[i].of \in Refs(objs', objs'[i])
        BY <1>3, <4>1, <4>3 DEF Refs
      <4> QED
        BY <1>8, <1>10, <4>2, <4>4 DEF Built, Unfreed
    <3> QED
      BY <1>3, <3>1, <3>2
  <2> QED
    BY <2>1, <2>3, <2>4 DEF Unfreed
<1> QED
  BY <1>9, <1>11

LEMMA MutatesSafe ==
    ASSUME Typed, Mutates, Safe
    PROVE  Safe'
<1> SUFFICES ASSUME honest' PROVE pc' # "crashed" /\ Unfreed' /\ Pinned' /\ Tracing' /\ Collecting' /\ Sweeping'
  BY DEF Safe
<1>1. honest /\ pc = "run" /\ pc' = "run" /\ Unfreed /\ Pinned /\ ~Pinning /\ ~Pinning'
  BY DEF Mutates, Safe, Pinning
<1>2. objs' \in Seq(Obj) /\ Len(objs) <= Len(objs') /\ \A i \in 1..Len(objs) : Keeps(objs, objs', i)
  BY DEF Mutates, Grows
<1>3. Ids = 1..Len(objs) /\ New(objs, objs') \cap Ids = {}
  BY <1>2, HeapWider
<1>6. PICK more \in SUBSET New(objs, objs') :
          /\ flagged' = [flagged EXCEPT !.shared = @ \cup more]
          /\ \A i \in more : objs'[i].type # "made"
  BY DEF Mutates
<1>7. flagged'.shared = flagged.shared \cup more
  BY <1>6 DEF Typed
<1>8. pinned' = pinned
  BY DEF Mutates
<1>11. Unfreed'
  BY <1>1, MutatesExtends, MutatesTyped, ExtendsUnfreed
<1>12. Pinned'
  <2>1. pinned' \subseteq flagged'.shared
    BY <1>1, <1>7, <1>8 DEF Pinned
  <2>2. ASSUME NEW i \in flagged'.shared, objs'[i].type = "made" PROVE objs'[i].of \in flagged'.shared
    <3>1. i \in flagged.shared /\ i \in 1..Len(objs)
      BY <1>3, <1>6, <1>7, <2>2 DEF Typed
    <3>2. Keeps(objs, objs', i)
      BY <1>2, <3>1
    <3> QED
      BY <1>1, <1>7, <2>2, <3>1, <3>2 DEF Keeps, Pinned
  <2> QED
    BY <1>1, <2>1, <2>2 DEF Pinned
<1> QED
  BY <1>1, <1>11, <1>12 DEF Tracing, Collecting, Sweeping

-----------------------------------------------------------------------------
(* The ways a heap grows: an object or two are made, or one is changed.      *)
LEMMA AddOne ==
    ASSUME NEW os \in Seq(Obj), NEW o \in Obj, NEW pt, pt = Append(os, o)
    PROVE  /\ pt \in Seq(Obj) /\ pt = os \o <<o>> /\ Len(os) \in Nat /\ Len(pt) = Len(os) + 1
           /\ pt[Len(os) + 1] = o /\ \A i \in 1..Len(os) : pt[i] = os[i]
<1>1. Len(os) \in Nat
  BY LenNat
<1>2. pt \in Seq(Obj) /\ Len(pt) = Len(os) + 1 /\ pt[Len(os) + 1] = o /\ \A i \in 1..Len(os) : pt[i] = os[i]
  BY <1>1, AppendProperties
<1>3. pt = os \o <<o>>
  BY AppendIsConcat
<1> QED
  BY <1>1, <1>2, <1>3

LEMMA AddTwo ==
    ASSUME NEW os \in Seq(Obj), NEW o \in Obj, NEW q \in Obj, NEW pt, pt = os \o <<o, q>>
    PROVE  /\ pt \in Seq(Obj) /\ Len(os) \in Nat /\ Len(pt) = Len(os) + 2
           /\ pt[Len(os) + 1] = o /\ pt[Len(os) + 2] = q /\ \A i \in 1..Len(os) : pt[i] = os[i]
<1>1. Len(os) \in Nat
  BY LenNat
<1>2. <<o, q>> \in Seq(Obj) /\ Len(<<o, q>>) = 2 /\ <<o, q>>[1] = o /\ <<o, q>>[2] = q
  OBVIOUS
<1>3. /\ pt \in Seq(Obj) /\ Len(pt) = Len(os) + 2
      /\ \A i \in 1..Len(os) + 2 : pt[i] = IF i <= Len(os) THEN os[i] ELSE <<o, q>>[i - Len(os)]
  BY <1>1, <1>2, ConcatProperties
<1>4. /\ Len(os) + 1 \in 1..Len(os) + 2 /\ ~(Len(os) + 1 <= Len(os)) /\ (Len(os) + 1) - Len(os) = 1
      /\ Len(os) + 2 \in 1..Len(os) + 2 /\ ~(Len(os) + 2 <= Len(os)) /\ (Len(os) + 2) - Len(os) = 2
      /\ \A i \in 1..Len(os) : i \in 1..Len(os) + 2 /\ i <= Len(os)
  BY <1>1
<1> QED
  BY <1>1, <1>2, <1>3, <1>4

LEMMA GrowsOne ==
    ASSUME NEW os \in Seq(Obj), NEW o \in Obj, NEW pt, pt = Append(os, o), NEW L,
           NEW sh \in SUBSET (1..Len(pt)), Built(os, pt, L, sh, Len(os) + 1)
    PROVE  Grows(os, pt, L, sh)
<1>1. /\ pt \in Seq(Obj) /\ Len(os) \in Nat /\ Len(pt) = Len(os) + 1
      /\ \A i \in 1..Len(os) : pt[i] = os[i]
  BY AddOne
<1>2. Len(os) <= Len(pt) /\ \A i \in 1..Len(pt) : i \in 1..Len(os) \/ i = Len(os) + 1
  BY <1>1
<1> QED
  BY <1>1, <1>2 DEF Grows, Keeps

LEMMA GrowsTwo ==
    ASSUME NEW os \in Seq(Obj), NEW o \in Obj, NEW q \in Obj, NEW pt, pt = os \o <<o, q>>, NEW L,
           NEW sh \in SUBSET (1..Len(pt)),
           Built(os, pt, L, sh, Len(os) + 1), Built(os, pt, L, sh, Len(os) + 2)
    PROVE  Grows(os, pt, L, sh)
<1>1. /\ pt \in Seq(Obj) /\ Len(os) \in Nat /\ Len(pt) = Len(os) + 2
      /\ \A i \in 1..Len(os) : pt[i] = os[i]
  BY AddTwo
<1>2. Len(os) <= Len(pt) /\ \A i \in 1..Len(pt) : i \in 1..Len(os) \/ i = Len(os) + 1 \/ i = Len(os) + 2
  BY <1>1
<1> QED
  BY <1>1, <1>2 DEF Grows, Keeps

(* Object i changes, to o.                                                   *)
Changes(os, pt, i, o) ==
    /\ i \in 1..Len(os) /\ o \in Obj /\ pt = [os EXCEPT ![i] = o]
    /\ o.type = os[i].type /\ o.of = os[i].of /\ o.type # "buffer"

LEMMA Changed ==
    ASSUME NEW os \in Seq(Obj), NEW pt, NEW i, NEW o, Changes(os, pt, i, o)
    PROVE  /\ pt \in Seq(Obj) /\ Len(pt) = Len(os) /\ Len(os) \in Nat
           /\ pt[i] = o /\ \A j \in 1..Len(os) : (j # i => pt[j] = os[j]) /\ Keeps(os, pt, j)
<1>1. Len(os) \in Nat /\ os \in [1..Len(os) -> Obj]
  BY LenNat, SeqDef
<1>2. pt \in Seq(Obj) /\ Len(pt) = Len(os) /\ pt[i] = o /\ \A j \in 1..Len(os) : j # i => pt[j] = os[j]
  BY <1>1, ExceptSeq DEF Changes
<1> QED
  BY <1>1, <1>2 DEF Changes, Keeps

LEMMA GrowsChanged ==
    ASSUME NEW os \in Seq(Obj), NEW pt, NEW i, NEW o, Changes(os, pt, i, o), NEW L,
           NEW sh \in SUBSET (1..Len(os)), Built(os, pt, L, sh, i)
    PROVE  Grows(os, pt, L, sh)
BY Changed DEF Grows

LEMMA GrowsBoth ==
    ASSUME NEW os \in Seq(Obj), NEW mt, NEW i, NEW o, Changes(os, mt, i, o), NEW L,
           NEW q \in Obj, NEW pt, pt = Append(mt, q), NEW sh \in SUBSET (1..Len(pt)),
           Built(os, pt, L, sh, i), Built(os, pt, L, sh, Len(os) + 1)
    PROVE  Grows(os, pt, L, sh)
<1>1. /\ mt \in Seq(Obj) /\ Len(mt) = Len(os) /\ Len(os) \in Nat
      /\ mt[i] = o /\ \A j \in 1..Len(os) : (j # i => mt[j] = os[j]) /\ Keeps(os, mt, j)
  BY Changed
<1>2. /\ pt \in Seq(Obj) /\ Len(pt) = Len(os) + 1
      /\ \A j \in 1..Len(os) : pt[j] = mt[j]
  BY <1>1, AddOne
<1>3. Len(os) <= Len(pt) /\ \A j \in 1..Len(pt) : j \in 1..Len(os) \/ j = Len(os) + 1
  BY <1>1, <1>2
<1> QED
  BY <1>1, <1>2, <1>3 DEF Grows, Keeps

(* What it takes for an object to be well built.                             *)
UnitsIn(os, pt, L, o) ==
    \A u \in 1..Len(o.units) : o.units[u] \in {Nil, Raw, Static} \cup L \cup New(os, pt)

LEMMA BuiltPlain ==
    ASSUME NEW os, NEW pt, Len(os) \in Nat, Len(pt) \in Nat, Len(os) <= Len(pt),
           NEW L \in SUBSET (1..Len(os)), NEW sh, NEW i,
           pt[i] \in Obj, Labelled(pt[i].decl), UnitsIn(os, pt, L, pt[i]),
           pt[i].type # "made", pt[i].of = Nil,
           pt[i].type \in {"pair", "procedure", "iter"} => Len(pt[i].units) = 2,
           pt[i].type \in {"struct", "base"} => Len(pt[i].units) >= 1,
           pt[i].type = "struct" => pt[i].units[1] \notin {Raw, Static},
           pt[i].type = "base" => pt[i].units[1] \in sh,
           pt[i].type \in {"int", "slots"} => \A u \in 1..Len(pt[i].units) : pt[i].units[u] \in {Nil, Raw, Static},
           pt[i].type = "buffer" => /\ Len(pt[i].units) = 2 /\ pt[i].units[1] = Raw
                                    /\ \/ pt[i].units[2] = Raw
                                       \/ pt[i].units[2] \in 1..Len(pt) /\ Innermost(pt[pt[i].units[2]])
    PROVE  Built(os, pt, L, sh, i)
<1> DEFINE o == pt[i]
<1>1. Len(o.units) \in Nat /\ DOMAIN o.units = 1..Len(o.units)
  BY LenNat DEF Obj
<1>2. L \subseteq 1..Len(pt) /\ New(os, pt) \subseteq 1..Len(pt)
  BY DEF New
<1>3. \A u \in 1..Len(o.units) : o.units[u] \in Word(pt)
  BY <1>2 DEF UnitsIn, Word
<1>4. \A w \in 1..Len(pt) : w \notin {Nil, Raw, Static}
  BY DEF Nil, Raw, Static
<1>5. Refs(pt, o) \subseteq L \cup New(os, pt)
  BY <1>1, <1>4 DEF UnitsIn, Refs
<1>6. o.type = "struct" => o.units[1] \in {Nil} \cup 1..Len(pt)
  <2>1. o.type = "struct" => 1 \in 1..Len(o.units)
    BY <1>1
  <2> QED
    BY <1>3, <2>1 DEF Word
<1>7. o.type \in {"int", "slots"} => \A u \in 1..Len(o.units) : o.units[u] \notin 1..Len(pt)
  BY <1>4
<1>8. Shape(pt, sh, i, o)
  BY <1>3, <1>6, <1>7 DEF Shape
<1> QED
  BY <1>5, <1>8 DEF Built

LEMMA BuiltMade ==
    ASSUME NEW os, NEW pt, Len(os) \in Nat, Len(pt) \in Nat, Len(os) <= Len(pt),
           NEW L \in SUBSET (1..Len(os)), NEW sh, NEW i,
           pt[i] \in Obj, Labelled(pt[i].decl), UnitsIn(os, pt, L, pt[i]), pt[i].type = "made",
           pt[i].of \in L \cap 1..i - 1, pt[pt[i].of].type = "struct"
    PROVE  Built(os, pt, L, sh, i)
<1> DEFINE o == pt[i]
<1>1. Len(o.units) \in Nat /\ DOMAIN o.units = 1..Len(o.units)
  BY LenNat DEF Obj
<1>2. L \subseteq 1..Len(pt) /\ New(os, pt) \subseteq 1..Len(pt)
  BY DEF New
<1>3. \A u \in 1..Len(o.units) : o.units[u] \in Word(pt)
  BY <1>2 DEF UnitsIn, Word
<1>4. \A w \in 1..Len(pt) : w \notin {Nil, Raw, Static}
  BY DEF Nil, Raw, Static
<1>5. Refs(pt, o) \subseteq L \cup New(os, pt)
  BY <1>1, <1>4 DEF UnitsIn, Refs
<1>6. Shape(pt, sh, i, o)
  BY <1>3 DEF Shape
<1> QED
  BY <1>5, <1>6 DEF Built

LEMMA Declared ==
    /\ NoUnits \in Decl /\ Labelled(NoUnits) /\ PairUnits \in Decl /\ Labelled(PairUnits)
    /\ VectorUnits \in Decl /\ Labelled(VectorUnits)
    /\ \A d \in Decls : d \in Decl /\ Labelled(d)
<1>1. NoUnits \in Decl /\ Labelled(NoUnits) /\ PairUnits \in Decl /\ Labelled(PairUnits)
      /\ VectorUnits \in Decl /\ Labelled(VectorUnits)
  BY DEF Decl, Labelled, NoUnits, PairUnits, VectorUnits, Bare
<1>2. \A d \in Decls : d \in Decl /\ Labelled(d)
  BY ObjectsAssumption DEF Decl, Labelled
<1> QED
  BY <1>1, <1>2

LEMMA ObjectIs ==
    ASSUME NEW type \in Kinds, NEW units \in Seq(Int)
    PROVE  /\ Object(type, units) \in Obj
           /\ Object(type, units).type = type /\ Object(type, units).of = Nil
           /\ Object(type, units).units = units /\ Object(type, units).decl = NoUnits
BY Declared DEF Object, Obj, Nil

LEMMA HeapFacts ==
    ASSUME Typed
    PROVE  /\ objs \in Seq(Obj) /\ Len(objs) \in Nat /\ Ids = 1..Len(objs)
           /\ Near \in SUBSET (1..Len(objs)) /\ flagged.shared \in SUBSET (1..Len(objs))
           /\ Live \subseteq Near /\ Values \subseteq {Nil} \cup Near /\ \A v \in Values : v \in Int
           /\ registry \subseteq Near /\ \A t \in registry : objs[t].type = "struct"
           /\ Nil \in Int /\ Raw \in Int /\ Static \in Int
           /\ \A i \in Near : /\ objs[i] \in Obj /\ Shape(objs, flagged.shared, i, objs[i])
                              /\ Len(objs[i].units) \in Nat
                              /\ DOMAIN objs[i].units = 1..Len(objs[i].units)
                              /\ objs[i].units \in Seq(Int)
<1>1. objs \in Seq(Obj) /\ Len(objs) \in Nat /\ Ids = 1..Len(objs)
  BY LenNat DEF Typed, Formed, Ids
<1>2. Near \in SUBSET (1..Len(objs)) /\ registry \subseteq Near /\ Live \subseteq Near
  BY <1>1, NearIs
<1>3. \A i \in Near : /\ objs[i] \in Obj /\ Shape(objs, flagged.shared, i, objs[i])
                      /\ Len(objs[i].units) \in Nat
                      /\ DOMAIN objs[i].units = 1..Len(objs[i].units)
  BY <1>2, FormedTypes DEF Typed
<1>4. \A i \in Near : objs[i].units \in Seq(Int)
  BY <1>3 DEF Obj
<1>5. flagged.shared \in SUBSET (1..Len(objs)) /\ \A t \in registry : objs[t].type = "struct"
  BY <1>1 DEF Typed
<1>6. Nil \in Int /\ Raw \in Int /\ Static \in Int
  BY DEF Nil, Raw, Static
<1>7. Values \subseteq {Nil} \cup Near /\ \A v \in Values : v \in Int
  BY <1>1, <1>2, <1>6 DEF Values
<1> QED
  BY <1>1, <1>2, <1>3, <1>4, <1>5, <1>6, <1>7

LEMMA MutatesWith ==
    ASSUME Typed, pc = "run", Grows(objs, objs', Near, flagged.shared),
           held' \subseteq held \cup Near \cup New(objs, objs'),
           registry' \subseteq registry \cup New(objs, objs'),
           \A t \in registry' \ registry : objs'[t].type = "struct",
           drives' \in Seq([iter : Ids, how : {"next", "step"}]), Driven' \subseteq Driven \cup Running,
           UNCHANGED <<freed, trace, history>>
    PROVE  Mutates
<1>1. flagged' = [flagged EXCEPT !.shared = @ \cup {}] /\ flagged'.shared = flagged.shared
  BY DEF trace, Typed
<1>3. \E more \in SUBSET New(objs, objs') :
          /\ flagged' = [flagged EXCEPT !.shared = @ \cup more]
          /\ \A i \in more : objs'[i].type # "made"
  <2>1. {} \in SUBSET New(objs, objs') /\ \A i \in {} : objs'[i].type # "made"
    OBVIOUS
  <2> QED
    BY <1>1, <2>1
<1>4. Grows(objs, objs', Near, flagged'.shared)
  BY <1>1
<1>5. pc' = "run" /\ UNCHANGED <<freed, flag, todo, then, at, honest, pinned>>
  BY DEF trace, history
<1> QED
  BY <1>3, <1>4, <1>5 DEF Mutates

LEMMA MutatesBy ==
    ASSUME Typed, pc = "run", Grows(objs, objs', Near, flagged.shared),
           held' \subseteq held \cup Near \cup New(objs, objs'),
           registry' \subseteq registry \cup New(objs, objs'),
           \A t \in registry' \ registry : objs'[t].type = "struct",
           UNCHANGED <<freed, trace, drives, history>>
    PROVE  Mutates
<1>1. drives' \in Seq([iter : Ids, how : {"next", "step"}]) /\ Driven' \subseteq Driven \cup Running
  BY DEF Typed, Driven
<1> QED
  BY <1>1, MutatesWith

(* One object is made, for the program.                                      *)
LEMMA AllocOne ==
    ASSUME Typed, pc = "run", NEW o \in Obj, Alloc(<<o>>), UNCHANGED registry,
           \A pt : pt = Append(objs, o) => Built(objs, pt, Near, flagged.shared, Len(objs) + 1)
    PROVE  Mutates
<1>1. objs \in Seq(Obj) /\ Len(objs) \in Nat /\ flagged.shared \in SUBSET (1..Len(objs))
  BY HeapFacts
<1>2. objs' = Append(objs, o) /\ Len(objs') = Len(objs) + 1
  <2>1. objs' = objs \o <<o>>
    BY DEF Alloc
  <2> DEFINE pt == Append(objs, o)
  <2>2. pt = objs \o <<o>> /\ Len(pt) = Len(objs) + 1
    BY <1>1, AddOne
  <2> QED
    BY <2>1, <2>2
<1>3. Grows(objs, objs', Near, flagged.shared)
  <2>1. flagged.shared \in SUBSET (1..Len(objs'))
    BY <1>1, <1>2
  <2>2. Built(objs, objs', Near, flagged.shared, Len(objs) + 1)
    BY <1>2
  <2> QED
    BY <1>1, <1>2, <2>1, <2>2, GrowsOne
<1>4. held' = held \cup {Len(objs) + 1} /\ UNCHANGED <<freed, trace, drives, history>>
  BY DEF Alloc
<1>5. Len(objs) + 1 \in New(objs, objs')
  BY <1>1, <1>2 DEF New
<1> QED
  BY <1>3, <1>4, <1>5, MutatesBy

LEMMA TwoGrow ==
    ASSUME Typed, NEW o \in Obj, NEW q \in Obj, objs' = objs \o <<o, q>>,
           \A pt : pt = objs \o <<o, q>> =>
               Built(objs, pt, Near, flagged.shared, Len(objs) + 1) /\ Built(objs, pt, Near, flagged.shared, Len(objs) + 2)
    PROVE  /\ Grows(objs, objs', Near, flagged.shared)
           /\ Len(objs) + 1 \in New(objs, objs') /\ Len(objs) + 2 \in New(objs, objs')
<1>1. objs \in Seq(Obj) /\ Len(objs) \in Nat /\ flagged.shared \in SUBSET (1..Len(objs))
  BY HeapFacts
<1>2. Len(objs') = Len(objs) + 2
  BY <1>1, AddTwo
<1>3. Grows(objs, objs', Near, flagged.shared)
  <2>1. flagged.shared \in SUBSET (1..Len(objs'))
    BY <1>1, <1>2
  <2>2. Built(objs, objs', Near, flagged.shared, Len(objs) + 1) /\ Built(objs, objs', Near, flagged.shared, Len(objs) + 2)
    OBVIOUS
  <2> QED
    BY <1>1, <1>2, <2>1, <2>2, GrowsTwo
<1>4. Len(objs) + 1 \in New(objs, objs') /\ Len(objs) + 2 \in New(objs, objs')
  BY <1>1, <1>2 DEF New
<1> QED
  BY <1>3, <1>4

LEMMA AllocTwo ==
    ASSUME Typed, pc = "run", NEW o \in Obj, NEW q \in Obj, objs' = objs \o <<o, q>>,
           held' = held \cup {Len(objs) + 1} \/ held' = held \cup {Len(objs) + 2}, 
           UNCHANGED <<registry, freed, trace, drives, history>>,
           \A pt : pt = objs \o <<o, q>> =>
               Built(objs, pt, Near, flagged.shared, Len(objs) + 1) /\ Built(objs, pt, Near, flagged.shared, Len(objs) + 2)
    PROVE  Mutates
<1>1. /\ Grows(objs, objs', Near, flagged.shared)
      /\ Len(objs) + 1 \in New(objs, objs') /\ Len(objs) + 2 \in New(objs, objs')
  BY TwoGrow
<1>2. held' \subseteq held \cup Near \cup New(objs, objs') /\ pc = "run"
      /\ UNCHANGED <<registry, freed, trace, drives, history>>
  BY <1>1
<1> QED
  BY ONLY Typed, <1>1, <1>2, MutatesBy

(* Pairs, procedures and iterators.                                          *)

LEMMA TwoUnits ==
    ASSUME Typed, NEW n \in Nat, NEW x \in {Nil, Raw, Static} \cup Near \cup (Len(objs) + 1 .. Len(objs) + n),
           NEW y \in {Nil, Raw, Static} \cup Near \cup (Len(objs) + 1 .. Len(objs) + n),
           NEW type \in {"pair", "procedure", "iter"}
    PROVE  /\ Object(type, <<x, y>>) \in Obj
           /\ \A pt, i : Len(pt) = Len(objs) + n /\ pt[i] = Object(type, <<x, y>>)
                            => Built(objs, pt, Near, flagged.shared, i)
<1> DEFINE o == Object(type, <<x, y>>)
<1>1. Len(objs) \in Nat /\ Near \in SUBSET (1..Len(objs)) /\ Nil \in Int /\ Raw \in Int /\ Static \in Int
  BY HeapFacts
<1>2. x \in Int /\ y \in Int
  BY <1>1
<1>3. <<x, y>> \in Seq(Int) /\ type \in Kinds
  BY <1>2 DEF Kinds
<1>4. o \in Obj /\ o.type = type /\ o.of = Nil /\ o.units = <<x, y>> /\ o.decl = NoUnits
  BY ONLY <1>3, ObjectIs
<1> HIDE DEF o
<1>5. ASSUME NEW pt, NEW i, Len(pt) = Len(objs) + n, pt[i] = o
      PROVE  Built(objs, pt, Near, flagged.shared, i)
  <2>1. New(objs, pt) = Len(objs) + 1 .. Len(objs) + n /\ Len(pt) \in Nat /\ Len(objs) <= Len(pt)
    BY <1>1, <1>5 DEF New
  <2>2. Len(o.units) = 2 /\ UnitsIn(objs, pt, Near, o)
    BY <1>4, <2>1 DEF UnitsIn
  <2>3. Labelled(o.decl)
    BY <1>4, Declared
  <2> QED
    BY <1>1, <1>4, <1>5, <2>1, <2>2, <2>3, BuiltPlain
<1> QED
  BY <1>4, <1>5 DEF o

LEMMA AllocTwoUnits ==
    ASSUME Typed, pc = "run", NEW x \in {Nil, Raw, Static} \cup Near, NEW y \in {Nil, Raw, Static} \cup Near,
           NEW type \in {"pair", "procedure", "iter"}, Alloc(<<Object(type, <<x, y>>)>>), UNCHANGED registry
    PROVE  Mutates
<1> DEFINE o == Object(type, <<x, y>>)
<1>1. objs \in Seq(Obj)
  BY HeapFacts
<1>2. o \in Obj /\ \A pt, i : Len(pt) = Len(objs) + 1 /\ pt[i] = o => Built(objs, pt, Near, flagged.shared, i)
  BY TwoUnits
<1> HIDE DEF o
<1>3. \A pt : pt = Append(objs, o) => Built(objs, pt, Near, flagged.shared, Len(objs) + 1)
  BY <1>1, <1>2, AddOne
<1>4. Alloc(<<o>>)
  BY DEF o
<1> QED
  BY <1>2, <1>3, <1>4, AllocOne

LEMMA ValuesIn == ASSUME Typed PROVE Values \subseteq {Nil, Raw, Static} \cup Near
BY HeapFacts

LEMMA MakePairMutates == ASSUME Typed, MakePair PROVE Mutates
<1>1. PICK x \in Values, y \in Values : Alloc(<<Object("pair", <<x, y>>)>>)
  BY DEF MakePair
<1>2. pc = "run" /\ UNCHANGED registry
  BY DEF MakePair, Runs
<1>3. x \in {Nil, Raw, Static} \cup Near /\ y \in {Nil, Raw, Static} \cup Near
  BY ValuesIn
<1> QED
  BY <1>1, <1>2, <1>3, AllocTwoUnits

LEMMA MakeIterMutates == ASSUME Typed, MakeIter PROVE Mutates
<1>1. PICK x \in {Static} \cup (Handlers \ {Nil}), y \in Values : Alloc(<<Object("iter", <<x, y>>)>>)
  BY DEF MakeIter
<1>2. pc = "run" /\ UNCHANGED registry
  BY DEF MakeIter, Runs
<1>3. x \in {Nil, Raw, Static} \cup Near /\ y \in {Nil, Raw, Static} \cup Near
  BY ValuesIn, NearIs DEF Handlers
<1> QED
  BY <1>1, <1>2, <1>3, AllocTwoUnits

(* Two of them, the second of which may hold the first.                      *)
LEMMA TwiceGrows ==
    ASSUME Typed,
           NEW x \in {Nil, Raw, Static} \cup Near, NEW y \in {Nil, Raw, Static} \cup Near,
           NEW v \in {Nil, Raw, Static} \cup Near, NEW w \in {Nil, Raw, Static} \cup Near \cup {Len(objs) + 1},
           NEW t \in {"pair", "procedure", "iter"}, NEW k \in {"pair", "procedure", "iter"},
           objs' = objs \o <<Object(t, <<x, y>>), Object(k, <<v, w>>)>>
    PROVE  /\ Grows(objs, objs', Near, flagged.shared)
           /\ Len(objs) + 1 \in New(objs, objs') /\ Len(objs) + 2 \in New(objs, objs')
<1> DEFINE o == Object(t, <<x, y>>)
           q == Object(k, <<v, w>>)
<1>1. objs \in Seq(Obj) /\ Len(objs) \in Nat
  BY HeapFacts
<1>2. o \in Obj /\ \A pt, i : Len(pt) = Len(objs) + 2 /\ pt[i] = o => Built(objs, pt, Near, flagged.shared, i)
  BY TwoUnits
<1>3. q \in Obj /\ \A pt, i : Len(pt) = Len(objs) + 2 /\ pt[i] = q => Built(objs, pt, Near, flagged.shared, i)
  <2>1. Len(objs) + 1 \in Len(objs) + 1 .. Len(objs) + 2
    BY <1>1
  <2> QED
    BY <2>1, TwoUnits
<1>4. objs' = objs \o <<o, q>>
  OBVIOUS
<1> HIDE DEF o, q
<1>5. ASSUME NEW pt, pt = objs \o <<o, q>>
      PROVE  Built(objs, pt, Near, flagged.shared, Len(objs) + 1) /\ Built(objs, pt, Near, flagged.shared, Len(objs) + 2)
  <2>1. Len(pt) = Len(objs) + 2 /\ pt[Len(objs) + 1] = o /\ pt[Len(objs) + 2] = q
    BY <1>1, <1>2, <1>3, <1>5, AddTwo
  <2> QED
    BY <1>2, <1>3, <2>1
<1> QED
  BY <1>2, <1>3, <1>4, <1>5, TwoGrow

LEMMA AllocTwice ==
    ASSUME Typed, pc = "run",
           NEW x \in {Nil, Raw, Static} \cup Near, NEW y \in {Nil, Raw, Static} \cup Near,
           NEW v \in {Nil, Raw, Static} \cup Near, NEW w \in {Nil, Raw, Static} \cup Near \cup {Len(objs) + 1},
           NEW t \in {"pair", "procedure", "iter"}, NEW k \in {"pair", "procedure", "iter"},
           objs' = objs \o <<Object(t, <<x, y>>), Object(k, <<v, w>>)>>,
           held' = held \cup {Len(objs) + 1} \/ held' = held \cup {Len(objs) + 2},
           UNCHANGED <<registry, freed, trace, drives, history>>
    PROVE  Mutates
<1>1. /\ Grows(objs, objs', Near, flagged.shared)
      /\ Len(objs) + 1 \in New(objs, objs') /\ Len(objs) + 2 \in New(objs, objs')
  BY TwiceGrows
<1>2. held' \subseteq held \cup Near \cup New(objs, objs') /\ pc = "run"
      /\ UNCHANGED <<registry, freed, trace, drives, history>>
  BY <1>1
<1> QED
  BY ONLY Typed, <1>1, <1>2, MutatesBy

LEMMA AllocIs ==
    ASSUME NEW o, NEW q, Alloc(<<o, q>>)
    PROVE  /\ objs' = objs \o <<o, q>> /\ held' = held \cup {Len(objs) + 2}
           /\ UNCHANGED <<freed, trace, drives, history>>
BY DEF Alloc

LEMMA MakeProcedureMutates == ASSUME Typed, MakeProcedure PROVE Mutates
<1>1. PICK x \in Values : Alloc(<<Object("pair", <<x, Nil>>), Object("procedure", <<Raw, Len(objs) + 1>>)>>)
  BY DEF MakeProcedure
<1>2. pc = "run" /\ UNCHANGED registry
  BY DEF MakeProcedure, Runs
<1>3. x \in {Nil, Raw, Static} \cup Near
  BY ValuesIn
<1>4. /\ objs' = objs \o <<Object("pair", <<x, Nil>>), Object("procedure", <<Raw, Len(objs) + 1>>)>>
      /\ held' = held \cup {Len(objs) + 2} /\ UNCHANGED <<freed, trace, drives, history>>
  BY <1>1, AllocIs
<1> QED
  BY <1>2, <1>3, <1>4, AllocTwice

(* Nothing in the heap changes.                                              *)
LEMMA Unchanged ==
    ASSUME Typed, pc = "run", objs' = objs, held' \subseteq held \cup Near,
           UNCHANGED <<registry, freed, trace, drives, history>>
    PROVE  Mutates
<1>1. objs \in Seq(Obj) /\ Len(objs) \in Nat /\ flagged.shared \in SUBSET (1..Len(objs))
  BY HeapFacts
<1>2. Grows(objs, objs', Near, flagged.shared)
  BY <1>1 DEF Grows, Keeps
<1> QED
  BY <1>2, MutatesBy

LEMMA NearUnits ==
    ASSUME Typed, NEW i \in Near, NEW u \in 1..Len(objs[i].units)
    PROVE  objs[i].units[u] \in {Nil, Raw, Static} \cup Near /\ objs[i].units[u] \in Int
<1>1. /\ Len(objs) \in Nat /\ Shape(objs, flagged.shared, i, objs[i])
      /\ DOMAIN objs[i].units = 1..Len(objs[i].units) /\ objs[i].units \in Seq(Int)
  BY HeapFacts
<1>2. objs[i].units[u] \in {Nil, Raw, Static} \cup 1..Len(objs)
  BY <1>1 DEF Shape, Word
<1>3. objs[i].units[u] \in 1..Len(objs) => objs[i].units[u] \in Refs(objs, objs[i])
  BY <1>1 DEF Refs
<1>4. Closed(objs, Near)
  BY NearIs
<1>5. objs[i].units[u] \in Int
  BY <1>1, LenNat
<1> QED
  BY <1>2, <1>3, <1>4, <1>5 DEF Closed

LEMMA UnitsOf ==
    ASSUME Typed, NEW i \in Near, objs[i].type \in {"pair", "procedure", "iter", "buffer"}
    PROVE  /\ Len(objs[i].units) = 2
           /\ objs[i].units[1] \in {Nil, Raw, Static} \cup Near /\ objs[i].units[2] \in {Nil, Raw, Static} \cup Near
<1>1. Len(objs[i].units) = 2
  BY HeapFacts DEF Shape
<1> QED
  BY <1>1, NearUnits

(* A step of an iterator that makes another.                                 *)
LEMMA SteppedGrows ==
    ASSUME Typed, NEW i \in Near, objs[i].type = "iter", NEW p \in Near, objs[p].type = "pair",
           objs' = objs \o Stepped(i, objs[p].units[1], objs[p].units[2])
    PROVE  /\ Grows(objs, objs', Near, flagged.shared)
           /\ Len(objs) + 1 \in New(objs, objs') /\ Len(objs) + 2 \in New(objs, objs')
<1>1. /\ objs[i].units[1] \in {Nil, Raw, Static} \cup Near
      /\ objs[p].units[1] \in {Nil, Raw, Static} \cup Near /\ objs[p].units[2] \in {Nil, Raw, Static} \cup Near
  BY UnitsOf
<1>2. objs' = objs \o <<Object("iter", <<objs[i].units[1], objs[p].units[2]>>),
                        Object("pair", <<objs[p].units[1], Len(objs) + 1>>)>>
  BY DEF Stepped
<1>3. "iter" \in {"pair", "procedure", "iter"} /\ "pair" \in {"pair", "procedure", "iter"}
      /\ Len(objs) + 1 \in {Nil, Raw, Static} \cup Near \cup {Len(objs) + 1}
  OBVIOUS
<1> QED
  BY ONLY Typed, <1>1, <1>2, <1>3, TwiceGrows

LEMMA SteppedMutates ==
    ASSUME Typed, pc = "run", NEW i \in Near, objs[i].type = "iter",
           NEW p \in Near, objs[p].type = "pair",
           objs' = objs \o Stepped(i, objs[p].units[1], objs[p].units[2]),
           held' = held \cup {Len(objs) + 2}, UNCHANGED <<registry, freed, trace, drives, history>>
    PROVE  Mutates
<1>1. /\ Grows(objs, objs', Near, flagged.shared)
      /\ Len(objs) + 1 \in New(objs, objs') /\ Len(objs) + 2 \in New(objs, objs')
  BY SteppedGrows
<1>2. held' \subseteq held \cup Near \cup New(objs, objs') /\ pc = "run"
      /\ UNCHANGED <<registry, freed, trace, drives, history>>
  BY <1>1
<1> QED
  BY ONLY Typed, <1>1, <1>2, MutatesBy

LEMMA IterStepMutates == ASSUME Typed, IterStep PROVE Mutates
<1>1. PICK i \in LiveIters({Static}) :
          \/ objs[i].units[2] = Nil /\ UNCHANGED <<objs, freed, held, trace, drives, history>>
          \/ ListState(i) /\ Alloc(Stepped(i, objs[objs[i].units[2]].units[1], objs[objs[i].units[2]].units[2]))
  BY DEF IterStep
<1>2. i \in Near /\ objs[i].type = "iter"
  BY NearIs DEF LiveIters
<1>3. pc = "run" /\ UNCHANGED registry
  BY DEF IterStep, Runs
<1>4. CASE UNCHANGED <<objs, freed, held, trace, drives, history>>
  BY <1>3, <1>4, Unchanged
<1>5. CASE ListState(i) /\ Alloc(Stepped(i, objs[objs[i].units[2]].units[1], objs[objs[i].units[2]].units[2]))
  <2> DEFINE p == objs[i].units[2]
  <2>1. p \in Near /\ objs[p].type = "pair"
    <3>1. p \in {Nil, Raw, Static} \cup Near
      BY <1>2, UnitsOf
    <3>2. p \in Ids /\ objs[p].type = "pair" /\ Ids = 1..Len(objs)
      BY <1>5, HeapFacts DEF ListState, IsObj
    <3> QED
      BY <3>1, <3>2 DEF Nil, Raw, Static
  <2>2. /\ objs' = objs \o Stepped(i, objs[p].units[1], objs[p].units[2]) /\ held' = held \cup {Len(objs) + 2}
        /\ UNCHANGED <<freed, trace, drives, history>>
    BY <1>5, AllocIs DEF Stepped
  <2> HIDE DEF p
  <2> QED
    BY <1>2, <1>3, <2>1, <2>2, SteppedMutates
<1> QED
  BY <1>1, <1>4, <1>5

(* Integers.                                                                 *)
LEMMA IntBuilt ==
    ASSUME Typed, NEW n \in Nat, NEW k \in Nat
    PROVE  /\ IntObj(n) \in Obj
           /\ \A pt, i : Len(pt) = Len(objs) + k /\ pt[i] = IntObj(n)
                            => Built(objs, pt, Near, flagged.shared, i)
<1> DEFINE o == IntObj(n)
<1>1. Len(objs) \in Nat /\ Near \in SUBSET (1..Len(objs)) /\ Raw \in Int
  BY HeapFacts
<1>2. "int" \in Kinds /\ <<Raw>> \in Seq(Int)
  BY <1>1 DEF Kinds
<1>3. Object("int", <<Raw>>) \in Obj
  BY <1>2, ObjectIs
<1>4. o \in Obj /\ o.type = "int" /\ o.of = Nil /\ o.units = <<Raw>> /\ o.decl = NoUnits
  BY <1>3 DEF IntObj, Object, Obj
<1> HIDE DEF o
<1>5. ASSUME NEW pt, NEW i, Len(pt) = Len(objs) + k, pt[i] = o
      PROVE  Built(objs, pt, Near, flagged.shared, i)
  <2>1. Len(pt) \in Nat /\ Len(objs) <= Len(pt)
    BY <1>1, <1>5
  <2>2. Labelled(o.decl) /\ \A u \in 1..Len(o.units) : o.units[u] \in {Nil, Raw, Static}
    BY <1>4, Declared
  <2>3. UnitsIn(objs, pt, Near, o)
    BY <2>2 DEF UnitsIn
  <2> QED
    BY <1>1, <1>4, <1>5, <2>1, <2>2, <2>3, BuiltPlain
<1> QED
  BY <1>4, <1>5 DEF o

LEMMA MakeIntMutates == ASSUME Typed, MakeInt PROVE Mutates
<1>1. PICK n \in 0..1 : Alloc(<<IntObj(n)>>)
  BY DEF MakeInt
<1>2. pc = "run" /\ UNCHANGED registry /\ n \in Nat
  BY DEF MakeInt, Runs
<1> DEFINE o == IntObj(n)
<1>3. o \in Obj /\ \A pt, i : Len(pt) = Len(objs) + 1 /\ pt[i] = o => Built(objs, pt, Near, flagged.shared, i)
  BY <1>2, IntBuilt
<1>4. Alloc(<<o>>) /\ objs \in Seq(Obj)
  BY <1>1, HeapFacts
<1> HIDE DEF o
<1>5. \A pt : pt = Append(objs, o) => Built(objs, pt, Near, flagged.shared, Len(objs) + 1)
  BY <1>3, <1>4, AddOne
<1> QED
  BY <1>2, <1>3, <1>4, <1>5, AllocOne

LEMMA MakeVectorMutates == ASSUME Typed, MakeVector PROVE Mutates
<1>0. PICK n \in 0..2 : \E es \in [1..n -> Values] :
         /\ objs' = objs \o <<Object("vector", <<Len(objs) + 2>> \o es), IntObj(n)>>
         /\ held' = held \cup {Len(objs) + 1}
  BY DEF MakeVector
<1>1. PICK es \in [1..n -> Values] :
         /\ objs' = objs \o <<Object("vector", <<Len(objs) + 2>> \o es), IntObj(n)>>
         /\ held' = held \cup {Len(objs) + 1}
  BY <1>0
<1>2. pc = "run" /\ UNCHANGED <<freed, registry, trace, drives, history>> /\ n \in Nat
  BY DEF MakeVector, Runs
<1>3. objs \in Seq(Obj) /\ Len(objs) \in Nat /\ Near \in SUBSET (1..Len(objs))
  BY HeapFacts
<1> DEFINE us == <<Len(objs) + 2>> \o es
           o == Object("vector", us)
           q == IntObj(n)
<1>4. us \in Seq(Int) /\ \A u \in 1..Len(us) : us[u] = Len(objs) + 2 \/ us[u] \in Values
  <2>1. \A k \in 1..n : es[k] \in Values /\ es[k] \in Int
    BY HeapFacts
  <2>2. es \in Seq(Int) /\ Len(es) = n
    BY <1>2, <2>1, SeqDef
  <2>3. <<Len(objs) + 2>> \in Seq(Int)
    BY <1>3
  <2>4. us \in Seq(Int) /\ Len(us) = 1 + n
        /\ \A u \in 1..1 + n : us[u] = IF u <= 1 THEN <<Len(objs) + 2>>[u] ELSE es[u - 1]
    BY <2>2, <2>3, ConcatProperties
  <2>5. \A u \in 1..1 + n : u <= 1 \/ u - 1 \in 1..n
    BY <1>2
  <2>6. \A u \in 1..1 + n : u <= 1 => u = 1
    BY <1>2
  <2> HIDE DEF us
  <2> QED
    BY <2>1, <2>4, <2>5, <2>6
<1> HIDE DEF us
<1>5. o \in Obj /\ o.type = "vector" /\ o.of = Nil /\ o.units = us /\ o.decl = NoUnits
  <2>1. "vector" \in Kinds
    BY DEF Kinds
  <2> QED
    BY <1>4, <2>1, ObjectIs
<1>6. q \in Obj /\ \A pt, i : Len(pt) = Len(objs) + 2 /\ pt[i] = q => Built(objs, pt, Near, flagged.shared, i)
  BY <1>2, IntBuilt
<1>7. objs' = objs \o <<o, q>>
  BY <1>1 DEF us
<1> HIDE DEF o, q
<1>8. ASSUME NEW pt, pt = objs \o <<o, q>>
      PROVE  Built(objs, pt, Near, flagged.shared, Len(objs) + 1) /\ Built(objs, pt, Near, flagged.shared, Len(objs) + 2)
  <2>1. Len(pt) = Len(objs) + 2 /\ pt[Len(objs) + 1] = o /\ pt[Len(objs) + 2] = q
    BY <1>3, <1>5, <1>6, <1>8, AddTwo
  <2>2. Len(pt) \in Nat /\ Len(objs) <= Len(pt) /\ Len(objs) + 2 \in New(objs, pt)
    BY <1>3, <2>1 DEF New
  <2>3. UnitsIn(objs, pt, Near, o)
    BY <1>4, <1>5, <2>2, ValuesIn DEF UnitsIn
  <2>4. Built(objs, pt, Near, flagged.shared, Len(objs) + 1)
    BY <1>3, <1>5, <2>1, <2>2, <2>3, Declared, BuiltPlain
  <2> QED
    BY <1>6, <2>1, <2>4
<1> QED
  BY <1>1, <1>2, <1>5, <1>6, <1>7, <1>8, AllocTwo

LEMMA MakeBufferMutates == ASSUME Typed, MakeBuffer PROVE Mutates
<1>1. objs \in Seq(Obj) /\ Len(objs) \in Nat /\ Near \in SUBSET (1..Len(objs)) /\ Raw \in Int
  BY HeapFacts
<1> DEFINE o == Object("buffer", <<Raw, Raw>>)
           q == Object("buffer", <<Raw, Len(objs) + 1>>)
<1>2. "buffer" \in Kinds /\ <<Raw, Raw>> \in Seq(Int) /\ <<Raw, Len(objs) + 1>> \in Seq(Int)
  BY <1>1 DEF Kinds
<1>3. o \in Obj /\ o.type = "buffer" /\ o.of = Nil /\ o.units = <<Raw, Raw>> /\ o.decl = NoUnits
  BY ONLY <1>2, Declared DEF Object, Obj, Nil, Kinds
<1>4. q \in Obj /\ q.type = "buffer" /\ q.of = Nil /\ q.units = <<Raw, Len(objs) + 1>> /\ q.decl = NoUnits
  BY ONLY <1>2, Declared DEF Object, Obj, Nil, Kinds
<1>5. /\ objs' = objs \o <<o, q>> /\ held' = held \cup {Len(objs) + 2}
      /\ UNCHANGED <<freed, trace, drives, history, registry>> /\ pc = "run"
  BY AllocIs DEF MakeBuffer, Runs
<1> HIDE DEF o, q
<1>6. ASSUME NEW pt, pt = objs \o <<o, q>>
      PROVE  Built(objs, pt, Near, flagged.shared, Len(objs) + 1) /\ Built(objs, pt, Near, flagged.shared, Len(objs) + 2)
  <2>1. Len(pt) = Len(objs) + 2 /\ pt[Len(objs) + 1] = o /\ pt[Len(objs) + 2] = q
    BY <1>1, <1>3, <1>4, <1>6, AddTwo
  <2>2. Len(pt) \in Nat /\ Len(objs) <= Len(pt) /\ Len(objs) + 1 \in New(objs, pt) /\ Len(objs) + 1 \in 1..Len(pt)
    BY <1>1, <2>1 DEF New
  <2>3. Len(o.units) = 2 /\ o.units[1] = Raw /\ o.units[2] = Raw
        /\ Len(q.units) = 2 /\ q.units[1] = Raw /\ q.units[2] = Len(objs) + 1
    BY <1>3, <1>4
  <2>4. UnitsIn(objs, pt, Near, o) /\ UnitsIn(objs, pt, Near, q)
    <3>1. \A u \in 1..2 : u = 1 \/ u = 2
      OBVIOUS
    <3> QED
      BY <2>2, <2>3, <3>1 DEF UnitsIn
  <2>5. Innermost(pt[Len(objs) + 1])
    BY <1>3, <2>1, <2>3 DEF Innermost
  <2>6. Labelled(o.decl) /\ Labelled(q.decl)
    BY <1>3, <1>4, Declared
  <2>7. Built(objs, pt, Near, flagged.shared, Len(objs) + 1)
    BY <1>1, <1>3, <2>1, <2>2, <2>3, <2>4, <2>6, BuiltPlain
  <2>8. Built(objs, pt, Near, flagged.shared, Len(objs) + 2)
    BY <1>1, <1>4, <2>1, <2>2, <2>3, <2>4, <2>5, <2>6, BuiltPlain
  <2> QED
    BY <2>7, <2>8
<1> QED
  BY <1>3, <1>4, <1>5, <1>6, AllocTwo

(* Types and what is made of them.                                           *)
LEMMA StructIs ==
    ASSUME NEW d \in Decl, NEW m \in Int
    PROVE  /\ Struct(d, m) \in Obj /\ Struct(d, m).type = "struct" /\ Struct(d, m).of = Nil
           /\ Struct(d, m).units = <<m>> /\ Struct(d, m).decl = d
<1>1. "struct" \in Kinds /\ <<m>> \in Seq(Int)
  BY DEF Kinds
<1>2. Object("struct", <<m>>) \in Obj
  BY <1>1, ObjectIs
<1> QED
  BY <1>2 DEF Struct, Object, Obj

LEMMA StructBuilt ==
    ASSUME Typed, NEW d \in Decl, Labelled(d), NEW m \in {Nil} \cup Near, NEW sh
    PROVE  /\ Struct(d, m) \in Obj
           /\ \A pt, i : Len(pt) = Len(objs) + 1 /\ pt[i] = Struct(d, m) => Built(objs, pt, Near, sh, i)
<1> DEFINE o == Struct(d, m)
<1>1. Len(objs) \in Nat /\ Near \in SUBSET (1..Len(objs)) /\ Nil \in Int
  BY HeapFacts
<1>2. o \in Obj /\ o.type = "struct" /\ o.of = Nil /\ o.units = <<m>> /\ o.decl = d
  <2>1. m \in Int
    BY <1>1
  <2> QED
    BY <2>1, StructIs
<1> HIDE DEF o
<1>3. ASSUME NEW pt, NEW i, Len(pt) = Len(objs) + 1, pt[i] = o
      PROVE  Built(objs, pt, Near, sh, i)
  <2>1. Len(pt) \in Nat /\ Len(objs) <= Len(pt)
    BY <1>1, <1>3
  <2>2. Len(o.units) = 1 /\ o.units[1] = m /\ m \notin {Raw, Static}
    BY <1>1, <1>2 DEF Nil, Raw, Static
  <2>3. UnitsIn(objs, pt, Near, o)
    BY <1>2 DEF UnitsIn
  <2>4. /\ pt[i] \in Obj /\ pt[i].type = "struct" /\ pt[i].of = Nil /\ Labelled(pt[i].decl)
        /\ Len(pt[i].units) >= 1 /\ pt[i].units[1] \notin {Raw, Static}
    BY <1>2, <1>3, <2>2
  <2>5. UnitsIn(objs, pt, Near, pt[i])
    BY <1>3, <2>3
  <2> HIDE DEF Struct
  <2> QED
    BY <1>1, <2>1, <2>4, <2>5, BuiltPlain
<1> QED
  BY <1>2, <1>3 DEF o

LEMMA HandlersIn == ASSUME Typed PROVE Handlers \subseteq {Nil} \cup Near
BY NearIs DEF Handlers

LEMMA MakeTypeMutates == ASSUME Typed, MakeType PROVE Mutates
<1>1. PICK d \in Decls \cup {PairUnits}, mark \in Handlers : objs' = Append(objs, Struct(d, mark))
  BY DEF MakeType
<1>2. pc = "run" /\ registry' = registry \cup {Len(objs')} /\ UNCHANGED <<freed, held, trace, drives, history>>
  BY DEF MakeType, Runs
<1>3. d \in Decl /\ Labelled(d) /\ mark \in {Nil} \cup Near
  BY Declared, HandlersIn
<1>4. objs \in Seq(Obj) /\ Len(objs) \in Nat /\ flagged.shared \in SUBSET (1..Len(objs))
  BY HeapFacts
<1> DEFINE o == Struct(d, mark)
<1>5. o \in Obj /\ \A pt, i : Len(pt) = Len(objs) + 1 /\ pt[i] = o => Built(objs, pt, Near, flagged.shared, i)
  BY <1>3, StructBuilt
<1>6. o.type = "struct"
  <2>1. mark \in Int
    BY <1>3, HeapFacts
  <2> QED
    BY <1>3, <2>1, StructIs
<1> HIDE DEF o
<1>7. Len(objs') = Len(objs) + 1 /\ objs'[Len(objs) + 1] = o /\ objs' = Append(objs, o)
  <2>1. objs' = Append(objs, o)
    BY <1>1 DEF o
  <2> QED
    BY <1>4, <1>5, <2>1, AddOne
<1>8. Grows(objs, objs', Near, flagged.shared)
  <2>1. flagged.shared \in SUBSET (1..Len(objs'))
    BY <1>4, <1>7
  <2> QED
    BY <1>4, <1>5, <1>7, <2>1, GrowsOne
<1>9. Len(objs') \in New(objs, objs')
  BY <1>4, <1>7 DEF New
<1> QED
  BY <1>2, <1>6, <1>7, <1>8, <1>9, MutatesBy

LEMMA FoundIs == ASSUME Typed, NEW t \in Found PROVE t \in Near /\ t \in 1..Len(objs) /\ objs[t].type = "struct"
BY HeapFacts DEF Found

LEMMA AllocInstance ==
    ASSUME Typed, pc = "run", UNCHANGED registry, NEW t \in Found, NEW us \in Seq(Int),
           \A u \in 1..Len(us) : us[u] \in {Nil} \cup Near, Alloc(<<Instance(t, us)>>)
    PROVE  Mutates
<1> DEFINE o == Instance(t, us)
<1>1. objs \in Seq(Obj) /\ Len(objs) \in Nat /\ Near \in SUBSET (1..Len(objs))
  BY HeapFacts
<1>2. t \in Near /\ t \in 1..Len(objs) /\ objs[t].type = "struct"
  BY FoundIs
<1>3. o \in Obj /\ o.type = "made" /\ o.of = t /\ o.units = us /\ o.decl = NoUnits
  <2>1. "made" \in Kinds
    BY DEF Kinds
  <2>2. Object("made", us) \in Obj
    BY <2>1, ObjectIs
  <2> QED
    BY <1>2, <2>2 DEF Instance, Object, Obj
<1>4. Alloc(<<o>>)
  OBVIOUS
<1> HIDE DEF o
<1>5. ASSUME NEW pt, pt = Append(objs, o) PROVE Built(objs, pt, Near, flagged.shared, Len(objs) + 1)
  <2>1. /\ Len(pt) = Len(objs) + 1 /\ pt[Len(objs) + 1] = o
        /\ \A j \in 1..Len(objs) : pt[j] = objs[j]
    BY <1>1, <1>3, <1>5, AddOne
  <2>2. Len(pt) \in Nat /\ Len(objs) <= Len(pt) /\ t \in 1..(Len(objs) + 1) - 1 /\ pt[t].type = "struct"
    BY <1>1, <1>2, <2>1
  <2>3. UnitsIn(objs, pt, Near, o) /\ Labelled(o.decl)
    BY <1>3, Declared DEF UnitsIn
  <2> QED
    BY <1>1, <1>2, <1>3, <2>1, <2>2, <2>3, BuiltMade
<1> QED
  BY <1>3, <1>4, <1>5, AllocOne

LEMMA MakeInstanceMutates == ASSUME Typed, MakeInstance PROVE Mutates
<1>1. PICK t \in Found, x \in Values : Alloc(<<Instance(t, <<x, Nil>>)>>)
  BY DEF MakeInstance
<1>2. pc = "run" /\ UNCHANGED registry
  BY DEF MakeInstance, Runs
<1>3. x \in Int /\ Nil \in Int /\ x \in {Nil} \cup Near
  BY HeapFacts
<1>4. <<x, Nil>> \in Seq(Int) /\ \A u \in 1..Len(<<x, Nil>>) : <<x, Nil>>[u] \in {Nil} \cup Near
  BY <1>3
<1> QED
  BY <1>1, <1>2, <1>4, AllocInstance

LEMMA MakeObjMutates == ASSUME Typed, MakeObj PROVE Mutates
<1>1. PICK t \in Found, n \in Sizes : Alloc(<<Instance(t, [i \in 1..n |-> Nil])>>)
  BY DEF MakeObj
<1>2. pc = "run" /\ UNCHANGED registry
  BY DEF MakeObj, Runs
<1> DEFINE us == [i \in 1..n |-> Nil]
<1>3. n \in Nat /\ Nil \in Int
  BY ObjectsAssumption, HeapFacts
<1>4. us \in Seq(Int) /\ Len(us) = n
  BY <1>3, SeqDef
<1>5. \A u \in 1..Len(us) : us[u] \in {Nil} \cup Near
  BY <1>4
<1> QED
  BY <1>1, <1>2, <1>4, <1>5, AllocInstance

-----------------------------------------------------------------------------
(* An object changed.                                                        *)
LEMMA ChangedMutates ==
    ASSUME Typed, pc = "run", NEW i, NEW o, Changes(objs, objs', i, o),
           Built(objs, objs', Near, flagged.shared, i),
           held' \subseteq held \cup Near, UNCHANGED <<freed, registry, trace, drives, history>>
    PROVE  Mutates
<1>1. objs \in Seq(Obj) /\ flagged.shared \in SUBSET (1..Len(objs))
  BY HeapFacts
<1>2. Grows(objs, objs', Near, flagged.shared)
  BY <1>1, GrowsChanged
<1> QED
  BY <1>2, MutatesBy

LEMMA WithUnits ==
    ASSUME NEW o \in Obj, NEW us \in Seq(Int), NEW q, q = [o EXCEPT !.units = us]
    PROVE  q \in Obj /\ q.type = o.type /\ q.of = o.of /\ q.decl = o.decl /\ q.units = us
BY DEF Obj

LEMMA NearOf ==
    ASSUME Typed, NEW i \in Near, objs[i].type = "made"
    PROVE  objs[i].of \in Near /\ objs[i].of \in 1..i - 1 /\ objs[objs[i].of].type = "struct"
<1>1. objs[i].of \in 1..i - 1 /\ objs[objs[i].of].type = "struct" /\ i \in 1..Len(objs) /\ Len(objs) \in Nat
  BY HeapFacts DEF Shape
<1>2. objs[i].of \in 1..Len(objs)
  BY <1>1
<1>3. objs[i].of \in Refs(objs, objs[i])
  BY <1>2 DEF Refs
<1>4. objs[i].of \in Near
  BY <1>3, NearIs DEF Closed
<1> QED
  BY <1>1, <1>4

(* A unit of one that may be stored into.                                    *)
LEMMA UnitGrows ==
    ASSUME Typed, NEW i \in Near, objs[i].type \in {"pair", "vector", "made", "iter"},
           NEW u \in 1..Len(objs[i].units), NEW w \in {Nil, Raw, Static} \cup Near,
           objs' = [objs EXCEPT ![i].units[u] = w]
    PROVE  Grows(objs, objs', Near, flagged.shared)
<1> DEFINE us == [objs[i].units EXCEPT ![u] = w]
           o == [objs[i] EXCEPT !.units = us]
<1>1. /\ objs \in Seq(Obj) /\ Len(objs) \in Nat /\ Near \in SUBSET (1..Len(objs))
      /\ flagged.shared \in SUBSET (1..Len(objs))
      /\ objs[i] \in Obj /\ Shape(objs, flagged.shared, i, objs[i]) /\ objs[i].units \in Seq(Int)
      /\ Nil \in Int /\ Raw \in Int /\ Static \in Int
  BY HeapFacts
<1>2. us \in Seq(Int) /\ Len(us) = Len(objs[i].units)
      /\ \A k \in 1..Len(us) : us[k] = IF k = u THEN w ELSE objs[i].units[k]
  <2>1. w \in Int
    BY <1>1
  <2> QED
    BY ONLY <1>1, <2>1, u \in 1..Len(objs[i].units), ExceptSeq
<1> HIDE DEF us
<1>3. /\ o \in Obj /\ o.type = objs[i].type /\ o.of = objs[i].of
      /\ o.decl = objs[i].decl /\ o.units = us
  BY <1>1, <1>2, WithUnits
<1>4. objs' = [objs EXCEPT ![i] = o]
  BY DEF us
<1> HIDE DEF o
<1>5. Changes(objs, objs', i, o)
  BY <1>1, <1>3, <1>4 DEF Changes
<1>6. /\ objs' \in Seq(Obj) /\ Len(objs') = Len(objs) /\ objs'[i] = o
      /\ \A j \in 1..Len(objs) : Keeps(objs, objs', j)
  <2>1. /\ objs' \in Seq(Obj) /\ Len(objs') = Len(objs) /\ Len(objs) \in Nat
        /\ objs'[i] = o /\ \A j \in 1..Len(objs) : (j # i => objs'[j] = objs[j]) /\ Keeps(objs, objs', j)
    BY ONLY <1>1, <1>5, Changed
  <2> QED
    BY <2>1
<1>7. Len(objs') \in Nat /\ Len(objs) <= Len(objs')
  BY <1>1, <1>6
<1>8. UnitsIn(objs, objs', Near, o)
  BY <1>2, <1>3, NearUnits DEF UnitsIn
<1>9. Labelled(o.decl)
  BY <1>1, <1>3 DEF Shape
<1>10. Built(objs, objs', Near, flagged.shared, i)
  <2>1. CASE o.type = "made"
    <3>1. o.of \in Near \cap 1..i - 1 /\ objs[o.of].type = "struct" /\ o.of \in 1..Len(objs)
      BY <1>1, <1>3, <2>1, NearOf
    <3>2. objs'[o.of].type = "struct"
      BY <1>6, <3>1 DEF Keeps
    <3> QED
      BY <1>1, <1>3, <1>6, <1>7, <1>8, <1>9, <2>1, <3>1, <3>2, BuiltMade
  <2>2. CASE o.type # "made"
    <3>1. o.of = Nil /\ o.type \in {"pair", "vector", "iter"}
      BY <1>1, <1>3, <2>2 DEF Shape
    <3>2. o.type \in {"pair", "iter"} => Len(o.units) = 2
      BY <1>1, <1>2, <1>3 DEF Shape
    <3> QED
      BY <1>1, <1>3, <1>6, <1>7, <1>8, <1>9, <2>2, <3>1, <3>2, BuiltPlain
  <2> QED
    BY <2>1, <2>2
<1> QED
  BY ONLY <1>1, <1>5, <1>10, GrowsChanged

LEMMA UnitMutates ==
    ASSUME Typed, pc = "run", NEW i \in Near, objs[i].type \in {"pair", "vector", "made", "iter"},
           NEW u \in 1..Len(objs[i].units), NEW w \in {Nil, Raw, Static} \cup Near,
           objs' = [objs EXCEPT ![i].units[u] = w],
           held' \subseteq held \cup Near, UNCHANGED <<freed, registry, trace, drives, history>>
    PROVE  Mutates
<1>1. Grows(objs, objs', Near, flagged.shared)
  BY UnitGrows
<1>2. UNCHANGED <<freed, registry, trace, drives, history>> /\ held' \subseteq held \cup Near \cup New(objs, objs')
  OBVIOUS
<1>3. Typed /\ pc = "run"
  OBVIOUS
<1> QED
  BY ONLY <1>1, <1>2, <1>3, MutatesBy

LEMMA PtrSetMutates == ASSUME Typed, PtrSet PROVE Mutates
<1>1. PICK i \in Settable : \E u \in DOMAIN objs[i].units, w \in Values \cup {Raw} :
          objs' = [objs EXCEPT ![i].units[u] = w]
  BY DEF PtrSet
<1>2. PICK u \in DOMAIN objs[i].units, w \in Values \cup {Raw} : objs' = [objs EXCEPT ![i].units[u] = w]
  BY <1>1
<1>3. pc = "run" /\ UNCHANGED <<freed, held, registry, trace, drives, history>>
  BY DEF PtrSet, Runs
<1>4. i \in Near /\ objs[i].type \in {"pair", "vector", "made", "iter"}
  BY NearIs DEF Settable
<1>5. u \in 1..Len(objs[i].units) /\ w \in {Nil, Raw, Static} \cup Near
  BY <1>4, HeapFacts, ValuesIn
<1> QED
  BY <1>2, <1>3, <1>4, <1>5, UnitMutates

LEMMA SetUnitLabelsMutates == ASSUME Typed, SetUnitLabels PROVE Mutates
<1>1. PICK i \in Live, d \in Decls : objs[i].type = "struct" /\ objs' = [objs EXCEPT ![i].decl = d]
  BY DEF SetUnitLabels
<1>0. i \in Near
  BY NearIs
<1>2. pc = "run" /\ UNCHANGED <<freed, held, registry, trace, drives, history>>
  BY DEF SetUnitLabels, Runs
<1> DEFINE o == [objs[i] EXCEPT !.decl = d]
<1>3. /\ objs \in Seq(Obj) /\ Len(objs) \in Nat /\ Near \in SUBSET (1..Len(objs))
      /\ objs[i] \in Obj /\ Shape(objs, flagged.shared, i, objs[i])
  BY <1>0, HeapFacts
<1>4. d \in Decl /\ Labelled(d)
  BY Declared
<1>5. /\ o \in Obj /\ o.type = "struct" /\ o.of = objs[i].of /\ o.decl = d /\ o.units = objs[i].units
  BY <1>1, <1>3, <1>4 DEF Obj
<1>6. objs' = [objs EXCEPT ![i] = o]
  BY <1>1
<1> HIDE DEF o
<1>7. Changes(objs, objs', i, o)
  BY <1>0, <1>1, <1>3, <1>5, <1>6 DEF Changes
<1>8. objs' \in Seq(Obj) /\ Len(objs') = Len(objs) /\ objs'[i] = o
  BY <1>3, <1>7, Changed
<1>9. Len(objs') \in Nat /\ Len(objs) <= Len(objs')
  BY <1>3, <1>8
<1>10. UnitsIn(objs, objs', Near, o) /\ o.of = Nil /\ Len(o.units) >= 1
  BY <1>0, <1>1, <1>3, <1>5, NearUnits DEF UnitsIn, Shape
<1>11. o.units[1] \notin {Raw, Static}
  BY <1>1, <1>3, <1>5 DEF Shape, Nil, Raw, Static
<1>12. Built(objs, objs', Near, flagged.shared, i)
  BY <1>3, <1>4, <1>5, <1>8, <1>9, <1>10, <1>11, BuiltPlain
<1> QED
  BY <1>2, <1>7, <1>12, ChangedMutates

(* A base's tree takes one more.                                             *)
LEMMA BaseTakes ==
    ASSUME Typed, NEW b \in LiveBases, NEW x \in Int, NEW n \in Nat,
           x \in Near \/ x \in Len(objs) + 1 .. Len(objs) + n,
           NEW o, o = [objs[b] EXCEPT !.units = Append(@, x)]
    PROVE  /\ b \in Near /\ b \in 1..Len(objs) /\ o \in Obj /\ o.type = "base" /\ objs[b].type = "base"
           /\ o.of = objs[b].of
           /\ \A pt, sh : Len(pt) = Len(objs) + n /\ pt[b] = o /\ flagged.shared \subseteq sh
                             => Built(objs, pt, Near, sh, b)
<1>1. b \in Near /\ objs[b].type = "base"
  BY NearIs DEF LiveBases
<1>2. /\ Len(objs) \in Nat /\ Near \in SUBSET (1..Len(objs))
      /\ objs[b] \in Obj /\ Shape(objs, flagged.shared, b, objs[b]) /\ objs[b].units \in Seq(Int)
      /\ Len(objs[b].units) \in Nat
  BY <1>1, HeapFacts
<1> DEFINE us == Append(objs[b].units, x)
<1>3. /\ us \in Seq(Int) /\ Len(us) = Len(objs[b].units) + 1 /\ us[Len(objs[b].units) + 1] = x
      /\ \A k \in 1..Len(objs[b].units) : us[k] = objs[b].units[k]
  BY <1>2, AppendProperties
<1> HIDE DEF us
<1>4. /\ o \in Obj /\ o.type = "base" /\ o.of = objs[b].of /\ o.decl = objs[b].decl /\ o.units = us
  <2>1. o = [objs[b] EXCEPT !.units = us]
    BY DEF us
  <2>2. o \in Obj /\ o.type = objs[b].type /\ o.of = objs[b].of /\ o.decl = objs[b].decl /\ o.units = us
    BY ONLY <1>2, <1>3, <2>1, WithUnits
  <2> QED
    BY <1>1, <2>2
<1>5. o.of = Nil /\ Labelled(o.decl) /\ Len(objs[b].units) >= 1 /\ objs[b].units[1] \in flagged.shared
  BY <1>1, <1>2, <1>4 DEF Shape
<1>6. Len(o.units) >= 1 /\ o.units[1] \in flagged.shared
  <2>1. 1 \in 1..Len(objs[b].units)
    BY <1>2, <1>5
  <2> QED
    BY <1>2, <1>3, <1>4, <1>5, <2>1
<1>7. ASSUME NEW pt, NEW sh, Len(pt) = Len(objs) + n, pt[b] = o, flagged.shared \subseteq sh
      PROVE  Built(objs, pt, Near, sh, b)
  <2>1. Len(pt) \in Nat /\ Len(objs) <= Len(pt) /\ New(objs, pt) = Len(objs) + 1 .. Len(objs) + n
    BY <1>2, <1>7 DEF New
  <2>2. ASSUME NEW k \in 1..Len(o.units) PROVE o.units[k] \in {Nil, Raw, Static} \cup Near \cup New(objs, pt)
    <3>1. k \in 1..Len(objs[b].units) \/ k = Len(objs[b].units) + 1
      BY <1>2, <1>3, <1>4
    <3>2. CASE k \in 1..Len(objs[b].units)
      BY <1>1, <1>3, <1>4, <3>2, NearUnits
    <3>3. CASE k = Len(objs[b].units) + 1
      BY <1>3, <1>4, <2>1, <3>3
    <3> QED
      BY <3>1, <3>2, <3>3
  <2>3. UnitsIn(objs, pt, Near, o)
    BY <2>2 DEF UnitsIn
  <2>4. o.units[1] \in sh
    BY <1>6, <1>7
  <2> QED
    BY <1>2, <1>4, <1>5, <1>6, <1>7, <2>1, <2>3, <2>4, BuiltPlain
<1> QED
  BY <1>1, <1>2, <1>4, <1>7

LEMMA BaseBindMutates == ASSUME Typed, BaseBind PROVE Mutates
<1>1. PICK b \in LiveBases, x \in Live : objs' = [objs EXCEPT ![b].units = Append(@, x)]
  BY DEF BaseBind
<1>2. pc = "run" /\ UNCHANGED <<freed, held, registry, trace, drives, history>>
  BY DEF BaseBind, Runs
<1> DEFINE o == [objs[b] EXCEPT !.units = Append(@, x)]
<1>3. objs \in Seq(Obj) /\ Len(objs) \in Nat /\ x \in Int
  BY HeapFacts
<1>4. objs' = [objs EXCEPT ![b] = o]
  BY <1>1
<1>5. /\ b \in Near /\ b \in 1..Len(objs) /\ o \in Obj /\ o.type = "base" /\ objs[b].type = "base"
      /\ o.of = objs[b].of
      /\ \A pt, sh : Len(pt) = Len(objs) + 0 /\ pt[b] = o /\ flagged.shared \subseteq sh
                        => Built(objs, pt, Near, sh, b)
  BY <1>3, NearIs, BaseTakes
<1> HIDE DEF o
<1>6. Changes(objs, objs', b, o)
  BY <1>4, <1>5 DEF Changes
<1>7. Len(objs') = Len(objs) + 0 /\ objs'[b] = o
  BY <1>3, <1>6, Changed
<1>8. Built(objs, objs', Near, flagged.shared, b)
  BY <1>5, <1>7
<1> QED
  BY <1>2, <1>6, <1>8, ChangedMutates

LEMMA BaseTakesType ==
    ASSUME Typed, NEW b \in LiveBases, NEW d \in Decl, Labelled(d), NEW m \in {Nil} \cup Near,
           objs' = Append([objs EXCEPT ![b].units = Append(@, Len(objs) + 1)], Struct(d, m)),
           NEW sh \in SUBSET (1..Len(objs) + 1), flagged.shared \subseteq sh
    PROVE  /\ Grows(objs, objs', Near, sh) /\ Len(objs') = Len(objs) + 1 /\ Len(objs) \in Nat
           /\ objs'[Len(objs) + 1] = Struct(d, m) /\ b \in Near
           /\ \A j \in 1..Len(objs) : j # b => objs'[j] = objs[j]
           /\ objs'[b].units = Append(objs[b].units, Len(objs) + 1)
<1> DEFINE o == [objs[b] EXCEPT !.units = Append(@, Len(objs) + 1)]
           mt == [objs EXCEPT ![b] = o]
           q == Struct(d, m)
<1>1. objs \in Seq(Obj) /\ Len(objs) \in Nat
  BY HeapFacts
<1>2. /\ b \in Near /\ b \in 1..Len(objs) /\ o \in Obj /\ o.type = "base" /\ objs[b].type = "base"
      /\ o.of = objs[b].of
      /\ \A pt, s : Len(pt) = Len(objs) + 1 /\ pt[b] = o /\ flagged.shared \subseteq s
                        => Built(objs, pt, Near, s, b)
  <2>1. Len(objs) + 1 \in Int /\ Len(objs) + 1 \in Len(objs) + 1 .. Len(objs) + 1
    BY <1>1
  <2>2. /\ b \in Near /\ b \in 1..Len(objs) /\ o \in Obj /\ o.type = "base" /\ objs[b].type = "base"
        /\ o.of = objs[b].of
        /\ \A pt, s : Len(pt) = Len(objs) + 1 /\ pt[b] = o /\ flagged.shared \subseteq s
                          => Built(objs, pt, Near, s, b)
    <3> DEFINE x == Len(objs) + 1
    <3>1. o = [objs[b] EXCEPT !.units = Append(@, x)]
      OBVIOUS
    <3>2. x \in Int /\ 1 \in Nat /\ (x \in Near \/ x \in Len(objs) + 1 .. Len(objs) + 1)
      BY <2>1
    <3> HIDE DEF o, x
    <3> QED
      BY ONLY Typed, b \in LiveBases, <3>1, <3>2, BaseTakes, ZenonT(30)
  <2> QED
    BY <2>2
<1>3. objs' = Append(mt, q) /\ o.units = Append(objs[b].units, Len(objs) + 1)
  <2>1. objs[b] \in Obj
    BY <1>2, HeapFacts
  <2> QED
    BY <2>1 DEF Obj
<1>4. q \in Obj /\ \A pt, i : Len(pt) = Len(objs) + 1 /\ pt[i] = q => Built(objs, pt, Near, sh, i)
  BY StructBuilt
<1> HIDE DEF o, q
<1>5. Changes(objs, mt, b, o)
  BY <1>2 DEF Changes
<1> HIDE DEF mt
<1>6. /\ mt \in Seq(Obj) /\ Len(mt) = Len(objs) /\ mt[b] = o
      /\ \A j \in 1..Len(objs) : j # b => mt[j] = objs[j]
  BY <1>1, <1>5, Changed
<1>7. /\ Len(objs') = Len(objs) + 1 /\ objs'[Len(objs) + 1] = q
      /\ \A j \in 1..Len(objs) : objs'[j] = mt[j]
  <2>1. q \in Obj /\ objs' = Append(mt, q) /\ mt \in Seq(Obj)
    BY <1>3, <1>4, <1>6
  <2>2. /\ Len(objs') = Len(mt) + 1 /\ objs'[Len(mt) + 1] = q
        /\ \A j \in 1..Len(mt) : objs'[j] = mt[j]
    BY ONLY <2>1, AddOne
  <2> QED
    BY <1>6, <2>2
<1>8. sh \in SUBSET (1..Len(objs'))
  BY <1>7
<1>9. Built(objs, objs', Near, sh, b) /\ Built(objs, objs', Near, sh, Len(objs) + 1)
  BY <1>2, <1>4, <1>6, <1>7
<1>10. Grows(objs, objs', Near, sh)
  BY <1>1, <1>3, <1>4, <1>5, <1>8, <1>9, GrowsBoth
<1> QED
  BY <1>1, <1>2, <1>3, <1>6, <1>7, <1>10 DEF q

LEMMA ChildMakesTypeMutates == ASSUME Typed, ChildMakesType PROVE Mutates
<1>1. PICK b \in LiveBases, d \in {PairUnits} \cup Decls :
          objs' = Append([objs EXCEPT ![b].units = Append(@, Len(objs) + 1)], Struct(d, Nil))
  BY DEF ChildMakesType
<1>2. pc = "run" /\ UNCHANGED <<freed, held, registry, trace, drives, history>>
  BY DEF ChildMakesType, Runs
<1>3. d \in Decl /\ Labelled(d)
  BY Declared
<1>4. flagged.shared \in SUBSET (1..Len(objs) + 1)
  <2>1. flagged.shared \in SUBSET (1..Len(objs)) /\ Len(objs) \in Nat
    BY HeapFacts
  <2> QED
    BY <2>1
<1>5. Grows(objs, objs', Near, flagged.shared)
  BY <1>1, <1>3, <1>4, BaseTakesType
<1> QED
  BY <1>2, <1>5, MutatesBy

LEMMA DropMutates == ASSUME Typed, Drop PROVE Mutates
<1>1. pc = "run" /\ objs' = objs /\ held' \subseteq held \cup Near
      /\ UNCHANGED <<registry, freed, trace, drives, history>>
  BY DEF Drop, Runs
<1> QED
  BY <1>1, Unchanged

(* A base and the slots it keeps.                                            *)
LEMMA MakeBaseMutates == ASSUME Typed, MakeBase PROVE Mutates
<1>1. /\ objs \in Seq(Obj) /\ Len(objs) \in Nat /\ Near \in SUBSET (1..Len(objs))
      /\ flagged.shared \in SUBSET (1..Len(objs)) /\ Raw \in Int /\ Static \in Int
  BY HeapFacts
<1> DEFINE o  == Object("base", <<Len(objs) + 2>>)
           q  == Object("slots", <<Static, Raw>>)
           sh == flagged.shared \cup {Len(objs) + 2}
<1>2. "base" \in Kinds /\ "slots" \in Kinds /\ <<Static, Raw>> \in Seq(Int) /\ <<Len(objs) + 2>> \in Seq(Int)
  BY <1>1 DEF Kinds
<1>3. o \in Obj /\ o.type = "base" /\ o.of = Nil /\ o.units = <<Len(objs) + 2>> /\ o.decl = NoUnits
  BY ONLY <1>2, Declared DEF Object, Obj, Nil, Kinds
<1>4. q \in Obj /\ q.type = "slots" /\ q.of = Nil /\ q.units = <<Static, Raw>> /\ q.decl = NoUnits
  BY ONLY <1>2, Declared DEF Object, Obj, Nil, Kinds
<1>5. /\ objs' = objs \o <<o, q>> /\ held' = held \cup {Len(objs) + 1} /\ pc = "run"
      /\ flagged' = [flagged EXCEPT !.shared = @ \cup {Len(objs) + 2}]
      /\ UNCHANGED <<freed, registry, flag, todo, then, pc, at, drives, history>>
  BY DEF MakeBase, Runs
<1> HIDE DEF o, q
<1>6. Len(objs') = Len(objs) + 2 /\ objs'[Len(objs) + 1] = o /\ objs'[Len(objs) + 2] = q
  BY ONLY <1>1, <1>3, <1>4, <1>5, AddTwo
<1>7. /\ Len(objs') \in Nat /\ Len(objs) <= Len(objs')
      /\ Len(objs) + 1 \in New(objs, objs') /\ Len(objs) + 2 \in New(objs, objs')
  BY <1>1, <1>6 DEF New
<1>8. Built(objs, objs', Near, sh, Len(objs) + 1)
  <2>1. Len(o.units) = 1 /\ o.units[1] = Len(objs) + 2 /\ Labelled(o.decl)
    BY <1>3, Declared
  <2>2. UnitsIn(objs, objs', Near, o)
    BY <1>7, <2>1 DEF UnitsIn
  <2>3. o.units[1] \in sh /\ Len(o.units) >= 1
    BY <2>1
  <2> HIDE DEF sh
  <2> QED
    BY ONLY <1>1, <1>3, <1>6, <1>7, <2>1, <2>2, <2>3, BuiltPlain
<1>9. Built(objs, objs', Near, sh, Len(objs) + 2)
  <2>1. \A u \in 1..Len(q.units) : q.units[u] \in {Nil, Raw, Static}
    <3>1. Len(q.units) = 2 /\ q.units[1] = Static /\ q.units[2] = Raw /\ \A u \in 1..2 : u = 1 \/ u = 2
      BY <1>4
    <3> QED
      BY <3>1
  <2>2. UnitsIn(objs, objs', Near, q) /\ Labelled(q.decl)
    BY <1>4, <2>1, Declared DEF UnitsIn
  <2> QED
    BY <1>1, <1>4, <1>6, <1>7, <2>1, <2>2, BuiltPlain
<1>10. sh \in SUBSET (1..Len(objs'))
  BY <1>1, <1>6
<1> HIDE DEF sh
<1>11. Grows(objs, objs', Near, sh)
  BY ONLY <1>1, <1>3, <1>4, <1>5, <1>8, <1>9, <1>10, GrowsTwo
<1>12. flagged'.shared = sh
  BY <1>5 DEF Typed, sh
<1>13. \E more \in SUBSET New(objs, objs') :
          /\ flagged' = [flagged EXCEPT !.shared = @ \cup more]
          /\ \A i \in more : objs'[i].type # "made"
  <2>1. {Len(objs) + 2} \in SUBSET New(objs, objs') /\ \A i \in {Len(objs) + 2} : objs'[i].type # "made"
    BY <1>4, <1>6, <1>7
  <2> QED
    BY <1>5, <2>1
<1>14. drives' \in Seq([iter : Ids, how : {"next", "step"}]) /\ Driven' \subseteq Driven \cup Running
  BY <1>5 DEF Typed, Driven
<1>15. /\ pc' = "run" /\ UNCHANGED <<freed, flag, todo, then, at, honest, pinned>>
       /\ held' \subseteq held \cup Near \cup New(objs, objs') /\ registry' = registry /\ pc = "run"
  BY <1>5, <1>7 DEF history
<1> QED
  BY ONLY <1>11, <1>12, <1>13, <1>14, <1>15 DEF Mutates

(* Iterators.                                                                *)
LEMMA YieldsNear ==
    ASSUME Typed, NEW w \in {Nil, Raw, Static} \cup Near, Yields(w)
    PROVE  held' \subseteq held \cup Near
<1>1. \A i \in Ids : i \notin {Nil, Raw, Static}
  BY HeapFacts DEF Nil, Raw, Static
<1> QED
  BY <1>1 DEF Yields

LEMMA IterNextMutates == ASSUME Typed, IterNext PROVE Mutates
<1>1. PICK i \in LiveIters({Static}) :
          \/ objs[i].units[2] = Nil /\ UNCHANGED <<objs, held>>
          \/ /\ ListState(i)
             /\ objs' = [objs EXCEPT ![i].units[2] = objs[objs[i].units[2]].units[2]]
             /\ Yields(objs[objs[i].units[2]].units[1])
  BY DEF IterNext
<1>2. i \in Near /\ objs[i].type = "iter"
  BY NearIs DEF LiveIters
<1>3. pc = "run" /\ UNCHANGED <<freed, registry, trace, drives, history>>
  BY DEF IterNext, Runs
<1>4. CASE UNCHANGED <<objs, held>>
  <2>1. held' \subseteq held \cup Near
    BY <1>4
  <2> QED
    BY <1>3, <1>4, <2>1, Unchanged
<1>5. CASE /\ ListState(i)
           /\ objs' = [objs EXCEPT ![i].units[2] = objs[objs[i].units[2]].units[2]]
           /\ Yields(objs[objs[i].units[2]].units[1])
  <2> DEFINE p == objs[i].units[2]
  <2>1. p \in Near /\ objs[p].type = "pair"
    <3>1. p \in {Nil, Raw, Static} \cup Near
      BY <1>2, UnitsOf
    <3>2. p \in Ids /\ objs[p].type = "pair" /\ Ids = 1..Len(objs)
      BY <1>5, HeapFacts DEF ListState, IsObj
    <3> QED
      BY <3>1, <3>2 DEF Nil, Raw, Static
  <2>2. objs' = [objs EXCEPT ![i].units[2] = objs[p].units[2]] /\ Yields(objs[p].units[1])
    BY <1>5
  <2> HIDE DEF p
  <2>3. objs[p].units[1] \in {Nil, Raw, Static} \cup Near /\ objs[p].units[2] \in {Nil, Raw, Static} \cup Near
    BY <2>1, UnitsOf
  <2>4. held' \subseteq held \cup Near
    BY <2>2, <2>3, YieldsNear
  <2>5. 2 \in 1..Len(objs[i].units)
    BY <1>2, UnitsOf
  <2> QED
    BY ONLY Typed, <1>2, <1>3, <2>2, <2>3, <2>4, <2>5, UnitMutates
<1> QED
  BY <1>1, <1>4, <1>5

LEMMA IterCallMutates == ASSUME Typed, IterCall PROVE Mutates
<1>1. PICK i \in LiveIters(Ids), how \in {"next", "step"} : drives' = Append(drives, [iter |-> i, how |-> how])
  BY DEF IterCall
<1>2. pc = "run" /\ UNCHANGED <<heap, trace, history>>
  BY DEF IterCall, Runs
<1>3. i \in Near /\ objs[i].type = "iter" /\ i \in Ids
  BY NearIs DEF LiveIters
<1> DEFINE D == [iter : Ids, how : {"next", "step"}]
           e == [iter |-> i, how |-> how]
<1>4. drives \in Seq(D) /\ e \in D /\ Len(drives) \in Nat
  BY <1>3, LenNat DEF Typed
<1> HIDE DEF D
<1>5. e.iter = i /\ drives' = Append(drives, e)
  BY <1>1
<1> HIDE DEF e
<1>6. /\ drives' \in Seq(D) /\ Len(drives') = Len(drives) + 1 /\ drives'[Len(drives) + 1] = e
      /\ \A k \in 1..Len(drives) : drives'[k] = drives[k]
  BY ONLY <1>4, <1>5, AppendProperties
<1>7. Driven' \subseteq Driven \cup Running
  <2>1. \A k \in 1..Len(drives') : k \in 1..Len(drives) \/ k = Len(drives) + 1
    BY <1>4, <1>6
  <2> QED
    BY <1>3, <1>5, <1>6, <2>1 DEF Driven, Running
<1>8. objs' = objs /\ held' = held /\ registry' = registry /\ freed' = freed
  BY <1>2 DEF heap
<1>9. Grows(objs, objs', Near, flagged.shared)
  BY <1>8, HeapFacts DEF Grows, Keeps
<1> QED
  BY <1>2, <1>6, <1>7, <1>8, <1>9, MutatesWith DEF D

(* An iterator's closure returns, and nothing had freed the iterator.        *)
LEMMA ReturnsIs ==
    ASSUME Typed, NEW d, Returns(d)
    PROVE  /\ d.iter \in Running /\ d.how \in {"next", "step"} /\ pc = "run"
           /\ drives' \in Seq([iter : Ids, how : {"next", "step"}]) /\ Driven' \subseteq Driven
           /\ UNCHANGED <<freed, registry, flagged, flag, todo, then, at, history>>
<1>1. drives # <<>> /\ d = drives[Len(drives)] /\ drives' = SubSeq(drives, 1, Len(drives) - 1)
  BY DEF Returns
<1> DEFINE D == [iter : Ids, how : {"next", "step"}]
<1>2. drives \in Seq(D) /\ Len(drives) \in Nat
  BY LenNat DEF Typed
<1> HIDE DEF D
<1>3. Len(drives) # 0 /\ Len(drives) \in 1..Len(drives) /\ DOMAIN drives = 1..Len(drives)
  BY <1>1, <1>2, EmptySeq, LenNat
<1>4. Len(drives) - 1 \in 0..Len(drives)
  BY <1>2, <1>3
<1>5. /\ drives' \in Seq(D) /\ Len(drives') = Len(drives) - 1
      /\ \A k \in 1..Len(drives) - 1 : drives'[k] = drives[k]
  <2>1. \A k \in 1..Len(drives) - 1 : drives[k] \in D /\ k \in 1..Len(drives)
    BY <1>2, <1>3, LenNat
  <2> QED
    BY <1>1, <1>2, <1>3, <1>4, <2>1, SubSeqProperties
<1>6. Driven' \subseteq Driven
  <2>1. \A k \in 1..Len(drives) - 1 : k \in 1..Len(drives)
    BY <1>2
  <2> QED
    BY <1>5, <2>1 DEF Driven
<1>7. d.iter \in Driven /\ d.how \in {"next", "step"}
  BY <1>1, <1>3, DrivenIs
<1>8. d.iter \in Running
  BY <1>7, NearIs DEF Typed, Running
<1> QED
  BY <1>5, <1>6, <1>7, <1>8 DEF Returns, Runs, D

LEMMA IterReturnMutates ==
    ASSUME Typed, IterReturn, pc' = pc
    PROVE  Mutates
<1>1. PICK d : /\ Returns(d)
        /\ \/ UNCHANGED <<objs, held>>
           \/ /\ d.iter \notin freed /\ d.how = "next"
              /\ \/ /\ objs' = [objs EXCEPT ![d.iter].units[2] = Nil]
                    /\ UNCHANGED held
                 \/ \E p \in Answers :
                       /\ objs' = [objs EXCEPT ![d.iter].units[2] = objs[p].units[2]]
                       /\ Yields(objs[p].units[1])
           \/ /\ \E p \in Answers :
                    objs' = objs \o Stepped(d.iter, objs[p].units[1], objs[p].units[2])
              /\ held' = held \cup {Len(objs')}
  BY DEF IterReturn
<1> DEFINE i == d.iter
<1>2. /\ i \in Near /\ objs[i].type = "iter" /\ pc = "run"
      /\ drives' \in Seq([iter : Ids, how : {"next", "step"}]) /\ Driven' \subseteq Driven
      /\ UNCHANGED <<freed, registry, flagged, flag, todo, then, at, history>>
  BY <1>1, ReturnsIs DEF Running
<1>3. UNCHANGED <<freed, trace, history>> /\ registry' = registry
  BY <1>2 DEF trace
<1> HIDE DEF i
<1>4. ASSUME Grows(objs, objs', Near, flagged.shared), held' \subseteq held \cup Near \cup New(objs, objs')
      PROVE  Mutates
  <2>1. /\ registry' \subseteq registry \cup New(objs, objs') /\ \A t \in registry' \ registry : objs'[t].type = "struct"
        /\ Driven' \subseteq Driven \cup Running
    BY <1>2, <1>3
  <2> QED
    BY ONLY Typed, <1>2, <1>3, <1>4, <2>1, MutatesWith
<1>5. \A p \in Answers : p \in Near /\ objs[p].type = "pair"
  BY NearIs DEF Answers
<1>6. CASE UNCHANGED <<objs, held>>
  <2>1. Grows(objs, objs', Near, flagged.shared)
    BY <1>6, HeapFacts DEF Grows, Keeps
  <2> QED
    BY <1>4, <1>6, <2>1
<1>7. ASSUME NEW w \in {Nil, Raw, Static} \cup Near, objs' = [objs EXCEPT ![i].units[2] = w], held' \subseteq held \cup Near
      PROVE  Mutates
  <2>1. 2 \in 1..Len(objs[i].units)
    BY ONLY Typed, <1>2, UnitsOf
  <2>2. Grows(objs, objs', Near, flagged.shared)
    BY ONLY Typed, <1>2, <1>7, <2>1, UnitGrows
  <2>3. held' \subseteq held \cup Near \cup New(objs, objs')
    BY ONLY <1>7
  <2> QED
    BY ONLY <1>4, <2>2, <2>3
<1>8. ASSUME NEW p \in Answers, objs' = [objs EXCEPT ![i].units[2] = objs[p].units[2]], Yields(objs[p].units[1])
      PROVE  Mutates
  <2>1. objs[p].units[1] \in {Nil, Raw, Static} \cup Near /\ objs[p].units[2] \in {Nil, Raw, Static} \cup Near
    BY ONLY Typed, p \in Answers, <1>5, UnitsOf
  <2>2. held' \subseteq held \cup Near
    BY ONLY Typed, <1>8, <2>1, YieldsNear
  <2> QED
    BY ONLY <1>7, <1>8, <2>1, <2>2
<1>9. ASSUME NEW p \in Answers, objs' = objs \o Stepped(i, objs[p].units[1], objs[p].units[2]), held' = held \cup {Len(objs')}
      PROVE  Mutates
  <2>1. /\ Grows(objs, objs', Near, flagged.shared)
        /\ Len(objs) + 1 \in New(objs, objs') /\ Len(objs) + 2 \in New(objs, objs')
    BY ONLY Typed, p \in Answers, <1>2, <1>5, <1>9, SteppedGrows
  <2>2. Len(objs') \in New(objs, objs')
    <3>1. Len(objs) \in Nat /\ Len(objs') \in Nat
      BY ONLY <2>1, HeapFacts, Typed, LenNat DEF Grows
    <3> QED
      BY ONLY <2>1, <3>1 DEF New
  <2> QED
    BY ONLY <1>4, <1>9, <2>1, <2>2
<1> QED
  <2>1. CASE \E p \in Answers : /\ objs' = [objs EXCEPT ![i].units[2] = objs[p].units[2]]
                                /\ Yields(objs[p].units[1])
    BY <1>8, <2>1
  <2>2. CASE objs' = [objs EXCEPT ![i].units[2] = Nil] /\ UNCHANGED held
    BY ONLY <1>7, <2>2
  <2>3. CASE /\ \E p \in Answers : objs' = objs \o Stepped(i, objs[p].units[1], objs[p].units[2])
             /\ held' = held \cup {Len(objs')}
    BY <1>9, <2>3
  <2> QED
    BY <1>1, <1>6, <2>1, <2>2, <2>3 DEF i

(* What a program's operation is.                                            *)
Plain ==
    \/ MakePair \/ MakeProcedure \/ MakeVector \/ MakeBuffer \/ MakeInt
    \/ MakeType \/ SetUnitLabels \/ MakeInstance \/ MakeObj \/ PtrSet \/ Drop
    \/ MakeBase \/ BaseBind \/ ChildMakesType \/ MakeIter \/ IterNext \/ IterStep \/ IterCall

LEMMA PlainMutates == ASSUME Typed, Plain PROVE Mutates
BY MakePairMutates, MakeProcedureMutates, MakeVectorMutates, MakeBufferMutates, MakeIntMutates,
   MakeTypeMutates, SetUnitLabelsMutates, MakeInstanceMutates, MakeObjMutates, PtrSetMutates, DropMutates,
   MakeBaseMutates, BaseBindMutates, ChildMakesTypeMutates, MakeIterMutates, IterNextMutates,
   IterStepMutates, IterCallMutates DEF Plain
-----------------------------------------------------------------------------
(* What leaves the heap as it is.                                            *)
Still == UNCHANGED <<objs, freed, held, registry, drives>>

LEMMA StillIs ==
    ASSUME Still
    PROVE  /\ Ids' = Ids /\ Roots' = Roots /\ Live' = Live /\ Driven' = Driven /\ Near' = Near
           /\ \A S : ReachedFrom(S)' = ReachedFrom(S)
           /\ \A w : Inner(w)' = Inner(w)
           /\ \A i : Meant(i)' = Meant(i)
           /\ \A i : objs'[i] = objs[i] /\ Refers(objs[i])' = Refers(objs[i])
<1>1. objs' = objs /\ freed' = freed /\ held' = held /\ registry' = registry /\ drives' = drives
  BY DEF Still
<1>2. Ids' = Ids /\ Roots' = Roots /\ Driven' = Driven
  BY <1>1 DEF Ids, Roots, Driven
<1>3. \A S : ReachedFrom(S)' = ReachedFrom(S)
  BY <1>1, <1>2 DEF ReachedFrom, Refers
<1>4. Live' = Live
  BY <1>1, <1>2 DEF Live, ReachedFrom, Refers
<1>5. Near' = Near
  BY <1>1, <1>2 DEF Near, Reaches, Refs
<1>6. \A w : Inner(w)' = Inner(w)
  BY <1>1, <1>2 DEF Inner, IsObj
<1>7. \A i : Refers(objs[i])' = Refers(objs[i])
  BY <1>1, <1>2 DEF Refers
<1>8. \A i : Sound(objs[i])' = Sound(objs[i])
  BY <1>1, <1>2 DEF Sound, Fits, MarksItself, DeclOf, Units, Measured, IsObj
<1>9. \A i : Meant(i)' = Meant(i)
  BY <1>1, <1>6, <1>7, <1>8 DEF Meant
<1> QED
  BY <1>1, <1>2, <1>3, <1>4, <1>5, <1>6, <1>7, <1>9

LEMMA StillTyped ==
    ASSUME Typed, Still, flagged' \in [mark : SUBSET Ids, shared : SUBSET Ids],
           flagged.shared \subseteq flagged'.shared, pinned' \subseteq Ids,
           flag' \in {"mark", "shared"}, then' \in {"run", "sweep"}, pc' \in {"run", "mark", "sweep", "crashed"},
           todo' \in Seq(Word(objs)), at' \in 0..Len(objs), honest' \in BOOLEAN,
           then' = "sweep" /\ pc' = "mark" => flag' = "mark"
    PROVE  Typed'
<1>1. objs' = objs /\ freed' = freed /\ held' = held /\ registry' = registry /\ drives' = drives
  BY DEF Still
<1>2. Ids' = Ids /\ Driven' = Driven
  BY StillIs
<1>3. Formed(objs', flagged'.shared)
  <2>1. objs \in Seq(Obj) /\ Len(objs) \in Nat /\ Ids = 1..Len(objs)
    BY HeapFacts
  <2>2. Grows(objs, objs, {}, flagged'.shared)
    BY <2>1 DEF Grows, Keeps
  <2>3. Formed(objs, flagged.shared)
    BY DEF Typed
  <2>4. Formed(objs, flagged'.shared)
    BY <2>2, <2>3, GrowsFormed
  <2> QED
    BY <1>1, <2>4
<1>4. /\ freed' \subseteq Ids' /\ held' \subseteq Ids' /\ registry' \subseteq Ids' /\ pinned' \subseteq Ids'
      /\ \A t \in registry' : objs'[t].type = "struct"
      /\ drives' \in Seq([iter : Ids', how : {"next", "step"}])
      /\ \A i \in Driven' : objs'[i].type = "iter"
  BY <1>1, <1>2 DEF Typed
<1>5. todo' \in Seq(Word(objs')) /\ at' \in 0..Len(objs') /\ flagged' \in [mark : SUBSET Ids', shared : SUBSET Ids']
  BY <1>1, <1>2
<1> QED
  BY <1>3, <1>4, <1>5 DEF Typed

(* What the process does otherwise, when it runs a program.                  *)
LEMMA ClearedSafe ==
    ASSUME Typed, Safe, Still, UNCHANGED <<flagged, pinned>> \/ ChainClear, pc = "run", pc' = "run",
           honest' => honest, UNCHANGED pinned
    PROVE  Safe'
<1> SUFFICES ASSUME honest' PROVE pc' # "crashed" /\ Unfreed' /\ Pinned' /\ Tracing' /\ Collecting' /\ Sweeping'
  BY DEF Safe
<1>1. honest /\ Unfreed /\ Pinned /\ ~Pinning /\ ~Pinning'
  BY DEF Safe, Pinning
<1>2. flagged'.shared = flagged.shared /\ pinned' = pinned /\ freed' = freed
  BY DEF ChainClear, Still, Typed
<1>3. Ids' = Ids /\ Near' = Near /\ \A i : objs'[i] = objs[i]
  BY StillIs
<1>4. Unfreed'
  BY <1>1, <1>2, <1>3 DEF Unfreed
<1>5. Pinned'
  BY <1>1, <1>2, <1>3 DEF Pinned
<1> QED
  BY <1>4, <1>5 DEF Tracing, Collecting, Sweeping

LEMMA ChainClearTyped == ASSUME Typed, ChainClear PROVE Typed'
<1>1. /\ Still /\ UNCHANGED <<flag, todo, then, pc, at, honest, pinned>>
      /\ flagged' = [flagged EXCEPT !.mark = {}]
  BY DEF ChainClear, Still, heap, history
<1>2. flagged' \in [mark : SUBSET Ids, shared : SUBSET Ids] /\ flagged'.shared = flagged.shared
  BY <1>1 DEF Typed
<1>3. /\ pinned' \subseteq Ids /\ flag' \in {"mark", "shared"} /\ then' \in {"run", "sweep"}
      /\ pc' \in {"run", "mark", "sweep", "crashed"} /\ todo' \in Seq(Word(objs)) /\ at' \in 0..Len(objs)
      /\ honest' \in BOOLEAN /\ (then' = "sweep" /\ pc' = "mark" => flag' = "mark")
  BY <1>1 DEF Typed
<1> QED
  BY <1>1, <1>2, <1>3, StillTyped

LEMMA ChainClearSafe == ASSUME Typed, Safe, ChainClear PROVE Safe'
<1>1. Still /\ pc = "run" /\ pc' = "run" /\ UNCHANGED <<honest, pinned>>
  BY DEF ChainClear, Still, heap, history, Runs
<1> QED
  BY <1>1, ClearedSafe

LEMMA AskUnitsTyped == ASSUME Typed, AskUnits PROVE Typed'
<1>1. /\ Still /\ UNCHANGED <<flagged, flag, todo, then, at, pinned>>
      /\ pc' \in {pc, "crashed"} /\ honest' \in BOOLEAN /\ pc = "run"
  BY DEF AskUnits, Still, heap, Runs, Typed
<1>2. /\ flagged' \in [mark : SUBSET Ids, shared : SUBSET Ids] /\ flagged'.shared = flagged.shared
      /\ pinned' \subseteq Ids /\ flag' \in {"mark", "shared"} /\ then' \in {"run", "sweep"}
      /\ todo' \in Seq(Word(objs)) /\ at' \in 0..Len(objs)
  BY <1>1 DEF Typed
<1> QED
  BY <1>1, <1>2, StillTyped

LEMMA AskUnitsSafe == ASSUME Typed, Safe, AskUnits PROVE Safe'
<1> SUFFICES ASSUME honest' PROVE Safe'
  BY DEF Safe
<1>1. /\ Still /\ UNCHANGED <<flagged, pinned>> /\ pc = "run"
  BY DEF AskUnits, Still, heap, Runs
<1>2. PICK i \in Live : /\ pc' = IF Lengthless(objs[i]) THEN "crashed" ELSE pc
                        /\ honest' = (honest /\ (DeclOf(objs[i]).count < 0 =>
                                      objs[i].units # <<>> /\ objs[i].units[1] > 0))
  BY DEF AskUnits
<1>3. honest /\ Unfreed
  BY <1>1, <1>2 DEF Safe
<1>4. ~Lengthless(objs[i])
  <2> SUFFICES ASSUME Lengthless(objs[i]) PROVE FALSE
    OBVIOUS
  <2>1. /\ objs[i].units # <<>> /\ objs[i].units[1] > 0 /\ ~IsObj(objs[i].units[1])
    BY <1>2 DEF Lengthless
  <2>2. i \in Near
    BY NearIs
  <2>3. 1 \in 1..Len(objs[i].units)
    <3>1. objs[i].units \in Seq(Int)
      BY <2>2, HeapFacts
    <3> QED
      BY <2>1, <3>1, EmptySeq
  <2>4. objs[i].units[1] \in {Nil, Raw, Static} \cup Near
    BY <2>2, <2>3, NearUnits
  <2>5. objs[i].units[1] \in Near
    BY <2>1, <2>4 DEF Nil, Raw, Static
  <2>6. Near \subseteq Ids /\ Near \cap freed = {}
    BY <1>3, NearIs DEF Unfreed
  <2> QED
    BY <2>1, <2>5, <2>6 DEF IsObj
<1>5. pc' = "run"
  BY <1>1, <1>2, <1>4
<1> QED
  BY <1>1, <1>3, <1>5, ClearedSafe

(* A driver that finds its iterator freed.                                   *)
LEMMA IterReturnTyped == ASSUME Typed, IterReturn PROVE Typed'
<1>1. CASE pc' = pc
  BY <1>1, IterReturnMutates, MutatesTyped
<1>2. CASE pc' # pc
  <2>1. PICK d : Returns(d) /\ UNCHANGED <<objs, held>> /\ pc' = "crashed"
    BY <1>2 DEF IterReturn
  <2>2. /\ drives' \in Seq([iter : Ids, how : {"next", "step"}]) /\ Driven' \subseteq Driven
        /\ UNCHANGED <<freed, registry, flagged, flag, todo, then, at, history>>
    BY <2>1, ReturnsIs
  <2>3. Ids' = Ids
    BY <2>1 DEF Ids
  <2>4. UNCHANGED <<honest, pinned>>
    BY <2>2 DEF history
  <2> QED
    BY <2>1, <2>2, <2>3, <2>4 DEF Typed
<1> QED
  BY <1>1, <1>2

LEMMA IterReturnSafe == ASSUME Typed, Safe, IterReturn PROVE Safe'
<1>1. CASE pc' = pc
  BY <1>1, IterReturnMutates, MutatesSafe
<1>2. CASE pc' # pc
  <2>1. PICK d : Returns(d) /\ d.iter \in freed
    BY <1>2 DEF IterReturn
  <2>2. d.iter \in Running /\ UNCHANGED history
    BY <2>1, ReturnsIs
  <2>3. honest' = honest /\ d.iter \in Near
    BY <2>2 DEF Running, history
  <2> QED
    BY <2>1, <2>3 DEF Safe, Unfreed
<1> QED
  BY <1>1, <1>2
-----------------------------------------------------------------------------
(* A traversal is begun.                                                     *)
Words(ws) == {ws[k] : k \in 1..Len(ws)}

LEMMA StillExtends ==
    ASSUME Typed, Still, UNCHANGED flagged, pinned' \subseteq pinned \cup Near
    PROVE  Extends
<1>1. objs' = objs /\ flagged' = flagged /\ Ids' = Ids /\ Driven' = Driven
      /\ freed' = freed /\ held' = held /\ registry' = registry /\ drives' = drives
  BY StillIs DEF Still
<1>2. Grows(objs, objs', Near, flagged'.shared)
  BY <1>1, HeapFacts DEF Grows, Keeps
<1>3. flagged' \in [mark : SUBSET Ids', shared : SUBSET Ids'] /\ drives' \in Seq([iter : Ids, how : {"next", "step"}])
  BY <1>1 DEF Typed
<1> QED
  BY <1>1, <1>2, <1>3 DEF Extends

LEMMA BegunTyped ==
    ASSUME Typed, Still, UNCHANGED flagged, pinned' \subseteq pinned \cup Near, at' = at,
           NEW ws \in Seq(Word(objs)), NEW f \in {"mark", "shared"}, NEW next \in {"run", "sweep"},
           BeginTraversal(ws, f, next), next = "sweep" => f = "mark"
    PROVE  Typed'
<1>1. Extends
  BY StillExtends
<1>2. flag' = f /\ todo' = ws /\ then' = next /\ pc' = "mark" /\ honest' \in BOOLEAN
  BY DEF BeginTraversal, Typed
<1>3. todo' \in Seq(Word(objs')) /\ at' \in 0..Len(objs')
  BY <1>2 DEF Still, Typed
<1> QED
  BY <1>1, <1>2, <1>3, ExtendsTyped

(* A base's slot vector is SHARED, and the base reaches it.                  *)
LEMMA NoBaseReached ==
    ASSUME Typed, NEW S \in SUBSET Ids, ReachedFrom(S) \cap flagged.shared = {}
    PROVE  \A i \in ReachedFrom(S) : objs[i].type # "base"
<1> SUFFICES ASSUME NEW i \in ReachedFrom(S), objs[i].type = "base" PROVE FALSE
  OBVIOUS
<1>1. Len(objs) \in Nat /\ Ids = 1..Len(objs) /\ flagged.shared \subseteq Ids
  BY HeapFacts
<1>2. ReachedFrom(S) = Reaches(objs, S)
  BY ReachedIs
<1>3. ReachedFrom(S) \subseteq Ids /\ Closed(objs, ReachedFrom(S))
  BY <1>1, <1>2, ReachCovers
<1>4. i \in 1..Len(objs)
  BY <1>1, <1>3
<1>5. /\ objs[i].units[1] \in flagged.shared /\ Len(objs[i].units) >= 1
      /\ DOMAIN objs[i].units = 1..Len(objs[i].units) /\ Len(objs[i].units) \in Nat
  BY <1>4, FormedTypes DEF Typed, Shape
<1>6. 1 \in DOMAIN objs[i].units
  BY <1>5
<1>7. objs[i].units[1] \in Refs(objs, objs[i])
  BY <1>1, <1>5, <1>6 DEF Refs
<1> QED
  BY <1>3, <1>5, <1>7 DEF Closed

(* What was found as the traversal began.                                    *)
LEMMA SoundIs ==
    ASSUME Typed, NEW ws, ws \in Seq(Int), AllSound(ws)
    PROVE  /\ \A i \in Live : Meant(i)
           /\ \A w \in Words(ws) : ~Inner(w)
           /\ Driven \subseteq Live
<1>1. DOMAIN ws = 1..Len(ws)
  BY LenNat
<1>2. DOMAIN drives = 1..Len(drives)
  BY LenNat DEF Typed
<1> QED
  BY <1>1, <1>2 DEF AllSound, Meant, Words, Driven

LEMMA BegunSafe ==
    ASSUME Typed, Typed', Safe, Still, UNCHANGED flagged, pinned' \subseteq pinned \cup Live, pc = "run",
           NEW ws \in Seq({Nil} \cup Live), NEW f, NEW next, BeginTraversal(ws, f, next),
           f = "mark" => pinned' = pinned,
           f = "shared" => \E S \in SUBSET Ids : /\ pinned' \subseteq flagged.shared \cup ReachedFrom(S)
                                                 /\ S \subseteq Words(ws) /\ ReachedFrom(S) \cap flagged.shared = {},
           next = "sweep" => Roots \subseteq Words(ws)
    PROVE  Safe'
<1> SUFFICES ASSUME honest' PROVE pc' # "crashed" /\ Unfreed' /\ Pinned' /\ Tracing' /\ Collecting' /\ Sweeping'
  BY DEF Safe
<1>1. /\ flag' = f /\ todo' = ws /\ then' = next /\ pc' = "mark" /\ honest /\ AllSound(ws)
      /\ next = "sweep" => flagged.mark = {}
  BY DEF BeginTraversal
<1>2. Unfreed /\ Pinned /\ ~Pinning /\ pinned \subseteq flagged.shared
  BY <1>1 DEF Safe, Pinning, Pinned
<1>3. /\ Ids' = Ids /\ Roots' = Roots /\ Live' = Live /\ Driven' = Driven
      /\ \A S : ReachedFrom(S)' = ReachedFrom(S)
      /\ \A w : Inner(w)' = Inner(w)
      /\ \A i : Meant(i)' = Meant(i)
      /\ \A i : objs'[i] = objs[i] /\ Refers(objs[i])' = Refers(objs[i])
      /\ flagged' = flagged
  BY StillIs
<1>4. ToDo' = Words(ws)
  BY <1>1 DEF ToDo, Words
<1>5. ws \in Seq(Int) /\ Words(ws) \subseteq {Nil} \cup Live
  <2>1. \A k \in 1..Len(ws) : ws[k] \in {Nil} \cup Live
    BY LenNat
  <2>2. {Nil} \cup Live \subseteq Int
    BY HeapFacts
  <2> QED
    BY <2>1, <2>2, SeqWider DEF Words
<1>6. Unfreed'
  <2>1. pinned' \subseteq pinned \cup Near
    BY NearIs
  <2> QED
    BY <1>2, <2>1, StillExtends, ExtendsUnfreed
<1>7. Pinned'
  <2>1. ASSUME NEW i \in flagged'.shared, objs'[i].type = "made" PROVE objs'[i].of \in flagged'.shared
    BY <1>2, <1>3, <2>1 DEF Pinned
  <2>2. CASE ~Pinning'
    <3>1. f # "shared"
      BY <1>1, <2>2 DEF Pinning
    <3>2. f = "mark"
      BY <1>1, <3>1 DEF Typed
    <3> QED
      BY <1>2, <1>3, <2>1, <2>2, <3>2 DEF Pinned
  <2>3. CASE Pinning'
    <3>1. f = "shared"
      BY <1>1, <2>3 DEF Pinning
    <3>2. PICK S \in SUBSET Ids : /\ pinned' \subseteq flagged.shared \cup ReachedFrom(S)
                                  /\ S \subseteq Words(ws) /\ ReachedFrom(S) \cap flagged.shared = {}
      BY <3>1
    <3>4. \A i \in ReachedFrom(S) : objs[i].type # "base"
      BY <3>2, NoBaseReached
    <3>3. Promised(S)'
      BY <1>3, <1>4, <3>2, <3>4 DEF Promised
    <3> QED
      BY <1>3, <2>1, <2>3, <3>3 DEF Pinned
  <2> QED
    BY <2>2, <2>3
<1>8. Tracing'
  BY <1>1, <1>3, <1>4, <1>5, SoundIs DEF Tracing
<1>9. Collecting'
  BY <1>1, <1>3, <1>4 DEF Collecting
<1> QED
  BY <1>1, <1>6, <1>7, <1>8, <1>9 DEF Sweeping

LEMMA WordsIn ==
    ASSUME Typed, NEW ws \in Seq({Nil} \cup Live)
    PROVE  ws \in Seq(Word(objs))
<1>1. {Nil} \cup Live \subseteq Word(objs)
  BY HeapFacts, LiveIs DEF Word
<1> QED
  BY <1>1, LenNat, SeqWider

(* The collector is begun with what the program holds.                       *)
LEMMA OrderIs ==
    ASSUME Typed
    PROVE  OrderOf(Roots) \in Seq({Nil} \cup Live) /\ Roots \subseteq Words(OrderOf(Roots))
<1>1. Ids = 1..Len(objs) /\ Len(objs) \in Nat /\ Roots \subseteq Live /\ Live \subseteq Ids
  BY HeapFacts, LiveIs DEF Roots
<1> DEFINE ws == OrderOf(Roots)
<1>2. \A i \in 1..Len(objs) : ws[i] = IF i \in Roots THEN i ELSE Nil
  BY <1>1 DEF OrderOf
<1>3. ws \in [1..Len(objs) -> {Nil} \cup Live]
  BY <1>1 DEF OrderOf
<1>4. ws \in Seq({Nil} \cup Live) /\ Len(ws) = Len(objs)
  BY <1>1, <1>3, SeqDef DEF OrderOf
<1> HIDE DEF ws
<1>5. Roots \subseteq Words(ws)
  BY <1>1, <1>2, <1>4 DEF Words
<1> QED
  BY <1>4, <1>5 DEF ws

LEMMA CollectTyped == ASSUME Typed, Collect PROVE Typed'
<1>1. /\ BeginTraversal(OrderOf(Roots), "mark", "sweep") /\ Still /\ UNCHANGED <<flagged, pinned>> /\ at' = at
  BY DEF Collect, Still, heap
<1>2. OrderOf(Roots) \in Seq(Word(objs))
  BY OrderIs, WordsIn
<1> QED
  BY <1>1, <1>2, BegunTyped

LEMMA CollectSafe == ASSUME Typed, Safe, Collect PROVE Safe'
<1>1. /\ BeginTraversal(OrderOf(Roots), "mark", "sweep") /\ Still /\ UNCHANGED <<flagged, pinned>> /\ pc = "run"
  BY DEF Collect, Still, heap, Runs
<1>2. Typed'
  BY CollectTyped
<1> QED
  BY <1>1, <1>2, OrderIs, BegunSafe

LEMMA OneWord ==
    ASSUME Typed, NEW i \in Live
    PROVE  <<i>> \in Seq({Nil} \cup Live) /\ Words(<<i>>) = {i}
<1>1. <<i>> \in Seq({Nil} \cup Live) /\ Len(<<i>>) = 1 /\ <<i>>[1] = i
  OBVIOUS
<1>2. \A k \in 1..1 : k = 1
  OBVIOUS
<1>3. Words(<<i>>) = {i}
  BY <1>1, <1>2 DEF Words
<1> QED
  BY <1>1, <1>3

LEMMA TreeMarkTyped == ASSUME Typed, TreeMark PROVE Typed'
<1>1. PICK i \in Live : BeginTraversal(<<i>>, "mark", "run")
  BY DEF TreeMark
<1>2. Still /\ UNCHANGED <<flagged, pinned>> /\ at' = at
  BY DEF TreeMark, Still, heap
<1>3. <<i>> \in Seq(Word(objs))
  BY OneWord, WordsIn
<1> QED
  BY <1>1, <1>2, <1>3, BegunTyped

LEMMA TreeMarkSafe == ASSUME Typed, Safe, TreeMark PROVE Safe'
<1>1. PICK i \in Live : BeginTraversal(<<i>>, "mark", "run")
  BY DEF TreeMark
<1>2. Still /\ UNCHANGED <<flagged, pinned>> /\ pc = "run"
  BY DEF TreeMark, Still, heap, Runs
<1>3. Typed'
  BY TreeMarkTyped
<1> QED
  BY <1>1, <1>2, <1>3, OneWord, BegunSafe

(* A pin promises what it reaches, or nothing.                               *)
LEMMA ReachedFacts ==
    ASSUME Typed, NEW S \in SUBSET Ids
    PROVE  /\ S \subseteq ReachedFrom(S) /\ ReachedFrom(S) \subseteq Ids
           /\ \A i \in ReachedFrom(S) : Refers(objs[i]) \subseteq ReachedFrom(S)
           /\ S \subseteq Live => ReachedFrom(S) \subseteq Live
           /\ ReachedFrom({}) = {}
<1>1. Len(objs) \in Nat /\ Ids = 1..Len(objs) /\ ReachedFrom(S) = Reaches(objs, S)
  BY HeapFacts, ReachedIs
<1>2. S \subseteq Reaches(objs, S) /\ Reaches(objs, S) \subseteq Ids /\ Closed(objs, Reaches(objs, S))
  BY <1>1, ReachCovers
<1>3. \A i \in ReachedFrom(S) : Refers(objs[i]) \subseteq ReachedFrom(S)
  BY <1>1, <1>2, RefersIs DEF Closed
<1>4. S \subseteq Live => Reaches(objs, S) \subseteq Live
  BY <1>1, LiveIs, ReachWithin
<1>5. ReachedFrom({}) = {}
  <2>1. Closed(objs, {})
    BY DEF Closed
  <2> QED
    BY <1>1, <2>1, ReachedIs, ReachWithin
<1> QED
  BY <1>1, <1>2, <1>3, <1>4, <1>5

LEMMA PinTyped == ASSUME Typed, Pin PROVE Typed'
<1>1. PICK i \in Live : BeginTraversal(<<i>>, "shared", "run") /\ Promise(ReachedFrom({i}))
  BY DEF Pin
<1>2. Still /\ UNCHANGED flagged /\ at' = at
  BY DEF Pin, Still, heap
<1>3. <<i>> \in Seq(Word(objs))
  BY OneWord, WordsIn
<1>4. pinned' \subseteq pinned \cup Near
  <2>1. {i} \in SUBSET Ids /\ {i} \subseteq Live
    BY LiveIs
  <2>2. ReachedFrom({i}) \subseteq Near
    BY <2>1, ReachedFacts, NearIs
  <2> QED
    BY <1>1, <2>2 DEF Promise
<1> QED
  BY <1>1, <1>2, <1>3, <1>4, BegunTyped

LEMMA PinSafe == ASSUME Typed, Safe, Pin PROVE Safe'
<1> SUFFICES ASSUME honest' PROVE Safe'
  BY DEF Safe
<1>1. PICK i \in Live : BeginTraversal(<<i>>, "shared", "run") /\ Promise(ReachedFrom({i}))
  BY DEF Pin
<1>2. Still /\ UNCHANGED flagged /\ pc = "run"
  BY DEF Pin, Still, heap, Runs
<1>3. Typed'
  BY PinTyped
<1>4. {i} \in SUBSET Ids /\ {i} \subseteq Live /\ ReachedFrom({i}) \subseteq Live
  BY LiveIs, ReachedFacts
<1>5. pinned' \subseteq pinned \cup Live
  BY <1>1, <1>4 DEF Promise
<1>6. pinned \subseteq flagged.shared
  BY <1>1, <1>2 DEF BeginTraversal, Safe, Pinned, Pinning
<1>7. \E S \in SUBSET Ids : /\ pinned' \subseteq flagged.shared \cup ReachedFrom(S)
                            /\ S \subseteq Words(<<i>>) /\ ReachedFrom(S) \cap flagged.shared = {}
  <2>1. CASE ReachedFrom({i}) \cap flagged.shared = {}
    BY <1>1, <1>4, <1>6, <2>1, OneWord DEF Promise
  <2>2. CASE ReachedFrom({i}) \cap flagged.shared # {}
    <3>1. pinned' = pinned /\ ReachedFrom({}) = {} /\ {} \in SUBSET Ids
      BY <1>1, <1>4, <2>2, ReachedFacts DEF Promise
    <3> QED
      BY <1>6, <3>1
  <2> QED
    BY <2>1, <2>2
<1> QED
  BY <1>1, <1>2, <1>3, <1>5, <1>7, OneWord, BegunSafe
-----------------------------------------------------------------------------
(* A type made in a child from outside it.                                   *)
LEMMA ReachMore ==
    ASSUME NEW os, Len(os) \in Nat, NEW pt, Len(pt) \in Nat, Len(os) <= Len(pt),
           NEW S \in SUBSET (1..Len(os)), NEW X \in SUBSET (1..Len(pt)), S \subseteq X, Closed(pt, X),
           \A i \in 1..Len(os) : Refs(os, os[i]) \subseteq Refs(pt, pt[i])
    PROVE  Reaches(os, S) \subseteq X
<1> DEFINE Y == X \cap 1..Len(os)
<1>1. S \subseteq Y
  OBVIOUS
<1>2. Closed(os, Y)
  <2>1. \A i \in Y : Refs(os, os[i]) \subseteq X
    BY DEF Closed
  <2>2. \A i \in Y : Refs(os, os[i]) \subseteq 1..Len(os)
    BY DEF Refs
  <2> QED
    BY <2>1, <2>2 DEF Closed
<1> HIDE DEF Y
<1> QED
  BY <1>1, <1>2, ReachWithin DEF Y

Adopts(b, m) ==
    /\ objs' = Append([objs EXCEPT ![b].units = Append(@, Len(objs) + 1)], Struct(PairUnits, m))
    /\ flagged' = [flagged EXCEPT !.shared = @ \cup {b}]
    /\ Promise({b, Len(objs) + 1} \cup ReachedFrom({m} \ {Nil}))
    /\ BeginTraversal(<<Len(objs) + 1>>, "shared", "run")
    /\ UNCHANGED <<freed, held, registry, at, drives>>

LEMMA BaseMakeTypeIs ==
    ASSUME BaseMakeType
    PROVE  pc = "run" /\ \E b \in LiveBases, m \in Handlers : Adopts(b, m)
BY DEF BaseMakeType, Adopts, Runs

(* What the heap is then.                                                    *)
Adopted(b, m, n) ==
    /\ Grows(objs, objs', Near, flagged'.shared) /\ objs' \in Seq(Obj)
    /\ Len(objs) \in Nat /\ n = Len(objs) + 1 /\ Len(objs') = n /\ New(objs, objs') = {n}
    /\ b \in Live /\ b \in 1..Len(objs) /\ b # n /\ objs[b].type = "base" /\ objs'[b].type = "base"
    /\ objs'[n] = Struct(PairUnits, m) /\ m \in {Nil} \cup Live
    /\ \A i \in 1..Len(objs) : i # b => objs'[i] = objs[i]
    /\ objs'[b].units = Append(objs[b].units, n) /\ objs'[b].of = Nil
    /\ flagged'.shared = flagged.shared \cup {b} /\ flagged'.mark = flagged.mark

LEMMA AdoptsIs ==
    ASSUME Typed, NEW b \in LiveBases, NEW m \in Handlers, Adopts(b, m)
    PROVE  Adopted(b, m, Len(objs) + 1)
<1>1. /\ objs' = Append([objs EXCEPT ![b].units = Append(@, Len(objs) + 1)], Struct(PairUnits, m))
      /\ flagged' = [flagged EXCEPT !.shared = @ \cup {b}]
  BY DEF Adopts
<1>2. b \in Live /\ objs[b].type = "base" /\ m \in {Nil} \cup Live /\ m \in {Nil} \cup Near
  BY NearIs DEF LiveBases, Handlers
<1>3. /\ Len(objs) \in Nat /\ Live \subseteq 1..Len(objs) /\ flagged.shared \subseteq 1..Len(objs)
      /\ PairUnits \in Decl /\ Labelled(PairUnits) /\ b \in Near
  BY <1>2, HeapFacts, NearIs, Declared
<1>4. flagged'.shared = flagged.shared \cup {b} /\ flagged'.mark = flagged.mark
  BY <1>1 DEF Typed
<1> DEFINE sh == flagged.shared \cup {b}
<1>5. sh \in SUBSET (1..Len(objs) + 1) /\ flagged.shared \subseteq sh
  BY <1>2, <1>3
<1> HIDE DEF sh
<1>6. /\ Grows(objs, objs', Near, sh) /\ Len(objs') = Len(objs) + 1
      /\ objs'[Len(objs) + 1] = Struct(PairUnits, m)
      /\ \A j \in 1..Len(objs) : j # b => objs'[j] = objs[j]
      /\ objs'[b].units = Append(objs[b].units, Len(objs) + 1)
  BY ONLY Typed, b \in LiveBases, <1>1, <1>2, <1>3, <1>5, BaseTakesType
<1>7. objs' \in Seq(Obj) /\ Keeps(objs, objs', b)
  BY <1>2, <1>3, <1>6 DEF Grows
<1>8. objs[b].of = Nil
  BY <1>2, <1>3, HeapFacts DEF Shape
<1>9. New(objs, objs') = {Len(objs) + 1} /\ b # Len(objs) + 1 /\ b \in 1..Len(objs)
  BY <1>2, <1>3, <1>6 DEF New
<1> QED
  BY <1>2, <1>3, <1>4, <1>6, <1>7, <1>8, <1>9 DEF Adopted, Keeps, sh

LEMMA AdoptsExtends ==
    ASSUME Typed, NEW b \in LiveBases, NEW m \in Handlers, Adopts(b, m)
    PROVE  Extends /\ Typed'
<1> DEFINE n == Len(objs) + 1
<1>1. Adopted(b, m, n)
  BY AdoptsIs
<1>2. /\ Promise({b, n} \cup ReachedFrom({m} \ {Nil})) /\ BeginTraversal(<<n>>, "shared", "run")
      /\ UNCHANGED <<freed, held, registry, at, drives>>
  BY DEF Adopts
<1> HIDE DEF n
<1>3. objs' \in Seq(Obj) /\ Len(objs) <= Len(objs')
  BY <1>1 DEF Adopted
<1>4. /\ Ids = 1..Len(objs) /\ Ids' = 1..Len(objs') /\ Ids \subseteq Ids'
      /\ 0..Len(objs) \subseteq 0..Len(objs')
  BY <1>3, HeapWider
<1>5. ReachedFrom({m} \ {Nil}) \subseteq Live /\ Live \subseteq Near
  <2>1. {m} \ {Nil} \subseteq Live /\ {m} \ {Nil} \in SUBSET Ids
    BY <1>1, LiveIs DEF Adopted
  <2> QED
    BY <2>1, ReachedFacts, NearIs
<1>6. Extends
  <2>1. pinned' \subseteq pinned \cup Near \cup New(objs, objs')
    BY <1>1, <1>2, <1>5 DEF Promise, Adopted
  <2>2. Driven' = Driven /\ drives' \in Seq([iter : Ids, how : {"next", "step"}])
    BY <1>2 DEF Driven, Typed
  <2>3. flagged' \in [mark : SUBSET Ids', shared : SUBSET Ids']
    <3>1. flagged' = [flagged EXCEPT !.shared = @ \cup {b}] /\ b \in Ids
      BY <1>1, <1>4 DEF Adopts, Adopted
    <3> QED
      BY <1>4, <3>1 DEF Typed
  <2> QED
    BY <1>1, <1>2, <1>5, <2>1, <2>2, <2>3 DEF Extends, Adopted
<1>7. /\ flag' = "shared" /\ todo' = <<n>> /\ then' = "run" /\ pc' = "mark" /\ honest' \in BOOLEAN
  BY <1>2 DEF BeginTraversal, Typed
<1>8. todo' \in Seq(Word(objs'))
  <2>1. n \in Word(objs')
    BY <1>1 DEF Adopted, Word
  <2> QED
    BY <1>7, <2>1
<1>9. at' \in 0..Len(objs')
  BY <1>2, <1>4 DEF Typed
<1> QED
  BY <1>6, <1>7, <1>8, <1>9, ExtendsTyped

LEMMA BaseMakeTypeTyped == ASSUME Typed, BaseMakeType PROVE Typed'
BY BaseMakeTypeIs, AdoptsExtends

(* What refers to what.                                                      *)
LEMMA AdoptedRefs ==
    ASSUME Typed, NEW b, NEW m, NEW n, Adopted(b, m, n)
    PROVE  /\ Refs(objs', objs'[n]) = {m} \cap 1..Len(objs)
           /\ Refs(objs', objs'[b]) = Refs(objs, objs[b]) \cup {n}
           /\ \A i \in 1..Len(objs) : i # b => Refs(objs', objs'[i]) = Refs(objs, objs[i])
<1>1. /\ Formed(objs, flagged.shared) /\ Grows(objs, objs', Near, flagged'.shared)
      /\ flagged.shared \subseteq flagged'.shared
      /\ \A i \in 1..Len(objs) : i # b => objs'[i] = objs[i]
  BY DEF Typed, Adopted
<1>2. \A i \in 1..Len(objs) : i # b => Refs(objs', objs'[i]) = Refs(objs, objs[i])
  BY ONLY <1>1, ShapeKept
<1>3. /\ Len(objs) \in Nat /\ n = Len(objs) + 1 /\ Len(objs') = n /\ b \in 1..Len(objs) /\ m \in {Nil} \cup Live
      /\ objs'[b].units = Append(objs[b].units, n) /\ objs'[b].of = Nil /\ objs'[n] = Struct(PairUnits, m)
  BY DEF Adopted
<1>4. Live \subseteq 1..Len(objs) /\ Near \subseteq 1..Len(objs)
  BY HeapFacts, LiveIs
<1>5. Refs(objs', objs'[n]) = {m} \cap 1..Len(objs)
  <2>1. Struct(PairUnits, m).of = Nil /\ Struct(PairUnits, m).units = <<m>>
    BY DEF Struct, Object
  <2>2. DOMAIN <<m>> = {1} /\ <<m>>[1] = m
    OBVIOUS
  <2>3. m \in 1..Len(objs') <=> m \in 1..Len(objs)
    BY <1>3, <1>4 DEF Nil
  <2>4. Nil \notin 1..Len(objs')
    BY DEF Nil
  <2>5. Refs(objs', objs'[n]) = {w \in 1..Len(objs') : w = m}
    BY <1>3, <2>1, <2>2, <2>4 DEF Refs
  <2> QED
    BY <2>3, <2>5
<1>6. Refs(objs', objs'[b]) = Refs(objs, objs[b]) \cup {n}
  <2> DEFINE us == objs[b].units
  <2>1. us \in Seq(Int) /\ objs[b].of = Nil /\ DOMAIN us = 1..Len(us) /\ Len(us) \in Nat
        /\ \A u \in 1..Len(us) : us[u] \in Word(objs)
    <3>1. b \in Near
      BY NearIs DEF Adopted
    <3>2. objs[b].type = "base"
      BY DEF Adopted
    <3> QED
      BY <3>1, <3>2, HeapFacts DEF Shape
  <2> HIDE DEF us
  <2>2. n \in Int
    BY <1>3
  <2>3. /\ Len(Append(us, n)) = Len(us) + 1 /\ Append(us, n)[Len(us) + 1] = n /\ Append(us, n) \in Seq(Int)
        /\ \A u \in 1..Len(us) : Append(us, n)[u] = us[u]
    BY <2>1, <2>2, AppendProperties
  <2>4. DOMAIN Append(us, n) = 1..Len(us) + 1
    BY <2>3, LenNat
  <2>5. \A u \in 1..Len(us) + 1 : u \in 1..Len(us) \/ u = Len(us) + 1
    BY <2>1
  <2>6. Len(us) + 1 \in 1..Len(us) + 1 /\ \A u \in 1..Len(us) : u \in 1..Len(us) + 1
    BY <2>1
  <2>7. \A w \in Word(objs) : w \in 1..Len(objs') => w \in 1..Len(objs)
    BY <1>3 DEF Word, Nil, Raw, Static
  <2>8. \A w \in 1..Len(objs) : w \in 1..Len(objs')
    BY <1>3
  <2>9. n \in 1..Len(objs') /\ Nil \notin 1..Len(objs')
    BY <1>3 DEF Nil
  <2>10. Refs(objs', objs'[b]) = {w \in 1..Len(objs') : \E u \in 1..Len(us) + 1 : Append(us, n)[u] = w}
    BY <1>3, <2>4, <2>9 DEF Refs, us
  <2>11. Refs(objs, objs[b]) = {w \in 1..Len(objs) : \E u \in 1..Len(us) : us[u] = w}
    BY <2>1, <2>8, <2>9 DEF Refs, us
  <2>12. Refs(objs', objs'[b]) \subseteq Refs(objs, objs[b]) \cup {n}
    BY <2>1, <2>3, <2>5, <2>7, <2>10, <2>11
  <2>13. Refs(objs, objs[b]) \subseteq Refs(objs', objs'[b])
    BY <2>3, <2>6, <2>8, <2>10, <2>11
  <2>14. n \in Refs(objs', objs'[b])
    BY <2>3, <2>6, <2>9, <2>10
  <2> QED
    BY <2>12, <2>13, <2>14
<1> QED
  BY <1>2, <1>5, <1>6
(* An object that stays as it is is what its type says as it was: nothing    *)
(* changes but bases.                                                        *)
Alike ==
    /\ Len(objs) \in Nat /\ Len(objs') \in Nat /\ Len(objs) <= Len(objs') /\ freed' = freed
    /\ \A j \in 1..Len(objs) : objs'[j] = objs[j] \/ (objs[j].type = "base" /\ objs'[j].type = "base")

LEMMA WordKept ==
    ASSUME Typed, Alike, NEW w \in Word(objs)
    PROVE  /\ IsObj(w)' <=> IsObj(w)
           /\ Inner(w)' <=> Inner(w)
           /\ IsObj(w) /\ objs[w].type = "int" => objs'[w] = objs[w]
           /\ IsObj(w) => objs'[w].type = objs[w].type
<1>1. Ids = 1..Len(objs) /\ Ids' = 1..Len(objs')
  BY DEF Ids
<1>2. w \in Ids' <=> w \in Ids
  BY <1>1 DEF Alike, Word, Nil, Raw, Static
<1>3. IsObj(w)' <=> IsObj(w)
  BY <1>2 DEF IsObj, Alike
<1>4. IsObj(w) => w \in 1..Len(objs)
  BY <1>1 DEF IsObj
<1>5. IsObj(w) => objs'[w] = objs[w] \/ (objs[w].type = "base" /\ objs'[w].type = "base")
  BY <1>4 DEF Alike
<1> QED
  BY <1>3, <1>5 DEF Inner

LEMMA SoundKept ==
    ASSUME Typed, Alike, NEW i \in 1..Len(objs), objs'[i] = objs[i], Sound(objs[i])
    PROVE  Sound(objs[i])'
<1> DEFINE o == objs[i]
<1>1. /\ o \in Obj /\ Shape(objs, flagged.shared, i, o) /\ Len(o.units) \in Nat
      /\ DOMAIN o.units = 1..Len(o.units) /\ o.units \in Seq(Int)
  <2>1. o \in Obj /\ Shape(objs, flagged.shared, i, o) /\ Len(o.units) \in Nat /\ DOMAIN o.units = 1..Len(o.units)
    BY FormedTypes DEF Typed
  <2> QED
    BY <2>1 DEF Obj
<1>2. objs'[i] = o /\ Sound(o)
  OBVIOUS
<1>3. o.type = "made" => o.of \in 1..Len(objs) /\ objs'[o.of] = objs[o.of]
  <2>1. o.type = "made" => o.of \in 1..i - 1 /\ objs[o.of].type = "struct"
    BY <1>1 DEF Shape
  <2>2. 1..i - 1 \subseteq 1..Len(objs)
    BY DEF Alike
  <2> QED
    BY <2>1, <2>2 DEF Alike
<1>4. DeclOf(o)' = DeclOf(o) /\ (MarksItself(o)' <=> MarksItself(o))
  BY <1>2, <1>3 DEF DeclOf, MarksItself
<1>5. Measured(o) => Measured(o)' /\ objs'[o.units[1]] = objs[o.units[1]]
  <2> SUFFICES ASSUME Measured(o) PROVE Measured(o)' /\ objs'[o.units[1]] = objs[o.units[1]]
    OBVIOUS
  <2>1. PICK w : w = o.units[1]
    OBVIOUS
  <2>2. o.units # <<>> /\ IsObj(w) /\ objs[w].type = "int"
    BY <2>1 DEF Measured
  <2>3. w \in Word(objs)
    <3>1. 1 \in 1..Len(o.units)
      BY <1>1, <2>2, EmptySeq
    <3> QED
      BY <1>1, <2>1, <3>1 DEF Shape
  <2>4. IsObj(w)' /\ objs'[w] = objs[w]
    BY ONLY Typed, Alike, <2>2, <2>3, WordKept
  <2>5. w \in Ids' /\ w \notin freed'
    BY <2>4 DEF IsObj
  <2> QED
    BY <1>2, <2>1, <2>2, <2>4, <2>5 DEF Measured, IsObj
<1>6. Fits(o) => Fits(o)'
  <2> SUFFICES ASSUME Fits(o) PROVE Fits(o)'
    OBVIOUS
  <2>1. DeclOf(o).count < 0 => Measured(o)' /\ objs'[o.units[1]] = objs[o.units[1]]
    BY <1>5 DEF Fits
  <2>2. Units(o)' = Units(o)
    BY <1>2, <1>4, <2>1 DEF Units
  <2> QED
    BY <1>2, <1>4, <2>1, <2>2 DEF Fits
<1>7. Sound(o)'
  BY <1>2, <1>4, <1>6 DEF Sound
<1> QED
  BY <1>7

LEMMA MeantKept ==
    ASSUME Typed, Alike, NEW i \in 1..Len(objs), objs'[i] = objs[i], Meant(i),
           Refs(objs', objs'[i]) = Refs(objs, objs[i])
    PROVE  Meant(i)'
<1>1. Refers(objs[i])' = Refs(objs', objs'[i])
  BY DEF Refers, Refs, Ids
<1>2. Refers(objs[i]) = Refs(objs, objs[i])
  BY RefersIs
<1>3. \A w \in Refs(objs, objs[i]) : Inner(w)' <=> Inner(w)
  BY WordKept DEF Refs, Word
<1>4. Sound(objs[i])'
  BY SoundKept DEF Meant
<1>5. objs'[i].type # "buffer" => \A w \in Refers(objs[i])' : ~Inner(w)'
  BY <1>1, <1>2, <1>3 DEF Meant
<1> QED
  BY <1>4, <1>5 DEF Meant

LEMMA AdoptedLive ==
    ASSUME Typed, Typed', NEW b, NEW m, NEW n, Adopted(b, m, n), UNCHANGED <<held, registry>>
    PROVE  Live' \subseteq Live \cup {n} /\ Live \subseteq Live' /\ n \in Live'
<1>1. /\ Len(objs) \in Nat /\ n = Len(objs) + 1 /\ Len(objs') = n /\ b \in Live /\ m \in {Nil} \cup Live
  BY DEF Adopted
<1>2. /\ Refs(objs', objs'[n]) = {m} \cap 1..Len(objs)
      /\ Refs(objs', objs'[b]) = Refs(objs, objs[b]) \cup {n}
      /\ \A i \in 1..Len(objs) : i # b => Refs(objs', objs'[i]) = Refs(objs, objs[i])
  BY AdoptedRefs
<1>3. /\ Live = Reaches(objs, Roots) /\ Roots \subseteq Live /\ Live \subseteq 1..Len(objs) /\ Closed(objs, Live)
  BY LiveIs DEF Roots, Ids
<1>4. Live' = Reaches(objs', Roots') /\ Closed(objs', Live') /\ Roots' \subseteq Live' /\ Live' \subseteq 1..Len(objs')
  BY LiveNext DEF Roots, Ids
<1>5. Roots' = Roots
  BY DEF Roots
<1>6. Live' \subseteq Live \cup {n}
  <2>1. Closed(objs', Live \cup {n})
    <3>1. \A i \in Live : Refs(objs, objs[i]) \subseteq Live /\ i \in 1..Len(objs)
      BY <1>3 DEF Closed
    <3>2. Nil \notin 1..Len(objs)
      BY DEF Nil
    <3> QED
      BY <1>1, <1>2, <3>1, <3>2 DEF Closed
  <2>2. Roots \in SUBSET (1..Len(objs'))
    BY <1>4, <1>5
  <2>3. Len(objs') \in Nat
    BY <1>1
  <2> QED
    BY <1>3, <1>4, <1>5, <2>1, <2>2, <2>3, ReachWithin
<1>7. Live \subseteq Live'
  <2>1. \A i \in 1..Len(objs) : Refs(objs, objs[i]) \subseteq Refs(objs', objs'[i])
    BY <1>2
  <2>2. Len(objs') \in Nat /\ Len(objs) <= Len(objs')
    BY <1>1
  <2> QED
    BY <1>1, <1>3, <1>4, <1>5, <2>1, <2>2, ReachMore
<1>8. n \in Live'
  BY <1>1, <1>2, <1>4, <1>7 DEF Closed
<1> QED
  BY <1>6, <1>7, <1>8

LEMMA AdoptedTracing ==
    ASSUME Typed, Typed', NEW b, NEW m \in Handlers, NEW n, Adopted(b, m, n),
           UNCHANGED <<freed, held, registry, drives>>, AllSound(<<n>>), todo' = <<n>>
    PROVE  Tracing'
<1>1. /\ Len(objs) \in Nat /\ n = Len(objs) + 1 /\ Len(objs') = n /\ objs' \in Seq(Obj)
      /\ b \in Live /\ m \in {Nil} \cup Live
      /\ b \in 1..Len(objs) /\ objs[b].type = "base" /\ objs'[b].type = "base" /\ objs'[n] = Struct(PairUnits, m)
      /\ \A i \in 1..Len(objs) : i # b => objs'[i] = objs[i]
      /\ objs'[b].units = Append(objs[b].units, n)
  BY DEF Adopted
<1>2. /\ Refs(objs', objs'[n]) = {m} \cap 1..Len(objs)
      /\ Refs(objs', objs'[b]) = Refs(objs, objs[b]) \cup {n}
      /\ \A i \in 1..Len(objs) : i # b => Refs(objs', objs'[i]) = Refs(objs, objs[i])
  BY AdoptedRefs
<1>3. Live' \subseteq Live \cup {n} /\ Live \subseteq Live' /\ n \in Live'
  BY AdoptedLive
<1>4. (\A i \in Live : Meant(i)) /\ Driven \subseteq Live
  <2>1. <<n>> \in Seq(Int)
    BY <1>1
  <2> QED
    BY <2>1, SoundIs
<1>5. Alike
  BY <1>1 DEF Alike
<1>6. Live \subseteq 1..Len(objs) /\ Live \subseteq Word(objs)
  BY LiveIs DEF Ids, Word
<1>7. objs'[n].type = "struct" /\ objs'[n].units = <<m>>
  BY <1>1 DEF Struct, Object
<1>8. ~Inner(n)'
  BY <1>7 DEF Inner
<1>9. \A i : Refers(objs[i])' = Refs(objs', objs'[i])
  BY DEF Refers, Refs, Ids
<1>10. Meant(n)'
  <2>1. Sound(objs[n])'
    <3>1. m # Raw
      BY <1>1, <1>6 DEF Nil, Raw
    <3>2. \A i \in DOMAIN objs'[n].units : objs'[n].units[i] # Raw
      BY <1>7, <3>1
    <3> QED
      BY <1>7, <3>2 DEF Sound
  <2>2. m \in Live => m \in Word(objs) /\ objs[m].type = "procedure"
    BY <1>6 DEF Handlers, Nil
  <2>3. m \in Live => ~Inner(m)'
    BY <1>5, <2>2, WordKept DEF Inner
  <2>4. Nil \notin 1..Len(objs)
    BY DEF Nil
  <2>5. \A w \in Refers(objs[n])' : ~Inner(w)'
    BY <1>1, <1>2, <1>9, <2>3, <2>4
  <2> QED
    BY <2>1, <2>5 DEF Meant
<1>11. Meant(b)'
  <2>1. Meant(b)
    BY <1>1, <1>4
  <2>2. Sound(objs[b])'
    <3> DEFINE us == objs[b].units
    <3>1. us \in Seq(Int) /\ DOMAIN us = 1..Len(us) /\ Len(us) \in Nat
      BY <1>1, HeapFacts
    <3>2. \A u \in 1..Len(us) : us[u] # Raw
      BY <1>1, <2>1, <3>1 DEF Meant, Sound, MarksItself
    <3> HIDE DEF us
    <3>3. n \in Int /\ n # Raw
      BY <1>1 DEF Raw
    <3>4. /\ Len(Append(us, n)) = Len(us) + 1 /\ Append(us, n)[Len(us) + 1] = n /\ Append(us, n) \in Seq(Int)
          /\ \A u \in 1..Len(us) : Append(us, n)[u] = us[u]
      BY <3>1, <3>3, AppendProperties
    <3>5. DOMAIN Append(us, n) = 1..Len(us) + 1
      BY <3>4, LenNat
    <3>6. \A u \in 1..Len(us) + 1 : u \in 1..Len(us) \/ u = Len(us) + 1
      BY <3>1
    <3>7. \A u \in DOMAIN objs'[b].units : objs'[b].units[u] # Raw
      BY <1>1, <3>2, <3>3, <3>4, <3>5, <3>6 DEF us
    <3> QED
      BY <1>1, <3>7 DEF Sound, MarksItself
  <2>3. \A w \in Refs(objs, objs[b]) : ~Inner(w)
    BY <1>1, <2>1, RefersIs DEF Meant
  <2>4. \A w \in Refs(objs, objs[b]) : ~Inner(w)'
    BY <1>5, <2>3, WordKept DEF Refs, Word
  <2>5. \A w \in Refers(objs[b])' : ~Inner(w)'
    BY <1>2, <1>8, <1>9, <2>4
  <2> QED
    BY <2>2, <2>5 DEF Meant
<1>12. \A i \in Live' : Meant(i)'
  <2>1. ASSUME NEW i \in Live, i # b PROVE Meant(i)'
    <3>1. i \in 1..Len(objs) /\ objs'[i] = objs[i] /\ Refs(objs', objs'[i]) = Refs(objs, objs[i]) /\ Meant(i)
      BY <1>1, <1>2, <1>4, <1>6, <2>1
    <3> QED
      BY <1>5, <3>1, MeantKept
  <2> QED
    BY <1>3, <1>10, <1>11, <2>1
<1>13. ToDo' = {n}
  <2>1. Len(<<n>>) = 1 /\ <<n>>[1] = n /\ \A k \in 1..1 : k = 1
    OBVIOUS
  <2> QED
    BY <2>1 DEF ToDo
<1>14. Driven' = Driven
  BY DEF Driven
<1> QED
  BY <1>3, <1>4, <1>8, <1>12, <1>13, <1>14 DEF Tracing
(* What is promised for the type made is reached from it, and none of it was *)
(* pinned.                                                                   *)
LEMMA AdoptedPinned ==
    ASSUME Typed, Typed', Safe, pc = "run", honest, pc' = "mark", flag' = "shared",
           NEW b, NEW m \in Handlers, NEW n, Adopted(b, m, n), todo' = <<n>>,
           Promise({b, n} \cup ReachedFrom({m} \ {Nil}))
    PROVE  Pinned'
<1> DEFINE M  == {m} \ {Nil}
           P  == {b, n} \cup ReachedFrom(M)
<1>1. /\ Len(objs) \in Nat /\ n = Len(objs) + 1 /\ Len(objs') = n /\ b \in Live /\ m \in {Nil} \cup Live
      /\ b \in 1..Len(objs) /\ b # n /\ objs[b].type = "base" /\ objs'[b].type = "base"
      /\ \A i \in 1..Len(objs) : i # b => objs'[i] = objs[i]
      /\ flagged'.shared = flagged.shared \cup {b}
  BY DEF Adopted
<1>2. /\ Refs(objs', objs'[n]) = {m} \cap 1..Len(objs)
      /\ Refs(objs', objs'[b]) = Refs(objs, objs[b]) \cup {n}
      /\ \A i \in 1..Len(objs) : i # b => Refs(objs', objs'[i]) = Refs(objs, objs[i])
  BY AdoptedRefs
<1>3. /\ Pinned /\ ~Pinning /\ Pinning' /\ pinned \subseteq flagged.shared /\ flagged.shared \subseteq 1..Len(objs)
      /\ \A i \in flagged.shared : objs[i].type = "made" => objs[i].of \in flagged.shared
  BY HeapFacts DEF Safe, Pinning, Pinned
<1>4. /\ Ids = 1..Len(objs) /\ Ids' = 1..Len(objs') /\ Ids \subseteq Ids' /\ n \in Ids' /\ n \notin Ids
  BY <1>1 DEF Ids
<1>5. /\ M \in SUBSET Ids /\ M \subseteq ReachedFrom(M) /\ ReachedFrom(M) \subseteq Ids
      /\ ReachedFrom(M) = Reaches(objs, M) /\ Closed(objs, ReachedFrom(M))
  <2>1. M \in SUBSET Ids
    BY <1>1, LiveIs
  <2> HIDE DEF M
  <2> QED
    BY <2>1, ReachedFacts, ReachedIs, RefersIs DEF Closed
<1>6. \A i \in flagged'.shared : objs'[i].type = "made" =>
          objs'[i].of \in flagged'.shared \/ (Pinning' /\ objs'[i].of \in ToDo')
  BY <1>1, <1>3
<1>7. ToDo' = {n}
  <2>1. Len(<<n>>) = 1 /\ <<n>>[1] = n /\ \A k \in 1..1 : k = 1
    OBVIOUS
  <2> QED
    BY <2>1 DEF ToDo
<1>8. \A S : ReachedFrom(S)' = Reaches(objs', S)
  BY DEF ReachedFrom, Reaches, Refers, Refs, Ids
<1>9. CASE P \cap flagged.shared # {}
  <2>1. pinned' = pinned
    BY <1>9 DEF Promise
  <2>2. ReachedFrom({})' = {}
    <3>1. Closed(objs', {}) /\ Len(objs') \in Nat /\ {} \in SUBSET (1..Len(objs'))
      BY <1>1 DEF Closed
    <3>2. Reaches(objs', {}) \subseteq {}
      BY <3>1, ReachWithin
    <3> QED
      BY <1>8, <3>2
  <2>3. Promised({})'
    BY <1>1, <1>3, <2>1, <2>2 DEF Promised
  <2> QED
    BY <1>3, <1>6, <2>3 DEF Pinned
<1>10. CASE P \cap flagged.shared = {}
  <2>1. pinned' = pinned \cup P
    BY <1>10 DEF Promise
  <2>13. \A i \in ReachedFrom(M) : objs[i].type # "base"
    BY <1>5, <1>10, NoBaseReached
  <2>2. b \notin ReachedFrom(M)
    BY <1>1, <2>13
  <2> DEFINE R == Reaches(objs', {n})
  <2>3. {n} \in SUBSET (1..Len(objs')) /\ Len(objs') \in Nat
    BY <1>1
  <2>4. n \in R /\ R \subseteq 1..Len(objs') /\ Closed(objs', R)
    BY <2>3, ReachCovers
  <2>5. R \subseteq {n} \cup ReachedFrom(M)
    <3> DEFINE X == {n} \cup ReachedFrom(M)
    <3>1. ASSUME NEW i \in X PROVE Refs(objs', objs'[i]) \subseteq X
      <4>1. CASE i = n
        <5>1. {m} \cap 1..Len(objs) \subseteq M
          BY DEF Nil
        <5> QED
          BY <1>2, <1>5, <4>1, <5>1
      <4>2. CASE i \in ReachedFrom(M)
        <5>1. i \in 1..Len(objs) /\ i # b
          BY <1>4, <1>5, <2>2, <4>2
        <5>2. Refs(objs, objs[i]) \subseteq ReachedFrom(M)
          BY <1>5, <4>2 DEF Closed
        <5> QED
          BY <1>2, <5>1, <5>2
      <4> QED
        BY <3>1, <4>1, <4>2
    <3>2. Closed(objs', X) /\ {n} \subseteq X
      BY <3>1 DEF Closed
    <3> HIDE DEF X
    <3>3. R \subseteq X
      BY <2>3, <3>2, ReachWithin
    <3> QED
      BY <3>3 DEF X
  <2>6. ReachedFrom(M) \subseteq R
    <3>1. M \subseteq R
      <4>1. M \subseteq {m} \cap 1..Len(objs)
        BY <1>4, <1>5
      <4> QED
        BY <1>2, <2>4, <4>1 DEF Closed
    <3>2. \A i \in 1..Len(objs) : Refs(objs, objs[i]) \subseteq Refs(objs', objs'[i])
      BY <1>2
    <3>3. Len(objs) <= Len(objs') /\ M \in SUBSET (1..Len(objs))
      BY <1>1, <1>4, <1>5
    <3> HIDE DEF R, M
    <3> QED
      BY <1>1, <1>5, <2>3, <2>4, <3>1, <3>2, <3>3, ReachMore
  <2> HIDE DEF R, M
  <2>7. n \notin flagged'.shared
    BY <1>1, <1>3, <1>4
  <2>8. R \cap flagged'.shared = {}
    BY <1>1, <1>10, <2>2, <2>5, <2>7
  <2>9. pinned' \subseteq flagged'.shared \cup R
    BY <1>1, <1>3, <2>1, <2>4, <2>6
  <2>10. ReachedFrom({n})' = R
    BY <1>8 DEF R
  <2>12. \A i \in R : objs'[i].type # "base"
    <3>1. Struct(PairUnits, m).type = "struct"
      BY DEF Struct, Object
    <3>2. objs'[n].type = "struct"
      BY <3>1 DEF Adopted
    <3>3. ASSUME NEW i \in ReachedFrom(M) PROVE objs'[i].type # "base"
      <4>1. i \in 1..Len(objs) /\ i # b
        BY <1>4, <1>5, <2>2
      <4> QED
        BY <1>1, <2>13, <4>1
    <3> QED
      BY <2>5, <3>2, <3>3
  <2>11. Promised({n})'
    BY <1>7, <2>8, <2>9, <2>10, <2>12 DEF Promised
  <2> QED
    BY <1>3, <1>4, <1>6, <2>11 DEF Pinned
<1> QED
  BY <1>9, <1>10

LEMMA BaseMakeTypeSafe == ASSUME Typed, Safe, BaseMakeType PROVE Safe'
<1> SUFFICES ASSUME honest' PROVE pc' # "crashed" /\ Unfreed' /\ Pinned' /\ Tracing' /\ Collecting' /\ Sweeping'
  BY DEF Safe
<1>1. PICK b \in LiveBases, m \in Handlers : Adopts(b, m)
  BY BaseMakeTypeIs
<1>2. pc = "run"
  BY BaseMakeTypeIs
<1> DEFINE n == Len(objs) + 1
<1>3. Adopted(b, m, n) /\ Extends /\ Typed'
  BY <1>1, AdoptsIs, AdoptsExtends
<1>4. /\ Promise({b, n} \cup ReachedFrom({m} \ {Nil})) /\ BeginTraversal(<<n>>, "shared", "run")
      /\ UNCHANGED <<freed, held, registry, at, drives>>
  BY <1>1 DEF Adopts
<1> HIDE DEF n
<1>5. honest /\ AllSound(<<n>>) /\ flag' = "shared" /\ todo' = <<n>> /\ then' = "run" /\ pc' = "mark"
  BY <1>4 DEF BeginTraversal
<1>6. Unfreed'
  BY <1>3, <1>5, ExtendsUnfreed DEF Safe
<1>7. Pinned'
  BY <1>2, <1>3, <1>4, <1>5, AdoptedPinned
<1>8. Tracing'
  BY <1>3, <1>4, <1>5, AdoptedTracing
<1> QED
  BY <1>5, <1>6, <1>7, <1>8 DEF Collecting, Sweeping
-----------------------------------------------------------------------------
(* What an object has marked.  First, the label the repeat rule gives a unit *)
(* is the label its type's declaration means.                                *)
LEMMA LabelIs ==
    ASSUME NEW d \in Decl, Labelled(d), NEW i \in Nat \ {0}
    PROVE  LabelMeant(d, i) = UnitLabel(d, i)
<1> DEFINE last == IF d.count < 0 THEN -d.count + 1 ELSE d.count
           told == {j \in 1..last : j <= DescribedMax /\ j <= i}
           m    == Described(d)
<1>1. d.count \in Int /\ d.labels \in Seq({"ref", "word"}) /\ DescribedMax \in Nat /\ last \in Int
  BY ObjectsAssumption DEF Decl
<1>2. m = Lesser(last, DescribedMax) /\ m \in Int
  BY <1>1 DEF Described, Lesser
<1>3. Len(d.labels) \in Nat /\ DOMAIN d.labels = 1..Len(d.labels)
  BY <1>1, LenNat
<1>4. LabelMeant(d, i) = IF told = {} \/ d.labels = <<>> THEN "ref"
                         ELSE d.labels[CHOOSE j \in told : \A k \in told : k <= j]
  BY DEF LabelMeant
<1>5. UnitLabel(d, i) = IF m < 1 THEN "ref" ELSE MaskAt(d, Lesser(i, m))
  BY DEF UnitLabel
<1>6. told = {j \in 1..last : j <= DescribedMax /\ j <= i}
  OBVIOUS
<1> HIDE DEF last, told, m
<1>7. CASE m < 1
  <2>1. told = {}
    BY <1>1, <1>2, <1>6, <1>7 DEF Lesser
  <2> QED
    BY <1>4, <1>5, <1>7, <2>1
<1>8. CASE ~(m < 1)
  <2> DEFINE t == Lesser(i, m)
  <2>1. t \in told /\ (\A k \in told : k <= t) /\ t \in Int /\ t <= m /\ 1 <= t
    BY <1>1, <1>2, <1>6, <1>8 DEF Lesser
  <2> HIDE DEF t
  <2>2. (CHOOSE j \in told : \A k \in told : k <= j) = t
    <3> DEFINE c == CHOOSE j \in told : \A k \in told : k <= j
    <3>1. told \subseteq Int
      BY <1>6
    <3>2. \E j \in told : \A k \in told : k <= j
      BY <2>1
    <3>3. c \in told /\ \A k \in told : k <= c
      BY <3>2
    <3> HIDE DEF c
    <3>4. c <= t /\ t <= c /\ c \in Int
      BY <2>1, <3>1, <3>3
    <3>5. c = t
      BY <2>1, <3>4
    <3> QED
      BY <3>5 DEF c
  <2>3. LabelMeant(d, i) = IF d.labels = <<>> THEN "ref" ELSE d.labels[t]
    BY <1>4, <2>1, <2>2
  <2>4. d.labels # <<>> => t \in DOMAIN d.labels
    BY <1>2, <1>3, <2>1 DEF Labelled, m
  <2>5. d.labels = <<>> => DOMAIN d.labels = {}
    OBVIOUS
  <2>6. UnitLabel(d, i) = MaskAt(d, t)
    BY <1>5, <1>8 DEF t
  <2> QED
    BY <2>3, <2>4, <2>5, <2>6 DEF MaskAt
<1> QED
  BY <1>7, <1>8

LEMMA DeclIs ==
    ASSUME Typed, NEW i \in 1..Len(objs)
    PROVE  DeclOf(objs[i]) \in Decl /\ Labelled(DeclOf(objs[i]))
<1>1. objs[i] \in Obj /\ Shape(objs, flagged.shared, i, objs[i]) /\ Len(objs) \in Nat
  BY FormedTypes DEF Typed
<1>2. objs[i].type = "made" => objs[i].of \in 1..Len(objs)
  BY <1>1 DEF Shape
<1>3. objs[i].type = "made" => objs[objs[i].of].decl \in Decl /\ Labelled(objs[objs[i].of].decl)
  BY <1>2, FormedTypes DEF Typed, Shape
<1> QED
  BY <1>3, Declared DEF DeclOf

(* The kinds of object, and what each has read, followed and expected of it. *)
LEMMA Arms ==
    ASSUME NEW o, o.type \in Kinds
    PROVE  /\ o.type \in {"pair", "base", "struct"} =>
                 /\ Follows(o) = (IF o.type = "base" /\ flag = "shared" THEN <<>> ELSE o.units)
                 /\ ~Unreadable(o)
                 /\ Sound(o) <=> \A u \in DOMAIN o.units : o.units[u] # Raw
           /\ o.type = "procedure" =>
                 /\ Follows(o) = <<o.units[2]>> /\ ~Unreadable(o)
                 /\ Sound(o) <=> o.units[1] <= 0 /\ o.units[2] # Raw
           /\ o.type \in {"int", "slots"} => Follows(o) = <<>> /\ ~Unreadable(o)
           /\ o.type = "buffer" => Follows(o) = <<>> /\ (Unreadable(o) <=> o.units[2] = Raw)
           /\ MarksItself(o) =>
                 /\ o.type = "made" /\ Follows(o) = <<o.of, o.units[1]>> /\ (Unreadable(o) <=> o.units = <<>>)
                 /\ Sound(o) <=> o.units # <<>> /\ o.units[1] # Raw /\ \A u \in 2..Len(o.units) : o.units[u] <= 0
           /\ o.type \in {"made", "vector", "iter"} /\ ~MarksItself(o) =>
                 /\ Follows(o) = <<o.of>> \o RefUnits(o) /\ (Sound(o) <=> Fits(o))
                 /\ Unreadable(o) <=> \/ DeclOf(o).count < 0 /\ ~Measured(o)
                                      \/ \E u \in Len(o.units) + 1 .. Units(o) : UnitLabel(DeclOf(o), u) = "ref"
<1>1. MarksItself(o) => o.type = "made"
  BY DEF MarksItself
<1>2. CASE o.type \in {"pair", "base", "struct"}
  BY <1>1, <1>2 DEF Follows, TreeMarks, Unreadable, Sound
<1>3. CASE o.type = "procedure"
  BY <1>1, <1>3 DEF Follows, Unreadable, Sound, CallableMarks
<1>4. CASE o.type \in {"int", "slots", "buffer"}
  BY <1>1, <1>4 DEF Follows, Unreadable
<1>5. CASE o.type = "made" /\ MarksItself(o)
  BY <1>5 DEF Follows, Unreadable, Sound
<1>6. CASE o.type \in {"made", "vector", "iter"} /\ ~MarksItself(o)
  BY <1>6 DEF Follows, Unreadable, Sound
<1> QED
  BY <1>1, <1>2, <1>3, <1>4, <1>5, <1>6 DEF Kinds

(* The units of one that is traversed by its declaration.                    *)
LEMMA UnitsNat ==
    ASSUME Typed, NEW i \in 1..Len(objs), DeclOf(objs[i]).count < 0 => Measured(objs[i])
    PROVE  Units(objs[i]) \in Nat
<1>1. DeclOf(objs[i]).count \in Int
  BY DeclIs DEF Decl
<1>2. CASE DeclOf(objs[i]).count < 0
  <2>1. objs[i].units[1] \in 1..Len(objs)
    BY <1>2 DEF Measured, IsObj, Ids
  <2>2. objs[objs[i].units[1]].val \in Nat
    BY <2>1, FormedTypes DEF Typed, Obj
  <2> QED
    BY <1>1, <1>2, <2>2 DEF Units
<1> QED
  BY <1>1, <1>2 DEF Units

LEMMA RefUnitsAre ==
    ASSUME NEW o, Units(o) \in Nat, NEW T, Nil \in T,
           \A u \in 1..Units(o) : UnitLabel(DeclOf(o), u) = "ref" => o.units[u] \in T
    PROVE  /\ RefUnits(o) \in Seq(T) /\ Len(RefUnits(o)) = Units(o)
           /\ \A u \in 1..Units(o) :
                 RefUnits(o)[u] = IF UnitLabel(DeclOf(o), u) = "ref" THEN o.units[u] ELSE Nil
<1> DEFINE r == RefUnits(o)
<1>1. r = [u \in 1..Units(o) |-> IF UnitLabel(DeclOf(o), u) = "ref" THEN o.units[u] ELSE Nil]
  BY DEF RefUnits
<1> HIDE DEF r
<1>2. \A u \in 1..Units(o) : r[u] = IF UnitLabel(DeclOf(o), u) = "ref" THEN o.units[u] ELSE Nil
  BY <1>1
<1>3. r \in [1..Units(o) -> T]
  BY <1>1
<1>4. r \in Seq(T)
  BY <1>3, SeqDef
<1>5. Len(r) = Units(o)
  <2>1. DOMAIN r = 1..Units(o) /\ DOMAIN r = 1..Len(r) /\ Len(r) \in Nat
    BY <1>1, <1>4, LenNat
  <2> QED
    BY <2>1
<1> QED
  BY <1>2, <1>4, <1>5 DEF r

LEMMA After ==
    ASSUME NEW T, NEW x \in T, NEW s \in Seq(T)
    PROVE  /\ <<x>> \o s \in Seq(T) /\ Words(<<x>> \o s) = {x} \cup Words(s)
<1>1. <<x>> \in Seq(T) /\ Len(<<x>>) = 1 /\ <<x>>[1] = x
  OBVIOUS
<1> DEFINE r == <<x>> \o s
<1>2. /\ r \in Seq(T) /\ Len(r) = 1 + Len(s) /\ Len(s) \in Nat
      /\ \A k \in 1..1 + Len(s) : r[k] = IF k <= 1 THEN <<x>>[k] ELSE s[k - 1]
  BY <1>1, ConcatProperties, LenNat
<1> HIDE DEF r
<1>3. 1 \in 1..1 + Len(s) /\ r[1] = x
  BY <1>1, <1>2
<1>4. \A k \in 1..Len(s) : k + 1 \in 1..1 + Len(s) /\ ~(k + 1 <= 1) /\ (k + 1) - 1 = k
  BY <1>2
<1>5. \A k \in 1..Len(s) : k + 1 \in 1..1 + Len(s) /\ r[k + 1] = s[k]
  BY <1>2, <1>4
<1>6. \A k \in 1..1 + Len(s) : k = 1 \/ (k - 1 \in 1..Len(s) /\ r[k] = s[k - 1])
  BY <1>2
<1>7. Words(r) = {x} \cup Words(s)
  <2>1. Words(r) \subseteq {x} \cup Words(s)
    BY <1>2, <1>3, <1>6 DEF Words
  <2>2. \A k \in 1..Len(s) : \E j \in 1..Len(r) : r[j] = s[k]
    BY <1>2, <1>5
  <2>3. x \in Words(r) /\ Words(s) \subseteq Words(r)
    BY <1>2, <1>3, <2>2 DEF Words
  <2> QED
    BY <2>1, <2>3
<1> QED
  BY <1>2, <1>7 DEF r
LEMMA KindOf ==
    ASSUME Typed, NEW i \in 1..Len(objs)
    PROVE  /\ objs[i].type \in Kinds /\ Shape(objs, flagged.shared, i, objs[i]) /\ Len(objs) \in Nat
           /\ Len(objs[i].units) \in Nat /\ DOMAIN objs[i].units = 1..Len(objs[i].units) /\ objs[i].units \in Seq(Int)
           /\ objs[i].units # <<>> => 1 \in 1..Len(objs[i].units)
           /\ objs[i].of \in {Nil} \cup 1..Len(objs) /\ (objs[i].type = "made" <=> objs[i].of # Nil)
<1>1. /\ objs[i] \in Obj /\ Shape(objs, flagged.shared, i, objs[i]) /\ Len(objs) \in Nat
      /\ Len(objs[i].units) \in Nat /\ DOMAIN objs[i].units = 1..Len(objs[i].units)
  BY FormedTypes DEF Typed
<1>2. objs[i].type \in Kinds /\ objs[i].units \in Seq(Int)
  BY <1>1 DEF Obj
<1>3. objs[i].units # <<>> => 1 \in 1..Len(objs[i].units)
  BY <1>1, <1>2, EmptySeq
<1>4. objs[i].type # "made" => objs[i].of = Nil
  BY <1>1 DEF Shape
<1>5. objs[i].type = "made" => objs[i].of \in 1..Len(objs)
  BY <1>1 DEF Shape
<1>6. Nil \notin 1..Len(objs)
  BY DEF Nil
<1> QED
  BY <1>1, <1>2, <1>3, <1>4, <1>5, <1>6

(* Whatever is followed is a word, however little its types describe it.     *)
LEMMA FollowsTyped ==
    ASSUME Typed, NEW i \in 1..Len(objs), ~Unreadable(objs[i])
    PROVE  /\ Follows(objs[i]) \in Seq(Word(objs))
           /\ objs[i].type = "buffer" => BufferMarks(objs[i]) \subseteq Ids
<1> DEFINE o == objs[i]
<1>1. /\ o.type \in Kinds /\ Shape(objs, flagged.shared, i, o) /\ Len(objs) \in Nat
      /\ Len(o.units) \in Nat /\ DOMAIN o.units = 1..Len(o.units) /\ o.units \in Seq(Int)
      /\ o.units # <<>> => 1 \in 1..Len(o.units)
      /\ o.of \in {Nil} \cup 1..Len(objs)
  BY KindOf
<1>2. (\A u \in 1..Len(o.units) : o.units[u] \in Word(objs)) /\ o.of \in Word(objs) /\ Nil \in Word(objs)
  BY <1>1 DEF Shape, Word
<1>3. o.units \in Seq(Word(objs))
  BY <1>1, <1>2, SeqWider
<1>4. CASE o.type \in {"pair", "base", "struct"}
  <2>1. Follows(o) \in {<<>>, o.units}
    BY <1>1, <1>4, Arms
  <2>2. <<>> \in Seq(Word(objs))
    OBVIOUS
  <2> QED
    BY <1>3, <1>4, <2>1, <2>2
<1>5. CASE o.type = "procedure"
  <2>1. Len(o.units) = 2
    BY <1>1, <1>5 DEF Shape
  <2>2. o.units[2] \in Word(objs)
    BY <1>2, <2>1
  <2>3. Follows(o) = <<o.units[2]>>
    BY <1>1, <1>5, Arms
  <2> QED
    BY <1>5, <2>2, <2>3
<1>6. CASE o.type \in {"int", "slots"}
  <2>1. Follows(o) = <<>>
    BY <1>1, <1>6, Arms
  <2> QED
    BY <1>6, <2>1
<1>7. CASE o.type = "buffer"
  <2>1. Follows(o) = <<>> /\ o.units[2] # Raw
    BY <1>1, <1>7, Arms
  <2>2. o.units[2] \in 1..Len(objs)
    BY <1>1, <1>7, <2>1 DEF Shape
  <2>3. BufferMarks(o) \subseteq Ids
    BY <2>2 DEF BufferMarks, Ids
  <2> QED
    BY <2>1, <2>3
<1>8. CASE MarksItself(o)
  <2>1. Follows(o) = <<o.of, o.units[1]>> /\ o.units # <<>> /\ o.type = "made"
    BY <1>1, <1>8, Arms
  <2>2. o.units[1] \in Word(objs)
    BY <1>1, <1>2, <2>1
  <2> QED
    BY <1>2, <2>1, <2>2
<1>9. CASE o.type \in {"made", "vector", "iter"} /\ ~MarksItself(o)
  <2>1. /\ Follows(o) = <<o.of>> \o RefUnits(o)
        /\ ~(DeclOf(o).count < 0 /\ ~Measured(o))
        /\ ~\E u \in Len(o.units) + 1 .. Units(o) : UnitLabel(DeclOf(o), u) = "ref"
    BY <1>1, <1>9, Arms
  <2>2. Units(o) \in Nat
    BY <2>1, UnitsNat
  <2>3. ASSUME NEW u \in 1..Units(o), UnitLabel(DeclOf(o), u) = "ref" PROVE o.units[u] \in Word(objs)
    <3>1. u \notin Len(o.units) + 1 .. Units(o)
      BY <2>1, <2>3
    <3>2. u \in 1..Len(o.units)
      BY <1>1, <2>2, <3>1
    <3> QED
      BY <1>2, <3>2
  <2>4. RefUnits(o) \in Seq(Word(objs))
    BY <1>2, <2>2, <2>3, RefUnitsAre
  <2>5. Follows(o) \in Seq(Word(objs))
    BY <1>2, <2>1, <2>4, After
  <2> QED
    BY <1>9, <2>5
<1> QED
  BY <1>1, <1>4, <1>5, <1>6, <1>7, <1>8, <1>9 DEF Kinds

(* What is followed from a live object that is what its type says: all that  *)
(* it refers to, unless the traversal stops at it.                           *)
Stops(o) == o.type = "base" /\ flag = "shared"
Followed(i) ==
    /\ Words(Follows(objs[i])) \subseteq Live \cup {Nil, Static}
    /\ \A w \in Words(Follows(objs[i])) : ~Inner(w)
    /\ objs[i].type = "made" => objs[i].of \in Words(Follows(objs[i]))
    /\ objs[i].type # "buffer" /\ ~Stops(objs[i]) => Refers(objs[i]) \subseteq Words(Follows(objs[i]))
    /\ objs[i].type = "buffer" => /\ BufferMarks(objs[i]) \subseteq Live /\ Refers(objs[i]) \subseteq BufferMarks(objs[i])
                                  /\ \A x \in BufferMarks(objs[i]) : Refers(objs[x]) = {} /\ objs[x].type # "made"

LEMMA RefersAre ==
    ASSUME Typed, NEW i \in Live
    PROVE  /\ i \in 1..Len(objs) /\ Refers(objs[i]) \subseteq Live
           /\ objs[i].of \in {Nil} \cup Live
           /\ \A w \in Refers(objs[i]) : w \in 1..Len(objs) /\ w > 0 /\
                  (w = objs[i].of \/ \E u \in 1..Len(objs[i].units) : objs[i].units[u] = w)
           /\ \A u \in 1..Len(objs[i].units) :
                  objs[i].units[u] \in 1..Len(objs) => objs[i].units[u] \in Refers(objs[i])
           /\ \A u \in 1..Len(objs[i].units) : objs[i].units[u] \in {Nil, Raw, Static} \cup Live
<1>1. i \in 1..Len(objs) /\ Closed(objs, Live) /\ Live \subseteq 1..Len(objs)
  BY LiveIs DEF Ids
<1>2. /\ Shape(objs, flagged.shared, i, objs[i]) /\ DOMAIN objs[i].units = 1..Len(objs[i].units)
      /\ Len(objs) \in Nat /\ objs[i].of \in {Nil} \cup 1..Len(objs)
  BY <1>1, KindOf
<1>3. Refers(objs[i]) = Refs(objs, objs[i]) /\ Refs(objs, objs[i]) \subseteq Live
  BY <1>1, RefersIs DEF Closed
<1>4. \A w \in Refs(objs, objs[i]) : w \in 1..Len(objs) /\ w > 0 /\
                  (w = objs[i].of \/ \E u \in 1..Len(objs[i].units) : objs[i].units[u] = w)
  BY <1>2 DEF Refs
<1>5. \A u \in 1..Len(objs[i].units) :
                  objs[i].units[u] \in 1..Len(objs) => objs[i].units[u] \in Refs(objs, objs[i])
  BY <1>2 DEF Refs
<1>6. objs[i].of \in 1..Len(objs) => objs[i].of \in Refs(objs, objs[i])
  BY DEF Refs
<1>7. \A u \in 1..Len(objs[i].units) : objs[i].units[u] \in {Nil, Raw, Static} \cup 1..Len(objs)
  BY <1>2 DEF Shape, Word
<1> QED
  BY <1>1, <1>2, <1>3, <1>4, <1>5, <1>6, <1>7
LEMMA NotInner ==
    ASSUME Typed, NEW w \in {Nil, Static}
    PROVE  ~Inner(w)
BY HeapFacts DEF Inner, IsObj, Nil, Static

LEMMA FollowsIs ==
    ASSUME Typed, NEW i \in Live, Live \cap freed = {}, Meant(i), ~Inner(i)
    PROVE  ~Unreadable(objs[i]) /\ Followed(i)
<1> DEFINE o == objs[i]
           ws == Words(Follows(o))
<1>1. /\ o.type \in Kinds /\ Shape(objs, flagged.shared, i, o) /\ Len(objs) \in Nat
      /\ Len(o.units) \in Nat /\ DOMAIN o.units = 1..Len(o.units) /\ o.units \in Seq(Int)
      /\ o.units # <<>> => 1 \in 1..Len(o.units)
      /\ o.of \in {Nil} \cup 1..Len(objs) /\ (o.type = "made" <=> o.of # Nil)
  BY RefersAre, KindOf
<1>2. /\ i \in 1..Len(objs) /\ Refers(o) \subseteq Live /\ Live \subseteq 1..Len(objs) /\ Ids = 1..Len(objs)
      /\ o.of \in {Nil} \cup Live
      /\ \A w \in Refers(o) : w \in 1..Len(objs) /\ w > 0 /\
             (w = o.of \/ \E u \in 1..Len(o.units) : o.units[u] = w)
      /\ \A u \in 1..Len(o.units) : o.units[u] \in 1..Len(objs) => o.units[u] \in Refers(o)
      /\ \A u \in 1..Len(o.units) : o.units[u] \in {Nil, Raw, Static} \cup Live
  BY RefersAre, LiveIs DEF Ids
<1>3. Sound(o) /\ (o.type # "buffer" => \A w \in Refers(o) : ~Inner(w))
  BY DEF Meant
<1>4. ~Inner(Nil) /\ ~Inner(Static) /\ Nil \notin 1..Len(objs)
  BY NotInner DEF Nil
<1>5. o.of \in 1..Len(objs) => o.of \in Refers(o)
  BY <1>2 DEF Refers
<1> HIDE DEF o, ws
\* What is left to show, of the words followed.
<1>6. ASSUME o.type # "buffer", ~Unreadable(o), ws \subseteq Refers(o) \cup {Nil, Static},
             Stops(o) \/ Refers(o) \subseteq ws, o.type = "made" => o.of \in ws
      PROVE  ~Unreadable(objs[i]) /\ Followed(i)
  BY <1>2, <1>3, <1>4, <1>6 DEF Followed, o, ws
<1>13. CASE Stops(o)
  <2>1. o.type = "base" /\ flag = "shared"
    BY <1>13 DEF Stops
  <2>2. Follows(o) = <<>> /\ ~Unreadable(o)
    BY <1>1, <2>1, Arms
  <2>3. ws = {}
    BY <2>2 DEF ws, Words
  <2> QED
    BY <1>6, <1>13, <2>1, <2>2, <2>3
<1>7. CASE o.type \in {"pair", "base", "struct"} /\ ~Stops(o)
  <2>1. Follows(o) = o.units /\ ~Unreadable(o) /\ \A u \in DOMAIN o.units : o.units[u] # Raw
    BY <1>1, <1>3, <1>7, Arms DEF Stops
  <2>2. ws = {o.units[u] : u \in 1..Len(o.units)}
    BY <2>1 DEF ws, Words
  <2>3. ws \subseteq Refers(o) \cup {Nil, Static}
    <3>1. ASSUME NEW u \in 1..Len(o.units) PROVE o.units[u] \in Refers(o) \cup {Nil, Static}
      <4>1. o.units[u] \in {Nil, Raw, Static} \cup Live /\ o.units[u] # Raw
        BY <1>1, <1>2, <2>1
      <4>2. o.units[u] \in Live => o.units[u] \in Refers(o)
        BY <1>2
      <4> QED
        BY <4>1, <4>2
    <3> QED
      BY <2>2, <3>1
  <2>4. Refers(o) \subseteq ws
    BY <1>1, <1>2, <1>4, <1>7, <2>2
  <2> QED
    BY <1>6, <1>7, <2>1, <2>3, <2>4
<1>8. CASE o.type = "procedure"
  <2>1. Follows(o) = <<o.units[2]>> /\ ~Unreadable(o) /\ o.units[1] <= 0 /\ o.units[2] # Raw
    BY <1>1, <1>3, <1>8, Arms
  <2>2. Len(o.units) = 2
    BY <1>1, <1>8 DEF Shape
  <2>3. \A u \in 1..2 : u = 1 \/ u = 2
    OBVIOUS
  <2>4. ws = {o.units[2]}
    <3>1. Len(<<o.units[2]>>) = 1 /\ <<o.units[2]>>[1] = o.units[2] /\ \A k \in 1..1 : k = 1
      OBVIOUS
    <3> QED
      BY <2>1, <3>1 DEF ws, Words
  <2>5. o.units[2] \in Refers(o) \cup {Nil, Static}
    <3>1. 2 \in 1..Len(o.units)
      BY <2>2
    <3>2. o.units[2] \in {Nil, Raw, Static} \cup Live
      BY <1>2, <3>1
    <3>3. o.units[2] \in Live => o.units[2] \in 1..Len(objs)
      BY <1>2
    <3> QED
      BY <1>2, <2>1, <3>1, <3>2, <3>3
  <2>6. Refers(o) \subseteq ws
    <3>1. ASSUME NEW w \in Refers(o) PROVE w = o.units[2]
      <4>1. o.of = Nil /\ w # Nil /\ w > 0
        BY <1>1, <1>2, <1>4, <1>8
      <4>2. PICK u \in 1..2 : o.units[u] = w
        BY <1>2, <2>2, <4>1
      <4>3. ~(w <= 0)
        <5>1. w \in 1..Len(objs)
          BY <1>2
        <5> QED
          BY <5>1
      <4>4. u # 1
        BY <2>1, <4>2, <4>3
      <4> QED
        BY <2>3, <4>2, <4>4
    <3> QED
      BY <2>4, <3>1
  <2> QED
    BY <1>6, <1>8, <2>1, <2>4, <2>5, <2>6
<1>9. CASE o.type \in {"int", "slots"}
  <2>1. Follows(o) = <<>> /\ ~Unreadable(o)
    BY <1>1, <1>9, Arms
  <2>2. ws = {}
    BY <2>1 DEF ws, Words
  <2>3. Refers(o) = {}
    <3>1. \A u \in 1..Len(o.units) : o.units[u] \notin 1..Len(objs)
      BY <1>1, <1>9 DEF Shape
    <3> QED
      BY <1>1, <1>2, <1>4, <1>9, <3>1
  <2> QED
    BY <1>6, <1>9, <2>1, <2>2, <2>3
<1>10. CASE o.type = "buffer"
  <2>1. Follows(o) = <<>> /\ (Unreadable(o) <=> o.units[2] = Raw)
    BY <1>1, <1>10, Arms
  <2>2. ws = {}
    BY <2>1 DEF ws, Words
  <2>3. o.units[2] # Raw
    BY <1>2, <1>10 DEF Inner, IsObj, o
  <2>4. o.units[1] = Raw /\ o.units[2] \in 1..Len(objs) /\ Innermost(objs[o.units[2]]) /\ Len(o.units) = 2
    BY <1>1, <1>10, <2>3 DEF Shape
  <2> DEFINE x == o.units[2]
  <2>5. BufferMarks(o) = {x}
    BY <1>4, <2>4 DEF BufferMarks
  <2>6. x \in Refers(o)
    BY <1>2, <2>4
  <2>7. \A u \in 1..2 : u = 1 \/ u = 2
    OBVIOUS
  <2>8. Raw \notin 1..Len(objs)
    BY DEF Raw
  <2>9. Refers(o) \subseteq {x}
    <3>1. ASSUME NEW w \in Refers(o) PROVE w = x
      <4>1. o.of = Nil /\ w # Nil /\ w # Raw
        BY <1>1, <1>2, <1>4, <1>10, <2>8
      <4>2. PICK u \in 1..2 : o.units[u] = w
        BY <1>2, <2>4, <4>1
      <4> QED
        BY <2>4, <2>7, <4>1, <4>2
    <3> QED
      BY <3>1
  <2> HIDE DEF x
  <2>10. x \in Live
    BY <1>2, <2>6
  <2>11. objs[x].type = "buffer" /\ objs[x].units[1] = Raw /\ objs[x].units[2] = Raw /\ x \in 1..Len(objs)
    BY <1>2, <2>4, <2>10 DEF Innermost, x
  <2>12. Refers(objs[x]) = {}
    <3>1. objs[x].of = Nil /\ Len(objs[x].units) = 2
      BY <2>11, KindOf DEF Shape
    <3>2. \A w \in Refers(objs[x]) : w \in 1..Len(objs) /\
              (w = objs[x].of \/ \E u \in 1..Len(objs[x].units) : objs[x].units[u] = w)
      BY <2>10, RefersAre
    <3>3. ASSUME NEW w \in Refers(objs[x]) PROVE FALSE
      <4>1. w \in 1..Len(objs) /\ w # Nil /\ w # Raw
        BY <1>4, <2>8, <3>2
      <4>2. PICK u \in 1..2 : objs[x].units[u] = w
        BY <3>1, <3>2, <4>1
      <4> QED
        BY <2>7, <2>11, <4>1, <4>2
    <3> QED
      BY <3>3
  <2> QED
    BY <1>10, <2>1, <2>2, <2>3, <2>5, <2>9, <2>10, <2>11, <2>12 DEF Followed, o, ws
<1>11. CASE MarksItself(o)
  <2>1. /\ Follows(o) = <<o.of, o.units[1]>> /\ ~Unreadable(o) /\ o.type = "made"
        /\ o.units # <<>> /\ o.units[1] # Raw /\ \A u \in 2..Len(o.units) : o.units[u] <= 0
    BY <1>1, <1>3, <1>11, Arms
  <2>2. ws = {o.of, o.units[1]}
    <3>1. /\ Len(<<o.of, o.units[1]>>) = 2 /\ <<o.of, o.units[1]>>[1] = o.of
          /\ <<o.of, o.units[1]>>[2] = o.units[1] /\ \A k \in 1..2 : k = 1 \/ k = 2
      OBVIOUS
    <3> QED
      BY <2>1, <3>1 DEF ws, Words
  <2>3. o.of \in Refers(o) /\ o.units[1] \in Refers(o) \cup {Nil, Static}
    BY <1>1, <1>2, <1>5, <2>1
  <2>4. Refers(o) \subseteq ws
    <3>1. ASSUME NEW w \in Refers(o), w # o.of PROVE w = o.units[1]
      <4>1. PICK u \in 1..Len(o.units) : o.units[u] = w
        BY <1>2, <3>1
      <4>2. u \notin 2..Len(o.units)
        BY <1>2, <2>1, <4>1
      <4>3. u = 1
        BY <1>1, <4>1, <4>2
      <4> QED
        BY <4>1, <4>3
    <3> QED
      BY <2>2, <3>1
  <2> QED
    BY <1>6, <2>1, <2>2, <2>3, <2>4
<1>12. CASE o.type \in {"made", "vector", "iter"} /\ ~MarksItself(o)
  <2> DEFINE d == DeclOf(o)
  <2>1. Follows(o) = <<o.of>> \o RefUnits(o) /\ Fits(o)
        /\ (Unreadable(o) <=> \/ d.count < 0 /\ ~Measured(o)
                              \/ \E u \in Len(o.units) + 1 .. Units(o) : UnitLabel(d, u) = "ref")
    BY <1>1, <1>3, <1>12, Arms
  <2>2. d \in Decl /\ Labelled(d)
    BY <1>2, DeclIs DEF o
  <2> HIDE DEF d
  <2>3. d.count < 0 => Measured(o)
    BY <2>1 DEF Fits, d
  <2>4. Units(o) \in Nat
    BY <1>2, <2>3, UnitsNat DEF d, o
  <2>5. \A u \in 1..Units(o) : LabelMeant(d, u) = UnitLabel(d, u)
    <3>1. \A u \in 1..Units(o) : u \in Nat \ {0}
      BY <2>4
    <3> QED
      BY <2>2, <3>1, LabelIs
  <2>6. \A u \in 1..Units(o) : UnitLabel(d, u) = "ref" => u \in 1..Len(o.units) /\ o.units[u] # Raw
    <3>1. \A u \in 1..Units(o) : LabelMeant(d, u) = "ref" => u <= Len(o.units) /\ o.units[u] # Raw
      BY <2>1 DEF Fits, d
    <3> QED
      BY <1>1, <2>4, <2>5, <3>1
  <2>7. ~Unreadable(o)
    <3>1. \A u \in Len(o.units) + 1 .. Units(o) : u \in 1..Units(o) /\ u \notin 1..Len(o.units)
      BY <1>1, <2>4
    <3> QED
      BY <2>1, <2>3, <2>6, <3>1
  <2>8. \A u \in 1..Len(o.units) : o.units[u] > 0 => u \in 1..Units(o) /\ UnitLabel(d, u) = "ref"
    <3>1. \A u \in 1..Len(o.units) : o.units[u] > 0 => u <= Units(o) /\ LabelMeant(d, u) = "ref"
      BY <1>1, <2>1 DEF Fits, d
    <3> QED
      BY <1>1, <2>4, <2>5, <3>1
  <2> DEFINE T == Refers(o) \cup {Nil, Static}
  <2>9. \A u \in 1..Units(o) : UnitLabel(d, u) = "ref" => o.units[u] \in T
    BY <1>2, <2>6
  <2> HIDE DEF T
  <2>10. /\ RefUnits(o) \in Seq(T) /\ Len(RefUnits(o)) = Units(o)
         /\ \A u \in 1..Units(o) : RefUnits(o)[u] = IF UnitLabel(d, u) = "ref" THEN o.units[u] ELSE Nil
    <3>1. Nil \in T
      BY DEF T
    <3> QED
      BY <2>4, <2>9, <3>1, RefUnitsAre DEF d
  <2>11. o.of \in T
    BY <1>1, <1>5 DEF T
  <2>12. Follows(o) \in Seq(T) /\ ws = {o.of} \cup Words(RefUnits(o))
    BY <2>1, <2>10, <2>11, After DEF ws
  <2>13. ws \subseteq T
    BY <2>12, LenNat DEF ws, Words
  <2>14. Refers(o) \subseteq ws
    <3>1. ASSUME NEW w \in Refers(o), w # o.of PROVE w \in Words(RefUnits(o))
      <4>1. PICK u \in 1..Len(o.units) : o.units[u] = w
        BY <1>2, <3>1
      <4>2. u \in 1..Units(o) /\ UnitLabel(d, u) = "ref"
        BY <1>2, <2>8, <4>1
      <4>3. RefUnits(o)[u] = w /\ u \in 1..Len(RefUnits(o))
        BY <2>10, <4>1, <4>2
      <4> QED
        BY <4>3 DEF Words
    <3> QED
      BY <2>12, <3>1
  <2>15. o.of \in ws /\ ws \subseteq Refers(o) \cup {Nil, Static}
    BY <2>12, <2>13 DEF T
  <2> QED
    BY <1>6, <1>12, <2>7, <2>14, <2>15
<1> QED
  BY <1>1, <1>7, <1>8, <1>9, <1>10, <1>11, <1>12, <1>13 DEF Kinds
-----------------------------------------------------------------------------
(* The steps of a traversal, and of the sweep.                               *)
LEMMA TodoIs ==
    ASSUME Typed, todo # <<>>
    PROVE  /\ Head(todo) \in Word(objs) /\ Tail(todo) \in Seq(Word(objs))
           /\ ToDo = {Head(todo)} \cup Words(Tail(todo)) /\ Head(todo) \in ToDo
<1> DEFINE W == Word(objs)
           t == Tail(todo)
<1>1. todo \in Seq(W) /\ todo # <<>>
  BY DEF Typed
<1> HIDE DEF W
<1>2. /\ Len(todo) \in Nat /\ 1 \in 1..Len(todo) /\ Head(todo) = todo[1]
      /\ t \in Seq(W) /\ Len(t) = Len(todo) - 1 /\ \A k \in 1..Len(t) : t[k] = todo[k + 1]
  <2>1. t \in Seq(W) /\ Len(t) = Len(todo) - 1 /\ \A k \in 1..Len(t) : t[k] = todo[k + 1]
    BY <1>1, HeadTailProperties
  <2> QED
    BY <1>1, <2>1, LenNat, EmptySeq
<1> HIDE DEF t
<1>3. \A k \in 1..Len(t) : k + 1 \in 1..Len(todo)
  BY <1>2
<1>4. \A k \in 1..Len(todo) : k = 1 \/ (k - 1 \in 1..Len(t) /\ (k - 1) + 1 = k)
  BY <1>2
<1>5. \A k \in 1..Len(todo) : k = 1 \/ \E j \in 1..Len(t) : t[j] = todo[k]
  BY <1>2, <1>4
<1>6. \A k \in 1..Len(t) : \E j \in 1..Len(todo) : todo[j] = t[k]
  BY <1>2, <1>3
<1>7. ToDo = {Head(todo)} \cup Words(t)
  <2>1. ToDo \subseteq {Head(todo)} \cup Words(t)
    <3>1. ASSUME NEW k \in 1..Len(todo) PROVE todo[k] = Head(todo) \/ todo[k] \in Words(t)
      <4>1. CASE k = 1
        BY <1>2, <4>1
      <4>2. CASE \E j \in 1..Len(t) : t[j] = todo[k]
        BY <4>2 DEF Words
      <4> QED
        BY <1>5, <4>1, <4>2
    <3> QED
      BY <3>1 DEF ToDo
  <2>2. Head(todo) \in ToDo /\ Words(t) \subseteq ToDo
    BY <1>2, <1>6 DEF ToDo, Words
  <2> QED
    BY <2>1, <2>2
<1>8. Head(todo) \in W
  BY <1>1, <1>2, LenNat
<1> QED
  BY <1>2, <1>7, <1>8 DEF W, t

LEMMA PassOverTyped == ASSUME Typed, PassOver PROVE Typed'
<1>1. Still /\ UNCHANGED <<flagged, flag, then, pc, at, honest, pinned>>
  BY DEF PassOver, Still, heap, history
<1>2. todo # <<>> /\ todo' = Tail(todo)
  BY DEF PassOver, Marking
<1>3. todo' \in Seq(Word(objs))
  BY <1>2, TodoIs
<1> QED
  BY <1>1, <1>3, StillTyped DEF Typed

LEMMA PassOverSafe == ASSUME Typed, Safe, PassOver PROVE Safe'
<1> SUFFICES ASSUME honest' PROVE pc' # "crashed" /\ Unfreed' /\ Pinned' /\ Tracing' /\ Collecting' /\ Sweeping'
  BY DEF Safe
<1>1. Still /\ UNCHANGED <<flagged, flag, then, pc, at, honest, pinned>> /\ pc = "mark"
  BY DEF PassOver, Still, heap, history, Marking
<1> DEFINE w == Head(todo)
<1>2. ToDo = {w} \cup ToDo' /\ todo # <<>> /\ Skip(w)
  BY TodoIs DEF PassOver, Marking, ToDo, Words
<1> HIDE DEF w
<1>3. /\ Ids' = Ids /\ Roots' = Roots /\ Live' = Live /\ Driven' = Driven /\ Near' = Near
      /\ \A S : ReachedFrom(S)' = ReachedFrom(S)
      /\ \A x : Inner(x)' = Inner(x)
      /\ \A i : Meant(i)' = Meant(i)
      /\ \A i : objs'[i] = objs[i] /\ Refers(objs[i])' = Refers(objs[i])
  BY <1>1, StillIs
<1>4. pc # "crashed" /\ Unfreed /\ Pinned /\ Tracing /\ Collecting
  BY <1>1 DEF Safe
<1>5. Nil \notin Ids /\ Static \notin Ids /\ Live \subseteq Ids
  BY HeapFacts, LiveIs DEF Nil, Static
<1>6. \A X \in SUBSET Ids : X \subseteq flagged[flag] \cup ToDo => X \subseteq flagged[flag] \cup ToDo'
  BY <1>2, <1>5 DEF Skip
<1>7. \A i : Refers(objs[i]) \subseteq Ids
  BY DEF Refers
<1>8. Unfreed'
  BY <1>1, <1>3, <1>4 DEF Unfreed, Still
<1>9. Pinned'
  <2>1. Pinning' <=> Pinning
    BY <1>1 DEF Pinning
  <2>2. Pinning => flagged[flag] = flagged.shared
    BY DEF Pinning
  <2>3. ASSUME Pinning, NEW S \in SUBSET Ids, Promised(S) PROVE Promised(S)'
    <3>1. S \subseteq flagged.shared \cup ToDo'
      BY <1>6, <2>2, <2>3 DEF Promised
    <3>2. \A i \in ReachedFrom(S) \cap flagged.shared : Refers(objs[i]) \subseteq flagged.shared \cup ToDo'
      BY <1>6, <1>7, <2>2, <2>3 DEF Promised
    <3> QED
      BY <1>1, <1>3, <2>3, <3>1, <3>2 DEF Promised
  <2>4. ASSUME NEW i \in flagged.shared, objs[i].type = "made"
        PROVE  objs[i].of \in flagged.shared \/ (Pinning /\ objs[i].of \in ToDo')
    <3>1. objs[i].of \in flagged.shared \/ (Pinning /\ objs[i].of \in ToDo)
      BY <1>4, <2>4 DEF Pinned
    <3>2. objs[i].of \in Ids
      BY <2>4, KindOf, HeapFacts
    <3> QED
      BY <1>6, <2>2, <3>1, <3>2
  <2> QED
    BY <1>1, <1>3, <1>4, <2>1, <2>3, <2>4 DEF Pinned
<1>10. Tracing'
  BY <1>1, <1>2, <1>3, <1>4 DEF Tracing
<1>11. Collecting'
  <2> SUFFICES ASSUME then = "sweep"
               PROVE  /\ flagged.mark \subseteq Live /\ Roots \subseteq flagged.mark \cup ToDo'
                      /\ \A i \in flagged.mark : Refers(objs[i]) \subseteq flagged.mark \cup ToDo'
    BY <1>1, <1>3 DEF Collecting
  <2>1. flagged[flag] = flagged.mark
    BY <1>1 DEF Typed
  <2>2. Roots \subseteq Ids
    BY DEF Roots, Typed
  <2> QED
    BY <1>1, <1>4, <1>6, <1>7, <2>1, <2>2 DEF Collecting
<1> QED
  BY <1>1, <1>4, <1>8, <1>9, <1>10, <1>11 DEF Sweeping

(* What is taken of a traversal begun over what its types describe.          *)
LEMMA HeadReadable ==
    ASSUME Typed, Safe, honest, Marking, ~Skip(Head(todo))
    PROVE  Head(todo) \in Live /\ Readable(Head(todo)) /\ Followed(Head(todo))
<1> DEFINE w == Head(todo)
<1>1. pc = "mark" /\ todo # <<>> /\ Unfreed /\ Tracing
  BY DEF Safe, Marking
<1>2. w \in ToDo
  BY <1>1, TodoIs
<1>3. w \in Live /\ ~Inner(w)
  BY <1>1, <1>2 DEF Tracing, Skip
<1>4. Live \cap freed = {} /\ Live \subseteq Ids
  BY <1>1, NearIs, LiveIs DEF Unfreed
<1>5. Meant(w)
  BY <1>1, <1>3 DEF Tracing
<1> HIDE DEF w
<1>6. ~Unreadable(objs[w]) /\ Followed(w)
  BY <1>3, <1>4, <1>5, FollowsIs
<1> QED
  BY <1>3, <1>4, <1>6 DEF Readable, IsObj, w

LEMMA MisreadTyped == ASSUME Typed, Misread PROVE Typed'
<1>1. Still /\ UNCHANGED <<flagged, flag, todo, then, at, honest, pinned>> /\ pc' = "crashed"
  BY DEF Misread, Still, heap, history
<1> QED
  BY <1>1, StillTyped DEF Typed

LEMMA MisreadSafe == ASSUME Typed, Safe, Misread PROVE Safe'
<1>1. honest' = honest
  BY DEF Misread, history
<1>2. ~honest
  BY HeadReadable DEF Misread
<1> QED
  BY <1>1, <1>2 DEF Safe

LEMMA TraversedTyped == ASSUME Typed, Traversed PROVE Typed'
<1>1. Still /\ UNCHANGED <<flagged, flag, todo, then, honest, pinned>> /\ pc' = then /\ at' = Len(objs)
  BY DEF Traversed, StartOfSweep, Still, heap, history
<1>2. at' \in 0..Len(objs)
  BY <1>1, HeapFacts
<1> QED
  BY <1>1, <1>2, StillTyped DEF Typed

LEMMA TraversedSafe == ASSUME Typed, Safe, Traversed PROVE Safe'
<1> SUFFICES ASSUME honest' PROVE pc' # "crashed" /\ Unfreed' /\ Pinned' /\ Tracing' /\ Collecting' /\ Sweeping'
  BY DEF Safe
<1>1. /\ Still /\ UNCHANGED <<flagged, flag, todo, then, honest, pinned>> /\ pc' = then /\ at' = Len(objs)
      /\ pc = "mark" /\ todo = <<>>
  BY DEF Traversed, StartOfSweep, Still, heap, history
<1>2. /\ Ids' = Ids /\ Roots' = Roots /\ Live' = Live /\ Driven' = Driven /\ Near' = Near
      /\ \A i : objs'[i] = objs[i]
  BY <1>1, StillIs
<1>3. Unfreed /\ Pinned /\ Tracing /\ Collecting
  BY <1>1 DEF Safe
<1>4. ToDo = {}
  BY <1>1 DEF ToDo
<1>5. then \in {"run", "sweep"}
  BY DEF Typed
<1>6. Unfreed'
  BY <1>1, <1>2, <1>3 DEF Unfreed, Still
<1>7. Pinned'
  <2>1. ~Pinning'
    BY <1>1, <1>5 DEF Pinning
  <2>2. \A i \in flagged.shared : objs[i].type = "made" => objs[i].of \in flagged.shared
    BY <1>3, <1>4 DEF Pinned
  <2>3. pinned \subseteq flagged.shared
    <3>1. CASE Pinning
      <4>1. PICK S \in SUBSET Ids : Promised(S)
        BY <1>3, <3>1 DEF Pinned
      <4> DEFINE X == ReachedFrom(S) \cap flagged.shared
      <4>2. /\ S \subseteq ReachedFrom(S) /\ ReachedFrom(S) = Reaches(objs, S)
            /\ \A i \in ReachedFrom(S) : Refers(objs[i]) \subseteq ReachedFrom(S)
        BY ReachedFacts, ReachedIs
      <4>3. S \subseteq X
        BY <1>4, <4>1, <4>2 DEF Promised
      <4>4. \A i \in X : Refers(objs[i]) \subseteq X
        BY <1>4, <4>1, <4>2 DEF Promised
      <4> HIDE DEF X
      <4>5. Closed(objs, X)
        BY <4>4, RefersIs DEF Closed
      <4>6. Reaches(objs, S) \subseteq X
        <5>1. Len(objs) \in Nat /\ S \in SUBSET (1..Len(objs))
          BY HeapFacts
        <5> QED
          BY <4>3, <4>5, <5>1, ReachWithin
      <4> QED
        BY <4>1, <4>2, <4>6 DEF Promised, X
    <3>2. CASE ~Pinning
      BY <1>3, <3>2 DEF Pinned
    <3> QED
      BY <3>1, <3>2
  <2> QED
    BY <1>1, <1>2, <2>1, <2>2, <2>3 DEF Pinned
<1>8. Sweeping'
  <2> SUFFICES ASSUME then = "sweep"
               PROVE  /\ flagged.mark = {i \in Live : i <= Len(objs)} /\ Driven \subseteq Live
                      /\ \A i \in Ids \ freed : i > Len(objs) => i \in Live \cup flagged.shared
    BY <1>1, <1>2 DEF Sweeping, Still
  <2>1. /\ flagged.mark \subseteq Live /\ Roots \subseteq flagged.mark
        /\ \A i \in flagged.mark : Refers(objs[i]) \subseteq flagged.mark
    BY <1>1, <1>3, <1>4 DEF Collecting
  <2>2. Closed(objs, flagged.mark)
    BY <2>1, RefersIs DEF Closed
  <2>3. Live \subseteq flagged.mark
    <3>1. Len(objs) \in Nat /\ Roots \in SUBSET (1..Len(objs)) /\ Live = Reaches(objs, Roots)
      BY HeapFacts, LiveIs DEF Roots, Typed
    <3> QED
      BY <2>1, <2>2, <3>1, ReachWithin
  <2>4. \A i \in Ids : i <= Len(objs) /\ ~(i > Len(objs))
    BY HeapFacts
  <2>5. Live \subseteq Ids /\ Driven \subseteq Live
    BY <1>1, <1>3, LiveIs DEF Tracing
  <2> QED
    BY <2>1, <2>3, <2>4, <2>5
<1> QED
  BY <1>1, <1>5, <1>6, <1>7, <1>8 DEF Tracing, Collecting

(* An object the sweep comes to.                                             *)
LEMMA SweepOneTyped == ASSUME Typed, SweepOne PROVE Typed'
<1>1. /\ pc = "sweep" /\ at > 0 /\ at' = at - 1
      /\ freed' = IF Kept(at) THEN freed ELSE freed \cup {at}
      /\ flagged' = [flagged EXCEPT !.mark = @ \ {at}]
      /\ pc' \in {pc, "crashed"}
      /\ UNCHANGED <<objs, held, registry, flag, todo, then, drives, honest, pinned>>
  BY DEF SweepOne, history
<1>2. Len(objs) \in Nat /\ Ids = 1..Len(objs) /\ at \in 0..Len(objs) /\ freed \subseteq Ids
  BY HeapFacts DEF Typed
<1>3. at \in Ids /\ at' \in 0..Len(objs)
  BY <1>1, <1>2
<1>4. Ids' = Ids /\ freed' \subseteq Ids' /\ Driven' = Driven
  BY <1>1, <1>2, <1>3 DEF Ids, Driven
<1>5. flagged' \in [mark : SUBSET Ids, shared : SUBSET Ids] /\ flagged'.shared = flagged.shared
  BY <1>1 DEF Typed
<1> QED
  BY <1>1, <1>3, <1>4, <1>5 DEF Typed

LEMMA SweepOneSafe == ASSUME Typed, Safe, SweepOne PROVE Safe'
<1> SUFFICES ASSUME honest' PROVE pc' # "crashed" /\ Unfreed' /\ Pinned' /\ Tracing' /\ Collecting' /\ Sweeping'
  BY DEF Safe
<1>1. /\ pc = "sweep" /\ at > 0 /\ at' = at - 1
      /\ freed' = IF Kept(at) THEN freed ELSE freed \cup {at}
      /\ flagged' = [flagged EXCEPT !.mark = @ \ {at}]
      /\ pc' = IF at \notin freed /\ ~Kept(at) /\ TypeGone(at) THEN "crashed" ELSE pc
      /\ UNCHANGED <<objs, held, registry, flag, todo, then, drives, honest, pinned>>
  BY DEF SweepOne, history
<1>2. Len(objs) \in Nat /\ Ids = 1..Len(objs) /\ at \in Ids
  BY <1>1, HeapFacts DEF Typed
<1>3. Ids' = Ids /\ Roots' = Roots /\ Live' = Live /\ Driven' = Driven /\ Near' = Near
  BY <1>1 DEF Ids, Roots, Driven, Live, ReachedFrom, Refers, Near, Reaches, Refs
<1>4. flagged'.shared = flagged.shared /\ flagged'.mark = flagged.mark \ {at}
  BY <1>1 DEF Typed
<1>5. Unfreed /\ Pinned /\ Sweeping /\ ~Pinning /\ ~Pinning'
  BY <1>1 DEF Safe, Pinning
<1>6. /\ flagged.mark = {i \in Live : i <= at} /\ Driven \subseteq Live
      /\ \A i \in Ids \ freed : i > at => i \in Live \cup flagged.shared
  BY <1>1, <1>5 DEF Sweeping
<1>7. pinned \subseteq flagged.shared /\ \A i \in flagged.shared : objs[i].type = "made" => objs[i].of \in flagged.shared
  BY <1>5 DEF Pinned
<1>8. Near = Live /\ Live \subseteq Ids
  BY <1>6, NearIs, LiveIs
<1>9. at \in Live => Kept(at)
  BY <1>2, <1>6 DEF Kept
<1>10. freed' \subseteq freed \cup {at} /\ (at \in freed' => at \in freed \/ ~Kept(at)) /\ (~Kept(at) => at \in freed')
  BY <1>1
<1>11. ~Kept(at) => at \notin Live /\ at \notin flagged.shared
  BY <1>9 DEF Kept
<1>12. pc' = "sweep"
  <2>1. at \notin freed => ~TypeGone(at)
    BY <1>2, <1>5 DEF TypeGone, Unfreed
  <2> QED
    BY <1>1, <2>1
<1>13. ASSUME NEW i \in Ids \ freed', objs[i].type = "made" PROVE objs[i].of \notin freed'
  <2>1. i \in Ids \ freed
    BY <1>1, <1>13
  <2>2. objs[i].of \notin freed
    BY <1>5, <1>13, <2>1 DEF Unfreed
  <2>3. i \in 1..Len(objs) /\ objs[i].of \in 1..i - 1
    BY <1>2, <1>13, KindOf DEF Shape
  <2>4. ASSUME objs[i].of = at, ~Kept(at) PROVE FALSE
    <3>1. i > at
      BY <1>2, <2>3, <2>4
    <3>2. CASE i \in flagged.shared
      BY <1>7, <1>11, <1>13, <2>4, <3>2
    <3>3. CASE i \in Live
      <4>1. i \in Near
        BY <1>8, <3>3
      <4>2. objs[i].of \in Near
        BY <1>13, <4>1, NearOf
      <4> QED
        BY <1>8, <1>11, <2>4, <4>2
    <3> QED
      BY <1>6, <2>1, <3>1, <3>2, <3>3
  <2> QED
    BY <1>1, <2>2, <2>4
<1>14. Unfreed'
  <2>1. Near' \cap freed' = {}
    BY <1>1, <1>3, <1>5, <1>8, <1>11 DEF Unfreed
  <2>2. flagged'.shared \cap freed' = {} /\ pinned' \cap freed' = {}
    BY <1>1, <1>4, <1>5, <1>7, <1>11 DEF Unfreed
  <2> QED
    BY <1>1, <1>3, <1>13, <2>1, <2>2 DEF Unfreed
<1>15. Pinned'
  BY <1>1, <1>4, <1>5, <1>7 DEF Pinned
<1>16. Sweeping'
  <2>1. flagged'.mark = {i \in Live' : i <= at'}
    <3>1. \A i \in Ids : i <= at' <=> i <= at /\ i # at
      BY <1>1, <1>2
    <3> QED
      BY <1>3, <1>4, <1>6, <1>8, <3>1
  <2>2. ASSUME NEW i \in Ids \ freed', i > at' PROVE i \in Live \cup flagged.shared
    <3>1. i \in Ids \ freed
      BY <1>1, <2>2
    <3>2. i > at \/ i = at
      BY <1>1, <1>2, <2>2
    <3>3. CASE i = at
      BY <1>6, <1>10, <2>2, <3>3 DEF Kept
    <3> QED
      BY <1>6, <3>1, <3>2, <3>3
  <2> QED
    BY <1>3, <1>4, <1>6, <2>1, <2>2 DEF Sweeping
<1> QED
  BY <1>12, <1>14, <1>15, <1>16 DEF Tracing, Collecting

LEMMA SweptTyped == ASSUME Typed, Swept PROVE Typed'
<1>1. Still /\ UNCHANGED <<flagged, flag, todo, then, at, honest, pinned>> /\ pc' = "run"
  BY DEF Swept, Still, heap, history
<1> QED
  BY <1>1, StillTyped DEF Typed

LEMMA SweptSafe == ASSUME Typed, Safe, Swept PROVE Safe'
<1> SUFFICES ASSUME honest' PROVE pc' # "crashed" /\ Unfreed' /\ Pinned' /\ Tracing' /\ Collecting' /\ Sweeping'
  BY DEF Safe
<1>1. Still /\ UNCHANGED <<flagged, flag, todo, then, at, honest, pinned>> /\ pc' = "run" /\ pc = "sweep"
  BY DEF Swept, Still, heap, history
<1>2. Ids' = Ids /\ Near' = Near /\ \A i : objs'[i] = objs[i]
  BY <1>1, StillIs
<1>3. Unfreed /\ Pinned /\ ~Pinning /\ ~Pinning'
  BY <1>1 DEF Safe, Pinning
<1>4. Unfreed' /\ Pinned'
  BY <1>1, <1>2, <1>3 DEF Unfreed, Pinned, Still
<1> QED
  BY <1>1, <1>4 DEF Tracing, Collecting, Sweeping

(* An object that is flagged, with what follows from it to do.               *)
LEMMA Joined ==
    ASSUME NEW T, NEW s \in Seq(T), NEW t \in Seq(T)
    PROVE  s \o t \in Seq(T) /\ Words(s \o t) = Words(s) \cup Words(t)
<1> DEFINE r == s \o t
<1>1. /\ r \in Seq(T) /\ Len(r) = Len(s) + Len(t) /\ Len(s) \in Nat /\ Len(t) \in Nat
      /\ \A k \in 1..Len(s) + Len(t) : r[k] = IF k <= Len(s) THEN s[k] ELSE t[k - Len(s)]
  BY ConcatProperties, LenNat
<1> HIDE DEF r
<1>2. \A k \in 1..Len(s) : k \in 1..Len(r) /\ r[k] = s[k]
  BY <1>1
<1>3. ASSUME NEW k \in 1..Len(t) PROVE k + Len(s) \in 1..Len(r) /\ r[k + Len(s)] = t[k]
  <2>1. k + Len(s) \in 1..Len(s) + Len(t) /\ ~(k + Len(s) <= Len(s)) /\ (k + Len(s)) - Len(s) = k
    BY <1>1
  <2> QED
    BY <1>1, <2>1
<1>4. \A k \in 1..Len(t) : \E j \in 1..Len(r) : r[j] = t[k]
  BY <1>3
<1>5. ASSUME NEW k \in 1..Len(r) PROVE r[k] \in Words(s) \cup Words(t)
  <2>1. CASE k <= Len(s)
    <3>1. k \in 1..Len(s)
      BY <1>1, <2>1
    <3> QED
      BY <1>2, <3>1 DEF Words
  <2>2. CASE ~(k <= Len(s))
    <3>1. k - Len(s) \in 1..Len(t) /\ r[k] = t[k - Len(s)]
      BY <1>1, <2>2
    <3> QED
      BY <3>1 DEF Words
  <2> QED
    BY <2>1, <2>2
<1>6. Words(r) = Words(s) \cup Words(t)
  <2>1. Words(r) \subseteq Words(s) \cup Words(t)
    BY <1>5 DEF Words
  <2>2. Words(s) \subseteq Words(r)
    BY <1>2 DEF Words
  <2>3. Words(t) \subseteq Words(r)
    BY <1>4 DEF Words
  <2> QED
    BY <2>1, <2>2, <2>3
<1> QED
  BY <1>1, <1>6 DEF r

LEMMA GrowsWider ==
    ASSUME NEW os, NEW pt, NEW L, NEW sh, NEW s1, Grows(os, pt, L, sh), sh \subseteq s1, s1 \subseteq 1..Len(pt)
    PROVE  Grows(os, pt, L, s1)
BY DEF Grows, Built, Shape

Flagging(w) ==
    {w} \cup (IF objs[w].type = "buffer" THEN BufferMarks(objs[w]) ELSE {})

(* The heap, the flags and what is to do when w has been taken.              *)
Taken(w) ==
    /\ pc = "mark" /\ w \in Ids /\ Flagging(w) \subseteq Ids
    /\ ToDo = {w} \cup Words(Tail(todo)) /\ ToDo' = Words(Follows(objs[w])) \cup Words(Tail(todo))
    /\ todo' \in Seq(Word(objs)) /\ \A x \in ToDo' : x \in Word(objs)
    /\ flagged' \in [mark : SUBSET Ids, shared : SUBSET Ids]
    /\ flagged'.mark = IF flag = "mark" THEN flagged.mark \cup Flagging(w) ELSE flagged.mark
    /\ flagged'.shared = IF flag = "mark" THEN flagged.shared ELSE flagged.shared \cup Flagging(w)
    /\ Grows(objs, objs', Near, flagged'.shared) /\ objs' \in Seq(Obj) /\ Alike
    /\ \A i \in Ids : objs'[i] = objs[i]
    /\ UNCHANGED <<freed, held, registry, flag, then, pc, at, drives, honest, pinned>>

LEMMA MarkObjectIs ==
    ASSUME Typed, MarkObject
    PROVE  Taken(Head(todo))
<1> DEFINE w == Head(todo)
           o == objs[w]
           M == Flagging(w)
<1>1. /\ pc = "mark" /\ todo # <<>> /\ IsObj(w) /\ ~Unreadable(o)
      /\ flagged' = [flagged EXCEPT ![flag] = @ \cup {w} \cup (IF o.type = "buffer" THEN BufferMarks(o) ELSE {})]
      /\ todo' = Follows(o) \o Tail(todo)
      /\ objs' = IF MarksItself(o) THEN Append(objs, IntObj(0)) ELSE objs
      /\ UNCHANGED <<freed, held, registry, flag, then, pc, at, drives, honest, pinned>>
  BY DEF MarkObject, Marking, Readable, history
<1>2. /\ Tail(todo) \in Seq(Word(objs)) /\ ToDo = {w} \cup Words(Tail(todo))
  BY <1>1, TodoIs
<1>3. flagged' = [flagged EXCEPT ![flag] = @ \cup M]
  <2>1. flagged[flag] \cup M = flagged[flag] \cup {w} \cup (IF o.type = "buffer" THEN BufferMarks(o) ELSE {})
    BY DEF Flagging
  <2> HIDE DEF M, o, w
  <2> QED
    BY <1>1, <2>1
<1> HIDE DEF w
<1>4. w \in Ids /\ Ids = 1..Len(objs) /\ objs \in Seq(Obj) /\ Len(objs) \in Nat /\ flagged.shared \in SUBSET (1..Len(objs))
  BY <1>1, HeapFacts DEF IsObj
<1>5. Follows(o) \in Seq(Word(objs)) /\ M \subseteq Ids
  BY <1>1, <1>4, FollowsTyped DEF Flagging
<1> HIDE DEF o
<1>6. todo' \in Seq(Word(objs)) /\ Words(todo') = Words(Follows(o)) \cup Words(Tail(todo))
  <2>1. todo' = Follows(o) \o Tail(todo)
    BY <1>1
  <2>2. /\ Follows(o) \o Tail(todo) \in Seq(Word(objs))
        /\ Words(Follows(o) \o Tail(todo)) = Words(Follows(o)) \cup Words(Tail(todo))
    <3>1. Follows(o) \in Seq(Word(objs)) /\ Tail(todo) \in Seq(Word(objs))
      BY ONLY <1>2, <1>5
    <3> QED
      BY ONLY <3>1, Joined, ZenonT(30)
  <2> QED
    BY ONLY <2>1, <2>2
<1>7. ToDo' = Words(todo') /\ \A x \in ToDo' : x \in Word(objs)
  BY <1>6, LenNat DEF ToDo, Words
<1> HIDE DEF M
<1>8. /\ flagged' \in [mark : SUBSET Ids, shared : SUBSET Ids]
      /\ flagged'.mark = IF flag = "mark" THEN flagged.mark \cup M ELSE flagged.mark
      /\ flagged'.shared = IF flag = "mark" THEN flagged.shared ELSE flagged.shared \cup M
  <2>1. flagged \in [mark : SUBSET Ids, shared : SUBSET Ids] /\ flag \in {"mark", "shared"}
    BY DEF Typed
  <2>2. CASE flag = "mark"
    <3>1. flagged' = [flagged EXCEPT !.mark = @ \cup M]
      BY <1>3, <2>2
    <3> QED
      BY <1>5, <2>1, <2>2, <3>1
  <2>3. CASE flag = "shared"
    <3>1. flagged' = [flagged EXCEPT !.shared = @ \cup M]
      BY <1>3, <2>3
    <3> QED
      BY <1>5, <2>1, <2>3, <3>1
  <2> QED
    BY <2>1, <2>2, <2>3
<1>9. /\ Grows(objs, objs', Near, flagged.shared) /\ objs' \in Seq(Obj) /\ Len(objs') \in Nat /\ Len(objs) <= Len(objs')
      /\ \A i \in Ids : objs'[i] = objs[i]
  <2>1. CASE MarksItself(o)
    <3>1. objs' = Append(objs, IntObj(0))
      BY <1>1, <2>1
    <3>2. /\ IntObj(0) \in Obj
          /\ \A pt, i : Len(pt) = Len(objs) + 1 /\ pt[i] = IntObj(0) => Built(objs, pt, Near, flagged.shared, i)
      BY IntBuilt
    <3>3. /\ objs' \in Seq(Obj) /\ Len(objs') = Len(objs) + 1
          /\ objs'[Len(objs) + 1] = IntObj(0) /\ \A i \in 1..Len(objs) : objs'[i] = objs[i]
      BY <1>4, <3>1, <3>2, AddOne
    <3>4. Built(objs, objs', Near, flagged.shared, Len(objs) + 1) /\ flagged.shared \in SUBSET (1..Len(objs'))
      BY <1>4, <3>2, <3>3
    <3>5. Grows(objs, objs', Near, flagged.shared)
      BY <1>4, <3>1, <3>2, <3>4, GrowsOne
    <3> QED
      BY <1>4, <3>3, <3>5
  <2>2. CASE ~MarksItself(o)
    <3>1. objs' = objs
      BY <1>1, <2>2
    <3> QED
      BY <1>4, <3>1 DEF Grows, Keeps
  <2> QED
    BY <2>1, <2>2
<1>10. Grows(objs, objs', Near, flagged'.shared)
  <2>1. flagged.shared \subseteq flagged'.shared /\ flagged'.shared \subseteq 1..Len(objs')
    BY <1>4, <1>8, <1>9
  <2> QED
    BY <1>9, <2>1, GrowsWider
<1>11. Alike
  BY <1>1, <1>4, <1>9 DEF Alike
<1>12. Taken(w)
  BY <1>1, <1>2, <1>4, <1>5, <1>6, <1>7, <1>8, <1>9, <1>10, <1>11 DEF Taken, o, M
<1> QED
  BY <1>12 DEF w

LEMMA MarkObjectTyped == ASSUME Typed, MarkObject PROVE Typed'
<1>1. Taken(Head(todo))
  BY MarkObjectIs
<1>2. /\ pc = "mark" /\ todo' \in Seq(Word(objs)) /\ flagged' \in [mark : SUBSET Ids, shared : SUBSET Ids]
      /\ flagged.shared \subseteq flagged'.shared
      /\ Grows(objs, objs', Near, flagged'.shared) /\ objs' \in Seq(Obj) /\ Len(objs) <= Len(objs')
      /\ \A i \in Ids : objs'[i] = objs[i]
      /\ UNCHANGED <<freed, held, registry, flag, then, pc, at, drives, honest, pinned>>
  BY <1>1 DEF Taken, Alike
<1>3. /\ Ids \subseteq Ids' /\ Word(objs) \subseteq Word(objs') /\ 0..Len(objs) \subseteq 0..Len(objs')
  BY <1>2, HeapWider
<1>4. Formed(objs', flagged'.shared)
  BY <1>2, GrowsFormed DEF Typed
<1>5. Driven' = Driven /\ Driven \subseteq Ids
  BY <1>2, DrivenIs DEF Driven
<1>6. \A i \in Driven' : objs'[i].type = "iter"
  BY <1>2, <1>5 DEF Typed
<1>7. drives' \in Seq([iter : Ids', how : {"next", "step"}])
  <2>1. drives' \in Seq([iter : Ids, how : {"next", "step"}])
    BY <1>2 DEF Typed
  <2>2. [iter : Ids, how : {"next", "step"}] \subseteq [iter : Ids', how : {"next", "step"}]
    BY <1>3
  <2>3. \A k \in 1..Len(drives') : drives'[k] \in [iter : Ids, how : {"next", "step"}]
    BY <2>1, LenNat
  <2> QED
    BY <2>1, <2>2, <2>3, SeqWider
<1>8. todo' \in Seq(Word(objs'))
  BY <1>2, <1>3, LenNat, SeqWider
<1>9. flagged' \in [mark : SUBSET Ids', shared : SUBSET Ids']
  BY <1>2, <1>3
<1>10. /\ freed' \subseteq Ids' /\ held' \subseteq Ids' /\ registry' \subseteq Ids' /\ pinned' \subseteq Ids'
       /\ \A t \in registry' : objs'[t].type = "struct"
  BY <1>2, <1>3 DEF Typed
<1>11. /\ flag' \in {"mark", "shared"} /\ then' \in {"run", "sweep"} /\ pc' \in {"run", "mark", "sweep", "crashed"}
       /\ at' \in 0..Len(objs') /\ honest' \in BOOLEAN /\ (then' = "sweep" /\ pc' = "mark" => flag' = "mark")
  BY <1>2, <1>3 DEF Typed
<1> QED
  BY <1>4, <1>6, <1>7, <1>8, <1>9, <1>10, <1>11 DEF Typed

LEMMA MarkObjectSafe == ASSUME Typed, Safe, MarkObject PROVE Safe'
<1> SUFFICES ASSUME honest' PROVE pc' # "crashed" /\ Unfreed' /\ Pinned' /\ Tracing' /\ Collecting' /\ Sweeping'
  BY DEF Safe
<1> DEFINE w == Head(todo)
           M == Flagging(w)
<1>1. Taken(w) /\ Typed'
  BY MarkObjectIs, MarkObjectTyped
<1>2. honest /\ pc = "mark" /\ UNCHANGED <<freed, held, registry, flag, then, pc, at, drives, honest, pinned>>
  BY <1>1 DEF Taken
<1>3. w \in Live /\ Followed(w)
  BY <1>2, HeadReadable DEF MarkObject
<1>4. Unfreed /\ Pinned /\ Tracing /\ Collecting
  BY <1>2 DEF Safe
<1> HIDE DEF w
<1>5. /\ M \subseteq Ids /\ ToDo = {w} \cup Words(Tail(todo)) /\ ToDo' = Words(Follows(objs[w])) \cup Words(Tail(todo))
      /\ \A x \in ToDo' : x \in Word(objs)
      /\ flagged' \in [mark : SUBSET Ids, shared : SUBSET Ids]
      /\ flagged'.mark = IF flag = "mark" THEN flagged.mark \cup M ELSE flagged.mark
      /\ flagged'.shared = IF flag = "mark" THEN flagged.shared ELSE flagged.shared \cup M
      /\ Grows(objs, objs', Near, flagged'.shared) /\ objs' \in Seq(Obj) /\ Alike
      /\ \A i \in Ids : objs'[i] = objs[i]
  BY <1>1 DEF Taken
<1>6. /\ M \subseteq Live /\ w \in M
      /\ \A i \in M : Stops(objs[i]) \/ Refers(objs[i]) \subseteq M \cup ToDo'
      /\ \A i \in M : objs[i].type = "made" => objs[i].of \in ToDo'
  BY <1>3, <1>5 DEF Followed, Flagging
<1> HIDE DEF M
<1>7. /\ Len(objs) \in Nat /\ Len(objs') \in Nat /\ Len(objs) <= Len(objs') /\ Ids = 1..Len(objs) /\ Ids' = 1..Len(objs')
      /\ Ids \subseteq Ids' /\ Live \subseteq Ids /\ Live \subseteq Near
  BY <1>5, HeapWider, LiveIs, NearIs DEF Alike
<1>8. \A i \in Ids : Refs(objs', objs'[i]) = Refs(objs, objs[i])
  <2>1. Formed(objs, flagged.shared) /\ flagged.shared \subseteq flagged'.shared
    BY <1>5 DEF Typed
  <2> QED
    BY <1>5, <1>7, <2>1, ShapeKept
<1>9. \A i \in Ids : Refers(objs[i])' = Refers(objs[i])
  <2>1. \A i : Refers(objs[i])' = Refs(objs', objs'[i])
    BY DEF Refers, Refs, Ids
  <2> QED
    BY <1>8, <2>1, RefersIs
<1>10. \A S \in SUBSET Ids : ReachedFrom(S)' = ReachedFrom(S) /\ ReachedFrom(S) \subseteq Ids
  <2>1. \A S : ReachedFrom(S)' = Reaches(objs', S)
    BY DEF ReachedFrom, Reaches, Refers, Refs, Ids
  <2>2. \A S \in SUBSET Ids : ReachedFrom(S) = Reaches(objs, S) /\ ReachedFrom(S) \subseteq Ids
    BY ReachedIs, ReachedFacts
  <2>3. ASSUME NEW S \in SUBSET Ids PROVE Reaches(objs', S) = Reaches(objs, S)
    <3>1. \A i \in Reaches(objs, S) : Refs(objs', objs'[i]) = Refs(objs, objs[i])
      BY <1>8, <2>2
    <3> QED
      BY <1>7, <3>1, ReachAgrees
  <2> QED
    BY <2>1, <2>2, <2>3
<1>11. Roots' = Roots /\ Roots \in SUBSET Ids /\ Driven' = Driven
  BY <1>2 DEF Roots, Driven, Typed
<1>12. Live' = Live
  <2>1. Live' = ReachedFrom(Roots)'
    BY DEF Live
  <2>2. ReachedFrom(Roots)' = Reaches(objs', Roots')
    BY DEF ReachedFrom, Reaches, Refers, Refs, Ids, Roots
  <2>3. ReachedFrom(Roots) = Reaches(objs, Roots)
    BY ReachedIs
  <2>4. Reaches(objs', Roots) = Reaches(objs, Roots)
    <3>1. Reaches(objs, Roots) \subseteq Ids
      BY <1>10, <1>11, <2>3
    <3>2. \A i \in Reaches(objs, Roots) : Refs(objs', objs'[i]) = Refs(objs, objs[i])
      BY <1>8, <3>1
    <3> QED
      BY <1>7, <1>11, <3>2, ReachAgrees
  <2> QED
    BY <1>11, <2>1, <2>2, <2>3, <2>4 DEF Live
<1>13. Unfreed'
  <2>1. Extends
    <3>1. flagged' \in [mark : SUBSET Ids', shared : SUBSET Ids']
      BY <1>5, <1>7
    <3>2. flagged'.shared \subseteq flagged.shared \cup Near /\ flagged.shared \subseteq flagged'.shared
      BY <1>5, <1>6, <1>7
    <3>3. drives' \in Seq([iter : Ids, how : {"next", "step"}])
      BY <1>2 DEF Typed
    <3> QED
      BY <1>2, <1>5, <1>11, <3>1, <3>2, <3>3 DEF Extends
  <2> QED
    BY <1>1, <1>4, <2>1, ExtendsUnfreed
<1>14. ToDo' \subseteq Live \cup {Nil, Static} /\ \A x \in ToDo' : ~Inner(x)
  BY <1>2, <1>3, <1>4, <1>5 DEF Tracing, Followed
<1>15. Tracing'
  <2>1. ASSUME NEW i \in Live PROVE Meant(i)'
    <3>1. i \in 1..Len(objs) /\ objs'[i] = objs[i] /\ Refs(objs', objs'[i]) = Refs(objs, objs[i]) /\ Meant(i)
      BY <1>2, <1>4, <1>5, <1>7, <1>8 DEF Tracing
    <3> QED
      BY <1>5, <3>1, MeantKept
  <2>2. \A x \in ToDo' : ~Inner(x)'
    BY <1>5, <1>14, WordKept
  <2> QED
    BY <1>2, <1>4, <1>11, <1>12, <1>14, <2>1, <2>2 DEF Tracing
<1>16. \A X : \A F : X \subseteq F \cup ToDo => X \subseteq F \cup M \cup ToDo'
  BY <1>5, <1>6
<1>17. Collecting'
  <2> SUFFICES ASSUME then = "sweep"
               PROVE  /\ flagged'.mark \subseteq Live /\ Roots \subseteq flagged'.mark \cup ToDo'
                      /\ \A i \in flagged'.mark : Refers(objs[i]) \subseteq flagged'.mark \cup ToDo'
    <3>1. \A i \in flagged'.mark : Refers(objs[i])' = Refers(objs[i])
      BY <1>5, <1>9
    <3> QED
      BY <1>2, <1>11, <1>12, <3>1 DEF Collecting
  <2>1. flagged'.mark = flagged.mark \cup M /\ \A i : ~Stops(objs[i])
    BY <1>2, <1>5 DEF Typed, Stops
  <2>2. /\ flagged.mark \subseteq Live /\ Roots \subseteq flagged.mark \cup ToDo
        /\ \A i \in flagged.mark : Refers(objs[i]) \subseteq flagged.mark \cup ToDo
    BY <1>2, <1>4 DEF Collecting
  <2> QED
    BY <1>6, <1>16, <2>1, <2>2
<1>18. Pinned'
  <2>1. /\ pinned' = pinned /\ (Pinning' <=> Pinning) /\ (Pinning <=> flag = "shared") /\ flag \in {"mark", "shared"}
    BY <1>2 DEF Pinning, Typed
  <2>2. \A i \in flagged'.shared : objs'[i] = objs[i]
    BY <1>5
  <2>3. CASE flag = "mark"
    BY <1>4, <1>5, <2>1, <2>2, <2>3 DEF Pinned
  <2>4. CASE flag = "shared"
    <3>1. flagged'.shared = flagged.shared \cup M
      BY <1>5, <2>4
    <3>2. ASSUME NEW i \in flagged'.shared, objs[i].type = "made"
          PROVE  objs[i].of \in flagged'.shared \/ objs[i].of \in ToDo'
      <4>1. CASE i \in M
        BY <1>6, <3>2, <4>1
      <4>2. CASE i \in flagged.shared
        <5>1. objs[i].of \in flagged.shared \/ objs[i].of \in ToDo
          BY <1>4, <3>2, <4>2 DEF Pinned
        <5> QED
          BY <1>5, <1>6, <3>1, <5>1
      <4> QED
        BY <3>1, <4>1, <4>2
    <3>3. PICK S \in SUBSET Ids : Promised(S)
      BY <1>4, <2>1, <2>4 DEF Pinned
    <3>4. /\ pinned \subseteq flagged.shared \cup ReachedFrom(S)
          /\ S \subseteq flagged.shared \cup ToDo
          /\ \A i \in ReachedFrom(S) \cap flagged.shared : Refers(objs[i]) \subseteq flagged.shared \cup ToDo
          /\ \A i \in ReachedFrom(S) : ~Stops(objs[i])
      BY <3>3 DEF Promised, Stops
    <3>5. ReachedFrom(S)' = ReachedFrom(S)
      BY <1>10
    <3>6. pinned' \subseteq flagged'.shared \cup ReachedFrom(S)' /\ S \subseteq flagged'.shared \cup ToDo'
      BY <1>16, <2>1, <3>1, <3>4, <3>5
    <3>7. ASSUME NEW i \in ReachedFrom(S), i \in flagged'.shared
          PROVE  Refers(objs[i])' \subseteq flagged'.shared \cup ToDo'
      <4>1. Refers(objs[i])' = Refers(objs[i])
        BY <1>5, <1>9, <3>7
      <4>2. CASE i \in M
        BY <1>6, <3>1, <3>4, <3>7, <4>1, <4>2
      <4>3. CASE i \in flagged.shared
        <5>1. Refers(objs[i]) \subseteq flagged.shared \cup ToDo
          BY <3>4, <4>3
        <5> QED
          BY <1>16, <3>1, <4>1, <5>1
      <4> QED
        BY <3>1, <3>7, <4>2, <4>3
    <3>9. \A i \in ReachedFrom(S) : objs'[i].type # "base"
      BY <1>5, <1>10, <3>3 DEF Promised
    <3>8. Promised(S)'
      BY <3>5, <3>6, <3>7, <3>9 DEF Promised
    <3> QED
      BY <1>7, <2>1, <2>2, <2>4, <3>2, <3>8 DEF Pinned
  <2> QED
    BY <2>1, <2>3, <2>4
<1> QED
  BY <1>2, <1>13, <1>15, <1>17, <1>18 DEF Sweeping

-----------------------------------------------------------------------------
(* Every step, and what follows from the invariant.                          *)
LEMMA InitTyped == ASSUME Init PROVE Typed
<1>1. /\ objs = <<>> /\ freed = {} /\ held = {} /\ registry = {} /\ pinned = {}
      /\ flagged = [mark |-> {}, shared |-> {}] /\ flag = "mark" /\ todo = <<>>
      /\ then = "run" /\ pc = "run" /\ at = 0 /\ drives = <<>> /\ honest = TRUE
  BY DEF Init
<1>2. <<>> \in Seq(Obj) /\ Len(<<>>) = 0 /\ 1..0 = {}
  OBVIOUS
<1>3. Formed(objs, flagged.shared)
  BY <1>1, <1>2 DEF Formed
<1>4. flagged \in [mark : SUBSET Ids, shared : SUBSET Ids]
  BY <1>1
<1>5. drives \in Seq([iter : Ids, how : {"next", "step"}]) /\ todo \in Seq(Word(objs)) /\ at \in 0..Len(objs)
  BY <1>1, <1>2
<1>6. Driven = {}
  BY <1>1, <1>2 DEF Driven
<1> QED
  BY <1>1, <1>3, <1>4, <1>5, <1>6 DEF Typed

LEMMA InitSafe == ASSUME Init, Typed PROVE Safe
<1>1. /\ objs = <<>> /\ freed = {} /\ pinned = {} /\ flagged.shared = {} /\ pc = "run"
  BY DEF Init
<1>2. Unfreed
  BY <1>1 DEF Unfreed
<1>3. Pinned
  BY <1>1 DEF Pinned, Pinning
<1> QED
  BY <1>1, <1>2, <1>3 DEF Safe, Tracing, Collecting, Sweeping

LEMMA NextIs ==
    ASSUME Next
    PROVE  \/ Plain \/ AskUnits \/ BaseMakeType \/ IterReturn
           \/ Collect \/ Pin \/ TreeMark \/ ChainClear \/ PassOver \/ Misread \/ MarkObject \/ Traversed
           \/ SweepOne \/ Swept
BY DEF Next, Plain

LEMMA StepTyped == ASSUME Typed, [Next]_vars PROVE Typed'
<1>1. CASE Next
  <2>1. CASE Plain
    BY <2>1, PlainMutates, MutatesTyped
  <2> QED
    BY <1>1, <2>1, NextIs, AskUnitsTyped, BaseMakeTypeTyped, IterReturnTyped, CollectTyped, PinTyped,
       TreeMarkTyped, ChainClearTyped, PassOverTyped, MisreadTyped, MarkObjectTyped, TraversedTyped,
       SweepOneTyped, SweptTyped
<1>2. CASE UNCHANGED vars
  <2>1. Still /\ UNCHANGED <<flagged, flag, todo, then, pc, at, honest, pinned>>
    BY <1>2 DEF vars, heap, trace, history, Still
  <2> QED
    BY <2>1, StillTyped DEF Typed
<1> QED
  BY <1>1, <1>2

LEMMA StepSafe == ASSUME Typed, Safe, [Next]_vars PROVE Safe'
<1>1. CASE Next
  <2>1. CASE Plain
    BY <2>1, PlainMutates, MutatesSafe
  <2> QED
    BY <1>1, <2>1, NextIs, AskUnitsSafe, BaseMakeTypeSafe, IterReturnSafe, CollectSafe, PinSafe,
       TreeMarkSafe, ChainClearSafe, PassOverSafe, MisreadSafe, MarkObjectSafe, TraversedSafe,
       SweepOneSafe, SweptSafe
<1>2. CASE UNCHANGED vars
  <2>1. Still /\ UNCHANGED <<flagged, flag, todo, then, pc, at, honest, pinned>>
    BY <1>2 DEF vars, heap, trace, history, Still
  <2>2. /\ Ids' = Ids /\ Roots' = Roots /\ Live' = Live /\ Driven' = Driven /\ Near' = Near
        /\ \A S : ReachedFrom(S)' = ReachedFrom(S)
        /\ \A w : Inner(w)' = Inner(w)
        /\ \A i : Meant(i)' = Meant(i)
        /\ \A i : objs'[i] = objs[i] /\ Refers(objs[i])' = Refers(objs[i])
        /\ ToDo' = ToDo /\ freed' = freed
    BY <2>1, StillIs DEF Still, ToDo
  <2>3. Unfreed' <=> Unfreed
    BY <2>1, <2>2 DEF Unfreed
  <2>4. Pinned' <=> Pinned
    <3>1. Pinning' <=> Pinning
      BY <2>1 DEF Pinning
    <3>2. \A S : Promised(S)' <=> Promised(S)
      BY <2>1, <2>2 DEF Promised
    <3> QED
      BY <2>1, <2>2, <3>1, <3>2 DEF Pinned
  <2>5. (Tracing' <=> Tracing) /\ (Collecting' <=> Collecting) /\ (Sweeping' <=> Sweeping)
    BY <2>1, <2>2 DEF Tracing, Collecting, Sweeping
  <2> QED
    BY <2>1, <2>3, <2>4, <2>5 DEF Safe
<1> QED
  BY <1>1, <1>2

Inv == Typed /\ Safe

LEMMA Invariance == Spec => []Inv
<1>1. Init => Inv
  BY InitTyped, InitSafe DEF Inv
<1>2. Inv /\ [Next]_vars => Inv'
  BY StepTyped, StepSafe DEF Inv
<1> QED
  BY <1>1, <1>2, PTL DEF Spec

(* The process does not end in the collector or in a driver of an iterator,  *)
(* x_type_heap_mark, x_heap_sweep or x_type_iter_next, unless a traversal    *)
(* was begun over what its types do not describe, with a mark left over, or  *)
(* the length of what has none was asked for.                                *)
THEOREM EndsForCause == Spec => []CrashesForCause
<1>1. Inv => CrashesForCause
  BY DEF Inv, Safe, CrashesForCause
<1> QED
  BY <1>1, Invariance, PTL

(* No sweep frees what the program can reach.                                *)
THEOREM NothingLiveIsFreed == Spec => []LiveStays
<1>1. Inv => LiveStays
  BY NearIs DEF Inv, Safe, Unfreed, LiveStays
<1> QED
  BY <1>1, Invariance, PTL

(* No sweep frees what a pin or a type made in a child has promised to keep. *)
THEOREM NothingPinnedIsFreed == Spec => []PinsHold
<1>1. Inv => PinsHold
  BY DEF Inv, Safe, Unfreed, PinsHold
<1> QED
  BY <1>1, Invariance, PTL

(* A sweep that ends has freed all that is neither live nor pinned, the      *)
(* objects that mark handlers made meanwhile among it.                       *)
THEOREM TheRestIsCollected == Spec => CollectsTheRest
<1>1. Inv /\ [Next]_vars => [Swept /\ honest => Ids \ freed = Live \cup flagged.shared]_vars
  <2> SUFFICES ASSUME Inv, Swept, honest PROVE Ids \ freed = Live \cup flagged.shared
    OBVIOUS
  <2>1. pc = "sweep" /\ at = 0 /\ Unfreed /\ Sweeping
    BY DEF Swept, Inv, Safe
  <2>2. /\ Live \subseteq Near /\ Live \subseteq Ids /\ flagged.shared \subseteq Ids /\ \A i \in Ids : i > 0
    BY HeapFacts, LiveIs DEF Inv, Typed
  <2>3. \A i \in Ids \ freed : i \in Live \cup flagged.shared
    BY <2>1, <2>2 DEF Sweeping
  <2>4. (Live \cup flagged.shared) \cap freed = {}
    BY <2>1, <2>2 DEF Unfreed
  <2> QED
    BY <2>2, <2>3, <2>4
<1> QED
  BY <1>1, Invariance, PTL DEF Spec, CollectsTheRest
=============================================================================
