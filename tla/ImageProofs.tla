----------------------------- MODULE ImageProofs -----------------------------
(* The writer's hash table is a map whatever keys collide and however often  *)
(* it grows; and whatever heap is written, with whatever room, no section is *)
(* overrun, a write is refused only for cause, a word is named once, and the *)
(* rebuilt objects are copies of those imaged.                               *)
EXTENDS Image, FiniteSetTheorems, SequenceTheorems, TLAPS

(* A set of numbers that is not empty has a least.                           *)
LEMMA Least ==
    ASSUME NEW T, T \subseteq Nat, T # {}
    PROVE  \E x \in T : \A y \in T : x <= y
<1> DEFINE Less == {p \in Nat \X Nat : p[1] < p[2]}
<1>1. IsWellFoundedOn(OpToRel(<, Nat), Nat)
  BY NatLessThanWellFounded
<1>2. OpToRel(<, Nat) = Less
  BY DEF OpToRel
<1>3. \E x \in T : \A y \in T : <<y, x>> \notin Less
  <2> HIDE DEF Less
  <2> QED
    BY <1>1, <1>2, WFMin
<1>4. PICK x \in T : \A y \in T : <<y, x>> \notin Less
  BY <1>3
<1>5. ASSUME NEW y \in T PROVE x <= y
  <2>1. x \in Nat /\ y \in Nat
    OBVIOUS
  <2>2. y < x => <<y, x>> \in Less
    BY <2>1
  <2> QED
    BY <1>4, <2>1, <2>2
<1> QED
  BY <1>5

(* A recursion on 0..N, whose steps are those of a function of the index and *)
(* the value before, is well defined.                                        *)
Folds(g, s, f, N) == g[0] = s /\ \A k \in 1..N : g[k] = f[<<k, g[k-1]>>]

(* Such a recursion has a function that satisfies it.                        *)
LEMMA Folded ==
    ASSUME NEW D, NEW s \in D, NEW N \in Nat, NEW f \in [(1..N) \X D -> D]
    PROVE  \E g \in [0..N -> D] : Folds(g, s, f, N)
<1> DEFINE Ok(n, g) == g[0] = s /\ \A k \in 1..n : g[k] = f[<<k, g[k-1]>>]
           T == {n \in 0..N : ~ \E g \in [0..n -> D] : Ok(n, g)}
<1>1. T = {}
  <2> SUFFICES ASSUME T # {} PROVE FALSE
    OBVIOUS
  <2>1. PICK n \in T : \A m \in T : n <= m
    <3>1. T \subseteq Nat
      OBVIOUS
    <3> HIDE DEF T
    <3> QED
      BY <3>1, Least
  <2>2. n # 0
    <3>1. [k \in 0..0 |-> s] \in [0..0 -> D] /\ Ok(0, [k \in 0..0 |-> s])
      OBVIOUS
    <3> QED
      BY <3>1
  <2>3. PICK g \in [0..n-1 -> D] : Ok(n - 1, g)
    <3>1. n - 1 \in 0..N /\ ~(n <= n - 1)
      BY <2>2
    <3>2. n - 1 \notin T
      <4> HIDE DEF T
      <4> QED
        BY <2>1, <3>1
    <3> QED
      BY <3>1, <3>2
  <2> DEFINE h == [k \in 0..n |-> IF k = n THEN f[<<n, g[n-1]>>] ELSE g[k]]
  <2>4. h \in [0..n -> D]
    <3>1. <<n, g[n-1]>> \in (1..N) \X D
      BY <2>2
    <3>2. f[<<n, g[n-1]>>] \in D
      BY <3>1
    <3>3. \A k \in 0..n : k # n => k \in 0..n-1
      BY <2>2
    <3> QED
      BY <3>2, <3>3
  <2>5. Ok(n, h)
    <3>1. h[0] = s
      BY <2>2, <2>3
    <3>2. ASSUME NEW k \in 1..n PROVE h[k] = f[<<k, h[k-1]>>]
      <4>1. CASE k = n
        BY <4>1, <2>2
      <4>2. CASE k # n
        BY <4>2, <2>2, <2>3
      <4> QED
        BY <4>1, <4>2
    <3> QED
      BY <3>1, <3>2
  <2> QED
    BY <2>4, <2>5
<1>2. N \in 0..N /\ N \notin T
  BY <1>1
<1> QED
  BY <1>2 DEF Folds

-----------------------------------------------------------------------------
(* Division.                                                                 *)
LEMMA OneQuotient ==
    ASSUME NEW n \in Nat \ {0}, NEW a \in Int, NEW b \in Int,
           NEW i \in 0..n-1, NEW j \in 0..n-1, n * a + i = n * b + j
    PROVE  i = j
<1>1. ~(a < b)
  <2> SUFFICES ASSUME a + 1 <= b PROVE FALSE
    OBVIOUS
  <2>1. n * (a + 1) <= n * b
    OBVIOUS
  <2>2. n * (a + 1) = n * a + n
    OBVIOUS
  <2> QED
    BY <2>1, <2>2
<1>2. ~(b < a)
  <2> SUFFICES ASSUME b + 1 <= a PROVE FALSE
    OBVIOUS
  <2>1. n * (b + 1) <= n * a
    OBVIOUS
  <2>2. n * (b + 1) = n * b + n
    OBVIOUS
  <2> QED
    BY <2>1, <2>2
<1> QED
  BY <1>1, <1>2

(* A number is its quotient times the divisor and its remainder.             *)
LEMMA Divides ==
    ASSUME NEW n \in Nat \ {0}, NEW k \in Nat
    PROVE  /\ k % n \in 0..n-1 /\ k \div n \in Nat
           /\ k = n * (k \div n) + (k % n)
<1>1. k % n \in 0..n-1
  OBVIOUS
<1>2. k \div n \in Nat
  OBVIOUS
<1>3. k = n * (k \div n) + (k % n)
  OBVIOUS
<1> QED
  BY <1>1, <1>2, <1>3

(* What a multiple of the divisor adds, the remainder leaves out.            *)
LEMMA Remainder ==
    ASSUME NEW n \in Nat \ {0}, NEW q \in Nat, NEW j \in 0..n-1
    PROVE  (n * q + j) % n = j
<1> DEFINE k == n * q + j
<1>1. k \in Nat
  <2>1. n * q \in Nat
    OBVIOUS
  <2> QED
    BY <2>1
<1>2. k % n \in 0..n-1 /\ k \div n \in Nat /\ k = n * (k \div n) + (k % n)
  <2> HIDE DEF k
  <2> QED
    BY <1>1, Divides
<1>3. n * q + j = n * (k \div n) + (k % n)
  BY <1>2
<1> HIDE DEF k
<1>4. k % n = j
  <2>1. q \in Int /\ k \div n \in Int
    BY <1>2
  <2> QED
    BY <1>2, <1>3, <2>1, OneQuotient
<1> QED
  BY <1>4 DEF k

-----------------------------------------------------------------------------
(* Tables, and the slot a key is looked up at.                               *)
TablesOf(n) == [keys : [0..n-1 -> Nat], vals : [0..n-1 -> Nat], count : Nat]
Tables == UNION {TablesOf(n) : n \in Nat \ {0}}
Keys   == Nat \ {0}

(* How many numbers there are below n.                                       *)
LEMMA RangeSize ==
    ASSUME NEW n \in Nat
    PROVE  IsFiniteSet(0..n-1) /\ Cardinality(0..n-1) = n
<1>1. IsFiniteSet(0..n-1) /\ Cardinality(0..n-1) = IF 0 > n - 1 THEN 0 ELSE n - 1 - 0 + 1
  BY FS_Interval
<1> QED
  BY <1>1

(* A table of n slots has the slots 0 to n - 1.                              *)
LEMMA SizeOf ==
    ASSUME NEW n \in Nat \ {0}, NEW u \in TablesOf(n)
    PROVE  Slots(u) = 0..n-1 /\ Size(u) = n
<1>1. Slots(u) = 0..n-1
  BY DEF TablesOf, Slots
<1> QED
  BY <1>1, RangeSize DEF Size

(* Every table has slots, from 0 on.                                         *)
LEMMA TableOf ==
    ASSUME NEW u \in Tables
    PROVE  /\ Size(u) \in Nat \ {0} /\ Slots(u) = 0..Size(u)-1
           /\ u \in TablesOf(Size(u))
<1>1. PICK n \in Nat \ {0} : u \in TablesOf(n)
  BY DEF Tables
<1> QED
  BY <1>1, SizeOf

(* A probe stays within the table.                                           *)
LEMMA ProbeIsSlot ==
    ASSUME NEW u \in Tables, NEW k \in Keys, NEW d \in Nat
    PROVE  Probe(u, k, d) \in Slots(u)
<1>1. Size(u) \in Nat \ {0} /\ Slots(u) = 0..Size(u)-1
  BY TableOf
<1>2. k \div Align \in Nat
  BY SlotsAssumption, Divides DEF Keys
<1>3. (k \div Align) + d \in Nat
  BY <1>2
<1> QED
  BY <1>1, <1>3, Divides DEF Probe

(* As many probes as there are slots meet every slot.                        *)
LEMMA ProbesReach ==
    ASSUME NEW u \in Tables, NEW k \in Keys, NEW j \in Slots(u)
    PROVE  \E d \in 0..Size(u)-1 : Probe(u, k, d) = j
<1> DEFINE n == Size(u)
           b == k \div Align
           q == b \div n
           r == b % n
<1>1. n \in Nat \ {0} /\ j \in 0..n-1
  BY TableOf
<1>2. b \in Nat
  BY SlotsAssumption, Divides DEF Keys
<1> HIDE DEF n, b
<1>3. q \in Nat /\ r \in 0..n-1 /\ b = n * q + r
  BY <1>1, <1>2, Divides
<1> HIDE DEF q, r
<1>4. CASE j >= r
  <2>1. j - r \in 0..n-1 /\ b + (j - r) = n * q + j
    BY <1>1, <1>3, <1>4
  <2>2. (n * q + j) % n = j
    BY <1>1, <1>3, Remainder
  <2>3. (b + (j - r)) % n = j
    BY <2>1, <2>2
  <2>4. Probe(u, k, j - r) = j
    BY <2>3 DEF Probe, b, n
  <2> QED
    BY <2>1, <2>4 DEF n
<1>5. CASE j < r
  <2>1. j + n - r \in 0..n-1
    BY <1>1, <1>3, <1>5
  <2>2. n * (q + 1) = n * q + n /\ q + 1 \in Nat
    BY <1>1, <1>3
  <2>3. b + (j + n - r) = n * (q + 1) + j
    BY <1>1, <1>3, <2>2
  <2>4. (n * (q + 1) + j) % n = j
    BY <1>1, <2>2, Remainder
  <2>5. (b + (j + n - r)) % n = j
    BY <2>3, <2>4
  <2>6. Probe(u, k, j + n - r) = j
    BY <2>5 DEF Probe, b, n
  <2> QED
    BY <2>1, <2>6 DEF n
<1> QED
  BY <1>1, <1>3, <1>4, <1>5

(* The first stop is the only one.                                           *)
First(u, k, d) == Stops(u, k, d) /\ \A e \in 0..d-1 : ~Stops(u, k, e)

(* A lookup answers the first probe that stops it.                           *)
LEMMA FirstIsSlot ==
    ASSUME NEW u \in Tables, NEW k \in Keys, NEW d \in 0..Size(u)-1, First(u, k, d)
    PROVE  SlotOf(u, k) = Probe(u, k, d)
<1> DEFINE P(e) == Stops(u, k, e) /\ \A f \in 0..(e - 1) : ~Stops(u, k, f)
           c == CHOOSE e \in 0..(Size(u) - 1) : P(e)
<1>1. P(d)
  BY DEF First
<1>2. c \in 0..(Size(u) - 1) /\ P(c)
  <2> HIDE DEF P
  <2> QED
    BY <1>1
<1>3. c = d
  BY <1>1, <1>2, TableOf
<1> QED
  BY <1>3 DEF SlotOf

(* A lookup ends where there is an empty slot, or its key.                   *)
LEMMA SlotStops ==
    ASSUME NEW u \in Tables, NEW k \in Keys, NEW j \in Slots(u), u.keys[j] \in {0, k}
    PROVE  /\ SlotOf(u, k) \in Slots(u) /\ u.keys[SlotOf(u, k)] \in {0, k}
           /\ \E d \in 0..Size(u)-1 : First(u, k, d) /\ SlotOf(u, k) = Probe(u, k, d)
<1> DEFINE T == {d \in 0..Size(u)-1 : Stops(u, k, d)}
<1>1. T # {} /\ T \subseteq Nat
  BY ProbesReach, TableOf DEF Stops
<1>2. PICK d \in T : \A e \in T : d <= e
  <2> HIDE DEF T
  <2> QED
    BY <1>1, Least
<1>3. d \in 0..Size(u)-1 /\ First(u, k, d)
  BY <1>2, TableOf DEF First
<1>4. SlotOf(u, k) = Probe(u, k, d)
  BY <1>3, FirstIsSlot
<1>5. Probe(u, k, d) \in Slots(u)
  BY <1>3, ProbeIsSlot, TableOf
<1> QED
  BY <1>3, <1>4, <1>5 DEF First, Stops

-----------------------------------------------------------------------------
(* What every operation keeps of a table: each key is in the slot a lookup   *)
(* of it ends at, at most half the slots are taken, and they are counted.    *)
HalfTaken(u) ==
    /\ u.count = Cardinality(Taken(u))
    /\ SlotsPerKey * u.count <= Size(u)
Sound(u) ==
    /\ u \in Tables
    /\ \A j \in Taken(u) : SlotOf(u, u.keys[j]) = j
    /\ HalfTaken(u)

(* The taken slots are finitely many, and hold keys.                         *)
LEMMA TakenCount ==
    ASSUME NEW u \in Tables
    PROVE  /\ Taken(u) \subseteq Slots(u) /\ IsFiniteSet(Taken(u))
           /\ Cardinality(Taken(u)) \in Nat
           /\ Cardinality(Slots(u)) = Size(u)
           /\ \A j \in Slots(u) : u.keys[j] \in Nat
           /\ \A j \in Taken(u) : u.keys[j] \in Keys
<1>1. Size(u) \in Nat \ {0} /\ Slots(u) = 0..Size(u)-1 /\ u \in TablesOf(Size(u))
  BY TableOf
<1>2. IsFiniteSet(Slots(u)) /\ Cardinality(Slots(u)) = Size(u)
  BY <1>1, RangeSize
<1>3. Taken(u) \subseteq Slots(u)
  BY DEF Taken
<1>4. IsFiniteSet(Taken(u))
  BY <1>2, <1>3, FS_Subset
<1>5. \A j \in Slots(u) : u.keys[j] \in Nat
  BY <1>1 DEF TablesOf
<1> QED
  BY <1>2, <1>3, <1>4, <1>5, FS_CardinalityType DEF Taken, Keys

(* A sound table, half empty at least, has an empty slot.                    *)
LEMMA SomeEmpty ==
    ASSUME NEW u, Sound(u)
    PROVE  \E j \in Slots(u) : u.keys[j] = 0
<1> SUFFICES ASSUME \A j \in Slots(u) : u.keys[j] # 0 PROVE FALSE
  OBVIOUS
<1>1. Taken(u) = Slots(u)
  BY DEF Taken
<1>2. u.count = Size(u) /\ 2 * u.count <= Size(u) /\ Size(u) \in Nat \ {0}
  BY <1>1, TakenCount, TableOf DEF Sound, HalfTaken, SlotsPerKey
<1> QED
  BY <1>2

(* A sound table answers what is beside the key, and 0 for no such key.      *)
LEMMA GetIs ==
    ASSUME NEW u, Sound(u), NEW k \in Keys
    PROVE  /\ \A j \in Slots(u) : u.keys[j] = k => Get(u, k) = u.vals[j]
           /\ (\A j \in Slots(u) : u.keys[j] # k) => Get(u, k) = 0
           /\ SlotOf(u, k) \in Slots(u) /\ u.keys[SlotOf(u, k)] \in {0, k}
           /\ Get(u, k) \in Nat
<1>1. u \in Tables
  BY DEF Sound
<1>2. SlotOf(u, k) \in Slots(u) /\ u.keys[SlotOf(u, k)] \in {0, k}
  BY <1>1, SomeEmpty, SlotStops
<1>3. ASSUME NEW j \in Slots(u), u.keys[j] = k PROVE Get(u, k) = u.vals[j]
  <2>1. j \in Taken(u)
    BY <1>3 DEF Taken, Keys
  <2>2. SlotOf(u, k) = j
    BY <1>3, <2>1 DEF Sound
  <2> QED
    BY <1>3, <2>2 DEF Get
<1>4. (\A j \in Slots(u) : u.keys[j] # k) => Get(u, k) = 0
  BY <1>2 DEF Get
<1>5. Get(u, k) \in Nat
  BY <1>1, <1>2, TableOf DEF Get, TablesOf
<1> QED
  BY <1>2, <1>3, <1>4, <1>5

(* Placing a key where there is room.                                        *)
LEMMA PlaceKeeps ==
    ASSUME NEW u, Sound(u), ~Full(u), NEW k \in Keys, NEW v \in Nat
    PROVE  /\ Sound(Place(u, k, v)) /\ Size(Place(u, k, v)) = Size(u)
           /\ Place(u, k, v).count \in {u.count, u.count + 1}
           /\ \A l \in Keys : Get(Place(u, k, v), l) = IF l = k THEN v ELSE Get(u, l)
<1> DEFINE w == Place(u, k, v)
           i == SlotOf(u, k)
           n == Size(u)
<1>1. /\ u \in Tables /\ n \in Nat \ {0} /\ Slots(u) = 0..n-1 /\ u \in TablesOf(n)
      /\ u.count \in Nat
  BY TableOf DEF Sound, TablesOf
<1>2. i \in Slots(u) /\ u.keys[i] \in {0, k}
  BY GetIs
<1>3. /\ w.keys = [u.keys EXCEPT ![i] = k] /\ w.vals = [u.vals EXCEPT ![i] = v]
      /\ w.count = u.count + (IF u.keys[i] = 0 THEN 1 ELSE 0)
      /\ w = [keys |-> w.keys, vals |-> w.vals, count |-> w.count]
  BY DEF Place
<1>4. /\ u.keys \in [0..n-1 -> Nat] /\ u.vals \in [0..n-1 -> Nat]
  BY <1>1 DEF TablesOf
<1>5. w \in TablesOf(n)
  <2> HIDE DEF w, i, n
  <2>1. k \in Nat /\ i \in 0..n-1
    BY <1>1, <1>2 DEF Keys
  <2>2. w.keys \in [0..n-1 -> Nat] /\ w.vals \in [0..n-1 -> Nat]
    BY <1>3, <1>4, <2>1
  <2>3. w.count \in Nat
    BY <1>1, <1>3
  <2> QED
    BY <1>3, <2>2, <2>3 DEF TablesOf
<1>6. w \in Tables /\ Size(w) = n /\ Slots(w) = Slots(u)
  BY <1>1, <1>5, SizeOf DEF Tables
<1>7. /\ w.keys[i] = k /\ w.vals[i] = v
      /\ \A j \in Slots(u) : j # i => w.keys[j] = u.keys[j] /\ w.vals[j] = u.vals[j]
  BY <1>1, <1>2, <1>3, <1>4
<1> HIDE DEF w, i, n
<1>8. \A l \in Keys, d \in Nat : Probe(w, l, d) = Probe(u, l, d)
  BY <1>6 DEF Probe, n
<1>9. ASSUME NEW j \in Taken(w) PROVE SlotOf(w, w.keys[j]) = j
  <2>1. CASE j = i
    <3>1. PICK d \in 0..n-1 : First(u, k, d) /\ i = Probe(u, k, d)
      BY <1>1, SomeEmpty, SlotStops DEF i, n
    <3>2. Stops(w, k, d)
      BY <1>7, <1>8, <3>1 DEF Stops, First
    <3>3. ASSUME NEW e \in 0..d-1 PROVE ~Stops(w, k, e)
      <4> e \in Nat
        BY <1>1
      <4>1. Probe(u, k, e) \in Slots(u) /\ u.keys[Probe(u, k, e)] \notin {0, k}
        BY <1>1, <3>1, ProbeIsSlot DEF First, Stops
      <4>2. Probe(u, k, e) # i
        BY <1>2, <4>1
      <4> QED
        BY <1>7, <1>8, <4>1, <4>2 DEF Stops
    <3>4. First(w, k, d)
      BY <3>2, <3>3 DEF First
    <3>5. SlotOf(w, k) = Probe(w, k, d)
      BY <1>6, <3>1, <3>4, FirstIsSlot
    <3>6. Probe(w, k, d) = i
      BY <1>1, <1>8, <3>1
    <3> QED
      BY <1>7, <2>1, <3>5, <3>6
  <2>2. CASE j # i
    <3> DEFINE l == u.keys[j]
    <3>1. j \in Slots(u) /\ w.keys[j] = l /\ j \in Taken(u) /\ l \in Keys
      BY <1>1, <1>6, <1>7, <2>2, TakenCount DEF Taken
    <3>2. SlotOf(u, l) = j
      BY <3>1 DEF Sound
    <3>3. l # k
      BY <2>2, <3>2 DEF i
    <3> HIDE DEF l
    <3>4. PICK d \in 0..n-1 : First(u, l, d) /\ j = Probe(u, l, d)
      BY <1>1, <3>1, <3>2, SomeEmpty, SlotStops DEF n
    <3>5. Stops(w, l, d)
      BY <1>8, <3>1, <3>4 DEF Stops
    <3>6. ASSUME NEW e \in 0..d-1 PROVE ~Stops(w, l, e)
      <4> e \in Nat
        BY <1>1
      <4>1. Probe(u, l, e) \in Slots(u) /\ u.keys[Probe(u, l, e)] \notin {0, l}
        BY <1>1, <3>1, <3>4, ProbeIsSlot DEF First, Stops
      <4>2. w.keys[Probe(u, l, e)] \notin {0, l}
        BY <1>7, <3>3, <4>1 DEF Keys
      <4> QED
        BY <1>8, <3>1, <4>1, <4>2 DEF Stops
    <3>7. First(w, l, d)
      BY <3>5, <3>6 DEF First
    <3>8. SlotOf(w, l) = Probe(w, l, d)
      BY <1>6, <3>1, <3>4, <3>7, FirstIsSlot
    <3>9. Probe(w, l, d) = j
      BY <1>1, <1>8, <3>1, <3>4
    <3> QED
      BY <3>1, <3>8, <3>9
  <2> QED
    BY <2>1, <2>2
<1>10. Taken(w) = Taken(u) \cup {i}
  BY <1>2, <1>6, <1>7 DEF Taken, Keys
<1>11. w.count = Cardinality(Taken(w))
  <2>1. IsFiniteSet(Taken(u)) /\ u.count = Cardinality(Taken(u))
    BY <1>1, TakenCount DEF Sound, HalfTaken
  <2>2. Cardinality(Taken(w)) = IF i \in Taken(u) THEN Cardinality(Taken(u)) ELSE Cardinality(Taken(u)) + 1
    BY <1>10, <2>1, FS_AddElement
  <2>3. i \in Taken(u) <=> u.keys[i] # 0
    BY <1>2 DEF Taken
  <2> QED
    BY <1>1, <1>3, <2>1, <2>2, <2>3
<1>12. w.count \in {u.count, u.count + 1}
  BY <1>1, <1>3
<1>13. SlotsPerKey * w.count <= n
  BY <1>1, <1>12 DEF Full, SlotsPerKey, n
<1>14. Sound(w)
  BY <1>6, <1>9, <1>11, <1>13 DEF Sound, HalfTaken
<1>15. ASSUME NEW l \in Keys PROVE Get(w, l) = IF l = k THEN v ELSE Get(u, l)
  <2>1. CASE l = k
    BY <1>2, <1>6, <1>7, <1>14, <2>1, GetIs
  <2>2. CASE l # k
    <3>1. CASE \E j \in Slots(u) : u.keys[j] = l
      <4>1. PICK j \in Slots(u) : u.keys[j] = l
        BY <3>1
      <4>2. j # i
        BY <1>2, <2>2, <4>1 DEF Keys
      <4>3. w.keys[j] = l /\ w.vals[j] = u.vals[j]
        BY <1>7, <4>1, <4>2
      <4> QED
        BY <1>6, <1>14, <2>2, <4>1, <4>3, GetIs
    <3>2. CASE \A j \in Slots(u) : u.keys[j] # l
      <4>1. \A j \in Slots(w) : w.keys[j] # l
        BY <1>6, <1>7, <2>2, <3>2
      <4> QED
        BY <1>14, <2>2, <3>2, <4>1, GetIs
    <3> QED
      BY <3>1, <3>2
  <2> QED
    BY <2>1, <2>2
<1> QED
  BY <1>6, <1>12, <1>14, <1>15 DEF w, n

-----------------------------------------------------------------------------
(* What holds of 0, and of each index after one it holds of.                 *)
LEMMA Inducts ==
    ASSUME NEW N \in Nat, NEW S, 0 \in S, \A k \in 1..N : k - 1 \in S => k \in S
    PROVE  \A k \in 0..N : k \in S
<1> DEFINE T == {k \in 0..N : k \notin S}
<1> SUFFICES ASSUME T # {} PROVE FALSE
  OBVIOUS
<1>1. PICK k \in T : \A m \in T : k <= m
  <2>1. T \subseteq Nat
    OBVIOUS
  <2> HIDE DEF T
  <2> QED
    BY <2>1, Least
<1>2. k \in 1..N /\ k \notin S
  BY <1>1
<1>3. k - 1 \in 0..N /\ ~(k <= k - 1)
  BY <1>2
<1>4. k - 1 \notin T
  <2> HIDE DEF T
  <2> QED
    BY <1>1, <1>3
<1> QED
  BY <1>2, <1>3, <1>4

(* Doubling reaches a size with room for n keys in n steps at most.          *)
LEMMA RoomFor ==
    ASSUME NEW n \in Nat
    PROVE  SlotsFor(n) \in Nat \ {0} /\ SlotsFor(n) >= 2 * n
<1> DEFINE Up(v) == [d \in 0..n |-> IF d = 0 THEN MinSlots ELSE 2 * v[d - 1]]
           u == CHOOSE v : v = Up(v)
           D == Nat \ {0}
           f == [p \in (1..n) \X D |-> 2 * p[2]]
<1>1. PICK g \in [0..n -> D] : Folds(g, MinSlots, f, n)
  <2>1. f \in [(1..n) \X D -> D] /\ MinSlots \in D
    BY SlotsAssumption
  <2> HIDE DEF D, f
  <2> QED
    BY <2>1, Folded
<1>2. g = Up(g)
  <2>1. ASSUME NEW d \in 0..n, d # 0 PROVE g[d] = 2 * g[d - 1]
    <3>1. d \in 1..n /\ d - 1 \in 0..n
      BY <2>1
    <3>2. g[d - 1] \in D
      BY <3>1
    <3>3. <<d, g[d - 1]>> \in (1..n) \X D
      BY <3>1, <3>2
    <3>4. g[d] = f[<<d, g[d - 1]>>]
      BY <1>1, <3>1 DEF Folds
    <3>5. f[<<d, g[d - 1]>>] = 2 * g[d - 1]
      BY <3>3
    <3> QED
      BY <3>4, <3>5
  <2>2. g[0] = MinSlots
    BY <1>1 DEF Folds
  <2> HIDE DEF D, f
  <2> QED
    BY <2>1, <2>2
<1>3. u = Up(u)
  <2> HIDE DEF Up
  <2> QED
    BY <1>2
<1> DEFINE Enough(d) == u[d] >= SlotsPerKey * n
           c == CHOOSE d \in 0..n : Enough(d) /\ \A e \in 0..(d - 1) : ~Enough(e)
<1>4. SlotsFor(n) = u[c]
  BY DEF SlotsFor
<1> HIDE DEF u
<1> DEFINE S == {d \in 0..n : u[d] \in Nat /\ u[d] >= 1 /\ u[d] >= 2 * d}
<1>5. \A d \in 0..n : d \in S
  <2>1. 0 \in S
    BY <1>3, SlotsAssumption
  <2>2. ASSUME NEW k \in 1..n, k - 1 \in S PROVE k \in S
    <3>1. u[k] = 2 * u[k - 1]
      BY <1>3
    <3> QED
      BY <2>2, <3>1
  <2> HIDE DEF S
  <2> QED
    BY <2>1, <2>2, Inducts
<1>6. Enough(n) /\ n \in 0..n
  BY <1>5 DEF SlotsPerKey
<1>7. \E d \in 0..n : Enough(d) /\ \A e \in 0..(d - 1) : ~Enough(e)
  <2> DEFINE T == {d \in 0..n : Enough(d)}
  <2>1. T # {} /\ T \subseteq Nat
    BY <1>6
  <2>2. PICK d \in T : \A e \in T : d <= e
    <3> HIDE DEF T
    <3> QED
      BY <2>1, Least
  <2>3. d \in 0..n /\ Enough(d)
    BY <2>2
  <2>4. ASSUME NEW e \in 0..(d - 1) PROVE ~Enough(e)
    <3>1. e \in 0..n /\ ~(d <= e)
      BY <2>3
    <3> QED
      BY <2>2, <3>1
  <2> QED
    BY <2>3, <2>4
<1>8. c \in 0..n /\ Enough(c)
  <2> HIDE DEF Enough
  <2> QED
    BY <1>7
<1> QED
  BY <1>4, <1>5, <1>8 DEF SlotsPerKey

(* A new table is sound, has room for n keys and knows none.                 *)
LEMMA EmptyIs ==
    ASSUME NEW n \in Nat
    PROVE  /\ Sound(Empty(n)) /\ Size(Empty(n)) = SlotsFor(n) /\ Empty(n).count = 0
           /\ \A k \in Keys : Get(Empty(n), k) = 0
<1> DEFINE u == Empty(n)
           m == SlotsFor(n)
<1>1. m \in Nat \ {0}
  BY RoomFor
<1>2. u \in TablesOf(m) /\ u.count = 0 /\ \A j \in 0..m-1 : u.keys[j] = 0
  BY DEF Empty, TablesOf
<1>3. u \in Tables /\ Size(u) = m /\ Slots(u) = 0..m-1
  BY <1>1, <1>2, SizeOf DEF Tables
<1> HIDE DEF u, m
<1>4. Taken(u) = {}
  BY <1>2, <1>3 DEF Taken
<1>5. Sound(u)
  BY <1>1, <1>2, <1>3, <1>4, FS_EmptySet DEF Sound, HalfTaken, SlotsPerKey
<1>6. ASSUME NEW k \in Keys PROVE Get(u, k) = 0
  BY <1>2, <1>3, <1>5, GetIs DEF Keys
<1> QED
  BY <1>2, <1>3, <1>5, <1>6 DEF u, m

-----------------------------------------------------------------------------
(* A recursion whose steps lead from one of a series of sets to the next.    *)
LEMMA FoldedIn ==
    ASSUME NEW N \in Nat, NEW D, NEW G \in [0..N -> SUBSET D], NEW s \in G[0],
           NEW f \in [(1..N) \X D -> D],
           \A k \in 1..N : \A t \in G[k - 1] : f[<<k, t>>] \in G[k]
    PROVE  \E g \in [0..N -> D] : Folds(g, s, f, N) /\ \A k \in 0..N : g[k] \in G[k]
<1>1. s \in D
  OBVIOUS
<1>2. PICK g \in [0..N -> D] : Folds(g, s, f, N)
  BY <1>1, Folded
<1> DEFINE S == {k \in 0..N : g[k] \in G[k]}
<1>3. 0 \in S
  BY <1>2 DEF Folds
<1>4. ASSUME NEW k \in 1..N, k - 1 \in S PROVE k \in S
  <2>1. g[k] = f[<<k, g[k - 1]>>]
    BY <1>2 DEF Folds
  <2> QED
    BY <1>4, <2>1
<1>5. \A k \in 0..N : k \in S
  <2> HIDE DEF S
  <2> QED
    BY <1>3, <1>4, Inducts
<1> QED
  BY <1>2, <1>5

(* The keys of a sound table are distinct.                                   *)
LEMMA OneSlot ==
    ASSUME NEW u, Sound(u), NEW i \in Slots(u), NEW j \in Slots(u),
           u.keys[i] = u.keys[j], u.keys[i] # 0
    PROVE  i = j
BY DEF Sound, Taken

(* The keys among a table's first i slots.                                   *)
Among(u, i) == {j \in 0..i-1 : u.keys[j] # 0}

(* The keys of one more slot.                                                *)
LEMMA AmongNext ==
    ASSUME NEW u, NEW i \in Nat \ {0}
    PROVE  /\ IsFiniteSet(Among(u, i - 1)) /\ Cardinality(Among(u, i - 1)) \in Nat
           /\ Cardinality(Among(u, i - 1)) <= i - 1
           /\ Cardinality(Among(u, i)) =
                  Cardinality(Among(u, i - 1)) + (IF u.keys[i - 1] = 0 THEN 0 ELSE 1)
<1>1. i - 1 \in Nat /\ Among(u, i - 1) \subseteq 0..i-1-1
  BY DEF Among
<1>2. IsFiniteSet(0..i-1-1) /\ Cardinality(0..i-1-1) = i - 1
  BY <1>1, RangeSize
<1>3. IsFiniteSet(Among(u, i - 1)) /\ Cardinality(Among(u, i - 1)) <= i - 1
  BY <1>1, <1>2, FS_Subset
<1>4. Cardinality(Among(u, i - 1)) \in Nat
  BY <1>3, FS_CardinalityType
<1>5. CASE u.keys[i - 1] = 0
  <2>1. Among(u, i) = Among(u, i - 1)
    BY <1>5 DEF Among
  <2> QED
    BY <1>3, <1>4, <1>5, <2>1
<1>6. CASE u.keys[i - 1] # 0
  <2>1. Among(u, i) = Among(u, i - 1) \cup {i - 1} /\ i - 1 \notin Among(u, i - 1)
    BY <1>6 DEF Among
  <2>2. Cardinality(Among(u, i)) = Cardinality(Among(u, i - 1)) + 1
    BY <1>3, <2>1, FS_AddElement
  <2> QED
    BY <1>3, <1>4, <1>6, <2>2
<1> QED
  BY <1>5, <1>6

(* A table grown past its first i slots' keys.                               *)
Answers(u, t, i) ==
    \A k \in Keys :
        /\ \A j \in 0..i-1 : u.keys[j] = k => Get(t, k) = u.vals[j]
        /\ (\A j \in 0..i-1 : u.keys[j] # k) => Get(t, k) = 0
Holds(u, t, i) ==
    /\ Sound(t) /\ Size(t) = SlotsFor(Size(u))
    /\ t.count <= Cardinality(Among(u, i))
    /\ Answers(u, t, i)
MovedOne(u, t, i) ==
    IF u.keys[i - 1] = 0 THEN t ELSE Place(t, u.keys[i - 1], u.vals[i - 1])

(* Moving one more slot keeps what was moved and adds that slot's key.       *)
LEMMA HoldsNext ==
    ASSUME NEW u, Sound(u), NEW i \in 1..Size(u), NEW t, Holds(u, t, i - 1)
    PROVE  Holds(u, MovedOne(u, t, i), i)
<1> DEFINE n == Size(u)
           m == SlotsFor(n)
           k == u.keys[i - 1]
           v == u.vals[i - 1]
<1>1. /\ u \in Tables /\ n \in Nat \ {0} /\ Slots(u) = 0..n-1 /\ u \in TablesOf(n)
      /\ i - 1 \in Slots(u) /\ k \in Nat /\ v \in Nat
  BY TableOf DEF Sound, TablesOf
<1>2. m \in Nat \ {0} /\ m >= 2 * n
  BY <1>1, RoomFor
<1>3. /\ Sound(t) /\ Size(t) = m /\ t.count <= Cardinality(Among(u, i - 1))
      /\ Answers(u, t, i - 1) /\ t.count \in Nat
  BY TableOf DEF Holds, Sound, TablesOf
<1> HIDE DEF n, m
<1>4. /\ Cardinality(Among(u, i - 1)) \in Nat /\ Cardinality(Among(u, i - 1)) <= i - 1
      /\ Cardinality(Among(u, i)) = Cardinality(Among(u, i - 1)) + (IF k = 0 THEN 0 ELSE 1)
      /\ i \in 1..n
  <2>1. i \in Nat \ {0} /\ i \in 1..n
    BY <1>1 DEF n
  <2> QED
    BY <2>1, AmongNext
<1>5. CASE k = 0
  <2>1. MovedOne(u, t, i) = t
    BY <1>5 DEF MovedOne
  <2>2. Answers(u, t, i)
    <3> SUFFICES ASSUME NEW l \in Keys
                 PROVE  /\ \A j \in 0..i-1 : u.keys[j] = l => Get(t, l) = u.vals[j]
                        /\ (\A j \in 0..i-1 : u.keys[j] # l) => Get(t, l) = 0
      BY DEF Answers
    <3>1. \A j \in 0..i-1 : u.keys[j] = l => j \in 0..i-1-1
      BY <1>4, <1>5 DEF Keys
    <3>2. \A j \in 0..i-1-1 : j \in 0..i-1
      BY <1>4
    <3> QED
      BY <1>3, <3>1, <3>2 DEF Answers
  <2> QED
    BY <1>3, <1>4, <1>5, <2>1, <2>2 DEF Holds, m, n
<1>6. CASE k # 0
  <2> DEFINE w == Place(t, k, v)
  <2>1. MovedOne(u, t, i) = w
    BY <1>6 DEF MovedOne
  <2>2. k \in Keys /\ ~Full(t)
    BY <1>1, <1>2, <1>3, <1>4, <1>6 DEF Keys, Full, SlotsPerKey
  <2>3. /\ Sound(w) /\ Size(w) = m /\ w.count \in {t.count, t.count + 1}
        /\ \A l \in Keys : Get(w, l) = IF l = k THEN v ELSE Get(t, l)
    BY <1>1, <1>3, <2>2, PlaceKeeps
  <2> HIDE DEF w
  <2>4. w.count <= Cardinality(Among(u, i))
    BY <1>3, <1>4, <1>6, <2>3
  <2>5. Answers(u, w, i)
    <3> SUFFICES ASSUME NEW l \in Keys
                 PROVE  /\ \A j \in 0..i-1 : u.keys[j] = l => Get(w, l) = u.vals[j]
                        /\ (\A j \in 0..i-1 : u.keys[j] # l) => Get(w, l) = 0
      BY DEF Answers
    <3>1. \A j \in 0..i-1 : j \in Slots(u) /\ (j \in 0..i-1-1 \/ j = i - 1)
      <4> HIDE DEF k, v
      <4>1. Slots(u) = 0..n-1 /\ n \in Nat /\ i \in 1..n
        BY <1>1, <1>4
      <4> QED
        BY <4>1
    <3>2. \A j \in 0..i-1-1 : j \in 0..i-1
      BY <1>4
    <3>3. CASE l = k
      <4>1. \A j \in 0..i-1 : u.keys[j] = l => j = i - 1
        BY <1>1, <1>6, <3>1, <3>3, OneSlot
      <4>2. i - 1 \in 0..i-1
        BY <1>4
      <4> QED
        BY <2>3, <3>3, <4>1, <4>2
    <3>4. CASE l # k
      <4>1. \A j \in 0..i-1 : u.keys[j] = l => j \in 0..i-1-1
        BY <3>1, <3>4
      <4> QED
        BY <1>3, <2>3, <3>2, <3>4, <4>1 DEF Answers
    <3> QED
      BY <3>3, <3>4
  <2> QED
    BY <2>1, <2>3, <2>4, <2>5 DEF Holds, m, n
<1> QED
  BY <1>5, <1>6

(* When every slot has been moved, every key is answered.                    *)
LEMMA AllAnswered ==
    ASSUME NEW u, Sound(u), NEW t, Answers(u, t, Size(u)), NEW k \in Keys
    PROVE  Get(t, k) = Get(u, k)
<1>1. Slots(u) = 0..Size(u)-1
  BY TableOf DEF Sound
<1>2. CASE \E j \in Slots(u) : u.keys[j] = k
  <2>1. PICK j \in Slots(u) : u.keys[j] = k
    BY <1>2
  <2>2. Get(t, k) = u.vals[j]
    BY <1>1, <2>1 DEF Answers
  <2>3. Get(u, k) = u.vals[j]
    BY <2>1, GetIs
  <2> QED
    BY <2>2, <2>3
<1>3. CASE \A j \in Slots(u) : u.keys[j] # k
  <2>1. Get(t, k) = 0
    BY <1>1, <1>3 DEF Answers
  <2>2. Get(u, k) = 0
    BY <1>3, GetIs
  <2> QED
    BY <2>1, <2>2
<1> QED
  BY <1>2, <1>3

(* Growing a table loses and adds no key, and leaves room for another.       *)
LEMMA BiggerIs ==
    ASSUME NEW u, Sound(u)
    PROVE  /\ Sound(Bigger(u)) /\ ~Full(Bigger(u))
           /\ \A k \in Keys : Get(Bigger(u), k) = Get(u, k)
<1> DEFINE n == Size(u)
           s == Empty(n)
           D == {t \in Tables : Sound(t)}
           G == [i \in 0..n |-> {t \in D : Holds(u, t, i)}]
           f == [p \in (1..n) \X D |->
                    IF MovedOne(u, p[2], p[1]) \in D THEN MovedOne(u, p[2], p[1]) ELSE p[2]]
           Up(v) == [i \in 0..n |->
                       IF i = 0 THEN s
                       ELSE IF u.keys[i - 1] = 0 THEN v[i - 1]
                       ELSE Place(v[i - 1], u.keys[i - 1], u.vals[i - 1])]
           b == CHOOSE v : v = Up(v)
<1>1. /\ u \in Tables /\ n \in Nat \ {0} /\ Slots(u) = 0..n-1 /\ u.count \in Nat
      /\ u.count = Cardinality(Taken(u)) /\ 2 * u.count <= n
  BY TableOf DEF Sound, HalfTaken, SlotsPerKey, TablesOf
<1>2. /\ Sound(s) /\ Size(s) = SlotsFor(n) /\ s.count = 0
      /\ \A k \in Keys : Get(s, k) = 0
  BY <1>1, EmptyIs
<1>3. Bigger(u) = b[n]
  BY DEF Bigger
<1> HIDE DEF s
<1>4. Holds(u, s, 0)
  <2>1. Among(u, 0) = {}
    BY DEF Among
  <2>2. Answers(u, s, 0)
    BY <1>2 DEF Answers
  <2> QED
    BY <1>2, <2>1, <2>2, FS_EmptySet DEF Holds
<1>5. s \in G[0]
  BY <1>1, <1>2, <1>4 DEF Sound
<1>6. ASSUME NEW i \in 1..n, NEW t \in G[i - 1]
      PROVE  MovedOne(u, t, i) \in G[i]
  <2>1. i - 1 \in 0..n /\ i \in 0..n /\ Holds(u, t, i - 1)
    BY <1>1, <1>6
  <2>2. Holds(u, MovedOne(u, t, i), i)
    BY <2>1, HoldsNext
  <2> QED
    BY <2>1, <2>2 DEF Holds, Sound
<1>7. PICK g \in [0..n -> D] : Folds(g, s, f, n) /\ \A i \in 0..n : g[i] \in G[i]
  <2>1. f \in [(1..n) \X D -> D] /\ G \in [0..n -> SUBSET D]
    OBVIOUS
  <2>2. ASSUME NEW i \in 1..n, NEW t \in G[i - 1] PROVE f[<<i, t>>] \in G[i]
    <3>1. MovedOne(u, t, i) \in G[i] /\ i - 1 \in 0..n /\ i \in 0..n
      BY <1>1, <1>6, <2>2
    <3>2. t \in D /\ MovedOne(u, t, i) \in D
      BY <3>1
    <3>3. f[<<i, t>>] = MovedOne(u, t, i)
      <4>1. <<i, t>> \in (1..n) \X D
        BY <3>2
      <4> QED
        BY <3>2, <4>1
    <3> QED
      BY <3>1, <3>3
  <2> HIDE DEF D, f, G, n
  <2> QED
    BY <1>1, <1>5, <2>1, <2>2, FoldedIn
<1>8. g = Up(g)
  <2>1. g[0] = s
    BY <1>7 DEF Folds
  <2>2. ASSUME NEW i \in 0..n, i # 0 PROVE g[i] = MovedOne(u, g[i - 1], i)
    <3>1. i \in 1..n /\ i - 1 \in 0..n
      BY <1>1, <2>2
    <3>2. g[i - 1] \in G[i - 1]
      BY <1>7, <3>1
    <3>3. MovedOne(u, g[i - 1], i) \in G[i]
      BY <1>6, <3>1, <3>2
    <3>4. g[i - 1] \in D /\ MovedOne(u, g[i - 1], i) \in D
      BY <3>1, <3>2, <3>3
    <3>5. g[i] = f[<<i, g[i - 1]>>]
      BY <1>7, <3>1 DEF Folds
    <3>6. <<i, g[i - 1]>> \in (1..n) \X D
      BY <3>1, <3>4
    <3> QED
      BY <3>4, <3>5, <3>6
  <2> HIDE DEF D, f, G, n
  <2> QED
    BY <2>1, <2>2 DEF MovedOne
<1>9. b = Up(b)
  <2> HIDE DEF Up
  <2> QED
    BY <1>8
<1> HIDE DEF b
<1>10. b[0] = s /\ \A i \in 1..n : b[i] = MovedOne(u, b[i - 1], i)
  <2> HIDE DEF n
  <2>1. 0 \in 0..n /\ \A i \in 1..n : i \in 0..n /\ i # 0
    BY <1>1
  <2> QED
    BY <1>9, <2>1 DEF MovedOne
<1> DEFINE S == {i \in 0..n : b[i] \in G[i]}
<1>11. \A i \in 0..n : i \in S
  <2>1. 0 \in S
    BY <1>1, <1>5, <1>10
  <2>2. ASSUME NEW i \in 1..n, i - 1 \in S PROVE i \in S
    <3>1. i \in 0..n /\ b[i - 1] \in G[i - 1]
      BY <1>1, <2>2
    <3> HIDE DEF G
    <3>2. b[i] \in G[i]
      BY <1>6, <1>10, <3>1
    <3> QED
      BY <3>1, <3>2
  <2> HIDE DEF S, n
  <2> QED
    BY <1>1, <2>1, <2>2, Inducts
<1>12. Holds(u, b[n], n)
  BY <1>1, <1>11
<1>13. Among(u, n) = Taken(u)
  BY <1>1 DEF Among, Taken
<1>14. ~Full(b[n])
  <2>1. SlotsFor(n) \in Nat /\ SlotsFor(n) >= 2 * n
    BY <1>1, RoomFor
  <2>2. b[n].count <= u.count /\ b[n].count \in Nat /\ Size(b[n]) = SlotsFor(n)
    BY <1>1, <1>12, <1>13, TableOf DEF Holds, Sound, TablesOf
  <2> QED
    BY <1>1, <2>1, <2>2 DEF Full, SlotsPerKey
<1>15. ASSUME NEW k \in Keys PROVE Get(b[n], k) = Get(u, k)
  <2>1. Answers(u, b[n], Size(u))
    BY <1>1, <1>12 DEF Holds
  <2> QED
    BY <2>1, AllAnswered
<1> QED
  BY <1>3, <1>12, <1>14, <1>15 DEF Holds

(* The table is a map: a put answers for its key and no other, and leaves a  *)
(* table as sound as it was.                                                 *)
LEMMA PutIs ==
    ASSUME NEW u, Sound(u), NEW k \in Keys, NEW v \in Nat
    PROVE  /\ Sound(Put(u, k, v))
           /\ \A l \in Keys : Get(Put(u, k, v), l) = IF l = k THEN v ELSE Get(u, l)
BY BiggerIs, PlaceKeeps DEF Put

-----------------------------------------------------------------------------
(* Sequences, whatever they hold.                                            *)
LEMMA Sequence ==
    ASSUME NEW s, IsSequence(s)
    PROVE  Len(s) \in Nat /\ DOMAIN s = 1..Len(s) /\ s = [i \in 1..Len(s) |-> s[i]]
<1>1. s \in Seq({s[i] : i \in DOMAIN s})
  BY DEF IsSequence
<1>2. Len(s) \in Nat /\ s \in [1..Len(s) -> {s[i] : i \in DOMAIN s}]
  <2> DEFINE S == {s[i] : i \in DOMAIN s}
  <2> HIDE DEF S
  <2>1. s \in Seq(S)
    BY <1>1 DEF S
  <2>2. Len(s) \in Nat /\ s \in [1..Len(s) -> S]
    BY <2>1, LenProperties
  <2> QED
    BY <2>2 DEF S
<1> QED
  BY <1>2

(* A function on 1..n is a sequence.                                         *)
LEMMA Listed ==
    ASSUME NEW n \in Nat, NEW f, f = [i \in 1..n |-> f[i]]
    PROVE  IsSequence(f) /\ Len(f) = n
<1> DEFINE S == {f[i] : i \in DOMAIN f}
<1>1. f \in [1..n -> S]
  OBVIOUS
<1>2. f \in Seq(S)
  <2> HIDE DEF S
  <2> QED
    BY <1>1, SeqDef
<1>3. DOMAIN f = 1..n /\ Len(f) \in Nat /\ DOMAIN f = 1..Len(f)
  <2> HIDE DEF S
  <2> QED
    BY <1>1, <1>2, LenProperties
<1>4. Len(f) = n
  BY <1>3
<1> QED
  BY <1>2, <1>4 DEF IsSequence

(* A sequence over a set is a sequence.                                      *)
LEMMA Within ==
    ASSUME NEW S, NEW s \in Seq(S)
    PROVE  IsSequence(s)
<1>1. Len(s) \in Nat /\ s \in [1..Len(s) -> S]
  BY LenProperties
<1> QED
  BY <1>1, Listed

(* The empty sequence, and that there is no other.                           *)
LEMMA EmptyList ==
    /\ IsSequence(<<>>) /\ Len(<<>>) = 0
    /\ \A s : IsSequence(s) /\ Len(s) = 0 => s = <<>>
<1>1. <<>> \in Seq(Nat) /\ Len(<<>>) = 0
  OBVIOUS
<1>2. IsSequence(<<>>)
  BY <1>1, Within
<1>3. ASSUME NEW s, IsSequence(s), Len(s) = 0 PROVE s = <<>>
  <2> DEFINE S == {s[i] : i \in DOMAIN s}
  <2>1. s \in Seq(S)
    BY <1>3 DEF IsSequence
  <2> HIDE DEF S
  <2> QED
    BY <1>3, <2>1, EmptySeq
<1> QED
  BY <1>1, <1>2, <1>3

(* A sequence with one more element.                                         *)
LEMMA Extended ==
    ASSUME NEW s, IsSequence(s), NEW x
    PROVE  /\ IsSequence(Append(s, x)) /\ Len(Append(s, x)) = Len(s) + 1
           /\ \A i \in 1..Len(s) : Append(s, x)[i] = s[i]
           /\ Append(s, x)[Len(s) + 1] = x
<1> DEFINE S == {s[i] : i \in DOMAIN s} \cup {x}
<1>1. s \in Seq(S) /\ x \in S
  <2> DEFINE R == {s[i] : i \in DOMAIN s}
  <2>1. s \in Seq(R) /\ R \subseteq S
    BY DEF IsSequence
  <2> HIDE DEF R, S
  <2>2. s \in Seq(S)
    BY <2>1
  <2> QED
    BY <2>2 DEF S
<1> HIDE DEF S
<1>2. /\ Append(s, x) \in Seq(S) /\ Len(Append(s, x)) = Len(s) + 1
      /\ \A i \in 1..Len(s) : Append(s, x)[i] = s[i]
      /\ Append(s, x)[Len(s) + 1] = x
  BY <1>1, AppendProperties
<1> QED
  BY <1>2, Within

(* A sequence without its first element.                                     *)
LEMMA Shortened ==
    ASSUME NEW s, IsSequence(s), s # <<>>
    PROVE  /\ Len(s) \in Nat \ {0} /\ Head(s) = s[1]
           /\ IsSequence(Tail(s)) /\ Len(Tail(s)) = Len(s) - 1
           /\ \A i \in 1..Len(s)-1 : Tail(s)[i] = s[i + 1]
<1> DEFINE S == {s[i] : i \in DOMAIN s}
<1>1. s \in Seq(S)
  BY DEF IsSequence
<1> HIDE DEF S
<1>2. Len(s) \in Nat \ {0}
  BY <1>1, EmptySeq, LenProperties
<1>3. /\ Tail(s) \in Seq(S) /\ Len(Tail(s)) = Len(s) - 1
      /\ Head(s) = s[1]
      /\ \A i \in 1..Len(Tail(s)) : Tail(s)[i] = s[i + 1]
  BY <1>1, HeadTailProperties
<1> QED
  BY <1>2, <1>3, Within

-----------------------------------------------------------------------------
(* Ranks: how many are imaged of a heap's first n objects.                   *)
RankIn(h, n) == Cardinality({b \in Imaged(h) : b <= n})

(* The rank of a position counts the objects imaged up to it.                *)
LEMMA Ranks ==
    ASSUME NEW h, IsSequence(h)
    PROVE  /\ IsFiniteSet(Imaged(h)) /\ Imaged(h) \subseteq 1..Len(h) /\ Len(h) \in Nat
           /\ RankIn(h, 0) = 0 /\ Cardinality(Imaged(h)) = RankIn(h, Len(h))
           /\ \A n \in Nat : RankIn(h, n) \in Nat
           /\ \A n \in Nat \ {0} :
                 RankIn(h, n) = RankIn(h, n - 1) + (IF n \in Imaged(h) THEN 1 ELSE 0)
<1> DEFINE To(n) == {b \in Imaged(h) : b <= n}
<1>1. Len(h) \in Nat /\ Imaged(h) \subseteq 1..Len(h)
  BY Sequence DEF Imaged
<1>2. IsFiniteSet(1..Len(h))
  BY <1>1, FS_Interval
<1>3. IsFiniteSet(Imaged(h))
  BY <1>1, <1>2, FS_Subset
<1>4. \A n : To(n) \subseteq Imaged(h)
  OBVIOUS
<1>5. ASSUME NEW n PROVE IsFiniteSet(To(n)) /\ Cardinality(To(n)) \in Nat
  <2>1. IsFiniteSet(To(n))
    <3> HIDE DEF To
    <3> QED
      BY <1>3, <1>4, FS_Subset
  <2> QED
    BY <2>1, FS_CardinalityType
<1>6. To(0) = {}
  BY <1>1
<1>7. To(Len(h)) = Imaged(h)
  BY <1>1
<1>8. ASSUME NEW n \in Nat \ {0}
      PROVE  Cardinality(To(n)) = Cardinality(To(n - 1)) + (IF n \in Imaged(h) THEN 1 ELSE 0)
  <2>1. CASE n \in Imaged(h)
    <3>1. To(n) = To(n - 1) \cup {n} /\ n \notin To(n - 1)
      BY <1>1, <2>1
    <3>2. IsFiniteSet(To(n - 1))
      BY <1>5
    <3> HIDE DEF To
    <3> QED
      BY <2>1, <3>1, <3>2, FS_AddElement
  <2>2. CASE n \notin Imaged(h)
    <3>1. To(n) = To(n - 1)
      BY <1>1, <2>2
    <3>2. Cardinality(To(n - 1)) \in Nat
      BY <1>5
    <3> HIDE DEF To
    <3> QED
      BY <2>2, <3>1, <3>2
  <2> QED
    BY <2>1, <2>2
<1>9. \A n : RankIn(h, n) = Cardinality(To(n))
  BY DEF RankIn
<1> HIDE DEF To
<1> QED
  BY <1>1, <1>3, <1>5, <1>6, <1>7, <1>8, <1>9, FS_EmptySet

(* Ranks grow with the objects imaged and with no other.                     *)
LEMMA RanksGrow ==
    ASSUME NEW h, IsSequence(h), NEW m \in Nat, NEW n \in Nat, m <= n
    PROVE  /\ RankIn(h, m) <= RankIn(h, n)
           /\ (\A b \in Imaged(h) : b <= m \/ b > n) => RankIn(h, m) = RankIn(h, n)
<1> DEFINE To(k) == {b \in Imaged(h) : b <= k}
<1>1. IsFiniteSet(Imaged(h)) /\ Imaged(h) \subseteq Nat
  BY Ranks
<1>2. To(m) \subseteq To(n) /\ To(n) \subseteq Imaged(h)
  BY <1>1
<1>3. (\A b \in Imaged(h) : b <= m \/ b > n) => To(m) = To(n)
  BY <1>1
<1>4. RankIn(h, m) = Cardinality(To(m)) /\ RankIn(h, n) = Cardinality(To(n))
  BY DEF RankIn
<1> HIDE DEF To
<1>5. IsFiniteSet(To(n))
  BY <1>1, <1>2, FS_Subset
<1> QED
  BY <1>2, <1>3, <1>4, <1>5, FS_Subset

(* An imaged object's rank is its own.                                       *)
LEMMA RanksDiffer ==
    ASSUME NEW h, IsSequence(h), NEW a \in Imaged(h)
    PROVE  /\ a \in Nat \ {0} /\ RankIn(h, a) = RankIn(h, a - 1) + 1
           /\ RankIn(h, a) \in 1..RankIn(h, Len(h))
           /\ \A n \in Nat : a <= n => RankIn(h, a) <= RankIn(h, n)
           /\ \A b \in Imaged(h) : a < b => RankIn(h, a) < RankIn(h, b)
           /\ \A b \in Imaged(h) : RankIn(h, a) = RankIn(h, b) => a = b
<1>1. /\ Imaged(h) \subseteq 1..Len(h) /\ Len(h) \in Nat
      /\ \A n \in Nat : RankIn(h, n) \in Nat
  BY Ranks
<1>2. ASSUME NEW b \in Imaged(h)
      PROVE  b \in Nat \ {0} /\ b - 1 \in Nat /\ RankIn(h, b) = RankIn(h, b - 1) + 1 /\ RankIn(h, b - 1) \in Nat
  <2>1. b \in Nat \ {0} /\ b - 1 \in Nat
    <3>1. b \in 1..Len(h) /\ Len(h) \in Nat
      BY <1>1
    <3> QED
      BY <3>1
  <2>2. RankIn(h, b) = RankIn(h, b - 1) + (IF b \in Imaged(h) THEN 1 ELSE 0)
    BY <2>1, Ranks
  <2>3. RankIn(h, b - 1) \in Nat
    BY <1>1, <2>1
  <2> QED
    BY <2>1, <2>2, <2>3
<1>3. ASSUME NEW b \in Imaged(h), NEW c \in Imaged(h), b < c
      PROVE  RankIn(h, b) < RankIn(h, c)
  <2>1. b \in Nat /\ c - 1 \in Nat /\ b <= c - 1
    <3>1. b \in Nat \ {0} /\ c \in Nat \ {0}
      BY <1>2
    <3> QED
      BY <1>3, <3>1
  <2>2. RankIn(h, b) <= RankIn(h, c - 1)
    BY <2>1, RanksGrow
  <2>3. RankIn(h, b) \in Nat /\ RankIn(h, c) = RankIn(h, c - 1) + 1 /\ RankIn(h, c - 1) \in Nat
    BY <1>1, <1>2, <2>1
  <2> QED
    BY <2>2, <2>3
<1>4. \A b \in Imaged(h) : RankIn(h, a) = RankIn(h, b) => a = b
  <2> SUFFICES ASSUME NEW b \in Imaged(h), RankIn(h, a) = RankIn(h, b), a # b PROVE FALSE
    OBVIOUS
  <2>1. a < b \/ b < a
    BY <1>2
  <2>2. RankIn(h, a) < RankIn(h, b) \/ RankIn(h, b) < RankIn(h, a)
    BY <1>3, <2>1
  <2> QED
    BY <1>1, <1>2, <2>2
<1>5. \A n \in Nat : a <= n => RankIn(h, a) <= RankIn(h, n)
  BY <1>2, RanksGrow
<1>6. RankIn(h, a) \in 1..RankIn(h, Len(h))
  <2>1. a <= Len(h)
    BY <1>1
  <2> QED
    BY <1>1, <1>2, <1>5, <2>1
<1> QED
  BY <1>2, <1>3, <1>4, <1>5, <1>6

(* Every rank up to the number imaged is somebody's.                         *)
LEMMA RanksReach ==
    ASSUME NEW h, IsSequence(h), NEW n \in Nat, NEW k \in 1..RankIn(h, n)
    PROVE  \E a \in Imaged(h) : RankIn(h, a) = k
<1> DEFINE S == {m \in 0..n : k <= RankIn(h, m) => \E a \in Imaged(h) : RankIn(h, a) = k}
<1>1. 0 \in S
  BY Ranks
<1>2. ASSUME NEW m \in 1..n, m - 1 \in S PROVE m \in S
  <2>0. m \in Nat \ {0} /\ m - 1 \in Nat
    OBVIOUS
  <2>1. /\ RankIn(h, m) = RankIn(h, m - 1) + (IF m \in Imaged(h) THEN 1 ELSE 0)
        /\ RankIn(h, m - 1) \in Nat
    BY <2>0, Ranks
  <2> QED
    BY <1>2, <2>1
<1>3. \A m \in 0..n : m \in S
  <2> HIDE DEF S
  <2> QED
    BY <1>1, <1>2, Inducts
<1>4. RankIn(h, n) \in Nat
  BY Ranks
<1> QED
  BY <1>3, <1>4

-----------------------------------------------------------------------------
(* Partial sums.                                                             *)
LEMMA SumsAre ==
    ASSUME NEW n \in Nat, NEW f \in [1..n -> Nat]
    PROVE  /\ Len(f) = n /\ Sum(f) = Sums(f)[n] /\ Sums(f)[0] = 0
           /\ \A k \in 1..n : Sums(f)[k] = Sums(f)[k - 1] + f[k]
           /\ \A k \in 0..n : Sums(f)[k] \in Nat
<1> DEFINE D == Nat
           g0 == [p \in (1..n) \X D |-> p[2] + f[p[1]]]
           Up(v) == [k \in 0..n |-> IF k = 0 THEN 0 ELSE v[k - 1] + f[k]]
           u == CHOOSE v : v = Up(v)
<1>1. Len(f) = n
  BY Listed
<1>2. PICK g \in [0..n -> Nat] : Folds(g, 0, g0, n)
  <2>1. g0 \in [(1..n) \X D -> D] /\ 0 \in D
    OBVIOUS
  <2>2. \E g \in [0..n -> D] : Folds(g, 0, g0, n)
    <3> HIDE DEF D, g0
    <3> QED
      BY <2>1, Folded
  <2> QED
    BY <2>2
<1>3. g = Up(g)
  <2>1. ASSUME NEW k \in 0..n, k # 0 PROVE g[k] = g[k - 1] + f[k]
    <3>1. k \in 1..n /\ k - 1 \in 0..n
      BY <2>1
    <3>2. <<k, g[k - 1]>> \in (1..n) \X D
      BY <3>1
    <3>3. g[k] = g0[<<k, g[k - 1]>>]
      BY <1>2, <3>1 DEF Folds
    <3> QED
      BY <3>2, <3>3
  <2>2. g[0] = 0
    BY <1>2 DEF Folds
  <2> HIDE DEF D, g0
  <2> QED
    BY <2>1, <2>2
<1>4. u = Up(u)
  <2> HIDE DEF Up
  <2> QED
    BY <1>3
<1>5. Sums(f) = u
  BY <1>1 DEF Sums
<1> HIDE DEF u
<1>6. u[0] = 0 /\ \A k \in 1..n : u[k] = u[k - 1] + f[k]
  BY <1>4
<1> DEFINE S == {k \in 0..n : u[k] \in Nat}
<1>7. \A k \in 0..n : k \in S
  <2>1. 0 \in S
    BY <1>6
  <2>2. ASSUME NEW k \in 1..n, k - 1 \in S PROVE k \in S
    <3>1. u[k - 1] \in Nat /\ f[k] \in Nat /\ u[k] = u[k - 1] + f[k]
      BY <1>6, <2>2
    <3> QED
      BY <3>1
  <2> HIDE DEF S
  <2> QED
    BY <2>1, <2>2, Inducts
<1> QED
  BY <1>1, <1>5, <1>6, <1>7 DEF Sum

(* Sums of numbers do not fall, and stay where the numbers are 0.            *)
LEMMA SumsGrow ==
    ASSUME NEW n \in Nat, NEW f \in [1..n -> Nat], NEW m \in 0..n, NEW k \in 0..n, m <= k
    PROVE  /\ Sums(f)[m] <= Sums(f)[k]
           /\ (\A i \in 1..n : m < i /\ i <= k => f[i] = 0) => Sums(f)[m] = Sums(f)[k]
<1> DEFINE Z(l) == \A i \in 1..n : m < i /\ i <= l => f[i] = 0
           S == {l \in 0..n : m <= l => /\ Sums(f)[m] <= Sums(f)[l]
                                        /\ Z(l) => Sums(f)[m] = Sums(f)[l]}
<1> HIDE DEF S, Z
<1>0. \A l \in 1..n : Sums(f)[l] = Sums(f)[l - 1] + f[l] /\ f[l] \in Nat
  <2>1. \A l \in 1..n : Sums(f)[l] = Sums(f)[l - 1] + f[l]
    BY SumsAre
  <2>2. \A l \in 1..n : f[l] \in Nat
    OBVIOUS
  <2> QED
    BY <2>1, <2>2
<1> USE DEF S, Z
<1>1. \A l \in 0..n : Sums(f)[l] \in Nat
  BY SumsAre
<1>2. 0 \in S
  BY <1>1
<1>3. ASSUME NEW l \in 1..n, l - 1 \in S PROVE l \in S
  <2>0. l - 1 \in 0..n /\ l \in 0..n
    OBVIOUS
  <2>1. Sums(f)[l] = Sums(f)[l - 1] + f[l] /\ f[l] \in Nat
    BY <1>0
  <2>2. Sums(f)[l - 1] \in Nat /\ Sums(f)[m] \in Nat /\ Sums(f)[l] \in Nat
    BY <1>1, <2>0
  <2>3. CASE m <= l - 1
    <3>1. Z(l) => Z(l - 1) /\ f[l] = 0
      BY <2>3
    <3>2. Sums(f)[m] <= Sums(f)[l - 1] /\ (Z(l - 1) => Sums(f)[m] = Sums(f)[l - 1])
      BY <1>3, <2>3
    <3> HIDE DEF Z
    <3> QED
      BY <2>1, <2>2, <3>1, <3>2
  <2>4. CASE ~(m <= l - 1)
    <3>1. m <= l => m = l
      BY <2>4
    <3> HIDE DEF Z
    <3> QED
      BY <2>1, <2>2, <3>1
  <2> QED
    BY <2>3, <2>4
<1>4. \A l \in 0..n : l \in S
  <2> HIDE DEF S
  <2> QED
    BY <1>2, <1>3, Inducts
<1> QED
  BY <1>4

-----------------------------------------------------------------------------
(* The index once the count pass has come to the chain's object a.           *)
Flagged(h, w, a) == w[1] = "obj" /\ w[2] \in Imaged(h) /\ w[2] <= a
Counts == [n : Nat, t : {t \in Tables : Sound(t)}]
IndexedTo(h, a, p) ==
    /\ p.n = RankIn(h, a)
    /\ \A w \in DOMAIN Address :
          Get(p.t, Address[w]) = IF Flagged(h, w, a) THEN RankIn(h, w[2]) ELSE 0
IndexedOne(h, p, a) ==
    IF a \notin Imaged(h) THEN p
    ELSE [n |-> p.n + 1, t |-> Put(p.t, Address[<<"obj", a>>], p.n + 1)]

(* A word's address is a key and no other word's.                            *)
LEMMA WordKeys ==
    ASSUME NEW w \in DOMAIN Address
    PROVE  /\ Address[w] \in Keys
           /\ \A x \in DOMAIN Address : Address[w] = Address[x] <=> w = x
           /\ w[1] \in {"obj", "out"} /\ w = <<w[1], w[2]>> /\ w # Null
<1>1. /\ Address[w] \in Nat \ {0} /\ \A x \in DOMAIN Address : Address[w] = Address[x] => w = x
      /\ w[1] \in {"obj", "out"} /\ w = <<w[1], w[2]>>
  BY AddressesAssumption
<1>2. w # Null
  BY <1>1 DEF Null
<1> QED
  BY <1>1, <1>2 DEF Keys

(* The count pass: one more object gets its index, or is left out.           *)
LEMMA IndexedNext ==
    ASSUME NEW h, WellFormed(h), NEW a \in 1..Len(h), NEW p \in Counts, IndexedTo(h, a - 1, p)
    PROVE  IndexedOne(h, p, a) \in Counts /\ IndexedTo(h, a, IndexedOne(h, p, a))
<1>1. IsSequence(h) /\ DOMAIN h = 1..Len(h) /\ Len(h) \in Nat
  BY Sequence DEF WellFormed
<1>2. a \in Nat \ {0} /\ a - 1 \in Nat
  BY <1>1
<1>3. /\ RankIn(h, a) = RankIn(h, a - 1) + (IF a \in Imaged(h) THEN 1 ELSE 0)
      /\ RankIn(h, a - 1) \in Nat
  BY <1>1, <1>2, Ranks
<1>4. \A b \in Imaged(h) : b \in Nat
  <2>1. Imaged(h) \subseteq 1..Len(h)
    BY <1>1, Ranks
  <2> QED
    BY <1>1, <2>1
<1>5. CASE a \notin Imaged(h)
  <2>1. \A w : Flagged(h, w, a) <=> Flagged(h, w, a - 1)
    <3>1. \A b \in Imaged(h) : b <= a <=> b <= a - 1
      BY <1>2, <1>4, <1>5
    <3> QED
      BY <3>1 DEF Flagged
  <2>2. IndexedOne(h, p, a) = p
    BY <1>5 DEF IndexedOne
  <2> QED
    BY <1>3, <1>5, <2>1, <2>2 DEF IndexedTo
<1>6. CASE a \in Imaged(h)
  <2> DEFINE x == <<"obj", a>>
             v == p.n + 1
             q == IndexedOne(h, p, a)
  <2>1. v \in Nat /\ v = RankIn(h, a) /\ Sound(p.t)
    BY <1>3, <1>6 DEF Counts, IndexedTo
  <2>2. x \in DOMAIN Address
    BY <1>1 DEF WellFormed
  <2>3. Address[x] \in Keys
    BY <2>2, WordKeys
  <2>4. q = [n |-> v, t |-> Put(p.t, Address[x], v)]
    BY <1>6 DEF IndexedOne
  <2> HIDE DEF x, v, q
  <2>5. /\ Sound(Put(p.t, Address[x], v))
        /\ \A l \in Keys : Get(Put(p.t, Address[x], v), l) = IF l = Address[x] THEN v ELSE Get(p.t, l)
    BY <2>1, <2>3, PutIs
  <2>6. q \in Counts
    BY <2>1, <2>4, <2>5 DEF Counts, Sound
  <2>7. ASSUME NEW w \in DOMAIN Address
        PROVE  Get(q.t, Address[w]) = IF Flagged(h, w, a) THEN RankIn(h, w[2]) ELSE 0
    <3>1. Get(q.t, Address[w]) = IF w = x THEN v ELSE Get(p.t, Address[w])
      BY <2>2, <2>4, <2>5, WordKeys
    <3>2. CASE w = x
      <4>1. w[1] = "obj" /\ w[2] = a
        BY <3>2 DEF x
      <4> QED
        BY <1>2, <1>6, <2>1, <3>1, <3>2, <4>1 DEF Flagged
    <3>3. CASE w # x
      <4>1. w[1] = "obj" => w[2] # a
        BY <3>3, WordKeys DEF x
      <4>2. Flagged(h, w, a) <=> Flagged(h, w, a - 1)
        <5>1. \A b \in Imaged(h) : b # a => (b <= a <=> b <= a - 1)
          BY <1>2, <1>4
        <5> QED
          BY <4>1, <5>1 DEF Flagged
      <4> QED
        BY <3>1, <3>3, <4>2 DEF IndexedTo
    <3> QED
      BY <3>2, <3>3
  <2>8. q.n = RankIn(h, a)
    BY <2>1, <2>4
  <2> QED
    BY <2>6, <2>7, <2>8 DEF IndexedTo, q
<1> QED
  BY <1>5, <1>6

(* The index gives each imaged object its rank and no other word anything.   *)
LEMMA IndexedIs ==
    ASSUME NEW h, WellFormed(h)
    PROVE  /\ Sound(Indexed(h))
           /\ \A w \in DOMAIN Address :
                 Get(Indexed(h), Address[w]) =
                     IF w[1] = "obj" /\ w[2] \in Imaged(h) THEN RankIn(h, w[2]) ELSE 0
<1> DEFINE n == Len(h)
           D == Counts
           s == [n |-> 0, t |-> Empty(Cardinality(Imaged(h)))]
           G == [a \in 0..n |-> {p \in D : IndexedTo(h, a, p)}]
           f == [q \in (1..n) \X D |->
                    IF IndexedOne(h, q[2], q[1]) \in D THEN IndexedOne(h, q[2], q[1]) ELSE q[2]]
           Up(v) == [a \in 0..n |->
                       IF a = 0 THEN s
                       ELSE IF a \notin Imaged(h) THEN v[a - 1]
                       ELSE [n |-> v[a - 1].n + 1,
                             t |-> Put(v[a - 1].t, Address[<<"obj", a>>], v[a - 1].n + 1)]]
           I == CHOOSE v : v = Up(v)
<1>1. IsSequence(h) /\ DOMAIN h = 1..n /\ n \in Nat
  BY Sequence DEF WellFormed
<1>2. Indexed(h) = I[n].t
  BY DEF Indexed
<1>3. s \in Counts /\ IndexedTo(h, 0, s)
  <2>1. Cardinality(Imaged(h)) \in Nat /\ RankIn(h, 0) = 0 /\ Imaged(h) \subseteq 1..n
    BY <1>1, Ranks
  <2>2. /\ Sound(Empty(Cardinality(Imaged(h))))
        /\ \A k \in Keys : Get(Empty(Cardinality(Imaged(h))), k) = 0
    BY <2>1, EmptyIs
  <2>3. s.n = 0 /\ s.t = Empty(Cardinality(Imaged(h)))
    OBVIOUS
  <2>4. \A w : ~Flagged(h, w, 0)
    BY <1>1, <2>1 DEF Flagged
  <2>5. s \in Counts
    BY <2>2 DEF Counts, Sound
  <2> HIDE DEF s
  <2> QED
    BY <2>1, <2>2, <2>3, <2>4, <2>5, WordKeys DEF IndexedTo
<1>4. s \in G[0]
  <2> HIDE DEF s
  <2> QED
    BY <1>1, <1>3
<1> HIDE DEF s
<1>5. ASSUME NEW a \in 1..n, NEW p \in G[a - 1]
      PROVE  IndexedOne(h, p, a) \in G[a]
  <2>1. a - 1 \in 0..n /\ a \in 0..n
    BY <1>1
  <2>2. p \in Counts /\ IndexedTo(h, a - 1, p)
    BY <1>5, <2>1
  <2>3. IndexedOne(h, p, a) \in Counts /\ IndexedTo(h, a, IndexedOne(h, p, a))
    BY <2>2, IndexedNext
  <2> QED
    BY <2>1, <2>3
<1>6. PICK g \in [0..n -> D] : Folds(g, s, f, n) /\ \A a \in 0..n : g[a] \in G[a]
  <2>1. f \in [(1..n) \X D -> D] /\ G \in [0..n -> SUBSET D]
    OBVIOUS
  <2>2. ASSUME NEW a \in 1..n, NEW p \in G[a - 1] PROVE f[<<a, p>>] \in G[a]
    <3>1. IndexedOne(h, p, a) \in G[a] /\ a - 1 \in 0..n /\ a \in 0..n
      BY <1>1, <1>5, <2>2
    <3>2. p \in D /\ IndexedOne(h, p, a) \in D
      BY <3>1
    <3>3. f[<<a, p>>] = IndexedOne(h, p, a)
      <4>1. <<a, p>> \in (1..n) \X D
        BY <3>2
      <4> QED
        BY <3>2, <4>1
    <3> QED
      BY <3>1, <3>3
  <2> HIDE DEF D, f, G, n
  <2> QED
    BY <1>1, <1>4, <2>1, <2>2, FoldedIn
<1>7. g = Up(g)
  <2>1. g[0] = s
    BY <1>6 DEF Folds
  <2>2. ASSUME NEW a \in 0..n, a # 0 PROVE g[a] = IndexedOne(h, g[a - 1], a)
    <3>1. a \in 1..n /\ a - 1 \in 0..n
      BY <1>1, <2>2
    <3>2. g[a - 1] \in G[a - 1]
      BY <1>6, <3>1
    <3>3. IndexedOne(h, g[a - 1], a) \in G[a]
      BY <1>5, <3>1, <3>2
    <3>4. g[a - 1] \in D /\ IndexedOne(h, g[a - 1], a) \in D
      BY <3>1, <3>2, <3>3
    <3>5. g[a] = f[<<a, g[a - 1]>>]
      BY <1>6, <3>1 DEF Folds
    <3>6. <<a, g[a - 1]>> \in (1..n) \X D
      BY <3>1, <3>4
    <3> QED
      BY <3>4, <3>5, <3>6
  <2> HIDE DEF D, f, G, n
  <2> QED
    BY <2>1, <2>2 DEF IndexedOne
<1>8. I = Up(I)
  <2> HIDE DEF Up
  <2> QED
    BY <1>7
<1> HIDE DEF I
<1>9. I[0] = s /\ \A a \in 1..n : I[a] = IndexedOne(h, I[a - 1], a)
  <2> HIDE DEF n
  <2>1. 0 \in 0..n /\ \A a \in 1..n : a \in 0..n /\ a # 0
    BY <1>1
  <2> QED
    BY <1>8, <2>1 DEF IndexedOne
<1> DEFINE S == {a \in 0..n : I[a] \in G[a]}
<1>10. \A a \in 0..n : a \in S
  <2>1. 0 \in S
    BY <1>1, <1>4, <1>9
  <2>2. ASSUME NEW a \in 1..n, a - 1 \in S PROVE a \in S
    <3>1. a \in 0..n /\ I[a - 1] \in G[a - 1]
      BY <1>1, <2>2
    <3> HIDE DEF G
    <3>2. I[a] \in G[a]
      BY <1>5, <1>9, <3>1
    <3> QED
      BY <3>1, <3>2
  <2> HIDE DEF S, n
  <2> QED
    BY <1>1, <2>1, <2>2, Inducts
<1>11. I[n] \in Counts /\ IndexedTo(h, n, I[n])
  BY <1>1, <1>10
<1>12. \A w : Flagged(h, w, n) <=> w[1] = "obj" /\ w[2] \in Imaged(h)
  <2>1. Imaged(h) \subseteq 1..n
    BY <1>1, Ranks
  <2> QED
    BY <1>1, <2>1 DEF Flagged
<1> QED
  BY <1>2, <1>11, <1>12 DEF IndexedTo, Counts

-----------------------------------------------------------------------------
(* What is saved of an imaged object: units of their labels' kinds, and, but *)
(* for a buffer, its units.                                                  *)
Saved(a) == Save(heap, heap[a])

(* What is saved of a well-formed object.                                    *)
LEMMA SavedIs ==
    ASSUME NEW h, WellFormed(h), NEW a \in Imaged(h), NEW s, s = Save(h, h[a])
    PROVE  /\ IsSequence(s) /\ Len(s) \in Nat /\ DOMAIN s = 1..Len(s)
           /\ \A i \in 1..Len(s) : Fits(s[i])
           /\ ~IsBuffer(h, h[a]) =>
                 /\ IsSequence(h[a].units) /\ Len(h[a].units) = Len(s)
                 /\ \A i \in 1..Len(s) : h[a].units[i] = s[i][2]
           /\ h[a].role = "pair" => Len(s) = 2
<1> DEFINE o == h[a]
<1>1. IsSequence(s) /\ \A i \in DOMAIN s : Fits(s[i])
  BY DEF WellFormed
<1>2. Len(s) \in Nat /\ DOMAIN s = 1..Len(s)
  BY <1>1, Sequence
<1>3. ~IsBuffer(h, o) => IsSequence(o.units) /\ Len(o.units) = Len(s)
  BY DEF WellFormed
<1>4. o.role \in {"nil", "pair", "atom", "other", "struct"}
  BY DEF WellFormed
<1>5. ASSUME ~IsBuffer(h, o), NEW i \in DOMAIN s PROVE o.units[i] = s[i][2]
  <2> HIDE DEF o
  <2>1. CASE o.role = "pair"
    <3>1. s = SaveSpair(o)
      BY <2>1 DEF Save, o, IsBuffer
    <3> QED
      BY <3>1, <1>5 DEF SaveSpair
  <2>2. CASE o.role \in {"nil", "atom", "other"}
    <3>1. s = SaveWord(o)
      BY <2>2 DEF Save, o, IsBuffer
    <3> QED
      BY <3>1, <1>5 DEF SaveWord
  <2>3. CASE o.role = "struct"
    <3>1. s = SaveLabelled(h, o, LayoutAt(h, o))
      BY <1>5, <2>3 DEF Save, o
    <3> DEFINE l == LayoutAt(h, o)
               m == IF l.count >= 0 THEN l.count
                    ELSE h[o.units[1][2]].units[1][2] - l.count
    <3> HIDE DEF m
    <3>2. s = [k \in 1..m |-> <<UnitLabel(l.labels, k), o.units[k]>>]
      BY <3>1 DEF SaveLabelled, m
    <3> HIDE DEF l
    <3> QED
      BY <3>2, <1>5
  <2> QED
    BY <1>4, <2>1, <2>2, <2>3 DEF o
<1>6. o.role = "pair" => Len(s) = 2
  <2> SUFFICES ASSUME o.role = "pair" PROVE Len(s) = 2
    OBVIOUS
  <2>1. s = SaveSpair(o)
    BY DEF Save, IsBuffer
  <2> QED
    BY <2>1 DEF SaveSpair
<1> QED
  BY <1>1, <1>2, <1>3, <1>5, <1>6

-----------------------------------------------------------------------------
(* The invariant.                                                            *)

(* What every step leaves a value of its kind.                               *)
Frame ==
    /\ heap \in Graphs /\ caps \in Caps
    /\ phase \in {"count", "emit", "raised", "alloc", "patch", "load", "done"}
    /\ room \in Nat \X Nat /\ blob \in Seq(Nat) /\ IsSequence(table)
    /\ phase = "count" => rec = NoRec /\ pending = <<>> /\ table = <<>> /\ room = <<0, 0>>

Tabled == Sound(index) /\ Sound(cache)

(* The last object wholly written, and the units written of the next.        *)
Behind == IF rec = NoRec THEN at ELSE at - 1
Units  == Len(rec.units)

(* The cache holds the answers given, one up: 1 for no name, else the name's *)
(* index.  An external is filed for a unit that some object saves.           *)
External == [word : DOMAIN Address, as : {"ref", "foreign"}]
Answered ==
    /\ asked \in Seq(DOMAIN Address) /\ externs \in Seq(External)
    /\ \A w \in DOMAIN Address : Cached(w) # 0 <=> \E i \in 1..Len(asked) : asked[i] = w
    /\ \A k \in 1..Len(externs) : Cached(externs[k].word) = k + 1
    /\ \A k \in 1..Len(externs) : SavedAs(externs[k].as, externs[k].word)
    /\ \A w \in DOMAIN Address :
          Cached(w) > 1 => Cached(w) - 1 \in 1..Len(externs) /\ externs[Cached(w) - 1].word = w

Indices ==
    phase # "count" =>
        \A w \in DOMAIN Address :
            Get(index, Address[w]) =
                IF w[1] = "obj" /\ w[2] \in Imaged(heap) THEN RankIn(heap, w[2]) ELSE 0

(* Between two objects, or with the units of the last one reached still to   *)
(* write.                                                                    *)
Position ==
    phase = "emit" =>
        /\ at \in {0} \cup Imaged(heap)
        /\ rec = NoRec => pending = <<>>
        /\ rec # NoRec =>
              /\ at # 0 /\ IsSequence(pending) /\ Units + Len(pending) = Len(Saved(at))
              /\ \A i \in 1..Len(pending) : pending[i] = Saved(at)[Units + i]

Spent ==
    phase = "emit" =>
        /\ room[1] = Sums(WordsOf(heap))[Behind]
        /\ room[2] = Sums(BytesOf(heap))[Behind]
                     + (IF rec = NoRec THEN 0 ELSE Sums(BytesIn(heap, at))[Units])

(* What a unit is written from, at one moment.                               *)
Now == [h |-> heap, t |-> index, c |-> cache, b |-> blob]
At(t, w) == Get(t, Address[w])

(* The unit written for one that is saved.                                   *)
Writes(w, s, u) ==
    /\ u[1] = s[1]
    /\ s[1] = "word" => u[2] = s[2]
    /\ s[1] = "bytes" =>
          \E n \in 0..Len(w.b)-1 : u[2] = <<"num", n>> /\ w.b[n + 1] = BytesLen(s[2])
    /\ s[1] \in {"ref", "foreign"} /\ s[2] = Null => u[2] = Null
    /\ s[1] = "foreign" /\ s[2] # Null =>
          At(w.c, s[2]) # 0 /\ u[2] = <<"num", At(w.c, s[2]) - 1>>
    /\ s[1] = "ref" /\ s[2] # Null =>
          IF At(w.t, s[2]) # 0 THEN u[2] = <<"num", At(w.t, s[2])>>
          ELSE At(w.c, s[2]) # 0 /\ u[2] = <<"num", 1 - At(w.c, s[2])>>

(* The record of object a as far as it is written.                           *)
TypeFor(w, o) ==
    CASE o.role = "nil" -> -3
      [] o.role = "pair" -> -1
      [] o.role \in {"atom", "other"} -> -2
      [] OTHER -> At(w.t, <<"obj", o.of>>)
Writing(w, a, r) ==
    /\ r = [type |-> TypeFor(w, w.h[a]), attr |-> w.h[a].attr, units |-> r.units]
    /\ w.h[a].role = "struct" => w.h[a].of \in Imaged(w.h)
    /\ IsSequence(r.units) /\ Len(r.units) <= Len(Save(w.h, w.h[a]))
    /\ \A i \in 1..Len(r.units) : Writes(w, Save(w.h, w.h[a])[i], r.units[i])
Written(w, a, r) == Writing(w, a, r) /\ Len(r.units) = Len(Save(w.h, w.h[a]))
WrittenTo(w, s, n) ==
    /\ Len(s) = RankIn(w.h, n)
    /\ \A a \in Imaged(w.h) : a <= n => Written(w, a, s[RankIn(w.h, a)])

Recorded ==
    /\ phase = "emit" => WrittenTo(Now, table, Behind) /\ (rec # NoRec => Writing(Now, at, rec))
    /\ phase \in {"alloc", "patch", "load", "done"} => WrittenTo(Now, table, Len(heap))

(* The rebuilt objects, allocated and patched.                               *)
Fresh(r) == [role |-> RoleOf(r.type), of |-> 0, own |-> FALSE, attr |-> r.attr,
             flagged |-> FALSE, units |-> [i \in 1..Len(r.units) |-> Lost]]
Filled(r) ==
    [Typed(Fresh(r), r) EXCEPT !.units = [i \in 1..Len(r.units) |-> Patched(r.units[i])]]
Rebuilt ==
    /\ phase \in {"count", "emit"} => ix = <<>>
    /\ phase \in {"alloc", "patch"} => at \in 0..Len(table) /\ IsSequence(ix)
    /\ phase = "alloc" => Len(ix) = at /\ \A k \in 1..at : ix[k] = Fresh(table[k])
    /\ phase = "patch" =>
          /\ Len(ix) = Len(table)
          /\ \A k \in 1..Len(table) : \A r :
                r = table[k] => ix[k] = IF k <= at THEN Filled(r) ELSE Fresh(r)

(* What a load handler finds, whatever loads came before.  An outer whose    *)
(* load is to do anything refers to the copy of a buffer.                    *)
Loaded ==
    phase \in {"load", "done"} =>
        /\ IsSequence(ix) /\ Len(ix) = RankIn(heap, Len(heap)) /\ at \in 0..Len(ix)
        /\ \A k \in 1..Len(ix) :
              ix[k] = [role |-> ix[k].role, of |-> ix[k].of, own |-> ix[k].own,
                       attr |-> ix[k].attr, flagged |-> ix[k].flagged, units |-> ix[k].units]
        /\ \A a \in Imaged(heap) : \A o, n :
              o = heap[a] /\ n = ix[RankIn(heap, a)] /\ ~IsBuffer(heap, o) => Copy(o, n)
        /\ \A a \in Imaged(heap) :
              LET o == ix[RankIn(heap, a)] IN
              IsBuffer(heap, heap[a]) /\ o.units[1] # Null /\ o.units[2][1] = "obj" =>
                  \E b \in Imaged(heap) :
                      IsBuffer(heap, heap[b]) /\ o.units[2] = <<"obj", RankIn(heap, b)>>

Inv ==
    /\ Frame /\ Tabled /\ Answered /\ NamedOnce /\ Indices /\ Position /\ Spent /\ NoOverrun
    /\ Recorded /\ Rebuilt /\ Loaded /\ RefusedForCause

(* What the heap is, and its sums.                                           *)
LEMMA HeapIs ==
    ASSUME Frame
    PROVE  /\ WellFormed(heap) /\ IsSequence(heap) /\ Len(heap) \in Nat /\ DOMAIN heap = 1..Len(heap)
           /\ Imaged(heap) \subseteq 1..Len(heap)
           /\ caps[1] \in Nat /\ caps[2] \in Nat /\ WordBytes \in Nat
           /\ room = <<room[1], room[2]>> /\ room[1] \in Nat /\ room[2] \in Nat
<1>1. WellFormed(heap) /\ caps \in Nat \X Nat /\ WordBytes \in Nat
  BY GraphsAssumption DEF Frame
<1>2. IsSequence(heap)
  BY <1>1 DEF WellFormed
<1>3. Len(heap) \in Nat /\ DOMAIN heap = 1..Len(heap) /\ Imaged(heap) \subseteq 1..Len(heap)
  BY <1>2, Sequence, Ranks
<1> QED
  BY <1>1, <1>2, <1>3 DEF Frame

(* The characters a unit takes in the bytes section.                         *)
LEMMA BytesAre ==
    ASSUME WordBytes \in Nat, NEW u, Fits(u)
    PROVE  /\ UnitBytes(u) \in Nat
           /\ u[1] = "bytes" => BytesLen(u[2]) \in Nat /\ UnitBytes(u) = WordBytes + BytesLen(u[2]) + 1
           /\ u[1] # "bytes" => UnitBytes(u) = 0
<1>1. u[1] = "bytes" => BytesLen(u[2]) \in Nat
  BY DEF Fits, BytesLen, Null
<1> QED
  BY <1>1 DEF UnitBytes

(* The sizes of the sections are sums of numbers.                            *)
LEMMA SumsOf ==
    ASSUME Frame
    PROVE  /\ WordsOf(heap) \in [1..Len(heap) -> Nat] /\ BytesOf(heap) \in [1..Len(heap) -> Nat]
           /\ \A a \in Imaged(heap) :
                 /\ BytesIn(heap, a) \in [1..Len(Saved(a)) -> Nat]
                 /\ WordsOf(heap)[a] = RecordWords(Len(Saved(a)))
                 /\ BytesOf(heap)[a] = Sum(BytesIn(heap, a))
           /\ \A a \in 1..Len(heap) \ Imaged(heap) : WordsOf(heap)[a] = 0 /\ BytesOf(heap)[a] = 0
<1>1. /\ WellFormed(heap) /\ WordBytes \in Nat /\ DOMAIN heap = 1..Len(heap)
      /\ Imaged(heap) \subseteq 1..Len(heap)
  BY HeapIs
<1>2. ASSUME NEW a \in Imaged(heap)
      PROVE  /\ BytesIn(heap, a) \in [1..Len(Saved(a)) -> Nat]
             /\ Len(Saved(a)) \in Nat /\ Sum(BytesIn(heap, a)) \in Nat
  <2> DEFINE s == Saved(a)
  <2>1. Len(s) \in Nat /\ DOMAIN s = 1..Len(s) /\ \A i \in 1..Len(s) : Fits(s[i])
    BY <1>1, SavedIs DEF Saved
  <2>2. BytesIn(heap, a) = [i \in 1..Len(s) |-> UnitBytes(s[i])]
    BY <2>1 DEF BytesIn, Saved
  <2> HIDE DEF s
  <2>3. \A i \in 1..Len(s) : UnitBytes(s[i]) \in Nat
    BY <1>1, <2>1, BytesAre
  <2>4. BytesIn(heap, a) \in [1..Len(s) -> Nat]
    BY <2>2, <2>3
  <2>5. Sum(BytesIn(heap, a)) \in Nat
    BY <2>1, <2>4, SumsAre
  <2> QED
    BY <2>1, <2>4, <2>5 DEF s
<1>3. \A n \in Nat : RecordWords(n) \in Nat
  BY DEF RecordWords
<1>4. WordsOf(heap) = [a \in 1..Len(heap) |-> IF a \in Imaged(heap) THEN RecordWords(Len(Saved(a))) ELSE 0]
  BY <1>1 DEF WordsOf, Imaged, Saved
<1>5. BytesOf(heap) = [a \in 1..Len(heap) |-> IF a \in Imaged(heap) THEN Sum(BytesIn(heap, a)) ELSE 0]
  BY <1>1 DEF BytesOf, Imaged
<1>6. WordsOf(heap) \in [1..Len(heap) -> Nat]
  BY <1>2, <1>3, <1>4
<1>7. BytesOf(heap) \in [1..Len(heap) -> Nat]
  BY <1>2, <1>5
<1> QED
  BY <1>1, <1>2, <1>4, <1>5, <1>6, <1>7

-----------------------------------------------------------------------------
(* A unit written.                                                           *)

(* The callable is asked only what is not cached, and its answer is cached.  *)
LEMMA ExternKeeps ==
    ASSUME Sound(cache), Answered, NamedOnce,
           NEW label \in {"ref", "foreign"}, NEW word \in DOMAIN Address, NEW sign \in Int,
           Extern(label, word, sign), SavedAs(label, word), heap' = heap
    PROVE  /\ pending' = Tail(pending)
           /\ Get(cache', Address[word]) # 0
           /\ rec' = [rec EXCEPT !.units =
                 Append(@, <<label, <<"num", sign * (Get(cache', Address[word]) - 1)>>>>)]
           /\ Sound(cache') /\ Answered' /\ NamedOnce'
           /\ \A w \in DOMAIN Address : Cached(w) # 0 => Cached(w)' = Cached(w)
<1>1. /\ asked \in Seq(DOMAIN Address) /\ Len(asked) \in Nat /\ Len(externs) \in Nat
      /\ \A i \in 1..Len(asked) : asked[i] \in DOMAIN Address
      /\ \A i \in 1..Len(externs) : externs[i].word \in DOMAIN Address
  <2>1. asked \in Seq(DOMAIN Address) /\ externs \in Seq(External)
    BY DEF Answered
  <2>2. Len(externs) \in Nat /\ \A i \in 1..Len(externs) : externs[i] \in External
    BY <2>1
  <2>3. \A e \in External : e.word \in DOMAIN Address
    BY DEF External
  <2> QED
    BY <2>1, <2>2, <2>3
<1>7. \A l, w : SavedAs(l, w)' <=> SavedAs(l, w)
  BY DEF SavedAs, Imaged
<1>2. ASSUME NEW w \in DOMAIN Address PROVE Cached(w) \in Nat
  BY WordKeys, GetIs DEF Cached
<1>0. Cached(word)' = Get(cache', Address[word])
  BY DEF Cached
<1>3. CASE Cached(word) # 0 /\ UNCHANGED <<cache, sent, externs, asked>>
           /\ Write(label, <<"num", sign * (Cached(word) - 1)>>)
  <2>1. \A w : Cached(w)' = Cached(w)
    BY <1>3 DEF Cached
  <2>2. Answered' /\ NamedOnce' /\ Sound(cache')
    BY <1>3, <1>7, <2>1 DEF Answered, NamedOnce
  <2> QED
    BY <1>0, <1>3, <2>1, <2>2 DEF Write
<1>4. ASSUME Cached(word) = 0, asked' = Append(asked, word), NEW v \in Nat \ {0},
             PutCache(word, v)
      PROVE  /\ Sound(cache')
             /\ \A w \in DOMAIN Address : Cached(w)' = IF w = word THEN v ELSE Cached(w)
             /\ asked' \in Seq(DOMAIN Address) /\ Len(asked') = Len(asked) + 1
             /\ \A w \in DOMAIN Address : Cached(w)' # 0 <=> \E i \in 1..Len(asked') : asked'[i] = w
             /\ \A i, j \in DOMAIN asked' : asked'[i] = asked'[j] => i = j
  <2>1. Address[word] \in Keys /\ \A w \in DOMAIN Address : Address[w] = Address[word] <=> w = word
    BY WordKeys
  <2>2. \A w \in DOMAIN Address : Address[w] \in Keys
    BY WordKeys
  <2>3. /\ Sound(cache')
        /\ \A l \in Keys : Get(cache', l) = IF l = Address[word] THEN v ELSE Get(cache, l)
    BY <1>4, <2>1, PutIs DEF PutCache
  <2>4. \A w \in DOMAIN Address : Cached(w)' = IF w = word THEN v ELSE Cached(w)
    BY <2>1, <2>2, <2>3 DEF Cached
  <2>5. /\ asked' \in Seq(DOMAIN Address) /\ Len(asked') = Len(asked) + 1
        /\ DOMAIN asked = 1..Len(asked) /\ DOMAIN asked' = 1..Len(asked')
        /\ \A i \in 1..Len(asked) : asked'[i] = asked[i]
        /\ asked'[Len(asked) + 1] = word
    BY <1>1, <1>4
  <2>6. \A w \in DOMAIN Address : Cached(w) # 0 <=> \E i \in 1..Len(asked) : asked[i] = w
    BY DEF Answered
  <2>7. \A w \in DOMAIN Address : Cached(w)' # 0 <=> \E i \in 1..Len(asked') : asked'[i] = w
    <3>1. ASSUME NEW w \in DOMAIN Address, w # word
          PROVE  (\E i \in 1..Len(asked) : asked[i] = w) <=> (\E i \in 1..Len(asked') : asked'[i] = w)
      BY <1>1, <2>5, <3>1
    <3>2. ASSUME NEW w \in DOMAIN Address, w # word
          PROVE  Cached(w)' # 0 <=> \E i \in 1..Len(asked') : asked'[i] = w
      <4>1. Cached(w)' = Cached(w)
        BY <2>4, <3>2
      <4> QED
        BY <2>6, <3>1, <3>2, <4>1
    <3>3. Cached(word)' # 0 /\ \E i \in 1..Len(asked') : asked'[i] = word
      BY <1>1, <2>4, <2>5
    <3> QED
      BY <3>2, <3>3
  <2>8. \A i \in 1..Len(asked) : asked[i] # word
    BY <1>4, <2>6
  <2>9. \A i, j \in DOMAIN asked' : asked'[i] = asked'[j] => i = j
    <3>1. \A i, j \in 1..Len(asked) : asked[i] = asked[j] => i = j
      BY <2>5 DEF NamedOnce
    <3>2. \A i \in DOMAIN asked' : i \in 1..Len(asked) \/ i = Len(asked) + 1
      BY <1>1, <2>5
    <3> QED
      BY <2>5, <2>8, <3>1, <3>2
  <2> QED
    BY <2>3, <2>4, <2>5, <2>7, <2>9
<1>5. CASE /\ Cached(word) = 0 /\ asked' = Append(asked, word)
           /\ externs' = Append(externs, [word |-> word, as |-> label]) /\ PutCache(word, Len(externs) + 2)
           /\ Write(label, <<"num", sign * (Len(externs) + 1)>>) /\ UNCHANGED sent
  <2> DEFINE v == Len(externs) + 2
  <2>1. v \in Nat \ {0} /\ v > 1 /\ v - 1 = Len(externs) + 1
    BY <1>1
  <2>2. /\ Sound(cache')
        /\ \A w \in DOMAIN Address : Cached(w)' = IF w = word THEN v ELSE Cached(w)
        /\ asked' \in Seq(DOMAIN Address) /\ Len(asked') = Len(asked) + 1
        /\ \A w \in DOMAIN Address : Cached(w)' # 0 <=> \E i \in 1..Len(asked') : asked'[i] = w
        /\ \A i, j \in DOMAIN asked' : asked'[i] = asked'[j] => i = j
    BY <1>4, <1>5, <2>1
  <2> HIDE DEF v
  <2> DEFINE e == [word |-> word, as |-> label]
  <2>9. e \in External /\ e.word = word /\ e.as = label
    BY DEF External
  <2>10. externs' = Append(externs, e)
    BY <1>5
  <2> HIDE DEF e
  <2>3. /\ externs' \in Seq(External) /\ Len(externs') = Len(externs) + 1
        /\ \A i \in 1..Len(externs) : externs'[i] = externs[i]
        /\ externs'[Len(externs) + 1] = e
    <3>1. externs \in Seq(External)
      BY DEF Answered
    <3> QED
      BY <1>1, <2>9, <2>10, <3>1
  <2>4. ASSUME NEW k \in 1..Len(externs')
        PROVE  Get(cache', Address[externs'[k].word]) = k + 1 /\ SavedAs(externs'[k].as, externs'[k].word)
    <3>1. CASE k \in 1..Len(externs)
      <4>1. /\ Cached(externs[k].word) = k + 1 /\ k + 1 # 0
            /\ SavedAs(externs[k].as, externs[k].word)
        BY <1>1, <3>1 DEF Answered
      <4>2. externs[k].word # word /\ externs[k].word \in DOMAIN Address
        BY <1>1, <1>5, <3>1, <4>1
      <4>3. Get(cache', Address[externs[k].word]) = Cached(externs[k].word)
        BY <2>2, <4>2 DEF Cached
      <4> QED
        BY <2>3, <3>1, <4>1, <4>3
    <3>2. CASE k = Len(externs) + 1
      <4>1. Get(cache', Address[word]) = v
        BY <2>2 DEF Cached
      <4> QED
        BY <1>1, <2>1, <2>3, <2>9, <3>2, <4>1
    <3> QED
      BY <1>1, <2>3, <3>1, <3>2
  <2>5. ASSUME NEW w \in DOMAIN Address, Cached(w)' > 1
        PROVE  Cached(w)' - 1 \in 1..Len(externs') /\ externs'[Cached(w)' - 1].word = w
    <3>1. CASE w = word
      <4>1. Cached(w)' = v
        BY <2>2, <3>1
      <4> QED
        BY <1>1, <2>1, <2>3, <2>9, <3>1, <4>1
    <3>2. CASE w # word
      <4>1. Cached(w)' = Cached(w)
        BY <2>2, <3>2
      <4>2. Cached(w) - 1 \in 1..Len(externs) /\ externs[Cached(w) - 1].word = w
        BY <2>5, <4>1 DEF Answered
      <4> QED
        BY <1>1, <2>3, <4>1, <4>2
    <3> QED
      BY <3>1, <3>2
  <2>6. Answered'
    <3>1. \A w : Cached(w)' = Get(cache', Address[w])
      BY DEF Cached
    <3>2. \A k \in 1..Len(externs') : Get(cache', Address[externs'[k].word]) = k + 1
      BY <2>4
    <3>3. (\A k \in 1..Len(externs) : SavedAs(externs[k].as, externs[k].word))'
      BY <2>4 DEF SavedAs, Imaged
    <3> QED
      BY <2>2, <2>3, <2>5, <3>1, <3>2, <3>3 DEF Answered, Cached
  <2>7. NamedOnce'
    BY <1>1, <1>5, <2>2, <2>3 DEF NamedOnce
  <2>8. Cached(word)' = v /\ \A w \in DOMAIN Address : Cached(w) # 0 => Cached(w)' = Cached(w)
    BY <1>5, <2>2
  <2> QED
    BY <1>0, <1>5, <2>1, <2>2, <2>6, <2>7, <2>8 DEF Write
<1>6. CASE /\ Cached(word) = 0 /\ asked' = Append(asked, word)
           /\ sent' = sent + 1 /\ PutCache(word, 1)
           /\ Write(label, Null) /\ UNCHANGED externs
  <2>1. /\ Sound(cache')
        /\ \A w \in DOMAIN Address : Cached(w)' = IF w = word THEN 1 ELSE Cached(w)
        /\ asked' \in Seq(DOMAIN Address) /\ Len(asked') = Len(asked) + 1
        /\ \A w \in DOMAIN Address : Cached(w)' # 0 <=> \E i \in 1..Len(asked') : asked'[i] = w
        /\ \A i, j \in DOMAIN asked' : asked'[i] = asked'[j] => i = j
    BY <1>4, <1>6
  <2>2. ASSUME NEW k \in 1..Len(externs) PROVE Cached(externs[k].word)' = k + 1
    <3>1. Cached(externs[k].word) = k + 1 /\ k + 1 # 0
      BY <1>1 DEF Answered
    <3>2. externs[k].word # word /\ externs[k].word \in DOMAIN Address
      BY <1>1, <1>6, <3>1
    <3>3. Get(cache', Address[externs[k].word]) = Cached(externs[k].word)
      BY <2>1, <3>2 DEF Cached
    <3> QED
      BY <1>6, <3>1, <3>3 DEF Cached
  <2>3. ASSUME NEW w \in DOMAIN Address, Cached(w)' > 1
        PROVE  Cached(w)' - 1 \in 1..Len(externs) /\ externs[Cached(w)' - 1].word = w
    <3>1. Cached(w)' = Cached(w)
      BY <2>1, <2>3
    <3> QED
      BY <2>3, <3>1 DEF Answered
  <2>4. Answered'
    BY <1>1, <1>6, <1>7, <2>1, <2>2, <2>3 DEF Answered
  <2>5. NamedOnce'
    BY <1>1, <1>6, <2>1 DEF NamedOnce
  <2>6. Cached(word)' = 1 /\ \A w \in DOMAIN Address : Cached(w) # 0 => Cached(w)' = Cached(w)
    BY <1>6, <2>1
  <2>7. Null = <<"num", sign * (Cached(word)' - 1)>>
    BY <2>6 DEF Null
  <2> QED
    BY <1>0, <1>6, <2>1, <2>4, <2>5, <2>6, <2>7 DEF Write
<1> QED
  BY <1>3, <1>5, <1>6 DEF Extern

(* What is written stays right while the cache and the blob only grow.       *)
Grown(w, x) ==
    /\ WellFormed(w.h) /\ w.b \in Seq(Nat)
    /\ x.h = w.h /\ x.t = w.t
    /\ \A e \in DOMAIN Address : At(w.c, e) # 0 => At(x.c, e) = At(w.c, e)
    /\ x.b \in Seq(Nat) /\ Len(w.b) <= Len(x.b)
    /\ \A n \in 1..Len(w.b) : x.b[n] = w.b[n]

(* What was written for a unit still stands for it when more is named.       *)
LEMMA WritesStay ==
    ASSUME NEW w, NEW x, Grown(w, x), NEW s, NEW u, Fits(s), Writes(w, s, u)
    PROVE  Writes(x, s, u)
<1>1. /\ Len(w.b) \in Nat /\ Len(x.b) \in Nat
      /\ Len(w.b) <= Len(x.b) /\ \A n \in 1..Len(w.b) : x.b[n] = w.b[n]
  BY LenProperties DEF Grown
<1>2. s[1] = "bytes" =>
          \E n \in 0..Len(x.b)-1 : u[2] = <<"num", n>> /\ x.b[n + 1] = BytesLen(s[2])
  <2> SUFFICES ASSUME s[1] = "bytes"
               PROVE  \E n \in 0..Len(x.b)-1 :
                         u[2] = <<"num", n>> /\ x.b[n + 1] = BytesLen(s[2])
    OBVIOUS
  <2>1. PICK n \in 0..Len(w.b)-1 : u[2] = <<"num", n>> /\ w.b[n + 1] = BytesLen(s[2])
    BY DEF Writes
  <2>2. n \in 0..Len(x.b)-1 /\ x.b[n + 1] = w.b[n + 1]
    BY <1>1
  <2> QED
    BY <2>1, <2>2
<1>3. s[1] \in {"ref", "foreign"} /\ s[2] # Null /\ At(w.c, s[2]) # 0 => At(x.c, s[2]) = At(w.c, s[2])
  BY DEF Fits, Grown
<1>4. x.t = w.t
  BY DEF Grown
<1> QED
  BY <1>2, <1>3, <1>4 DEF Writes

(* The same of a record in the writing,                                      *)
LEMMA WritingStays ==
    ASSUME NEW w, NEW x, Grown(w, x), NEW a \in Imaged(w.h), NEW r, Writing(w, a, r)
    PROVE  Writing(x, a, r)
<1> DEFINE s == Save(w.h, w.h[a])
<1>1. WellFormed(w.h) /\ x.h = w.h /\ x.t = w.t
  BY DEF Grown
<1>2. Len(s) \in Nat /\ \A i \in 1..Len(s) : Fits(s[i])
  BY <1>1, SavedIs
<1> HIDE DEF s
<1>3. /\ IsSequence(r.units) /\ Len(r.units) <= Len(s)
      /\ \A i \in 1..Len(r.units) : Writes(w, s[i], r.units[i])
  BY DEF Writing, s
<1>4. Len(r.units) \in Nat
  BY <1>3, Sequence
<1>5. \A i \in 1..Len(r.units) : Writes(x, s[i], r.units[i])
  BY <1>2, <1>3, <1>4, WritesStay
<1> QED
  BY <1>1, <1>5 DEF Writing, TypeFor, s

(* and of the records written.                                               *)
LEMMA WrittenStays ==
    ASSUME NEW w, NEW x, Grown(w, x), NEW n \in 0..Len(w.h), NEW s, NEW t,
           WrittenTo(w, s, n), \A k \in 1..Len(s) : t[k] = s[k]
    PROVE  \A a \in Imaged(w.h) : a <= n => Written(x, a, t[RankIn(w.h, a)])
<1> SUFFICES ASSUME NEW a \in Imaged(w.h), a <= n
             PROVE  Written(x, a, t[RankIn(w.h, a)])
  OBVIOUS
<1>1. x.h = w.h /\ IsSequence(w.h) /\ Len(w.h) \in Nat /\ n \in Nat
  BY Sequence DEF Grown, WellFormed
<1>2. /\ RankIn(w.h, a) \in 1..RankIn(w.h, Len(w.h)) /\ RankIn(w.h, a) <= RankIn(w.h, n)
      /\ RankIn(w.h, n) \in Nat
  BY <1>1, RanksDiffer, Ranks
<1>3. Len(s) = RankIn(w.h, n) /\ Written(w, a, s[RankIn(w.h, a)])
  BY DEF WrittenTo
<1>4. t[RankIn(w.h, a)] = s[RankIn(w.h, a)]
  BY <1>2, <1>3
<1> QED
  BY <1>1, <1>3, <1>4, WritingStays DEF Written

(* A unit written leaves the invariant, once it is said what became of the   *)
(* cache, the blob and the room.                                             *)
LEMMA UnitWritten ==
    ASSUME Inv, phase = "emit", phase' = "emit", pending # <<>>, NEW u,
           rec' = [rec EXCEPT !.units = Append(@, u)], pending' = Tail(pending),
           heap' = heap, caps' = caps, index' = index, at' = at, table' = table, ix' = ix,
           Sound(cache'), Answered', NamedOnce', Grown(Now, Now'), Writes(Now', pending[1], u),
           room' = <<room[1], room[2] + UnitBytes(pending[1])>>, room'[2] <= caps[2]
    PROVE  Inv'
<1> USE DEF Inv
<1>1. /\ WellFormed(heap) /\ IsSequence(heap) /\ Len(heap) \in Nat /\ WordBytes \in Nat
      /\ caps[1] \in Nat /\ caps[2] \in Nat /\ room[1] \in Nat /\ room[2] \in Nat
      /\ Imaged(heap) \subseteq 1..Len(heap)
  BY HeapIs
<1>2. rec # NoRec
  BY DEF Position
<1>3. /\ at \in Imaged(heap) /\ at \in Nat /\ IsSequence(pending)
      /\ Units + Len(pending) = Len(Saved(at))
      /\ \A i \in 1..Len(pending) : pending[i] = Saved(at)[Units + i]
  BY <1>1, <1>2 DEF Position
<1>4. /\ Len(pending) \in Nat \ {0} /\ IsSequence(Tail(pending))
      /\ Len(Tail(pending)) = Len(pending) - 1
      /\ \A i \in 1..Len(pending)-1 : Tail(pending)[i] = pending[i + 1]
  BY <1>3, Shortened
<1>5. Writing(Now, at, rec) /\ Now.h = heap /\ Now'.h = heap
  BY <1>2 DEF Recorded, Now
<1>6. rec = [type |-> rec.type, attr |-> rec.attr, units |-> rec.units] /\ IsSequence(rec.units)
  BY <1>5 DEF Writing
<1>7. Units \in Nat
  BY <1>6, Sequence DEF Units
<1>8. /\ rec' = [type |-> rec.type, attr |-> rec.attr, units |-> rec'.units]
      /\ rec'.units = Append(rec.units, u)
  BY <1>6
<1>9. /\ IsSequence(rec'.units) /\ Units' = Units + 1
      /\ \A i \in 1..Units : rec'.units[i] = rec.units[i]
      /\ rec'.units[Units + 1] = u
  BY <1>6, <1>8, Extended DEF Units
<1>10. rec' # NoRec
  BY <1>7, <1>9, EmptyList DEF NoRec, Units
<1>11. Len(Saved(at)) \in Nat /\ \A i \in 1..Len(Saved(at)) : Fits(Saved(at)[i])
  BY <1>1, <1>3, SavedIs DEF Saved
<1>12. pending[1] = Saved(at)[Units + 1] /\ Units + 1 \in 1..Len(Saved(at))
  BY <1>3, <1>4, <1>7, <1>11
<1>13. UnitBytes(pending[1]) \in Nat
  BY <1>1, <1>11, <1>12, BytesAre
<1>14. Frame'
  <2>1. blob' \in Seq(Nat)
    BY DEF Grown, Now
  <2>2. room' \in Nat \X Nat
    BY <1>1, <1>13
  <2> QED
    BY <2>1, <2>2 DEF Frame
<1>15. Tabled'
  BY DEF Tabled
<1>16. Indices'
  BY DEF Indices
<1>17. Position'
  <2>1. Saved(at)' = Saved(at)
    BY DEF Saved
  <2>2. Units' + Len(pending') = Len(Saved(at))
    BY <1>3, <1>4, <1>7, <1>9, <1>11
  <2>3. \A i \in 1..Len(pending') : pending'[i] = Saved(at)[Units' + i]
    <3> SUFFICES ASSUME NEW i \in 1..Len(pending') PROVE pending'[i] = Saved(at)[Units' + i]
      OBVIOUS
    <3>1. i \in 1..Len(pending)-1 /\ i + 1 \in 1..Len(pending)
      BY <1>4
    <3>2. Units + (i + 1) = Units' + i
      BY <1>7, <1>9, <3>1
    <3> QED
      BY <1>3, <1>4, <3>1, <3>2
  <2>4. at' # 0 /\ at' \in {0} \cup Imaged(heap')
    BY <1>1, <1>3
  <2> QED
    BY <1>4, <1>10, <2>1, <2>2, <2>3, <2>4 DEF Position
<1>18. Spent'
  <2>1. BytesIn(heap, at) \in [1..Len(Saved(at)) -> Nat]
    BY <1>3, SumsOf
  <2>2. /\ Sums(BytesIn(heap, at))[Units + 1] = Sums(BytesIn(heap, at))[Units] + BytesIn(heap, at)[Units + 1]
        /\ Sums(BytesIn(heap, at))[Units] \in Nat
    <3>1. Units + 1 - 1 = Units /\ Units \in 0..Len(Saved(at))
      BY <1>7, <1>11, <1>12
    <3> DEFINE n == Len(Saved(at))
               f == BytesIn(heap, at)
    <3>2. n \in Nat /\ f \in [1..n -> Nat]
      BY <1>11, <2>1
    <3> HIDE DEF n, f
    <3>3. /\ \A k \in 1..n : Sums(f)[k] = Sums(f)[k - 1] + f[k]
          /\ \A k \in 0..n : Sums(f)[k] \in Nat
      BY <3>2, SumsAre
    <3>4. Units + 1 \in 1..n /\ Units \in 0..n /\ Units + 1 - 1 = Units
      BY <1>12, <3>1 DEF n
    <3>5. Sums(f)[Units + 1] = Sums(f)[Units] + f[Units + 1]
      BY <3>3, <3>4
    <3> QED
      BY <3>3, <3>4, <3>5 DEF f
  <2>3. BytesIn(heap, at)[Units + 1] = UnitBytes(pending[1])
    <3>1. DOMAIN Saved(at) = 1..Len(Saved(at))
      BY <1>1, <1>3, SavedIs DEF Saved
    <3> QED
      BY <1>12, <3>1 DEF BytesIn, Saved
  <2>4. Behind = at - 1 /\ Behind' = at - 1
    BY <1>2, <1>10 DEF Behind
  <2>5. /\ room[1] = Sums(WordsOf(heap))[at - 1]
        /\ room[2] = Sums(BytesOf(heap))[at - 1] + Sums(BytesIn(heap, at))[Units]
    BY <1>2, <2>4 DEF Spent
  <2>6. /\ BytesOf(heap) \in [1..Len(heap) -> Nat] /\ at - 1 \in 0..Len(heap)
    BY <1>1, <1>3, SumsOf
  <2>7. Sums(BytesOf(heap))[at - 1] \in Nat
    BY <1>1, <2>6, SumsAre
  <2>8. room'[2] = Sums(BytesOf(heap))[at - 1] + Sums(BytesIn(heap, at))[Units']
    BY <1>9, <1>13, <2>2, <2>3, <2>5, <2>7
  <2> QED
    BY <1>10, <2>4, <2>5, <2>8 DEF Spent
<1>19. NoOverrun'
  <2>1. RecordWords(Units + Len(pending)) = RecordWords(Units' + Len(pending'))
    <3>1. Units + Len(pending) = Units' + Len(pending')
      BY <1>3, <1>4, <1>7, <1>9, <1>11
    <3> QED
      BY <3>1
  <2>2. room[1] + RecordWords(Units + Len(pending)) <= caps[1]
    BY <1>2 DEF NoOverrun, Units
  <2> QED
    BY <1>10, <2>1, <2>2 DEF NoOverrun, Units
<1>20. Recorded'
  <2>1. Behind' = Behind /\ Behind \in 0..Len(heap) /\ WrittenTo(Now, table, Behind)
    <3>1. Behind' = Behind /\ Behind \in 0..Len(heap)
      <4>1. at \in 1..Len(heap)
        BY <1>1, <1>3
      <4>2. Behind = at - 1 /\ Behind' = at - 1
        BY <1>2, <1>10 DEF Behind
      <4> QED
        BY <1>1, <4>1, <4>2
    <3>2. WrittenTo(Now, table, Behind)
      BY DEF Recorded
    <3> QED
      BY <3>1, <3>2
  <2>2. WrittenTo(Now', table, Behind)
    BY <1>5, <2>1, WrittenStays DEF WrittenTo
  <2>3. Writing(Now', at, rec)
    BY <1>3, <1>5, WritingStays
  <2>4. Writing(Now', at, rec')
    <3> DEFINE x == Now'
               s == Saved(at)
    <3>1. \A i \in 1..Units : Writes(x, s[i], rec.units[i])
      BY <1>5, <2>3 DEF Writing, Saved, Units
    <3>2. \A i \in 1..Units + 1 : Writes(x, s[i], rec'.units[i])
      <4>1. \A i \in 1..Units + 1 : i \in 1..Units \/ i = Units + 1
        BY <1>7
      <4> HIDE DEF x, s
      <4>2. Writes(x, s[Units + 1], rec'.units[Units + 1])
        BY <1>9, <1>12 DEF x, s
      <4> QED
        BY <1>9, <3>1, <4>1, <4>2
    <3>3. Units + 1 <= Len(s)
      BY <1>7, <1>11, <1>12
    <3>4. /\ rec = [type |-> TypeFor(x, heap[at]), attr |-> heap[at].attr, units |-> rec.units]
          /\ heap[at].role = "struct" => heap[at].of \in Imaged(heap)
      BY <1>5, <2>3 DEF Writing
    <3>5. rec' = [type |-> TypeFor(x, heap[at]), attr |-> heap[at].attr, units |-> rec'.units]
      <4> HIDE DEF x
      <4>1. rec.type = TypeFor(x, heap[at]) /\ rec.attr = heap[at].attr
        BY <3>4
      <4> QED
        BY <1>8, <4>1
    <3>6. x.h = heap /\ Len(rec'.units) = Units + 1 /\ s = Save(heap, heap[at])
      BY <1>5, <1>9 DEF Units, Saved
    <3> HIDE DEF x, s
    <3> QED
      BY <1>9, <3>2, <3>3, <3>4, <3>5, <3>6 DEF Writing, x
  <2> QED
    BY <2>1, <2>2, <2>4 DEF Recorded
<1>21. Rebuilt'
  BY DEF Rebuilt
<1>22. Loaded' /\ RefusedForCause'
  BY DEF Loaded, RefusedForCause
<1> QED
  BY <1>14, <1>15, <1>16, <1>17, <1>18, <1>19, <1>20, <1>21, <1>22

(* The unit to write next.                                                   *)
LEMMA NextUnit ==
    ASSUME Inv, phase = "emit", pending # <<>>
    PROVE  /\ Head(pending) = pending[1] /\ Fits(pending[1]) /\ rec # NoRec
           /\ pending[1][1] \in {"ref", "foreign"} /\ pending[1][2] # Null =>
                  pending[1][2] \in DOMAIN Address
           /\ pending[1][1] = "foreign" /\ pending[1][2] # Null => pending[1][2][1] = "out"
           /\ SavedAs(pending[1][1], pending[1][2])
           /\ UnitBytes(pending[1]) \in Nat
           /\ pending[1][1] # "bytes" => room = <<room[1], room[2] + UnitBytes(pending[1])>>
           /\ room[2] <= caps[2]
<1> USE DEF Inv
<1>1. WellFormed(heap) /\ Imaged(heap) \subseteq 1..Len(heap) /\ Len(heap) \in Nat /\ WordBytes \in Nat
  BY HeapIs
<1>2. room = <<room[1], room[2]>> /\ room[1] \in Nat /\ room[2] \in Nat
  BY HeapIs
<1>3. rec # NoRec
  BY DEF Position
<1>4. /\ at \in Imaged(heap) /\ IsSequence(pending)
      /\ Units + Len(pending) = Len(Saved(at))
      /\ \A i \in 1..Len(pending) : pending[i] = Saved(at)[Units + i]
  BY <1>1, <1>3 DEF Position
<1>5. Len(pending) \in Nat \ {0} /\ Head(pending) = pending[1]
  BY <1>4, Shortened
<1>6. Units \in Nat
  <2>1. IsSequence(rec.units)
    BY <1>3 DEF Recorded, Writing
  <2> QED
    BY <2>1, Sequence DEF Units
<1>7. Len(Saved(at)) \in Nat /\ \A i \in 1..Len(Saved(at)) : Fits(Saved(at)[i])
  BY <1>1, <1>4, SavedIs DEF Saved
<1>8. Fits(pending[1])
  BY <1>4, <1>5, <1>6, <1>7
<1>9. UnitBytes(pending[1]) \in Nat /\ (pending[1][1] # "bytes" => UnitBytes(pending[1]) = 0)
  BY <1>1, <1>8, BytesAre
<1>10. room[2] <= caps[2]
  BY DEF NoOverrun
<1>11. pending[1][1] # "bytes" => room = <<room[1], room[2] + UnitBytes(pending[1])>>
  BY <1>2, <1>9
<1>12. /\ pending[1][1] \in {"ref", "foreign"} /\ pending[1][2] # Null => pending[1][2] \in DOMAIN Address
       /\ pending[1][1] = "foreign" /\ pending[1][2] # Null => pending[1][2][1] = "out"
  BY <1>8 DEF Fits
<1>13. SavedAs(pending[1][1], pending[1][2])
  <2>1. DOMAIN Saved(at) = 1..Len(Saved(at))
    BY <1>1, <1>4, SavedIs DEF Saved
  <2>2. Units + 1 \in DOMAIN Saved(at) /\ pending[1] = Saved(at)[Units + 1]
    BY <1>4, <1>5, <1>6, <1>7, <2>1
  <2> QED
    BY <1>4, <2>2 DEF SavedAs, Saved
<1> QED
  BY <1>3, <1>5, <1>8, <1>9, <1>10, <1>11, <1>12, <1>13

(* Steps that leave the names alone keep what is said of them.               *)
LEMMA CacheKept ==
    ASSUME Inv, UNCHANGED <<heap, cache, sent, externs, asked>>
    PROVE  /\ Sound(cache') /\ Answered' /\ NamedOnce'
           /\ \A w \in DOMAIN Address : Cached(w) # 0 => Cached(w)' = Cached(w)
<1>1. \A w : Cached(w)' = Cached(w)
  BY DEF Cached
<1>2. Sound(cache)
  BY DEF Inv, Tabled
<1>3. \A l, w : SavedAs(l, w)' <=> SavedAs(l, w)
  BY DEF SavedAs, Imaged
<1> QED
  BY <1>1, <1>2, <1>3 DEF Inv, Answered, NamedOnce

(* The names and the bytes section only ever grow.                           *)
LEMMA NowGrows ==
    ASSUME Inv, heap' = heap, index' = index,
           \A w \in DOMAIN Address : Cached(w) # 0 => Cached(w)' = Cached(w),
           blob' \in Seq(Nat), Len(blob) <= Len(blob'), \A n \in 1..Len(blob) : blob'[n] = blob[n]
    PROVE  Grown(Now, Now')
<1>1. WellFormed(heap) /\ blob \in Seq(Nat)
  BY HeapIs DEF Inv, Frame
<1>2. \A w \in DOMAIN Address : At(cache, w) # 0 => At(cache', w) = At(cache, w)
  BY DEF Cached, At
<1>3. /\ Now.h = heap /\ Now.t = index /\ Now.c = cache /\ Now.b = blob
      /\ Now'.h = heap' /\ Now'.t = index' /\ Now'.c = cache' /\ Now'.b = blob'
  BY DEF Now
<1> QED
  BY <1>1, <1>2, <1>3 DEF Grown

(* Writing a reference keeps the invariant.                                  *)
LEMMA RefKeeps ==
    ASSUME Inv, EmitRef
    PROVE  Inv'
<1>1. phase = "emit" /\ pending # <<>> /\ Head(pending)[1] = "ref"
  BY DEF EmitRef, Emitting
<1> DEFINE s == pending[1]
           word == s[2]
           u == rec'.units[Units + 1]
<1>2. /\ Head(pending) = s /\ s[1] = "ref" /\ (word # Null => word \in DOMAIN Address)
      /\ room = <<room[1], room[2] + UnitBytes(s)>> /\ room[2] <= caps[2]
  BY <1>1, NextUnit
<1>3. /\ UNCHANGED <<phase, heap, caps, index, at, table, room, blob, ix>>
      /\ \/ word = Null /\ Write("ref", Null) /\ UNCHANGED <<cache, sent, externs, asked>>
         \/ /\ word # Null /\ Get(index, Address[word]) # 0
            /\ Write("ref", <<"num", Get(index, Address[word])>>)
            /\ UNCHANGED <<cache, sent, externs, asked>>
         \/ word # Null /\ Get(index, Address[word]) = 0 /\ Extern("ref", word, -1)
  BY <1>2 DEF EmitRef
<1> HIDE DEF s
<1>4. blob \in Seq(Nat) /\ Sound(cache) /\ Answered /\ NamedOnce
  BY DEF Inv, Frame, Tabled
<1>5. /\ Now'.t = index /\ Now'.c = cache'
  BY <1>3 DEF Now
<1>6. ASSUME NEW v, Write("ref", v), Writes(Now', s, <<"ref", v>>),
             Sound(cache'), Answered', NamedOnce',
             \A w \in DOMAIN Address : Cached(w) # 0 => Cached(w)' = Cached(w)
      PROVE  Inv'
  <2>1. Grown(Now, Now')
    BY <1>3, <1>4, <1>6, NowGrows
  <2> QED
    BY <1>1, <1>2, <1>3, <1>6, <2>1, UnitWritten DEF Write, s
<1>7. CASE word = Null /\ Write("ref", Null) /\ UNCHANGED <<cache, sent, externs, asked>>
  <2>1. Writes(Now', s, <<"ref", Null>>)
    BY <1>2, <1>7 DEF Writes
  <2> QED
    BY <1>3, <1>6, <1>7, <2>1, CacheKept
<1>8. CASE /\ word # Null /\ Get(index, Address[word]) # 0
           /\ Write("ref", <<"num", Get(index, Address[word])>>)
           /\ UNCHANGED <<cache, sent, externs, asked>>
  <2>1. Writes(Now', s, <<"ref", <<"num", Get(index, Address[word])>>>>)
    BY <1>2, <1>5, <1>8 DEF Writes, At
  <2> QED
    BY <1>3, <1>6, <1>8, <2>1, CacheKept
<1>9. CASE word # Null /\ Get(index, Address[word]) = 0 /\ Extern("ref", word, -1)
  <2> DEFINE v == <<"num", 1 - Get(cache', Address[word])>>
  <2>1. word \in DOMAIN Address
    BY <1>2, <1>9
  <2>2. PICK e \in DOMAIN Address : e = word
    BY <2>1
  <2>4. PICK sign \in Int : sign = -1
    OBVIOUS
  <2>3. Extern("ref", e, sign)
    BY <1>9, <2>2, <2>4
  <2>8. SavedAs(s[1], e)
    BY <1>1, <1>2, <2>2, NextUnit DEF s
  <2>5. /\ pending' = Tail(pending) /\ Get(cache', Address[e]) # 0
        /\ rec' = [rec EXCEPT !.units =
              Append(@, <<"ref", <<"num", sign * (Get(cache', Address[e]) - 1)>>>>)]
        /\ Sound(cache') /\ Answered' /\ NamedOnce'
        /\ \A w \in DOMAIN Address : Cached(w) # 0 => Cached(w)' = Cached(w)
    BY <1>2, <1>3, <1>4, <2>3, <2>8, ExternKeeps
  <2>6. Write("ref", v) /\ Get(cache', Address[word]) # 0
    <3>1. Get(cache', Address[e]) \in Nat
      BY <2>5, WordKeys, GetIs
    <3>2. sign * (Get(cache', Address[e]) - 1) = 1 - Get(cache', Address[word])
      BY <2>2, <2>4, <3>1
    <3> QED
      BY <2>2, <2>5, <3>2 DEF Write
  <2>7. Writes(Now', s, <<"ref", v>>)
    BY <1>2, <1>5, <1>9, <2>6 DEF Writes, At
  <2> QED
    BY <1>6, <2>5, <2>6, <2>7
<1> QED
  BY <1>3, <1>7, <1>8, <1>9

(* Writing a foreign word, which may ask for its name, keeps it.             *)
LEMMA ForeignKeeps ==
    ASSUME Inv, EmitForeign
    PROVE  Inv'
<1>1. phase = "emit" /\ pending # <<>> /\ Head(pending)[1] = "foreign"
  BY DEF EmitForeign, Emitting
<1> DEFINE s == pending[1]
           word == s[2]
<1>2. /\ Head(pending) = s /\ s[1] = "foreign" /\ (word # Null => word \in DOMAIN Address)
      /\ room = <<room[1], room[2] + UnitBytes(s)>> /\ room[2] <= caps[2]
  BY <1>1, NextUnit
<1>3. /\ UNCHANGED <<phase, heap, caps, index, at, table, room, blob, ix>>
      /\ IF word = Null
         THEN Write("foreign", Null) /\ UNCHANGED <<cache, sent, externs, asked>>
         ELSE Extern("foreign", word, 1)
  BY <1>2 DEF EmitForeign
<1> HIDE DEF s
<1>4. blob \in Seq(Nat) /\ Sound(cache) /\ Answered /\ NamedOnce
  BY DEF Inv, Frame, Tabled
<1>5. Now'.c = cache'
  BY <1>3 DEF Now
<1>6. ASSUME NEW v, Write("foreign", v), Writes(Now', s, <<"foreign", v>>),
             Sound(cache'), Answered', NamedOnce',
             \A w \in DOMAIN Address : Cached(w) # 0 => Cached(w)' = Cached(w)
      PROVE  Inv'
  <2>1. Grown(Now, Now')
    BY <1>3, <1>4, <1>6, NowGrows
  <2> QED
    BY <1>1, <1>2, <1>3, <1>6, <2>1, UnitWritten DEF Write, s
<1>7. CASE word = Null
  <2>1. Writes(Now', s, <<"foreign", Null>>)
    BY <1>2, <1>7 DEF Writes
  <2> QED
    BY <1>3, <1>6, <1>7, <2>1, CacheKept
<1>8. CASE word # Null
  <2> DEFINE v == <<"num", Get(cache', Address[word]) - 1>>
  <2>2. PICK e \in DOMAIN Address : e = word
    BY <1>2, <1>8
  <2>3. PICK sign \in Int : sign = 1
    OBVIOUS
  <2>4. Extern("foreign", e, sign)
    BY <1>3, <1>8, <2>2, <2>3
  <2>8. SavedAs(s[1], e)
    BY <1>1, <1>2, <2>2, NextUnit DEF s
  <2>5. /\ pending' = Tail(pending) /\ Get(cache', Address[e]) # 0
        /\ rec' = [rec EXCEPT !.units =
              Append(@, <<"foreign", <<"num", sign * (Get(cache', Address[e]) - 1)>>>>)]
        /\ Sound(cache') /\ Answered' /\ NamedOnce'
        /\ \A w \in DOMAIN Address : Cached(w) # 0 => Cached(w)' = Cached(w)
    BY <1>2, <1>3, <1>4, <2>4, <2>8, ExternKeeps
  <2>6. Write("foreign", v) /\ Get(cache', Address[word]) # 0
    <3>1. Get(cache', Address[e]) \in Nat
      BY <2>5, WordKeys, GetIs
    <3>2. sign * (Get(cache', Address[e]) - 1) = Get(cache', Address[word]) - 1
      BY <2>2, <2>3, <3>1
    <3> QED
      BY <2>2, <2>5, <3>2 DEF Write
  <2>7. Writes(Now', s, <<"foreign", v>>)
    BY <1>2, <1>5, <1>8, <2>6 DEF Writes, At
  <2> QED
    BY <1>6, <2>5, <2>6, <2>7
<1> QED
  BY <1>7, <1>8

(* Writing a plain word keeps it.                                            *)
LEMMA WordKeeps ==
    ASSUME Inv, EmitWord
    PROVE  Inv'
<1>1. /\ phase = "emit" /\ pending # <<>> /\ Head(pending)[1] = "word"
      /\ UNCHANGED <<phase, heap, caps, index, at, table, room, blob, ix>>
      /\ UNCHANGED <<cache, sent, externs, asked>> /\ Write("word", Head(pending)[2])
  BY DEF EmitWord, Emitting, written
<1>2. /\ Head(pending) = pending[1] /\ pending[1][1] = "word"
      /\ room = <<room[1], room[2] + UnitBytes(pending[1])>> /\ room[2] <= caps[2]
  BY <1>1, NextUnit
<1>3. blob \in Seq(Nat)
  BY DEF Inv, Frame
<1>4. Grown(Now, Now') /\ Sound(cache') /\ Answered' /\ NamedOnce'
  BY <1>1, <1>3, CacheKept, NowGrows
<1>5. Writes(Now', pending[1], <<"word", pending[1][2]>>)
  BY <1>2 DEF Writes
<1> QED
  BY <1>1, <1>2, <1>4, <1>5, UnitWritten DEF Write

(* The blob is to have room for what is written and for the next unit.       *)
LEMMA BytesToCome ==
    ASSUME Inv, phase = "emit", pending # <<>>
    PROVE  /\ Sum(BytesOf(heap)) \in Nat
           /\ Sum(BytesOf(heap)) >= room[2] + UnitBytes(pending[1])
<1> USE DEF Inv
<1>1. /\ WellFormed(heap) /\ IsSequence(heap) /\ Len(heap) \in Nat
      /\ Imaged(heap) \subseteq 1..Len(heap)
  BY HeapIs
<1>2. rec # NoRec
  BY DEF Position
<1>3. /\ at \in Imaged(heap) /\ IsSequence(pending) /\ Units + Len(pending) = Len(Saved(at))
      /\ \A i \in 1..Len(pending) : pending[i] = Saved(at)[Units + i]
  BY <1>1, <1>2 DEF Position
<1>4. Len(pending) \in Nat \ {0}
  BY <1>3, Shortened
<1>5. Units \in Nat
  <2>1. IsSequence(rec.units)
    BY <1>2 DEF Recorded, Writing
  <2> QED
    BY <2>1, Sequence DEF Units
<1> DEFINE n == Len(Saved(at))
           g == BytesIn(heap, at)
           m == Len(heap)
           f == BytesOf(heap)
<1>6. n \in Nat /\ DOMAIN Saved(at) = 1..n
  BY <1>1, <1>3, SavedIs DEF Saved
<1>7. /\ f \in [1..m -> Nat] /\ g \in [1..n -> Nat] /\ f[at] = Sum(g)
  BY <1>3, SumsOf
<1>8. pending[1] = Saved(at)[Units + 1] /\ Units + 1 \in 1..n /\ Units \in 0..n
  BY <1>3, <1>4, <1>5, <1>6
<1>9. g[Units + 1] = UnitBytes(pending[1])
  BY <1>6, <1>8 DEF BytesIn, Saved
<1>10. at \in 1..m /\ at - 1 \in 0..m /\ at \in 0..m /\ at <= m /\ m \in 0..m
  <2>1. at \in 1..m
    BY <1>1, <1>3
  <2> QED
    BY <1>1, <2>1
<1>11. room[2] = Sums(f)[at - 1] + Sums(g)[Units]
  <2>1. Behind = at - 1
    BY <1>2 DEF Behind
  <2> QED
    BY <1>2, <2>1 DEF Spent
<1> HIDE DEF n, g, m, f
<1>12. /\ Sum(g) = Sums(g)[n] /\ Sums(g)[Units + 1] = Sums(g)[Units] + g[Units + 1]
       /\ Sums(g)[Units] \in Nat /\ Sums(g)[Units + 1] \in Nat /\ Sums(g)[n] \in Nat
  <2>1. /\ Sum(g) = Sums(g)[n]
        /\ \A k \in 1..n : Sums(g)[k] = Sums(g)[k - 1] + g[k]
        /\ \A k \in 0..n : Sums(g)[k] \in Nat
    BY <1>6, <1>7, SumsAre
  <2>2. Units + 1 - 1 = Units /\ Units + 1 \in 0..n /\ n \in 0..n
    BY <1>5, <1>6, <1>8
  <2> QED
    BY <1>8, <2>1, <2>2
<1>13. Sums(g)[Units + 1] <= Sums(g)[n]
  <2>1. Units + 1 \in 0..n /\ n \in 0..n /\ Units + 1 <= n
    BY <1>5, <1>6, <1>8
  <2> QED
    BY <1>6, <1>7, <2>1, SumsGrow
<1>14. /\ Sum(f) = Sums(f)[m] /\ Sums(f)[at] = Sums(f)[at - 1] + f[at]
       /\ Sums(f)[at - 1] \in Nat /\ Sums(f)[at] \in Nat /\ Sums(f)[m] \in Nat
  <2>1. /\ Sum(f) = Sums(f)[m]
        /\ \A k \in 1..m : Sums(f)[k] = Sums(f)[k - 1] + f[k]
        /\ \A k \in 0..m : Sums(f)[k] \in Nat
    BY <1>1, <1>7, SumsAre DEF m
  <2> QED
    BY <1>10, <2>1
<1>15. Sums(f)[at] <= Sums(f)[m]
  BY <1>1, <1>7, <1>10, SumsGrow DEF m
<1>16. g[Units + 1] \in Nat
  BY <1>7, <1>8
<1>17. Sums(f)[m] >= room[2] + g[Units + 1]
  <2>1. room[2] + g[Units + 1] = Sums(f)[at - 1] + Sums(g)[Units + 1]
    BY <1>11, <1>12, <1>14, <1>16
  <2>2. Sums(f)[at - 1] + Sums(g)[Units + 1] <= Sums(f)[at - 1] + Sums(g)[n]
    BY <1>12, <1>13, <1>14
  <2>3. Sums(f)[at - 1] + Sums(g)[n] = Sums(f)[at]
    BY <1>7, <1>12, <1>14
  <2>4. \A x, y, z, w \in Nat : x <= y /\ y = z /\ z <= w => w >= x
    OBVIOUS
  <2>5. Sums(f)[at - 1] + Sums(g)[Units + 1] \in Nat /\ Sums(f)[at - 1] + Sums(g)[n] \in Nat
    BY <1>12, <1>14
  <2> QED
    BY <1>14, <1>15, <2>1, <2>2, <2>3, <2>4, <2>5
<1> QED
  BY <1>9, <1>14, <1>17 DEF f

(* Writing characters, or refusing for want of room, keeps it.               *)
LEMMA BytesKeeps ==
    ASSUME Inv, EmitBytes
    PROVE  Inv'
<1> DEFINE s == pending[1]
           n == BytesLen(s[2])
<1>1. /\ phase = "emit" /\ pending # <<>> /\ Head(pending)[1] = "bytes"
      /\ UNCHANGED <<heap, caps, index, at, table, ix>>
      /\ UNCHANGED <<cache, sent, externs, asked>>
  BY DEF EmitBytes, Emitting
<1>2. /\ Head(pending) = s /\ s[1] = "bytes" /\ Fits(s) /\ room[2] <= caps[2]
      /\ UnitBytes(s) \in Nat /\ rec # NoRec
  BY <1>1, NextUnit
<1>3. n \in Nat /\ UnitBytes(s) = WordBytes + n + 1
  BY <1>2, BytesAre, GraphsAssumption
<1>4. /\ room = <<room[1], room[2]>> /\ room[1] \in Nat /\ room[2] \in Nat
      /\ caps[1] \in Nat /\ caps[2] \in Nat /\ WordBytes \in Nat
  BY HeapIs DEF Inv
<1>5. blob \in Seq(Nat) /\ Len(blob) \in Nat
  BY DEF Inv, Frame
<1>6. CASE ~BlobFull(n)
  <2>1. /\ Write("bytes", <<"num", Len(blob)>>) /\ blob' = Append(blob, n)
        /\ room' = [room EXCEPT ![2] = @ + WordBytes + n + 1] /\ phase' = "emit"
    BY <1>1, <1>2, <1>6 DEF EmitBytes
  <2>2. blob' \in Seq(Nat) /\ Len(blob') = Len(blob) + 1 /\ blob'[Len(blob) + 1] = n
        /\ \A i \in 1..Len(blob) : blob'[i] = blob[i]
    BY <1>3, <1>5, <2>1
  <2> HIDE DEF s
  <2>3. room' = <<room[1], room[2] + UnitBytes(s)>> /\ room'[2] <= caps[2]
    <3>1. room' = <<room[1], room[2] + WordBytes + n + 1>>
      BY <1>4, <2>1
    <3>2. room[2] + WordBytes + n + 1 <= caps[2]
      BY <1>3, <1>4, <1>6 DEF BlobFull
    <3>3. room[2] + WordBytes + n + 1 = room[2] + UnitBytes(s)
      BY <1>3, <1>4
    <3> QED
      BY <3>1, <3>2, <3>3
  <2>4. Grown(Now, Now') /\ Sound(cache') /\ Answered' /\ NamedOnce'
    BY <1>1, <1>5, <2>2, CacheKept, NowGrows
  <2>5. Writes(Now', s, <<"bytes", <<"num", Len(blob)>>>>)
    <3>1. Now'.b = blob'
      BY DEF Now
    <3>2. Len(blob) \in 0..Len(blob')-1
      BY <1>5, <2>2
    <3> QED
      BY <1>2, <2>2, <3>1, <3>2 DEF Writes
  <2> QED
    BY <1>1, <2>1, <2>3, <2>4, <2>5, UnitWritten DEF Write, s
<1>7. CASE BlobFull(n)
  <2>1. phase' = "raised" /\ UNCHANGED <<pending, rec, blob, room>>
    BY <1>1, <1>2, <1>7 DEF EmitBytes
  <2>2. Sum(BytesOf(heap)) > caps[2]
    <3>1. Sum(BytesOf(heap)) \in Nat /\ Sum(BytesOf(heap)) >= room[2] + UnitBytes(s)
      BY <1>1, BytesToCome
    <3> QED
      BY <1>3, <1>4, <1>7, <3>1 DEF BlobFull
  <2>3. Frame' /\ Tabled' /\ Indices'
    BY <1>1, <2>1 DEF Inv, Frame, Tabled, Indices
  <2>4. Answered' /\ NamedOnce'
    BY <1>1, CacheKept
  <2>5. Position' /\ Spent' /\ Recorded' /\ Rebuilt' /\ Loaded'
    BY <1>1, <2>1 DEF Position, Spent, Recorded, Rebuilt, Loaded
  <2>6. NoOverrun' /\ RefusedForCause'
    BY <1>1, <2>1, <2>2 DEF Inv, NoOverrun, RefusedForCause
  <2> QED
    BY <2>3, <2>4, <2>5, <2>6 DEF Inv
<1> QED
  BY <1>6, <1>7

-----------------------------------------------------------------------------
(* The other steps of the writer.                                            *)
LEMMA CountKeeps ==
    ASSUME Inv, CountPass
    PROVE  Inv'
<1> USE DEF Inv
<1>1. WellFormed(heap) /\ IsSequence(heap)
  BY HeapIs
<1>2. /\ phase = "count" /\ phase' = "emit" /\ index' = Indexed(heap) /\ at' = 0
      /\ UNCHANGED <<heap, caps, pending, rec, table, room, blob, ix>>
      /\ UNCHANGED <<cache, sent, externs, asked>>
  BY DEF CountPass
<1>3. rec = NoRec /\ pending = <<>> /\ table = <<>> /\ room = <<0, 0>> /\ ix = <<>>
  BY <1>2 DEF Frame, Rebuilt
<1>4. Frame'
  BY <1>2 DEF Frame
<1>5. Tabled' /\ Indices'
  BY <1>1, <1>2, IndexedIs DEF Tabled, Indices
<1>6. Answered' /\ NamedOnce'
  BY <1>2, CacheKept
<1>7. Position'
  BY <1>2, <1>3 DEF Position
<1>8. Spent'
  <2>1. WordsOf(heap) \in [1..Len(heap) -> Nat] /\ BytesOf(heap) \in [1..Len(heap) -> Nat]
    BY SumsOf
  <2>2. Len(heap) \in Nat
    BY HeapIs
  <2>3. Sums(WordsOf(heap))[0] = 0 /\ Sums(BytesOf(heap))[0] = 0
    BY <2>1, <2>2, SumsAre
  <2>4. Behind' = 0
    BY <1>2, <1>3 DEF Behind
  <2> QED
    BY <1>2, <1>3, <2>3, <2>4 DEF Spent
<1>9. NoOverrun'
  BY <1>2 DEF NoOverrun
<1>10. Recorded'
  <2>1. Behind' = 0
    BY <1>2, <1>3 DEF Behind
  <2>2. Now'.h = heap
    BY <1>2 DEF Now
  <2>3. \A a \in Imaged(heap) : ~(a <= 0)
    BY <1>1, RanksDiffer
  <2>4. WrittenTo(Now', <<>>, 0)
    BY <1>1, <2>2, <2>3, Ranks, EmptyList DEF WrittenTo
  <2> QED
    BY <1>2, <1>3, <2>1, <2>4 DEF Recorded
<1>11. Rebuilt' /\ Loaded' /\ RefusedForCause'
  BY <1>2, <1>3 DEF Rebuilt, Loaded, RefusedForCause
<1> QED
  BY <1>4, <1>5, <1>6, <1>7, <1>8, <1>9, <1>10, <1>11

(* Nothing imaged lies between the last object reached and the next.         *)
LEMMA NextIs ==
    ASSUME Frame, Remaining # {}
    PROVE  /\ NextAt \in Imaged(heap) /\ NextAt \in 1..Len(heap) /\ NextAt > at
           /\ \A b \in Imaged(heap) : b <= NextAt - 1 => ~(b > at)
<1>1. Imaged(heap) \subseteq 1..Len(heap) /\ Len(heap) \in Nat
  BY HeapIs
<1>2. Remaining \subseteq Nat /\ Remaining \subseteq Imaged(heap)
  BY <1>1 DEF Remaining
<1>3. \E a \in Remaining : \A b \in Remaining : a <= b
  BY <1>2, Least
<1>4. NextAt \in Remaining /\ \A b \in Remaining : NextAt <= b
  BY <1>3 DEF NextAt
<1>5. NextAt \in Imaged(heap) /\ NextAt > at
  BY <1>4 DEF Remaining
<1>6. NextAt \in 1..Len(heap)
  BY <1>1, <1>5
<1>7. ASSUME NEW b \in Imaged(heap), b <= NextAt - 1, b > at PROVE FALSE
  <2>1. b \in Remaining /\ b \in Nat
    BY <1>1, <1>7 DEF Remaining
  <2> QED
    BY <1>4, <1>6, <1>7, <2>1
<1> QED
  BY <1>5, <1>6, <1>7

(* The words and characters spent when the next object is come to.           *)
LEMMA SpentBefore ==
    ASSUME Inv, phase = "emit", rec = NoRec, Remaining # {}
    PROVE  /\ room[1] = Sums(WordsOf(heap))[NextAt - 1]
           /\ room[2] = Sums(BytesOf(heap))[NextAt - 1]
           /\ RankIn(heap, at) = RankIn(heap, NextAt - 1)
           /\ Sum(WordsOf(heap)) \in Nat
           /\ Sum(WordsOf(heap)) >= room[1] + RecordWords(Len(Saved(NextAt)))
<1> USE DEF Inv
<1> DEFINE m == Len(heap)
           f == WordsOf(heap)
           g == BytesOf(heap)
           p == NextAt - 1
<1>1. IsSequence(heap) /\ m \in Nat /\ Imaged(heap) \subseteq 1..m /\ at \in {0} \cup Imaged(heap)
  BY HeapIs DEF Position
<1>2. /\ NextAt \in Imaged(heap) /\ NextAt \in 1..m /\ NextAt > at
      /\ \A b \in Imaged(heap) : b <= p => ~(b > at)
  BY NextIs
<1>3. /\ f \in [1..m -> Nat] /\ g \in [1..m -> Nat] /\ f[NextAt] = RecordWords(Len(Saved(NextAt)))
      /\ \A a \in 1..m \ Imaged(heap) : f[a] = 0 /\ g[a] = 0
  BY <1>2, SumsOf
<1>4. room[1] = Sums(f)[at] /\ room[2] = Sums(g)[at]
  <2>1. Behind = at
    BY DEF Behind
  <2>2. room[1] = Sums(f)[at] /\ room[2] = Sums(g)[at] + 0
    BY <2>1 DEF Spent
  <2>3. at \in 0..m
    BY <1>1
  <2>4. Sums(g)[at] \in Nat
    <3> HIDE DEF g, m
    <3> QED
      BY <1>1, <1>3, <2>3, SumsAre
  <2> QED
    BY <2>2, <2>4
<1> HIDE DEF f, g, m, p
<1>5. at \in 0..m /\ p \in 0..m /\ at <= p /\ NextAt \in 0..m /\ NextAt - 1 = p /\ m \in 0..m
      /\ NextAt <= m /\ at \in Nat /\ p \in Nat
  <2>1. at \in 0..m
    BY <1>1
  <2> QED
    BY <1>1, <1>2, <2>1 DEF p
<1>6. \A i \in 1..m : at < i /\ i <= p => f[i] = 0 /\ g[i] = 0
  <2> SUFFICES ASSUME NEW i \in 1..m, at < i, i <= p PROVE f[i] = 0 /\ g[i] = 0
    OBVIOUS
  <2>1. i > at
    BY <1>5
  <2>2. i \notin Imaged(heap)
    BY <1>2, <2>1 DEF p
  <2> QED
    BY <1>3, <2>2
<1>7. Sums(f)[at] = Sums(f)[p] /\ Sums(g)[at] = Sums(g)[p]
  <2>1. Sums(f)[at] = Sums(f)[p]
    BY <1>1, <1>3, <1>5, <1>6, SumsGrow
  <2>2. Sums(g)[at] = Sums(g)[p]
    BY <1>1, <1>3, <1>5, <1>6, SumsGrow
  <2> QED
    BY <2>1, <2>2
<1>8. RankIn(heap, at) = RankIn(heap, p)
  <2>1. \A b \in Imaged(heap) : b <= at \/ b > p
    <3> SUFFICES ASSUME NEW b \in Imaged(heap), ~(b <= at), ~(b > p) PROVE FALSE
      OBVIOUS
    <3>1. b \in Nat
      BY <1>1
    <3>2. b > at /\ b <= p
      BY <1>5, <3>1
    <3> QED
      BY <1>2, <3>2 DEF p
  <2> QED
    BY <1>1, <1>5, <2>1, RanksGrow
<1>9. /\ Sum(f) = Sums(f)[m] /\ Sums(f)[NextAt] = Sums(f)[p] + f[NextAt]
      /\ Sums(f)[p] \in Nat /\ Sums(f)[m] \in Nat /\ Sums(f)[NextAt] \in Nat
  <2>1. /\ Sum(f) = Sums(f)[m]
        /\ \A k \in 1..m : Sums(f)[k] = Sums(f)[k - 1] + f[k]
        /\ \A k \in 0..m : Sums(f)[k] \in Nat
    BY <1>1, <1>3, SumsAre
  <2> QED
    BY <1>2, <1>5, <2>1
<1>10. Sums(f)[NextAt] <= Sums(f)[m]
  BY <1>1, <1>3, <1>5, SumsGrow
<1>11. Sums(f)[m] >= room[1] + RecordWords(Len(Saved(NextAt)))
  BY <1>3, <1>4, <1>7, <1>9, <1>10
<1> QED
  BY <1>4, <1>7, <1>8, <1>9, <1>11 DEF f, g, p

(* Beginning an object, or refusing for want of room, keeps it.              *)
LEMMA ObjectKeeps ==
    ASSUME Inv, EmitObject
    PROVE  Inv'
<1> USE DEF Inv
<1> DEFINE o == heap[NextAt]
           saved == Saved(NextAt)
<1>1. /\ phase = "emit" /\ pending = <<>> /\ rec = NoRec /\ Remaining # {}
      /\ UNCHANGED <<heap, caps, index, table, room, blob, ix>>
      /\ UNCHANGED <<cache, sent, externs, asked>>
  BY DEF EmitObject, written
<1>2. /\ WellFormed(heap) /\ IsSequence(heap) /\ Len(heap) \in Nat /\ DOMAIN heap = 1..Len(heap)
      /\ caps[1] \in Nat /\ room[1] \in Nat /\ room[2] \in Nat
  BY HeapIs
<1>3. /\ NextAt \in Imaged(heap) /\ NextAt \in 1..Len(heap) /\ NextAt > at
      /\ \A b \in Imaged(heap) : b <= NextAt - 1 => ~(b > at)
  BY <1>1, NextIs
<1>4. /\ room[1] = Sums(WordsOf(heap))[NextAt - 1]
      /\ room[2] = Sums(BytesOf(heap))[NextAt - 1]
      /\ RankIn(heap, at) = RankIn(heap, NextAt - 1)
      /\ Sum(WordsOf(heap)) \in Nat
      /\ Sum(WordsOf(heap)) >= room[1] + RecordWords(Len(saved))
  BY <1>1, SpentBefore
<1>5. /\ IsSequence(saved) /\ Len(saved) \in Nat
  BY <1>2, <1>3, SavedIs DEF Saved
<1>6. /\ o.role \in {"nil", "pair", "atom", "other", "struct"}
      /\ o.role = "struct" => o.of \in DOMAIN heap
  BY <1>2, <1>3 DEF WellFormed
<1>7. o.role = "struct" =>
          IndexOf(o.of) = IF o.of \in Imaged(heap) THEN RankIn(heap, o.of) ELSE 0
  <2> SUFFICES ASSUME o.role = "struct"
               PROVE  IndexOf(o.of) = IF o.of \in Imaged(heap) THEN RankIn(heap, o.of) ELSE 0
    OBVIOUS
  <2>1. <<"obj", o.of>> \in DOMAIN Address
    BY <1>2, <1>6 DEF WellFormed
  <2>2. \A w \in DOMAIN Address : Get(index, Address[w]) =
            IF w[1] = "obj" /\ w[2] \in Imaged(heap) THEN RankIn(heap, w[2]) ELSE 0
    BY <1>1 DEF Indices
  <2> HIDE DEF o
  <2> QED
    BY <2>1, <2>2 DEF IndexOf
<1>8. Tabled' /\ Answered' /\ NamedOnce'
  BY <1>1, CacheKept DEF Tabled
<1>9. CASE TableFull(Len(saved)) \/ TypeMissing(o)
  <2>1. phase' = "raised" /\ UNCHANGED <<at, pending, rec>>
    BY <1>1, <1>9 DEF EmitObject, Saved
  <2>2. \/ \E a \in Imaged(heap) : heap[a].role = "struct" /\ heap[a].of \notin Imaged(heap)
        \/ Sum(WordsOf(heap)) > caps[1]
    <3>1. CASE TableFull(Len(saved))
      <4>1. room[1] + RecordWords(Len(saved)) > caps[1] /\ RecordWords(Len(saved)) \in Nat
        BY <1>5, <3>1 DEF TableFull, RecordWords
      <4> QED
        BY <1>2, <1>4, <4>1
    <3>2. CASE TypeMissing(o)
      <4>1. o.role = "struct" /\ IndexOf(o.of) = 0
        BY <3>2 DEF TypeMissing
      <4>2. ASSUME o.of \in Imaged(heap) PROVE FALSE
        <5>1. RankIn(heap, o.of) \in 1..RankIn(heap, Len(heap)) /\ RankIn(heap, Len(heap)) \in Nat
          BY <1>2, <4>2, RanksDiffer, Ranks
        <5> QED
          BY <1>7, <4>1, <4>2, <5>1
      <4> QED
        BY <1>3, <4>1, <4>2
    <3> QED
      BY <1>9, <3>1, <3>2
  <2>3. Frame' /\ Indices' /\ NoOverrun'
    BY <1>1, <2>1 DEF Frame, Indices, NoOverrun
  <2>4. Position' /\ Spent' /\ Recorded' /\ Rebuilt' /\ Loaded'
    BY <1>1, <2>1 DEF Position, Spent, Recorded, Rebuilt, Loaded
  <2>5. RefusedForCause'
    BY <1>1, <2>2 DEF RefusedForCause
  <2> QED
    BY <1>8, <2>3, <2>4, <2>5
<1>10. CASE ~(TableFull(Len(saved)) \/ TypeMissing(o))
  <2>1. /\ phase' = "emit" /\ at' = NextAt /\ pending' = saved
        /\ rec' = [type |-> TypeWord(o), attr |-> o.attr, units |-> <<>>]
    BY <1>1, <1>10 DEF EmitObject, Saved
  <2>2. o.role = "struct" => o.of \in Imaged(heap) /\ TypeWord(o) # 0
    BY <1>7, <1>10 DEF TypeMissing, TypeWord
  <2>3. o.role # "struct" => TypeWord(o) # 0
    BY <1>6 DEF TypeWord
  <2>4. rec' # NoRec /\ rec'.units = <<>> /\ Units' = 0
    BY <2>1, <2>2, <2>3, EmptyList DEF NoRec, Units
  <2>5. Saved(at)' = saved
    BY <1>1, <2>1 DEF Saved
  <2>6. Frame' /\ Indices'
    BY <1>1, <2>1 DEF Frame, Indices
  <2>7. Position'
    <3>1. Units' + Len(pending') = Len(saved)
      BY <1>5, <2>1, <2>4
    <3>2. \A i \in 1..Len(pending') : pending'[i] = saved[Units' + i]
      BY <1>5, <2>1, <2>4
    <3>3. at' # 0 /\ at' \in {0} \cup Imaged(heap')
      BY <1>1, <1>3, <2>1
    <3> HIDE DEF saved
    <3> QED
      BY <1>5, <2>1, <2>4, <2>5, <3>1, <3>2, <3>3 DEF Position
  <2>8. Spent'
    <3>1. BytesIn(heap, NextAt) \in [1..Len(saved) -> Nat]
      BY <1>3, SumsOf
    <3>2. Sums(BytesIn(heap, NextAt))[0] = 0
      BY <1>5, <3>1, SumsAre
    <3>3. Behind' = NextAt - 1
      BY <2>1, <2>4 DEF Behind
    <3>4. Sums(BytesIn(heap', at'))[Units'] = 0
      BY <1>1, <2>1, <2>4, <3>2
    <3>5. room[2] = room[2] + 0
      BY <1>2
    <3> QED
      BY <1>1, <1>4, <2>1, <2>4, <3>3, <3>4, <3>5 DEF Spent
  <2>9. NoOverrun'
    <3>1. room[1] + RecordWords(Len(saved)) <= caps[1]
      <4>1. RecordWords(Len(saved)) \in Nat
        BY <1>5 DEF RecordWords
      <4> QED
        BY <1>2, <1>10, <4>1 DEF TableFull
    <3>2. Len(rec'.units) + Len(pending') = Len(saved)
      BY <1>5, <2>1, <2>4, EmptyList
    <3> QED
      BY <1>1, <2>4, <3>1, <3>2 DEF NoOverrun
  <2>10. Recorded'
    <3>1. Behind' = NextAt - 1
      BY <2>1, <2>4 DEF Behind
    <3>2. Now' = Now /\ Now.h = heap /\ Now.t = index
      BY <1>1 DEF Now
    <3>3. WrittenTo(Now, table, at)
      BY <1>1 DEF Recorded, Behind
    <3>4. WrittenTo(Now, table, NextAt - 1)
      <4>1. ASSUME NEW b \in Imaged(heap), b <= NextAt - 1 PROVE b <= at
        <5>1. b \in Nat /\ at \in Nat
          BY <1>1, <1>2, <4>1, HeapIs DEF Position
        <5> QED
          BY <1>3, <4>1, <5>1
      <4> QED
        BY <1>4, <3>2, <3>3, <4>1 DEF WrittenTo
    <3>5. Writing(Now, NextAt, rec')
      <4>1. TypeWord(o) = TypeFor(Now, o)
        BY <3>2 DEF TypeWord, TypeFor, IndexOf, At
      <4>2. Len(rec'.units) = 0 /\ IsSequence(rec'.units)
        BY <2>4, EmptyList
      <4>3. rec' = [type |-> TypeFor(Now, heap[NextAt]), attr |-> heap[NextAt].attr,
                    units |-> rec'.units]
        BY <2>1, <4>1
      <4>4. \A i \in 1..Len(rec'.units) : FALSE
        BY <4>2
      <4>5. Len(rec'.units) <= Len(Save(heap, heap[NextAt]))
        BY <1>5, <4>2 DEF Saved
      <4> QED
        BY <2>2, <3>2, <4>2, <4>3, <4>4, <4>5 DEF Writing
    <3> QED
      BY <1>1, <2>1, <3>1, <3>2, <3>4, <3>5 DEF Recorded
  <2>11. Rebuilt' /\ Loaded' /\ RefusedForCause'
    BY <1>1, <2>1 DEF Rebuilt, Loaded, RefusedForCause
  <2> QED
    BY <1>8, <2>6, <2>7, <2>8, <2>9, <2>10, <2>11
<1> QED
  BY <1>9, <1>10

(* Ending an object, and with the last one the emit pass, keeps it.          *)
LEMMA EndKeeps ==
    ASSUME Inv, EmitEnd
    PROVE  Inv'
<1> USE DEF Inv
<1>1. /\ phase = "emit" /\ pending = <<>> /\ rec # NoRec
      /\ table' = Append(table, rec) /\ rec' = NoRec
      /\ room' = [room EXCEPT ![1] = @ + RecordWords(Units)]
      /\ UNCHANGED <<phase, heap, caps, index, at, pending, blob, ix>>
      /\ UNCHANGED <<cache, sent, externs, asked>>
  BY DEF EmitEnd, Units
<1>2. /\ WellFormed(heap) /\ IsSequence(heap) /\ Len(heap) \in Nat
      /\ Imaged(heap) \subseteq 1..Len(heap)
      /\ room = <<room[1], room[2]>> /\ room[1] \in Nat /\ room[2] \in Nat
  BY HeapIs
<1>3. at \in Imaged(heap) /\ Units + Len(pending) = Len(Saved(at)) /\ at \in 1..Len(heap)
  <2>1. at \in Imaged(heap) /\ Units + Len(pending) = Len(Saved(at))
    BY <1>1 DEF Position
  <2> QED
    BY <1>2, <2>1
<1>4. Writing(Now, at, rec) /\ WrittenTo(Now, table, at - 1) /\ Now' = Now /\ Now.h = heap
  BY <1>1 DEF Recorded, Now, Behind
<1>5. Units \in Nat /\ Units = Len(Saved(at))
  <2>1. IsSequence(rec.units)
    BY <1>4 DEF Writing
  <2>2. Units \in Nat
    BY <2>1, Sequence DEF Units
  <2> QED
    BY <1>1, <1>3, <2>2, EmptyList
<1>6. RecordWords(Units) \in Nat /\ room' = <<room[1] + RecordWords(Units), room[2]>>
  BY <1>1, <1>2, <1>5 DEF RecordWords
<1>7. IsSequence(table) /\ Len(table) \in Nat
  BY Sequence DEF Frame
<1>8. /\ IsSequence(table') /\ Len(table') = Len(table) + 1
      /\ \A i \in 1..Len(table) : table'[i] = table[i]
      /\ table'[Len(table) + 1] = rec
  BY <1>1, <1>7, Extended
<1>9. Frame'
  <2>1. room' \in Nat \X Nat
    BY <1>2, <1>6
  <2> QED
    BY <1>1, <1>8, <2>1 DEF Frame
<1>10. Tabled' /\ Indices' /\ Answered' /\ NamedOnce'
  BY <1>1, CacheKept DEF Tabled, Indices
<1>11. Position'
  BY <1>1 DEF Position
<1>12. Spent'
  <2> DEFINE m == Len(heap)
             n == Len(Saved(at))
             f == WordsOf(heap)
             g == BytesOf(heap)
             b == BytesIn(heap, at)
  <2>1. /\ f \in [1..m -> Nat] /\ g \in [1..m -> Nat] /\ b \in [1..n -> Nat]
        /\ f[at] = RecordWords(n) /\ g[at] = Sum(b)
    BY <1>3, SumsOf
  <2>2. n \in Nat /\ n = Units
    BY <1>5
  <2>3. room[1] = Sums(f)[at - 1] /\ room[2] = Sums(g)[at - 1] + Sums(b)[n]
    BY <1>1, <2>2 DEF Spent, Behind
  <2> HIDE DEF m, n, f, g, b
  <2>4. Sums(f)[at] = Sums(f)[at - 1] + f[at] /\ Sums(g)[at] = Sums(g)[at - 1] + g[at]
    <3>1. at \in 1..m /\ m \in Nat
      BY <1>2, <1>3 DEF m
    <3>2. \A k \in 1..m : Sums(f)[k] = Sums(f)[k - 1] + f[k]
      BY <2>1, <3>1, SumsAre
    <3>3. \A k \in 1..m : Sums(g)[k] = Sums(g)[k - 1] + g[k]
      BY <2>1, <3>1, SumsAre
    <3> QED
      BY <3>1, <3>2, <3>3
  <2>5. Sum(b) = Sums(b)[n] /\ Sums(g)[at] \in Nat
    <3>1. at \in 0..m /\ m \in Nat
      BY <1>2, <1>3 DEF m
    <3> QED
      BY <2>1, <2>2, <3>1, SumsAre
  <2>6. room'[1] = Sums(f)[at] /\ room'[2] = Sums(g)[at] + 0
    BY <1>6, <2>1, <2>2, <2>3, <2>4, <2>5
  <2>7. Behind' = at
    BY <1>1 DEF Behind
  <2> QED
    BY <1>1, <2>6, <2>7 DEF Spent, f, g
<1>13. NoOverrun'
  <2>1. Units + Len(pending) = Units
    BY <1>1, <1>5, EmptyList
  <2>2. room[1] + RecordWords(Units) <= caps[1] /\ room[2] <= caps[2]
    BY <1>1, <2>1 DEF NoOverrun, Units
  <2>3. caps[1] \in Nat /\ caps[2] \in Nat
    BY HeapIs
  <2> QED
    BY <1>1, <1>2, <1>6, <2>2, <2>3 DEF NoOverrun
<1>14. Recorded'
  <2>1. Grown(Now, Now)
    <3>1. blob \in Seq(Nat) /\ Len(blob) \in Nat
      BY DEF Frame
    <3> QED
      BY <1>2, <3>1 DEF Grown, Now
  <2>2. Len(table) = RankIn(heap, at - 1) /\ RankIn(heap, at) = RankIn(heap, at - 1) + 1
    BY <1>2, <1>3, <1>4, RanksDiffer DEF WrittenTo
  <2>3. Len(table') = RankIn(heap, at)
    BY <1>8, <2>2
  <2>4. ASSUME NEW a \in Imaged(heap), a <= at PROVE Written(Now, a, table'[RankIn(heap, a)])
    <3>1. a \in Nat /\ at \in Nat
      BY <1>2, <1>3
    <3>2. CASE a = at
      <4>1. table'[RankIn(heap, a)] = rec
        BY <1>8, <2>2, <3>2
      <4> QED
        BY <1>4, <1>5, <3>2, <4>1 DEF Written, Saved, Units
    <3>3. CASE a <= at - 1
      <4>1. at - 1 \in 0..Len(heap)
        BY <1>2, <1>3
      <4> QED
        BY <1>4, <1>8, <2>1, <3>3, <4>1, WrittenStays
    <3> QED
      BY <2>4, <3>1, <3>2, <3>3
  <2>5. WrittenTo(Now, table', at)
    BY <1>4, <2>3, <2>4 DEF WrittenTo
  <2>6. Behind' = at
    BY <1>1 DEF Behind
  <2> QED
    BY <1>1, <1>4, <2>5, <2>6 DEF Recorded
<1>15. Rebuilt' /\ Loaded' /\ RefusedForCause'
  BY <1>1 DEF Rebuilt, Loaded, RefusedForCause
<1> QED
  BY <1>9, <1>10, <1>11, <1>12, <1>13, <1>14, <1>15

(* Beginning to rebuild keeps it.                                            *)
LEMMA StartKeeps ==
    ASSUME Inv, StartRebuild
    PROVE  Inv'
<1> USE DEF Inv
<1>1. /\ phase = "emit" /\ pending = <<>> /\ rec = NoRec /\ Remaining = {}
      /\ phase' = "alloc" /\ at' = 0
      /\ UNCHANGED <<heap, caps, index, table, room, blob, pending, rec, ix>>
      /\ UNCHANGED <<cache, sent, externs, asked>>
  BY DEF StartRebuild, written
<1>2. IsSequence(heap) /\ Len(heap) \in Nat /\ Imaged(heap) \subseteq 1..Len(heap)
  BY HeapIs
<1>3. Frame' /\ Tabled' /\ Indices' /\ Answered' /\ NamedOnce' /\ NoOverrun'
  BY <1>1, CacheKept DEF Frame, Tabled, Indices, NoOverrun
<1>4. Position' /\ Spent' /\ Loaded' /\ RefusedForCause'
  BY <1>1 DEF Position, Spent, Loaded, RefusedForCause
<1>5. Recorded'
  <2>1. Now' = Now /\ Now.h = heap
    BY <1>1 DEF Now
  <2>2. WrittenTo(Now, table, at) /\ at \in {0} \cup Imaged(heap)
    BY <1>1 DEF Recorded, Position, Behind
  <2>3. \A b \in Imaged(heap) : b <= at
    <3> SUFFICES ASSUME NEW b \in Imaged(heap) PROVE b <= at
      OBVIOUS
    <3>1. ~(b > at)
      BY <1>1 DEF Remaining
    <3>2. b \in Nat /\ at \in Nat
      BY <1>2, <2>2
    <3> QED
      BY <3>1, <3>2
  <2>4. RankIn(heap, at) = RankIn(heap, Len(heap))
    <3>1. at \in Nat /\ at <= Len(heap)
      BY <1>2, <2>2
    <3> QED
      BY <1>2, <2>3, <3>1, RanksGrow
  <2>5. WrittenTo(Now, table, Len(heap))
    BY <2>1, <2>2, <2>3, <2>4 DEF WrittenTo
  <2> QED
    BY <1>1, <2>1, <2>5 DEF Recorded
<1>6. Rebuilt'
  <2>1. ix' = <<>> /\ Len(table) \in Nat /\ table' = table
    BY <1>1, Sequence DEF Rebuilt, Frame
  <2> QED
    BY <1>1, <2>1, EmptyList DEF Rebuilt
<1> QED
  BY <1>3, <1>4, <1>5, <1>6

-----------------------------------------------------------------------------
(* Rebuilding.                                                               *)

(* What rebuilding leaves alone.                                             *)
LEMMA WrittenStands ==
    ASSUME Inv, phase \in {"alloc", "patch", "load", "done"},
           phase' \in {"alloc", "patch", "load", "done"},
           UNCHANGED <<written, pending, rec>>
    PROVE  /\ Frame' /\ Tabled' /\ Answered' /\ NamedOnce' /\ Indices' /\ Position'
           /\ Spent' /\ NoOverrun' /\ Recorded' /\ RefusedForCause'
<1>1. /\ UNCHANGED <<heap, caps, index, table, room, blob, pending, rec>>
      /\ UNCHANGED <<cache, sent, externs, asked>>
  BY DEF written
<1>2. Frame' /\ Tabled' /\ Indices' /\ NoOverrun'
  BY <1>1 DEF Inv, Frame, Tabled, Indices, NoOverrun
<1>3. Answered' /\ NamedOnce'
  BY <1>1, CacheKept
<1>4. Position' /\ Spent' /\ RefusedForCause'
  BY DEF Position, Spent, RefusedForCause
<1>5. Recorded'
  <2>1. WrittenTo(Now, table, Len(heap))
    BY DEF Inv, Recorded
  <2>2. Now' = Now
    BY <1>1 DEF Now
  <2> QED
    BY <1>1, <2>1, <2>2 DEF Recorded
<1> QED
  BY <1>2, <1>3, <1>4, <1>5

(* The alloc pass keeps it.                                                  *)
LEMMA AllocKeeps ==
    ASSUME Inv, AllocPass
    PROVE  Inv'
<1>1. phase = "alloc" /\ UNCHANGED <<written, pending, rec>> /\ table' = table
  BY DEF AllocPass, written
<1>2. /\ at \in 0..Len(table) /\ IsSequence(ix) /\ Len(ix) = at
      /\ \A k \in 1..at : ix[k] = Fresh(table[k])
  BY <1>1 DEF Inv, Rebuilt
<1>3. Len(table) \in Nat
  BY Sequence DEF Inv, Frame
<1>4. CASE at < Len(table)
  <2>1. phase' = "alloc" /\ at' = at + 1 /\ ix' = Append(ix, Fresh(table[at + 1]))
    BY <1>1, <1>4 DEF AllocPass, Fresh
  <2>2. /\ IsSequence(ix') /\ Len(ix') = at + 1
        /\ \A i \in 1..at : ix'[i] = ix[i]
        /\ ix'[at + 1] = Fresh(table[at + 1])
    BY <1>2, <2>1, Extended
  <2>3. \A k \in 1..at + 1 : ix'[k] = Fresh(table[k])
    <3>1. \A k \in 1..at + 1 : k \in 1..at \/ k = at + 1
      BY <1>2
    <3> QED
      BY <1>2, <2>2, <3>1
  <2>4. at' \in 0..Len(table')
    BY <1>1, <1>2, <1>3, <1>4, <2>1
  <2>5. Rebuilt'
    <3>1. \A k \in 1..at' : ix'[k] = Fresh(table'[k])
      BY <1>1, <2>1, <2>3
    <3>2. \A r : Fresh(r)' = Fresh(r)
      BY DEF Fresh
    <3> QED
      BY <2>1, <2>2, <2>4, <3>1, <3>2 DEF Rebuilt, Fresh
  <2>6. Loaded'
    BY <2>1 DEF Loaded
  <2> QED
    BY <1>1, <2>1, <2>5, <2>6, WrittenStands DEF Inv
<1>5. CASE ~(at < Len(table))
  <2>1. phase' = "patch" /\ at' = 0 /\ ix' = ix
    BY <1>1, <1>5 DEF AllocPass
  <2>2. at = Len(table)
    BY <1>2, <1>3, <1>5
  <2>3. Rebuilt'
    <3>1. \A k \in 1..Len(table) : ~(k <= 0)
      BY <1>3
    <3>2. at' \in 0..Len(table') /\ IsSequence(ix') /\ Len(ix') = Len(table')
      BY <1>1, <1>2, <1>3, <2>1, <2>2
    <3>3. \A k \in 1..Len(table') : \A r :
              r = table'[k] => ix'[k] = IF k <= at' THEN Filled(r)' ELSE Fresh(r)
      BY <1>1, <1>2, <2>1, <2>2, <3>1
    <3> QED
      BY <2>1, <3>2, <3>3 DEF Rebuilt, Fresh
  <2>4. Loaded'
    BY <2>1 DEF Loaded
  <2> QED
    BY <1>1, <2>1, <2>3, <2>4, WrittenStands DEF Inv
<1> QED
  BY <1>4, <1>5

(* A patched record.                                                         *)
LEMMA FilledIs ==
    ASSUME NEW r
    PROVE  Filled(r) =
               [role |-> IF r.type > 0 THEN "struct" ELSE RoleOf(r.type),
                of |-> IF r.type > 0 THEN r.type ELSE 0,
                own |-> FALSE, attr |-> r.attr, flagged |-> FALSE,
                units |-> [i \in 1..Len(r.units) |-> Patched(r.units[i])]]
<1> DEFINE us == [i \in 1..Len(r.units) |-> Patched(r.units[i])]
           f == Fresh(r)
<1>1. Filled(r) = [Typed(f, r) EXCEPT !.units = us]
  BY DEF Filled
<1> HIDE DEF us
<1>2. CASE r.type > 0
  <2>1. Typed(f, r) = [role |-> "struct", of |-> r.type, own |-> FALSE, attr |-> r.attr,
                       flagged |-> FALSE, units |-> f.units]
    BY <1>2 DEF Typed, Fresh
  <2> HIDE DEF f
  <2>2. Filled(r) = [role |-> "struct", of |-> r.type, own |-> FALSE, attr |-> r.attr,
                     flagged |-> FALSE, units |-> us]
    <3>1. PICK t : t = Typed(f, r)
      OBVIOUS
    <3>2. Filled(r) = [t EXCEPT !.units = us]
      BY <1>1, <3>1
    <3>3. t = [role |-> "struct", of |-> r.type, own |-> FALSE, attr |-> r.attr,
               flagged |-> FALSE, units |-> f.units]
      BY <2>1, <3>1
    <3> QED
      BY <3>2, <3>3
  <2> QED
    BY <1>2, <2>2 DEF us
<1>3. CASE ~(r.type > 0)
  <2>1. Typed(f, r) = [role |-> RoleOf(r.type), of |-> 0, own |-> FALSE, attr |-> r.attr,
                       flagged |-> FALSE, units |-> f.units]
    BY <1>3 DEF Typed, Fresh
  <2> HIDE DEF f
  <2>2. Filled(r) = [role |-> RoleOf(r.type), of |-> 0, own |-> FALSE, attr |-> r.attr,
                     flagged |-> FALSE, units |-> us]
    <3>1. PICK t : t = Typed(f, r)
      OBVIOUS
    <3>2. Filled(r) = [t EXCEPT !.units = us]
      BY <1>1, <3>1
    <3>3. t = [role |-> RoleOf(r.type), of |-> 0, own |-> FALSE, attr |-> r.attr,
               flagged |-> FALSE, units |-> f.units]
      BY <2>1, <3>1
    <3> QED
      BY <3>2, <3>3
  <2> QED
    BY <1>3, <2>2 DEF us
<1> QED
  BY <1>2, <1>3

(* What is saved as foreign leads out of the chain.                          *)
LEMMA ForeignIsOut ==
    ASSUME WellFormed(heap), NEW w, SavedAs("foreign", w)
    PROVE  w = Null \/ w[1] = "out"
<1>1. PICK a \in Imaged(heap) : \E i \in DOMAIN Saved(a) :
          Saved(a)[i][1] = "foreign" /\ Saved(a)[i][2] = w
  BY DEF SavedAs, Saved
<1>2. PICK i \in DOMAIN Saved(a) : Saved(a)[i][1] = "foreign" /\ Saved(a)[i][2] = w
  BY <1>1
<1>3. Fits(Saved(a)[i])
  BY DEF WellFormed, Saved
<1> QED
  BY <1>2, <1>3 DEF Fits

(* A unit that was written as it should be is patched to what stands for the *)
(* word that was saved, or is miscast.                                       *)
LEMMA PatchedIs ==
    ASSUME Inv, phase # "count", NEW s, NEW u, Fits(s), Writes(Now, s, u), SavedAs(s[1], s[2])
    PROVE  IF Misnamed(s[1], s[2]) THEN Patched(u) = Miscast(s[1], s[2])
           ELSE \/ Patched(u) = Stands(s[2])
                \/ s[2] = Null /\ Patched(u) = <<"text", 0>>
<1> USE DEF Inv
<1> DEFINE w == s[2]
           C == Get(cache, Address[w])
           I == Get(index, Address[w])
<1>1. IsSequence(heap) /\ externs \in Seq(External) /\ Sound(cache)
  BY HeapIs DEF Answered, Tabled
<1>2. Len(externs) \in Nat /\ DOMAIN externs = 1..Len(externs)
      /\ \A k \in 1..Len(externs) :
             /\ externs[k].word \in DOMAIN Address /\ externs[k].as \in {"ref", "foreign"}
             /\ externs[k].word[1] \in {"obj", "out"}
  <2>1. Len(externs) \in Nat /\ DOMAIN externs = 1..Len(externs)
        /\ \A k \in 1..Len(externs) : externs[k] \in External
    BY <1>1
  <2>2. \A e \in External : e.word \in DOMAIN Address /\ e.as \in {"ref", "foreign"}
    BY DEF External
  <2> QED
    BY <2>1, <2>2, AddressesAssumption
<1>3. ExternObj(0) = Null /\ ExternInt(0) = Null
  BY <1>2 DEF ExternObj, ExternInt
<1>0. ASSUME Misnamed(s[1], w)
      PROVE  /\ w[1] = "out"
             /\ \E k \in 1..Len(externs) : externs[k].word = w /\ externs[k].as # s[1]
  <2>1. PICK k \in 1..Len(externs) : externs[k].word = w /\ externs[k].as # s[1]
    BY <1>0, <1>2 DEF Misnamed
  <2>2. w[1] \in {"obj", "out"} /\ SavedAs("foreign", w)
    BY <1>0, <1>2, <2>1 DEF Misnamed
  <2>3. w = Null \/ w[1] = "out"
    BY <2>2, HeapIs, ForeignIsOut
  <2> QED
    BY <2>1, <2>2, <2>3 DEF Null
<1>4. CASE s[1] = "word"
  <2>1. u[1] = "word" /\ u[2] = w /\ w[1] = "num"
    BY <1>4 DEF Writes, Fits
  <2>2. Patched(u) = w
    BY <2>1 DEF Patched
  <2>3. Stands(w) = w /\ ~Misnamed(s[1], w)
    BY <1>0, <2>1 DEF Stands
  <2> QED
    BY <2>2, <2>3
<1>5. CASE s[1] = "bytes"
  <2>1. PICK n \in 0..Len(blob)-1 : u[2] = <<"num", n>> /\ blob[n + 1] = BytesLen(w)
    BY <1>5 DEF Writes, Now
  <2>2. u[1] = "bytes"
    BY <1>5 DEF Writes
  <2>3. Patched(u) = <<"text", BytesLen(w)>>
    BY <2>1, <2>2 DEF Patched
  <2>4. CASE w = Null
    <3>1. ~Misnamed(s[1], w)
      BY <1>0, <2>4 DEF Null
    <3> QED
      BY <2>3, <2>4, <3>1 DEF BytesLen
  <2>5. CASE w # Null
    <3>1. w = <<"text", w[2]>> /\ BytesLen(w) = w[2]
      BY <1>5, <2>5 DEF Fits, BytesLen
    <3>2. w[1] = "text"
      BY <3>1
    <3>3. Stands(w) = w /\ ~Misnamed(s[1], w)
      BY <1>0, <3>2 DEF Stands
    <3> QED
      BY <2>3, <3>1, <3>3
  <2> QED
    BY <2>4, <2>5
<1>6. CASE s[1] \in {"ref", "foreign"} /\ w = Null
  <2>1. u[1] = s[1] /\ u[2] = Null
    BY <1>6 DEF Writes
  <2>2. u[2][2] = 0
    BY <2>1 DEF Null
  <2>3. Patched(u) = Null
    <3>1. Patched(u) = IF u[1] = "ref"
                       THEN (IF u[2][2] > 0 THEN <<"obj", u[2][2]>> ELSE ExternObj(-u[2][2]))
                       ELSE ExternInt(u[2][2])
      BY <1>6, <2>1 DEF Patched
    <3>2. PICK z \in Int : z = u[2][2] /\ z = 0
      BY <2>2
    <3>3. \A y \in Int : -y = 0 - y
      OBVIOUS
    <3>4. ~(z > 0) /\ 0 - z = 0
      BY <3>2
    <3>5. -z = 0
      BY <3>2, <3>3, <3>4
    <3>6. ~(u[2][2] > 0) /\ -u[2][2] = 0
      BY <3>2, <3>4, <3>5
    <3>7. PICK y : y = -u[2][2]
      OBVIOUS
    <3>8. Patched(u) = IF u[1] = "ref"
                       THEN (IF u[2][2] > 0 THEN <<"obj", u[2][2]>> ELSE ExternObj(y))
                       ELSE ExternInt(u[2][2])
      BY <3>1, <3>7
    <3>9. y = 0
      BY <3>6, <3>7
    <3> QED
      BY <1>3, <2>2, <3>6, <3>8, <3>9
  <2>4. Stands(Null) = Null
    BY DEF Stands, Null
  <2>5. ~Misnamed(s[1], w)
    BY <1>0, <1>6 DEF Null
  <2> QED
    BY <1>6, <2>3, <2>4, <2>5
<1>7. CASE s[1] \in {"ref", "foreign"} /\ w # Null
  <2>1. w \in DOMAIN Address /\ (s[1] = "foreign" => w[1] = "out")
    BY <1>7 DEF Fits
  <2>2. I = IF w[1] = "obj" /\ w[2] \in Imaged(heap) THEN RankIn(heap, w[2]) ELSE 0
    BY <2>1 DEF Indices
  <2>3. w[1] = "obj" /\ w[2] \in Imaged(heap) => RankIn(heap, w[2]) \in Nat \ {0}
    <3>1. \A b \in Imaged(heap) : RankIn(heap, b) \in 1..RankIn(heap, Len(heap))
      BY <1>1, RanksDiffer
    <3>2. RankIn(heap, Len(heap)) \in Nat
      BY <1>1, Ranks
    <3> QED
      BY <3>1, <3>2
  <2>4. w[1] \in {"obj", "out"} /\ C \in Nat
    BY <1>1, <2>1, WordKeys, GetIs
  <2>5. Now.c = cache /\ Now.t = index
    BY DEF Now
  <2>6. CASE s[1] = "ref" /\ I # 0
    <3>1. u[1] = "ref" /\ u[2] = <<"num", I>>
      BY <1>7, <2>5, <2>6 DEF Writes, At
    <3>2. w[1] = "obj" /\ w[2] \in Imaged(heap) /\ I = RankIn(heap, w[2]) /\ I > 0
      BY <2>2, <2>3, <2>6
    <3>3. Patched(u) = <<"obj", I>>
      BY <3>1, <3>2 DEF Patched
    <3>4. Stands(w) = <<"obj", I>>
      BY <3>2 DEF Stands, Rank, RankIn
    <3>5. ~Misnamed(s[1], w)
      BY <1>0, <3>2
    <3> QED
      BY <3>3, <3>4, <3>5
  <2>7. CASE s[1] = "foreign" \/ I = 0
    <3>1. C # 0 /\ Patched(u) = IF s[1] = "ref" THEN ExternObj(C - 1) ELSE ExternInt(C - 1)
      <4>1. CASE s[1] = "foreign"
        <5>1. u[1] = "foreign" /\ C # 0 /\ u[2] = <<"num", C - 1>>
          BY <1>7, <2>5, <4>1 DEF Writes, At
        <5> QED
          BY <4>1, <5>1 DEF Patched
      <4>2. CASE s[1] = "ref"
        <5>1. u[1] = "ref" /\ C # 0 /\ u[2] = <<"num", 1 - C>>
          BY <1>7, <2>5, <2>7, <4>2 DEF Writes, At
        <5>2. ~(u[2][2] > 0) /\ -u[2][2] = C - 1
          BY <2>4, <5>1
        <5> QED
          BY <4>2, <5>1, <5>2 DEF Patched
      <4> QED
        BY <1>7, <4>1, <4>2
    <3>2. ~(w[1] = "obj" /\ w[2] \in Imaged(heap))
      BY <2>1, <2>2, <2>3, <2>7
    <3>3. Stands(w) = IF Named(w) THEN InPlaceOf(w) ELSE Null
      BY <2>4, <3>2 DEF Stands
    <3>6. ASSUME NEW k \in 1..Len(externs), externs[k].word = w PROVE k = C - 1
      <4>1. Cached(externs[k].word) = k + 1
        BY DEF Answered
      <4>2. Cached(externs[k].word) = C
        BY <3>6 DEF Cached
      <4> QED
        BY <1>2, <2>4, <4>1, <4>2
    <3>4. CASE C > 1
      <4> DEFINE e == externs[C - 1]
      <4>1. C - 1 \in 1..Len(externs) /\ e.word = w
        BY <2>1, <3>4 DEF Answered, Cached
      <4>2. Named(w) /\ C - 1 \in DOMAIN externs /\ e.as \in {"ref", "foreign"} /\ SavedAs(e.as, w)
        <5>1. SavedAs(e.as, e.word)
          BY <4>1 DEF Answered
        <5> QED
          BY <1>2, <4>1, <5>1 DEF Named
      <4>3. CASE e.as = s[1]
        <5>1. ~Misnamed(s[1], w)
          BY <1>0, <3>6, <4>3
        <5>2. s[1] = "ref" => Patched(u) = InPlaceOf(w)
          BY <3>1, <4>1, <4>2, <4>3 DEF ExternObj
        <5>3. s[1] = "foreign" => Patched(u) = w /\ InPlaceOf(w) = w
          BY <2>1, <3>1, <4>1, <4>2, <4>3 DEF ExternInt, InPlaceOf
        <5> QED
          BY <1>7, <3>3, <4>2, <5>1, <5>2, <5>3
      <4>4. CASE e.as # s[1]
        <5>1. Misnamed(s[1], w)
          BY <1>7, <4>1, <4>2, <4>4 DEF Misnamed
        <5>2. s[1] = "ref" => Patched(u) = <<"int", w>>
          BY <3>1, <4>1, <4>2, <4>4 DEF ExternObj
        <5>3. s[1] = "foreign" => Patched(u) = <<"first", w>>
          BY <3>1, <4>1, <4>2, <4>4 DEF ExternInt
        <5> QED
          BY <1>7, <5>1, <5>2, <5>3 DEF Miscast
      <4> QED
        BY <4>3, <4>4
    <3>5. CASE C = 1
      <4>1. ASSUME NEW k \in DOMAIN externs, externs[k].word = w PROVE FALSE
        BY <1>2, <3>5, <3>6, <4>1
      <4>2. ~Named(w) /\ ~Misnamed(s[1], w)
        BY <4>1 DEF Named, Misnamed
      <4>3. Patched(u) = Null
        BY <1>3, <3>1, <3>5
      <4> QED
        BY <3>3, <4>2, <4>3
    <3> QED
      BY <2>4, <3>1, <3>4, <3>5
  <2> QED
    BY <1>7, <2>6, <2>7
<1>8. s[1] \in {"ref", "foreign", "bytes", "word"}
  BY DEF Fits
<1> QED
  BY <1>4, <1>5, <1>6, <1>7, <1>8

(* A record filled in is a copy of the object it was written for.            *)
LEMMA CopyIs ==
    ASSUME Inv, phase # "count", NEW a \in Imaged(heap), NEW o, o = heap[a],
           NEW r, Written(Now, a, r), ~IsBuffer(heap, o), NEW n, n = Filled(r)
    PROVE  Copy(o, n)
<1> DEFINE s == Save(heap, o)
<1>1. WellFormed(heap) /\ IsSequence(heap) /\ Now.h = heap /\ Now.t = index
  BY HeapIs DEF Inv, Now
<1>2. /\ IsSequence(s) /\ Len(s) \in Nat /\ \A i \in 1..Len(s) : Fits(s[i])
      /\ IsSequence(o.units) /\ Len(o.units) = Len(s)
      /\ \A i \in 1..Len(s) : o.units[i] = s[i][2]
  BY <1>1, SavedIs
<1>3. /\ o.role \in {"nil", "pair", "atom", "other", "struct"}
      /\ o.role = "struct" => o.of \in DOMAIN heap
  BY <1>1 DEF WellFormed
<1> HIDE DEF s
<1>4. /\ r.type = TypeFor(Now, o) /\ r.attr = o.attr
      /\ o.role = "struct" => o.of \in Imaged(heap)
      /\ Len(r.units) = Len(s)
      /\ \A i \in 1..Len(s) : Writes(Now, s[i], r.units[i])
  BY <1>1 DEF Written, Writing, s
<1>5. /\ n.role = IF r.type > 0 THEN "struct" ELSE RoleOf(r.type)
      /\ n.of = IF r.type > 0 THEN r.type ELSE 0
      /\ n.attr = r.attr
      /\ n.units = [i \in 1..Len(s) |-> Patched(r.units[i])]
  BY <1>4, FilledIs
<1>6. n.role = (IF o.role = "other" THEN "atom" ELSE o.role) /\ (o.role = "struct" => n.of = Rank(o.of))
  <2>1. CASE o.role = "struct"
    <3>1. <<"obj", o.of>> \in DOMAIN Address
      BY <1>1, <1>3, <2>1 DEF WellFormed
    <3>2. At(index, <<"obj", o.of>>) = RankIn(heap, o.of)
      BY <1>4, <2>1, <3>1 DEF Inv, Indices, At
    <3>3. RankIn(heap, o.of) \in Nat \ {0}
      <4>1. RankIn(heap, o.of) \in 1..RankIn(heap, Len(heap)) /\ RankIn(heap, Len(heap)) \in Nat
        BY <1>1, <1>4, <2>1, RanksDiffer, Ranks
      <4> QED
        BY <4>1
    <3>4. r.type = RankIn(heap, o.of)
      BY <1>1, <1>4, <2>1, <3>2 DEF TypeFor
    <3> QED
      BY <1>5, <2>1, <3>3, <3>4 DEF Rank, RankIn
  <2>2. CASE o.role = "nil"
    <3>1. r.type = -3
      BY <1>4, <2>2 DEF TypeFor
    <3>2. ~(-3 > 0) /\ RoleOf(-3) = "nil"
      BY DEF RoleOf
    <3> QED
      BY <1>5, <2>2, <3>1, <3>2
  <2>3. CASE o.role = "pair"
    <3>1. r.type = -1
      BY <1>4, <2>3 DEF TypeFor
    <3>2. ~(-1 > 0) /\ RoleOf(-1) = "pair"
      BY DEF RoleOf
    <3> QED
      BY <1>5, <2>3, <3>1, <3>2
  <2>4. CASE o.role \in {"atom", "other"}
    <3>1. r.type = -2
      BY <1>4, <2>4 DEF TypeFor
    <3>2. ~(-2 > 0) /\ RoleOf(-2) = "atom"
      BY DEF RoleOf
    <3> QED
      BY <1>5, <2>4, <3>1, <3>2
  <2> QED
    BY <1>3, <2>1, <2>2, <2>3, <2>4
<1>7. Len(n.units) = Len(o.units)
  BY <1>2, <1>5, Listed
<1>8. ASSUME NEW i \in DOMAIN o.units
      PROVE  IF Misnamed(s[i][1], o.units[i]) THEN n.units[i] = Miscast(s[i][1], o.units[i])
             ELSE \/ n.units[i] = Stands(o.units[i])
                  \/ o.units[i] = Null /\ n.units[i] = <<"text", 0>>
  <2>1. i \in 1..Len(s)
    BY <1>2, Sequence
  <2>2. n.units[i] = Patched(r.units[i]) /\ o.units[i] = s[i][2]
    BY <1>2, <1>5, <2>1
  <2>6. SavedAs(s[i][1], s[i][2])
    BY <1>2, <2>1, Sequence DEF SavedAs, s
  <2>3. IF Misnamed(s[i][1], s[i][2]) THEN Patched(r.units[i]) = Miscast(s[i][1], s[i][2])
        ELSE \/ Patched(r.units[i]) = Stands(s[i][2])
             \/ s[i][2] = Null /\ Patched(r.units[i]) = <<"text", 0>>
    BY <1>2, <1>4, <2>1, <2>6, PatchedIs
  <2>4. PICK w : w = s[i][2]
    OBVIOUS
  <2>5. PICK l : l = s[i][1]
    OBVIOUS
  <2>7. PICK p : p = Patched(r.units[i])
    OBVIOUS
  <2>8. IF Misnamed(l, w) THEN p = Miscast(l, w)
        ELSE p = Stands(w) \/ (w = Null /\ p = <<"text", 0>>)
    BY <2>3, <2>4, <2>5, <2>7
  <2>9. o.units[i] = w /\ n.units[i] = p
    BY <2>2, <2>4, <2>7
  <2> QED
    BY <2>5, <2>8, <2>9
<1> QED
  BY <1>4, <1>5, <1>6, <1>7, <1>8 DEF Copy, s

(* What a patched outer's second unit refers to is the copy of a buffer.     *)
LEMMA OuterIs ==
    ASSUME Inv, phase # "count", NEW a \in Imaged(heap), NEW o, o = heap[a],
           NEW r, Written(Now, a, r), IsBuffer(heap, o), NEW n, n = Filled(r),
           n.units[1] # Null, n.units[2][1] = "obj"
    PROVE  \E b \in Imaged(heap) : IsBuffer(heap, heap[b]) /\ n.units[2] = <<"obj", RankIn(heap, b)>>
<1> DEFINE s == Save(heap, o)
<1>1. WellFormed(heap) /\ IsSequence(heap) /\ Now.h = heap
  BY HeapIs DEF Inv, Now
<1>2. IsSequence(s) /\ Len(s) \in Nat /\ \A i \in 1..Len(s) : Fits(s[i])
  BY <1>1, SavedIs
<1>3. s = SaveBuffer(heap, o)
  BY DEF Save, IsBuffer
<1> HIDE DEF s
<1>4. /\ Len(r.units) = Len(s)
      /\ \A i \in 1..Len(s) : Writes(Now, s[i], r.units[i])
  BY <1>1 DEF Written, Writing, s
<1>5. n.units = [i \in 1..Len(s) |-> Patched(r.units[i])]
  BY <1>4, FilledIs
<1>6. "inner" \notin o.attr
  <2> SUFFICES ASSUME "inner" \in o.attr PROVE FALSE
    OBVIOUS
  <2>1. Len(s) = 2 /\ s[1] = <<"word", Null>>
    BY <1>3 DEF SaveBuffer
  <2>2. Writes(Now, s[1], r.units[1]) /\ n.units[1] = Patched(r.units[1])
    BY <1>4, <1>5, <2>1
  <2>3. r.units[1][1] = "word" /\ r.units[1][2] = Null
    BY <2>1, <2>2 DEF Writes
  <2>4. Patched(r.units[1]) = Null
    BY <2>3 DEF Patched, Null
  <2> QED
    BY <2>2, <2>4
<1>7. Len(s) = 3 /\ s[2] = <<"ref", o.units[2]>>
  BY <1>3, <1>6 DEF SaveBuffer
<1>8. PICK b \in DOMAIN heap : IsBuffer(heap, heap[b]) /\ o.units[2] = <<"obj", b>>
  BY <1>1, <1>6 DEF WellFormed
<1>9. Writes(Now, s[2], r.units[2]) /\ n.units[2] = Patched(r.units[2]) /\ Fits(s[2])
  BY <1>2, <1>4, <1>5, <1>7
<1>10. PICK w : w = <<"obj", b>> /\ s[2][2] = w
  BY <1>7, <1>8
<1>11. n.units[2] = Stands(w)
  <2>5. 2 \in DOMAIN s
    BY <1>2, <1>7, Sequence
  <2>3. SavedAs(s[2][1], s[2][2])
    BY <2>5 DEF SavedAs, s
  <2>4. ~Misnamed(s[2][1], s[2][2])
    BY <1>1, <1>10, ForeignIsOut DEF Misnamed, Null
  <2>1. Patched(r.units[2]) = Stands(s[2][2]) \/ Patched(r.units[2]) = <<"text", 0>>
    BY <1>9, <2>3, <2>4, PatchedIs
  <2>2. Stands(s[2][2]) = Stands(w)
    BY <1>10
  <2> QED
    BY <1>9, <2>1, <2>2
<1>12. b \in Imaged(heap)
  <2> SUFFICES ASSUME b \notin Imaged(heap) PROVE FALSE
    OBVIOUS
  <2>1. Stands(w) = IF Named(w) THEN InPlaceOf(w) ELSE Null
    BY <1>10 DEF Stands
  <2>2. InPlaceOf(w)[1] = "away" /\ Null[1] = "num"
    BY <1>10 DEF InPlaceOf, Null
  <2> QED
    BY <1>11, <2>1, <2>2
<1>13. Stands(w) = <<"obj", RankIn(heap, b)>>
  BY <1>10, <1>12 DEF Stands, Rank, RankIn
<1> QED
  BY <1>8, <1>11, <1>12, <1>13

(* The patch pass keeps it.                                                  *)
LEMMA PatchKeeps ==
    ASSUME Inv, PatchPass
    PROVE  Inv'
<1> USE DEF Inv
<1>1. /\ phase = "patch" /\ UNCHANGED <<written, pending, rec>>
      /\ table' = table /\ heap' = heap /\ externs' = externs /\ blob' = blob
  BY DEF PatchPass, written
<1>2. /\ at \in 0..Len(table) /\ IsSequence(ix) /\ Len(ix) = Len(table)
      /\ \A k \in 1..Len(table) : \A r :
             r = table[k] => ix[k] = IF k <= at THEN Filled(r) ELSE Fresh(r)
  BY <1>1 DEF Rebuilt
<1>3. Len(table) \in Nat
  BY Sequence DEF Frame
<1>4. CASE at < Len(table)
  <2> DEFINE m == Len(table)
             q == table[at + 1]
  <2>1. /\ phase' = "patch" /\ at' = at + 1
        /\ ix' = [ix EXCEPT ![at + 1] =
                     [Typed(@, q) EXCEPT !.units = [i \in 1..Len(q.units) |-> Patched(q.units[i])]]]
    BY <1>1, <1>4 DEF PatchPass
  <2>2. at + 1 \in 1..m /\ ~(at + 1 <= at)
    BY <1>2, <1>3, <1>4
  <2>3. ix[at + 1] = Fresh(q)
    BY <1>2, <2>2
  <2>4. ix' = [ix EXCEPT ![at + 1] = Filled(q)]
    BY <2>1, <2>3 DEF Filled
  <2>5. ix = [k \in 1..m |-> ix[k]]
    BY <1>2, Sequence
  <2> HIDE DEF m, q
  <2>6. ix' = [k \in 1..m |-> IF k = at + 1 THEN Filled(q) ELSE ix[k]]
    BY <2>2, <2>4, <2>5
  <2>7. IsSequence(ix') /\ Len(ix') = m
    <3>1. ix' = [k \in 1..m |-> ix'[k]] /\ m \in Nat
      BY <1>3, <2>6 DEF m
    <3> QED
      BY <3>1, Listed
  <2>8. ASSUME NEW k \in 1..m, NEW r, r = table[k]
        PROVE  ix'[k] = IF k <= at + 1 THEN Filled(r) ELSE Fresh(r)
    <3>1. CASE k = at + 1
      <4>1. k <= at + 1 /\ Filled(r) = Filled(q) /\ ix'[k] = Filled(q)
        BY <1>2, <2>2, <2>6, <2>8, <3>1 DEF q
      <4> QED
        BY <4>1
    <3>2. CASE k # at + 1
      <4>1. k <= at <=> k <= at + 1
        BY <1>2, <1>3, <3>2 DEF m
      <4>2. ix'[k] = ix[k]
        BY <2>6, <3>2
      <4>3. ix[k] = IF k <= at THEN Filled(r) ELSE Fresh(r)
        BY <1>2, <2>8 DEF m
      <4> QED
        BY <4>1, <4>2, <4>3
    <3> QED
      BY <3>1, <3>2
  <2>9. \A r : Filled(r)' = Filled(r)
    BY <1>1 DEF Filled, Fresh, Typed, Patched, ExternObj, ExternInt
  <2>10. at' \in 0..Len(table')
    BY <1>1, <1>2, <1>3, <1>4, <2>1
  <2>11. \A k \in 1..Len(table') : \A r :
             r = table'[k] => ix'[k] = IF k <= at' THEN Filled(r)' ELSE Fresh(r)
    BY <1>1, <2>1, <2>8, <2>9 DEF m
  <2>12. Rebuilt'
    BY <1>1, <2>1, <2>7, <2>10, <2>11 DEF Rebuilt, Fresh, m
  <2>13. Loaded'
    BY <2>1 DEF Loaded
  <2> QED
    BY <1>1, <2>1, <2>12, <2>13, WrittenStands
<1>5. CASE ~(at < Len(table))
  <2>1. phase' = "load" /\ at' = 0 /\ ix' = ix
    BY <1>1, <1>5 DEF PatchPass
  <2>2. \A k \in 1..Len(table) : \A r : r = table[k] => ix[k] = Filled(r)
    BY <1>2, <1>3, <1>5
  <2>3. IsSequence(heap) /\ Now.h = heap /\ Len(heap) \in Nat
        /\ \A a \in Imaged(heap) : a <= Len(heap)
    <3>1. IsSequence(heap) /\ Len(heap) \in Nat /\ Imaged(heap) \subseteq 1..Len(heap)
      BY HeapIs
    <3> QED
      BY <3>1 DEF Now
  <2>4. WrittenTo(Now, table, Len(heap))
    BY <1>1 DEF Recorded
  <2>5. Len(table) = RankIn(heap, Len(heap))
    BY <2>3, <2>4 DEF WrittenTo
  <2>6. ASSUME NEW a \in Imaged(heap)
        PROVE  \E r : /\ r = table[RankIn(heap, a)] /\ Written(Now, a, r)
                      /\ ix[RankIn(heap, a)] = Filled(r)
    <3>1. RankIn(heap, a) \in 1..Len(table)
      BY <2>3, <2>5, RanksDiffer
    <3>2. Written(Now, a, table[RankIn(heap, a)])
      BY <2>3, <2>4 DEF WrittenTo
    <3> QED
      BY <2>2, <3>1, <3>2
  <2>7. ASSUME NEW k \in 1..Len(ix)
        PROVE  ix[k] = [role |-> ix[k].role, of |-> ix[k].of, own |-> ix[k].own,
                        attr |-> ix[k].attr, flagged |-> ix[k].flagged, units |-> ix[k].units]
    <3>1. PICK r : r = table[k]
      OBVIOUS
    <3>2. ix[k] = Filled(r)
      BY <1>2, <2>2, <3>1
    <3> QED
      BY <3>2, FilledIs
  <2>8. ASSUME NEW a \in Imaged(heap), NEW o, NEW n, o = heap[a], n = ix[RankIn(heap, a)],
               ~IsBuffer(heap, o)
        PROVE  Copy(o, n)
    BY <1>1, <2>6, <2>8, CopyIs
  <2>9. ASSUME NEW a \in Imaged(heap), NEW n, n = ix[RankIn(heap, a)],
               IsBuffer(heap, heap[a]), n.units[1] # Null, n.units[2][1] = "obj"
        PROVE  \E b \in Imaged(heap) : IsBuffer(heap, heap[b]) /\ n.units[2] = <<"obj", RankIn(heap, b)>>
    BY <1>1, <2>6, <2>9, OuterIs
  <2>10. \A o, n : Copy(o, n)' <=> Copy(o, n)
    BY <1>1 DEF Copy, Stands, Named, Rank, Misnamed, SavedAs, Imaged
  <2>11. at' \in 0..Len(ix')
    BY <1>2, <1>3, <2>1
  <2>12. Loaded'
    BY <1>1, <1>2, <2>1, <2>5, <2>7, <2>8, <2>9, <2>10, <2>11 DEF Loaded
  <2>13. Rebuilt'
    BY <2>1 DEF Rebuilt
  <2> QED
    BY <1>1, <2>1, <2>12, <2>13, WrittenStands
<1> QED
  BY <1>4, <1>5

(* Only the copy of a buffer is a buffer.                                    *)
LEMMA BufferIs ==
    ASSUME Inv, phase = "load", NEW a \in Imaged(heap), NEW n, n = ix[RankIn(heap, a)],
           IsBuffer(ix, n)
    PROVE  IsBuffer(heap, heap[a])
<1> SUFFICES ASSUME ~IsBuffer(heap, heap[a]) PROVE FALSE
  OBVIOUS
<1>1. WellFormed(heap) /\ IsSequence(heap) /\ Now.h = heap
  BY HeapIs DEF Inv, Now
<1>2. PICK o : o = heap[a]
  OBVIOUS
<1>3. Copy(o, n)
  BY <1>2 DEF Inv, Loaded
<1>4. o.role \in {"nil", "pair", "atom", "other", "struct"}
  BY <1>1, <1>2 DEF WellFormed
<1>5. o.role = "struct" /\ n.of = RankIn(heap, o.of)
  BY <1>3, <1>4 DEF Copy, IsBuffer, Rank, RankIn
<1>6. o.of \in Imaged(heap)
  <2>1. Written(Now, a, table[RankIn(heap, a)])
    <3>1. a <= Len(heap)
      <4>1. Imaged(heap) \subseteq 1..Len(heap) /\ Len(heap) \in Nat
        BY <1>1, Ranks
      <4> QED
        BY <4>1
    <3> QED
      BY <1>1, <3>1 DEF Inv, Recorded, WrittenTo
  <2> QED
    BY <1>1, <1>2, <1>5, <2>1 DEF Written, Writing
<1>7. PICK t : t = heap[o.of]
  OBVIOUS
<1>8. t.role = "pair" /\ ~IsBuffer(heap, t)
  BY <1>1, <1>2, <1>5, <1>7 DEF WellFormed, IsBuffer
<1>9. IsSequence(t.units) /\ Len(t.units) = 2
  BY <1>1, <1>6, <1>7, <1>8, SavedIs
<1>10. PICK c : c = ix[RankIn(heap, o.of)]
  OBVIOUS
<1>11. Copy(t, c)
  BY <1>6, <1>7, <1>8, <1>10 DEF Inv, Loaded
<1>12. c.units[2] = <<"out", "buffer">>
  BY <1>5, <1>10 DEF IsBuffer, Struct, Handlers
<1>13. PICK w : w = t.units[2]
  OBVIOUS
<1>14. c.units[2] = Stands(w)
  <2>1. 2 \in DOMAIN t.units
    BY <1>9, Sequence
  <2>3. c.units[2] # Miscast(Save(heap, t)[2][1], t.units[2])
    BY <1>12 DEF Miscast
  <2>2. c.units[2] = Stands(t.units[2]) \/ c.units[2] = <<"text", 0>>
    BY <1>11, <2>1, <2>3 DEF Copy
  <2> QED
    BY <1>12, <1>13, <2>2
<1>15. w = <<"out", "buffer">>
  <2>1. CASE w[1] = "obj" /\ w[2] \in Imaged(heap)
    BY <1>12, <1>14, <2>1 DEF Stands
  <2>2. CASE ~(w[1] = "obj" /\ w[2] \in Imaged(heap)) /\ w[1] \in {"obj", "out"}
    <3>1. Stands(w) = IF Named(w) THEN InPlaceOf(w) ELSE Null
      BY <2>2 DEF Stands
    <3> QED
      BY <1>12, <1>14, <2>2, <3>1 DEF InPlaceOf, Null
  <2>3. CASE w[1] \notin {"obj", "out"}
    BY <1>12, <1>14, <2>3 DEF Stands
  <2> QED
    BY <2>1, <2>2, <2>3
<1> QED
  BY <1>2, <1>5, <1>7, <1>13, <1>15 DEF IsBuffer, Struct, Handlers

(* A load that writes anything writes the units of a buffer's copy.          *)
LEMMA LoadWrites ==
    ASSUME Inv, LoadPass, phase' = "load"
    PROVE  \/ ix' = ix
           \/ \E b \in Imaged(heap) : \E x, y :
                 /\ IsBuffer(heap, heap[b]) /\ x[1] = "at" /\ y[1] = "at"
                 /\ ix' = [ix EXCEPT ![RankIn(heap, b)].units = <<x, y>>]
<1> DEFINE k == at + 1
<1>1. /\ phase = "load" /\ at < Len(ix) /\ at \in 0..Len(ix)
      /\ IsSequence(ix) /\ Len(ix) = RankIn(heap, Len(heap))
  BY DEF LoadPass, Inv, Loaded
<1>2. IsSequence(heap) /\ Len(heap) \in Nat
  BY HeapIs DEF Inv
<1>3. k \in 1..RankIn(heap, Len(heap))
  <2>1. Len(ix) \in Nat
    BY <1>1, Sequence
  <2> QED
    BY <1>1, <2>1
<1>4. PICK a \in Imaged(heap) : RankIn(heap, a) = k
  BY <1>2, <1>3, RanksReach
<1>5. PICK n : n = ix[k]
  OBVIOUS
<1>6. SUFFICES ASSUME ix' # ix
               PROVE  \E b \in Imaged(heap) : \E x, y :
                         /\ IsBuffer(heap, heap[b]) /\ x[1] = "at" /\ y[1] = "at"
                         /\ ix' = [ix EXCEPT ![RankIn(heap, b)].units = <<x, y>>]
  OBVIOUS
<1>7. IsBuffer(ix, n) /\ LoadBuffer(k)
  BY <1>1, <1>5, <1>6 DEF LoadPass
<1> DEFINE j == n.units[2][2]
           x == <<"at", n.units[3][2]>>
           y == <<"at", n.units[3][2] + ix[j].units[2][2]>>
<1>8. /\ n.units[1] # Null /\ n.units[2][1] = "obj"
      /\ ix' = [ix EXCEPT ![j].units = <<x, y>>]
  BY <1>5, <1>6, <1>7 DEF LoadBuffer
<1>9. IsBuffer(heap, heap[a])
  BY <1>1, <1>4, <1>5, <1>7, BufferIs
<1>10. PICK b \in Imaged(heap) : IsBuffer(heap, heap[b]) /\ n.units[2] = <<"obj", RankIn(heap, b)>>
  BY <1>1, <1>4, <1>5, <1>8, <1>9 DEF Inv, Loaded
<1>11. j = RankIn(heap, b) /\ x[1] = "at" /\ y[1] = "at"
  BY <1>10
<1> HIDE DEF x, y, j
<1> QED
  BY <1>8, <1>10, <1>11

(* The load pass keeps it: what it writes are units of buffers only.         *)
LEMMA LoadKeeps ==
    ASSUME Inv, LoadPass
    PROVE  Inv'
<1> USE DEF Inv
<1>1. /\ phase = "load" /\ phase' \in {"load", "done"} /\ UNCHANGED <<written, pending, rec>>
      /\ heap' = heap /\ externs' = externs
  BY DEF LoadPass, written
<1>2. /\ IsSequence(ix) /\ Len(ix) = RankIn(heap, Len(heap)) /\ at \in 0..Len(ix)
      /\ \A k \in 1..Len(ix) :
            ix[k] = [role |-> ix[k].role, of |-> ix[k].of, own |-> ix[k].own,
                     attr |-> ix[k].attr, flagged |-> ix[k].flagged, units |-> ix[k].units]
      /\ \A a \in Imaged(heap) : \A o, n :
            o = heap[a] /\ n = ix[RankIn(heap, a)] /\ ~IsBuffer(heap, o) => Copy(o, n)
      /\ \A a \in Imaged(heap) :
            LET o == ix[RankIn(heap, a)] IN
            IsBuffer(heap, heap[a]) /\ o.units[1] # Null /\ o.units[2][1] = "obj" =>
                \E b \in Imaged(heap) :
                    IsBuffer(heap, heap[b]) /\ o.units[2] = <<"obj", RankIn(heap, b)>>
  BY <1>1 DEF Loaded
<1>3. Len(ix) \in Nat /\ ix = [k \in 1..Len(ix) |-> ix[k]]
  BY <1>2, Sequence
<1>4. \A o, n : Copy(o, n)' <=> Copy(o, n)
  BY <1>1 DEF Copy, Stands, Named, Rank, Misnamed, SavedAs, Imaged
<1>5. at' \in 0..Len(ix)
  BY <1>2, <1>3 DEF LoadPass
<1>6. Rebuilt'
  BY <1>1 DEF Rebuilt
<1>7. CASE ix' = ix
  <2>1. Loaded'
    BY <1>1, <1>2, <1>4, <1>5, <1>7 DEF Loaded
  <2> QED
    BY <1>1, <1>6, <2>1, WrittenStands
<1>8. CASE ix' # ix
  <2>1. phase' = "load"
    BY <1>1, <1>8 DEF LoadPass
  <2>2. PICK b, x, y :
            /\ b \in Imaged(heap) /\ IsBuffer(heap, heap[b])
            /\ x[1] = "at" /\ y[1] = "at"
            /\ ix' = [ix EXCEPT ![RankIn(heap, b)].units = <<x, y>>]
    BY <1>8, <2>1, LoadWrites
  <2> DEFINE j == RankIn(heap, b)
             m == Len(ix)
  <2>3. IsSequence(heap)
    BY HeapIs
  <2>4. j \in 1..m
    BY <1>2, <2>2, <2>3, RanksDiffer
  <2>5. \A a \in Imaged(heap) : RankIn(heap, a) \in 1..m /\ (RankIn(heap, a) = j => a = b)
    BY <1>2, <2>2, <2>3, RanksDiffer
  <2> HIDE DEF j, m
  <2>6. ix' = [k \in 1..m |-> IF k = j THEN [ix[j] EXCEPT !.units = <<x, y>>] ELSE ix[k]]
    BY <1>3, <2>2, <2>4 DEF j, m
  <2>7. IsSequence(ix') /\ Len(ix') = m
    <3>1. ix' = [k \in 1..m |-> ix'[k]] /\ m \in Nat
      BY <1>3, <2>6 DEF m
    <3> QED
      BY <3>1, Listed
  <2>8. ix'[j] = [role |-> ix[j].role, of |-> ix[j].of, own |-> ix[j].own,
                  attr |-> ix[j].attr, flagged |-> ix[j].flagged, units |-> <<x, y>>]
    <3>1. PICK o : o = ix[j]
      OBVIOUS
    <3>2. o = [role |-> o.role, of |-> o.of, own |-> o.own, attr |-> o.attr,
               flagged |-> o.flagged, units |-> o.units]
      BY <1>2, <2>4, <3>1 DEF m
    <3>3. ix'[j] = [o EXCEPT !.units = <<x, y>>]
      BY <2>4, <2>6, <3>1
    <3> QED
      BY <3>1, <3>2, <3>3
  <2>9. \A k \in 1..m : k # j => ix'[k] = ix[k]
    BY <2>6
  <2>10. ASSUME NEW k \in 1..m
         PROVE  ix'[k] = [role |-> ix'[k].role, of |-> ix'[k].of, own |-> ix'[k].own,
                          attr |-> ix'[k].attr, flagged |-> ix'[k].flagged, units |-> ix'[k].units]
    <3>1. CASE k = j
      BY <2>8, <3>1
    <3>2. CASE k # j
      BY <1>2, <2>9, <3>2 DEF m
    <3> QED
      BY <3>1, <3>2
  <2>11. ASSUME NEW a \in Imaged(heap), NEW o, NEW n, o = heap[a], n = ix'[RankIn(heap, a)],
                ~IsBuffer(heap, o)
         PROVE  Copy(o, n)
    <3>1. a # b
      BY <2>2, <2>11
    <3>2. n = ix[RankIn(heap, a)]
      BY <2>5, <2>9, <2>11, <3>1
    <3> QED
      BY <1>2, <2>11, <3>2
  <2>12. ASSUME NEW a \in Imaged(heap), NEW n, n = ix'[RankIn(heap, a)],
                IsBuffer(heap, heap[a]), n.units[1] # Null, n.units[2][1] = "obj"
         PROVE  \E c \in Imaged(heap) : IsBuffer(heap, heap[c]) /\ n.units[2] = <<"obj", RankIn(heap, c)>>
    <3>1. CASE RankIn(heap, a) = j
      <4>1. n.units = <<x, y>>
        BY <2>8, <2>12, <3>1
      <4>2. n.units[2] = y
        BY <4>1
      <4> QED
        BY <2>2, <2>12, <4>2
    <3>2. CASE RankIn(heap, a) # j
      <4>1. n = ix[RankIn(heap, a)]
        BY <2>5, <2>9, <2>12, <3>2
      <4> QED
        BY <1>2, <2>12, <4>1
    <3> QED
      BY <3>1, <3>2
  <2>13. at' \in 0..Len(ix')
    BY <1>5, <2>7 DEF m
  <2>14. Len(ix') = RankIn(heap, Len(heap))
    BY <1>2, <2>7 DEF m
  <2>15. \A k \in 1..Len(ix') :
            ix'[k] = [role |-> ix'[k].role, of |-> ix'[k].of, own |-> ix'[k].own,
                      attr |-> ix'[k].attr, flagged |-> ix'[k].flagged, units |-> ix'[k].units]
    BY <2>7, <2>10
  <2>16. \A a \in Imaged(heap') : \A o, n :
             o = heap'[a] /\ n = ix'[RankIn(heap', a)] /\ ~IsBuffer(heap', o) => Copy(o, n)'
    BY <1>1, <1>4, <2>11
  <2>17. ASSUME NEW a \in Imaged(heap)
         PROVE  LET n == ix'[RankIn(heap, a)] IN
                IsBuffer(heap, heap[a]) /\ n.units[1] # Null /\ n.units[2][1] = "obj" =>
                    \E c \in Imaged(heap) :
                        IsBuffer(heap, heap[c]) /\ n.units[2] = <<"obj", RankIn(heap, c)>>
    <3>1. PICK n : n = ix'[RankIn(heap, a)]
      OBVIOUS
    <3> QED
      BY <2>12, <3>1
  <2>18. IsSequence(ix')
    BY <2>7
  <2>19. Loaded'
    BY <1>1, <2>1, <2>13, <2>14, <2>15, <2>16, <2>17, <2>18 DEF Loaded
  <2> QED
    BY <1>1, <1>6, <2>19, WrittenStands
<1> QED
  BY <1>7, <1>8

-----------------------------------------------------------------------------
(* The invariant holds of every reachable state.                             *)
LEMMA InvInit == Init => Inv
<1> SUFFICES ASSUME Init PROVE Inv
  OBVIOUS
<1>1. /\ heap \in Graphs /\ caps \in Caps /\ phase = "count" /\ index = Empty(0) /\ at = 0
      /\ pending = <<>> /\ rec = NoRec /\ table = <<>> /\ room = <<0, 0>> /\ blob = <<>>
      /\ cache = Empty(ExternKeys) /\ sent = 0 /\ externs = <<>> /\ asked = <<>> /\ ix = <<>>
  BY DEF Init
<1>2. /\ caps[1] \in Nat /\ caps[2] \in Nat /\ ExternKeys \in Nat
  BY <1>1, GraphsAssumption
<1>3. Frame
  BY <1>1, EmptyList DEF Frame
<1>4. Tabled
  BY <1>1, <1>2, EmptyIs DEF Tabled
<1>5. Answered
  <2>1. \A w \in DOMAIN Address : Cached(w) = 0
    BY <1>1, <1>2, EmptyIs, WordKeys DEF Cached
  <2>2. Len(asked) = 0 /\ Len(externs) = 0
    BY <1>1
  <2>3. asked \in Seq(DOMAIN Address) /\ externs \in Seq(DOMAIN Address)
    BY <1>1
  <2> QED
    BY <2>1, <2>2, <2>3 DEF Answered
<1>6. NamedOnce
  BY <1>1 DEF NamedOnce
<1>7. NoOverrun
  BY <1>1, <1>2 DEF NoOverrun
<1>8. Indices /\ Position /\ Spent /\ Recorded /\ Rebuilt /\ Loaded /\ RefusedForCause
  BY <1>1 DEF Indices, Position, Spent, Recorded, Rebuilt, Loaded, RefusedForCause
<1> QED
  BY <1>3, <1>4, <1>5, <1>6, <1>7, <1>8 DEF Inv

(* A step that changes nothing keeps it,                                     *)
LEMMA InvStutter ==
    ASSUME Inv, UNCHANGED vars
    PROVE  Inv'
<1>1. /\ UNCHANGED <<phase, heap, caps, index, table, room, blob, pending, rec, at, ix>>
      /\ UNCHANGED <<cache, sent, externs, asked>>
  BY DEF vars, written
<1>2. Frame' /\ Tabled' /\ Indices' /\ NoOverrun' /\ RefusedForCause'
  BY <1>1 DEF Inv, Frame, Tabled, Indices, NoOverrun, RefusedForCause
<1>3. Answered' /\ NamedOnce'
  BY <1>1, CacheKept
<1>4. Position' /\ Spent'
  BY <1>1 DEF Inv, Position, Spent, Saved, Behind, Units
<1>5. Recorded'
  BY <1>1 DEF Inv, Recorded, Behind, Now
<1>6. Rebuilt'
  <2>1. \A r : Filled(r)' = Filled(r)
    BY <1>1 DEF Filled, Fresh, Typed, Patched, ExternObj, ExternInt
  <2> QED
    BY <1>1, <2>1 DEF Inv, Rebuilt, Fresh
<1>7. Loaded'
  <2>1. \A o, n : Copy(o, n)' <=> Copy(o, n)
    BY <1>1 DEF Copy, Stands, Named, Rank, Misnamed, SavedAs, Imaged
  <2> QED
    BY <1>1, <2>1 DEF Inv, Loaded
<1> QED
  BY <1>2, <1>3, <1>4, <1>5, <1>6, <1>7 DEF Inv

(* and so it holds of every state of every behaviour.                        *)
LEMMA InvHolds == Spec => []Inv
<1>1. Inv /\ [Next]_vars => Inv'
  BY CountKeeps, ObjectKeeps, RefKeeps, BytesKeeps, ForeignKeeps, WordKeeps, EndKeeps,
     StartKeeps, AllocKeeps, PatchKeeps, LoadKeeps, InvStutter DEF Next
<1> QED
  BY <1>1, InvInit, PTL DEF Spec

-----------------------------------------------------------------------------
(* The theorems.                                                             *)

(* The index and the cache are maps: a new table answers 0 of every key, and *)
(* a put, whatever it grows or moves, answers its value for its key and what *)
(* was answered before for every other.                                      *)
THEOREM TableIsMap ==
    /\ \A n \in Nat : Sound(Empty(n)) /\ \A k \in Keys : Get(Empty(n), k) = 0
    /\ \A u, k, v : Sound(u) /\ k \in Keys /\ v \in Nat =>
          /\ Sound(Put(u, k, v))
          /\ \A l \in Keys : Get(Put(u, k, v), l) = IF l = k THEN v ELSE Get(u, l)
BY EmptyIs, PutIs

(* Neither table is ever more than half full, and both count their slots     *)
(* rightly: every lookup ends (x_image_table_slot).                          *)
THEOREM TablesHalfEmpty == Spec => []HalfEmpty
<1>1. Inv => HalfEmpty
  BY DEF Inv, Tabled, Sound, HalfTaken, HalfEmpty
<1> QED
  BY <1>1, InvHolds, PTL

(* The naming callable is asked about no word twice, and the sentinels are   *)
(* counted once each (x_image_extern).                                       *)
THEOREM WordsNamedOnce == Spec => []NamedOnce
<1>1. Inv => NamedOnce
  BY DEF Inv
<1> QED
  BY <1>1, InvHolds, PTL

(* No section is written past the room its caller gave it                    *)
(* (x_image_emit_object, x_image_bytes_word).                                *)
THEOREM SectionsNotOverrun == Spec => []NoOverrun
<1>1. Inv => NoOverrun
  BY DEF Inv
<1> QED
  BY <1>1, InvHolds, PTL

(* A write is refused only if a type of something imaged is not, or the      *)
(* whole image has no room: the checks made object by object and unit by     *)
(* unit refuse nothing that would have fitted.                               *)
THEOREM WritesRefusedForCause == Spec => []RefusedForCause
<1>1. Inv => RefusedForCause
  BY DEF Inv
<1> QED
  BY <1>1, InvHolds, PTL

(* What is rebuilt are copies of what was imaged, in their chain's order,    *)
(* every word of them as it was or standing for what it was, but where a     *)
(* word saved under both labels was named under the other one, and miscast   *)
(* there as said (x_image_patch_unit, x_image_load_pass, x_image_extern).    *)
THEOREM ImageRoundTrips == Spec => []RoundTrip
<1>1. Inv => RoundTrip
  <2> SUFFICES ASSUME Inv, phase \in {"load", "done"}, NEW a \in Imaged(heap),
                      ~IsBuffer(heap, heap[a])
               PROVE  Copy(heap[a], ix[Rank(a)])
    BY DEF RoundTrip
  <2>1. PICK o, n : o = heap[a] /\ n = ix[RankIn(heap, a)]
    OBVIOUS
  <2>2. Copy(o, n)
    BY <2>1 DEF Inv, Loaded
  <2>3. Rank(a) = RankIn(heap, a)
    BY DEF Rank, RankIn
  <2> QED
    BY <2>1, <2>2, <2>3 DEF Copy
<1> QED
  BY <1>1, InvHolds, PTL
=============================================================================
