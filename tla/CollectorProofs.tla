--------------------------- MODULE CollectorProofs ---------------------------
(* A collection frees nothing that is live and leaves nothing that is dead,  *)
(* for every heap, when programs run the raw phases as a pair and free hooks *)
(* do no more than allocate.                                                 *)
EXTENDS Collector, TLAPS

(* The documentation of heap-mark speaks of the pair; the second half is what *)
(* is assumed of free hooks, which run after the traversal.  Neither can be   *)
(* left out: what a free hook stores, or a mark left over, goes untraversed.  *)
Restrained == Raw # "mark" /\ FreeHook \subseteq {"alloc"}

Graph == [Obj -> SUBSET Obj]
Held  == tree \cup framed \cup roots

Traced == pc \in {"marked", "free-hooks"}

(* The inductive invariant: outside the stretch between mark and sweep no    *)
(* mark is set, inside it the marks are exactly what the program's own roots *)
(* reach.                                                                    *)
Inv ==
    /\ TypeOK
    /\ NothingLiveFreed
    /\ ~Traced => mark = {}
    /\ Traced => mark = Reach(Held)
    /\ pc \in {"run", "marked"} => hooked = {}
    /\ pc = "mark-hooks" => Raw # "none"

-----------------------------------------------------------------------------
(* The visited set covers its roots.                                         *)
LEMMA VisitsCovers ==
    ASSUME NEW r \in Graph, NEW S \in SUBSET Obj, NEW F
    PROVE  Covers(VisitsIn(r, S, F), r, S, F)
<1> DEFINE V == VisitsIn(r, S, F)
<1>1. S \ F \subseteq V
  BY DEF VisitsIn, Covers
<1>2. ASSUME NEW x \in V PROVE r[x] \ F \subseteq V
  <2>1. x \in Obj /\ r[x] \subseteq Obj
    BY <1>2 DEF VisitsIn, Graph
  <2>2. ASSUME NEW y \in r[x] \ F, NEW T \in SUBSET Obj, Covers(T, r, S, F)
        PROVE  y \in T
    <3>1. x \in T
      BY <1>2, <2>2 DEF VisitsIn
    <3> QED
      BY <2>2, <3>1 DEF Covers
  <2> QED
    BY <2>1, <2>2 DEF VisitsIn
<1> QED
  BY <1>1, <1>2 DEF Covers

(* It is the least set that does.                                            *)
LEMMA VisitsLeast ==
    ASSUME NEW r, NEW S, NEW F, NEW T \in SUBSET Obj, Covers(T, r, S, F)
    PROVE  VisitsIn(r, S, F) \subseteq T
BY DEF VisitsIn

(* Changing references outside what is reached changes nothing.              *)
LEMMA ReachAgrees ==
    ASSUME NEW r \in Graph, NEW q \in Graph, NEW S \in SUBSET Obj,
           \A x \in VisitsIn(r, S, {}) : q[x] = r[x]
    PROVE  VisitsIn(q, S, {}) = VisitsIn(r, S, {})
<1> DEFINE V == VisitsIn(r, S, {})
           W == VisitsIn(q, S, {})
<1>1. V \in SUBSET Obj /\ W \in SUBSET Obj
  BY DEF VisitsIn
<1>2. Covers(V, r, S, {}) /\ Covers(W, q, S, {})
  BY VisitsCovers
<1>3. Covers(V, q, S, {})
  BY <1>2 DEF Covers
<1>4. W \subseteq V
  BY <1>1, <1>3, VisitsLeast
<1>5. Covers(W, r, S, {})
  BY <1>2, <1>4 DEF Covers
<1>6. V \subseteq W
  BY <1>1, <1>5, VisitsLeast
<1> QED
  BY <1>4, <1>6

(* A set that holds the roots and is closed under references holds Live.     *)
LEMMA ClosedHoldsLive ==
    ASSUME NEW r, NEW S, NEW T \in SUBSET Obj,
           S \subseteq T, \A x \in T : r[x] \subseteq T
    PROVE  VisitsIn(r, S, {}) \subseteq T
<1>1. Covers(T, r, S, {})
  BY DEF Covers
<1> QED
  BY <1>1, VisitsLeast

(* What Live is, spelled out for the steps below.                            *)
LEMMA LiveFacts ==
    ASSUME TypeOK
    PROVE  /\ ref \in Graph /\ Roots \in SUBSET Obj /\ Held \in SUBSET Obj
           /\ Live \in SUBSET Obj
           /\ Roots \subseteq Live
           /\ \A x \in Live : ref[x] \subseteq Live
           /\ Reach(Held) \in SUBSET Obj
           /\ Held \subseteq Reach(Held)
           /\ \A x \in Reach(Held) : ref[x] \subseteq Reach(Held)
           /\ Reach(Held) \subseteq Live
<1>1. ref \in Graph /\ Roots \in SUBSET Obj /\ Held \in SUBSET Obj
  BY DEF TypeOK, Graph, Roots, Held
<1>2. Live = VisitsIn(ref, Roots, {}) /\ Reach(Held) = VisitsIn(ref, Held, {})
  BY DEF Live, Reach, Visits
<1>3. Live \in SUBSET Obj /\ Reach(Held) \in SUBSET Obj
  BY <1>2 DEF VisitsIn
<1>4. Covers(Live, ref, Roots, {}) /\ Covers(Reach(Held), ref, Held, {})
  BY <1>1, <1>2, VisitsCovers
<1>5. /\ Roots \subseteq Live /\ Held \subseteq Reach(Held)
      /\ \A x \in Live : ref[x] \subseteq Live
      /\ \A x \in Reach(Held) : ref[x] \subseteq Reach(Held)
  BY <1>4 DEF Covers
<1>6. Held \subseteq Roots
  BY DEF Held, Roots
<1>7. Reach(Held) \subseteq Live
  BY <1>2, <1>3, <1>5, <1>6, ClosedHoldsLive
<1> QED
  BY <1>1, <1>3, <1>5, <1>7

(* Steps that keep every reference inside Live and every root in Live keep   *)
(* Live inside Live: the programs' stores, drops and bindings.               *)
LEMMA LiveShrinks ==
    ASSUME TypeOK, ref' \in Graph, Roots' \subseteq Live,
           \A x \in Live : ref'[x] \subseteq Live
    PROVE  Live' \subseteq Live
<1>1. Live \in SUBSET Obj
  BY LiveFacts
<1>2. Live' = VisitsIn(ref', Roots', {})
  BY DEF Live, Reach, Visits
<1> QED
  BY <1>1, <1>2, ClosedHoldsLive

-----------------------------------------------------------------------------
LEMMA InvInit == Init => Inv
<1> SUFFICES ASSUME Init PROVE Inv
  OBVIOUS
<1>1. TypeOK
  BY CollectorAssumption DEF Init, TypeOK, Phases
<1>2. Roots = {} /\ \A x \in {} : ref[x] \subseteq {}
  BY DEF Init, Roots
<1>3. VisitsIn(ref, Roots, {}) \subseteq {}
  BY <1>2, ClosedHoldsLive
<1>4. Live = {}
  BY <1>3 DEF Live, Reach, Visits
<1> QED
  BY <1>1, <1>4 DEF Init, Inv, Traced, NothingLiveFreed

(* What a program or a hook does that is not an allocation leaves the heap,  *)
(* the marks and the phase alone.                                            *)
LEMMA InvProgram ==
    ASSUME Inv, TypeOK', UNCHANGED <<heap, mark, pc>>, Live' \subseteq Live,
           Traced => Reach(Held)' = Reach(Held),
           pc \in {"run", "marked"} => hooked' = hooked
    PROVE  Inv'
BY DEF Inv, Traced, NothingLiveFreed

LEMMA InvAlloc ==
    ASSUME Inv, Alloc
    PROVE  Inv'
<1> USE DEF Inv
<1> DEFINE Into(o) == {[ref EXCEPT ![o] = {x}] : x \in Live} \cup {[ref EXCEPT ![o] = {}]}
<1>1. PICK o \in Obj \ heap :
        /\ heap' = heap \cup {o}
        /\ ref' \in Into(o)
        /\ IF pc = "run" THEN framed' = framed \cup {o} /\ hooked' = hooked
                         ELSE hooked' = hooked \cup {o} /\ framed' = framed
        /\ UNCHANGED <<mark, shared, tree, roots, pc>>
  BY DEF Alloc
<1>2. /\ ref \in Graph /\ Live \in SUBSET Obj /\ Roots \subseteq Live
      /\ \A x \in Live : ref[x] \subseteq Live
      /\ Held \in SUBSET Obj /\ Reach(Held) \subseteq Live
  BY LiveFacts
<1>3. o \notin Live
  BY <1>1 DEF NothingLiveFreed
<1>4. /\ ref' \in Graph /\ ref'[o] \subseteq Live
      /\ \A x \in Obj \ {o} : ref'[x] = ref[x]
  BY <1>1, <1>2 DEF Graph
<1>5. TypeOK'
  BY <1>1, <1>4 DEF TypeOK, Graph
<1>6. Live' \subseteq Live \cup {o}
  <2>1. Roots' \subseteq Live \cup {o}
    BY <1>1, <1>2 DEF Roots
  <2>2. \A x \in Live \cup {o} : ref'[x] \subseteq Live \cup {o}
    BY <1>2, <1>3, <1>4
  <2>3. Live' = VisitsIn(ref', Roots', {})
    BY DEF Live, Reach, Visits
  <2>4. Live \cup {o} \in SUBSET Obj
    BY <1>2
  <2>5. VisitsIn(ref', Roots', {}) \subseteq Live \cup {o}
    BY <2>1, <2>2, <2>4, ClosedHoldsLive
  <2> QED
    BY <2>3, <2>5
<1>7. NothingLiveFreed'
  BY <1>1, <1>6 DEF NothingLiveFreed
<1>8. ASSUME Traced PROVE mark' = Reach(Held)'
  <2>1. Held' = Held /\ pc # "run"
    BY <1>1, <1>8 DEF Held, Traced
  <2>2. \A x \in VisitsIn(ref, Held, {}) : x \in Obj \ {o}
    BY <1>2, <1>3 DEF Reach, Visits
  <2>3. VisitsIn(ref', Held, {}) = VisitsIn(ref, Held, {})
    BY <1>2, <1>4, <2>2, ReachAgrees
  <2> QED
    BY <1>1, <1>8, <2>1, <2>3 DEF Reach, Visits
<1>9. pc # "marked"
  BY DEF Alloc, MayDo, Marking
<1> QED
  BY <1>1, <1>5, <1>7, <1>8, <1>9 DEF Traced

(* Stores by the program, or by a mark hook: never between mark and sweep.   *)
LEMMA InvStore ==
    ASSUME Restrained, Inv, Store \/ Clear
    PROVE  Inv'
<1> USE DEF Inv
<1>1. /\ ref \in Graph /\ Live \in SUBSET Obj /\ Roots \subseteq Live
      /\ \A x \in Live : ref[x] \subseteq Live
  BY LiveFacts
<1>2. /\ UNCHANGED <<heap, mark, shared, tree, framed, hooked, roots, pc>>
      /\ ref' \in Graph
      /\ \A x \in Live : ref'[x] \subseteq Live
  BY <1>1 DEF Store, Clear, Graph
<1>3. TypeOK'
  BY <1>2 DEF TypeOK, Graph
<1>4. Roots' \subseteq Live
  BY <1>1, <1>2 DEF Roots
<1>5. Live' \subseteq Live
  BY <1>2, <1>4, LiveShrinks
<1>6. ~Traced
  BY DEF Store, Clear, MayDo, Marking, Restrained, Traced
<1> QED
  BY <1>2, <1>3, <1>5, <1>6, InvProgram

(* Bindings, returning frames and registered roots move roots inside Live.   *)
LEMMA InvRoots ==
    ASSUME Restrained, Inv, Bind \/ Drop \/ AddRoot
    PROVE  Inv'
<1> USE DEF Inv
<1>1. /\ ref \in Graph /\ Live \in SUBSET Obj /\ Roots \subseteq Live
      /\ \A x \in Live : ref[x] \subseteq Live
  BY LiveFacts
<1>2. /\ UNCHANGED <<heap, ref, mark, shared, hooked, pc>>
      /\ tree' \subseteq Live /\ framed' \subseteq Live /\ roots' \subseteq Live
  BY <1>1 DEF Bind, Drop, AddRoot, Roots
<1>3. TypeOK'
  BY <1>1, <1>2 DEF TypeOK
<1>4. Roots' \subseteq Live
  BY <1>1, <1>2 DEF Roots
<1>5. Live' \subseteq Live
  BY <1>1, <1>2, <1>4, LiveShrinks
<1>6. ~Traced
  BY DEF Bind, Drop, AddRoot, MayDo, Marking, Restrained, Traced
<1> QED
  BY <1>2, <1>3, <1>5, <1>6, InvProgram

LEMMA InvPin ==
    ASSUME Inv, NEW x \in Obj, Pin(x)
    PROVE  Inv'
<1> USE DEF Inv
<1>1. /\ Live \in SUBSET Obj /\ Roots \subseteq Live
      /\ \A y \in Live : ref[y] \subseteq Live
  BY LiveFacts
<1>2. /\ UNCHANGED <<heap, ref, mark, tree, framed, hooked, roots, pc>>
      /\ shared' = shared \cup VisitsIn(ref, {x}, shared) /\ x \in Live
  BY DEF Pin, PinAll, Visits
<1>3. Covers(Live, ref, {x}, shared)
  BY <1>1, <1>2 DEF Covers
<1>4. VisitsIn(ref, {x}, shared) \subseteq heap
  BY <1>1, <1>3, VisitsLeast DEF NothingLiveFreed
<1>5. TypeOK'
  <2>1. /\ heap \in SUBSET Obj /\ mark \subseteq heap /\ shared \subseteq heap
        /\ {mark, tree, framed, hooked, roots} \subseteq SUBSET Obj
    BY DEF TypeOK
  <2>2. shared' \subseteq heap
    BY <1>2, <1>4, <2>1
  <2>3. shared' \in SUBSET Obj
    BY <2>1, <2>2
  <2> QED
    BY <1>2, <2>1, <2>2, <2>3 DEF TypeOK
<1>6. Live' = Live /\ Reach(Held)' = Reach(Held)
  BY <1>2 DEF Live, Reach, Visits, Roots, Held
<1> QED
  BY <1>2, <1>5, <1>6, InvProgram

LEMMA InvBegin ==
    ASSUME Inv, BeginCollect \/ BeginMark \/ BeginSweep
    PROVE  Inv'
<1>1. UNCHANGED <<heap, ref, mark, shared, tree, framed, hooked, roots>>
  BY DEF BeginCollect, BeginMark, BeginSweep
<1>2. Live' = Live /\ Reach(Held)' = Reach(Held)
  BY <1>1 DEF Live, Reach, Visits, Roots, Held
<1>3. /\ pc' \in {"collect-hooks", "mark-hooks", "free-hooks"}
      /\ Traced' <=> Traced
      /\ pc' = "mark-hooks" => Raw # "none"
  BY DEF BeginCollect, BeginMark, BeginSweep, Traced
<1>4. TypeOK'
  BY <1>1, <1>3 DEF Inv, TypeOK, Phases
<1> QED
  BY <1>1, <1>2, <1>3, <1>4 DEF Inv, NothingLiveFreed

(* The traversal starts from clear marks, so nothing stops it short.         *)
LEMMA InvTrace ==
    ASSUME Restrained, Inv, Trace
    PROVE  Inv'
<1> USE DEF Inv
<1>1. /\ Live \in SUBSET Obj /\ Roots \subseteq Live
      /\ ref \in Graph /\ \A x \in Live : ref[x] \subseteq Live
      /\ Reach(Held) \in SUBSET Obj /\ Reach(Held) \subseteq Live
  BY LiveFacts
<1>2. /\ UNCHANGED <<heap, ref, shared, tree, framed, roots>>
      /\ hooked' = {}
      /\ pc' \in {"marked", "free-hooks"}
      /\ Marking
  BY CollectorAssumption DEF Trace, Marking, Restrained
<1>3. mark = {}
  BY <1>2 DEF Marking, Traced
<1>4. mark' = Reach(Held)
  BY <1>3 DEF Trace, Marked, Reach, Held
<1>5. Reach(Held)' = Reach(Held)
  BY <1>2 DEF Reach, Visits, Held
<1>6. Roots' \subseteq Live
  BY <1>1, <1>2 DEF Roots
<1>7. Live' \subseteq Live
  BY <1>1, <1>2, <1>6, LiveShrinks
<1>8. TypeOK'
  BY <1>1, <1>2, <1>4 DEF TypeOK, Phases, NothingLiveFreed
<1> QED
  BY <1>2, <1>4, <1>5, <1>7, <1>8 DEF Traced, NothingLiveFreed

(* The sweep keeps what is marked, and that is all that is left to reach.    *)
LEMMA SweepKeepsLive ==
    ASSUME Inv, Sweep
    PROVE  /\ Live' = mark
           /\ mark \subseteq heap
           /\ heap' = heap \cap (Live' \cup shared)
           /\ ref' \in Graph
<1> USE DEF Inv
<1>1. /\ ref \in Graph /\ Held \in SUBSET Obj
      /\ Reach(Held) \in SUBSET Obj /\ Reach(Held) \subseteq Live
  BY LiveFacts
<1>2. /\ mark = Reach(Held) /\ heap' = heap \cap (mark \cup shared)
      /\ UNCHANGED <<shared, tree, framed, roots>> /\ hooked' = {}
      /\ ref' = [o \in Obj |-> IF o \in Retained THEN ref[o] ELSE {}]
  BY DEF Sweep, Traced, Retained
<1>3. mark \subseteq heap
  BY <1>1, <1>2 DEF NothingLiveFreed
<1>4. ref' \in Graph
  BY <1>1, <1>2 DEF Graph
<1>5. \A x \in VisitsIn(ref, Held, {}) : ref'[x] = ref[x]
  BY <1>1, <1>2, <1>3 DEF Reach, Visits, Retained
<1>6. VisitsIn(ref', Held, {}) = VisitsIn(ref, Held, {})
  BY <1>1, <1>4, <1>5, ReachAgrees
<1>7. Roots' = Held
  BY <1>2 DEF Roots, Held
<1>8. Live' = mark
  BY <1>2, <1>6, <1>7 DEF Live, Reach, Visits
<1> QED
  BY <1>2, <1>3, <1>4, <1>8

LEMMA InvSweep ==
    ASSUME Inv, Sweep
    PROVE  Inv'
<1> USE DEF Inv
<1>1. /\ Live' = mark /\ mark \subseteq heap /\ ref' \in Graph
      /\ heap' = heap \cap (mark \cup shared)
  BY SweepKeepsLive
<1>2. /\ mark' = {} /\ pc' = "run" /\ hooked' = {}
      /\ UNCHANGED <<shared, tree, framed, roots>>
  BY DEF Sweep, Cleared
<1>3. TypeOK'
  BY <1>1, <1>2 DEF TypeOK, Graph, Phases
<1> QED
  BY <1>1, <1>2, <1>3 DEF NothingLiveFreed, Traced

(* A hook that raises does so before anything is marked.                     *)
LEMMA InvRaise ==
    ASSUME Restrained, Inv, HookRaise
    PROVE  Inv'
<1> USE DEF Inv
<1>1. /\ Live \in SUBSET Obj /\ Roots \subseteq Live
      /\ ref \in Graph /\ \A x \in Live : ref[x] \subseteq Live
  BY LiveFacts
<1>2. /\ UNCHANGED <<heap, ref, mark, shared, tree, roots>>
      /\ pc' = "run" /\ hooked' = {} /\ framed' \in SUBSET framed
      /\ ~Traced
  BY DEF HookRaise, MayDo, Marking, Restrained, Traced
<1>3. Roots' \subseteq Live
  BY <1>1, <1>2 DEF Roots
<1>4. Live' \subseteq Live
  BY <1>1, <1>2, <1>3, LiveShrinks
<1>5. TypeOK'
  BY <1>2 DEF TypeOK, Phases
<1> QED
  BY <1>2, <1>4, <1>5 DEF Traced, NothingLiveFreed

LEMMA InvNext ==
    ASSUME Restrained, Inv, [Next]_vars
    PROVE  Inv'
<1>1. CASE UNCHANGED vars
  BY <1>1 DEF vars, Inv, TypeOK, NothingLiveFreed, Traced, Live, Reach, Visits, Roots, Held
<1>2. CASE Alloc
  BY <1>2, InvAlloc
<1>3. CASE Store \/ Clear
  BY <1>3, InvStore
<1>4. CASE Bind \/ Drop \/ AddRoot
  BY <1>4, InvRoots
<1>5. CASE \E x \in Obj : Pin(x)
  BY <1>5, InvPin
<1>6. CASE BeginCollect \/ BeginMark \/ BeginSweep
  BY <1>6, InvBegin
<1>7. CASE Trace
  BY <1>7, InvTrace
<1>8. CASE Sweep
  BY <1>8, InvSweep
<1>9. CASE HookRaise
  BY <1>9, InvRaise
<1> QED
  BY <1>1, <1>2, <1>3, <1>4, <1>5, <1>6, <1>7, <1>8, <1>9 DEF Next

LEMMA InvAlways ==
    ASSUME Restrained
    PROVE  Spec => []Inv
BY InvInit, InvNext, PTL DEF Spec

-----------------------------------------------------------------------------
(* Every variable keeps its type, and no object heap.c has swept carries a    *)
(* mark or a pin.                                                            *)
THEOREM CollectorTyped ==
    ASSUME Restrained
    PROVE  Spec => []TypeOK
<1>1. Inv => TypeOK
  BY DEF Inv
<1> QED
  BY <1>1, InvAlways, PTL

(* heap-collect and the paired phases of heap.c never free an object that is *)
(* reachable from the base tree, the root chain or a registered root, for    *)
(* every heap and whatever the mark hooks allocate, store or raise.          *)
THEOREM CollectorSafe ==
    ASSUME Restrained
    PROVE  Spec => []NothingLiveFreed
<1>1. Inv => NothingLiveFreed
  BY DEF Inv
<1> QED
  BY <1>1, InvAlways, PTL

(* Between collections of heap.c no object carries a mark, so the traversals *)
(* of gc-pin! and heap-tree-mark start from a clean heap.                    *)
THEOREM CollectorLeavesNoMark ==
    ASSUME Restrained
    PROVE  Spec => []NoMarkLeft
<1>1. Inv => NoMarkLeft
  BY DEF Inv, NoMarkLeft, Traced
<1> QED
  BY <1>1, InvAlways, PTL

(* The sweep phase of heap.c frees exactly what nothing reaches and nobody   *)
(* pinned: after it the chain holds the live and the pinned and no more.     *)
THEOREM CollectorExact ==
    ASSUME Restrained
    PROVE  Spec => SweepIsExact
<1>1. Inv /\ [Next]_vars => [Sweep => heap' = heap \cap (Live' \cup shared)]_vars
  BY SweepKeepsLive
<1> QED
  BY <1>1, InvAlways, PTL DEF Spec, SweepIsExact
=============================================================================
