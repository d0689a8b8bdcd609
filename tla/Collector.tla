------------------------------ MODULE Collector ------------------------------
(* The collector as the engine drives it: the mark phase with its hooks, the *)
(* sweep phase with its hooks, the raw phases a program may call by          *)
(* themselves, registered roots and pinning.  The traversal and the sweep    *)
(* loop are the object library's; they are modelled by what the engine's     *)
(* code says of them: a traversal sets one flag and takes the same flag for  *)
(* its visited test, a sweep frees what carries neither flag and clears the  *)
(* mark of the rest.                                                         *)
EXTENDS Naturals, FiniteSets

CONSTANTS
    Obj,          \* heap objects
    MaxRefs,      \* bound: references an object holds
    MarkHook,     \* what the mark hooks do: of "alloc", "store", "raise"
    FreeHook,     \* what the free hooks do
    Raw           \* the raw phases: not called ("none"), called as a pair
                  \* with nothing in between ("paired"), or heap-mark alone

ASSUME CollectorAssumption ==
    /\ MaxRefs \in Nat
    /\ MarkHook \subseteq {"alloc", "store", "raise"}
    /\ FreeHook \subseteq {"alloc", "store", "raise"}
    /\ Raw \in {"none", "paired", "mark"}

VARIABLES
    heap,         \* objects on the allocation chain
    ref,          \* the objects an object refers to
    mark,         \* objects carrying X_OBJ_FLAG_MARK
    shared,       \* objects carrying X_OBJ_FLAG_SHARED
    tree,         \* objects the base tree refers to
    framed,       \* objects on the root chain, held by frames of the program
    hooked,       \* objects on the root chain, held by the running hook
    roots,        \* objects registered with heap-mark-root!
    pc            \* "run", or the phase whose hooks are running

vars == <<heap, ref, mark, shared, tree, framed, hooked, roots, pc>>

Phases == {"run", "collect-hooks", "mark-hooks", "marked", "free-hooks"}

-----------------------------------------------------------------------------
(* The objects a traversal from S visits when it passes by those in flagged: *)
(* the least set that has the unflagged of S and is closed under unflagged   *)
(* references.                                                               *)
Covers(T, r, S, flagged) ==
    S \ flagged \subseteq T /\ \A x \in T : r[x] \ flagged \subseteq T

VisitsIn(r, S, flagged) ==
    {o \in Obj : \A T \in SUBSET Obj : Covers(T, r, S, flagged) => o \in T}

Visits(S, flagged) == VisitsIn(ref, S, flagged)
Reach(S)           == Visits(S, {})

Roots == tree \cup framed \cup hooked \cup roots
Live  == Reach(Roots)

Marking  == pc \in {"collect-hooks", "mark-hooks"}
MayDo(what) == \/ pc = "run"
               \/ Marking /\ what \in MarkHook
               \/ pc = "free-hooks" /\ what \in FreeHook

-----------------------------------------------------------------------------
(* The program, and the x-lang code of a hook.                               *)

Alloc ==
    /\ MayDo("alloc")
    /\ \E o \in Obj \ heap :
         /\ heap' = heap \cup {o}
         /\ ref' \in {[ref EXCEPT ![o] = {x}] : x \in Live} \cup {[ref EXCEPT ![o] = {}]}
         /\ IF pc = "run" THEN framed' = framed \cup {o} /\ hooked' = hooked
                          ELSE hooked' = hooked \cup {o} /\ framed' = framed
    /\ UNCHANGED <<mark, shared, tree, roots, pc>>

Store ==
    /\ MayDo("store")
    /\ \E o, x \in Live : /\ Cardinality(ref[o]) < MaxRefs
                          /\ ref' = [ref EXCEPT ![o] = @ \cup {x}]
    /\ UNCHANGED <<heap, mark, shared, tree, framed, hooked, roots, pc>>

Clear ==
    /\ MayDo("store")
    /\ \E o \in Live : ref' = [ref EXCEPT ![o] = {}]
    /\ UNCHANGED <<heap, mark, shared, tree, framed, hooked, roots, pc>>

(* A binding in the base tree: def, set!.                                    *)
Bind ==
    /\ MayDo("store")
    /\ \E x \in Live : tree' \in {tree \cup {x}, tree \ {x}}
    /\ UNCHANGED <<heap, ref, mark, shared, framed, hooked, roots, pc>>

(* A frame of the program returns: its root-chain node goes.                 *)
Drop ==
    /\ pc = "run"
    /\ \E x \in framed : framed' = framed \ {x}
    /\ UNCHANGED <<heap, ref, mark, shared, tree, hooked, roots, pc>>

(* heap-mark-root!                                                           *)
AddRoot ==
    /\ MayDo("store")
    /\ \E x \in Live : roots' = roots \cup {x}
    /\ UNCHANGED <<heap, ref, mark, shared, tree, framed, hooked, pc>>

(* gc-pin!: the collector's traversal with the SHARED flag.                  *)
PinAll(x) == shared \cup Visits({x}, shared)

Pin(x) ==
    /\ pc = "run" /\ x \in Live
    /\ shared' = PinAll(x)
    /\ UNCHANGED <<heap, ref, mark, tree, framed, hooked, roots, pc>>

-----------------------------------------------------------------------------
(* The phases.                                                               *)

(* heap-collect and heap-mark start by running the mark hooks.               *)
BeginCollect ==
    /\ pc = "run"
    /\ pc' = "collect-hooks"
    /\ UNCHANGED <<heap, ref, mark, shared, tree, framed, hooked, roots>>

BeginMark ==
    /\ pc = "run" /\ Raw # "none"
    /\ pc' = "mark-hooks"
    /\ UNCHANGED <<heap, ref, mark, shared, tree, framed, hooked, roots>>

(* The three marking passes: base tree, root chain, registered roots.        *)
MarkedTreeOnly == mark \cup Visits(tree \cup framed, mark)         \* fault
Marked         == mark \cup Visits(tree \cup framed \cup roots, mark)

Trace ==
    /\ Marking
    /\ hooked' = {}
    /\ mark' = Marked
    /\ pc' = CASE pc = "collect-hooks" -> "free-hooks"
              [] pc = "mark-hooks"    -> IF Raw = "paired" THEN "marked" ELSE "run"
    /\ UNCHANGED <<heap, ref, shared, tree, framed, roots>>

(* heap-sweep, right after heap-mark.                                        *)
BeginSweep ==
    /\ pc = "marked"
    /\ pc' = "free-hooks"
    /\ UNCHANGED <<heap, ref, mark, shared, tree, framed, hooked, roots>>

(* What a sweep leaves on the chain.                                         *)
RetainedUnshared == heap \cap mark                                    \* fault
RetainedNew      == heap \cap (mark \cup shared \cup hooked)           \* fault
Retained         == heap \cap (mark \cup shared)

ClearedNone == mark                                                   \* fault
Cleared     == {}

Sweep ==
    /\ pc = "free-hooks"
    /\ hooked' = {}
    /\ heap' = Retained
    /\ ref' = [o \in Obj |-> IF o \in Retained THEN ref[o] ELSE {}]
    /\ mark' = Cleared
    /\ pc' = "run"
    /\ UNCHANGED <<shared, tree, framed, roots>>

(* A hook raises: the longjmp leaves the phase for the program's guard,      *)
(* which drops some of the frames.                                           *)
HookRaise ==
    /\ MayDo("raise") /\ pc # "run"
    /\ pc' = "run"
    /\ hooked' = {}
    /\ framed' \in SUBSET framed
    /\ UNCHANGED <<heap, ref, mark, shared, tree, roots>>

-----------------------------------------------------------------------------
Init ==
    /\ heap = {} /\ ref = [o \in Obj |-> {}]
    /\ mark = {} /\ shared = {}
    /\ tree = {} /\ framed = {} /\ hooked = {} /\ roots = {}
    /\ pc = "run"

Next ==
    \/ Alloc \/ Store \/ Clear \/ Bind \/ Drop \/ AddRoot
    \/ \E x \in Obj : Pin(x)
    \/ BeginCollect \/ BeginMark \/ Trace \/ BeginSweep \/ Sweep \/ HookRaise

Spec == Init /\ [][Next]_vars

-----------------------------------------------------------------------------
(* Every variable holds a value of its kind, and a flag, being a bit in an   *)
(* object's header, is carried by an object that has not been freed.         *)
TypeOK ==
    /\ {heap, mark, shared, tree, framed, hooked, roots} \subseteq SUBSET Obj
    /\ mark \cup shared \subseteq heap
    /\ ref \in [Obj -> SUBSET Obj]
    /\ pc \in Phases

(* Nothing a program can still get at has been freed, whatever the mark      *)
(* hooks allocated, stored or registered in the middle of the cycle, and     *)
(* whatever a raising hook cut short.                                        *)
NothingLiveFreed == Live \subseteq heap

(* A finished or abandoned cycle leaves no mark behind: the next traversal   *)
(* takes a mark for a visited object and would stop short at it.             *)
NoMarkLeft == pc = "run" => mark = {}

(* The sweep of a collection frees exactly the garbage: afterwards the chain *)
(* has what is reachable and what is pinned, nothing else.                   *)
SweepIsExact == [][Sweep => heap' = heap \cap (Live' \cup shared)]_vars
=============================================================================
