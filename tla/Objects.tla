------------------------------ MODULE Objects -------------------------------
(***************************************************************************)
(* Objects, what their types declare of their units, and the collector     *)
(* that goes by it: the constructors of typed objects, type make and       *)
(* set-unit-labels!, child bases and the types they make, iterators, the   *)
(* traversal of x_type_heap_mark and the sweep's free callbacks.           *)
(*                                                                         *)
(* An object is known by its place in the order of allocation, which the   *)
(* sweep follows backwards.  A word is an object, Nil, Static (an object   *)
(* that is on no chain and refers to nothing), or Raw, an address no       *)
(* object has.  The built-in types are in the base tree and always live;   *)
(* the base that collects is the host, and roots are what it holds and the *)
(* types it has registered.  A mark handler that is a closure is one that  *)
(* applies tree-mark! to the first unit of what it is given.               *)
(***************************************************************************)
EXTENDS Integers, Sequences, FiniteSets

CONSTANTS
    Programs,       \* the programs run: sequences of operations
    Decls,          \* the unit declarations a program gives its types
    Sizes,          \* bound: the sizes make-obj is asked for
    DescribedMax    \* X_TYPE_UNIT_DESCRIBED_MAX

Nil    == 0
Raw    == -1
Static == -2

VARIABLES
    program,    \* the operations still to come
    objs,       \* every object allocated, in order
    freed,      \* those the sweep has freed
    held,       \* those a variable or a frame of the program holds
    registry,   \* the type structs in the base's type alist
    flagged,    \* those that carry X_OBJ_FLAG_MARK, and X_OBJ_FLAG_SHARED
    flag,       \* the flag a traversal sets
    todo,       \* the words it has still to take
    then,       \* what it was begun for: "sweep", or nothing more, "run"
    pc,         \* "run", "mark", "sweep", "crashed"
    at,         \* the object the sweep has come to
    drives,     \* the iterators whose step closures are running
    honest,     \* no traversal was begun over what its types do not describe
    pinned      \* what a pin has promised to keep

heap == <<objs, freed, held, registry>>
trace == <<flagged, flag, todo, then, pc, at>>
history == <<honest, pinned>>
vars == <<program, heap, trace, drives, history>>

Ids  == 1..Len(objs)

------------------------------------------------------------------------------
(* Declarations: a count, -k for k units and as many more as the first one *)
(* holds, and labels, none where the slot is the bare count.               *)
Bare(n)   == [count |-> n, labels |-> <<>>]
PairUnits == Bare(2)
NoUnits   == Bare(0)

Object(type, units) ==
    [type |-> type, of |-> Nil, units |-> units, val |-> 0, decl |-> NoUnits]
IntObj(n)  == [Object("int", <<Raw>>) EXCEPT !.val = n]
Struct(decl, mark) == [Object("struct", <<mark>>) EXCEPT !.decl = decl]
Instance(t, units) == [Object("made", units) EXCEPT !.of = t]

VectorUnits == Bare(-1)
DeclOf(o) ==
    CASE o.type = "made"   -> objs[o.of].decl
      [] o.type = "iter"   -> PairUnits
      [] o.type = "vector" -> VectorUnits
      [] OTHER             -> NoUnits

(* x_type_units_described, and the label of a unit under the repeat rule.  *)
Lesser(m, n) == IF m < n THEN m ELSE n
Described(d) ==
    Lesser(IF d.count < 0 THEN 1 - d.count ELSE d.count, DescribedMax)

(* A mask is a word: it has a label for each unit described.               *)
ASSUME ObjectsAssumption ==
    /\ DescribedMax \in Nat /\ Sizes \subseteq Nat
    /\ Decls \subseteq [count : Int, labels : Seq({"ref", "word"})]
    /\ \A d \in Decls : d.labels = <<>> \/ Len(d.labels) >= Described(d)

MaskAt(d, i) == IF i \in DOMAIN d.labels THEN d.labels[i] ELSE "ref"
(* A variant the checks reject: no repeat rule.                            *)
UnitLabelUnrepeated(d, i) == MaskAt(d, i)
UnitLabel(d, i) ==
    IF Described(d) < 1 THEN "ref" ELSE MaskAt(d, Lesser(i, Described(d)))

(* The length a dynamically sized object's first unit holds.               *)
IsObj(w)    == w \in Ids /\ w \notin freed
Measured(o) == o.units # <<>> /\ IsObj(o.units[1]) /\ objs[o.units[1]].type = "int"
Units(o) ==
    LET n == DeclOf(o).count IN
    IF n < 0 THEN objs[o.units[1]].val - n ELSE n

------------------------------------------------------------------------------
(* What is live: what the program can get at, through any word of a live   *)
(* object and through its type.                                            *)
Refers(o) == {w \in Ids : w = o.of \/ \E i \in DOMAIN o.units : o.units[i] = w}
Roots     == held \cup registry
ReachedFrom(S) ==
    LET Reached[n \in 0..Len(objs)] ==
            IF n = 0 THEN S
            ELSE Reached[n - 1] \cup UNION {Refers(objs[i]) : i \in Reached[n - 1]}
    IN Reached[Len(objs)]
Live == ReachedFrom(Roots)

(* Whether an object is what its type says: a reference unit is an object, *)
(* an object is in a reference unit, and the length is one.                *)
LabelMeant(d, i) ==
    LET last == IF d.count < 0 THEN -d.count + 1 ELSE d.count
        told == {j \in 1..last : j <= DescribedMax /\ j <= i}
    IN IF told = {} \/ d.labels = <<>> THEN "ref"
       ELSE d.labels[CHOOSE j \in told : \A k \in told : k <= j]
Fits(o) ==
    LET d == DeclOf(o) IN
    /\ d.count < 0 => Measured(o)
    /\ \A i \in 1..Units(o) :
          LabelMeant(d, i) = "ref" => i <= Len(o.units) /\ o.units[i] # Raw
    /\ \A i \in DOMAIN o.units :
          o.units[i] > 0 => i <= Units(o) /\ LabelMeant(d, i) = "ref"
MarksItself(o) == o.type = "made" /\ objs[o.of].units[1] # Nil
Sound(o) ==
    CASE o.type \in {"pair", "base", "struct"} -> \A i \in DOMAIN o.units : o.units[i] # Raw
      [] o.type = "procedure" -> o.units[1] <= 0 /\ o.units[2] # Raw
      [] o.type \in {"int", "buffer", "slots"} -> TRUE
      [] MarksItself(o) -> o.units # <<>> /\ o.units[1] # Raw /\ \A i \in 2..Len(o.units) : o.units[i] <= 0
      [] OTHER -> Fits(o)
Inner(w) == IsObj(w) /\ objs[w].type = "buffer" /\ objs[w].units[2] = Raw
AllSound(ws) ==
    /\ \A i \in Live : /\ Sound(objs[i])
                       /\ objs[i].type # "buffer" => \A w \in Refers(objs[i]) : ~Inner(w)
    /\ \A k \in DOMAIN ws : ~Inner(ws[k])
    /\ \A k \in DOMAIN drives : drives[k].iter \in Live

------------------------------------------------------------------------------
(* The program.                                                            *)

Init ==
    /\ program \in Programs
    /\ objs = <<>> /\ freed = {} /\ held = {} /\ registry = {}
    /\ flagged = [mark |-> {}, shared |-> {}] /\ flag = "mark" /\ todo = <<>>
    /\ then = "run"
    /\ pc = "run" /\ at = 0
    /\ drives = <<>> /\ honest = TRUE /\ pinned = {}

Runs(op) ==
    /\ pc = "run" /\ program # <<>> /\ Head(program) = op
    /\ program' = Tail(program)

Values == {Nil} \cup Live

(* Objects are allocated, the last of them for the program.                *)
Alloc(os) ==
    /\ objs' = objs \o os
    /\ held' = held \cup {Len(objs) + Len(os)}
    /\ UNCHANGED <<freed, trace, drives, history>>

MakePair ==
    /\ Runs("pair")
    /\ \E x, y \in Values : Alloc(<<Object("pair", <<x, y>>)>>)
    /\ UNCHANGED registry

(* fn: the C function, and the state a list of what the closure keeps.     *)
MakeProcedure ==
    /\ Runs("fn")
    /\ \E x \in Values : Alloc(<<Object("pair", <<x, Nil>>),
                                 Object("procedure", <<Raw, Len(objs) + 1>>)>>)
    /\ UNCHANGED registry

(* x_make_vector: the elements, and then the length's own object.          *)
MakeVector ==
    /\ Runs("vector")
    /\ \E n \in 0..2 : \E es \in [1..n -> Values] :
          /\ objs' = objs \o <<Object("vector", <<Len(objs) + 2>> \o es), IntObj(n)>>
          /\ held' = held \cup {Len(objs) + 1}
    /\ UNCHANGED <<freed, registry, trace, drives, history>>

(* x_type_buffer_make: the inner first.                                    *)
MakeBuffer ==
    /\ Runs("buffer")
    /\ Alloc(<<Object("buffer", <<Raw, Raw>>), Object("buffer", <<Raw, Len(objs) + 1>>)>>)
    /\ UNCHANGED registry

(* make-type: pair units unless the handlers say otherwise; a mark handler *)
(* that is a closure, or none; and the alist takes it.                     *)
Handlers == {Nil} \cup {i \in Live : objs[i].type = "procedure"}

MakeType ==
    /\ Runs("type")
    /\ \E d \in Decls \cup {PairUnits}, mark \in Handlers :
          objs' = Append(objs, Struct(d, mark))
    /\ registry' = registry \cup {Len(objs')}
    /\ UNCHANGED <<freed, held, trace, drives, history>>

SetUnitLabels ==
    /\ Runs("labels")
    /\ \E t \in Live, d \in Decls :
          /\ objs[t].type = "struct" /\ d.labels # <<>>
          /\ objs' = [objs EXCEPT ![t].decl = d]
    /\ UNCHANGED <<freed, held, registry, trace, drives, history>>

(* The types a handle is found for: those of the base that runs, the host  *)
(* or a child that is asked to make the instance.                          *)
Found == registry \cup {t \in Live : /\ objs[t].type = "struct"
                                     /\ \E b \in Live : /\ objs[b].type = "base"
                                                        /\ t \in Refers(objs[b])}

MakeInstance ==
    /\ Runs("instance")
    /\ \E t \in Found, x \in Values : Alloc(<<Instance(t, <<x, Nil>>)>>)
    /\ UNCHANGED registry

MakeObj ==
    /\ Runs("obj")
    /\ \E t \in Found, n \in Sizes : Alloc(<<Instance(t, [i \in 1..n |-> Nil])>>)
    /\ UNCHANGED registry

(* (int n), for a unit that is to hold a length.                           *)
MakeInt ==
    /\ Runs("int")
    /\ \E n \in 0..1 : Alloc(<<IntObj(n)>>)
    /\ UNCHANGED registry

(* obj->ptr and ptr-set-word!: any unit, any word.                         *)
Settable == {i \in Live : objs[i].type \in {"pair", "vector", "made"}}

PtrSet ==
    /\ Runs("set")
    /\ \E i \in Settable : \E u \in DOMAIN objs[i].units, w \in Values \cup {Raw} :
          objs' = [objs EXCEPT ![i].units[u] = w]
    /\ UNCHANGED <<freed, held, registry, trace, drives, history>>

(* x_type_prim_units: the declared count, or what the object holding the   *)
(* length says.                                                            *)
Lengthless(o) == DeclOf(o).count < 0 /\ (o.units = <<>> \/ ~IsObj(o.units[1]))

AskUnits ==
    /\ Runs("units")
    /\ \E i \in Live :
          /\ objs[i].type \in {"made", "vector", "iter"}
          /\ pc' = IF Lengthless(objs[i]) THEN "crashed" ELSE pc
          /\ honest' = (honest /\ (DeclOf(objs[i]).count < 0 =>
                                      objs[i].units # <<>> /\ objs[i].units[1] > 0))
    /\ UNCHANGED <<heap, flagged, flag, todo, then, at, drives, pinned>>

Drop ==
    /\ Runs("drop")
    /\ \E i \in held : held' = held \ {i}
    /\ UNCHANGED <<objs, freed, registry, trace, drives, history>>

------------------------------------------------------------------------------
(* Child bases.  A base's tree is what it binds and the types it has.      *)

(* x_eval_make: its slot vector, which has no type, among them.  The tree's *)
(* nodes and the slot vector are SHARED from the start, and stay for good. *)
MakeBase ==
    /\ Runs("base")
    /\ objs' = objs \o <<Object("base", <<Len(objs) + 2>>), Object("slots", <<Static, Raw>>)>>
    /\ held' = held \cup {Len(objs) + 1}
    /\ flagged' = [flagged EXCEPT !.shared = @ \cup {Len(objs) + 2}]
    /\ UNCHANGED <<freed, registry, flag, todo, then, pc, at, drives, history>>

LiveBases == {b \in Live : objs[b].type = "base"}

BaseBind ==
    /\ Runs("bind")
    /\ \E b \in LiveBases, x \in Live :
          objs' = [objs EXCEPT ![b].units = Append(@, x)]
    /\ UNCHANGED <<freed, held, registry, trace, drives, history>>

(* make-type run in a child with base-eval: nothing is pinned.             *)
ChildMakesType ==
    /\ Runs("child-type")
    /\ \E b \in LiveBases, d \in {PairUnits} \cup Decls :
          objs' = Append([objs EXCEPT ![b].units = Append(@, Len(objs) + 1)], Struct(d, Nil))
    /\ UNCHANGED <<freed, held, registry, trace, drives, history>>

BeginTraversal(ws, f, next) ==
    /\ flag' = f
    /\ todo' = ws
    /\ then' = next
    /\ pc' = "mark"
    /\ honest' = (honest /\ AllSound(ws) /\ (next = "sweep" => flagged.mark = {}))

(* A pin promises to keep what it reaches.  It passes over what an earlier *)
(* one has pinned, so only one that meets nothing pinned promises.         *)
Promise(S) ==
    pinned' = IF S \cap flagged.shared = {} THEN pinned \cup S ELSE pinned

(* base-make-type: the target is pinned, and the struct with all under it. *)
BaseMakeType ==
    /\ Runs("base-type")
    /\ \E b \in LiveBases, mark \in Handlers :
          /\ objs' = Append([objs EXCEPT ![b].units = Append(@, Len(objs) + 1)],
                            Struct(PairUnits, mark))
          /\ flagged' = [flagged EXCEPT !.shared = @ \cup {b}]
          /\ Promise({b, Len(objs) + 1} \cup ReachedFrom({mark} \ {Nil}))
    /\ BeginTraversal(<<Len(objs) + 1>>, "shared", "run")
    /\ UNCHANGED <<freed, held, registry, at, drives>>

------------------------------------------------------------------------------
(* Iterators: a step and a state.  A C step takes a cell and changes it, a *)
(* closure is applied to the state and answers a pair or nil.              *)

MakeIter ==
    /\ Runs("iter")
    /\ \E step \in {Static} \cup (Handlers \ {Nil}), state \in Values :
          Alloc(<<Object("iter", <<step, state>>)>>)
    /\ UNCHANGED registry

LiveIters(step) == {i \in Live : objs[i].type = "iter" /\ objs[i].units[1] \in step}
ListState(i)    == IsObj(objs[i].units[2]) /\ objs[objs[i].units[2]].type = "pair"
Yields(w)       == held' = held \cup ({w} \cap Ids)

(* x_type_list_iter: nil yields nil and stays.                             *)
IterNext ==
    /\ Runs("next")
    /\ \E i \in LiveIters({Static}) :
          LET s == objs[i].units[2] IN
          \/ s = Nil /\ UNCHANGED <<objs, held>>
          \/ /\ ListState(i)
             /\ objs' = [objs EXCEPT ![i].units[2] = objs[s].units[2]]
             /\ Yields(objs[s].units[1])
    /\ UNCHANGED <<freed, registry, trace, drives, history>>

(* x_type_iter_step: a pair of the value and another iterator.             *)
Stepped(i, value, next) ==
    <<Object("iter", <<objs[i].units[1], next>>), Object("pair", <<value, Len(objs) + 1>>)>>

IterStep ==
    /\ Runs("step")
    /\ \E i \in LiveIters({Static}) :
          LET s == objs[i].units[2] IN
          \/ s = Nil /\ UNCHANGED <<objs, freed, held, trace, drives, history>>
          \/ ListState(i) /\ Alloc(Stepped(i, objs[s].units[1], objs[s].units[2]))
    /\ UNCHANGED registry

(* A closure's step begins: what it does is the program's next operations. *)
IterCall ==
    /\ Runs("call")
    /\ \E i \in LiveIters(Ids), how \in {"next", "step"} :
          /\ how = "step" => objs[i].units[2] # Nil
          /\ drives' = Append(drives, [iter |-> i, how |-> how])
    /\ UNCHANGED <<heap, trace, history>>

(* It returns nil, or a pair of a value and the next state, and the driver *)
(* writes its box, or makes another: of an iterator that it has held in a  *)
(* C local alone, while the closure ran.                                   *)
Returns(d) ==
    /\ Runs("return") /\ drives # <<>>
    /\ d = drives[Len(drives)]
    /\ drives' = SubSeq(drives, 1, Len(drives) - 1)
    /\ UNCHANGED <<freed, registry, flagged, flag, todo, then, at, history>>
Answers == {q \in Live : objs[q].type = "pair"}

IterReturn ==
    \E d \in {drives[k] : k \in DOMAIN drives} :
        /\ Returns(d)
        /\ \/ /\ d.how = "step"        \* exhausted: nil
              /\ UNCHANGED <<objs, held, pc>>
           \/ /\ d.iter \in freed
              /\ pc' = "crashed"
              /\ UNCHANGED <<objs, held>>
           \/ /\ d.iter \notin freed /\ d.how = "next"
              /\ \/ /\ objs' = [objs EXCEPT ![d.iter].units[2] = Nil]
                    /\ UNCHANGED held
                 \/ \E p \in Answers :
                       /\ objs' = [objs EXCEPT ![d.iter].units[2] = objs[p].units[2]]
                       /\ Yields(objs[p].units[1])
              /\ UNCHANGED pc
           \/ /\ d.iter \notin freed /\ d.how = "step"
              /\ \E p \in Answers :
                    objs' = objs \o Stepped(d.iter, objs[p].units[1], objs[p].units[2])
              /\ held' = held \cup {Len(objs')}
              /\ UNCHANGED pc

------------------------------------------------------------------------------
(* The traversal, x_heap_tree_mark and x_type_heap_mark under it.          *)

(* heap-collect and gc-pin!.  A set of objects as words to take.           *)
OrderOf(S) == [i \in Ids |-> IF i \in S THEN i ELSE Nil]

Collect ==
    /\ Runs("collect")
    /\ BeginTraversal(OrderOf(Roots), "mark", "sweep")
    /\ UNCHANGED <<heap, flagged, at, drives, pinned>>

Pin ==
    /\ Runs("pin")
    /\ \E i \in Live : /\ BeginTraversal(<<i>>, "shared", "run")
                      /\ Promise(ReachedFrom({i}))
    /\ UNCHANGED <<heap, flagged, at, drives>>

(* tree-mark! with the collector's own flag, which nothing then clears but *)
(* chain-clear!.                                                           *)
TreeMark ==
    /\ Runs("tree-mark")
    /\ \E i \in Live : BeginTraversal(<<i>>, "mark", "run")
    /\ UNCHANGED <<heap, flagged, at, drives, pinned>>

ChainClear ==
    /\ Runs("chain-clear")
    /\ flagged' = [flagged EXCEPT !.mark = {}]
    /\ UNCHANGED <<heap, flag, todo, then, pc, at, drives, history>>

(* What is taken of the units of a generically traversed object, nothing   *)
(* for a word unit.                                                        *)
RefUnits(o) ==
    [i \in 1..Units(o) |-> IF UnitLabel(DeclOf(o), i) = "ref" THEN o.units[i] ELSE Nil]

(* The mark handlers in C: a callable's second unit; a buffer's inner,     *)
(* which is flagged there and then.                                        *)
CallableMarks(o) == <<o.units[2]>>
BufferMarks(o)   == IF o.units[2] = Nil THEN {} ELSE {o.units[2]}

(* Reading the length of what has none, a reference past the last unit, a  *)
(* flag set through what is not an object.                                 *)
Unreadable(o) ==
    CASE o.type = "buffer" -> o.units[2] = Raw
      [] o.type \in {"pair", "base", "struct", "int", "slots", "procedure"} -> FALSE
      [] MarksItself(o) -> o.units = <<>>
      [] OTHER -> \/ DeclOf(o).count < 0 /\ ~Measured(o)
                  \/ \E i \in Len(o.units) + 1 .. Units(o) : UnitLabel(DeclOf(o), i) = "ref"

(* A base's tree: the flag is also the test of what was visited, so one    *)
(* that sets SHARED stops at the tree's first node.                        *)
TreeMarks(o) == IF flag = "shared" THEN <<>> ELSE o.units

(* What an object has marked, in order: a base its tree, a typed object    *)
(* its type first, then what the handler marks or the reference units.  A  *)
(* closure is the program's: here it tree-marks the first unit.            *)
(* First a variant the checks reject: not the type.                        *)
FollowsUntyped(o) ==
    CASE o.type \in {"pair", "struct"} -> o.units
      [] o.type = "base" -> TreeMarks(o)
      [] o.type = "procedure" -> CallableMarks(o)
      [] o.type \in {"int", "buffer", "slots"} -> <<>>
      [] MarksItself(o) -> <<o.units[1]>>
      [] OTHER -> RefUnits(o)
Follows(o) ==
    CASE o.type \in {"pair", "struct"} -> o.units
      [] o.type = "base" -> TreeMarks(o)
      [] o.type = "procedure" -> CallableMarks(o)
      [] o.type \in {"int", "buffer", "slots"} -> <<>>
      [] MarksItself(o) -> <<o.of, o.units[1]>>
      [] OTHER -> <<o.of>> \o RefUnits(o)

Skip(w) == w \in {Nil, Static} \/ w \in flagged[flag]

(* A word is taken: passed over, or the end of the process, or flagged,    *)
(* with what follows from it to take before the rest.                      *)
Marking == pc = "mark" /\ todo # <<>>

Readable(w) == IsObj(w) /\ ~Unreadable(objs[w])

PassOver ==
    /\ Marking /\ Skip(Head(todo))
    /\ todo' = Tail(todo)
    /\ UNCHANGED <<program, heap, flagged, flag, then, pc, at, drives, history>>

Misread ==
    /\ Marking /\ ~Skip(Head(todo)) /\ ~Readable(Head(todo))
    /\ pc' = "crashed"
    /\ UNCHANGED <<program, heap, flagged, flag, todo, then, at, drives, history>>

MarkObject ==
    /\ Marking /\ ~Skip(Head(todo)) /\ Readable(Head(todo))
    /\ LET o == objs[Head(todo)] IN
       /\ flagged' = [flagged EXCEPT ![flag] = @ \cup {Head(todo)} \cup
                         (IF o.type = "buffer" THEN BufferMarks(o) ELSE {})]
       /\ todo' = Follows(o) \o Tail(todo)
       /\ objs' = IF MarksItself(o) THEN Append(objs, IntObj(0)) ELSE objs
    /\ UNCHANGED <<program, freed, held, registry, flag, then, pc, at, drives, history>>

(* A variant the checks reject: the newest object is not looked at.        *)
HeadSkipped == Len(objs) - 1
StartOfSweep == Len(objs)

Traversed ==
    /\ pc = "mark" /\ todo = <<>>
    /\ pc' = then
    /\ at' = StartOfSweep
    /\ UNCHANGED <<program, heap, flagged, flag, todo, then, drives, history>>

------------------------------------------------------------------------------
(* The sweep: from the newest object, what carries neither flag is freed,  *)
(* by the free callback of its type, which is read for it.                 *)
(* A variant the checks reject: the pins not looked at.                    *)
KeptMarked(i) == i \in flagged.mark
Kept(i) == i \in flagged.mark \cup flagged.shared
TypeGone(i) == objs[i].type = "made" /\ objs[i].of \in freed

SweepOne ==
    /\ pc = "sweep" /\ at > 0
    /\ at' = at - 1
    /\ freed' = IF Kept(at) THEN freed ELSE freed \cup {at}
    /\ flagged' = [flagged EXCEPT !.mark = @ \ {at}]
    /\ pc' = IF at \notin freed /\ ~Kept(at) /\ TypeGone(at) THEN "crashed" ELSE pc
    /\ UNCHANGED <<program, objs, held, registry, flag, todo, then, drives, history>>

Swept ==
    /\ pc = "sweep" /\ at = 0
    /\ pc' = "run"
    /\ UNCHANGED <<program, heap, flagged, flag, todo, then, at, drives, history>>

Next ==
    \/ MakePair \/ MakeProcedure \/ MakeVector \/ MakeBuffer \/ MakeInt
    \/ MakeType \/ SetUnitLabels \/ MakeInstance \/ MakeObj \/ AskUnits \/ PtrSet \/ Drop
    \/ MakeBase \/ BaseBind \/ ChildMakesType \/ BaseMakeType
    \/ MakeIter \/ IterNext \/ IterStep \/ IterCall \/ IterReturn
    \/ Collect \/ Pin \/ TreeMark \/ ChainClear \/ PassOver \/ Misread \/ MarkObject \/ Traversed
    \/ SweepOne \/ Swept

Spec == Init /\ [][Next]_vars

------------------------------------------------------------------------------
(* Properties.                                                             *)

(* The process only ends where a traversal was begun over what its types   *)
(* did not describe, a length was asked of what has none, or a collection  *)
(* was begun with a mark left over: never because the repeat rule, a       *)
(* relabelled type, a dynamic size, a child's type or an iterator in the   *)
(* middle of a step made the collector or a driver read what it must not.  *)
CrashesForCause == pc = "crashed" => ~honest

(* What the program can still reach, through a value, its type, a base, a  *)
(* callable's state or what is pinned for it, is not freed by any          *)
(* collection.                                                             *)
LiveStays == honest => Live \cap freed = {}

(* What gc-pin! or base-make-type reached stays for good, whether or not   *)
(* the program still can.                                                  *)
PinsHold == honest => pinned \cap freed = {}

(* When a sweep is over, all that is left on the chain is live or was      *)
(* pinned: what a mark handler allocated in the traversal is gone, a dead  *)
(* child's slot vector is not.                                             *)
CollectsTheRest ==
    [][Swept /\ honest => Ids \ freed = Live \cup flagged.shared]_vars
=============================================================================
