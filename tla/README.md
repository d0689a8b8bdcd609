# A TLA+ verification of x-engine-c

x-engine-c is the C engine of x-lang: an evaluator, its primitives and a reader,
on the object, type and heap machinery of the x-expr submodule. This directory
holds TLA+ models of the engine, the TLC runs that check them on small instances,
and TLAPS proofs of what matters most for every instance. `PROJECT.json` ties every
definition to the lines it models, every property to a mutation of the model that
breaks it, and lists the hazards the properties are for.

Paths below are relative to the repository; `x-eval.c` means `src/x-eval.c`.

## 1. The system

One C process, one thread, one C stack. A *base* is an object holding the
interpreter's registers; a program makes more of them, and evaluations in several
bases nest on the same C stack. Three things make the engine hard:

* **Non-local exits.** `guard` is a setjmp, an error is a longjmp, and a continuation
  copies C stack back over itself. Every cleanup that a normal return would have made
  has to be made by the landing site.
* **A precise collector over a C stack.** A C local is not a root. What a frame will
  use after an evaluation must be on the save-stack, in a register or on the root
  chain, a list threaded through C frames. Collections happen only when a program asks
  for one, but a program may ask anywhere, hooks of the collector included.
* **Reflection.** A program may read and replace the interpreter's registers, mark and
  sweep by hand, evaluate in its caller's scope, and write its own heap to an image.

| component | state | operations | shares with | correct when |
|---|---|---|---|---|
| evaluator: `x-eval.c`, `x-tco.c`, `x-toplevel.c`, `x-type/{list,procedure,operative,prim}.c`, `x-prim/core.c` | registers env, save-stack, tco-expr, tco-env; kept environments in C frames; nodes on the root chain | x_eval and its trampoline, body walkers, calls, apply, eval, eval!, tail-eval, load | heap (roots), guards, continuations | every evaluation gives its caller back environment, save-stack and handler; what it will restore is rooted |
| guards and errors: `x-syntax/control.c`, end of `x-eval.c` | the handler, displaced handlers in C locals, jmp_bufs | guard, error, uncaught error | all components with state in C frames | the innermost guard catches; every register is as it was at the guard |
| continuations: `x-prim/callcc.c` | copied stack, registers, chain | call/cc, invoke | evaluator, input, bases | the state is the one captured |
| child bases: `x-prim/base.c` | per-base registers, a list of handler cells | make-base, base-eval, base-bind, base make-type | guards, collector, symbols | errors cross bases to the innermost guard; marks walk live frames |
| environments and symbols: `x-env.c`, `x-alist.c`, `x-type/symbol.c` | scope frames, search trees of roots and of the symbol table | intern, make, extend, look up, bind, assign | evaluator, bases | a map per scope, one symbol per spelling and base |
| collector: `x-prim/heap.c` | mark and shared flags, chain, registered roots, hooks | collect, raw mark and sweep, pin, register a root | everything | frees the garbage and nothing else |
| types and operators: `x-type.c`, `x-type/*`, `x-prim/{type,arith,pred}.c` | per-type ops and from alists, unit labels | make-type, set-unit-labels!, operator dispatch, save, load | collector, images, symbols | the handler the documented rules choose is called |
| objects: `x-type.c:540-690`, `x-type/{iter,vector}.c`, `x-vector.c`, `x-prim/{base,heap,iter}.c` | units, types, flags; what a frame holds of an iterator while its closure runs | make, store into any unit, step, mark by labels, pin, sweep | types, collector, child bases | the traversal reads no more and no less than the units hold |
| reader: `x-token.c`, `x-token/sexp/*` | buffer cursors, line counter | score, choose, reread, read lists | input, types | what was written is read; lines are right; ends are told apart |
| input: `x-cli.c`, `x-type/buffer.c`, `x-prim/{buffer,io}.c` | stacks of descriptors, buffers and lines; the end-of-input latch | include, read, end, fail | reader, guards, signals | reads come from the frame's own input; no descriptor leaks |
| signals: `opt/x-prim/signal.c` | the SIGINT flag, caught-signal counters | arrive, take | input, evaluator | an interrupt is handled once, and only an interrupt is silent |
| images: `x-prim/image.c` | object table, bytes section, hash tables | write, rebuild | types, heap | the graph comes back; sections are not overrun |
| strings, JIT wrappers, contract gates, most foreign functions | none or little | - | - | not modelled, see section 8 |

The interactions that matter: the reader calls readers registered on types, which
read a buffer, which reads the descriptor on top of the input stack; include runs a
whole read-eval loop between its push and its pop; guard cuts back the evaluator's
chain, the save-stack and the input stacks; the collector runs program code in its
hooks; base-eval pushes a handler cell on one base and re-raises in another.

`PROJECT.json` has the full list of hazards, each at its line, with the properties that
would catch it or the reason none does.

## 2. The modules

| module | models | state ↔ code |
|---|---|---|
| `Evaluator` | one activation of x_eval and the handler it runs per frame; every form that touches the registers is an action | `env`, `saveStack`, `tcoExpr`, `tcoEnv`, `handler` are the base's registers; `chain` the root chain; `frames`, `depth` the C stack and its locals; `parent` the environments; `swept` what a collection freed; `cont` the one continuation held |
| `EvalContract` | what x_eval promises a caller, with no trampoline: activations that answer with what they were given | `acts`, `cur`, `held` |
| `EvaluatorContract` | the refinement: reads off the C stack what each activation will leave | instance of `EvalContract` |
| `Collector` | the two phases and their hooks, raw phases, roots, pinning | `mark` and `shared` are flag bits; `framed` and `hooked` the root chain; `tree` the base's fields; `pc` the phase |
| `Input` | include's and guard's frames, the latch, reads that end, fail or are interrupted | `filein`, `buffer`, `line` are the heads' stacks; `latched` the complemented descriptors; `open`, `sigint`, `exited` the process |
| `Objects` | constructors, declarations of units, child bases, iterators; the mark traversal word by word and the sweep object by object | `objs` the objects in the order of the heap chain, their units and types; `freed` what left the chain; `held` and `registry` the roots; `flagged` the two flag bits; `todo` the C stack of x_heap_tree_mark; `drives` the C frames of x_type_iter_next and x_type_iter_step; `honest` and `pinned` record history |
| `Reader` | x_token_read: scoring, choosing, rereading, list reading, character by character (bytes), from a stream or a string | the buffer's cursors and line; the list readers' frames |
| `ReaderPromise` | what a reader promises of the forms it hands over; Reader extends it | the text; `forms`, what has been handed over |
| `Image` | writer and loader of state images, pass by pass | `heap`, the table and bytes under construction, the cache of names, both open-addressing tables |
| `ImageTable` | the writer's hash table as operators: probing, placing, growing | - |
| `Bases` | guards, errors and continuations over several bases on one C stack | per base `cells`, `env`, `chain`; `stack`; `jump` |
| `Scopes`, `ScopeMap` | interning, trees and alists, environments; and the map of names it implements | `syms`, `table`, `envs`; `did` records the last answer |
| `Operators`, `OperatorRules` | x_type_op_try over types made at run time; and the documented rules | `home`, `ops`, `from`, `instances`; `did` |
| `CollectorProofs`, `InputProofs`, `EvaluatorProofs`, `ImageProofs`, `BasesProofs`, `ScopesProofs`, `OperatorsProofs`, `ObjectsProofs` | proofs (section 5) | |
| `MC...` | instances: small sets, symmetries, views | |

Definitions whose names say what is wrong with them (`KeepLatest`, `GuardHandlerAlone`,
`Cleared`'s sibling `ClearedNone`, ...) and whose comments call them faults or variants
are not part of a specification. They are the mutations that show each property can fail.

Conventions. The interpreted program is not fixed: wherever the engine would run
program code, the model lets the program do anything the engine allows there. Where
letting it use everything at once is too much for TLC, or where the code only keeps its
promise to programs that leave something alone, a variable `program`, chosen from
`Programs` at the start and never changed, says which forms, bases or features this
program uses and how deep it goes (Evaluator, Input, Bases, Scopes). One run then checks
several kinds of program. Bounds are CONSTANTS, or fields of `program`, with "bound" in
their comments and appear only in guards.

## 3. The runs

Passing runs (what they ask, and why the bound is enough):

| run | question | bound |
|---|---|---|
| `eval` | do registers, save-stack, chain, handlers and C stack stay in step through every form of evaluation, guards, errors and continuations, is what will be restored rooted when something collects, and does x_eval keep its contract? | four environments, so each of three nested scopes has one of its own. `Deep`: depth 3 (a caller, a trampolining callee, one that errs or defers) for calls, operatives, eval and tail-eval, load, guards, errors, collections. `Broad`: every form but four, depth 2. `Reenters`: continuations with guards and apply, depth 2 (a capture below, in and above a guard) |
| `collect` | is exactly the garbage freed, whatever mark hooks do? | 3 objects, one reference each: a live object, a new one, garbage; mark hooks that allocate, store and raise, free hooks that allocate, raw phases paired |
| `input` | do the input stacks follow the C stack and the descriptors the input stacks, with failures, ends and SIGINT; do the three stacks move together when continuations cross includes? | 5 frames without continuations (two includes among three guards), 3 with; three cells and descriptors, the driver's among them, so that a closed file's are soon used again |
| `objects` | does a collection free nothing the program can reach or has pinned and leave nothing else, and does nothing read a unit that is not there, whatever is relabelled, stored or stepped between? | 23 programs of up to eight operations whose arguments are anything live; static counts of 1 to 3 and dynamic ones, every labelling of two described units (`DescribedMax` 2 where a 64-bit build has 32: the third unit is already one the repeat rule labels), instances of none to three units, so some are shorter and one is longer than declared |
| `reader` | is what was written read, with the right line (a list's is that of its opening bracket, an atom's that of its last character) and no character too far, and does the reader stop? | every atom kind (names, signed and hexadecimal integers, character literals of delimiters and of a newline, of names, of codes and of UTF-8 sequences, strings with escapes and with a newline in them), lists to depth 2 with and without a tail, pairs of data across comments and newlines, two registration orders, a stream or a string; each input cut at every place |
| `image` | does every rebuilt graph equal the flagged part of the one written, is each word named once, is nothing written past the room, is an image refused only for lack of it, and do the hash tables keep an empty slot for every full one? | four-object chains of every unit kind, flagged in part; vectors of 0 to 4 slots; buffers with 0 to 2 characters read; rooms that fit, are one word or one character short, or ample; three nodes of five foreign words in any order, so that the cache of names grows three times and keys collide and wrap; a pointer and a node with one word between them, either first |
| `bases` | do handlers, environments and marks match the stack, and does the innermost guard catch, over several bases? | a host and two children on 4 frames; children that call back into the host on 3; continuations within one base on 3 |
| `scopes` | are environments maps, and is every symbol found where it was filed and interned once? | calls with too few and too many values and a parameter twice, over two environments and three bindings; two bases with two spellings each and four tree nodes; foreign symbols in roots, modules and frames |
| `operators` | does dispatch follow the documented rules, whatever is registered when and in which base? | two bases, two types, two handlers, two operators and a conversion per type |

Runs that find the code doing something other than a comment of it says (section 6):
`eval_apply_collect`, `image_buffer`, `bases_reentry`. Each checks the one property that
the comment states.

What the passing runs leave out or condition on, and why:

* `Evaluator`. No program of `eval` uses simple-tail (a tail already nil or untyped,
  whose early exit skips the restore, section 6) or bare-tail-eval (which the engine asks
  programs not to write). `LocalsRooted` speaks of programs without those two, apply and
  call/cc (`Sheltered`): apply's environment is not rooted (`eval_apply_collect`), a handler
  body's is not once x_eval has skipped a restore in it (section 6), and what a
  continuation nobody re-enters holds is left out of the model.
* `Input`. `InputMatchesStack`, `DescriptorsMatchInput` and `EofIsSticky` speak of programs
  whose C frames return once (`Returning`): a continuation brings frames back and leaves the
  input stacks where they are. `HeadsInStep` holds with continuations too.
* `Bases`. `CatchesInnermost` compares the guard that catches with those on the stack just before; that an error raised again
  on its way has passed none over is `HandlersAreTheStack`, before each of its steps. The three properties of handlers and catching speak of programs without
  continuations, which bring handlers back and not the cells they were in; the environments and
  the mark also of continuations within one base (`OneBase`). `MarkWalksLiveFrames` leaves out
  re-entered hosts (`bases_reentry`).
* `Objects`. The properties speak of programs that are honest up to then (`honest`): every
  traversal was begun over live objects that are what their types say (a reference unit holds an
  object or nothing, a word unit no object, a first unit a length where the count is dynamic), the
  program holds no buffer's inner, an iterator whose closure runs is still reachable, and no mark is
  left over. These are what the engine asks of programs (`x-type.c:590-600`); how it answers the rest is in
  the model: the step `Misread`, `AskUnits` and `IterReturn` may end the process. `PinsHold` speaks of pins that
  met nothing pinned; a pin stops at a child base, whose tree is shared from the start.
* `Collector`. Raw mark without its sweep, and free hooks that store or raise, are in the
  model and not in the run; the theorems assume the same (section 5).

`CHECK_DEADLOCK FALSE` stands where the system stops: after an uncaught error, when the
input or the writer is done, at the end of an `Objects` program, or at a bound of the C stack. The collector,
scopes and operators never stop, and their runs check for deadlock.

`VIEW MCView` in the runs of Scopes and Operators leaves out `did`, which no guard and no
other variable's next value reads. TLC evaluates action properties on every
transition it generates, so the answers are compared with the abstract ones all the same.

Symmetry is used on environments, objects, cells and descriptors, in runs
without liveness only.

## 4. Fairness

Only `Reader` states fairness, WF of its next step, for `Terminates`. The reader is a
sequential loop on the engine's only thread: if it has a step to take it takes it. A
read of input answers, with a character or with the end; the property is about input
that stops. Everything else is safety: which form a program uses next is its own choice
and no scheduler promises any.

## 5. The proofs

**Collector** (`CollectorProofs`). Assumption `Restrained`: no raw mark without its sweep,
and free hooks that at most allocate. Neither half can go (section 6). Under it, for every set
of objects, every number of references and every behaviour of the mark hooks: every variable
keeps its type, with no flag on a freed object (`CollectorTyped`),
a collection never frees a reachable object (`CollectorSafe`), no mark survives a cycle
(`CollectorLeavesNoMark`), and a sweep leaves exactly the reachable and the pinned
(`CollectorExact`).
Safety alone is not inductive: a sweep is safe because the marks are what is reachable,
and the traversal computes what is reachable only because no object was marked before
it. So `Inv` adds both: outside the stretch from trace to sweep `mark` is empty, inside it
`mark = Reach(Held)`, the hooks' own temporaries apart. Reachability is defined as the least
set that covers its roots, so the lemmas need no induction: the set covers
(`VisitsCovers`), is least (`VisitsLeast`), and does not change when references
outside it do (`ReachAgrees`), which carries the marks over what free hooks allocate.

**Input** (`InputProofs`). For every set of programs, files and descriptors and any failures and
interrupts: every variable keeps its type (`InputTyped`); without re-entered continuations every
frame reads its own input (`InputFollowsStack`) and the open descriptors are those on the input
stack, each once (`NoDescriptorLeaks`). `InputMatchesStack` speaks of neighbouring frames; what an
error does is cut the stack back to a guard somewhere below, so the invariant adds `Nested`: along
the C stack the inputs found on entry are prefixes of one another, and of the present
one. Cutting back to a guard then leaves the guard's own input, and what is closed is
what was above it. With continuations those two fail; that the three
stacks stay in step does not, and is proved for that case too (`HeadsStayInStep`).
`EofStaysSticky`: without continuations, a descriptor of which a read brought nothing is not read again. The latch is
the complement of the number in a cell of the input stack, and cells and descriptors are used again, so the invariant
(`EndsLatched`) relates the three: the descriptor a cell on the stack holds has ended only if the cell is latched. A read that ends
latches one cell, and every other cell on the stack that held the descriptor would need it too; there is none, because no two
hold the same (`HeldOnce`).

**Reader** (the end of `InputProofs`, where `R` is an instance of Reader). Assumption `TypesAreThere`: some types are registered, of
the kinds the model knows; it is Reader's own assumption on `Orders`. For every text,
whether a writer could have made it or not, from a descriptor or a string: the cursors stay in order, the counted line is that of
what was consumed, the lists being read begin at brackets, each after the one it is in (`ReaderTyped`), and a list handed over carries the line of its
opening bracket, an atom the line at its end (`LinesAreRight`). A form's line was counted when its token was taken, any number of tokens
before it is handed over, so `ReaderInv` says it of the frames of the list readers and of the answer on its way as well (`Opened`,
`Stamped`). A list's line is right because its bracket is a token of its own: one character, and no newline (`OpenKeeps`). That needs what the
analysers do: no analyser of an atom matches where an opening bracket stands, each matches no more than it has looked at (`ScoresAre`), and so does whichever wins
(`TokenIs`). Lines add up because newlines are counted as the cardinality of a set of positions (`LinesAdd`).

**Evaluator** (`EvaluatorProofs`). For every set of environments, every depth of the C stack and
every program, continuations and the ill-advised forms included: every variable keeps its type
(`EvaluatorTyped`), the root chain is the nodes of the frames in progress (`ChainFollowsStack`), the
handlers are those of the guards in progress (`HandlersFollowStack`), the save-stack holds what the
frames in progress pushed (`SavesFollowStack`), and a deferred tail is its own activation's
(`TailsAreTheirOwn`). None is inductive alone, because two steps install what was kept long before:
an error restores the save-stack, chain and handler a guard kept in its C locals, and a continuation
restores a whole stack. So `Inv` says of every frame, and of every frame of a held continuation, that
what it kept matches the frames below it (`Keeps`): they cannot change while it is on the stack, except that
an evaluation answers, which changes no node, guard or push (`SameBelow`). A step then
either changes the topmost frame (`StackTop`: what a stack needs is what the stack below has and what
the topmost frame rests on), or uncovers one that kept what is needed. Types need it too: a pop finds an
environment because the save-stack's length is known, and the environment a handler body
reads back as its parent's is there because no environment a frame holds is fresh memory
(`HeapMoved`, which rests on `ClosureType`: an induction on the steps of the traversal, done with the
least natural number that is a counterexample).

**The contract** (`EvaluatorProofs`). Assumption `Plain`: no program writes a tail that is nil or
untyped, or a bare tail-eval, which is what the run `eval` leaves out as well; each of the two breaks the
contract (sections 3 and 6). Under it Evaluator implements EvalContract (`EvaluatorKeepsItsPromise`): every step of
the evaluator is one of `Begin`, `End`, `Work`, `Unwind` and `Reenter`, or changes nothing the contract sees. The
mapping folds what each frame is going to leave (`Leaves`) down the C stack (`Seen`), so a step of the topmost frame must be shown not
to change what any frame below it will answer. `AgreeBelow` does that once for all steps: two stacks whose lower
frames pass on alike, and whose next one leaves the same, leave the same everywhere. Beside `Inv` it takes
`Promises`: x_eval restores only what it kept while trampolining; what the body of a guard leaves is the
environment, save-stack and handlers the guard recorded, which is what an error puts back (`InnermostGuard`);
what the body of a handler leaves is the environment made for it, that save-stack and the handlers below;
and the same for a held continuation.

**What frames hold** (`EvaluatorProofs`). In every program without apply, call/cc, simple-tail and
bare-tail-eval, a collection reaches whatever a frame still holds (`FramesAreRooted`), so none ever frees what a register leads to
(`NothingIsSwept`). Most locals are rooted by a node of their frame (`FrameRooted`). A handler body's environment and the save-stack a guard keeps
are not: they are reached because the evaluations above will put them back in the registers, so whoever will put them
back roots them. That takes the contract: `Promises` says what each guard and handler body will see when the evaluation it
asked for answers, and `SeenReached` goes down the stack from the registers, frame by frame, showing that what is seen is reached. Beside
them `Tidy` says that a frame keeps nothing its phase has no use for, and that nothing has been swept. What is reached is
the least set closed under parents (`ClosureType`, `ClosureUp`, `ClosureLeast`). The property was first stated, and
checked, for programs without apply and call/cc only; the proof failed where x_eval leaves without a restore, and TLC found why
(section 6).

**Bases** (`BasesProofs`). Assumption `BasesAssumption`: the host is no child and identities are positive. For
every set of children and programs: types (`TypesHold`); and, in the programs each property speaks of, the handlers in the cells
are those of the frames that wait (`HandlersMatch`), an error ends the process only if no guard waits
(`NoGuardIsPassedOver`) and otherwise reaches the innermost one (`InnermostCatches`), every base is in the
environment of its newest body (`EnvironmentsMatch`), and the host's chain names live frames
(`WalkedNodesAreLive`). The four invariants speak of the registers as they are, and an error puts back
registers as they were when a frame was pushed; what each frame found then is what must be remembered. For handlers it is not
in the frames, so the invariant (`Tracked`) says that there is a record of all cells at each push, of which each frame's saved
handler and each cell is a part: the present cells are the last entry, each entry differs from the one before it by what
its frame pushes, and the jump is aimed at the innermost frame of the present list. `Roots` does the same for the host's
chain; for environments the frames themselves are enough (`Environs`), once the base that an error is raised in is
left out until it lands. `Stacked` says that frames stand on one another and have names of their own. `FlattenSeq` of the
community modules is recursive underneath; `FlattenCons` unfolds it by the functions that satisfy its
equations (`FlattenIs`), which a least counterexample shows to agree.

**Scopes** (`ScopesProofs`). Assumption `ScopesAssumption`: finitely many bases, spellings that are numbers, parameter lists and values that
are sequences. For every such choice: one symbol to a base and spelling (`SymbolsAreInternedOnce`), every node of a tree
is the one its search ends at (`NothingIsHidden`), and Scopes implements ScopeMap (`EnvironmentsAreMaps`): what is
looked up, defined, assigned and called through trees, alists and chains of environments is what nested maps answer. The invariant
(`KeptInShape`) is about trees: each node hangs from an earlier one on the side its key says, no two nodes have
one key, and a search for a node's key meets its ancestors and then it. An attachment adds a leaf where a search fell off,
so searches for older keys go as before. The searches are recursive functions on node numbers; what they end at is
characterised by the path they follow, and the shortest path that is wrong is the counterexample, so no
induction is needed. The refinement reads an environment off its entries (`MapOf`), each key once; a frame's list may hold a repeated
parameter, and the newest cell is the one that counts.

**Operators** (`OperatorsProofs`). Assumption `OperatorsAssumption`: the operators are the four that the
primitives ask for, and nil and plain are no types. Operators implements OperatorRules (`DispatchByTheRules`): alists with the newest entry in front, searched in
the order x_type_op_try does, pick the handler that the newest registrations determine, in whatever order the operands are given and
whichever way a conversion was declared.

**Objects** (`ObjectsProofs`). Assumption `ObjectsAssumption`: sizes and the number of units a mask describes are numbers, and a
declaration with a mask has a label for each unit described, which the word that holds it has. For every set of
programs, declarations and sizes, while the program is `honest` (section 3): the process does not end in the traversal, the sweep or an
iterator's driver (`EndsForCause`), a sweep frees nothing the program can reach (`NothingLiveIsFreed`) and nothing a pin
reached (`NothingPinnedIsFreed`), and when it ends it has freed everything else (`TheRestIsCollected`). The invariant has two halves.
`Typed` holds of dishonest programs too: the shape of every kind of object, of which the words a traversal takes are a consequence
(`FollowsTyped`). `Safe` says why honest ones are safe. While a traversal is on its way, every live object is what its type says, what
is to do is live (`Tracing`), and what is marked refers to what is marked or to do (`Collecting`; `Pinned` says it of what a pin promised), so at
the end the marks cover what is live; while the sweep is on its way the marks are the live objects it has not come to, and whatever it has passed is
live or pinned (`Sweeping`), so the type its free callback reads, which is older than the object, is still there. The step that needs
`honest` is one lemma: a sound object's units are read within its bounds, and what is followed from it is exactly what it refers to (`FollowsIs`), because
the label the repeat rule gives a unit is the one the declaration means (`LabelIs`). `LiveStays` alone is not inductive: an iterator whose closure runs
is held by a C frame only, so it may be dead, and when the closure returns another one is made from it whose step is then live again. What is never freed between
collections is therefore what the program and those frames reach together (`Near`), and a collection is honest only if the
frames add nothing.

Two definitions were changed by an attempt at a proof: `OnIntegers` in Operators and `CharScore` in Reader were CASE
expressions with overlapping guards, where TLA+ lets any arm whose guard holds be chosen and TLC takes the first. They are now chains of IF, like the code's. `ObjectsProofs` showed another two: asking the units of an object without any, and
marking one by its type's closure, read a first unit that is not there (make-obj makes such objects). Objects has both as the end of the process now, and the run sizes from 0.

**Images** (`ImageProofs`). First the hash table (`ImageTable`), for every size and every choice of keys: a new table knows no
key, and a put gives its key its value and changes no other key's, whatever collides, wraps round and makes the table
grow (`TableIsMap`). A table is sound if every key it holds is where a search for it stops and at most half its slots are
taken. Half the slots empty makes a search stop (as many probes as slots meet every slot, which is division with remainder:
`OneQuotient`), growing leaves room for one key more, and the keys moved to the bigger table are then found there
(`BiggerIs`, by an invariant of the moving, slot by slot: `Holds`).

Then Image. The assumptions are what an image may be asked of: `AddressesAssumption`, that different words of the heap have
different addresses, none of them 0; `GraphsAssumption`, that every flagged object has just the units its type saves, that its type is a
struct of the chain, that a buffer's second unit is a buffer of the chain, and that a word saved as foreign leads outside the
chain. For every such heap, any part of it flagged, any room and any naming: the tables stay half empty (`TablesHalfEmpty`), a word is
asked about once (`WordsNamedOnce`), neither section is overrun (`SectionsNotOverrun`), a write is refused only when
the type of something imaged is not imaged or the image does not fit (`WritesRefusedForCause`), and what is
rebuilt are copies (`ImageRoundTrips`), but for the units of a word with two labels (section 6): for these the theorem says when they are
miscast and what they become. They are proved from one invariant, `Inv`, because each needs the others. The copies are right
because every record stands for its object (`Recorded`), which takes the index to say each object's rank (`Indices`), the cache to say each
word's name, one up (`Answered`), and both to be maps (`Tabled`). That a refusal is justified is a statement about the
whole heap made in the middle of it: what has been spent is the sum over the objects behind (`Spent`), and sums of
numbers only grow (`SumsGrow`). A record holds indices into what is written later, so what it stands for must not change
as the cache and the bytes grow (`Grown`, `WritesStay`), and the cache grows into a new table while it
does. After the writer, `Rebuilt` and `Loaded` follow the passes of the loader: the patch pass makes copies (`PatchedIs`, `CopyIs`), and the load pass
changes buffers only, for the inner a buffer's load writes through is a buffer too (`LoadWrites`); that it changes them wrongly is
`image_buffer`. The ranks are numbers of imaged objects in a prefix of the chain, and the sums are recursive functions; what both
compute at the end is never computed, only how one position differs from the next, and where no position is the first
to go wrong none does (`Inducts`).

Two definitions were changed for this: `SlotsFor` doubles, as the code's loop does, where it was a power of two, and the sums `RefusedForCause`
needs have names. In Reader unescaping is a recursive function instead of a RECURSIVE operator and the tables of characters are
written out; `OrderAssumption` says that some type is registered. What they compute is the same.

Only model-checked: of Reader, `ReadsBack`, `NoReadAhead` and `Terminates`. `ReadsBack` says what a text means, which is
induction over the text; `NoReadAhead` holds of texts a writer makes and not of every text (`1a ` is read as two data, and the integer's
end is known only after the symbol's analyser has met the blank); `Terminates` is liveness. `LoadsOuters` is no theorem: a run refutes it.

## 6. Where the code and its comments disagree

Shown by a run; `PROJECT.json` "findings" quotes the comments:

* `eval_apply_collect`: apply keeps its caller's environment in a C local that is not a root
  (`x-type/procedure.c:250`); a collection in the body frees it and it is then restored.
* `image_buffer`: a buffer's load handler runs on inner objects, too, before or after their
  outers (`x-prim/image.c`, `x-type/buffer.c:117`).
* `bases_reentry`: an error in a host re-entered from a child leaves nodes of dead C frames on
  the host's chain, which the next mark walks (`x-prim/base.c:272`).

Seen while modelling, described here and excluded from the passing runs or properties:

* A deferred tail that is nil or untyped returns from x_eval before the restore
  (`x-eval.c:284`), so the callee's environment stays current. Evaluator has it as the form simple-tail. Called in a
  handler body, such a procedure cuts off the body's own environment, of which guard then reads the parent; the comment there counts on
  its being current and "so reachable, while the body runs" (`x-syntax/control.c:224-226`). With simple-tail left out of
  `Sheltered`, TLC finds this as a violation of `LocalsRooted`: error in a guard, call in the handler body, a tail that is
  its own value. A collection before the guard is done would free it.
* A free hook that stores makes live what the traversal did not mark (`x-prim/heap.c:115`);
  heap-mark alone, which its comment calls harmless, makes the next traversal stop short
  (`x-prim/heap.c:225`); pinning an object again does not reach what it took in since
  (`x-prim/heap.c:296`). Collector has all three, Objects the last two; tree-mark! with the collector's
  flag does what heap-mark does.
* make-obj answers an object of a dynamically sized type whose first unit is nil; until the program
  stores a length there, a collection, or asking its units, reads through nil (`x-type.c:622`, `x-type.c:125`).
  Objects has it, as the end of the process, and `honest` excludes it.
* The driver of an iterator holds it in a C local while the step closure runs (`x-type/iter.c:151`).
  If nothing else does, a collection in the closure frees it and the driver writes into it. Objects has it.
* A type's closure mark handler runs in the middle of the traversal; what it allocates is unmarked and
  the sweep of the same cycle frees it, as the comment says (`x-type.c:582`): an object that such a handler stores
  into a live one is freed with the rest.
* A continuation re-entered across an include leaves the input stacks where they were
  (`x-prim/callcc.c:265`). Input has it.
* A SIGINT flag left over from before silences a read's error, and a caught signal that
  interrupts a read ends that input (`x-type/buffer.c:352`). Input has both; what an
  error reports is not modelled.
* An object read is stamped with the line counter after its token's characters have been counted (`x-token.c:326`), so an
  atom that spans lines, a string with a newline in it or `#\` before one, carries the line of its last character, not its
  first. `LinesRight` said the first until the run was given such atoms and refuted it; it now says what the code does.
* A string cut off by the end of the input is read as a clean end (`x-token.c:311`). Reader has it.
* The writer keeps one external per word, whatever label the word has (`x-prim/image.c:640-684`), but an entry of the
  externals table is either an object, which a reference gets, or an INT, whose word a foreign unit gets
  (`x-prim/image.c:63`, 96-122). A word saved both as a reference and as foreign is named as what it was asked about
  first: a reference to it is then rebuilt as the INT, or a foreign unit as the first word of the object. Image has both, the
  run reaches both, and `RoundTrip` says that no other unit comes out wrong. That the naming callable files an object or an INT
  by the label it is told is what the table's readers need; the callable is the program's.
* A vector as large as the save buffer is said to hold overruns it by a unit
  (`x-prim/image.c:417`), and an image written by a process rebuilt from an image saves a type
  handle's name as an address (`x-prim/image.c:333`). Neither is in Image.
* A continuation carried from one base to another loses its handler cell
  (`x-prim/callcc.c:272`). Bases has it when a program uses both.
* A foreign symbol misses the base's own symbol's binding in a frame (`x-env.c:104`), and operators
  of one base miss handlers registered in another (`x-type.c:222`). Scopes and Operators have
  them, and so do the abstract rules they are checked against.

## 7. Plan

Done, in the order of importance: evaluator, collector, input, reader, images, bases, scopes, operators.

Also done: the rest of the reader's atoms, the hash tables inside Image, and `Objects` (unit labels, the traversal by
them, iterators, and what a child base's objects keep alive).

Next, models:
1. The mark of a continuation's copied stack, in Objects.
2. The save buffer, and images of rebuilt images, in Image.
3. Arithmetic at its edges (`x-prim/arith.c`), and argument coercion (`x-prim/ffi.c`).
4. Evaluator with Input: one stack of frames instead of one each.

Next, proofs: `NoReadAhead` of Reader, for the texts a writer makes.

## 8. What the models leave out

* **x-expr.** Its sources are not in the repository. Allocation, traversal and the sweep loop
  are modelled by what the engine's code says of them and relies on.
* **Evaluator.** Values; the argument run's nodes are part of the list handler's one
  node; continuations nobody re-enters keep what their copied locals hold; one
  continuation at a time; the jump back to the start when a handler answers with its own arguments (`x-eval.c:302`), after
  which x_eval is in the phase it was in, with the registers it had; a bare tail-eval, which the engine asks programs not to write, is an option no
  passing run turns on.
* **Collector.** heap-sweep on its own, and a child base's collect, which does nothing.
* **Input.** Output, buffers a program makes, and the read loop's own reset of the line.
* **Objects.** What units hold beside references and lengths; a mark handler in C that a program
  registers; a continuation's copied stack. A mark handler that is a closure is one that tree-marks the
  first unit. Mark and free hooks are Collector's. Free callbacks free memory and read nothing but the type.
* **Reader.** Readers a program registers for itself; the value of an integer and of a code past a byte's range.
* **Image.** The naming callable answers and does nothing else; the heap is not collected
  while an image is written; a type's struct is its first pair; buffers are checked
  apart from the round trip.
* **Bases.** Values; the eval-list is cut back with the chain and not kept apart from it.
* **Scopes.** Values; spellings are numbers in the order of strcmp.
* **Operators.** A value is its type; pushing on a type's alists is the language library's and
  external.
* **Not modelled at all.** Strings, foreign functions but for storing a word through an object's address
  (`Objects.PtrSet`), JIT wrappers, contract gates, profile
  counters, the host's syscall and dlopen: pure data or I/O.
