------------------------------ MODULE Evaluator ------------------------------
(* The evaluator core of x-engine: x_eval and its trampoline, the body       *)
(* walkers, the call protocol of procedures and operatives, eval, tail-eval, *)
(* eval!, guard, error, call/cc and an explicit collection.                  *)
(*                                                                           *)
(* The program being interpreted is not fixed: at every point it does        *)
(* whatever the interpreter lets a program do.  What the module follows is   *)
(* the interpreter's own state, the registers of the base object (env,       *)
(* save-stack, tco-expr, tco-env, error-handler), the collector's root       *)
(* chain, and the locals of the C frames.  One frame stands for one          *)
(* activation of x_eval together with the handler it is running: everything  *)
(* the handler calls on the way down (x_type_list_eval, x_callable_call, the *)
(* primitive, the body walker) runs inside that activation.                  *)
EXTENDS Naturals, Sequences, FiniteSets, Functions

CONSTANTS
    Env,          \* environments, the heap pairs (bindings . parent)
    Root,         \* the base's root environment
    NoEnv,        \* nil
    NoCont,       \* no continuation is held by the program
    Programs,     \* programs, each the forms it uses and its activations of
                  \* x_eval on the C stack (bound)
    MaxDepth      \* bound: the deepest of them

(* A "simple-tail" is a deferred tail that is an object with no type struct, *)
(* a "bare-tail-eval" one where x_eval has kept no caller's environment.     *)
AllForms == {"procedure", "operative", "seq", "match", "eval", "eval-in",
             "tail-eval", "eval!", "load", "guard", "error", "apply",
             "call/cc", "collect", "simple-tail", "bare-tail-eval"}

ASSUME EnvAssumption ==
    /\ IsFiniteSet(Env) /\ Root \in Env /\ NoEnv \notin Env
    /\ MaxDepth \in Nat \ {0}
    /\ Programs \subseteq [forms : SUBSET AllForms, depth : 0..MaxDepth]

VARIABLES
    program,    \* the program being interpreted
    env,        \* x_eval_field_env: the current environment
    saveStack,  \* x_eval_field_save_stack, top first
    tcoExpr,    \* whether x_eval_field_tco_expr holds a deferred tail
    tcoEnv,     \* x_eval_field_tco_env
    handler,    \* the chain of installed error handlers, innermost first
    chain,      \* the collector's root chain, newest node first
    frames,     \* the C stack: one record per activation of x_eval
    depth,      \* activations in progress
    parent,     \* the parent of every environment
    swept,      \* environments the collector freed while a C local held them
    cont,       \* the continuation the program holds, if any
    exited      \* an uncaught error ended the process

registers == <<env, saveStack, tcoExpr, tcoEnv, handler>>
vars == <<program, registers, chain, frames, depth, parent, swept, cont, exited>>

EnvOrNil == Env \cup {NoEnv}
Slots    == 1..MaxDepth

(* The nodes frames register on the root chain, by the local they protect:   *)
(* x_eval's kept environment, a list expression, a body being walked, an     *)
(* operative's caller, x_eval_tco_trampoline's kept environment, and the     *)
(* environment and save-stack a top-level bracket parks.                     *)
NodeKind == {"tco", "list", "body", "op", "loop", "park"}
Node     == [at : Slots, what : NodeKind]
Handler  == [at : Slots, env : Env]

Phase == {"idle", "start", "list", "body", "opbody", "apbody", "loop",
          "applied", "evalin", "evaled", "top", "topped", "load", "guarded",
          "handling", "back"}

Frame == [ph    : Phase,
          tramp : BOOLEAN,       \* trampolining
          kept  : EnvOrNil,      \* p_tco_env_save
          saved : EnvOrNil,      \* the handler's own environment local
          stk   : Seq(Env),      \* p_saved_save_stack / p_saved_stack
          prev  : Seq(Handler),  \* p_prev_handler
          roots : Seq(Node)]     \* p_saved_root_chain

Idle == [ph |-> "idle", tramp |-> FALSE, kept |-> NoEnv, saved |-> NoEnv,
         stk |-> <<>>, prev |-> <<>>, roots |-> <<>>]

Continuation == [env : Env, saveStack : Seq(Env), handler : Seq(Handler),
                 chain : Seq(Node), frames : [Slots -> Frame], depth : Slots]

Cons(x, s) == <<x>> \o s

-----------------------------------------------------------------------------
(* What the collector reaches.  An environment keeps its parents alive.      *)

Closure(S) ==
    LET up[n \in 0..Cardinality(Env)] ==
            IF n = 0 THEN S \ {NoEnv}
            ELSE up[n-1] \cup ({parent[e] : e \in up[n-1]} \ {NoEnv})
    IN  up[Cardinality(Env)]

(* Fault: x_eval's kept environment is not registered.                       *)
NodeEnvsUnkept(n) ==
    LET f == frames[n.at]
    IN  CASE n.what \in {"op", "loop"} -> {f.saved}
          [] n.what = "park"           -> {f.saved} \cup Range(f.stk)
          [] OTHER                     -> {}

(* The environments a registered node keeps alive.                           *)
NodeEnvs(n) ==
    LET f == frames[n.at]
    IN  CASE n.what = "tco"            -> {f.kept}
          [] n.what \in {"op", "loop"} -> {f.saved}
          [] n.what = "park"           -> {f.saved} \cup Range(f.stk)
          [] OTHER                     -> {}

HeldByCont ==
    IF cont = NoCont THEN {}
    ELSE {cont.env} \cup Range(cont.saveStack) \cup
         {h.env : h \in Range(cont.handler)}

(* The base tree, the root chain, and the state list of a continuation the   *)
(* program holds.                                                            *)
Reached ==
    Closure({Root, env, tcoEnv} \cup Range(saveStack)
            \cup {h.env : h \in Range(handler)}
            \cup HeldByCont
            \cup (UNION {NodeEnvs(n) : n \in Range(chain)}))

LocalsOf(fs) == UNION {{fs[d].kept, fs[d].saved} \cup Range(fs[d].stk) : d \in Slots}

(* Everything some C frame will use again, the copied frames included.       *)
Locals ==
    Closure(LocalsOf(frames) \cup
            (IF cont = NoCont THEN {} ELSE LocalsOf(cont.frames)))

Fresh == Env \ (Reached \cup Locals)

-----------------------------------------------------------------------------
(* Moves shared by the actions.                                              *)

Me      == frames[depth]
In(ph)  == depth > 0 /\ ~exited /\ Me.ph = ph
Form(f) == In("list") /\ f \in program.forms

Become(ph) == frames' = [frames EXCEPT ![depth].ph = ph]

(* The form's handler returns: x_type_list_eval pops its node, after pops    *)
(* nodes the handler pushed above it.                                        *)
Answer(pops) ==
    /\ frames' = [frames EXCEPT ![depth] =
                     [Idle EXCEPT !.ph = "back", !.tramp = Me.tramp, !.kept = Me.kept]]
    /\ chain' = SubSeq(chain, pops + 2, Len(chain))

(* Where a caller continues once a nested x_eval has answered.               *)
Resumed(ph) == CASE ph = "evalin" -> "evaled"
                 [] ph = "top"    -> "topped"
                 [] OTHER         -> ph

(* x_env_make: a new environment takes unused memory, and memory not in use  *)
(* has no contents.                                                          *)
NewEnv(e, p) ==
    /\ e \in Fresh
    /\ parent' = [x \in Env |-> IF x = e THEN p
                               ELSE IF x \in Fresh THEN NoEnv ELSE parent[x]]
    /\ swept' = swept \ {e}

heap == <<parent, swept, cont>>

-----------------------------------------------------------------------------
(* x_eval.                                                                   *)

(* Phases in which the running handler may evaluate a sub-expression.        *)
Calling == {"list", "body", "opbody", "apbody", "applied", "evalin", "top",
            "load", "guarded", "handling"}

(* A nested x_eval, or one asked for by the driver's read loop.              *)
Call ==
    /\ ~exited /\ depth < program.depth
    /\ depth > 0 => Me.ph \in Calling
    /\ depth' = depth + 1
    /\ frames' = [frames EXCEPT ![depth + 1] = [Idle EXCEPT !.ph = "start"]]
    /\ chain' = Cons([at |-> depth + 1, what |-> "tco"], chain)
    /\ UNCHANGED <<registers, heap, exited>>

(* Leave x_eval with e current: the node is popped and the caller resumes.   *)
Leave(e) ==
    /\ env' = e
    /\ chain' = Tail(chain)
    /\ depth' = depth - 1
    /\ frames' = [d \in Slots |->
                    CASE d = depth     -> Idle
                      [] d = depth - 1 -> [frames[d] EXCEPT !.ph = Resumed(@)]
                      [] OTHER         -> frames[d]]

(* nil, or an object whose type is not a type struct (#t, an environment, a  *)
(* raw pair), answers itself before any restore.                             *)
SelfEvaluate ==
    /\ In("start")
    /\ Me.tramp => "simple-tail" \in program.forms
    /\ Leave(env)
    /\ UNCHANGED <<saveStack, tcoExpr, tcoEnv, handler, heap, exited>>

(* A symbol's lookup, or a type that has no eval handler.  A handler that    *)
(* answers with its very arguments has x_eval start over (x-eval.c:302): the *)
(* frame is where it was, so there is no step for it here.                   *)
Atom ==
    /\ In("start")
    /\ Become("back")
    /\ UNCHANGED <<registers, chain, depth, heap, exited>>

(* x_type_list_eval: the form is rooted and its operator evaluated.          *)
Combine ==
    /\ In("start")
    /\ Become("list")
    /\ chain' = Cons([at |-> depth, what |-> "list"], chain)
    /\ UNCHANGED <<registers, depth, heap, exited>>

(* A primitive that leaves the evaluator's state alone, match without a      *)
(* matching clause, and an operator that cannot be called.                   *)
Data ==
    /\ In("list")
    /\ Answer(0)
    /\ UNCHANGED <<registers, depth, heap, exited>>

(* x_eval_tco_keep keeps the first, outermost environment it is handed.      *)
KeepLatest(held) == IF tcoEnv = NoEnv THEN held ELSE tcoEnv    \* fault
Keep(held) == IF held = NoEnv THEN tcoEnv ELSE held

(* Fault: the environment is taken but left in the register.                 *)
TrampolineStale ==
    /\ In("back") /\ tcoExpr
    /\ frames' = [frames EXCEPT ![depth] =
                     [Me EXCEPT !.ph = "start", !.tramp = TRUE, !.kept = Keep(Me.kept)]]
    /\ tcoExpr' = FALSE
    /\ UNCHANGED <<env, saveStack, tcoEnv, handler, chain, depth, heap, exited>>

(* x_eval's pass over a deferred tail, in the same activation.               *)
Trampoline ==
    /\ In("back") /\ tcoExpr
    /\ frames' = [frames EXCEPT ![depth] =
                     [Me EXCEPT !.ph = "start", !.tramp = TRUE, !.kept = Keep(Me.kept)]]
    /\ tcoExpr' = FALSE
    /\ tcoEnv' = NoEnv
    /\ UNCHANGED <<env, saveStack, handler, chain, depth, heap, exited>>

(* x_eval_tco_apply: what was kept, if anything was.  Fault: without asking.  *)
RestoredNil == IF Me.tramp THEN Me.kept ELSE env
Restored    == IF Me.tramp /\ Me.kept # NoEnv THEN Me.kept ELSE env

Return ==
    /\ In("back") /\ ~tcoExpr
    /\ Leave(Restored)
    /\ tcoEnv' = IF Me.tramp THEN NoEnv ELSE tcoEnv
    /\ UNCHANGED <<saveStack, tcoExpr, handler, heap, exited>>

-----------------------------------------------------------------------------
(* Procedures and operatives.                                                *)

(* x_type_procedure_call, and x_prim_apply on a procedure: the caller's      *)
(* environment goes on the save-stack and the body runs in a child of the    *)
(* closure's, under x_eval_body_tco's node.                                  *)
Procedure ==
    /\ Form("procedure")
    /\ \E e \in Fresh, closure \in Reached : NewEnv(e, closure) /\ env' = e
    /\ saveStack' = Cons(env, saveStack)
    /\ Become("body")
    /\ chain' = Cons([at |-> depth, what |-> "body"], chain)
    /\ UNCHANGED <<tcoExpr, tcoEnv, handler, depth, cont, exited>>

BodyTail ==
    /\ In("body")
    /\ tcoExpr' = TRUE
    /\ tcoEnv' = IF tcoEnv = NoEnv THEN Head(saveStack) ELSE tcoEnv
    /\ saveStack' = Tail(saveStack)
    /\ Answer(1)
    /\ UNCHANGED <<env, handler, depth, heap, exited>>

(* A nil tail, or an empty body.                                             *)
BodyNilTail ==
    /\ In("body")
    /\ env' = Head(saveStack)
    /\ saveStack' = Tail(saveStack)
    /\ Answer(1)
    /\ UNCHANGED <<tcoExpr, tcoEnv, handler, depth, heap, exited>>

(* x_type_operative_call: the body runs in a child of the captured           *)
(* environment; the caller's is a local, rooted by x_eval_op_body.           *)
EnterOperative(ph) ==
    /\ \E e \in Fresh, captured \in Reached : NewEnv(e, captured) /\ env' = e
    /\ frames' = [frames EXCEPT ![depth] = [@ EXCEPT !.ph = ph, !.saved = env]]
    /\ chain' = Cons([at |-> depth, what |-> "op"], chain)

Operative ==
    /\ Form("operative")
    /\ EnterOperative("opbody")
    /\ UNCHANGED <<saveStack, tcoExpr, tcoEnv, handler, depth, cont, exited>>

(* %seq: x_eval_op_body in the current environment.                          *)
Sequence ==
    /\ Form("seq")
    /\ frames' = [frames EXCEPT ![depth] = [@ EXCEPT !.ph = "opbody", !.saved = env]]
    /\ chain' = Cons([at |-> depth, what |-> "op"], chain)
    /\ UNCHANGED <<registers, depth, heap, exited>>

OpTail ==
    /\ In("opbody")
    /\ tcoExpr' = TRUE
    /\ tcoEnv' = Me.saved
    /\ Answer(1)
    /\ UNCHANGED <<env, saveStack, handler, depth, heap, exited>>

OpNilTail ==
    /\ In("opbody")
    /\ env' = Me.saved
    /\ Answer(1)
    /\ UNCHANGED <<saveStack, tcoExpr, tcoEnv, handler, depth, heap, exited>>

-----------------------------------------------------------------------------
(* x_callable_apply, the path on which arguments are values already.         *)

(* x_type_procedure_apply: the caller's environment stays in a C local.      *)
ApplyProcedure ==
    /\ Form("apply")
    /\ \E e \in Fresh, closure \in Reached : NewEnv(e, closure) /\ env' = e
    /\ frames' = [frames EXCEPT ![depth] = [@ EXCEPT !.ph = "applied", !.saved = env]]
    /\ chain' = Cons([at |-> depth, what |-> "body"], chain)
    /\ UNCHANGED <<saveStack, tcoExpr, tcoEnv, handler, depth, cont, exited>>

Applied ==
    /\ In("applied")
    /\ env' = Me.saved
    /\ Answer(1)
    /\ UNCHANGED <<saveStack, tcoExpr, tcoEnv, handler, depth, heap, exited>>

(* An operative: its body, then x_eval_tco_trampoline.                       *)
ApplyOperative ==
    /\ Form("apply")
    /\ EnterOperative("apbody")
    /\ UNCHANGED <<saveStack, tcoExpr, tcoEnv, handler, depth, cont, exited>>

(* x_eval_op_body hands its tail, or nothing, to x_eval_tco_trampoline,      *)
(* whose node takes the place of the walker's.                               *)
EnterLoop ==
    /\ frames' = [frames EXCEPT ![depth] = [@ EXCEPT !.ph = "loop", !.saved = NoEnv]]
    /\ chain' = Cons([at |-> depth, what |-> "loop"], Tail(chain))

ApBodyTail ==
    /\ In("apbody")
    /\ tcoExpr' = TRUE
    /\ tcoEnv' = Me.saved
    /\ EnterLoop
    /\ UNCHANGED <<env, saveStack, handler, depth, heap, exited>>

ApBodyNilTail ==
    /\ In("apbody")
    /\ env' = Me.saved
    /\ EnterLoop
    /\ UNCHANGED <<saveStack, tcoExpr, tcoEnv, handler, depth, heap, exited>>

LoopPass ==
    /\ In("loop") /\ tcoExpr /\ depth < program.depth
    /\ tcoExpr' = FALSE
    /\ tcoEnv' = NoEnv
    /\ frames' = [frames EXCEPT ![depth].saved = Keep(@),
                                ![depth + 1] = [Idle EXCEPT !.ph = "start"]]
    /\ chain' = Cons([at |-> depth + 1, what |-> "tco"], chain)
    /\ depth' = depth + 1
    /\ UNCHANGED <<env, saveStack, handler, heap, exited>>

LoopDone ==
    /\ In("loop") /\ ~tcoExpr
    /\ env' = IF Me.saved # NoEnv THEN Me.saved ELSE env
    /\ Answer(1)
    /\ UNCHANGED <<saveStack, tcoExpr, tcoEnv, handler, depth, heap, exited>>

-----------------------------------------------------------------------------
(* eval, tail-eval, match, eval! and the loader.                             *)

(* match on a clause that holds, and eval without an environment: the tail   *)
(* is deferred and no environment goes with it.                              *)
DeferPlain ==
    /\ In("list") /\ {"match", "eval"} \cap program.forms # {}
    /\ tcoExpr' = TRUE
    /\ Answer(0)
    /\ UNCHANGED <<env, saveStack, tcoEnv, handler, depth, heap, exited>>

(* tail-eval: the given environment becomes current and the tail is deferred.*)
TailEval ==
    /\ Form("tail-eval")
    /\ Me.kept = NoEnv => "bare-tail-eval" \in program.forms
    /\ env' \in Reached
    /\ tcoExpr' = TRUE
    /\ Answer(0)
    /\ UNCHANGED <<saveStack, tcoEnv, handler, depth, heap, exited>>

(* eval with an environment: the caller's rides the save-stack.              *)
EvalIn ==
    /\ Form("eval-in")
    /\ saveStack' = Cons(env, saveStack)
    /\ env' \in Reached
    /\ Become("evalin")
    /\ UNCHANGED <<tcoExpr, tcoEnv, handler, chain, depth, heap, exited>>

EvalInDone ==
    /\ In("evaled")
    /\ env' = Head(saveStack)
    /\ saveStack' = Tail(saveStack)
    /\ Answer(0)
    /\ UNCHANGED <<tcoExpr, tcoEnv, handler, depth, heap, exited>>

(* x_toplevel_enter: the save-stack is hidden, the root becomes current and  *)
(* both displaced values are parked on the root chain.                       *)
EnterTop(ph) ==
    /\ frames' = [frames EXCEPT ![depth] =
                     [@ EXCEPT !.ph = ph, !.saved = env, !.stk = saveStack]]
    /\ saveStack' = <<>>
    /\ env' = Root
    /\ chain' = Cons([at |-> depth, what |-> "park"], chain)
    /\ UNCHANGED <<tcoExpr, tcoEnv, handler, depth, heap, exited>>

EvalTop == Form("eval!") /\ EnterTop("top")    \* one form
Load    == Form("load")  /\ EnterTop("load")   \* every form of a file

LeaveTop ==
    /\ In("topped") \/ In("load")
    /\ saveStack' = Me.stk
    /\ env' = Me.saved
    /\ Answer(1)
    /\ UNCHANGED <<tcoExpr, tcoEnv, handler, depth, heap, exited>>

-----------------------------------------------------------------------------
(* guard and error.                                                          *)

(* Install: the handler holds the environment and the previous handler; the  *)
(* C frame keeps the save-stack and root chain to unwind to.                 *)
Guard ==
    /\ Form("guard")
    /\ frames' = [frames EXCEPT ![depth] =
                     [@ EXCEPT !.ph = "guarded", !.stk = saveStack,
                               !.prev = handler, !.roots = chain]]
    /\ handler' = Cons([at |-> depth, env |-> env], handler)
    /\ chain' = Cons([at |-> depth, what |-> "body"], chain)
    /\ UNCHANGED <<env, saveStack, tcoExpr, tcoEnv, depth, heap, exited>>

GuardDone ==
    /\ In("guarded")
    /\ handler' = Me.prev
    /\ Answer(1)
    /\ UNCHANGED <<env, saveStack, tcoExpr, tcoEnv, depth, heap, exited>>

(* Where evaluation can fail: an unbound name or STOP at the head of x_eval, *)
(* an error form or a failing primitive, a dotted tail under a walker, a     *)
(* read error in a load.                                                     *)
Raising == {"start", "list", "body", "opbody", "apbody", "applied", "load",
            "guarded", "handling"}

CanRaise == ~exited /\ depth > 0 /\ Me.ph \in Raising /\ "error" \in program.forms

(* The save-stack and the chain a guard unwinds to, and the handler left     *)
(* installed for the handler body; the faults forget to unwind.              *)
UnwoundSavesKept(g)    == saveStack
UnwoundSaves(g)        == g.stk
UnwoundChainKept(g, d) == Cons([at |-> d, what |-> "body"], chain)
UnwoundChain(g, d)     == Cons([at |-> d, what |-> "body"], g.roots)
EnclosingKept(g)       == handler
Enclosing(g)           == g.prev

(* The raise and the error side of the innermost guard: longjmp, unwind, pop *)
(* the handler, and run the handler body in a child of the guard's           *)
(* environment.                                                              *)
Raise ==
    /\ CanRaise /\ handler # <<>>
    /\ LET h == Head(handler)
           g == frames[h.at]
       IN  \E e \in Fresh :
             /\ NewEnv(e, h.env)
             /\ env' = e
             /\ saveStack' = UnwoundSaves(g)
             /\ chain' = UnwoundChain(g, h.at)
             /\ handler' = Enclosing(g)
             /\ depth' = h.at
             /\ frames' = [d \in Slots |->
                             CASE d = h.at -> [g EXCEPT !.ph = "handling", !.saved = e]
                               [] d > h.at -> Idle
                               [] OTHER    -> frames[d]]
    /\ tcoExpr' = FALSE
    /\ tcoEnv' = NoEnv
    /\ UNCHANGED <<cont, exited>>

(* No handler: x_eval_error reports and exits.                               *)
Uncaught ==
    /\ CanRaise /\ handler = <<>>
    /\ exited' = TRUE
    /\ UNCHANGED <<registers, chain, frames, depth, heap>>

(* The guard's environment is read back as the parent of the body's.         *)
HandlingDone ==
    /\ In("handling")
    /\ env' = parent[Me.saved]
    /\ handler' = Me.prev
    /\ Answer(1)
    /\ UNCHANGED <<saveStack, tcoExpr, tcoEnv, depth, heap, exited>>

-----------------------------------------------------------------------------
(* call/cc and the collector.                                                *)

(* The C stack as it is now, and the registers as the state list holds them. *)
Captured == [env |-> env, saveStack |-> saveStack, handler |-> handler,
             chain |-> chain, frames |-> frames, depth |-> depth]

(* Capture, then apply the procedure or operative to the continuation, which *)
(* the program keeps or drops.                                               *)
CallCC ==
    /\ Form("call/cc")
    /\ cont' \in {Captured, NoCont}
    /\ \/ /\ \E e \in Fresh, closure \in Reached : NewEnv(e, closure) /\ env' = e
          /\ frames' = [frames EXCEPT ![depth] = [@ EXCEPT !.ph = "applied", !.saved = env]]
          /\ chain' = Cons([at |-> depth, what |-> "body"], chain)
       \/ EnterOperative("apbody")
    /\ UNCHANGED <<saveStack, tcoExpr, tcoEnv, handler, depth, exited>>

(* %cc-invoke: the copied stack and the registers come back, and the         *)
(* captured call/cc form answers.                                            *)
Invoke ==
    /\ Form("call/cc") /\ cont # NoCont
    /\ env' = cont.env
    /\ saveStack' = cont.saveStack
    /\ handler' = cont.handler
    /\ chain' = Tail(cont.chain)
    /\ depth' = cont.depth
    /\ frames' = [cont.frames EXCEPT ![cont.depth].ph = "back"]
    /\ tcoExpr' = FALSE
    /\ tcoEnv' = NoEnv
    /\ UNCHANGED <<heap, exited>>

(* (heap-collect): whatever the roots do not reach is freed.                 *)
Collect ==
    /\ Form("collect")
    /\ swept' = swept \cup (Locals \ Reached)
    /\ Answer(0)
    /\ UNCHANGED <<registers, depth, parent, cont, exited>>

-----------------------------------------------------------------------------
Init ==
    /\ program \in Programs
    /\ env = Root
    /\ saveStack = <<>> /\ handler = <<>> /\ chain = <<>>
    /\ tcoExpr = FALSE /\ tcoEnv = NoEnv
    /\ frames = [d \in Slots |-> Idle] /\ depth = 0
    /\ parent = [e \in Env |-> NoEnv]
    /\ swept = {} /\ cont = NoCont /\ exited = FALSE

Step ==
    \/ Call \/ SelfEvaluate \/ Atom \/ Combine \/ Data \/ Trampoline \/ Return
    \/ Procedure \/ BodyTail \/ BodyNilTail
    \/ Operative \/ Sequence \/ OpTail \/ OpNilTail
    \/ ApplyProcedure \/ Applied \/ ApplyOperative
    \/ ApBodyTail \/ ApBodyNilTail \/ LoopPass \/ LoopDone
    \/ DeferPlain \/ TailEval \/ EvalIn \/ EvalInDone
    \/ EvalTop \/ Load \/ LeaveTop
    \/ Guard \/ GuardDone \/ Raise \/ Uncaught \/ HandlingDone
    \/ CallCC \/ Invoke \/ Collect

Next == Step /\ UNCHANGED program

Spec == Init /\ [][Next]_vars

-----------------------------------------------------------------------------
(* Every register, frame and node holds a value of its kind.                 *)
TypeOK ==
    /\ program \in Programs
    /\ env \in Env
    /\ saveStack \in Seq(Env)
    /\ tcoExpr \in BOOLEAN
    /\ tcoEnv \in EnvOrNil
    /\ handler \in Seq(Handler)
    /\ chain \in Seq(Node)
    /\ frames \in [Slots -> Frame]
    /\ depth \in 0..MaxDepth
    /\ parent \in [Env -> EnvOrNil]
    /\ swept \subseteq Env
    /\ cont \in Continuation \cup {NoCont}
    /\ exited \in BOOLEAN

(* The nodes activation d has registered, by the phase of its frame f; the   *)
(* later a local came to be protected, the nearer to the chain's head.       *)
Brackets == {"top", "topped", "load"}
NodesOf(f, d) ==
    LET form  == IF f.ph \in {"start", "back"} THEN {} ELSE {"list"}
        local == CASE f.ph \in {"body", "applied", "guarded", "handling"} -> {"body"}
                   [] f.ph \in {"opbody", "apbody"}                      -> {"op"}
                   [] f.ph = "loop"                                      -> {"loop"}
                   [] f.ph \in Brackets                                  -> {"park"}
                   [] OTHER                                              -> {}
    IN  {[at |-> d, what |-> k] : k \in {"tco"} \cup form \cup local}

Layer(n)    == CASE n.what = "tco" -> 0 [] n.what = "list" -> 1 [] OTHER -> 2
Newer(m, n) == m.at > n.at \/ (m.at = n.at /\ Layer(m) > Layer(n))

NodesUpTo(fs, n) == UNION {NodesOf(fs[d], d) : d \in 1..n}
Lists(c, nodes) ==
    /\ Range(c) = nodes
    /\ \A i, j \in DOMAIN c : i < j => Newer(c[i], c[j])

(* The root chain is exactly the nodes of the C frames in progress, newest   *)
(* first: a longjmp to a guard, a nil tail, a re-entered continuation and    *)
(* every other way out of a frame unregister what the frame registered, so   *)
(* the collector never walks dead stack memory nor misses a live node.       *)
ChainMatchesStack == Lists(chain, NodesUpTo(frames, depth))

(* An installed handler's guard is still on the C stack, inside its body,    *)
(* and the handlers are those of the guards in progress: a longjmp never     *)
(* lands in a frame that has returned.                                       *)
GuardsUpTo(fs, n) == {d \in 1..n : fs[d].ph = "guarded"}
Installed(hs, guards) ==
    /\ {hs[i].at : i \in DOMAIN hs} = guards
    /\ \A i, j \in DOMAIN hs : i < j => hs[i].at > hs[j].at

HandlersOnStack == Installed(handler, GuardsUpTo(frames, depth))

(* The save-stack holds one environment for every call and every eval-in in  *)
(* progress since the innermost top-level bracket was entered: a pop never   *)
(* takes what another frame pushed, whichever way frames were left.          *)
Pushers == {"body", "evalin", "evaled"}
Pushed(fs, n) ==
    {d \in 1..n : fs[d].ph \in Pushers /\ \A c \in d+1..n : fs[c].ph \notin Brackets}
SaveStackMatches == Len(saveStack) = Cardinality(Pushed(frames, depth))

(* A deferred tail is always the business of the activation that deferred    *)
(* it: no x_eval starts, and no handler runs, with tco-expr or tco-env set   *)
(* by somebody else.                                                         *)
TcoClean ==
    ~exited => /\ tcoEnv # NoEnv => tcoExpr
               /\ tcoExpr => depth > 0 /\ Me.ph \in {"back", "loop"}

(* No environment in a register, or one it leads to, has been swept: a       *)
(* collection between any two steps never frees what a return restores.      *)
NothingSwept ==
    swept \cap Closure({env, tcoEnv} \cup Range(saveStack)
                       \cup {h.env : h \in Range(handler)}) = {}

(* Whatever a C frame will use again is reachable by the collector: saved    *)
(* environments, kept environments, an operative's caller, parked brackets,  *)
(* the environment of a handler body.  The environment apply holds is not    *)
(* (see NothingSwept), nor, where x_eval leaves a deferred tail without a    *)
(* restore, that of a handler body around it.                                *)
Sheltered ==
    {"apply", "call/cc", "simple-tail", "bare-tail-eval"} \cap program.forms = {}
LocalsRooted == Sheltered => Closure(LocalsOf(frames)) \subseteq Reached
=============================================================================
