------------------------------- MODULE Bases --------------------------------
(***************************************************************************)
(* Bases that evaluate in one another: base-eval (x-prim/base.c), guard    *)
(* and error (x-syntax/control.c, x-eval.c) and a continuation carried     *)
(* from one base into another (x-prim/callcc.c).  All bases run on one C   *)
(* stack, and each has registers of its own.                               *)
(***************************************************************************)
EXTENDS Integers, Sequences, FiniteSets, SequencesExt

CONSTANTS
    Child,      \* the bases made with make-base
    Host,       \* the base the process was started with
    Id,         \* bound: names of C frames
    Programs    \* programs, each what it uses, of Features, and its frames
                \* on the C stack and base-eval cells in a base (bound)

Base == Child \cup {Host}

(* "children" are made with make-base and evaluated in, "reentry" is a child *)
(* that holds its host's base object, "continuations" are call/cc's.         *)
Features == {"children", "reentry", "continuations"}

ASSUME BasesAssumption ==
    /\ Host \notin Child
    /\ Id \subseteq Nat \ {0}
    /\ Programs \subseteq [uses : SUBSET Features, depth : Nat]

VARIABLES
    program, \* the program being run
    stack,   \* the C stack, oldest frame first
    cells,   \* per base, the stack of error-handler cells, top first; a
             \* cell holds its handler and the ones it displaced
    env,     \* per base, the current environment: the frame that made it
    chain,   \* per base, the frames with a node on its root chain, newest first
    jump,    \* the handler being jumped to, if any
    exited,  \* an uncaught error ended the process
    cont     \* the continuation the program holds, if any

vars == <<program, stack, cells, env, chain, jump, exited, cont>>

RootEnv == 0
NoJump  == [id |-> 0, env |-> RootEnv]
NoCont  == [base |-> Host, stack |-> <<>>, env |-> RootEnv, slot |-> <<>>,
            chain |-> <<>>, held |-> FALSE]

(* A handler: the frame its jmp_buf is in and the environment it saved.    *)
Handler == [id : Id \cup {0}, env : Id \cup {RootEnv}]

(* A frame: a procedure body being evaluated, a guard before and after it  *)
(* caught, or a base-eval.  "in" is the base the frame evaluates in.       *)
Kind  == {"body", "guard", "handling", "eval"}
Frame == [id : Id, kind : Kind, base : Base, in : Base,
          env : Id \cup {RootEnv}, prev : Seq(Handler), roots : Seq(Id)]

Top     == Last(stack)
Running == IF stack = <<>> THEN Host ELSE Top.in

-----------------------------------------------------------------------------
(* Fresh frames.  A name still held anywhere is not given out again, so a   *)
(* frame that is gone stays distinct from those that came after it.         *)
IdsOf(hs) == {hs[i].id : i \in DOMAIN hs} \cup {hs[i].env : i \in DOMAIN hs}
Named(stk) ==
    UNION {{f.id, f.env} \cup IdsOf(f.prev) \cup ToSet(f.roots) : f \in ToSet(stk)}
Held ==
    Named(stack) \cup Named(cont.stack) \cup IdsOf(cont.slot)
    \cup ToSet(cont.chain) \cup {cont.env}
    \cup UNION {{env[b]} \cup ToSet(chain[b]) \cup UNION {IdsOf(c) : c \in ToSet(cells[b])}
                : b \in Base}
Free  == Id \ Held
NewId == CHOOSE i \in Free : \A j \in Free : i <= j

Live == {stack[i].id : i \in DOMAIN stack}

Steady == jump = NoJump /\ ~exited
CanPush == Steady /\ Len(stack) < program.depth /\ Free # {}

(* What each base's slot, the first of its topmost cell, holds.             *)
Slot(b)         == Head(cells[b])
WithSlot(b, hs) == [cells EXCEPT ![b] = <<hs>> \o Tail(@)]

-----------------------------------------------------------------------------
Init ==
    /\ program \in Programs
    /\ stack = <<>>
    /\ cells = [b \in Base |-> << <<>> >>]
    /\ env = [b \in Base |-> RootEnv]
    /\ chain = [b \in Base |-> <<>>]
    /\ jump = NoJump
    /\ exited = FALSE
    /\ cont = NoCont

(* A procedure's body is evaluated: its frame registers what it holds on    *)
(* the root chain and makes the call's environment current.                 *)
Call ==
    /\ CanPush
    /\ LET b == Running IN
       /\ stack' = Append(stack, [id |-> NewId, kind |-> "body", base |-> b, in |-> b,
                                  env |-> env[b], prev |-> <<>>, roots |-> <<>>])
       /\ chain' = [chain EXCEPT ![b] = <<NewId>> \o @]
       /\ env' = [env EXCEPT ![b] = NewId]
    /\ UNCHANGED <<cells, jump, exited, cont>>

(* It returns: the chain's newest node is popped, whosever it is.           *)
Return ==
    /\ Steady /\ stack # <<>> /\ Top.kind = "body"
    /\ stack' = Front(stack)
    /\ chain' = [chain EXCEPT ![Top.base] = IF @ = <<>> THEN @ ELSE Tail(@)]
    /\ env' = [env EXCEPT ![Top.base] = Top.env]
    /\ UNCHANGED <<cells, jump, exited, cont>>

(* A variant the checks reject: the handler without the one it displaced.   *)
GuardHandlerAlone(id, b) == <<[id |-> id, env |-> env[b]]>>
(* The handler x_prim_guard builds: the previous one rides in it.           *)
GuardHandler(id, b) == <<[id |-> id, env |-> env[b]]>> \o Slot(b)

(* x_prim_guard, to the evaluation of its body.                             *)
Guard ==
    /\ CanPush
    /\ LET b == Running IN
       /\ cells[b] # <<>>
       /\ stack' = Append(stack, [id |-> NewId, kind |-> "guard", base |-> b, in |-> b,
                                  env |-> env[b], prev |-> Slot(b), roots |-> chain[b]])
       /\ cells' = WithSlot(b, GuardHandler(NewId, b))
    /\ UNCHANGED <<env, chain, jump, exited, cont>>

(* A variant the checks reject: the handler body's environment left current.*)
GuardEnvLeft(f) == env[f.base]
(* The guard's environment, read back as the handler body's parent.         *)
GuardEnv(f) == IF f.kind = "handling" THEN f.env ELSE env[f.base]

(* The end of x_prim_guard, after its body or its handler body.             *)
EndGuard ==
    /\ Steady /\ stack # <<>> /\ Top.kind \in {"guard", "handling"}
    /\ stack' = Front(stack)
    /\ cells[Top.base] # <<>>
    /\ cells' = WithSlot(Top.base, Top.prev)
    /\ env' = [env EXCEPT ![Top.base] = GuardEnv(Top)]
    /\ UNCHANGED <<chain, jump, exited, cont>>

(* The bases a program running in b holds: its own, by %base, those it      *)
(* made, and the host's, if that was bound into it.                         *)
Reachable(b) ==
    {b} \cup (IF b = Host /\ "children" \in program.uses THEN Child ELSE {})
        \cup (IF b # Host /\ "reentry" \in program.uses THEN {Host} ELSE {})

(* x_prim_base_eval, to the evaluation: a handler in a cell of its own on   *)
(* the target's stack of cells.                                             *)
BaseEval(t) ==
    /\ CanPush
    /\ t \in Reachable(Running)
    /\ Len(cells[t]) <= program.depth
    /\ stack' = Append(stack, [id |-> NewId, kind |-> "eval", base |-> Running, in |-> t,
                               env |-> env[t], prev |-> <<>>, roots |-> <<>>])
    /\ cells' = [cells EXCEPT ![t] = << <<[id |-> NewId, env |-> env[t]]>> >> \o @]
    /\ UNCHANGED <<env, chain, jump, exited, cont>>

(* Both ends of x_prim_base_eval pop the target's stack of cells.           *)
Popped(t) == [cells EXCEPT ![t] = Tail(@)]

(* x_prim_base_eval when the evaluation returned.                           *)
EndEval ==
    /\ Steady /\ stack # <<>> /\ Top.kind = "eval"
    /\ stack' = Front(stack)
    /\ cells[Top.in] # <<>>
    /\ cells' = Popped(Top.in)
    /\ UNCHANGED <<env, chain, jump, exited, cont>>

-----------------------------------------------------------------------------
(* Variants the checks reject: the handler the guard's handler displaced is  *)
(* what tells whether there is one; and the jump is to the outermost.        *)
RaiseInPrevious(b, cs, e) ==
    /\ cs[b] # <<>>
    /\ LET hs == Head(cs[b]) IN
       IF Len(hs) <= 1
       THEN exited' = TRUE /\ jump' = NoJump /\ env' = e
       ELSE jump' = Head(hs) /\ env' = [e EXCEPT ![b] = Head(hs).env] /\ UNCHANGED exited
RaiseInOutermost(b, cs, e) ==
    /\ cs[b] # <<>>
    /\ LET hs == Head(cs[b]) IN
       IF hs = <<>>
       THEN exited' = TRUE /\ jump' = NoJump /\ env' = e
       ELSE jump' = Last(hs) /\ env' = [e EXCEPT ![b] = Last(hs).env] /\ UNCHANGED exited

(* An error, x_prim_error's or x_eval_error's: the environment the base's    *)
(* innermost handler saved, and the jump to it; with none the process ends. *)
RaiseIn(b, cs, e) ==
    /\ cs[b] # <<>>
    /\ LET hs == Head(cs[b]) IN
       IF hs = <<>>
       THEN exited' = TRUE /\ jump' = NoJump /\ env' = e
       ELSE jump' = Head(hs) /\ env' = [e EXCEPT ![b] = Head(hs).env] /\ UNCHANGED exited

Error ==
    /\ Steady
    /\ RaiseIn(Running, cells, env)
    /\ UNCHANGED <<stack, cells, chain, cont>>

(* The frame the jump is to.                                                 *)
At == CHOOSE i \in DOMAIN stack : stack[i].id = jump.id

(* A variant the checks reject: the root chain as the raise left it.         *)
RootsKept(f) == chain[f.base]
(* The root chain a guard goes back to.                                      *)
RootsBack(f) == f.roots

(* The guard is popped before its handler body is evaluated.                 *)
SlotBack(f) == f.prev

(* x_prim_guard's error path, to the evaluation of the handler body in a     *)
(* child of the environment the guard saved.                                 *)
Catch ==
    /\ jump # NoJump /\ jump.id \in Live /\ stack[At].kind = "guard"
    /\ LET f == stack[At] IN
       /\ stack' = Append(SubSeq(stack, 1, At - 1), [f EXCEPT !.kind = "handling"])
       /\ cells' = WithSlot(f.base, SlotBack(f))
       /\ chain' = [chain EXCEPT ![f.base] = RootsBack(f)]
       /\ env' = [env EXCEPT ![f.base] = f.id]
    /\ jump' = NoJump
    /\ UNCHANGED <<exited, cont>>

(* A variant the checks reject: the first of the environment for the cell it *)
(* is in, which is no environment.                                           *)
TargetEnvFirst(f) == [env EXCEPT ![f.in] = -1]
(* The environment the error path gives the target back.                     *)
TargetEnv(f) == [env EXCEPT ![f.in] = jump.env]

(* x_prim_base_eval's error path: the cell popped, the target's environment  *)
(* restored, and the error raised again in the base that called.             *)
Propagate ==
    /\ jump # NoJump /\ jump.id \in Live /\ stack[At].kind = "eval"
    /\ LET f == stack[At] IN
       /\ stack' = SubSeq(stack, 1, At - 1)
       /\ cells' = Popped(f.in)
       /\ RaiseIn(f.base, Popped(f.in), TargetEnv(f))
    /\ UNCHANGED <<chain, cont>>

-----------------------------------------------------------------------------
(* x_prim_callcc: the whole stack, and the registers of the base it ran in. *)
(* The program keeps one continuation.                                      *)
Capture ==
    /\ "continuations" \in program.uses /\ Steady /\ ~cont.held /\ cells[Running] # <<>>
    /\ LET b == Running IN
       cont' = [base |-> b, stack |-> stack, env |-> env[b], slot |-> Slot(b),
                chain |-> chain[b], held |-> TRUE]
    /\ UNCHANGED <<stack, cells, env, chain, jump, exited>>

(* The root chain and the environment of the stack that comes back.          *)
ChainBack(b) == cont.chain
EnvBack(b)   == cont.env

(* x_prim_cc_invoke, in whichever base, and x_prim_callcc's second return.  *)
Invoke ==
    /\ Steady /\ cont.held
    /\ LET b == cont.base IN
       /\ stack' = cont.stack
       /\ env' = [env EXCEPT ![b] = EnvBack(b)]
       /\ chain' = [chain EXCEPT ![b] = ChainBack(b)]
       /\ cells[b] # <<>>
       /\ cells' = WithSlot(b, cont.slot)
    /\ UNCHANGED <<jump, exited, cont>>

Step ==
    \/ Call \/ Return
    \/ Guard \/ EndGuard
    \/ \E t \in Base : BaseEval(t)
    \/ EndEval
    \/ Error \/ Catch \/ Propagate
    \/ Capture \/ Invoke

Next == Step /\ UNCHANGED program

Spec == Init /\ [][Next]_vars

-----------------------------------------------------------------------------
(* Properties.                                                              *)

(* Registers, frames and the jump are what the engine keeps them to be.     *)
TypeOK ==
    /\ program \in Programs
    /\ stack \in Seq(Frame) /\ Len(stack) <= program.depth
    /\ cells \in [Base -> Seq(Seq(Handler))]
    /\ env \in [Base -> Id \cup {RootEnv}]
    /\ chain \in [Base -> Seq(Id)]
    /\ jump \in Handler
    /\ exited \in BOOLEAN
    /\ cont.base \in Base /\ cont.stack \in Seq(Frame)

Newest(seq) == Reverse(seq)

(* A C frame returns once; and a continuation goes back to the base it was   *)
(* captured in.  What does not hold for other programs is in README.md.      *)
Returning == "continuations" \notin program.uses
OneBase   == ~({"children", "continuations"} \subseteq program.uses)

(* The handlers reachable from a base's cells are, innermost first, those   *)
(* of the guards and base-evals on the stack that wait for an error in it:  *)
(* none is lost to the collector, and none outlives its C frame.            *)
Installed(b) == [i \in DOMAIN FlattenSeq(cells[b]) |-> FlattenSeq(cells[b])[i].id]
Waits(f, b)  == f.kind \in {"guard", "eval"} /\ f.in = b
Waiting(b)   == LET fs == Newest(stack) IN
                FlattenSeq([i \in DOMAIN fs |-> IF Waits(fs[i], b) THEN <<fs[i].id>> ELSE <<>>])
HandlersAreTheStack ==
    Steady /\ Returning => \A b \in Base : Installed(b) = Waiting(b)

(* Between raises each base evaluates in the environment of the newest of   *)
(* its own bodies or handler bodies, however errors crossed the bases.      *)
Owner(b) == SelectLastInSeq(stack, LAMBDA f : f.base = b /\ f.kind \in {"body", "handling"})
EnvMatchesStack ==
    Steady /\ OneBase => \A b \in Base : env[b] = IF Owner(b) = 0 THEN RootEnv ELSE stack[Owner(b)].id

(* An error is caught by the innermost guard on the stack, whatever bases   *)
(* lie between the raise and it.                                            *)
InnermostGuard == SelectLastInSeq(stack, LAMBDA f : f.kind = "guard")
Catches        == jump # NoJump /\ jump' = NoJump /\ ~exited'
CatchesInnermost == [][Catches /\ Returning => Len(stack') = InnermostGuard]_vars

(* An error ends the process only when no guard waits on the stack.         *)
UncaughtUnguarded == exited /\ Returning => InnermostGuard = 0

(* Where the host may collect, every node on its root chain is a live       *)
(* frame's: the mark walk reads no dead stack.  A child's collect returns   *)
(* at once, so its own chain is never walked.                               *)
Collects(b) == b = Host
NoDeadNodes == Steady /\ Collects(Running) => ToSet(chain[Running]) \subseteq Live

(* So it is in programs whose children do not evaluate in their host.       *)
MarkWalksLiveFrames == OneBase /\ "reentry" \notin program.uses => NoDeadNodes
=============================================================================
