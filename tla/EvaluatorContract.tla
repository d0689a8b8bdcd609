-------------------------- MODULE EvaluatorContract --------------------------
(* Evaluator implements EvalContract.  The mapping reads off the C stack     *)
(* what every activation of x_eval is going to leave behind when it returns. *)
EXTENDS Evaluator

Registers == [env : EnvOrNil, stk : Seq(Env), hnd : Seq(Handler)]

(* What the activation running frame f leaves, when s is what it sees once   *)
(* the evaluations it asked for have answered, pending is the environment    *)
(* handed over with a tail it has just deferred, and up the parents.         *)
Leaves(up, f, s, pending) ==
    [env |-> CASE f.kept # NoEnv                                   -> f.kept
               [] f.kept = NoEnv /\ pending # NoEnv                -> pending
               [] f.kept = NoEnv /\ pending = NoEnv ->
                    CASE f.ph \in {"body", "evalin", "evaled"}     -> Head(s.stk)
                      [] f.ph \in {"opbody", "apbody", "applied",
                                   "top", "topped", "load"}        -> f.saved
                      [] f.ph = "loop" /\ f.saved # NoEnv          -> f.saved
                      [] f.ph = "handling"                         -> up[f.saved]
                      [] OTHER                                     -> s.env,
     stk |-> CASE f.ph \in {"body", "evalin", "evaled"} -> Tail(s.stk)
               [] f.ph \in {"top", "topped", "load"}    -> f.stk
               [] OTHER                                 -> s.stk,
     hnd |-> IF f.ph \in {"guarded", "handling"} THEN f.prev ELSE s.hnd]

(* What the activations of a stack of n leave, and past it the registers s.  *)
Seen(up, fs, n, s, pending) ==
    LET seen[d \in 1..MaxDepth + 1] ==
            IF d > n THEN s
            ELSE Leaves(up, fs[d], seen[d+1], IF d = n THEN pending ELSE NoEnv)
    IN  seen

(* Activations 1..n of a stack whose registers are s.                       *)
ActsOf(up, fs, n, s, pending) ==
    LET seen == Seen(up, fs, n, s, pending)
    IN  [d \in 1..n |-> [answer |-> seen[d], guarding |-> fs[d].ph = "guarded"]]

Now  == [env |-> env, stk |-> saveStack, hnd |-> handler]
Then == [env |-> cont.env, stk |-> cont.saveStack, hnd |-> cont.handler]

Acts == ActsOf(parent, frames, depth, Now, tcoEnv)
Held == IF cont = NoCont THEN [acts |-> <<>>, cur |-> [none |-> TRUE]]
        ELSE [acts |-> ActsOf(parent, cont.frames, cont.depth, Then, NoEnv), cur |-> Then]

Contract == INSTANCE EvalContract
    WITH State <- Registers, cur <- Now, acts <- Acts, held <- Held

(* Every x_eval that answers leaves the environment, the save-stack and the  *)
(* error handler its caller had: through any chain of deferred tails,        *)
(* operatives switching to the caller's scope, errors cut short by a guard,  *)
(* top-level brackets and re-entered continuations.                          *)
EvalKeepsItsPromise == Contract!Spec
=============================================================================
