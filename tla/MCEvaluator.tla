----------------------------- MODULE MCEvaluator -----------------------------
(* Instances of Evaluator for TLC.                                           *)
EXTENDS EvaluatorContract, TLC

(* Three activations deep: calls, guards, errors and the forms that reach    *)
(* into another scope or bracket one, with collections.  Two deep: every     *)
(* form but those apart; and continuations, with what holds C frames.        *)
Deep == [forms |-> {"procedure", "operative", "tail-eval", "eval-in", "load",
                    "guard", "error", "collect"}, depth |-> 3]
Broad == [forms |-> AllForms \ {"apply", "call/cc", "simple-tail", "bare-tail-eval"},
          depth |-> 2]
Reenters == [forms |-> {"procedure", "apply", "guard", "error", "call/cc"}, depth |-> 2]
MCPrograms == {Deep, Broad, Reenters}

ApplyCollects == {[forms |-> {"procedure", "apply", "collect"}, depth |-> 2]}

(* The environments other than the root are interchangeable.                 *)
EnvSymmetry == Permutations(Env \ {Root})
=============================================================================
