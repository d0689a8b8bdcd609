----------------------------- MODULE EvalContract -----------------------------
(* What x_eval promises to its caller, with no trampoline in sight: whatever *)
(* an expression does to the environment, the save-stack and the error       *)
(* handler while it is evaluated, it answers with the three it was given.    *)
(* An error may instead cut away the activations above one that is guarding, *)
(* and a continuation may bring back the activations it captured.            *)
EXTENDS Naturals, Sequences

CONSTANT State      \* values of [env, stk, hnd]

VARIABLES
    cur,            \* the three as they are now
    acts,           \* the activations, outermost first: what each answers
                    \* with and whether it is guarding
    held            \* the continuation the program holds: its acts and cur

vars == <<cur, acts, held>>

NoneHeld == [acts |-> <<>>, cur |-> [none |-> TRUE]]

Init == cur \in State /\ acts = <<>> /\ held = NoneHeld

Mine   == acts[Len(acts)]
Others == SubSeq(acts, 1, Len(acts) - 1)

Begin ==
    /\ acts' = Append(acts, [answer |-> cur, guarding |-> FALSE])
    /\ UNCHANGED <<cur, held>>

End ==
    /\ acts # <<>>
    /\ cur' = Mine.answer
    /\ acts' = Others
    /\ UNCHANGED held

(* Between its calls an activation changes the three freely, may start or    *)
(* stop guarding, and may capture the continuation or drop it.               *)
Work ==
    /\ acts # <<>>
    /\ cur' \in State
    /\ \E g \in BOOLEAN : acts' = Append(Others, [Mine EXCEPT !.guarding = g])
    /\ held' \in {held, [acts |-> acts, cur |-> cur], NoneHeld}

(* An error reaches the innermost guard, which stops guarding and goes on    *)
(* with the save-stack and the handler it started with.                      *)
Unwind ==
    /\ \E n \in 1..Len(acts) :
         /\ acts[n].guarding
         /\ \A m \in n+1..Len(acts) : ~acts[m].guarding
         /\ acts' = [SubSeq(acts, 1, n) EXCEPT ![n].guarding = FALSE]
         /\ cur' \in State
         /\ cur'.stk = acts[n].answer.stk
         /\ cur'.hnd = acts[n].answer.hnd
    /\ UNCHANGED held

Reenter ==
    /\ held # NoneHeld
    /\ acts' = held.acts
    /\ cur' = held.cur
    /\ UNCHANGED held

Next == Begin \/ End \/ Work \/ Unwind \/ Reenter

Spec == Init /\ [][Next]_vars
=============================================================================
