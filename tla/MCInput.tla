------------------------------- MODULE MCInput -------------------------------
(* Instances of Input for TLC.                                               *)
EXTENDS Input, TLC

MCPrograms == {[conts |-> FALSE, frames |-> 5], [conts |-> TRUE, frames |-> 3]}

(* Memory and descriptors other than the driver's are interchangeable.       *)
InputSymmetry == Permutations(Cell \ {Driver}) \cup Permutations(Fd \ {Stdin})
=============================================================================
