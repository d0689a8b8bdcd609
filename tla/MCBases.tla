------------------------------ MODULE MCBases -------------------------------
(* Instances of Bases: a host and its children on a stack of a few frames.  *)
EXTENDS Bases

Ids == 1..6
Nested    == [uses |-> {"children"}, depth |-> 4]
Reentrant == [uses |-> {"children", "reentry"}, depth |-> 3]
Continues == [uses |-> {"continuations"}, depth |-> 3]

MCPrograms == {Nested, Reentrant, Continues}
Reentering == {[Reentrant EXCEPT !.depth = 4]}
=============================================================================
