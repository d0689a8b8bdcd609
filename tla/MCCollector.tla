----------------------------- MODULE MCCollector -----------------------------
(* Instances of Collector for TLC.                                           *)
EXTENDS Collector, TLC

(* Objects are interchangeable.                                              *)
ObjSymmetry == Permutations(Obj)
=============================================================================
