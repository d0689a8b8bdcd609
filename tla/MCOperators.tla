----------------------------- MODULE MCOperators -----------------------------
(* Instances of Operators: types that register, replace and convert in any   *)
(* order, in one base and in two.                                            *)
EXTENDS Operators

(* No step reads what the last one answered.                                 *)
MCView == <<home, ops, from, instances>>
=============================================================================
