------------------------------ MODULE MCScopes ------------------------------
(* Instances of Scopes: bases that share spellings, calls with and without  *)
(* enough values, one parameter twice among them.                           *)
EXTENDS Scopes

CONSTANTS a, c, h, t
MCAtoms  == {a}
MCArgs   == {<<>>, <<a, c>>}
MCParams == {<<>>, <<1>>, <<2, 1>>, <<1, 1>>}

(* Calls nested in calls and modules; symbols of two bases in each other's  *)
(* roots; and foreign symbols met in roots, modules and frames.             *)
Calls == [bases |-> {h}, names |-> {1, 2}, params |-> MCParams \ {<<>>}, args |-> MCArgs,
          envs |-> 2, cells |-> 3]
Roots == [bases |-> {h, t}, names |-> {1, 2}, params |-> {<<>>}, args |-> {<<>>},
          envs |-> 0, cells |-> 4]
Foreign == [bases |-> {h, t}, names |-> {1}, params |-> {<<>>}, args |-> {<<>>},
            envs |-> 2, cells |-> 3]
MCPrograms == {Calls, Roots, Foreign}

(* No step reads what the last one answered.                                *)
MCView == <<program, syms, table, envs>>
=============================================================================
