-------------------------- MODULE MCExecutorRunner --------------------------
(* The kinds in the order of ALL_SCENARIOS: a scenario on one executor, m1 *)
(* on two, and one that brings its own environment.  A second branch uses  *)
(* other ports, ten further on, and starts anew.                           *)
EXTENDS ExecutorRunner
MCKind == <<"native", "paired", "own">>
=============================================================================
