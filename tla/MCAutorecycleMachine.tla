------------------------ MODULE MCAutorecycleMachine ------------------------
(* Instances of AutorecycleMachine for TLC.                                *)
EXTENDS AutorecycleMachine, TLC

CONSTANTS e1, e2   \* executions

(* Executions differ in nothing but their names.                           *)
Interchangeable == Permutations(Executions)
=============================================================================
