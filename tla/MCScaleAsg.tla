----------------------------- MODULE MCScaleAsg -----------------------------
(* Instances of ScaleAsg for TLC.                                          *)
EXTENDS ScaleAsg, TLC

CONSTANTS e1, e2   \* executions

(* Executions differ in nothing but their name.                            *)
AnyExecution == Permutations(Executions)
=============================================================================
