--------------------------- MODULE MCConsulRecycle ---------------------------
(* Instances of ConsulRecycle for TLC.                                     *)
EXTENDS ConsulRecycle, TLC

CONSTANTS s1, s2, s3, e1, e2   \* servers and executions

(* Servers and executions differ in nothing but their names.               *)
Interchangeable == Permutations(Servers) \cup Permutations(Executions)
=============================================================================
