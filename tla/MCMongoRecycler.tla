--------------------------- MODULE MCMongoRecycler ---------------------------
(* Instances of MongoRecycler for TLC.                                     *)
EXTENDS MongoRecycler, TLC

CONSTANTS a, b, c, d,  \* members, one per availability zone, and an arbiter
          old, new,  \* images
          e1, e2     \* executions

AllNew == [m \in Members |-> new]

(* A rollout that has not reached the templates of the other zones.        *)
OnlyZoneA == [m \in Members |-> IF m = a THEN new ELSE old]

(* The component is named without a zone: its name is a prefix of all.     *)
WholeSet == [e \in Executions |-> Members]

(* The component is named with the zone of a.                              *)
ZoneA == [e \in Executions |-> {a}]

(* Data members, and executions, are interchangeable when all templates   *)
(* agree.                                                                  *)
Interchangeable == Permutations(Members \ Arbiters) \cup Permutations(Executions)
=============================================================================
