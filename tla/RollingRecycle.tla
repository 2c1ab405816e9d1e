--------------------------- MODULE RollingRecycle ---------------------------
(***************************************************************************)
(* What every strategy of the autorecycler promises of the units it        *)
(* replaces (the members of a replica set, the auto scaling groups of a    *)
(* component, the servers of a Consul quorum): a unit is taken out of      *)
(* service only while it is out of date, only while no other unit is out,  *)
(* and it comes back only once it is up to date.                           *)
(***************************************************************************)
CONSTANT Units

VARIABLES
    out,      \* the units out of service
    stale     \* the units that run an image other than their template's

vars == <<out, stale>>

Init == out = {} /\ stale \in SUBSET Units

TakeOut(u) == out = {} /\ u \in stale /\ out' = {u} /\ UNCHANGED stale

Renew(u) == u \in out /\ stale' = stale \ {u} /\ UNCHANGED out

PutBack(u) == u \in out \ stale /\ out' = out \ {u} /\ UNCHANGED stale

Next == \E u \in Units : TakeOut(u) \/ Renew(u) \/ PutBack(u)

Spec == Init /\ [][Next]_vars
=============================================================================
