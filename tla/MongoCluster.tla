---------------------------- MODULE MongoCluster ----------------------------
(***************************************************************************)
(* The world the Mongo recycler acts on: the EC2 instances of one replica  *)
(* set, the auto scaling group that replaces each of them, and the         *)
(* replication state of the mongod on each.  None of it is code of the     *)
(* repository: it is modelled from the calls src/src/mongo_recycler makes  *)
(* and the replies it distinguishes.                                       *)
(*                                                                         *)
(* A member is a place in the replica set (a data volume and a network     *)
(* interface in one availability zone, with an auto scaling group of size  *)
(* one); the instance that fills it comes and goes.                        *)
(***************************************************************************)
EXTENDS Naturals, FiniteSets

CONSTANTS
    Members,        \* the members of the replica set
    Arbiters,       \* those that vote and hold no data
    Images,         \* the AMIs in use
    Template,       \* the AMI of the launch template of each member's group
    Generations,    \* instance ids of a member repeat after this many launches
    FaultKinds,     \* which spontaneous faults may happen: "election", "resync"
    MaxFaults       \* bound on their number

ASSUME ClusterAssumption ==
    /\ Arbiters \subseteq Members
    /\ Template \in [Members -> Images]
    /\ Generations \in Nat \ {0}
    /\ FaultKinds \subseteq {"election", "resync"}
    /\ MaxFaults \in Nat

VARIABLES
    host,      \* EC2 state; "unattached": running, network interface not there yet
    id,        \* which generation of instance fills the member
    image,     \* the AMI that instance was launched from
    rs,        \* replication state; "IDLE": SECONDARY with an empty syncSourceHost
    view,      \* the replication states the primary last heard in heartbeats
    frozen,    \* members that stepped down less than 100 seconds ago
    chaining,  \* settings.chainingAllowed of the replica set
    faults     \* spontaneous faults so far (counted for properties and bound)

clusterVars == <<host, id, image, rs, view, frozen, chaining, faults>>

HostStates == {"running", "shutting-down", "terminated", "unattached"}
MemberStates == {"PRIMARY", "SECONDARY", "IDLE", "RECOVERING", "DOWN", "ARBITER"}

ClusterTypeOK ==
    /\ host \in [Members -> HostStates]
    /\ id \in [Members -> 0..Generations-1]
    /\ image \in [Members -> Images]
    /\ rs \in [Members -> MemberStates]
    /\ view \in [Members -> MemberStates]
    /\ frozen \in [Members -> BOOLEAN]
    /\ chaining \in BOOLEAN
    /\ faults \in 0..MaxFaults

HasPrimary == \E m \in Members : rs[m] = "PRIMARY"
Electable(m) == m \notin Arbiters /\ rs[m] \in {"SECONDARY", "IDLE"} /\ ~frozen[m]
Majority == 2 * Cardinality({m \in Members : rs[m] # "DOWN"}) > Cardinality(Members)

(* A healthy set, whatever images its instances run. *)
ClusterInit ==
    /\ host = [m \in Members |-> "running"]
    /\ id = [m \in Members |-> 0]
    /\ image \in [Members -> Images]
    /\ \E p \in Members \ Arbiters :
          rs = [m \in Members |-> IF m = p THEN "PRIMARY"
                                  ELSE IF m \in Arbiters THEN "ARBITER" ELSE "SECONDARY"]
    /\ view = rs
    /\ frozen = [m \in Members |-> FALSE]
    /\ chaining \in BOOLEAN
    /\ faults = 0
-----------------------------------------------------------------------------
(* EC2 and the auto scaling group of the member.                           *)

(* An instance takes longer to terminate than a heartbeat to time out: by  *)
(* then the primary, if there is one, knows that the member is down.       *)
Terminated(m) ==
    /\ host[m] = "shutting-down"
    /\ HasPrimary => view[m] = "DOWN"
    /\ host' = [host EXCEPT ![m] = "terminated"]
    /\ UNCHANGED <<id, image, rs, view, frozen, chaining, faults>>

Launch(m) ==
    /\ host[m] = "terminated"
    /\ host' = [host EXCEPT ![m] = "unattached"]
    /\ id' = [id EXCEPT ![m] = (@ + 1) % Generations]
    /\ image' = [image EXCEPT ![m] = Template[m]]
    /\ UNCHANGED <<rs, view, frozen, chaining, faults>>

Attach(m) ==
    /\ host[m] = "unattached"
    /\ host' = [host EXCEPT ![m] = "running"]
    /\ UNCHANGED <<id, image, rs, view, frozen, chaining, faults>>
-----------------------------------------------------------------------------
(* The replica set.                                                        *)

Becomes(m, state) ==
    /\ rs' = [rs EXCEPT ![m] = state]
    /\ UNCHANGED <<host, id, image, view, frozen, chaining, faults>>

Boot(m) ==
    /\ host[m] = "running" /\ rs[m] = "DOWN"
    /\ Becomes(m, IF m \in Arbiters THEN "ARBITER" ELSE "RECOVERING")

CatchUp(m) == rs[m] = "RECOVERING" /\ HasPrimary /\ Becomes(m, "IDLE")

ChooseSource(m) == rs[m] = "IDLE" /\ HasPrimary /\ Becomes(m, "SECONDARY")

PrimaryLost(m) == rs[m] = "PRIMARY" /\ ~Majority /\ Becomes(m, "IDLE")

(* The winner has heard every voter, so its view starts up to date. *)
Elect(m) ==
    /\ ~HasPrimary /\ Electable(m) /\ Majority
    /\ rs' = [rs EXCEPT ![m] = "PRIMARY"]
    /\ view' = rs'
    /\ UNCHANGED <<host, id, image, frozen, chaining, faults>>

(* An election takes less than the 100 seconds of a step-down: no member   *)
(* becomes electable again before the others had their chance.             *)
Unfreeze(m) ==
    /\ frozen[m]
    /\ HasPrimary \/ ~\E n \in Members : Electable(n)
    /\ frozen' = [frozen EXCEPT ![m] = FALSE]
    /\ UNCHANGED <<host, id, image, rs, view, chaining, faults>>

Heartbeat(m) ==
    /\ HasPrimary /\ view[m] # rs[m]
    /\ view' = [view EXCEPT ![m] = rs[m]]
    /\ UNCHANGED <<host, id, image, rs, frozen, chaining, faults>>

(* A failover nobody asked for, and a member that has to resynchronise.    *)
Fault(m) ==
    /\ faults < MaxFaults
    /\ \/ "election" \in FaultKinds /\ rs[m] = "PRIMARY"
          /\ rs' = [rs EXCEPT ![m] = "IDLE"]
       \/ "resync" \in FaultKinds /\ rs[m] \in {"SECONDARY", "IDLE"}
          /\ rs' = [rs EXCEPT ![m] = "RECOVERING"]
    /\ faults' = faults + 1
    /\ UNCHANGED <<host, id, image, view, frozen, chaining>>

Environment ==
    \E m \in Members :
        \/ Terminated(m) \/ Launch(m) \/ Attach(m)
        \/ Boot(m) \/ CatchUp(m) \/ ChooseSource(m)
        \/ Elect(m) \/ PrimaryLost(m) \/ Unfreeze(m) \/ Heartbeat(m)
        \/ Fault(m)
-----------------------------------------------------------------------------
(* A member the clients of the replica set cannot use.                     *)
Impaired(m) == rs[m] \in {"RECOVERING", "DOWN"}

(* What replSetGetStatus and describe_instances show of a healthy set      *)
(* (process/replica_set_health.py 20-58).                                  *)
NoneUnattached == \A m \in Members : host[m] # "unattached"
=============================================================================
