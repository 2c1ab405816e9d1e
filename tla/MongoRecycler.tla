---------------------------- MODULE MongoRecycler ----------------------------
(***************************************************************************)
(* The "mongo" strategy of the autorecycler: the Lambda of                 *)
(* src/src/mongo_recycler, called over and over by the loop "Recycle Mongo *)
(* Cluster" of terraform/state_machine.tf, one execution of the state      *)
(* machine per element of Executions.  An invocation of the Lambda is not  *)
(* atomic: it is split at every call that reads or changes the world.      *)
(***************************************************************************)
EXTENDS MongoCluster

CONSTANTS
    Executions,        \* executions of the state machine for this replica set
    Named,             \* per execution, the members whose launch template name
                       \*   starts with the component it was started for
    DirectConnection,  \* a connection to one address stays on that mongod, as
                       \*   the code is written for; if FALSE, the driver
                       \*   discovers the set and uses the primary, as the
                       \*   pinned one does
    HealthPolls,       \* attempts of the poll for health (60 in the code)
    TerminatePolls,    \* attempts of the poll for termination (50 in the code)
    MaxRetries,        \* retries of one invocation (8 in the state machine)
    MaxCount,          \* the counters saturate here
    None

ASSUME RecyclerAssumption ==
    /\ Named \in [Executions -> SUBSET Members]
    /\ DirectConnection \in BOOLEAN
    /\ HealthPolls \in Nat \ {0} /\ TerminatePolls \in Nat \ {0}
    /\ MaxRetries \in Nat /\ MaxCount \in Nat
    /\ None \notin Members \cup Images

VARIABLES
    pc,        \* where the execution is
    counter,   \* event["counter"], 0 while the event has none
    target,    \* the AMI all launch templates agree on
    todo,      \* instances of the describe_instances reply not yet asked
    found,     \* replica_set_status: instances with the state they answered
    decision,  \* the Decision of this invocation
    polls,     \* failed attempts of the poll in progress
    retries,   \* retries of this invocation so far
    reported,  \* how many recycled instances the final message counts
    kills,     \* instances the execution really terminated (history)
    recorded   \* the replica set is in table mongo_recycle_in_progress

lambdaVars == <<pc, counter, target, todo, found, decision, polls, retries,
                reported, kills, recorded>>
vars == <<clusterVars, lambdaVars>>

DONE == "DONE"
RECYCLE_SECONDARY == "RECYCLE_SECONDARY"
STEP_DOWN_AND_RECYCLE_PRIMARY == "STEP_DOWN_AND_RECYCLE_PRIMARY"

Described == [member : Members, id : 0..Generations-1, image : Images]
Instance == [member : Members, id : 0..Generations-1, image : Images,
             state : MemberStates]
Decision == [action : {"NONE", DONE}, member : {None}, id : {0}]
    \cup [action : {RECYCLE_SECONDARY, STEP_DOWN_AND_RECYCLE_PRIMARY},
          member : Members, id : 0..Generations-1]
NoDecision == [action |-> "NONE", member |-> None, id |-> 0]

Polling == {"await", "draining", "rejoin"}
Running == {"start", "templates", "describe", "read", "chain", "stepdown",
            "terminate"} \cup Polling
Ended == {"done", "failed"}

TypeOK ==
    /\ ClusterTypeOK
    /\ pc \in [Executions -> Running \cup {"wait"} \cup Ended]
    /\ counter \in [Executions -> 0..MaxCount]
    /\ target \in [Executions -> Images \cup {None}]
    /\ todo \in [Executions -> SUBSET Described]
    /\ found \in [Executions -> SUBSET Instance]
    /\ decision \in [Executions -> Decision]
    /\ polls \in [Executions -> Nat]
    /\ retries \in [Executions -> 0..MaxRetries]
    /\ reported \in [Executions -> 0..MaxCount]
    /\ kills \in [Executions -> 0..MaxCount]
    /\ recorded \in BOOLEAN

Init ==
    /\ ClusterInit
    /\ pc = [e \in Executions |-> "start"]
    /\ counter = [e \in Executions |-> 0]
    /\ target = [e \in Executions |-> None]
    /\ todo = [e \in Executions |-> {}]
    /\ found = [e \in Executions |-> {}]
    /\ decision = [e \in Executions |-> NoDecision]
    /\ polls = [e \in Executions |-> 0]
    /\ retries = [e \in Executions |-> 0]
    /\ reported = [e \in Executions |-> 0]
    /\ kills = [e \in Executions |-> 0]
    /\ recorded = FALSE
-----------------------------------------------------------------------------
(* The steps of one invocation.                                            *)

Goto(e, from, to) == pc[e] = from /\ pc' = [pc EXCEPT ![e] = to]

Increment(f, e) == [f EXCEPT ![e] = IF @ < MaxCount THEN @ + 1 ELSE @]

(* Mutant: the record is written by every invocation but the first.        *)
Start_NotFirst(e) ==
    /\ Goto(e, "start", "templates")
    /\ recorded' = (recorded \/ counter[e] # 0)
    /\ UNCHANGED <<clusterVars, counter, target, todo, found, decision, polls,
                   retries, reported, kills>>

(* The first invocation of an execution records that recycling starts.     *)
Start(e) ==
    /\ Goto(e, "start", "templates")
    /\ recorded' = (recorded \/ counter[e] = 0)
    /\ UNCHANGED <<clusterVars, counter, target, todo, found, decision, polls,
                   retries, reported, kills>>

(* The images of the launch templates found by the component's name.       *)
TemplateImages(e) == {Template[m] : m \in Named[e]}

(* They must all be the same.                                              *)
ReadTemplates(e) ==
    /\ Goto(e, "templates", "describe")
    /\ \E ami \in Images :
          /\ TemplateImages(e) = {ami}
          /\ target' = [target EXCEPT ![e] = ami]
    /\ UNCHANGED <<clusterVars, counter, todo, found, decision, polls, retries,
                   reported, kills, recorded>>

Describe(e) ==
    /\ Goto(e, "describe", "read")
    /\ NoneUnattached
    /\ todo' = [todo EXCEPT ![e] =
          {[member |-> m, id |-> id[m], image |-> image[m]] :
              m \in {n \in Members : host[n] = "running"}}]
    /\ UNCHANGED <<clusterVars, counter, target, found, decision, polls, retries,
                   reported, kills, recorded>>

(* The state string of the mongod that answers at the address of m.        *)
NodeState(m) ==
    IF ~DirectConnection THEN "PRIMARY"
    ELSE IF rs[m] = "IDLE" THEN "SECONDARY" ELSE rs[m]

(* The addresses are asked one at a time; an instance launched since the   *)
(* reply took over the address, and answers for its predecessor.           *)
ReadNode(e) ==
    /\ pc[e] = "read"
    /\ \E i \in todo[e] :
          /\ IF DirectConnection THEN rs[i.member] # "DOWN" ELSE HasPrimary
          /\ todo' = [todo EXCEPT ![e] = @ \ {i}]
          /\ found' = [found EXCEPT ![e] = @ \cup
                {[member |-> i.member, id |-> i.id, image |-> i.image,
                  state |-> NodeState(i.member)]}]
    /\ UNCHANGED <<clusterVars, pc, counter, target, decision, polls, retries,
                   reported, kills, recorded>>

(* Mutant: the image is not compared.                                      *)
Candidates_AnyImage(e, state) == {i \in found[e] : i.state = state}

Candidates(e, state) ==
    {i \in found[e] : i.image # target[e] /\ i.state = state}

(* Mutant: instance_id and image_id change places.                         *)
Choice_SwappedFields(e, action, candidates) ==
    {[action |-> action, member |-> i.member, id |-> i.image] : i \in candidates}

Choice(e, action, candidates) ==
    {[action |-> action, member |-> i.member, id |-> i.id] : i \in candidates}

(* Mutant: an outdated primary is forgotten.                               *)
Decisions_NoPrimary(e) ==
    LET secondaries == Candidates(e, "SECONDARY")
    IN IF secondaries # {} THEN Choice(e, RECYCLE_SECONDARY, secondaries)
       ELSE {[action |-> DONE, member |-> None, id |-> 0]}

(* Out-of-date secondaries first, in any order; the primary last.          *)
Decisions(e) ==
    LET secondaries == Candidates(e, "SECONDARY")
        primaries == Candidates(e, "PRIMARY")
    IN IF secondaries # {} THEN Choice(e, RECYCLE_SECONDARY, secondaries)
       ELSE IF primaries # {} THEN Choice(e, STEP_DOWN_AND_RECYCLE_PRIMARY, primaries)
       ELSE {[action |-> DONE, member |-> None, id |-> 0]}

Decide(e) ==
    /\ Goto(e, "read", "chain")
    /\ todo[e] = {} /\ found[e] # {}
    /\ \E d \in Decisions(e) : decision' = [decision EXCEPT ![e] = d]
    /\ found' = [found EXCEPT ![e] = {}]
    /\ UNCHANGED <<clusterVars, counter, target, todo, polls, retries, reported,
                   kills, recorded>>

(* Mutant: chaining is allowed again, and never forbidden.                 *)
Chain_OnlyOn(e, allowed) ==
    /\ NoneUnattached /\ HasPrimary
    /\ chaining' = (chaining \/ allowed)
    /\ UNCHANGED <<host, id, image, rs, view, frozen, faults, target, todo, found,
                   decision, polls, retries, kills, recorded>>

(* The set is reached through all addresses: the request needs a primary.  *)
(* replSetGetConfig and replSetReconfig are one step, because the second   *)
(* carries the next version of the configuration and is refused when that  *)
(* has changed in between.                                                 *)
Chain(e, allowed) ==
    /\ NoneUnattached /\ HasPrimary
    /\ chaining' = allowed
    /\ UNCHANGED <<host, id, image, rs, view, frozen, faults, target, todo, found,
                   decision, polls, retries, kills, recorded>>


ChainOff(e) ==
    /\ decision[e].action # DONE
    /\ Chain(e, FALSE)
    /\ Goto(e, "chain", IF decision[e].action = STEP_DOWN_AND_RECYCLE_PRIMARY
                        THEN "stepdown" ELSE "terminate")
    /\ UNCHANGED <<counter, reported>>

(* Mutant: the counter is incremented before the message quotes it.        *)
Finish_CountsItself(e) ==
    /\ decision[e].action = DONE
    /\ Chain(e, TRUE)
    /\ Goto(e, "chain", "done")
    /\ counter' = Increment(counter, e)
    /\ reported' = [reported EXCEPT ![e] = counter'[e]]

(* Nothing left to recycle: the final message quotes the counter, and the  *)
(* state machine leaves the loop.                                          *)
Finish(e) ==
    /\ decision[e].action = DONE
    /\ Chain(e, TRUE)
    /\ Goto(e, "chain", "done")
    /\ reported' = [reported EXCEPT ![e] = counter[e]]
    /\ counter' = Increment(counter, e)

(* replSetStepDown: refused (and the refusal ignored) by a member that is  *)
(* not primary, impossible when no other member can take over.             *)
StepDown(e) ==
    /\ Goto(e, "stepdown", "await")
    /\ \E m \in Members :
          /\ IF DirectConnection THEN m = decision[e].member /\ rs[m] # "DOWN"
                                 ELSE rs[m] = "PRIMARY"
          /\ \/ /\ rs[m] = "PRIMARY"
                /\ \E n \in Members \ {m} : Electable(n)
                /\ rs' = [rs EXCEPT ![m] = "IDLE"]
                /\ frozen' = [frozen EXCEPT ![m] = TRUE]
             \/ rs[m] # "PRIMARY" /\ UNCHANGED <<rs, frozen>>
    /\ UNCHANGED <<host, id, image, view, chaining, faults, counter, target, todo,
                   found, decision, polls, retries, reported, kills, recorded>>
-----------------------------------------------------------------------------
(* Terminating, and the three polls.                                       *)

(* Mutant: whatever instance now has the address of the victim goes.       *)
Terminate_ByAddress(e) ==
    /\ Goto(e, "terminate", "draining")
    /\ LET m == decision[e].member
       IN /\ host[m] \in {"running", "unattached"}
          /\ host' = [host EXCEPT ![m] = "shutting-down"]
          /\ rs' = [rs EXCEPT ![m] = "DOWN"]
          /\ frozen' = [frozen EXCEPT ![m] = FALSE]
          /\ kills' = Increment(kills, e)
    /\ UNCHANGED <<id, image, view, chaining, faults, counter, target, todo, found,
                   decision, polls, retries, reported, recorded>>

(* terminate() by instance id: nothing happens to an instance that is gone *)
(* already.                                                                *)
Terminate(e) ==
    /\ Goto(e, "terminate", "draining")
    /\ LET m == decision[e].member
       IN \/ /\ id[m] = decision[e].id /\ host[m] \in {"running", "unattached"}
             /\ host' = [host EXCEPT ![m] = "shutting-down"]
             /\ rs' = [rs EXCEPT ![m] = "DOWN"]
             /\ frozen' = [frozen EXCEPT ![m] = FALSE]
             /\ kills' = Increment(kills, e)
          \/ /\ ~(id[m] = decision[e].id /\ host[m] \in {"running", "unattached"})
             /\ UNCHANGED <<host, rs, frozen, kills>>
    /\ UNCHANGED <<id, image, view, chaining, faults, counter, target, todo, found,
                   decision, polls, retries, reported, recorded>>

(* Mutant: only the primary is looked for.                                 *)
ClusterHealthy_PrimaryOnly ==
    /\ NoneUnattached /\ HasPrimary
    /\ Cardinality({m \in Members : view[m] = "PRIMARY"}) = 1

(* replSetGetStatus, answered by the primary, shows every member in a      *)
(* healthy state and one primary.  The addresses it is asked at are those  *)
(* of the running instances, which must all have their interface.          *)
ClusterHealthy ==
    /\ NoneUnattached /\ HasPrimary
    /\ \A m \in Members : view[m] \in {"PRIMARY", "SECONDARY", "ARBITER"}
    /\ Cardinality({m \in Members : view[m] = "PRIMARY"}) = 1

VictimTerminated(e) ==
    LET m == decision[e].member
    IN id[m] # decision[e].id \/ host[m] = "terminated"

PollSucceeds(e) ==
    IF pc[e] = "draining" THEN VictimTerminated(e) ELSE ClusterHealthy

PollLimit(e) == IF pc[e] = "draining" THEN TerminatePolls ELSE HealthPolls

(* The poll that ends the invocation returns the event with its counter    *)
(* incremented; the state machine then waits before the next one.          *)
PollPasses(e) ==
    /\ PollSucceeds(e)
    /\ \/ Goto(e, "await", "terminate") /\ UNCHANGED counter
       \/ Goto(e, "draining", "rejoin") /\ UNCHANGED counter
       \/ Goto(e, "rejoin", "wait") /\ counter' = Increment(counter, e)
    /\ polls' = [polls EXCEPT ![e] = 0]
    /\ UNCHANGED <<clusterVars, target, todo, found, decision, retries, reported,
                   kills, recorded>>

PollAgain(e) ==
    /\ pc[e] \in Polling /\ ~PollSucceeds(e)
    /\ polls[e] + 1 < PollLimit(e)
    /\ polls' = [polls EXCEPT ![e] = @ + 1]
    /\ UNCHANGED <<clusterVars, pc, counter, target, todo, found, decision, retries,
                   reported, kills, recorded>>
-----------------------------------------------------------------------------
(* The loop of the state machine.                                          *)

(* What an invocation has read is lost with it.                            *)
Forget(e) ==
    /\ target' = [target EXCEPT ![e] = None]
    /\ todo' = [todo EXCEPT ![e] = {}]
    /\ found' = [found EXCEPT ![e] = {}]
    /\ polls' = [polls EXCEPT ![e] = 0]
    /\ UNCHANGED <<clusterVars, counter, reported, kills, recorded>>

Resume(e) ==
    /\ Goto(e, "wait", "start")
    /\ decision' = [decision EXCEPT ![e] = NoDecision]
    /\ retries' = [retries EXCEPT ![e] = 0]
    /\ Forget(e)

(* Any call may raise, a guard above that does not hold raises, a poll     *)
(* gives up, or the invocation takes 900 seconds: "Lambda Error".          *)
Raise(e) ==
    /\ pc[e] \in Running
    /\ pc' = [pc EXCEPT ![e] = "failed"]
    /\ Forget(e)
    /\ UNCHANGED <<decision, retries>>

(* The Lambda service fails while the invocation runs: the state machine   *)
(* invokes the Lambda again, with the same event.                          *)
Retry(e) ==
    /\ pc[e] \in Running /\ retries[e] < MaxRetries
    /\ pc' = [pc EXCEPT ![e] = "start"]
    /\ decision' = [decision EXCEPT ![e] = NoDecision]
    /\ retries' = [retries EXCEPT ![e] = @ + 1]
    /\ Forget(e)

Lambda(e) ==
    \/ Start(e) \/ ReadTemplates(e) \/ Describe(e) \/ ReadNode(e) \/ Decide(e)
    \/ ChainOff(e) \/ Finish(e) \/ StepDown(e) \/ Terminate(e)
    \/ PollPasses(e) \/ PollAgain(e) \/ Resume(e) \/ Raise(e) \/ Retry(e)

Next ==
    \/ Environment /\ UNCHANGED lambdaVars
    \/ \E e \in Executions : Lambda(e)

Spec == Init /\ [][Next]_vars

(* Step Functions and Lambda keep an execution going: it answers, raises   *)
(* or times out.  Nothing is assumed of the replica set, which may never   *)
(* recover.                                                                *)
FairSpec == Spec /\ \A e \in Executions : WF_vars(Lambda(e))
-----------------------------------------------------------------------------
(* Properties.                                                             *)

(* No two members are out of use at the same time: the Lambda waits for    *)
(* the whole set to be healthy again before the next instance goes         *)
(* (execute.py 30-31), and checks nothing before it starts.                *)
OneAtATime == \A m, n \in Members : Impaired(m) /\ Impaired(n) => m = n


(* Why: a member is impaired only as the victim of an execution that has   *)
(* not yet seen the set healthy again (VictimsOnly); such a member spoils  *)
(* the health check from the moment its instance has stopped (Noticed);    *)
(* and that moment the poll for termination has waited for (Drained).      *)
VictimsOnly ==
    \A m \in Members : Impaired(m) =>
        \E e \in Executions : pc[e] \in {"draining", "rejoin", "failed"}
                             /\ decision[e].member = m
Noticed ==
    \A m \in Members : HasPrimary /\ Impaired(m) /\ host[m] # "shutting-down" =>
        view[m] \in {"RECOVERING", "DOWN"}
Drained ==
    \A e \in Executions, m \in Members :
        decision[e].member = m /\ host[m] = "shutting-down" =>
            /\ pc[e] # "rejoin"
            /\ pc[e] = "draining" => id[m] = decision[e].id
StoppedIsDown == \A m \in Members : host[m] # "running" => rs[m] = "DOWN"
OneAtATimeInv == VictimsOnly /\ Noticed /\ Drained /\ StoppedIsDown

Stale(m) == image[m] # Template[m]
Killed(m) == host[m] \in {"running", "unattached"} /\ host'[m] = "shutting-down"

(* An instance is terminated only while it runs another AMI than the one   *)
(* its launch template names, whatever happened since it was described     *)
(* (decision.py 48-53, aws.py 107-120).                                    *)
OnlyStaleTerminated == [][\A m \in Members : Killed(m) => Stale(m)]_vars

(* When an instance goes, chaining is off and the recycling was announced  *)
(* in the table (execute.py 17-19, step.py 72-73).                         *)
TerminationIsPrepared ==
    [][(\E m \in Members : Killed(m)) => ~chaining /\ recorded]_vars

(* With the direct connection the code is written for, the primary is      *)
(* never terminated as primary, unless the replica set held an election of *)
(* its own accord (execute.py 20-25); with the pinned driver it may be.    *)
PrimarySpared ==
    [][\A m \in Members : Killed(m) => rs[m] # "PRIMARY" \/ faults > 0]_vars

(* An execution that ends with "successfully completed" leaves every data  *)
(* member on the image of its template, and chaining allowed again         *)
(* (execute.py 14-16, step.py 78-84).                                      *)
DoneMeansRestored ==
    \A e \in Executions : pc[e] = "done" =>
        chaining /\ \A m \in Members \ Arbiters : ~Stale(m)

(* Even when invocations were retried and members resynchronised, no       *)
(* instance on an outdated image, an arbiter's included, is running when   *)
(* the execution ends well (decision.py 45-66).                            *)
DoneLeavesNoneStale ==
    \A e \in Executions : pc[e] = "done" =>
        \A m \in Members : Stale(m) => host[m] # "running"

(* When several executions worked on the replica set and all ended well,   *)
(* the same holds, although each may have undone what the others prepared. *)
AllDoneMeansRestored ==
    (\A e \in Executions : pc[e] = "done") =>
        chaining /\ \A m \in Members \ Arbiters : ~Stale(m)

(* When the AMIs of the launch templates of the replica set do not match,  *)
(* nothing is recycled (pre_step_checks.py 27-28).                         *)
MismatchStopsRecycling ==
    [][(\E m \in Members : Killed(m)) =>
          \A m, n \in Members : Template[m] = Template[n]]_vars

(* The number of instances in the final message is the number of instances *)
(* that were terminated (step.py 79-84).                                   *)
CountIsTrue == \A e \in Executions : pc[e] = "done" => reported[e] = kills[e]

(* Every execution comes to an end, although the loop of the state machine *)
(* has no bound of its own (state_machine.tf 244-288).                     *)
Ends == \A e \in Executions : <>(pc[e] \in Ended)

(* The Mongo strategy is a rolling recycle of the members.                 *)
Rolling == INSTANCE RollingRecycle
    WITH Units <- Members,
         out <- {m \in Members : Impaired(m)},
         stale <- {m \in Members : Stale(m)}

RollingSpec == Rolling!Spec
=============================================================================
