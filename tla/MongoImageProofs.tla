--------------------------- MODULE MongoImageProofs ---------------------------
(***************************************************************************)
(* Which instances the Mongo strategy terminates, and what it leaves       *)
(* behind: for every replica set and any number of executions that work on *)
(* it at the same time.                                                    *)
(***************************************************************************)
EXTENDS MongoRecyclerProofs

USE DEF DONE, RECYCLE_SECONDARY, STEP_DOWN_AND_RECYCLE_PRIMARY

(* The templates found by the component's name stand for all those of the  *)
(* replica set: either all are found, or the ones that are not found agree *)
(* with them.  (Run mongo_zone shows what happens otherwise.)              *)
TemplatesCovered ==
    \A e \in Executions, ami \in Images :
        TemplateImages(e) = {ami} => \A m \in Members : Template[m] = ami

(* An instance id is not used again for the next instance of a member.     *)
IdsDiffer == Generations > 1
-----------------------------------------------------------------------------
(* What a single step can do to the instances and to the executions.       *)

(* The life of the instance of m goes one step on, or none.                *)
LifeStep(m) ==
    \/ host'[m] = host[m] /\ id'[m] = id[m] /\ image'[m] = image[m]
    \/ /\ host[m] = "shutting-down" /\ host'[m] = "terminated"
       /\ id'[m] = id[m] /\ image'[m] = image[m]
    \/ /\ host[m] = "terminated" /\ host'[m] = "unattached"
       /\ id'[m] = (id[m] + 1) % Generations /\ image'[m] = Template[m]
    \/ /\ host[m] = "unattached" /\ host'[m] = "running"
       /\ id'[m] = id[m] /\ image'[m] = image[m]

LEMMA EnvironmentLifeSteps ==
    ASSUME TypeOK, Environment
    PROVE  \A m \in Members : LifeStep(m)
  <1>1. PICK n \in Members :
            \/ Terminated(n) \/ Launch(n) \/ Attach(n)
            \/ Boot(n) \/ CatchUp(n) \/ ChooseSource(n)
            \/ Elect(n) \/ PrimaryLost(n) \/ Unfreeze(n) \/ Heartbeat(n)
            \/ Fault(n)
    BY DEF Environment
  <1>2. CASE UNCHANGED <<host, id, image>>
    BY <1>2 DEF LifeStep
  <1>3. CASE Terminated(n) \/ Launch(n) \/ Attach(n)
    BY <1>3 DEF LifeStep, Terminated, Launch, Attach, TypeOK, ClusterTypeOK
  <1> QED
    BY <1>1, <1>2, <1>3 DEF Boot, CatchUp, ChooseSource, Elect, PrimaryLost, Unfreeze,
                            Heartbeat, Fault, Becomes

(* The Lambda itself gives no member another instance; it stops one at     *)
(* most, by Terminate.                                                     *)
LEMMA LambdaLifeSteps ==
    ASSUME NEW e \in Executions, Lambda(e)
    PROVE  /\ UNCHANGED <<id, image, view, faults>>
           /\ Terminate(e) \/ host' = host
  BY DEF Lambda, Start, ReadTemplates, Describe, ReadNode, Decide, ChainOff, Finish,
         Chain, StepDown, Terminate, PollPasses, PollAgain, Resume, Raise, Retry, Forget,
         clusterVars

(* No execution touches what another one keeps.                            *)
LEMMA OthersKeep ==
    ASSUME TypeOK, NEW e \in Executions, Lambda(e), NEW f \in Executions \ {e}
    PROVE  /\ pc'[f] = pc[f] /\ counter'[f] = counter[f] /\ target'[f] = target[f]
           /\ todo'[f] = todo[f] /\ found'[f] = found[f]
           /\ decision'[f] = decision[f]
  <1> USE DEF TypeOK, Goto, Increment
  <1>1. CASE Start(e) \/ ReadTemplates(e) \/ Describe(e) \/ ReadNode(e)
    BY <1>1 DEF Start, ReadTemplates, Describe, ReadNode
  <1>2. CASE Decide(e) \/ ChainOff(e) \/ Finish(e)
    BY <1>2 DEF Decide, ChainOff, Finish, Chain
  <1>3. CASE StepDown(e) \/ Terminate(e)
    BY <1>3 DEF StepDown, Terminate
  <1>4. CASE PollPasses(e) \/ PollAgain(e)
    BY <1>4 DEF PollPasses, PollAgain
  <1>5. CASE Resume(e) \/ Raise(e) \/ Retry(e)
    BY <1>5 DEF Resume, Raise, Retry, Forget
  <1> QED
    BY <1>1, <1>2, <1>3, <1>4, <1>5 DEF Lambda
-----------------------------------------------------------------------------
(* Only instances from before the rollout are recycled.  An instance that  *)
(* runs another image than its template's is the first of its member, for  *)
(* all later ones are launched from the template; only such an instance    *)
(* stops; and whatever an execution has described, or decided on, refers   *)
(* to such an instance by its id, so that it cannot hit the successor.     *)

Recycling == {RECYCLE_SECONDARY, STEP_DOWN_AND_RECYCLE_PRIMARY}
Begun == {"describe", "read", "chain", "stepdown", "terminate"} \cup Polling

FromBefore(m, i) == i = 0 /\ (id[m] = 0 => Stale(m))

OldIsFirst ==
    \A m \in Members :
        /\ Stale(m) => id[m] = 0
        /\ host[m] \in {"shutting-down", "terminated"} => Stale(m)

Informed(e) ==
    /\ pc[e] \in Begun => \A m \in Members : Template[m] = target[e]
    /\ \A i \in todo[e] \cup found[e] :
          i.image # Template[i.member] => FromBefore(i.member, i.id)
    /\ decision[e].action \in Recycling =>
          FromBefore(decision[e].member, decision[e].id)
    /\ pc[e] = "chain" => decision[e].action # "NONE"
    /\ pc[e] \in {"stepdown", "terminate"} \cup Polling =>
          decision[e].action \in Recycling

StaleInv == OldIsFirst /\ \A e \in Executions : Informed(e)

(* The successor of a stale instance is not the first one, nor stale.      *)
LEMMA LifeKeepsOld ==
    ASSUME TypeOK, IdsDiffer, OldIsFirst, \A m \in Members : LifeStep(m)
    PROVE  /\ OldIsFirst'
           /\ \A m \in Members, i \in Nat : FromBefore(m, i) => FromBefore(m, i)'
           /\ \A m \in Members : /\ id'[m] = 0 => id[m] = 0
                                 /\ host[m] = "terminated" =>
                                       host'[m] = "terminated" \/ id'[m] # 0
  <1>1. (0 + 1) % Generations # 0
    BY ClusterAssumption DEF IdsDiffer
  <1>2. ASSUME NEW m \in Members
        PROVE  /\ Stale(m)' => Stale(m) /\ id'[m] = id[m]
               /\ Stale(m) /\ id'[m] = 0 => Stale(m)'
               /\ id'[m] = 0 => id[m] = 0
               /\ host[m] = "terminated" => host'[m] = "terminated" \/ id'[m] # 0
               /\ host'[m] \in {"shutting-down", "terminated"} => Stale(m)'
    BY <1>1 DEF LifeStep, OldIsFirst, Stale, TypeOK, ClusterTypeOK
  <1>3. OldIsFirst'
    BY <1>2 DEF OldIsFirst
  <1>4. \A m \in Members, i \in Nat : FromBefore(m, i) => FromBefore(m, i)'
    BY <1>2 DEF FromBefore
  <1> QED
    BY <1>2, <1>3, <1>4

(* What an execution knows stays true when it takes no step itself.        *)
LEMMA InformedKept ==
    ASSUME TypeOK, NEW e \in Executions, Informed(e),
           \A m \in Members, i \in Nat : FromBefore(m, i) => FromBefore(m, i)',
           pc'[e] = pc[e], target'[e] = target[e], todo'[e] = todo[e],
           found'[e] = found[e], decision'[e] = decision[e]
    PROVE  Informed(e)'
  <1>1. \A i \in todo[e] \cup found[e] : i.member \in Members /\ i.id \in Nat
    BY DEF TypeOK, Described, Instance
  <1>2. decision[e].action \in Recycling =>
            decision[e].member \in Members /\ decision[e].id \in Nat
    BY DEF TypeOK, Decision, Recycling
  <1> QED
    BY <1>1, <1>2 DEF Informed

(* A decision for an instance is one for a listed instance on another      *)
(* image than the target.                                                  *)
LEMMA DecisionsRecycle ==
    ASSUME TypeOK, NEW e \in Executions, NEW d \in Decisions(e)
    PROVE  \/ d.action = DONE /\ \A i \in found[e] :
                i.state \in {"PRIMARY", "SECONDARY"} => i.image = target[e]
           \/ /\ d.action \in Recycling
              /\ \E i \in found[e] : /\ d.member = i.member /\ d.id = i.id
                                     /\ i.image # target[e]
                                     /\ i.state \in {"PRIMARY", "SECONDARY"}
  BY DEF Decisions, Candidates, Choice, Recycling

(* Every step of an execution rests on what it knows.                      *)
LEMMA LambdaInformed ==
    ASSUME TypeOK, TemplatesCovered, OldIsFirst, NEW e \in Executions, Informed(e),
           Lambda(e)
    PROVE  Informed(e)'
  <1> USE DEF TypeOK, Goto, Begun, Polling, Recycling
  <1>0. \A m, i : FromBefore(m, i)' <=> FromBefore(m, i)
    BY LambdaLifeSteps DEF FromBefore, Stale
  <1>1. CASE Start(e)
    BY <1>0, <1>1 DEF Start, Informed
  <1>2. CASE ReadTemplates(e)
    <2>1. PICK ami \in Images : TemplateImages(e) = {ami} /\ target'[e] = ami
      BY <1>2 DEF ReadTemplates
    <2>2. \A m \in Members : Template[m] = target'[e]
      BY <2>1 DEF TemplatesCovered
    <2> QED
      BY <1>0, <1>2, <2>2 DEF ReadTemplates, Informed
  <1>3. CASE Describe(e)
    <2>1. \A i \in todo'[e] : i.id = id[i.member] /\ i.image = image[i.member]
                              /\ i.member \in Members
      BY <1>3 DEF Describe
    <2>2. \A i \in todo'[e] : i.image # Template[i.member] => FromBefore(i.member, i.id)
      BY <2>1 DEF FromBefore, OldIsFirst, Stale
    <2> QED
      BY <1>0, <1>3, <2>2 DEF Describe, Informed
  <1>4. CASE ReadNode(e)
    <2>1. PICK i \in todo[e] :
              /\ todo'[e] = todo[e] \ {i}
              /\ found'[e] = found[e] \cup
                    {[member |-> i.member, id |-> i.id, image |-> i.image,
                      state |-> NodeState(i.member)]}
      BY <1>4 DEF ReadNode
    <2> QED
      BY <1>0, <1>4, <2>1 DEF ReadNode, Informed
  <1>5. CASE Decide(e)
    <2>1. PICK d \in Decisions(e) : decision'[e] = d
      BY <1>5 DEF Decide
    <2>2. d.action \in Recycling => FromBefore(d.member, d.id)
      BY <1>5, DecisionsRecycle DEF Decide, Informed, Instance
    <2>3. d.action # "NONE"
      BY DecisionsRecycle
    <2> QED
      BY <1>0, <1>5, <2>1, <2>2, <2>3 DEF Decide, Informed
  <1>6. CASE ChainOff(e)
    BY <1>0, <1>6 DEF ChainOff, Chain, Informed, Decision
  <1>7. CASE Finish(e)
    BY <1>0, <1>7 DEF Finish, Chain, Informed
  <1>8. CASE StepDown(e)
    BY <1>0, <1>8 DEF StepDown, Informed
  <1>9. CASE Terminate(e)
    BY <1>0, <1>9 DEF Terminate, Informed
  <1>10. CASE PollPasses(e)
    BY <1>0, <1>10 DEF PollPasses, Informed
  <1>11. CASE PollAgain(e)
    BY <1>0, <1>11 DEF PollAgain, Informed
  <1>12. CASE Resume(e) \/ Retry(e)
    <2>1. /\ pc'[e] = "start" /\ decision'[e] = NoDecision
          /\ todo'[e] = {} /\ found'[e] = {}
      BY <1>12 DEF Resume, Retry, Forget
    <2> QED
      BY <2>1 DEF Informed, NoDecision
  <1>13. CASE Raise(e)
    <2>1. /\ pc'[e] = "failed" /\ decision'[e] = decision[e]
          /\ todo'[e] = {} /\ found'[e] = {}
      BY <1>13 DEF Raise, Forget
    <2> QED
      BY <1>0, <2>1 DEF Informed
  <1> QED
    BY <1>1, <1>2, <1>3, <1>4, <1>5, <1>6, <1>7, <1>8, <1>9, <1>10, <1>11, <1>12, <1>13
       DEF Lambda

(* The Lambda stops an instance only at its decision's word.               *)
LEMMA LambdaKeepsOld ==
    ASSUME TypeOK, StaleInv, NEW e \in Executions, Lambda(e)
    PROVE  OldIsFirst'
  <1>1. UNCHANGED <<id, image>> /\ (Terminate(e) \/ host' = host)
    BY LambdaLifeSteps
  <1>2. CASE host' = host
    BY <1>1, <1>2 DEF StaleInv, OldIsFirst, Stale
  <1>3. CASE Terminate(e)
    <2> DEFINE m == decision[e].member
    <2>1. Informed(e) /\ pc[e] = "terminate"
      BY <1>3 DEF StaleInv, Terminate, Goto
    <2>2. FromBefore(m, decision[e].id)
      BY <2>1 DEF Informed
    <2>3. host' # host => id[m] = decision[e].id /\ host' = [host EXCEPT ![m] = "shutting-down"]
      BY <1>3 DEF Terminate
    <2>4. host' # host => Stale(m)
      BY <2>2, <2>3 DEF FromBefore
    <2> QED
      BY <1>1, <2>3, <2>4 DEF StaleInv, OldIsFirst, Stale, TypeOK, ClusterTypeOK
  <1> QED
    BY <1>1, <1>2, <1>3

(* So the invariant holds in every reachable state.                        *)
LEMMA StaleInvariant ==
    ASSUME TemplatesCovered, IdsDiffer
    PROVE  Spec => []StaleInv
  <1>1. Init => StaleInv
    <2> SUFFICES ASSUME Init PROVE StaleInv
      OBVIOUS
    <2>1. OldIsFirst
      BY DEF Init, ClusterInit, OldIsFirst
    <2>2. ASSUME NEW e \in Executions PROVE Informed(e)
      BY DEF Init, Informed, NoDecision, Recycling, Begun, Polling
    <2> QED
      BY <2>1, <2>2 DEF StaleInv
  <1>2. TypeOK /\ StaleInv /\ [Next]_vars => StaleInv'
    <2> SUFFICES ASSUME TypeOK, StaleInv, [Next]_vars PROVE StaleInv'
      OBVIOUS
    <2>1. ASSUME \A m \in Members : LifeStep(m), UNCHANGED lambdaVars
          PROVE  StaleInv'
      BY <2>1, LifeKeepsOld, InformedKept DEF StaleInv, lambdaVars
    <2>2. CASE Environment /\ UNCHANGED lambdaVars
      BY <2>1, <2>2, EnvironmentLifeSteps
    <2>3. ASSUME NEW e \in Executions, Lambda(e) PROVE StaleInv'
      <3>1. OldIsFirst'
        BY <2>3, LambdaKeepsOld
      <3>2. Informed(e)'
        BY <2>3, LambdaInformed DEF StaleInv
      <3>3. \A m \in Members, i \in Nat : FromBefore(m, i) => FromBefore(m, i)'
        BY <2>3, LambdaLifeSteps DEF FromBefore, Stale
      <3>4. ASSUME NEW f \in Executions \ {e} PROVE Informed(f)'
        BY <2>3, <3>3, OthersKeep, InformedKept DEF StaleInv
      <3> QED
        BY <3>1, <3>2, <3>4 DEF StaleInv
    <2>4. CASE UNCHANGED vars
      BY <2>1, <2>4 DEF vars, clusterVars, LifeStep
    <2> QED
      BY <2>2, <2>3, <2>4 DEF Next
  <1> QED
    BY <1>1, <1>2, TypeCorrect, PTL DEF Spec

(* An instance is terminated by an execution whose decision it is.         *)
LEMMA KilledByDecision ==
    ASSUME TypeOK, Next, NEW m \in Members, Killed(m)
    PROVE  \E e \in Executions : /\ Terminate(e) /\ pc[e] = "terminate"
                                 /\ decision[e].member = m /\ id[m] = decision[e].id
  <1>1. host'[m] # host[m] /\ host'[m] = "shutting-down"
    BY DEF Killed
  <1>2. ~Environment
    BY <1>1, EnvironmentLifeSteps DEF LifeStep
  <1>3. PICK e \in Executions : Terminate(e)
    BY <1>1, <1>2, LambdaLifeSteps DEF Next
  <1> QED
    BY <1>1, <1>3 DEF Terminate, Goto, TypeOK, ClusterTypeOK

(* An instance is terminated only while it runs another image than its     *)
(* template's, for any number of executions, whatever invocations are      *)
(* retried, whatever faults happen, and whether or not the driver reaches  *)
(* the member it was pointed at (decision.py 48-53, aws.py 107-120).       *)
THEOREM OnlyStaleAreTerminated ==
    ASSUME TemplatesCovered, IdsDiffer
    PROVE  Spec => OnlyStaleTerminated
  <1>1. TypeOK /\ StaleInv /\ [Next]_vars =>
            [\A m \in Members : Killed(m) => Stale(m)]_vars
    <2> SUFFICES ASSUME TypeOK, StaleInv, Next, NEW m \in Members, Killed(m)
                 PROVE  Stale(m)
      OBVIOUS
    <2>1. PICK e \in Executions : /\ pc[e] = "terminate" /\ decision[e].member = m
                                  /\ id[m] = decision[e].id
      BY KilledByDecision
    <2> QED
      BY <2>1 DEF StaleInv, Informed, FromBefore
  <1> QED
    BY <1>1, TypeCorrect, StaleInvariant, PTL DEF Spec, OnlyStaleTerminated

(* While the templates of the replica set name different images, no        *)
(* execution terminates anything (pre_step_checks.py 27-28).               *)
THEOREM MismatchStops ==
    ASSUME TemplatesCovered, IdsDiffer
    PROVE  Spec => MismatchStopsRecycling
  <1>1. TypeOK /\ StaleInv /\ [Next]_vars =>
            [(\E m \in Members : Killed(m)) =>
                \A m, n \in Members : Template[m] = Template[n]]_vars
    <2> SUFFICES ASSUME TypeOK, StaleInv, Next, NEW k \in Members, Killed(k),
                        NEW m \in Members, NEW n \in Members
                 PROVE  Template[m] = Template[n]
      OBVIOUS
    <2>1. PICK e \in Executions : pc[e] = "terminate"
      BY KilledByDecision
    <2>2. Template[m] = target[e] /\ Template[n] = target[e]
      BY <2>1 DEF StaleInv, Informed, Begun
    <2> QED
      BY <2>2
  <1> QED
    BY <1>1, TypeCorrect, StaleInvariant, PTL DEF Spec, MismatchStopsRecycling
-----------------------------------------------------------------------------
(* What state the members are in.  An instance that runs a stale image was *)
(* there from the start, so it is neither down nor, unless a member may    *)
(* have to resynchronise by itself, recovering.                            *)

Roles ==
    \A m \in Members : /\ m \in Arbiters => rs[m] \in {"ARBITER", "DOWN"}
                       /\ m \notin Arbiters => rs[m] # "ARBITER"

LaunchedIsNew ==
    \A m \in Members :
        /\ host[m] = "unattached" => ~Stale(m)
        /\ host[m] = "running" /\ rs[m] = "DOWN" => ~Stale(m)
        /\ rs[m] = "RECOVERING" => "resync" \in FaultKinds \/ ~Stale(m)

ReplicaInv == StoppedIsDown /\ Roles /\ LaunchedIsNew

(* What the environment can do to the replication state of m.              *)
RoleStep(m) ==
    \/ rs'[m] = rs[m]
    \/ /\ host'[m] = host[m] /\ image'[m] = image[m]
       /\ \/ /\ rs[m] = "DOWN" /\ host[m] = "running"
             /\ rs'[m] = IF m \in Arbiters THEN "ARBITER" ELSE "RECOVERING"
          \/ rs[m] = "RECOVERING" /\ rs'[m] = "IDLE"
          \/ rs[m] = "IDLE" /\ rs'[m] = "SECONDARY"
          \/ Electable(m) /\ rs'[m] = "PRIMARY"
          \/ rs[m] = "PRIMARY" /\ rs'[m] = "IDLE"
          \/ /\ "resync" \in FaultKinds /\ rs[m] \in {"SECONDARY", "IDLE"}
             /\ rs'[m] = "RECOVERING"

LEMMA EnvironmentRoleSteps ==
    ASSUME TypeOK, Environment
    PROVE  \A m \in Members : RoleStep(m)
  <1> USE DEF TypeOK, ClusterTypeOK, RoleStep
  <1>1. PICK n \in Members :
            \/ Terminated(n) \/ Launch(n) \/ Attach(n)
            \/ Boot(n) \/ CatchUp(n) \/ ChooseSource(n)
            \/ Elect(n) \/ PrimaryLost(n) \/ Unfreeze(n) \/ Heartbeat(n)
            \/ Fault(n)
    BY DEF Environment
  <1>2. CASE Terminated(n) \/ Launch(n) \/ Attach(n) \/ Unfreeze(n) \/ Heartbeat(n)
    BY <1>2 DEF Terminated, Launch, Attach, Unfreeze, Heartbeat
  <1>3. CASE Boot(n) \/ CatchUp(n) \/ ChooseSource(n) \/ PrimaryLost(n)
    BY <1>3 DEF Boot, CatchUp, ChooseSource, PrimaryLost, Becomes
  <1>4. CASE Elect(n)
    BY <1>4 DEF Elect
  <1>5. CASE Fault(n)
    BY <1>5 DEF Fault
  <1> QED
    BY <1>1, <1>2, <1>3, <1>4, <1>5

(* What the Lambda can do to it: stop the mongod with its instance, or ask *)
(* the primary to step down.                                               *)
LEMMA LambdaRoleSteps ==
    ASSUME TypeOK, NEW e \in Executions, Lambda(e), NEW m \in Members
    PROVE  \/ host'[m] = host[m] /\ rs'[m] = rs[m]
           \/ host'[m] = host[m] /\ rs[m] = "PRIMARY" /\ rs'[m] = "IDLE"
           \/ host'[m] = "shutting-down" /\ rs'[m] = "DOWN"
  <1> USE DEF TypeOK, ClusterTypeOK
  <1>1. CASE StepDown(e)
    BY <1>1 DEF StepDown
  <1>2. CASE Terminate(e)
    BY <1>2 DEF Terminate
  <1>3. CASE UNCHANGED <<host, rs>>
    BY <1>3
  <1> QED
    BY <1>1, <1>2, <1>3 DEF Lambda, Start, ReadTemplates, Describe, ReadNode, Decide,
         ChainOff, Finish, Chain, PollPasses, PollAgain, Resume, Raise, Retry, Forget,
         clusterVars

LEMMA ReplicaInvariant == Spec => []ReplicaInv
  <1> USE DEF ReplicaInv, StoppedIsDown, Roles, LaunchedIsNew, Stale
  <1>1. Init => ReplicaInv
    BY ClusterAssumption DEF Init, ClusterInit
  <1>2. TypeOK /\ ReplicaInv /\ [Next]_vars => ReplicaInv'
    <2> SUFFICES ASSUME TypeOK, ReplicaInv, [Next]_vars PROVE ReplicaInv'
      OBVIOUS
    <2>1. CASE Environment
      <3>1. \A m \in Members : LifeStep(m) /\ RoleStep(m)
        BY <2>1, EnvironmentLifeSteps, EnvironmentRoleSteps
      <3> QED
        BY <3>1 DEF LifeStep, RoleStep, Electable, TypeOK, ClusterTypeOK, HostStates
    <2>2. ASSUME NEW e \in Executions, Lambda(e) PROVE ReplicaInv'
      BY <2>2, LambdaRoleSteps, LambdaLifeSteps
    <2>3. CASE UNCHANGED vars
      BY <2>3 DEF vars, clusterVars
    <2> QED
      BY <2>1, <2>2, <2>3 DEF Next
  <1> QED
    BY <1>1, <1>2, TypeCorrect, PTL DEF Spec

(* A stale instance that runs after a step was running before it.          *)
LEMMA NoneReturns ==
    ASSUME TypeOK, ReplicaInv, [Next]_vars, NEW m \in Members,
           host'[m] = "running", Stale(m)'
    PROVE  host[m] = "running" /\ Stale(m) /\ image'[m] = image[m]
  <1> USE DEF Stale
  <1>1. CASE Environment
    <2>1. LifeStep(m)
      BY <1>1, EnvironmentLifeSteps
    <2> QED
      BY <2>1 DEF LifeStep, ReplicaInv, LaunchedIsNew
  <1>2. ASSUME NEW e \in Executions, Lambda(e)
        PROVE  host[m] = "running" /\ Stale(m) /\ image'[m] = image[m]
    BY <1>2, LambdaLifeSteps, LambdaRoleSteps
  <1>3. CASE UNCHANGED vars
    BY <1>3 DEF vars, clusterVars
  <1> QED
    BY <1>1, <1>2, <1>3 DEF Next
-----------------------------------------------------------------------------
(* What a decision to do nothing rests on: every stale instance that still *)
(* runs is among those the execution asks, or has asked and found to be a  *)
(* primary or a secondary.  Through the driver that finds the primary all  *)
(* members answer as one; at its own address an arbiter never does, and    *)
(* neither does a member that resynchronises.                              *)

Readable == ~DirectConnection \/ "resync" \notin FaultKinds
Answering(m) == ~DirectConnection \/ m \notin Arbiters

NothingStale == \A m \in Members : Answering(m) /\ host[m] = "running" => ~Stale(m)

Awaited(e, m) ==
    \/ \E i \in todo[e] : i.member = m /\ i.image = image[m]
    \/ \E i \in found[e] : /\ i.member = m /\ i.image = image[m]
                           /\ i.state \in {"PRIMARY", "SECONDARY"}

Complete(e) ==
    /\ pc[e] = "read" => \A m \in Members :
          Answering(m) /\ host[m] = "running" /\ Stale(m) => Awaited(e, m)
    /\ (pc[e] = "chain" /\ decision[e].action = DONE) \/ pc[e] = "done" => NothingStale

CompleteInv == \A e \in Executions : Complete(e)

(* Whoever takes a step, an execution that takes none stays right.         *)
LEMMA CompleteKept ==
    ASSUME TypeOK, ReplicaInv, [Next]_vars, NEW e \in Executions, Complete(e),
           pc'[e] = pc[e], todo'[e] = todo[e], found'[e] = found[e],
           decision'[e] = decision[e]
    PROVE  Complete(e)'
  <1>1. \A m \in Members : host'[m] = "running" /\ Stale(m)' =>
            host[m] = "running" /\ Stale(m) /\ image'[m] = image[m]
    BY NoneReturns
  <1>2. NothingStale => NothingStale'
    BY <1>1 DEF NothingStale, Answering
  <1>3. \A m \in Members : image'[m] = image[m] /\ Awaited(e, m) => Awaited(e, m)'
    BY DEF Awaited
  <1> QED
    BY <1>1, <1>2, <1>3 DEF Complete, Answering

(* A member on a stale image answers as a primary or a secondary.          *)
LEMMA StaleAnswers ==
    ASSUME TypeOK, ReplicaInv, Readable, NEW m \in Members, Answering(m),
           host[m] = "running", Stale(m)
    PROVE  NodeState(m) \in {"PRIMARY", "SECONDARY"}
  BY DEF NodeState, Readable, Answering, ReplicaInv, Roles, LaunchedIsNew, TypeOK,
         ClusterTypeOK, MemberStates

(* The steps of one invocation.                                            *)
LEMMA LambdaCompletes ==
    ASSUME TypeOK, StaleInv, ReplicaInv, Readable, NEW e \in Executions,
           Complete(e), Lambda(e)
    PROVE  Complete(e)'
  <1> USE DEF TypeOK, Goto
  <1>0. UNCHANGED <<id, image>> /\ \A m \in Members : Stale(m)' <=> Stale(m)
    BY LambdaLifeSteps DEF Stale
  <1>1. CASE pc'[e] \notin {"read", "chain", "done"}
    BY <1>1 DEF Complete
  <1>2. CASE Describe(e)
    <2>1. /\ pc'[e] = "read" /\ host' = host
          /\ todo'[e] = {[member |-> m, id |-> id[m], image |-> image[m]] :
                            m \in {n \in Members : host[n] = "running"}}
      BY <1>2 DEF Describe, clusterVars
    <2>2. ASSUME NEW m \in Members, host[m] = "running" PROVE Awaited(e, m)'
      <3> DEFINE i == [member |-> m, id |-> id[m], image |-> image[m]]
      <3>1. i \in todo'[e] /\ i.member = m /\ i.image = image'[m]
        BY <1>0, <2>1, <2>2
      <3> QED
        BY <3>1 DEF Awaited
    <2> QED
      BY <2>1, <2>2 DEF Complete
  <1>3. CASE ReadNode(e)
    <2>1. PICK i \in todo[e] :
              /\ todo'[e] = todo[e] \ {i}
              /\ found'[e] = found[e] \cup
                    {[member |-> i.member, id |-> i.id, image |-> i.image,
                      state |-> NodeState(i.member)]}
      BY <1>3 DEF ReadNode
    <2>2. pc[e] = "read" /\ pc' = pc /\ host' = host
      BY <1>3 DEF ReadNode, clusterVars
    <2>3. ASSUME NEW m \in Members, Answering(m), host[m] = "running", Stale(m)
          PROVE  Awaited(e, m)'
      <3>1. Awaited(e, m)
        BY <2>2, <2>3 DEF Complete
      <3>2. CASE i.member = m /\ i.image = image[m]
        <4> DEFINE j == [member |-> i.member, id |-> i.id, image |-> i.image,
                         state |-> NodeState(i.member)]
        <4>1. j.state \in {"PRIMARY", "SECONDARY"}
          BY <2>3, <3>2, StaleAnswers
        <4>2. j \in found'[e] /\ j.member = m /\ j.image = image'[m]
          BY <1>0, <2>1, <3>2
        <4> QED
          BY <4>1, <4>2 DEF Awaited
      <3>3. CASE ~(i.member = m /\ i.image = image[m])
        BY <1>0, <2>1, <3>1, <3>3 DEF Awaited
      <3> QED
        BY <3>2, <3>3
    <2> QED
      BY <1>0, <2>2, <2>3 DEF Complete, Answering
  <1>4. CASE Decide(e)
    <2>1. /\ pc[e] = "read" /\ pc'[e] = "chain" /\ todo[e] = {} /\ host' = host
          /\ decision'[e] \in Decisions(e)
      BY <1>4 DEF Decide, clusterVars
    <2>2. ASSUME decision'[e].action = DONE, NEW m \in Members, Answering(m),
                 host[m] = "running", Stale(m)
          PROVE  FALSE
      <3>1. Awaited(e, m)
        BY <2>1, <2>2 DEF Complete
      <3>2. PICK i \in found[e] : /\ i.member = m /\ i.image = image[m]
                                  /\ i.state \in {"PRIMARY", "SECONDARY"}
        BY <2>1, <3>1 DEF Awaited
      <3>3. i.image = target[e]
        BY <2>1, <2>2, <3>2, DecisionsRecycle DEF Recycling
      <3>4. target[e] = Template[m]
        BY <2>1 DEF StaleInv, Informed, Begun
      <3> QED
        BY <2>2, <3>2, <3>3, <3>4 DEF Stale
    <2> QED
      BY <1>0, <2>1, <2>2 DEF Complete, NothingStale, Answering
  <1>5. CASE Finish(e)
    <2>1. /\ pc[e] = "chain" /\ decision[e].action = DONE
          /\ pc'[e] = "done" /\ host' = host
      BY <1>5 DEF Finish, Chain
    <2> QED
      BY <1>0, <2>1 DEF Complete, NothingStale, Answering
  <1>6. CASE Start(e) \/ ReadTemplates(e) \/ ChainOff(e) \/ StepDown(e) \/ Terminate(e)
             \/ PollPasses(e) \/ PollAgain(e) \/ Resume(e) \/ Raise(e) \/ Retry(e)
    <2>1. pc'[e] \notin {"read", "chain", "done"}
      BY <1>6 DEF Start, ReadTemplates, ChainOff, StepDown, Terminate, PollPasses,
                  PollAgain, Polling, Resume, Raise, Retry
    <2> QED
      BY <1>1, <2>1
  <1> QED
    BY <1>2, <1>3, <1>4, <1>5, <1>6 DEF Lambda

LEMMA CompleteInvariant ==
    ASSUME TemplatesCovered, IdsDiffer, Readable
    PROVE  Spec => []CompleteInv
  <1>1. Init => CompleteInv
    BY DEF Init, CompleteInv, Complete
  <1>2. TypeOK /\ StaleInv /\ ReplicaInv /\ CompleteInv /\ [Next]_vars => CompleteInv'
    <2> SUFFICES ASSUME TypeOK, StaleInv, ReplicaInv, CompleteInv, [Next]_vars,
                        NEW e \in Executions
                 PROVE  Complete(e)'
      BY DEF CompleteInv
    <2>1. Complete(e)
      BY DEF CompleteInv
    <2>2. CASE (Environment /\ UNCHANGED lambdaVars) \/ UNCHANGED vars
      BY <2>1, <2>2, CompleteKept DEF vars, lambdaVars
    <2>3. ASSUME NEW f \in Executions, Lambda(f) PROVE Complete(e)'
      <3>1. CASE f = e
        BY <2>1, <2>3, <3>1, LambdaCompletes
      <3>2. CASE f # e
        BY <2>1, <2>3, <3>2, OthersKeep, CompleteKept
      <3> QED
        BY <3>1, <3>2
    <2> QED
      BY <2>2, <2>3 DEF Next
  <1> QED
    BY <1>1, <1>2, TypeCorrect, StaleInvariant, ReplicaInvariant, PTL DEF Spec

(* An execution that ends well leaves no instance on an outdated image     *)
(* running, an arbiter's included when the driver answers for it; retries, *)
(* elections, resynchronising members and other executions change nothing  *)
(* about that (decision.py 45-66).                                         *)
THEOREM DoneLeavesNone ==
    ASSUME TemplatesCovered, IdsDiffer,
           ~DirectConnection \/ ("resync" \notin FaultKinds /\ Arbiters = {})
    PROVE  Spec => []DoneLeavesNoneStale
  <1>1. CompleteInv => DoneLeavesNoneStale
    BY DEF CompleteInv, Complete, NothingStale, Answering, DoneLeavesNoneStale
  <1>2. Readable
    BY DEF Readable
  <1> QED
    BY <1>1, <1>2, CompleteInvariant, PTL
-----------------------------------------------------------------------------
(* What an instance goes with: the record of the recycling, and chaining   *)
(* forbidden; unless another execution has allowed it again, which that    *)
(* one does only when nothing is left to terminate.                        *)

Alone == \A e, f \in Executions : e = f

Prepared(e) ==
    /\ \A i \in found[e] : i.state \in {"PRIMARY", "SECONDARY"} => Answering(i.member)
    /\ decision[e].action \in Recycling => Answering(decision[e].member)
    /\ counter[e] # 0 \/ pc[e] \in Running \ {"start"} => recorded
    /\ pc[e] \in {"stepdown", "await", "terminate"} => ~chaining \/ NothingStale

PreparedInv == \A e \in Executions : Prepared(e)

(* Chaining is allowed by an execution that leaves nothing to terminate.   *)
LEMMA ChainingSteps ==
    ASSUME TypeOK, Readable => CompleteInv, [Next]_vars
    PROVE  /\ recorded => recorded'
           /\ chaining' => \/ chaining
                           \/ \E e \in Executions : /\ Finish(e)
                                                    /\ Readable => NothingStale
  <1>1. ASSUME NEW e \in Executions, Lambda(e)
        PROVE  /\ recorded => recorded'
               /\ chaining' => chaining \/ Finish(e)
    <2>1. CASE Start(e)
      BY <2>1 DEF Start, clusterVars
    <2>2. CASE ChainOff(e)
      BY <2>2 DEF ChainOff, Chain
    <2>3. CASE Finish(e)
      BY <2>3 DEF Finish, Chain
    <2>4. CASE StepDown(e) \/ Terminate(e)
      BY <2>4 DEF StepDown, Terminate
    <2>5. CASE \/ ReadTemplates(e) \/ Describe(e) \/ ReadNode(e) \/ Decide(e)
               \/ PollPasses(e) \/ PollAgain(e) \/ Resume(e) \/ Raise(e) \/ Retry(e)
      BY <2>5 DEF ReadTemplates, Describe, ReadNode, Decide, PollPasses, PollAgain,
                  Resume, Raise, Retry, Forget, clusterVars
    <2> QED
      BY <1>1, <2>1, <2>2, <2>3, <2>4, <2>5 DEF Lambda
  <1>2. Environment => UNCHANGED chaining
    BY DEF Environment, Terminated, Launch, Attach, Boot, CatchUp, ChooseSource, Elect,
           PrimaryLost, Unfreeze, Heartbeat, Fault, Becomes
  <1>3. ASSUME NEW e \in Executions, Finish(e), Readable PROVE NothingStale
    BY <1>3 DEF Finish, Goto, CompleteInv, Complete
  <1> QED
    BY <1>1, <1>2, <1>3 DEF Next, vars, clusterVars, lambdaVars

LEMMA PreparedKept ==
    ASSUME TypeOK, ReplicaInv, Readable => CompleteInv, Readable \/ Alone, [Next]_vars,
           NEW e \in Executions, Prepared(e), ~Lambda(e),
           pc'[e] = pc[e], counter'[e] = counter[e], found'[e] = found[e],
           decision'[e] = decision[e]
    PROVE  Prepared(e)'
  <1>1. NothingStale => NothingStale'
    BY NoneReturns DEF NothingStale, Answering
  <1>2. chaining' => chaining \/ NothingStale
    BY ChainingSteps DEF Alone, Lambda
  <1>3. recorded => recorded'
    BY ChainingSteps
  <1> QED
    BY <1>1, <1>2, <1>3 DEF Prepared, Answering

LEMMA LambdaPrepares ==
    ASSUME TypeOK, ReplicaInv, NEW e \in Executions, Prepared(e), Lambda(e)
    PROVE  Prepared(e)'
  <1> USE DEF TypeOK, Goto, Running, Polling
  <1>0. UNCHANGED image /\ (Terminate(e) \/ host' = host)
    BY LambdaLifeSteps
  <1>1. CASE Start(e)
    BY <1>1 DEF Start, Prepared, Answering, clusterVars
  <1>2. CASE ReadTemplates(e) \/ Describe(e) \/ PollAgain(e)
    BY <1>2 DEF ReadTemplates, Describe, PollAgain, Prepared, Answering, clusterVars,
                NothingStale, Stale
  <1>3. CASE ReadNode(e)
    <2>1. PICK i \in todo[e] : found'[e] = found[e] \cup
              {[member |-> i.member, id |-> i.id, image |-> i.image,
                state |-> NodeState(i.member)]}
      BY <1>3 DEF ReadNode
    <2>2. NodeState(i.member) \in {"PRIMARY", "SECONDARY"} => Answering(i.member)
      BY DEF NodeState, Answering, ReplicaInv, Roles, Described
    <2> QED
      BY <1>3, <2>1, <2>2 DEF ReadNode, Prepared, Answering, clusterVars
  <1>4. CASE Decide(e)
    <2>1. decision'[e] \in Decisions(e)
      BY <1>4 DEF Decide
    <2>2. decision'[e].action \in Recycling => Answering(decision'[e].member)
      BY <2>1, DecisionsRecycle DEF Prepared, Recycling
    <2> QED
      BY <1>4, <2>2 DEF Decide, Prepared, Answering, clusterVars
  <1>5. CASE ChainOff(e)
    BY <1>5 DEF ChainOff, Chain, Prepared, Answering
  <1>6. CASE Finish(e)
    BY <1>6 DEF Finish, Chain, Prepared, Answering
  <1>7. CASE StepDown(e)
    BY <1>7 DEF StepDown, Prepared, Answering, NothingStale, Stale
  <1>8. CASE Terminate(e)
    BY <1>8 DEF Terminate, Prepared, Answering
  <1>9. CASE PollPasses(e)
    BY <1>9 DEF PollPasses, Prepared, Answering, NothingStale, Stale, clusterVars
  <1>10. CASE Resume(e) \/ Retry(e)
    <2>1. /\ pc'[e] = "start" /\ decision'[e] = NoDecision /\ found'[e] = {}
          /\ counter' = counter /\ recorded' = recorded
      BY <1>10 DEF Resume, Retry, Forget
    <2> QED
      BY <2>1 DEF Prepared, NoDecision, Recycling
  <1>11. CASE Raise(e)
    <2>1. /\ pc'[e] = "failed" /\ decision' = decision /\ found'[e] = {}
          /\ counter' = counter /\ recorded' = recorded
      BY <1>11 DEF Raise, Forget
    <2> QED
      BY <2>1 DEF Prepared, Answering
  <1> QED
    BY <1>1, <1>2, <1>3, <1>4, <1>5, <1>6, <1>7, <1>8, <1>9, <1>10, <1>11 DEF Lambda

LEMMA PreparedInvariant ==
    ASSUME TemplatesCovered, IdsDiffer, Readable \/ Alone
    PROVE  Spec => []PreparedInv
  <1>1. Init => PreparedInv
    BY DEF Init, PreparedInv, Prepared, NoDecision, Recycling
  <1>2. TypeOK /\ ReplicaInv /\ (Readable => CompleteInv) /\ PreparedInv /\ [Next]_vars
            => PreparedInv'
    <2> SUFFICES ASSUME TypeOK, ReplicaInv, Readable => CompleteInv, PreparedInv,
                        [Next]_vars, NEW e \in Executions
                 PROVE  Prepared(e)'
      BY DEF PreparedInv
    <2>1. Prepared(e)
      BY DEF PreparedInv
    <2>2. CASE Lambda(e)
      BY <2>1, <2>2, LambdaPrepares
    <2>3. CASE ~Lambda(e)
      <3>1. /\ pc'[e] = pc[e] /\ counter'[e] = counter[e] /\ found'[e] = found[e]
            /\ decision'[e] = decision[e]
        BY <2>3, OthersKeep DEF Next, vars, lambdaVars
      <3> QED
        BY <2>1, <2>3, <3>1, PreparedKept
    <2> QED
      BY <2>2, <2>3
  <1>3. Spec => [](Readable => CompleteInv)
    <2>1. CASE Readable
      BY <2>1, CompleteInvariant, PTL
    <2>2. CASE ~Readable
      <3>1. Readable => CompleteInv
        BY <2>2
      <3> QED
        BY <3>1, PTL
    <2> QED
      BY <2>1, <2>2
  <1> QED
    BY <1>1, <1>2, <1>3, TypeCorrect, ReplicaInvariant, PTL DEF Spec

(* When an instance goes, chaining is off and the recycling was announced  *)
(* in the table: for a single execution whatever invocations are retried   *)
(* and whatever faults happen, for several unless a member they ask at its *)
(* own address may have to resynchronise (execute.py 17-19, step.py        *)
(* 72-73).                                                                 *)
THEOREM TerminationsArePrepared ==
    ASSUME TemplatesCovered, IdsDiffer, Readable \/ Alone
    PROVE  Spec => TerminationIsPrepared
  <1>1. TypeOK /\ StaleInv /\ ReplicaInv /\ PreparedInv /\ [Next]_vars =>
            [(\E m \in Members : Killed(m)) => ~chaining /\ recorded]_vars
    <2> SUFFICES ASSUME TypeOK, StaleInv, ReplicaInv, PreparedInv, Next,
                        NEW m \in Members, Killed(m)
                 PROVE  ~chaining /\ recorded
      OBVIOUS
    <2>1. PICK e \in Executions : /\ pc[e] = "terminate" /\ decision[e].member = m
                                  /\ id[m] = decision[e].id
      BY KilledByDecision
    <2>2. Prepared(e) /\ decision[e].action \in Recycling
      BY <2>1 DEF PreparedInv, StaleInv, Informed
    <2>3. Stale(m) /\ host[m] = "running"
      BY <2>1 DEF StaleInv, Informed, FromBefore, ReplicaInv, LaunchedIsNew, Killed
    <2> QED
      BY <2>1, <2>2, <2>3 DEF Prepared, NothingStale, Running
  <1> QED
    BY <1>1, TypeCorrect, StaleInvariant, ReplicaInvariant, PreparedInvariant, PTL
       DEF Spec, TerminationIsPrepared
-----------------------------------------------------------------------------
(* What several executions leave behind together.  A member whose instance *)
(* has stopped is attended to by the execution that stopped it, until that *)
(* one has seen the replica set healthy again; it cannot, as long as the   *)
(* primary knows the member to be down.                                    *)

RestoredConditions ==
    /\ TemplatesCovered /\ IdsDiffer
    /\ MaxRetries = 0
    /\ "resync" \notin FaultKinds
    /\ Executions # {}

Stopped(m) == host[m] \in {"shutting-down", "terminated"}

StoppedIsSeen ==
    \A m \in Members : HasPrimary /\ host[m] = "terminated" => view[m] = "DOWN"

Attends(e, m) ==
    /\ pc[e] \in {"draining", "rejoin", "failed"}
    /\ decision[e].member = m /\ decision[e].id = id[m]

Attended == \A m \in Members : Stopped(m) => \E e \in Executions : Attends(e, m)

GoneBeforeRejoin ==
    \A e \in Executions : pc[e] = "rejoin" => VictimTerminated(e)

SomeoneWillAllow == ~chaining => \E e \in Executions : pc[e] # "done"

RestoredInv == StoppedIsSeen /\ Attended /\ GoneBeforeRejoin /\ SomeoneWillAllow

(* The victim of an execution that recycles is a member, and its first     *)
(* instance.                                                               *)
LEMMA VictimIsFirst ==
    ASSUME TypeOK, StaleInv, NEW e \in Executions, pc[e] \in {"draining", "rejoin"}
    PROVE  decision[e].member \in Members /\ decision[e].id = 0
  BY DEF StaleInv, Informed, FromBefore, Polling, Recycling, TypeOK, Decision

LEMMA EnvironmentRestores ==
    ASSUME TypeOK, StaleInv, ReplicaInv, RestoredConditions, RestoredInv,
           Environment, UNCHANGED lambdaVars
    PROVE  RestoredInv'
  <1>1. \A m \in Members : LifeStep(m)
    BY EnvironmentLifeSteps
  <1>2. StoppedIsSeen'
    <2>1. PICK n \in Members :
              \/ Terminated(n) \/ Launch(n) \/ Attach(n)
              \/ Boot(n) \/ CatchUp(n) \/ ChooseSource(n)
              \/ Elect(n) \/ PrimaryLost(n) \/ Unfreeze(n) \/ Heartbeat(n)
              \/ Fault(n)
      BY DEF Environment
    <2> USE DEF RestoredInv, StoppedIsSeen, HasPrimary, TypeOK, ClusterTypeOK
    <2>2. CASE Terminated(n) \/ Launch(n) \/ Attach(n) \/ Unfreeze(n)
      BY <2>1, <2>2 DEF Terminated, Launch, Attach, Unfreeze
    <2>3. CASE Boot(n) \/ CatchUp(n) \/ ChooseSource(n) \/ PrimaryLost(n)
      BY <2>1, <2>3 DEF Boot, CatchUp, ChooseSource, PrimaryLost, Becomes
    <2>4. CASE Elect(n)
      BY <2>1, <2>4 DEF Elect, Electable, ReplicaInv, StoppedIsDown
    <2>5. CASE Heartbeat(n)
      BY <2>1, <2>5 DEF Heartbeat, ReplicaInv, StoppedIsDown
    <2>6. CASE Fault(n)
      BY <2>1, <2>6 DEF Fault
    <2> QED
      BY <2>1, <2>2, <2>3, <2>4, <2>5, <2>6
  <1>3. Attended'
    <2> SUFFICES ASSUME NEW m \in Members, Stopped(m)'
                 PROVE  \E e \in Executions : Attends(e, m)'
      BY DEF Attended
    <2>1. Stopped(m) /\ id'[m] = id[m]
      BY <1>1 DEF Stopped, LifeStep
    <2> QED
      BY <2>1 DEF RestoredInv, Attended, Attends, lambdaVars
  <1>4. GoneBeforeRejoin'
    <2> SUFFICES ASSUME NEW e \in Executions, pc[e] = "rejoin"
                 PROVE  VictimTerminated(e)'
      BY DEF GoneBeforeRejoin, lambdaVars
    <2>1. VictimTerminated(e)
      BY DEF RestoredInv, GoneBeforeRejoin
    <2>2. decision[e].member \in Members /\ decision[e].id = 0
      BY VictimIsFirst
    <2>3. \A m \in Members : /\ id'[m] = 0 => id[m] = 0
                             /\ host[m] = "terminated" =>
                                   host'[m] = "terminated" \/ id'[m] # 0
      BY <1>1, LifeKeepsOld DEF StaleInv, RestoredConditions
    <2> QED
      BY <2>1, <2>2, <2>3 DEF VictimTerminated, lambdaVars
  <1>5. SomeoneWillAllow'
    BY DEF RestoredInv, SomeoneWillAllow, lambdaVars, Environment, Terminated, Launch,
           Attach, Boot, CatchUp, ChooseSource, Elect, PrimaryLost, Unfreeze, Heartbeat,
           Fault, Becomes
  <1> QED
    BY <1>2, <1>3, <1>4, <1>5 DEF RestoredInv

(* Where an execution goes from a step in which it attends to a member.    *)
LEMMA AttendingSteps ==
    ASSUME TypeOK, RestoredConditions, NEW e \in Executions, Lambda(e)
    PROVE  /\ pc[e] = "draining" => pc'[e] \in {"draining", "rejoin", "failed"}
           /\ pc[e] = "rejoin" => \/ pc'[e] \in {"rejoin", "failed"}
                                  \/ pc'[e] = "wait" /\ ClusterHealthy
           /\ pc[e] # "failed"
           /\ pc'[e] = "rejoin" => \/ pc[e] = "rejoin"
                                   \/ pc[e] = "draining" /\ VictimTerminated(e)
           /\ pc'[e] = "done" => chaining'
           /\ pc[e] \in {"draining", "rejoin"} => UNCHANGED <<host, id, decision>>
  <1> USE RecyclerAssumption DEF TypeOK, Goto, RestoredConditions
  <1>1. CASE Start(e) \/ ReadTemplates(e) \/ Describe(e) \/ ReadNode(e) \/ Decide(e)
    BY <1>1 DEF Start, ReadTemplates, Describe, ReadNode, Decide
  <1>2. CASE ChainOff(e) \/ StepDown(e) \/ Terminate(e)
    BY <1>2 DEF ChainOff, StepDown, Terminate
  <1>3. CASE Finish(e)
    BY <1>3 DEF Finish, Chain
  <1>4. CASE PollPasses(e)
    BY <1>4 DEF PollPasses, PollSucceeds, clusterVars
  <1>5. CASE PollAgain(e) \/ Resume(e)
    BY <1>5 DEF PollAgain, Resume, Polling, clusterVars
  <1>6. CASE Raise(e)
    BY <1>6 DEF Raise, Forget, Running, Polling, clusterVars
  <1>7. CASE Retry(e)
    BY <1>7 DEF Retry
  <1> QED
    BY <1>1, <1>2, <1>3, <1>4, <1>5, <1>6, <1>7 DEF Lambda

LEMMA LambdaRestores ==
    ASSUME TypeOK, StaleInv, ReplicaInv, RestoredConditions, RestoredInv,
           NEW e \in Executions, Lambda(e)
    PROVE  RestoredInv'
  <1>1. /\ UNCHANGED <<id, view>>
        /\ \A m \in Members : \/ host'[m] = host[m]
                              \/ host'[m] = "shutting-down" /\ host[m] # "terminated"
    <2>1. CASE Terminate(e)
      BY <2>1, LambdaLifeSteps DEF Terminate, TypeOK, ClusterTypeOK
    <2> QED
      BY <2>1, LambdaLifeSteps
  <1>2. StoppedIsSeen'
    BY <1>1, LambdaRoleSteps DEF RestoredInv, StoppedIsSeen, HasPrimary
  <1>3. Attended'
    <2> SUFFICES ASSUME NEW m \in Members, Stopped(m)'
                 PROVE  \E f \in Executions : Attends(f, m)'
      BY DEF Attended
    <2>1. CASE ~Stopped(m)
      <3>1. host'[m] # host[m] /\ host[m] \in {"running", "unattached"}
        BY <2>1 DEF Stopped, TypeOK, ClusterTypeOK, HostStates
      <3>2. /\ Terminate(e) /\ host' # host
        BY <3>1, LambdaLifeSteps
      <3>3. /\ decision[e].member = m /\ decision[e].id = id[m] /\ pc'[e] = "draining"
            /\ decision' = decision
        BY <3>1, <3>2 DEF Terminate, Goto, TypeOK, ClusterTypeOK
      <3> QED
        BY <1>1, <3>3 DEF Attends
    <2>2. CASE Stopped(m)
      <3>1. PICK f \in Executions : Attends(f, m)
        BY <2>2 DEF RestoredInv, Attended
      <3>2. CASE f # e
        BY <1>1, <3>1, <3>2, OthersKeep DEF Attends
      <3>3. CASE f = e
        <4>1. pc[e] = "rejoin" => ~ClusterHealthy
          <5> SUFFICES ASSUME pc[e] = "rejoin", ClusterHealthy PROVE FALSE
            OBVIOUS
          <5>1. host[m] = "terminated"
            BY <3>1, <3>3 DEF Attends, RestoredInv, GoneBeforeRejoin, VictimTerminated
          <5> QED
            BY <5>1 DEF ClusterHealthy, RestoredInv, StoppedIsSeen
        <4>2. pc'[e] \in {"draining", "rejoin", "failed"} /\ decision' = decision
          BY <3>1, <3>3, <4>1, AttendingSteps DEF Attends
        <4> QED
          BY <1>1, <3>1, <3>3, <4>2 DEF Attends
      <3> QED
        BY <3>2, <3>3
    <2> QED
      BY <2>1, <2>2
  <1>4. GoneBeforeRejoin'
    <2> SUFFICES ASSUME NEW f \in Executions, pc'[f] = "rejoin"
                 PROVE  VictimTerminated(f)'
      BY DEF GoneBeforeRejoin
    <2>1. CASE f = e
      BY <2>1, AttendingSteps DEF RestoredInv, GoneBeforeRejoin, VictimTerminated
    <2>2. CASE f # e
      <3>1. pc[f] = "rejoin" /\ decision'[f] = decision[f] /\ VictimTerminated(f)
        BY <2>2, OthersKeep DEF RestoredInv, GoneBeforeRejoin
      <3>2. decision[f].member \in Members
        BY <3>1, VictimIsFirst
      <3> QED
        BY <1>1, <3>1, <3>2 DEF VictimTerminated
    <2> QED
      BY <2>1, <2>2
  <1>5. SomeoneWillAllow'
    <2>1. CASE pc'[e] = "done"
      BY <2>1, AttendingSteps DEF SomeoneWillAllow
    <2>2. CASE pc'[e] # "done"
      BY <2>2 DEF SomeoneWillAllow
    <2> QED
      BY <2>1, <2>2
  <1> QED
    BY <1>2, <1>3, <1>4, <1>5 DEF RestoredInv

LEMMA RestoredInvariant ==
    ASSUME RestoredConditions
    PROVE  Spec => []RestoredInv
  <1>1. Init => RestoredInv
    BY DEF Init, ClusterInit, RestoredConditions, RestoredInv, StoppedIsSeen, Attended,
           Stopped, GoneBeforeRejoin, SomeoneWillAllow
  <1>2. TypeOK /\ StaleInv /\ ReplicaInv /\ RestoredInv /\ [Next]_vars => RestoredInv'
    <2> SUFFICES ASSUME TypeOK, StaleInv, ReplicaInv, RestoredInv, [Next]_vars
                 PROVE  RestoredInv'
      OBVIOUS
    <2>1. CASE UNCHANGED vars
      BY <2>1 DEF vars, clusterVars, lambdaVars, RestoredInv, StoppedIsSeen, HasPrimary,
                  Attended, Attends, Stopped, GoneBeforeRejoin, VictimTerminated,
                  SomeoneWillAllow
    <2> QED
      BY <2>1, EnvironmentRestores, LambdaRestores DEF Next
  <1>3. TemplatesCovered /\ IdsDiffer
    BY DEF RestoredConditions
  <1> QED
    BY <1>1, <1>2, <1>3, TypeCorrect, StaleInvariant, ReplicaInvariant, PTL DEF Spec

(* When several executions worked on a replica set and all of them end     *)
(* well, every data member runs the image of its template and chaining is  *)
(* allowed, although each may have seen and undone what the others had     *)
(* prepared (execute.py 14-16, step.py 78-84).                             *)
THEOREM AllDoneRestores ==
    ASSUME RestoredConditions
    PROVE  Spec => []AllDoneMeansRestored
  <1>1. TypeOK /\ ReplicaInv /\ CompleteInv /\ RestoredInv => AllDoneMeansRestored
    <2> SUFFICES ASSUME TypeOK, ReplicaInv, CompleteInv, RestoredInv,
                        \A e \in Executions : pc[e] = "done"
                 PROVE  chaining /\ \A m \in Members \ Arbiters : ~Stale(m)
      BY DEF AllDoneMeansRestored
    <2>1. chaining
      BY DEF RestoredInv, SomeoneWillAllow
    <2>2. NothingStale
      BY DEF CompleteInv, Complete, RestoredConditions
    <2>3. \A m \in Members : ~Stopped(m)
      BY DEF RestoredInv, Attended, Attends
    <2> QED
      BY <2>1, <2>2, <2>3 DEF NothingStale, Answering, Stopped, ReplicaInv,
                              LaunchedIsNew, TypeOK, ClusterTypeOK, HostStates
  <1>2. TemplatesCovered /\ IdsDiffer /\ Readable
    BY DEF RestoredConditions, Readable
  <1> QED
    BY <1>1, <1>2, TypeCorrect, ReplicaInvariant, CompleteInvariant, RestoredInvariant,
       PTL

(* An execution that is alone with the replica set and ends well leaves    *)
(* every data member on the image of its template, and chaining allowed,   *)
(* with spontaneous elections or without (execute.py 14-16, step.py        *)
(* 78-84).                                                                 *)
THEOREM DoneRestores ==
    ASSUME RestoredConditions, Alone
    PROVE  Spec => []DoneMeansRestored
  <1>1. AllDoneMeansRestored => DoneMeansRestored
    BY DEF AllDoneMeansRestored, DoneMeansRestored, Alone
  <1> QED
    BY <1>1, AllDoneRestores, PTL
=============================================================================
