------------------------- MODULE MongoRecyclerProofs -------------------------
(***************************************************************************)
(* What the Mongo strategy guarantees for every replica set, every number  *)
(* of polls, and both ways the driver may connect.                         *)
(***************************************************************************)
EXTENDS MongoRecycler, TLAPS

USE DEF DONE, RECYCLE_SECONDARY, STEP_DOWN_AND_RECYCLE_PRIMARY
-----------------------------------------------------------------------------
(* Types.                                                                  *)

(* The environment keeps the state of the replica set well formed.         *)
LEMMA EnvironmentType ==
    ASSUME ClusterTypeOK, Environment
    PROVE  ClusterTypeOK'
  <1> USE ClusterAssumption DEF ClusterTypeOK, HostStates, MemberStates
  <1>1. PICK m \in Members :
            \/ Terminated(m) \/ Launch(m) \/ Attach(m)
            \/ Boot(m) \/ CatchUp(m) \/ ChooseSource(m)
            \/ Elect(m) \/ PrimaryLost(m) \/ Unfreeze(m) \/ Heartbeat(m)
            \/ Fault(m)
    BY DEF Environment
  <1>2. CASE Terminated(m)
    BY <1>2 DEF Terminated
  <1>3. CASE Launch(m)
    <2>1. (id[m] + 1) % Generations \in 0..Generations-1
      OBVIOUS
    <2> QED
      BY <1>3, <2>1 DEF Launch
  <1>4. CASE Attach(m)
    BY <1>4 DEF Attach
  <1>5. CASE Boot(m) \/ CatchUp(m) \/ ChooseSource(m) \/ PrimaryLost(m)
    BY <1>5 DEF Boot, CatchUp, ChooseSource, PrimaryLost, Becomes
  <1>6. CASE Elect(m)
    BY <1>6 DEF Elect
  <1>7. CASE Unfreeze(m)
    BY <1>7 DEF Unfreeze
  <1>8. CASE Heartbeat(m)
    BY <1>8 DEF Heartbeat
  <1>9. CASE Fault(m)
    BY <1>9 DEF Fault
  <1> QED
    BY <1>1, <1>2, <1>3, <1>4, <1>5, <1>6, <1>7, <1>8, <1>9

(* Whatever is chosen, the decision names a described instance or none.    *)
LEMMA DecisionsType ==
    ASSUME TypeOK, NEW e \in Executions
    PROVE  Decisions(e) \subseteq Decision
  BY DEF TypeOK, Decisions, Candidates, Choice, Decision, Instance

(* The Lambda keeps its own state and that of the replica set well formed. *)
LEMMA LambdaType ==
    ASSUME TypeOK, NEW e \in Executions, Lambda(e)
    PROVE  TypeOK'
  <1> USE ClusterAssumption, RecyclerAssumption
      DEF TypeOK, Goto, Increment, Running, Polling, Ended
  <1>1. CASE Start(e)
    BY <1>1 DEF Start, clusterVars, ClusterTypeOK
  <1>2. CASE ReadTemplates(e)
    BY <1>2 DEF ReadTemplates, clusterVars, ClusterTypeOK
  <1>3. CASE Describe(e)
    BY <1>3 DEF Describe, clusterVars, ClusterTypeOK, Described
  <1>4. CASE ReadNode(e)
    BY <1>4 DEF ReadNode, NodeState, clusterVars, ClusterTypeOK, Described, Instance,
                MemberStates
  <1>5. CASE Decide(e)
    BY <1>5, DecisionsType DEF Decide, clusterVars, ClusterTypeOK
  <1>6. CASE ChainOff(e)
    BY <1>6 DEF ChainOff, Chain, ClusterTypeOK
  <1>7. CASE Finish(e)
    BY <1>7 DEF Finish, Chain, ClusterTypeOK
  <1>8. CASE StepDown(e)
    <2>1. PICK m \in Members :
              \/ rs' = [rs EXCEPT ![m] = "IDLE"] /\ frozen' = [frozen EXCEPT ![m] = TRUE]
              \/ UNCHANGED <<rs, frozen>>
      BY <1>8 DEF StepDown
    <2>2. rs' \in [Members -> MemberStates]
      BY <2>1 DEF ClusterTypeOK, MemberStates
    <2>3. frozen' \in [Members -> BOOLEAN]
      BY <2>1 DEF ClusterTypeOK
    <2> QED
      BY <1>8, <2>2, <2>3 DEF StepDown, ClusterTypeOK
  <1>9. CASE Terminate(e)
    <2> DEFINE m == decision[e].member
    <2>1. \/ /\ host' = [host EXCEPT ![m] = "shutting-down"]
             /\ rs' = [rs EXCEPT ![m] = "DOWN"]
             /\ frozen' = [frozen EXCEPT ![m] = FALSE]
             /\ kills' = Increment(kills, e)
          \/ UNCHANGED <<host, rs, frozen, kills>>
      BY <1>9 DEF Terminate
    <2>2. host' \in [Members -> HostStates] /\ rs' \in [Members -> MemberStates]
      BY <2>1 DEF ClusterTypeOK, MemberStates, HostStates
    <2>3. frozen' \in [Members -> BOOLEAN]
      BY <2>1 DEF ClusterTypeOK
    <2>4. kills' \in [Executions -> 0..MaxCount]
      BY <2>1
    <2> QED
      BY <1>9, <2>2, <2>3, <2>4 DEF Terminate, ClusterTypeOK
  <1>10. CASE PollPasses(e)
    BY <1>10 DEF PollPasses, clusterVars, ClusterTypeOK
  <1>11. CASE PollAgain(e)
    BY <1>11 DEF PollAgain, clusterVars, ClusterTypeOK
  <1>12. CASE Resume(e)
    BY <1>12 DEF Resume, Forget, NoDecision, Decision, clusterVars, ClusterTypeOK
  <1>13. CASE Raise(e)
    BY <1>13 DEF Raise, Forget, clusterVars, ClusterTypeOK
  <1>14. CASE Retry(e)
    BY <1>14 DEF Retry, Forget, NoDecision, Decision, clusterVars, ClusterTypeOK
  <1> QED
    BY <1>1, <1>2, <1>3, <1>4, <1>5, <1>6, <1>7, <1>8, <1>9, <1>10, <1>11,
       <1>12, <1>13, <1>14 DEF Lambda

(* Every variable keeps its type: an execution is always at one of its     *)
(* steps, and a decision names a member and an instance id, or neither.    *)
THEOREM TypeCorrect == Spec => []TypeOK
  <1>1. Init => TypeOK
    <2> SUFFICES ASSUME Init PROVE TypeOK
      OBVIOUS
    <2>1. ClusterTypeOK
      BY ClusterAssumption DEF Init, ClusterInit, ClusterTypeOK, HostStates, MemberStates
    <2>2. NoDecision \in Decision
      BY DEF NoDecision, Decision
    <2>3. /\ pc \in [Executions -> Running \cup {"wait"} \cup Ended]
          /\ counter \in [Executions -> 0..MaxCount]
          /\ reported \in [Executions -> 0..MaxCount]
          /\ kills \in [Executions -> 0..MaxCount]
          /\ retries \in [Executions -> 0..MaxRetries]
          /\ polls \in [Executions -> Nat]
      BY RecyclerAssumption DEF Init, Running
    <2>4. decision \in [Executions -> Decision]
      BY <2>2 DEF Init
    <2>5. /\ target \in [Executions -> Images \cup {None}]
          /\ todo \in [Executions -> SUBSET Described]
          /\ found \in [Executions -> SUBSET Instance]
          /\ recorded \in BOOLEAN
      BY DEF Init
    <2> QED
      BY <2>1, <2>3, <2>4, <2>5 DEF TypeOK
  <1>2. TypeOK /\ [Next]_vars => TypeOK'
    <2> SUFFICES ASSUME TypeOK, [Next]_vars PROVE TypeOK'
      OBVIOUS
    <2>1. CASE Environment /\ UNCHANGED lambdaVars
      BY <2>1, EnvironmentType DEF TypeOK, lambdaVars
    <2>2. CASE \E e \in Executions : Lambda(e)
      BY <2>2, LambdaType
    <2>3. CASE UNCHANGED vars
      BY <2>3 DEF vars, clusterVars, lambdaVars, TypeOK, ClusterTypeOK
    <2> QED
      BY <2>1, <2>2, <2>3 DEF Next
  <1> QED
    BY <1>1, <1>2, PTL DEF Spec
-----------------------------------------------------------------------------
(* One member at a time.  Three conditions make it true: one execution per *)
(* replica set, no retry of an invocation by the state machine, and no     *)
(* member that falls back to resynchronising by itself.                    *)

OneAtATimeConditions ==
    /\ \A e, f \in Executions : e = f
    /\ MaxRetries = 0
    /\ "resync" \notin FaultKinds

(* Only the Lambda makes a member impaired: the environment repairs.       *)
LEMMA EnvironmentRepairs ==
    ASSUME TypeOK, OneAtATimeInv, OneAtATimeConditions,
           Environment, UNCHANGED lambdaVars
    PROVE  OneAtATimeInv'
  <1> USE DEF Impaired, HasPrimary
  <1>1. PICK m \in Members :
            \/ Terminated(m) \/ Launch(m) \/ Attach(m)
            \/ Boot(m) \/ CatchUp(m) \/ ChooseSource(m)
            \/ Elect(m) \/ PrimaryLost(m) \/ Unfreeze(m) \/ Heartbeat(m)
            \/ Fault(m)
    BY DEF Environment
  <1>2. /\ host \in [Members -> HostStates] /\ rs \in [Members -> MemberStates]
        /\ view \in [Members -> MemberStates] /\ id \in [Members -> 0..Generations-1]
    BY DEF TypeOK, ClusterTypeOK
  <1>3. VictimsOnly /\ Noticed /\ Drained /\ StoppedIsDown
    BY DEF OneAtATimeInv
  <1>4. \A n \in Members : Impaired(n)' => Impaired(n)
    BY <1>1, <1>2
    DEF Terminated, Launch, Attach, Boot, CatchUp, ChooseSource, Elect, PrimaryLost,
        Unfreeze, Heartbeat, Fault, Becomes, OneAtATimeConditions
  <1>5. VictimsOnly'
    BY <1>3, <1>4 DEF VictimsOnly, lambdaVars
  <1>6. Noticed'
    BY <1>1, <1>2, <1>3
    DEF Noticed, Terminated, Launch, Attach, Boot, CatchUp, ChooseSource, Elect,
        PrimaryLost, Unfreeze, Heartbeat, Fault, Becomes, OneAtATimeConditions,
        StoppedIsDown
  <1>7. Drained'
    BY <1>1, <1>2, <1>3
    DEF Drained, lambdaVars, Terminated, Launch, Attach, Boot, CatchUp, ChooseSource,
        Elect, PrimaryLost, Unfreeze, Heartbeat, Fault, Becomes
  <1>8. StoppedIsDown'
    <2>1. CASE Terminated(m) \/ Launch(m) \/ Attach(m)
      BY <2>1, <1>2, <1>3 DEF StoppedIsDown, Terminated, Launch, Attach
    <2>2. CASE Boot(m) \/ CatchUp(m) \/ ChooseSource(m) \/ PrimaryLost(m)
      BY <2>2, <1>2, <1>3 DEF StoppedIsDown, Boot, CatchUp, ChooseSource, PrimaryLost,
                              Becomes
    <2>3. CASE Elect(m)
      BY <2>3, <1>2, <1>3 DEF StoppedIsDown, Elect, Electable
    <2>4. CASE Unfreeze(m) \/ Heartbeat(m)
      BY <2>4, <1>3 DEF StoppedIsDown, Unfreeze, Heartbeat
    <2>5. CASE Fault(m)
      BY <2>5, <1>2, <1>3 DEF StoppedIsDown, Fault
    <2> QED
      BY <1>1, <2>1, <2>2, <2>3, <2>4, <2>5
  <1> QED
    BY <1>5, <1>6, <1>7, <1>8 DEF OneAtATimeInv

(* When the set is found healthy after the victim has stopped, no member   *)
(* is impaired.                                                            *)
LEMMA HealthyMeansNoneImpaired ==
    ASSUME TypeOK, OneAtATimeInv, OneAtATimeConditions, NEW e \in Executions,
           pc[e] = "rejoin", ClusterHealthy
    PROVE  \A m \in Members : ~Impaired(m)
  <1> SUFFICES ASSUME NEW m \in Members, Impaired(m) PROVE FALSE
    OBVIOUS
  <1>1. decision[e].member = m
    BY DEF OneAtATimeInv, VictimsOnly, OneAtATimeConditions
  <1>2. host[m] # "shutting-down"
    BY <1>1 DEF OneAtATimeInv, Drained
  <1>3. view[m] \in {"RECOVERING", "DOWN"}
    BY <1>2 DEF OneAtATimeInv, Noticed, ClusterHealthy
  <1> QED
    BY <1>3 DEF ClusterHealthy

(* The steps of an invocation that leave the replica set as it is.         *)
LEMMA QuietStepsKeepInv ==
    ASSUME TypeOK, OneAtATimeInv, OneAtATimeConditions, NEW e \in Executions,
           \/ Start(e) \/ ReadTemplates(e) \/ Describe(e) \/ ReadNode(e)
           \/ Decide(e) \/ PollAgain(e) \/ Resume(e) \/ Raise(e)
    PROVE  OneAtATimeInv'
  <1>1. UNCHANGED clusterVars
    BY DEF Start, ReadTemplates, Describe, ReadNode, Decide, PollAgain, Resume, Raise,
           Forget
  <1>2. \/ pc[e] \in {"start", "templates", "describe", "read", "wait"}
           /\ pc' = [pc EXCEPT ![e] = pc'[e]]
           /\ pc'[e] \notin {"draining", "rejoin"}
        \/ UNCHANGED <<pc, decision>>
        \/ pc' = [pc EXCEPT ![e] = "failed"] /\ UNCHANGED decision
    <2>1. ASSUME NEW from, NEW to, Goto(e, from, to), to \notin {"draining", "rejoin"},
                 from \in {"start", "templates", "describe", "read", "wait"}
          PROVE  /\ pc[e] \in {"start", "templates", "describe", "read", "wait"}
                 /\ pc' = [pc EXCEPT ![e] = pc'[e]] /\ pc'[e] \notin {"draining", "rejoin"}
      BY <2>1 DEF TypeOK, Goto
    <2>2. CASE Start(e) \/ ReadTemplates(e) \/ Describe(e)
      BY <2>1, <2>2 DEF Start, ReadTemplates, Describe
    <2>3. CASE Decide(e) \/ Resume(e)
      BY <2>1, <2>3 DEF Decide, Resume
    <2>4. CASE ReadNode(e) \/ PollAgain(e)
      BY <2>4 DEF ReadNode, PollAgain
    <2>5. CASE Raise(e)
      BY <2>5 DEF Raise
    <2> QED
      BY <2>2, <2>3, <2>4, <2>5
  <1>3. VictimsOnly'
    <2> SUFFICES ASSUME NEW m \in Members, Impaired(m)'
                 PROVE  /\ pc'[e] \in {"draining", "rejoin", "failed"}
                        /\ decision'[e].member = m
      BY DEF VictimsOnly
    <2>1. pc[e] \in {"draining", "rejoin", "failed"} /\ decision[e].member = m
      BY <1>1 DEF clusterVars, Impaired, OneAtATimeInv, VictimsOnly, OneAtATimeConditions
    <2> QED
      BY <1>2, <2>1 DEF TypeOK
  <1>4. Noticed' /\ StoppedIsDown'
    BY <1>1 DEF OneAtATimeInv, Noticed, StoppedIsDown, clusterVars, HasPrimary, Impaired
  <1>5. Drained'
    <2> SUFFICES ASSUME NEW f \in Executions, NEW m \in Members,
                        decision'[f].member = m, host'[m] = "shutting-down"
                 PROVE  /\ pc'[f] # "rejoin"
                        /\ pc'[f] = "draining" => id'[m] = decision'[f].id
      BY DEF Drained
    <2>1. f = e
      BY DEF OneAtATimeConditions
    <2>2. Drained /\ host[m] = "shutting-down" /\ id'[m] = id[m]
      BY <1>1 DEF OneAtATimeInv, clusterVars
    <2> QED
      BY <1>2, <2>1, <2>2 DEF Drained, TypeOK
  <1> QED
    BY <1>3, <1>4, <1>5 DEF OneAtATimeInv

(* ChainOff, Finish and StepDown happen while no member is impaired, and   *)
(* impair none.                                                            *)
LEMMA CalmStepsKeepInv ==
    ASSUME TypeOK, OneAtATimeInv, OneAtATimeConditions, NEW e \in Executions,
           ChainOff(e) \/ Finish(e) \/ StepDown(e)
    PROVE  OneAtATimeInv'
  <1> USE DEF Impaired, HasPrimary
  <1>1. /\ pc[e] \in {"chain", "stepdown"}
        /\ pc'[e] \in {"stepdown", "terminate", "done", "await"}
    BY DEF TypeOK, ChainOff, Finish, StepDown, Goto
  <1>2. \A m \in Members : ~Impaired(m)
    BY <1>1 DEF OneAtATimeInv, VictimsOnly, OneAtATimeConditions
  <1>3. /\ host' = host /\ rs \in [Members -> MemberStates]
        /\ \/ rs' = rs
           \/ \E m \in Members : rs' = [rs EXCEPT ![m] = "IDLE"]
    BY DEF TypeOK, ClusterTypeOK, ChainOff, Finish, StepDown, Chain
  <1>4. \A m \in Members : ~Impaired(m)'
    BY <1>2, <1>3
  <1>5. StoppedIsDown' /\ \A m \in Members : host[m] = "running"
    BY <1>2, <1>3, <1>4 DEF OneAtATimeInv, StoppedIsDown
  <1> QED
    BY <1>3, <1>4, <1>5 DEF OneAtATimeInv, VictimsOnly, Noticed, Drained

(* Terminate finds no member impaired, and impairs its victim at most.     *)
LEMMA TerminateKeepsInv ==
    ASSUME TypeOK, OneAtATimeInv, OneAtATimeConditions, NEW e \in Executions,
           Terminate(e)
    PROVE  OneAtATimeInv'
  <1> DEFINE victim == decision[e].member
  <1> USE DEF Impaired, HasPrimary
  <1>1. pc[e] = "terminate" /\ pc' = [pc EXCEPT ![e] = "draining"] /\ pc'[e] = "draining"
    BY DEF TypeOK, Terminate, Goto
  <1>2. \A m \in Members : ~Impaired(m)
    BY <1>1 DEF OneAtATimeInv, VictimsOnly, OneAtATimeConditions
  <1>3. \A m \in Members : host[m] = "running"
    BY <1>2 DEF OneAtATimeInv, StoppedIsDown
  <1>4. /\ UNCHANGED <<id, view, decision>>
        /\ \/ /\ id[victim] = decision[e].id
              /\ host' = [host EXCEPT ![victim] = "shutting-down"]
              /\ rs' = [rs EXCEPT ![victim] = "DOWN"]
           \/ UNCHANGED <<host, rs>>
    BY DEF Terminate
  <1>5. host \in [Members -> HostStates] /\ rs \in [Members -> MemberStates]
    BY DEF TypeOK, ClusterTypeOK
  <1>6. \A m \in Members : Impaired(m)' \/ host'[m] # "running" =>
            /\ m = victim /\ id[m] = decision[e].id
            /\ host'[m] = "shutting-down" /\ rs'[m] = "DOWN"
    BY <1>2, <1>3, <1>4, <1>5
  <1>7. VictimsOnly'
    BY <1>1, <1>4, <1>6 DEF VictimsOnly
  <1>8. Noticed' /\ StoppedIsDown'
    BY <1>6 DEF Noticed, StoppedIsDown
  <1>9. Drained'
    BY <1>1, <1>4, <1>6 DEF Drained, OneAtATimeConditions
  <1> QED
    BY <1>7, <1>8, <1>9 DEF OneAtATimeInv

(* A poll that passes: termination, then health.                           *)
LEMMA PollPassesKeepsInv ==
    ASSUME TypeOK, OneAtATimeInv, OneAtATimeConditions, NEW e \in Executions,
           PollPasses(e)
    PROVE  OneAtATimeInv'
  <1> USE DEF OneAtATimeInv, OneAtATimeConditions
  <1>1. UNCHANGED <<host, id, rs, view, decision>> /\ PollSucceeds(e)
    BY DEF PollPasses, clusterVars
  <1>2. Noticed' /\ StoppedIsDown'
    BY <1>1 DEF Noticed, StoppedIsDown, HasPrimary, Impaired
  <1>3. CASE pc[e] = "await" /\ pc' = [pc EXCEPT ![e] = "terminate"]
    <2>1. \A m \in Members : ~Impaired(m)
      BY <1>3 DEF VictimsOnly
    <2>2. pc'[e] = "terminate"
      BY <1>3 DEF TypeOK
    <2> QED
      BY <1>1, <1>2, <2>1, <2>2 DEF VictimsOnly, Drained, Impaired
  <1>4. CASE pc[e] = "draining" /\ pc' = [pc EXCEPT ![e] = "rejoin"]
    <2>1. pc'[e] = "rejoin"
      BY <1>4 DEF TypeOK
    <2>2. VictimsOnly'
      BY <1>1, <1>4, <2>1 DEF VictimsOnly, Impaired
    <2>3. \A m \in Members : decision[e].member = m => host[m] # "shutting-down"
      BY <1>1, <1>4 DEF PollSucceeds, VictimTerminated, Drained
    <2> QED
      BY <1>1, <1>2, <2>2, <2>3 DEF Drained
  <1>5. CASE pc[e] = "rejoin" /\ pc' = [pc EXCEPT ![e] = "wait"]
    <2>1. \A m \in Members : ~Impaired(m)
      BY <1>1, <1>5, HealthyMeansNoneImpaired DEF PollSucceeds
    <2>2. pc'[e] = "wait"
      BY <1>5 DEF TypeOK
    <2> QED
      BY <1>1, <1>2, <2>1, <2>2 DEF VictimsOnly, Drained, Impaired
  <1> QED
    BY <1>3, <1>4, <1>5 DEF PollPasses, Goto

(* In every reachable state a member is out of use only as the victim of   *)
(* the execution that has yet to see the replica set healthy, and spoils   *)
(* its health check from the moment its instance has stopped: this is what *)
(* makes one check after each termination enough (execute.py 27-31).       *)
THEOREM OneAtATimeInvariant ==
    ASSUME OneAtATimeConditions
    PROVE  Spec => []OneAtATimeInv
  <1>1. Init => OneAtATimeInv
    BY DEF Init, ClusterInit, OneAtATimeInv, VictimsOnly, Noticed, Drained,
           StoppedIsDown, Impaired
  <1>2. TypeOK /\ OneAtATimeInv /\ [Next]_vars => OneAtATimeInv'
    <2> SUFFICES ASSUME TypeOK, OneAtATimeInv, [Next]_vars PROVE OneAtATimeInv'
      OBVIOUS
    <2>1. CASE Environment /\ UNCHANGED lambdaVars
      BY <2>1, EnvironmentRepairs
    <2>2. ASSUME NEW e \in Executions, Lambda(e) PROVE OneAtATimeInv'
      <3>1. ~Retry(e)
        BY RecyclerAssumption DEF Retry, TypeOK, OneAtATimeConditions
      <3> QED
        BY <2>2, <3>1, QuietStepsKeepInv, CalmStepsKeepInv, TerminateKeepsInv,
           PollPassesKeepsInv DEF Lambda
    <2>3. CASE UNCHANGED vars
      BY <2>3 DEF vars, clusterVars, lambdaVars, OneAtATimeInv, VictimsOnly, Noticed,
                  Drained, StoppedIsDown, Impaired, HasPrimary
    <2> QED
      BY <2>1, <2>2, <2>3 DEF Next
  <1> QED
    BY <1>1, <1>2, TypeCorrect, PTL DEF Spec

(* Never are two members out of use together, for any number of members,   *)
(* polls and spontaneous elections, whether or not the driver reaches the  *)
(* member it was pointed at: the health check after each termination is    *)
(* enough, although nothing is checked before the first.                   *)
THEOREM OneMemberAtATime ==
    ASSUME OneAtATimeConditions
    PROVE  Spec => []OneAtATime
  <1>1. OneAtATimeInv => OneAtATime
    BY DEF OneAtATimeInv, VictimsOnly, OneAtATimeConditions, OneAtATime
  <1> QED
    BY <1>1, OneAtATimeInvariant, PTL
=============================================================================
