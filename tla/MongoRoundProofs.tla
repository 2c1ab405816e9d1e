--------------------------- MODULE MongoRoundProofs ---------------------------
(***************************************************************************)
(* What an execution that is alone with the replica set guarantees: that   *)
(* it is a rolling recycle, and that it counts what it terminates.         *)
(***************************************************************************)
EXTENDS MongoImageProofs

USE DEF DONE, RECYCLE_SECONDARY, STEP_DOWN_AND_RECYCLE_PRIMARY
-----------------------------------------------------------------------------
(* The Mongo strategy implements the rolling recycle.                      *)

out == {m \in Members : Impaired(m)}
stale == {m \in Members : Stale(m)}

(* A termination takes a stale member out while no other one is.           *)
LEMMA TerminateTakesOut ==
    ASSUME TypeOK, OneAtATimeInv, OneAtATimeConditions, StaleInv,
           NEW e \in Executions, Terminate(e)
    PROVE  [Rolling!Next]_<<out, stale>>
  <1> DEFINE m == decision[e].member
  <1>1. pc[e] = "terminate" /\ image' = image
    BY DEF Terminate, Goto
  <1>2. out = {}
    BY <1>1 DEF out, OneAtATimeInv, VictimsOnly, OneAtATimeConditions
  <1>3. stale' = stale
    BY <1>1 DEF stale, Stale
  <1>4. CASE /\ id[m] = decision[e].id
             /\ rs' = [rs EXCEPT ![m] = "DOWN"]
    <2>1. m \in Members /\ Stale(m)
      BY <1>1, <1>4 DEF StaleInv, Informed, FromBefore, TypeOK, Decision, Recycling
    <2>2. rs'[m] = "DOWN" /\ \A n \in Members \ {m} : rs'[n] = rs[n]
      BY <1>4, <2>1 DEF TypeOK, ClusterTypeOK
    <2>3. out' = {m}
      BY <1>2, <2>1, <2>2 DEF out, Impaired
    <2> QED
      BY <1>2, <1>3, <2>1, <2>3 DEF Rolling!Next, Rolling!TakeOut, out, stale
  <1>5. CASE UNCHANGED rs
    BY <1>3, <1>5 DEF out, Impaired
  <1> QED
    BY <1>4, <1>5 DEF Terminate

(* The environment gives a member that is out a new instance, and puts it  *)
(* back once that instance has caught up.                                  *)
LEMMA EnvironmentRolls ==
    ASSUME TypeOK, OneAtATimeConditions, ReplicaInv, Environment
    PROVE  [Rolling!Next]_<<out, stale>>
  <1> USE DEF TypeOK, ClusterTypeOK
  <1>1. PICK n \in Members :
            \/ Terminated(n) \/ Launch(n) \/ Attach(n)
            \/ Boot(n) \/ CatchUp(n) \/ ChooseSource(n)
            \/ Elect(n) \/ PrimaryLost(n) \/ Unfreeze(n) \/ Heartbeat(n)
            \/ Fault(n)
    BY DEF Environment
  <1>2. CASE Terminated(n) \/ Attach(n) \/ Unfreeze(n) \/ Heartbeat(n)
    BY <1>2 DEF Terminated, Attach, Unfreeze, Heartbeat, out, stale, Impaired, Stale
  <1>3. CASE Launch(n)
    <2>1. n \in out /\ out' = out
      BY <1>3 DEF Launch, out, Impaired, ReplicaInv, StoppedIsDown
    <2>2. stale' = stale \ {n}
      BY <1>3 DEF Launch, stale, Stale
    <2> QED
      BY <2>1, <2>2 DEF Rolling!Next, Rolling!Renew, out, stale
  <1>4. CASE Boot(n) \/ CatchUp(n)
    <2>1. n \in out \ stale /\ stale' = stale
      BY <1>4 DEF Boot, CatchUp, Becomes, out, stale, Impaired, Stale, ReplicaInv,
                  LaunchedIsNew, OneAtATimeConditions
    <2>2. out' = out \/ out' = out \ {n}
      BY <1>4 DEF Boot, CatchUp, Becomes, out, Impaired
    <2> QED
      BY <2>1, <2>2 DEF Rolling!Next, Rolling!PutBack, out, stale
  <1>5. CASE ChooseSource(n) \/ PrimaryLost(n)
    BY <1>5 DEF ChooseSource, PrimaryLost, Becomes, out, stale, Impaired, Stale
  <1>6. CASE Elect(n)
    BY <1>6 DEF Elect, Electable, out, stale, Impaired, Stale
  <1>7. CASE Fault(n)
    BY <1>7 DEF Fault, out, stale, Impaired, Stale, OneAtATimeConditions
  <1> QED
    BY <1>1, <1>2, <1>3, <1>4, <1>5, <1>6, <1>7

(* The other steps of the Lambda take no member out and renew none.        *)
LEMMA LambdaRolls ==
    ASSUME TypeOK, NEW e \in Executions, Lambda(e), ~Terminate(e)
    PROVE  UNCHANGED <<out, stale>>
  <1>1. \A m \in Members : host'[m] = host[m] /\ image'[m] = image[m]
    BY LambdaLifeSteps
  <1>2. stale' = stale
    BY <1>1 DEF stale, Stale
  <1>3. rs' = rs \/ \E m \in Members : rs[m] = "PRIMARY" /\ rs' = [rs EXCEPT ![m] = "IDLE"]
    BY DEF Lambda, Start, ReadTemplates, Describe, ReadNode, Decide, ChainOff, Finish,
           Chain, StepDown, PollPasses, PollAgain, Resume, Raise, Retry, Forget,
           clusterVars
  <1>4. out' = out
    BY <1>3 DEF out, Impaired, TypeOK, ClusterTypeOK
  <1> QED
    BY <1>2, <1>4

(* A member is taken out of use only while it is stale and no other one is *)
(* out, and it comes back only on the image of its template, whatever      *)
(* elections the replica set holds meanwhile (execute.py 13-31).           *)
THEOREM MongoIsRolling ==
    ASSUME OneAtATimeConditions, TemplatesCovered, IdsDiffer
    PROVE  Spec => RollingSpec
  <1>1. Init => Rolling!Init
    BY DEF Init, ClusterInit, Rolling!Init, Impaired
  <1>2. TypeOK /\ OneAtATimeInv /\ StaleInv /\ ReplicaInv /\ [Next]_vars
            => [Rolling!Next]_<<out, stale>>
    <2> SUFFICES ASSUME TypeOK, OneAtATimeInv, StaleInv, ReplicaInv, [Next]_vars
                 PROVE  [Rolling!Next]_<<out, stale>>
      OBVIOUS
    <2>1. CASE UNCHANGED vars
      BY <2>1 DEF vars, clusterVars, out, stale, Impaired, Stale
    <2> QED
      BY <2>1, EnvironmentRolls, TerminateTakesOut, LambdaRolls DEF Next
  <1>3. TypeOK /\ OneAtATimeInv /\ StaleInv /\ ReplicaInv /\ [Next]_vars
            => [Rolling!Next]_(Rolling!vars)
    BY <1>2 DEF Rolling!vars, out, stale
  <1> QED
    BY <1>1, <1>3, TypeCorrect, OneAtATimeInvariant, StaleInvariant, ReplicaInvariant,
       PTL DEF Spec, RollingSpec, Rolling!Spec
-----------------------------------------------------------------------------
(* The number in the final message.  What an execution that is alone reads *)
(* about the replica set stays true until it terminates an instance, so    *)
(* every invocation that polls has terminated one.                         *)

Runs(i) == i.member \in Members /\ host[i.member] = "running" /\ id[i.member] = i.id

Counted(e) ==
    /\ pc[e] # "read" => todo[e] \cup found[e] = {}
    /\ \A i \in todo[e] \cup found[e] : Runs(i)
    /\ (pc[e] = "chain" /\ decision[e].action # DONE)
          \/ pc[e] \in {"stepdown", "await", "terminate"} => Runs(decision[e])
    /\ pc[e] \notin {"failed", "draining", "rejoin", "done"} => kills[e] = counter[e]
    /\ pc[e] \in {"draining", "rejoin"} => kills[e] = Increment(counter, e)[e]
    /\ pc[e] = "done" => reported[e] = kills[e]

CountInv == \A e \in Executions : Counted(e)

(* Nothing but the Lambda takes a running instance away.                   *)
LEMMA EnvironmentCounts ==
    ASSUME TypeOK, CountInv, Environment \/ UNCHANGED clusterVars,
           UNCHANGED lambdaVars
    PROVE  CountInv'
  <1> SUFFICES ASSUME NEW e \in Executions PROVE Counted(e)'
    BY DEF CountInv
  <1>1. Counted(e) /\ UNCHANGED <<pc, todo, found, decision, kills, counter, reported>>
    BY DEF CountInv, lambdaVars
  <1>2. \A m \in Members : host[m] = "running" => host'[m] = "running" /\ id'[m] = id[m]
    BY EnvironmentLifeSteps DEF LifeStep, clusterVars
  <1>3. ASSUME NEW i, Runs(i) PROVE Runs(i)'
    BY <1>2, <1>3 DEF Runs
  <1>4. \A i \in todo'[e] \cup found'[e] : Runs(i)'
    BY <1>1, <1>3 DEF Counted
  <1>5. Runs(decision[e]) => Runs(decision[e])'
    BY <1>1, <1>2 DEF Runs
  <1> QED
    BY <1>1, <1>4, <1>5 DEF Counted, Increment, Runs

(* The execution terminates what it has decided to, and counts it.         *)
LEMMA LambdaCounts ==
    ASSUME TypeOK, MaxRetries = 0, NEW e \in Executions, Counted(e), Lambda(e)
    PROVE  Counted(e)'
  <1> USE RecyclerAssumption DEF Goto, Increment, TypeOK
  <1>1. CASE ~Terminate(e)
    <2>1. UNCHANGED <<host, id>>
      BY <1>1, LambdaLifeSteps
    <2> USE <2>1 DEF Counted, Runs
    <2>2. CASE Start(e) \/ ReadTemplates(e)
      BY <2>2 DEF Start, ReadTemplates
    <2>3. CASE Describe(e)
      <3>1. \A i \in todo'[e] : Runs(i)
        BY <2>3 DEF Describe
      <3> QED
        BY <2>3, <3>1 DEF Describe
    <2>4. CASE ReadNode(e)
      <3>1. \A i \in todo'[e] \cup found'[e] : Runs(i)
        BY <2>4 DEF ReadNode
      <3> QED
        BY <2>4, <3>1 DEF ReadNode
    <2>5. CASE Decide(e)
      <3>1. PICK d \in Decisions(e) : decision' = [decision EXCEPT ![e] = d]
        BY <2>5 DEF Decide
      <3>2. d.action # DONE => Runs(d)
        BY DecisionsRecycle
      <3> QED
        BY <2>5, <3>1, <3>2 DEF Decide
    <2>6. CASE ChainOff(e)
      BY <2>6 DEF ChainOff, Chain
    <2>7. CASE Finish(e)
      BY <2>7 DEF Finish, Chain
    <2>8. CASE StepDown(e)
      BY <2>8 DEF StepDown
    <2>9. CASE PollPasses(e)
      BY <2>9 DEF PollPasses
    <2>10. CASE PollAgain(e)
      BY <2>10 DEF PollAgain
    <2>11. CASE Resume(e) \/ Raise(e)
      BY <2>11 DEF Resume, Raise, Forget
    <2>12. ~Retry(e)
      BY DEF Retry
    <2> QED
      BY <1>1, <2>2, <2>3, <2>4, <2>5, <2>6, <2>7, <2>8, <2>9, <2>10, <2>11, <2>12
      DEF Lambda
  <1>2. CASE Terminate(e)
    <2>1. kills' = Increment(kills, e) /\ kills[e] = counter[e]
      BY <1>2 DEF Terminate, Counted, Runs
    <2>2. todo[e] \cup found[e] = {} /\ pc'[e] = "draining"
      BY <1>2 DEF Terminate, Counted
    <2> QED
      BY <1>2, <2>1, <2>2 DEF Terminate, Counted
  <1> QED
    BY <1>1, <1>2

LEMMA CountInvariant ==
    ASSUME Alone, MaxRetries = 0
    PROVE  Spec => []CountInv
  <1>1. Init => CountInv
    BY DEF Init, CountInv, Counted
  <1>2. TypeOK /\ CountInv /\ [Next]_vars => CountInv'
    <2> SUFFICES ASSUME TypeOK, CountInv, [Next]_vars PROVE CountInv'
      OBVIOUS
    <2>1. CASE \E e \in Executions : Lambda(e)
      BY <2>1, LambdaCounts DEF CountInv, Alone
    <2> QED
      BY <2>1, EnvironmentCounts DEF Next, vars
  <1> QED
    BY <1>1, <1>2, TypeCorrect, PTL DEF Spec

(* The number in the message "successfully completed" is the number of     *)
(* instances the execution has terminated, for an execution that is alone  *)
(* with the replica set and whose invocations are not retried (step.py     *)
(* 79-84); a retry, or another execution, would make it count wrongly.     *)
THEOREM CountIsRight ==
    ASSUME Alone, MaxRetries = 0
    PROVE  Spec => []CountIsTrue
  <1>1. CountInv => CountIsTrue
    BY DEF CountInv, Counted, CountIsTrue
  <1> QED
    BY <1>1, CountInvariant, PTL
=============================================================================
