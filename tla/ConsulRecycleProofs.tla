------------------------- MODULE ConsulRecycleProofs -------------------------
(* Theorems about ConsulRecycle, for any number of servers and executions. *)
EXTENDS ConsulRecycle, TLAPS

LEMMA InitTypes == Init => TypeOK
BY DEF Init, TypeOK, Flowing, Checking, Ended

LEMMA EnvironmentTypes == TypeOK /\ Environment /\ UNCHANGED flowVars => TypeOK'
<1> SUFFICES ASSUME TypeOK, Environment, UNCHANGED flowVars PROVE TypeOK'
  OBVIOUS
<1> USE DEF TypeOK, flowVars
<1>1. ASSUME NEW c \in ordered, RunLeave(c) PROVE TypeOK'
  BY <1>1 DEF RunLeave, Without, Instances
<1>2. ASSUME NEW s \in Servers, Launch(s) PROVE TypeOK'
  BY <1>2 DEF Launch
<1>3. ASSUME NEW s \in Servers, Join(s) \/ CleanUp(s) \/ Elect(s) PROVE TypeOK'
  BY <1>3 DEF Join, CleanUp, Elect
<1>4. ASSUME NEW s \in Servers, Crash(s) PROVE TypeOK'
  BY <1>4 DEF Crash, Stop, Without, Disturb
<1>5. CASE QuorumLost
  BY <1>5 DEF QuorumLost
<1>6. CASE NewElection
  BY <1>6 DEF NewElection, Disturb
<1> QED
  BY <1>1, <1>2, <1>3, <1>4, <1>5, <1>6 DEF Environment

LEMMA MembersAreInstances == TypeOK => Members \subseteq Instances
BY DEF TypeOK, Members, Instances

LEMMA FlowTypes ==
    ASSUME TypeOK, NEW e \in Executions, Begin(e) \/ Flow(e)
    PROVE  TypeOK'
<1> USE DEF TypeOK, Goto, Undisturbed, consulVars, Flowing, Checking, Ended
<1>1. CASE Begin(e)
  BY <1>1, MembersAreInstances DEF Begin, Disturb
<1>2. CASE CheckPasses(e)
  BY <1>2 DEF CheckPasses
<1>3. CASE ReadLeader(e)
  BY <1>3 DEF ReadLeader
<1>4. CASE ListMembers(e)
  <2>1. PICK S \in Found : todo' = [todo EXCEPT ![e] = Listed(S)]
                           /\ Goto(e, "list", IF S = {} THEN "end" ELSE "leave")
    BY <1>4 DEF ListMembers
  <2>2. Listed(S) \subseteq Instances
    BY DEF Listed, Found, Instances
  <2> QED
    BY <1>4, <2>1, <2>2 DEF ListMembers
<1>5. CASE Leave(e)
  <2>1. PICK v \in NextVictims(e) :
          /\ victim' = [victim EXCEPT ![e] = v]
          /\ todo' = [todo EXCEPT ![e] = @ \ {v}]
          /\ ordered' = IF v.server \in running /\ id[v.server] = v.id
                        THEN ordered \cup {v} ELSE ordered
    BY <1>5 DEF Leave
  <2>2. v \in Instances
    BY DEF NextVictims
  <2> QED
    BY <1>5, <2>1, <2>2 DEF Leave
<1>6. CASE Terminate(e)
  BY <1>6 DEF Terminate, Stop, Without, Instances
<1>7. CASE Complete(e)
  BY <1>7 DEF Complete, End
<1>8. CASE Abort(e)
  BY <1>8 DEF Abort, End
<1> QED
  BY <1>1, <1>2, <1>3, <1>4, <1>5, <1>6, <1>7, <1>8 DEF Flow

LEMMA StepTypes == TypeOK /\ [Next]_vars => TypeOK'
<1>1. TypeOK /\ UNCHANGED vars => TypeOK'
  BY DEF TypeOK, vars, consulVars, flowVars
<1> QED
  BY <1>1, EnvironmentTypes, FlowTypes DEF Next

(* Every variable of the Consul recycle keeps its type.                    *)
THEOREM TypeCorrect == Spec => []TypeOK
BY InitTypes, StepTypes, PTL DEF Spec
-----------------------------------------------------------------------------
(* Why nothing old remains.  The members of when an execution began can    *)
(* only become fewer, because an instance that joins later is not one of   *)
(* them (Past).  Once the list is made, those that still run are among     *)
(* the ones the execution has yet to recycle (Remaining).                  *)

HasList == {"leave", "checkLeft", "terminate", "checkFinal", "end", "completed"}

Pending(e) ==
    todo[e] \cup IF pc[e] \in {"checkLeft", "terminate"} THEN {victim[e]} ELSE {}

Past(e) ==
    \A c \in before[e] :
        /\ c.id <= id[c.server]
        /\ c.id = id[c.server] => raft[c.server] # "new"

Remaining(e) ==
    /\ pc[e] \in HasList => before[e] \cap Members \subseteq Pending(e)
    /\ pc[e] \in {"end", "completed"} => todo[e] = {}

NoneOldInv == TypeOK /\ \A e \in Executions : Past(e) /\ Remaining(e)

LEMMA Membership ==
    ASSUME TypeOK, NEW c \in Instances
    PROVE  c \in Members <=>
             c.server \in running /\ raft[c.server] # "new" /\ c.id = id[c.server]
<1>1. c = [server |-> c.server, id |-> c.id]
  BY DEF Instances
<1> QED
  BY <1>1 DEF Members

LEMMA InitNoneOld == Init => NoneOldInv
BY InitTypes DEF Init, NoneOldInv, Past, Remaining, HasList

(* What no step does: bring an instance back, or make one that has joined  *)
(* a new one again.                                                        *)
Calm ==
    \A s \in Servers :
        /\ id[s] <= id'[s]
        /\ id'[s] = id[s] /\ raft'[s] = "new" => raft[s] = "new"
        /\ id'[s] = id[s] /\ s \in running' => s \in running

LEMMA StopCalm == ASSUME TypeOK, NEW s \in Servers, Stop(s) PROVE Calm
BY DEF TypeOK, Stop, Calm

LEMMA QuietCalm == ASSUME TypeOK, UNCHANGED <<running, id, raft>> PROVE Calm
BY DEF TypeOK, Calm

LEMMA EnvironmentCalm == ASSUME TypeOK, Environment PROVE Calm
<1>1. ASSUME NEW c \in ordered, RunLeave(c) PROVE Calm
  BY <1>1 DEF TypeOK, Calm, RunLeave, Instances
<1>2. ASSUME NEW s \in Servers, Launch(s) PROVE Calm
  BY <1>2 DEF TypeOK, Calm, Launch
<1>3. ASSUME NEW s \in Servers, Join(s) PROVE Calm
  BY <1>3 DEF TypeOK, Calm, Join
<1>4. ASSUME NEW s \in Servers, CleanUp(s) \/ Elect(s) PROVE Calm
  BY <1>4, QuietCalm DEF CleanUp, Elect
<1>5. ASSUME NEW s \in Servers, Crash(s) PROVE Calm
  BY <1>5, StopCalm DEF Crash
<1>6. CASE QuorumLost \/ NewElection
  BY <1>6, QuietCalm DEF QuorumLost, NewElection
<1> QED
  BY <1>1, <1>2, <1>3, <1>4, <1>5, <1>6 DEF Environment

LEMMA MembersOnlyGo ==
    ASSUME NoneOldInv, TypeOK', Calm, NEW e \in Executions, NEW c \in before[e]
    PROVE  /\ c.id <= id'[c.server]
           /\ c.id = id'[c.server] => raft'[c.server] # "new"
           /\ c \in Members' => c \in Members
<1>1. c \in Instances
  BY DEF NoneOldInv, TypeOK
<1>2. c.server \in Servers /\ c.id \in Nat
  BY <1>1 DEF Instances
<1>3. c.id <= id[c.server] /\ (c.id = id[c.server] => raft[c.server] # "new")
  BY DEF NoneOldInv, Past
<1>4. id[c.server] \in Nat /\ id'[c.server] \in Nat /\ id[c.server] <= id'[c.server]
  BY <1>2 DEF NoneOldInv, TypeOK, Calm
<1>5. c.id <= id'[c.server] /\ (c.id = id'[c.server] => c.id = id[c.server])
  BY <1>2, <1>3, <1>4
<1>6. c.id = id'[c.server] => raft'[c.server] # "new"
  BY <1>2, <1>3, <1>5 DEF Calm
<1>7. ASSUME c \in Members' PROVE c \in Members
  <2>1. c.server \in running' /\ c.id = id'[c.server]
    BY <1>1, <1>7, Membership DEF Members
  <2> QED
    BY <1>1, <1>2, <1>3, <1>5, <2>1, Membership DEF Calm, NoneOldInv
<1> QED
  BY <1>5, <1>6, <1>7

(* An execution that takes no step.                                        *)
LEMMA Kept ==
    ASSUME NoneOldInv, TypeOK', Calm, NEW e \in Executions,
           before'[e] = before[e], pc'[e] = pc[e],
           todo'[e] = todo[e], victim'[e] = victim[e]
    PROVE  (Past(e) /\ Remaining(e))'
<1>1. Past(e)'
  BY MembersOnlyGo DEF Past
<1>2. (before[e] \cap Members)' \subseteq before[e] \cap Members
  BY MembersOnlyGo
<1>3. Pending(e)' = Pending(e)
  BY DEF Pending
<1> QED
  BY <1>1, <1>2, <1>3 DEF Remaining, NoneOldInv

(* An execution that takes one.                                            *)
LEMMA FlowKeeps ==
    ASSUME NoneOldInv, TypeOK', NEW e \in Executions, Flow(e)
    PROVE  /\ Calm
           /\ (Past(e) /\ Remaining(e))'
<1> USE DEF Goto, Undisturbed, consulVars, HasList
<1>0. TypeOK /\ Past(e) /\ Remaining(e)
  BY DEF NoneOldInv
<1>1. ASSUME Calm, before'[e] = before[e]
      PROVE  /\ Past(e)'
             /\ (before[e] \cap Members)' \subseteq before[e] \cap Members
  <2>1. Past(e)'
    BY <1>1, MembersOnlyGo DEF Past
  <2>2. (before[e] \cap Members)' \subseteq before[e] \cap Members
    BY <1>1, MembersOnlyGo
  <2> QED
    BY <2>1, <2>2
<1>2. CASE CheckPasses(e)
  <2>1. Calm
    BY <1>0, <1>2, QuietCalm DEF CheckPasses
  <2>2. /\ before' = before /\ todo' = todo
    BY <1>2 DEF CheckPasses
  <2>3. Past(e)' /\ (before[e] \cap Members)' \subseteq before[e] \cap Members
    BY <1>1, <2>1, <2>2
  <2>4. CASE Goto(e, "check", "leader")
    BY <1>0, <2>1, <2>3, <2>4 DEF Remaining, TypeOK
  <2>5. CASE Goto(e, "checkLeft", "terminate") /\ UNCHANGED victim
    BY <1>0, <2>1, <2>2, <2>3, <2>5 DEF Remaining, Pending, TypeOK
  <2>6. CASE Goto(e, "checkFinal", IF todo[e] = {} THEN "end" ELSE "leave")
    BY <1>0, <2>1, <2>2, <2>3, <2>6 DEF Remaining, Pending, TypeOK
  <2> QED
    BY <1>2, <2>4, <2>5, <2>6 DEF CheckPasses
<1>3. CASE ReadLeader(e)
  <2>1. Calm /\ before' = before
    BY <1>0, <1>3, QuietCalm DEF ReadLeader
  <2> QED
    BY <1>0, <1>1, <1>3, <2>1 DEF ReadLeader, Remaining, TypeOK
<1>4. CASE ListMembers(e)
  <2>1. Calm /\ before' = before
    BY <1>0, <1>4, QuietCalm DEF ListMembers
  <2>2. PICK S \in Found : todo' = [todo EXCEPT ![e] = Listed(S)]
                           /\ Goto(e, "list", IF S = {} THEN "end" ELSE "leave")
    BY <1>4 DEF ListMembers
  <2>3. todo'[e] = Listed(S)
    BY <1>0, <2>2 DEF TypeOK
  <2>4. ASSUME NEW c \in Members PROVE c \in Listed(S)
    BY <1>0, <2>2, <2>4 DEF Members, Found, Listed, TypeOK
  <2>5. before[e] \cap Members \subseteq Pending(e)'
    BY <2>3, <2>4 DEF Pending
  <2>6. S = {} => todo'[e] = {}
    BY <2>3 DEF Listed
  <2>7. Remaining(e)'
    BY <1>0, <1>1, <2>1, <2>2, <2>5, <2>6 DEF Remaining, TypeOK
  <2> QED
    BY <1>1, <2>1, <2>7
<1>5. CASE Leave(e)
  <2>1. Calm /\ before' = before
    BY <1>0, <1>5, QuietCalm DEF Leave
  <2>2. pc[e] = "leave" /\ pc'[e] = "checkLeft"
    BY <1>0, <1>5 DEF Leave, TypeOK
  <2>3. Pending(e) \subseteq Pending(e)'
    BY <1>0, <1>5, <2>2 DEF Leave, Pending, TypeOK
  <2> QED
    BY <1>0, <1>1, <2>1, <2>2, <2>3 DEF Remaining
<1>6. CASE Terminate(e)
  <2> DEFINE v == victim[e]
  <2>1. before' = before /\ pc[e] = "terminate" /\ pc'[e] = "checkFinal"
        /\ todo' = todo
    BY <1>0, <1>6 DEF Terminate, TypeOK
  <2>2. CASE v \in Instances /\ v.server \in running /\ id[v.server] = v.id
    <3>1. Stop(v.server) /\ v.server \in Servers
      BY <1>6, <2>2 DEF Terminate, Instances
    <3>2. Calm
      BY <1>0, <3>1, StopCalm
    <3>3. v \notin Members'
      BY <2>2, <3>1, Membership DEF Stop, Members
    <3> QED
      BY <1>0, <1>1, <2>1, <3>2, <3>3 DEF Remaining, Pending
  <2>3. CASE ~(v.server \in running /\ id[v.server] = v.id)
    <3>1. UNCHANGED consulVars
      BY <1>6, <2>3 DEF Terminate
    <3>2. Calm
      BY <1>0, <3>1, QuietCalm
    <3>3. v \notin before[e] \cap Members
      BY <1>0, <2>3, Membership DEF TypeOK
    <3> QED
      BY <1>0, <1>1, <2>1, <3>2, <3>3 DEF Remaining, Pending
  <2>4. CASE v \notin Instances /\ v.server \in running /\ id[v.server] = v.id
    <3>1. Stop(v.server) /\ v.server \in Servers
      BY <1>0, <1>6, <2>4 DEF Terminate, TypeOK
    <3>2. Calm
      BY <1>0, <3>1, StopCalm
    <3>3. v \notin before[e]
      BY <1>0, <2>4 DEF TypeOK
    <3> QED
      BY <1>0, <1>1, <2>1, <3>2, <3>3 DEF Remaining, Pending
  <2> QED
    BY <2>2, <2>3, <2>4
<1>7. CASE Complete(e)
  <2>1. Calm /\ before' = before
    BY <1>0, <1>7, QuietCalm DEF Complete, End
  <2>2. pc[e] = "end" /\ todo'[e] = {}
    BY <1>0, <1>7 DEF Complete, End, TypeOK
  <2>3. before[e] \cap Members = {}
    BY <1>0, <2>2 DEF Remaining, Pending
  <2> QED
    BY <1>1, <2>1, <2>2, <2>3 DEF Remaining
<1>8. CASE Abort(e)
  <2>1. Calm
    BY <1>0, <1>8, QuietCalm DEF Abort, End
  <2>2. before'[e] = {} /\ pc'[e] = "failed"
    BY <1>0, <1>8 DEF Abort, End, TypeOK
  <2> QED
    BY <2>1, <2>2 DEF Past, Remaining
<1> QED
  BY <1>2, <1>3, <1>4, <1>5, <1>6, <1>7, <1>8 DEF Flow

LEMMA BeginKeeps ==
    ASSUME NoneOldInv, TypeOK', NEW e \in Executions, Begin(e)
    PROVE  /\ Calm
           /\ (Past(e) /\ Remaining(e))'
<1>1. TypeOK
  BY DEF NoneOldInv
<1>2. Calm /\ UNCHANGED <<id, raft>>
  BY <1>1, QuietCalm DEF Begin, consulVars
<1>3. before'[e] = Members /\ pc'[e] = "check"
  BY <1>1 DEF Begin, Goto, TypeOK
<1>4. Past(e)'
  <2> SUFFICES ASSUME NEW c \in Members
      PROVE c.id <= id[c.server] /\ (c.id = id[c.server] => raft[c.server] # "new")
    BY <1>2, <1>3 DEF Past
  <2> QED
    BY <1>1 DEF Members, TypeOK
<1> QED
  BY <1>2, <1>3, <1>4 DEF Remaining, HasList

LEMMA OthersUntouched ==
    ASSUME TypeOK, NEW e \in Executions, Begin(e) \/ Flow(e),
           NEW f \in Executions \ {e}
    PROVE  /\ before'[f] = before[f] /\ pc'[f] = pc[f]
           /\ todo'[f] = todo[f] /\ victim'[f] = victim[f]
<1> USE DEF TypeOK, Goto, Undisturbed
<1>1. CASE Begin(e)
  BY <1>1 DEF Begin
<1>2. CASE CheckPasses(e) \/ ReadLeader(e) \/ ListMembers(e)
  BY <1>2 DEF CheckPasses, ReadLeader, ListMembers
<1>3. CASE Leave(e) \/ Terminate(e)
  BY <1>3 DEF Leave, Terminate
<1>4. CASE Complete(e) \/ Abort(e)
  BY <1>4 DEF Complete, Abort, End
<1> QED
  BY <1>1, <1>2, <1>3, <1>4 DEF Flow

LEMMA StepNoneOld == NoneOldInv /\ [Next]_vars => NoneOldInv'
<1> SUFFICES ASSUME NoneOldInv, [Next]_vars PROVE NoneOldInv'
  OBVIOUS
<1>1. TypeOK /\ TypeOK'
  BY StepTypes DEF NoneOldInv
<1>2. CASE Environment /\ UNCHANGED flowVars
  BY <1>1, <1>2, EnvironmentCalm, Kept DEF NoneOldInv, flowVars
<1>3. ASSUME NEW e \in Executions, Begin(e) \/ Flow(e) PROVE NoneOldInv'
  <2>1. Calm /\ (Past(e) /\ Remaining(e))'
    BY <1>1, <1>3, BeginKeeps, FlowKeeps
  <2>2. ASSUME NEW f \in Executions \ {e} PROVE (Past(f) /\ Remaining(f))'
    BY <1>1, <1>3, <2>1, OthersUntouched, Kept
  <2> QED
    BY <1>1, <2>1, <2>2 DEF NoneOldInv
<1>4. CASE UNCHANGED vars
  <2>1. Calm
    BY <1>1, <1>4, QuietCalm DEF vars, consulVars
  <2> QED
    BY <1>1, <1>4, <2>1, Kept DEF NoneOldInv, vars, flowVars
<1> QED
  BY <1>2, <1>3, <1>4 DEF Next

(* No member from before an execution still runs when that execution       *)
(* reports that it has completed, whatever else happened meanwhile: other  *)
(* executions, crashes, late commands (consul_recycle_state_machine.tf     *)
(* 58-66, 143-157).                                                        *)
THEOREM NoneOld == Spec => []CompletedLeavesNoneOld
<1>1. NoneOldInv => CompletedLeavesNoneOld
  BY DEF NoneOldInv, Remaining, HasList, Pending, CompletedLeavesNoneOld
<1> QED
  BY <1>1, InitNoneOld, StepNoneOld, PTL DEF Spec
=============================================================================
