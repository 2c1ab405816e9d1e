-------------------------- MODULE ConsulRoundProofs --------------------------
(***************************************************************************)
(* The rounds of the Consul recycle, for any number of servers and of      *)
(* executions one after the other, each of which may fail anywhere: one    *)
(* server at a time leaves, is terminated and comes back, the leader last. *)
(***************************************************************************)
EXTENDS ConsulRecycleProofs, FiniteSetTheorems

(* No server crashed, and no execution began before another had ended.     *)
Apart == disturbed \cap {"crash", "overlap"} = {}

StoppedHasLeft == \A s \in Servers \ running : raft[s] = "left"

OneFlows == \A e, f \in Executions : pc[e] \in Flowing /\ pc[f] \in Flowing => e = f

(* What an execution that was given up may leave behind: one server that   *)
(* is out, or one command that may yet take one out.                       *)
Outstanding ==
    /\ \A s, t \in Out : s = t
    /\ ordered # {} => Out = {} /\ \A c, d \in ordered : c = d

(* Where each check leaves the control plane, and what happens until the   *)
(* next one.                                                               *)
Round(e) ==
    /\ pc[e] \in Flowing \ {"checkLeft"} => ordered = {}
    /\ pc[e] \in {"leader", "list", "leave", "end"} => Out = {}
    /\ pc[e] \in {"checkLeft", "terminate"} =>
          running = Servers /\ \A s \in Servers : raft[s] # "new"
    /\ pc[e] = "checkLeft" =>
          Out \subseteq {victim[e].server} /\ ordered \subseteq {victim[e]}
    /\ pc[e] = "terminate" => Out = {victim[e].server}
    /\ pc[e] = "checkFinal" => Out \subseteq {victim[e].server}

Rounds ==
    /\ dead = {} /\ StoppedHasLeft /\ OneFlows /\ Outstanding
    /\ \A e \in Executions : Round(e)

RoundsInv == Apart => Rounds
-----------------------------------------------------------------------------
(* Counting the peers: as many as servers means that none is out, one less *)
(* that some server is.                                                    *)
LEMMA PeersTell ==
    ASSUME dead = {}
    PROVE  /\ PeerCount = Cardinality(Servers) => Out = {}
           /\ PeerCount = Cardinality(Servers) - 1 => Out # {}
<1>1. IsFiniteSet(Servers) /\ Peers \subseteq Servers
  BY ConsulAssumption DEF Peers
<1>2. /\ Cardinality(Peers) \in Nat /\ Cardinality(Servers) \in Nat
      /\ Cardinality(Peers) = Cardinality(Servers) => Peers = Servers
  BY <1>1, FS_Subset, FS_CardinalityType
<1>3. PeerCount = Cardinality(Peers)
  BY <1>2, FS_EmptySet DEF PeerCount
<1>4. Out = {} <=> Peers = Servers
  BY DEF Out, Peers
<1> QED
  BY <1>2, <1>3, <1>4

LEMMA DisturbedGrows ==
    ASSUME [Next]_vars
    PROVE  disturbed \subseteq disturbed'
<1>1. CASE Environment
  BY <1>1 DEF Environment, RunLeave, Launch, Join, CleanUp, Elect, Crash, QuorumLost,
              NewElection, Disturb
<1>2. ASSUME NEW e \in Executions, Begin(e) PROVE disturbed \subseteq disturbed'
  BY <1>2 DEF Begin, Disturb
<1>3. ASSUME NEW e \in Executions, Flow(e) PROVE disturbed' = disturbed
  BY <1>3 DEF Flow, CheckPasses, ReadLeader, ListMembers, Leave, Terminate, Complete,
              Abort, End, Undisturbed
<1> QED
  BY <1>1, <1>2, <1>3 DEF Next, vars

LEMMA EnvironmentRounds ==
    ASSUME TypeOK, Rounds, Environment, UNCHANGED flowVars, Apart'
    PROVE  Rounds'
<1> USE DEF TypeOK, flowVars
<1>1. OneFlows'
  BY DEF Rounds, OneFlows
<1>2. ASSUME UNCHANGED <<running, raft, dead, ordered>> PROVE Rounds'
  BY <1>1, <1>2 DEF Rounds, StoppedHasLeft, Outstanding, Round, Out
<1>3. ASSUME NEW c \in ordered, RunLeave(c) PROVE Rounds'
  <2>1. /\ running' = running /\ dead' = dead /\ ordered' = {} /\ Out = {}
        /\ raft' = raft \/ raft' = [raft EXCEPT ![c.server] = "left"]
        /\ c.server \in Servers
    BY <1>3 DEF RunLeave, Rounds, Outstanding, Instances
  <2>2. Out' \subseteq {c.server} /\ StoppedHasLeft'
    BY <2>1 DEF Out, Rounds, StoppedHasLeft
  <2>3. ASSUME NEW e \in Executions PROVE Round(e)'
    BY <2>1, <2>2, <1>3 DEF Rounds, Round, Flowing, Checking
  <2> QED
    BY <1>1, <2>1, <2>2, <2>3 DEF Rounds, Outstanding
<1>4. ASSUME NEW s \in Servers, Launch(s) PROVE Rounds'
  <2>1. raft[s] = "left" /\ raft' = [raft EXCEPT ![s] = "new"]
    BY <1>4 DEF Launch, Rounds, StoppedHasLeft
  <2>2. Out' = Out /\ StoppedHasLeft'
    BY <1>4, <2>1 DEF Launch, Out, Rounds, StoppedHasLeft
  <2>3. ASSUME NEW e \in Executions PROVE Round(e)'
    BY <1>4, <2>2 DEF Launch, Rounds, Round
  <2> QED
    BY <1>1, <1>4, <2>2, <2>3 DEF Launch, Rounds, Outstanding
<1>5. ASSUME NEW s \in Servers, Join(s) PROVE Rounds'
  <2>1. Out' = Out \ {s} /\ StoppedHasLeft'
    BY <1>5 DEF Join, Out, Rounds, StoppedHasLeft
  <2>2. ASSUME NEW e \in Executions PROVE Round(e)'
    BY <1>5, <2>1 DEF Join, Rounds, Round
  <2> QED
    BY <1>1, <1>5, <2>1, <2>2 DEF Join, Rounds, Outstanding
<1>6. ASSUME NEW s \in Servers, CleanUp(s) \/ Elect(s) \/ Crash(s) PROVE Rounds'
  <2>1. ~CleanUp(s) /\ ~Crash(s)
    BY DEF CleanUp, Rounds, Crash, Disturb, Apart
  <2> QED
    BY <1>2, <1>6, <2>1 DEF Elect
<1>7. CASE QuorumLost \/ NewElection
  BY <1>2, <1>7 DEF QuorumLost, NewElection
<1> QED
  BY <1>3, <1>4, <1>5, <1>6, <1>7 DEF Environment

(* An execution that begins apart finds no other one at work.              *)
LEMMA BeginRounds ==
    ASSUME TypeOK, Rounds, NEW e \in Executions, Begin(e), Apart'
    PROVE  Rounds'
<1>1. ordered = {} /\ \A f \in Executions : pc[f] \notin Flowing
  BY DEF Begin, Disturb, Apart
<1>2. UNCHANGED <<running, raft, dead, ordered, victim>> /\ Out' = Out
  BY DEF Begin, consulVars, Out
<1>3. pc' = [pc EXCEPT ![e] = "check"] /\ pc[e] = "idle"
  BY DEF Begin, Goto
<1>4. pc'[e] = "check" /\ \A f \in Executions \ {e} : pc'[f] = pc[f]
  BY <1>3 DEF TypeOK
<1>5. OneFlows'
  BY <1>1, <1>4 DEF OneFlows
<1>6. ASSUME NEW f \in Executions PROVE Round(f)'
  <2>1. CASE f = e
    BY <1>1, <1>2, <1>4, <2>1 DEF Round
  <2>2. CASE f # e
    BY <1>1, <1>2, <1>4, <2>2 DEF Round, Rounds, Flowing, Checking
  <2> QED
    BY <2>1, <2>2
<1> QED
  BY <1>2, <1>5, <1>6 DEF Rounds, StoppedHasLeft, Outstanding

(* The steps of the execution that flows; all others are idle or ended.    *)
LEMMA FlowRounds ==
    ASSUME TypeOK, Rounds, NEW e \in Executions, Flow(e)
    PROVE  Rounds'
<1> USE DEF TypeOK, Goto, Flowing, Checking
<1>1. pc[e] \in Flowing /\ Round(e) /\ StoppedHasLeft /\ Outstanding /\ dead = {}
  BY DEF Flow, CheckPasses, ReadLeader, ListMembers, Leave, Terminate, Complete, Abort,
         Rounds
<1>2. \A f \in Executions \ {e} :
          pc'[f] = pc[f] /\ victim'[f] = victim[f] /\ pc[f] \notin Flowing
  BY <1>1, OthersUntouched DEF Rounds, OneFlows
<1>3. OneFlows'
  BY <1>2 DEF OneFlows
<1>4. ASSUME NEW f \in Executions \ {e} PROVE Round(f)'
  BY <1>2 DEF Round
<1>5. ASSUME UNCHANGED <<running, raft, dead, ordered>>, Round(e)' PROVE Rounds'
  BY <1>1, <1>3, <1>4, <1>5 DEF Rounds, StoppedHasLeft, Outstanding, Out
<1>6. CASE CheckPasses(e)
  <2>1. /\ UNCHANGED <<running, raft, dead, ordered>> /\ Out' = Out
        /\ PeerCount = Expected(e)
    BY <1>6 DEF CheckPasses, Undisturbed, consulVars, Out, Healthy
  <2>2. Cardinality(Servers) \in Nat
    BY ConsulAssumption, FS_CardinalityType
  <2>3. CASE Goto(e, "check", "leader")
    <3>1. Out = {}
      BY <1>1, <2>1, <2>2, <2>3, PeersTell DEF Expected
    <3> QED
      BY <1>1, <1>5, <2>1, <2>3, <3>1 DEF Round
  <2>4. CASE Goto(e, "checkLeft", "terminate") /\ UNCHANGED victim
    <3>1. Out # {}
      BY <1>1, <2>1, <2>2, <2>4, PeersTell DEF Expected
    <3>2. Out = {victim[e].server} /\ ordered = {}
      BY <1>1, <2>4, <3>1 DEF Round, Outstanding
    <3> QED
      BY <1>1, <1>5, <2>1, <2>4, <3>2 DEF Round
  <2>5. CASE Goto(e, "checkFinal", IF todo[e] = {} THEN "end" ELSE "leave")
    <3>1. Out = {}
      BY <1>1, <2>1, <2>2, <2>5, PeersTell DEF Expected
    <3> QED
      BY <1>1, <1>5, <2>1, <2>5, <3>1 DEF Round
  <2> QED
    BY <1>6, <2>3, <2>4, <2>5 DEF CheckPasses
<1>7. CASE ReadLeader(e) \/ ListMembers(e)
  <2>1. /\ UNCHANGED <<running, raft, dead, ordered>> /\ Out' = Out
        /\ pc[e] \in {"leader", "list"} /\ pc'[e] \in {"list", "end", "leave"}
    BY <1>7 DEF ReadLeader, ListMembers, Undisturbed, consulVars, Out
  <2> QED
    BY <1>1, <1>5, <2>1 DEF Round
<1>8. CASE Leave(e)
  <2>1. PICK v \in NextVictims(e) :
            /\ victim' = [victim EXCEPT ![e] = v]
            /\ ordered' = IF v.server \in running /\ id[v.server] = v.id
                          THEN ordered \cup {v} ELSE ordered
    BY <1>8 DEF Leave
  <2>2. /\ pc[e] = "leave" /\ pc'[e] = "checkLeft" /\ victim'[e] = v
        /\ UNCHANGED <<running, raft, dead>> /\ Out' = Out
    BY <1>8, <2>1 DEF Leave, Out
  <2>3. Out = {} /\ ordered = {}
    BY <1>1, <2>2 DEF Round
  <2>4. ordered' \subseteq {v}
    BY <2>1, <2>3
  <2>5. running = Servers /\ \A s \in Servers : raft[s] # "new"
    BY <1>1, <2>3 DEF StoppedHasLeft, Out
  <2>6. Round(e)'
    BY <2>2, <2>3, <2>4, <2>5 DEF Round
  <2> QED
    BY <1>1, <1>3, <1>4, <2>2, <2>3, <2>4, <2>6 DEF Rounds, StoppedHasLeft, Outstanding
<1>9. CASE Terminate(e)
  <2> DEFINE s == victim[e].server
  <2>1. /\ pc[e] = "terminate" /\ pc'[e] = "checkFinal" /\ victim' = victim
        /\ ordered = {} /\ ordered' = {} /\ Out = {s} /\ running = Servers
        /\ raft[s] = "left"
    BY <1>1, <1>9 DEF Terminate, Round, Stop, consulVars, Out
  <2>2. Out' = {s} /\ dead' = {} /\ StoppedHasLeft'
    BY <1>1, <1>9, <2>1 DEF Terminate, Stop, consulVars, Out, StoppedHasLeft
  <2>3. Round(e)'
    BY <2>1, <2>2 DEF Round
  <2> QED
    BY <1>3, <1>4, <2>1, <2>2, <2>3 DEF Rounds, Outstanding
<1>10. CASE Complete(e) \/ Abort(e)
  <2>1. /\ UNCHANGED <<running, raft, dead, ordered>> /\ Out' = Out
        /\ \/ pc'[e] = "failed"
           \/ pc'[e] = "completed" /\ pc[e] = "end"
    BY <1>10 DEF Complete, Abort, End, consulVars, Out
  <2> QED
    BY <1>1, <1>5, <2>1 DEF Round
<1> QED
  BY <1>6, <1>7, <1>8, <1>9, <1>10 DEF Flow

LEMMA RoundsInvariant == Spec => []RoundsInv
<1>1. Init => RoundsInv
  BY DEF Init, RoundsInv, Rounds, StoppedHasLeft, OneFlows, Outstanding, Round, Out,
         Flowing, Checking
<1>2. TypeOK /\ RoundsInv /\ [Next]_vars => RoundsInv'
  <2> SUFFICES ASSUME TypeOK, RoundsInv, [Next]_vars, Apart' PROVE Rounds'
    BY DEF RoundsInv
  <2>1. Rounds
    BY DisturbedGrows DEF RoundsInv, Apart
  <2>2. CASE UNCHANGED vars
    BY <2>1, <2>2 DEF vars, consulVars, flowVars, Rounds, StoppedHasLeft, OneFlows,
                      Outstanding, Round, Out
  <2> QED
    BY <2>1, <2>2, EnvironmentRounds, BeginRounds, FlowRounds DEF Next
<1> QED
  BY <1>1, <1>2, TypeCorrect, PTL DEF Spec

(* Never are two servers out of the control plane together, over any       *)
(* number of executions one after the other, each of which may be given up *)
(* anywhere: the peers are counted before anything leaves, after it has    *)
(* left and once its successor is due (consul_recycle_state_machine.tf     *)
(* 32-47, 94-138).                                                         *)
THEOREM OneServerOut == Spec => []OneServerAtATime
<1>1. RoundsInv => OneServerAtATime
  BY DEF RoundsInv, Rounds, Outstanding, OneServerAtATime, Apart
<1> QED
  BY <1>1, RoundsInvariant, PTL

(* Whichever execution completes, a first one or one begun after others    *)
(* were given up anywhere, at that moment all servers are members: what    *)
(* those left behind was set right before its first check passed           *)
(* (consul_recycle_state_machine.tf 58-66, 126-157).                       *)
THEOREM WholeWhenCompleted == Spec => CompletedMeansWhole
<1>1. TypeOK /\ RoundsInv /\ [Next]_vars =>
          [\A e \in Executions : pc[e] = "end" /\ pc'[e] = "completed" =>
              disturbed' \cap {"crash", "overlap"} # {} \/ Out' = {}]_vars
  <2> SUFFICES ASSUME TypeOK, RoundsInv, Next, NEW e \in Executions, Apart',
                      pc[e] = "end", pc'[e] = "completed"
               PROVE  Out' = {}
    BY DEF Apart
  <2>1. Out = {}
    BY DisturbedGrows DEF RoundsInv, Apart, Rounds, Round
  <2>2. PICK f \in Executions : Begin(f) \/ Flow(f)
    BY DEF Next, flowVars
  <2>3. f = e
    BY <2>2, OthersUntouched
  <2>4. Complete(e)
    BY <2>2, <2>3 DEF TypeOK, Begin, Flow, CheckPasses, ReadLeader, ListMembers, Leave,
                      Terminate, Abort, End, Goto, Checking
  <2> QED
    BY <2>1, <2>4 DEF Complete, End, consulVars, Out
<1> QED
  BY <1>1, TypeCorrect, RoundsInvariant, PTL DEF Spec, CompletedMeansWhole

(* An instance is terminated only once it has left, although a leave that  *)
(* fails is only echoed (consul_recycle_state_machine.tf 82, 94-110).      *)
THEOREM LeftBeforeTermination == Spec => LeavesBeforeItDies
<1>1. TypeOK /\ RoundsInv /\ [Next]_vars =>
          [\A s \in running \ running' :
              raft[s] = "left" \/ disturbed' \cap {"crash", "overlap"} # {}]_vars
  <2> SUFFICES ASSUME TypeOK, RoundsInv, Next, NEW s \in running \ running', Apart'
               PROVE  raft[s] = "left"
    BY DEF Apart
  <2>1. Rounds
    BY DisturbedGrows DEF RoundsInv, Apart
  <2>2. ~Environment
    BY DEF Environment, RunLeave, Launch, Join, CleanUp, Elect, Crash, QuorumLost,
           NewElection, Disturb, Apart
  <2>3. PICK e \in Executions : Terminate(e)
    BY <2>2 DEF Next, Begin, Flow, CheckPasses, ReadLeader, ListMembers, Leave, Complete,
                Abort, End, Undisturbed, consulVars
  <2>4. s = victim[e].server /\ pc[e] = "terminate"
    BY <2>3 DEF Terminate, Goto, Stop, consulVars
  <2>5. s \in Out /\ s \in Servers /\ raft[s] # "new"
    BY <2>1, <2>4 DEF Rounds, Round, Out
  <2> QED
    BY <2>5 DEF Out, TypeOK
<1> QED
  BY <1>1, TypeCorrect, RoundsInvariant, PTL DEF Spec, LeavesBeforeItDies
-----------------------------------------------------------------------------
(* The leader, as long as nothing disturbs the executions.  The control    *)
(* plane keeps its leader while one of its original members remains, and   *)
(* that leader is one of them; what an execution read of the leader stays  *)
(* true as long; and the list still holds every original member that is    *)
(* not out.  So the leader's turn comes when no other one remains.         *)

Original(s) == id[s] = 0 /\ raft[s] = "peer"

OriginalLeads == (\E s \in Servers : Original(s)) => leader # None /\ id[leader] = 0

LeavesLast ==
    \A c \in ordered : c.server = leader => \A s \in Servers \ {leader} : id[s] > 0

Listing(e) ==
    /\ pc[e] \in {"list", "leave", "checkLeft", "terminate", "checkFinal"} =>
          (leader # None /\ id[leader] = 0 => last[e] = leader)
    /\ pc[e] \in {"leave", "checkLeft", "terminate", "checkFinal"} =>
          \A s \in Servers : Original(s) =>
              \/ \E c \in todo[e] : c.server = s
              \/ pc[e] = "checkLeft" /\ victim[e].server = s

Leading ==
    /\ leader # None => raft[leader] = "peer"
    /\ \A s \in Servers : raft[s] = "new" => id[s] > 0
    /\ OriginalLeads /\ LeavesLast
    /\ \A e \in Executions : Listing(e)

LeaderInv == disturbed = {} => Leading

(* A leader that is a peer is a quorum's, when no peer is dead.            *)
LEMMA LeaderHasQuorum ==
    ASSUME TypeOK, dead = {}, leader # None, raft[leader] = "peer"
    PROVE  Quorum
<1>1. leader \in Peers
  BY DEF TypeOK, Peers
<1>2. IsFiniteSet(Peers)
  BY ConsulAssumption, FS_Subset DEF Peers
<1>3. Cardinality(Peers) \in Nat /\ Cardinality(Peers) # 0 /\ Cardinality(dead) = 0
  BY <1>1, <1>2, FS_CardinalityType, FS_EmptySet
<1> QED
  BY <1>3 DEF Quorum, PeerCount

(* A leader that takes over finds no original member.                      *)
LEMMA EnvironmentLeading ==
    ASSUME TypeOK, Rounds, Leading, Environment, UNCHANGED flowVars, disturbed' = {}
    PROVE  Leading'
<1> USE ConsulAssumption DEF TypeOK, flowVars
<1>1. ASSUME NEW c \in ordered, RunLeave(c) PROVE Leading'
  <2> DEFINE s == c.server
  <2>1. /\ ordered' = {} /\ UNCHANGED <<running, id>> /\ s \in Servers /\ Out = {}
        /\ \/ UNCHANGED <<raft, leader>>
           \/ /\ raft' = [raft EXCEPT ![s] = "left"]
              /\ leader # None
              /\ leader' = IF leader = s THEN None ELSE leader
    BY <1>1 DEF RunLeave, Without, Rounds, Outstanding, Instances
  <2>2. \A t \in Servers : Original(t)' => Original(t)
    BY <2>1 DEF Original
  <2>3. leader' # None => leader' = leader /\ raft'[leader] = "peer"
    BY <2>1 DEF Leading
  <2>4. OriginalLeads'
    <3>1. CASE leader' = leader
      BY <2>1, <2>2, <3>1 DEF Leading, OriginalLeads
    <3>2. CASE leader' # leader
      <4>1. s = leader /\ raft'[leader] # "peer"
        BY <2>1, <3>2
      <4>2. \A t \in Servers \ {leader} : id[t] > 0
        BY <4>1 DEF Leading, LeavesLast
      <4>3. \A t \in Servers : ~Original(t)'
        BY <2>1, <4>1, <4>2 DEF Original
      <4> QED
        BY <4>3 DEF OriginalLeads
    <3> QED
      BY <3>1, <3>2
  <2>5. \A e \in Executions : Listing(e)'
    BY <2>1, <2>2, <2>3 DEF Leading, Listing
  <2> QED
    BY <2>1, <2>3, <2>4, <2>5 DEF Leading, LeavesLast
<1>2. ASSUME NEW s \in Servers, Launch(s) \/ Join(s) PROVE Leading'
  <2>1. /\ leader' = leader /\ ordered' = ordered
        /\ raft[s] \in {"left", "new"} /\ \A t \in Servers \ {s} : raft'[t] = raft[t]
        /\ \A t \in Servers : id'[t] \in Nat /\ id[t] <= id'[t]
    BY <1>2 DEF Launch, Join, Rounds, StoppedHasLeft
  <2>2. id'[s] > 0 /\ \A t \in Servers \ {s} : id'[t] = id[t]
    BY <1>2 DEF Launch, Join, Leading
  <2>3. \A t \in Servers : Original(t)' => Original(t)
    BY <2>1, <2>2 DEF Original
  <2>4. leader # None => leader # s /\ leader \in Servers
    BY <2>1 DEF Leading
  <2>5. (leader' # None => raft'[leader'] = "peer") /\ OriginalLeads'
    BY <2>1, <2>2, <2>3, <2>4 DEF Leading, OriginalLeads
  <2>6. \A t \in Servers : raft'[t] = "new" => id'[t] > 0
    BY <2>1, <2>2 DEF Leading
  <2>7. LeavesLast'
    BY <2>1, <2>2 DEF Leading, LeavesLast
  <2>8. \A e \in Executions : Listing(e)'
    BY <2>1, <2>2, <2>3, <2>4 DEF Leading, Listing
  <2> QED
    BY <2>5, <2>6, <2>7, <2>8 DEF Leading
<1>3. ASSUME NEW s \in Servers, Elect(s) PROVE Leading'
  <2>1. /\ leader = None /\ leader' = s /\ raft[s] = "peer"
        /\ UNCHANGED <<running, id, raft, ordered>>
    BY <1>3 DEF Elect, Peers
  <2>2. \A t \in Servers : ~Original(t)
    BY <2>1 DEF Leading, OriginalLeads
  <2>3. OriginalLeads' /\ \A e \in Executions : Listing(e)'
    BY <2>1, <2>2 DEF Original, OriginalLeads, Listing
  <2>4. LeavesLast'
    <3> SUFFICES ASSUME ordered # {}, NEW t \in Servers PROVE id[t] > 0
      BY <2>1 DEF LeavesLast
    <3>1. raft[t] = "peer"
      BY DEF Rounds, Outstanding, Out
    <3> QED
      BY <2>2, <3>1 DEF Original
  <2> QED
    BY <2>1, <2>3, <2>4 DEF Leading
<1>4. ASSUME NEW s \in Servers, CleanUp(s) \/ Crash(s) PROVE FALSE
  BY <1>4 DEF CleanUp, Rounds, Crash, Disturb
<1>5. ~QuorumLost /\ ~NewElection
  BY LeaderHasQuorum DEF QuorumLost, NewElection, Disturb, Rounds, Leading
<1> QED
  BY <1>1, <1>2, <1>3, <1>4, <1>5 DEF Environment

(* When its turn comes, every other server is a new one.                   *)
LEMMA LeaderInTurn ==
    ASSUME TypeOK, Rounds, Leading, NEW e \in Executions, pc[e] = "leave",
           NEW v \in NextVictims(e), v.server = leader
    PROVE  \A s \in Servers \ {leader} : id[s] > 0
<1> USE DEF TypeOK
<1> SUFFICES ASSUME NEW s \in Servers \ {leader}, id[s] = 0 PROVE FALSE
  OBVIOUS
<1>1. Out = {} /\ v.server \in Servers
  BY DEF Rounds, Round, Flowing, Checking, NextVictims, Instances
<1>2. Original(s)
  BY <1>1 DEF Out, Original
<1>3. leader # None /\ id[leader] = 0 /\ last[e] = leader
  BY <1>2 DEF Leading, OriginalLeads, Listing
<1>4. \A c \in todo[e] : c.server = leader
  BY <1>3 DEF NextVictims
<1> QED
  BY <1>2, <1>4 DEF Leading, Listing

LEMMA FlowLeading ==
    ASSUME TypeOK, Rounds, Leading, NEW e \in Executions, Flow(e), Rounds'
    PROVE  Leading'
<1> USE DEF TypeOK, Goto
<1>1. \A f \in Executions \ {e} :
          pc'[f] = pc[f] /\ victim'[f] = victim[f] /\ todo'[f] = todo[f]
  BY OthersUntouched
<1>2. \A f \in Executions \ {e} : last'[f] = last[f]
  BY DEF Flow, CheckPasses, ReadLeader, ListMembers, Leave, Terminate, Complete, Abort, End
<1>3. ASSUME UNCHANGED <<id, leader>>,
             \A s \in Servers : raft'[s] = "peer" <=> raft[s] = "peer",
             \A s \in Servers : raft'[s] = "new" => raft[s] = "new",
             LeavesLast', Listing(e)'
      PROVE  Leading'
  <2>1. \A s \in Servers : Original(s)' <=> Original(s)
    BY <1>3 DEF Original
  <2>2. \A f \in Executions \ {e} : Listing(f)'
    BY <1>1, <1>2, <1>3, <2>1 DEF Leading, Listing
  <2>3. leader # None => leader \in Servers
    OBVIOUS
  <2> QED
    BY <1>3, <2>1, <2>2, <2>3 DEF Leading, OriginalLeads
<1>4. CASE UNCHANGED <<id, leader, raft, ordered>>
  <2>1. LeavesLast' /\ \A s \in Servers : Original(s)' <=> Original(s)
    BY <1>4 DEF Leading, LeavesLast, Original
  <2>2. Listing(e)
    BY DEF Leading
  <2>3. CASE CheckPasses(e)
    <3>1. UNCHANGED <<todo, last>>
      BY <2>3 DEF CheckPasses
    <3>2. CASE Goto(e, "checkLeft", "terminate")
      <4>1. raft[victim'[e].server] # "peer"
        BY <2>3, <3>2, <1>4 DEF CheckPasses, Rounds, Round, Out
      <4>2. victim' = victim
        BY <2>3, <3>2 DEF CheckPasses
      <4>3. Listing(e)'
        BY <1>4, <2>2, <3>1, <3>2, <4>1, <4>2 DEF Listing, Original
      <4> QED
        BY <1>3, <1>4, <2>1, <4>3
    <3>3. CASE Goto(e, "check", "leader")
      BY <1>3, <1>4, <2>1, <3>3 DEF Listing
    <3>4. CASE Goto(e, "checkFinal", IF todo[e] = {} THEN "end" ELSE "leave")
      <4>1. Listing(e)'
        BY <1>4, <2>1, <2>2, <3>1, <3>4 DEF Listing
      <4> QED
        BY <1>3, <1>4, <2>1, <4>1
    <3> QED
      BY <2>3, <3>2, <3>3, <3>4 DEF CheckPasses
  <2>4. CASE ReadLeader(e)
    <3>1. Listing(e)'
      BY <1>4, <2>4 DEF ReadLeader, Listing
    <3> QED
      BY <1>3, <1>4, <2>1, <3>1
  <2>5. CASE ListMembers(e)
    <3>1. PICK S \in Found : todo' = [todo EXCEPT ![e] = Listed(S)]
                             /\ Goto(e, "list", IF S = {} THEN "end" ELSE "leave")
      BY <2>5 DEF ListMembers
    <3>2. S = Servers
      BY <3>1 DEF Rounds, Round, Out, StoppedHasLeft, Found
    <3>3. \A s \in Servers : \E c \in todo'[e] : c.server = s
      <4>1. todo'[e] = {[server |-> s, id |-> id[s]] : s \in Servers}
        BY <3>1, <3>2 DEF Listed
      <4> SUFFICES ASSUME NEW s \in Servers PROVE \E c \in todo'[e] : c.server = s
        OBVIOUS
      <4>2. [server |-> s, id |-> id[s]] \in todo'[e]
        BY <4>1
      <4> QED
        BY <4>2
    <3>4. Listing(e)'
      BY <1>4, <2>2, <2>5, <3>1, <3>3 DEF Listing, ListMembers
    <3> QED
      BY <1>3, <1>4, <2>1, <3>4
  <2>6. CASE Leave(e)
    <3>1. Listing(e)'
      BY <1>4, <2>1, <2>2, <2>6 DEF Leave, Listing
    <3> QED
      BY <1>3, <1>4, <2>1, <3>1
  <2>7. CASE Terminate(e)
    <3>1. Listing(e)'
      BY <1>4, <2>1, <2>2, <2>7 DEF Terminate, Listing
    <3> QED
      BY <1>3, <1>4, <2>1, <3>1
  <2>8. CASE Complete(e) \/ Abort(e)
    <3>1. pc'[e] \in Ended
      BY <2>8 DEF Complete, Abort, End, Ended
    <3>2. Listing(e)'
      BY <3>1 DEF Listing, Ended
    <3> QED
      BY <1>3, <1>4, <2>1, <3>2
  <2> QED
    BY <2>3, <2>4, <2>5, <2>6, <2>7, <2>8 DEF Flow
<1>5. CASE Leave(e) /\ ordered' # ordered
  <2>1. PICK v \in NextVictims(e) :
            /\ victim' = [victim EXCEPT ![e] = v]
            /\ todo' = [todo EXCEPT ![e] = @ \ {v}]
            /\ ordered' = IF v.server \in running /\ id[v.server] = v.id
                          THEN ordered \cup {v} ELSE ordered
    BY <1>5 DEF Leave
  <2>2. UNCHANGED <<id, leader, raft, last>> /\ pc[e] = "leave" /\ pc'[e] = "checkLeft"
    BY <1>5 DEF Leave
  <2>3. ordered' = {v}
    BY <1>5, <2>1, <2>2 DEF Rounds, Round, Flowing, Checking
  <2>4. LeavesLast'
    BY <2>2, <2>3, LeaderInTurn DEF LeavesLast
  <2>5. Listing(e)'
    BY <2>1, <2>2 DEF Leading, Listing, Original
  <2> QED
    BY <1>3, <2>2, <2>4, <2>5
<1>6. CASE Terminate(e) /\ ~UNCHANGED <<id, leader, raft, ordered>>
  <2> DEFINE s == victim[e].server
  <2>1. s \in Out /\ Stop(s) /\ UNCHANGED <<todo, last>>
        /\ pc[e] = "terminate" /\ pc'[e] = "checkFinal"
    BY <1>6 DEF Terminate, consulVars, Rounds, Round
  <2>2. s \in Servers /\ raft[s] # "peer" /\ leader # s
    BY <2>1, ConsulAssumption DEF Out, Leading, TypeOK
  <2>3. UNCHANGED <<id, leader, ordered>> /\ raft' = [raft EXCEPT ![s] = "left"]
    BY <2>1, <2>2 DEF Stop, Without
  <2>4. \A t \in Servers : raft'[t] = "peer" <=> raft[t] = "peer"
    BY <2>2, <2>3
  <2>5. \A t \in Servers : raft'[t] = "new" => raft[t] = "new"
    BY <2>2, <2>3
  <2>6. LeavesLast' /\ Listing(e)'
    BY <2>1, <2>3, <2>4 DEF Leading, LeavesLast, Listing, Original
  <2> QED
    BY <1>3, <2>3, <2>4, <2>5, <2>6
<1> QED
  <2>1. UNCHANGED <<id, leader, raft, ordered>> \/ Leave(e) \/ Terminate(e)
    BY DEF Flow, CheckPasses, ReadLeader, ListMembers, Complete, Abort, End, Undisturbed,
           consulVars
  <2>2. Leave(e) => UNCHANGED <<id, leader, raft>>
    BY DEF Leave
  <2> QED
    BY <1>4, <1>5, <1>6, <2>1, <2>2

LEMMA LeaderInvariant == Spec => []LeaderInv
<1>1. Init => LeaderInv
  BY ConsulAssumption
  DEF Init, LeaderInv, Leading, Original, OriginalLeads, LeavesLast, Listing
<1>2. TypeOK /\ RoundsInv /\ RoundsInv' /\ LeaderInv /\ [Next]_vars => LeaderInv'
  <2> SUFFICES ASSUME TypeOK, RoundsInv, RoundsInv', LeaderInv, [Next]_vars,
                      disturbed' = {}
               PROVE  Leading'
    BY DEF LeaderInv
  <2>1. Rounds /\ Rounds' /\ Leading
    BY DisturbedGrows DEF RoundsInv, LeaderInv, Apart
  <2>2. ASSUME NEW e \in Executions, Begin(e) PROVE Leading'
    <3>1. UNCHANGED <<consulVars, todo, last, victim>> /\ pc' = [pc EXCEPT ![e] = "check"]
      BY <2>2 DEF Begin, Goto
    <3> QED
      BY <2>1, <3>1 DEF consulVars, Leading, Listing, Original, OriginalLeads, LeavesLast,
                        TypeOK
  <2>3. CASE UNCHANGED vars
    BY <2>1, <2>3 DEF vars, consulVars, flowVars, Leading, Listing, Original,
                      OriginalLeads, LeavesLast
  <2> QED
    BY <2>1, <2>2, <2>3, EnvironmentLeading, FlowLeading DEF Next
<1> QED
  BY <1>1, <1>2, TypeCorrect, RoundsInvariant, PTL DEF Spec

(* While no server crashes, no election happens of its own accord and no   *)
(* two executions overlap, the control plane gives up a leader only when   *)
(* every other server is a new one: the list is ordered once, and the      *)
(* order holds to the end, and over executions that are given up and begun *)
(* again (get_consul_nodes/main.py 92-93).                                 *)
THEOREM LeaderGoesLast == Spec => LeaderLast
<1>1. TypeOK /\ RoundsInv /\ LeaderInv /\ [Next]_vars =>
          [leader # None /\ leader' # leader =>
              disturbed' # {} \/ \A s \in Servers \ {leader} : id[s] > 0]_vars
  <2> SUFFICES ASSUME TypeOK, RoundsInv, LeaderInv, Next, leader # None,
                      leader' # leader, disturbed' = {}
               PROVE  \A s \in Servers \ {leader} : id[s] > 0
    OBVIOUS
  <2>1. Rounds /\ Leading
    BY DisturbedGrows DEF RoundsInv, LeaderInv, Apart
  <2>2. CASE Environment
    <3>1. PICK c \in ordered : RunLeave(c)
      BY <2>1, <2>2, LeaderHasQuorum
      DEF Environment, Launch, Join, CleanUp, Elect, Crash, QuorumLost, NewElection,
          Disturb, Rounds, Leading
    <3>2. c.server = leader
      BY <3>1 DEF RunLeave, Without
    <3> QED
      BY <2>1, <3>2 DEF Leading, LeavesLast
  <2>3. ASSUME NEW e \in Executions, Begin(e) \/ Flow(e) PROVE FALSE
    <3>1. Terminate(e)
      BY <2>3 DEF Begin, Flow, CheckPasses, ReadLeader, ListMembers, Leave, Complete,
                  Abort, End, Undisturbed, consulVars
    <3>2. victim[e].server \in Out /\ leader = victim[e].server
      BY <2>1, <3>1 DEF Terminate, Goto, Stop, Without, consulVars, Rounds, Round
    <3> QED
      BY <2>1, <3>2 DEF Leading, Out
  <2> QED
    BY <2>2, <2>3 DEF Next
<1> QED
  BY <1>1, TypeCorrect, RoundsInvariant, LeaderInvariant, PTL DEF Spec, LeaderLast
=============================================================================
