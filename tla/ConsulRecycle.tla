--------------------------- MODULE ConsulRecycle ---------------------------
(***************************************************************************)
(* The state machine "recycle_consul_agents" of                            *)
(* terraform/consul_recycle_state_machine.tf and its three Lambdas: the    *)
(* servers of a Consul control plane leave it and are terminated one at a  *)
(* time, the leader last.                                                  *)
(*                                                                         *)
(* Consul, EC2 and SSM are external: they are modelled from the requests   *)
(* the Lambdas make and the replies they distinguish.  A server is a place *)
(* in the auto scaling group; the instance that fills it comes and goes.   *)
(***************************************************************************)
EXTENDS Naturals, FiniteSets

CONSTANTS
    Servers,        \* the control plane (five servers, says the code)
    Executions,     \* executions of the state machine
    MaxDisturbed,   \* how many kinds of disturbance may happen, once each
    None

ASSUME ConsulAssumption ==
    /\ IsFiniteSet(Servers)
    /\ MaxDisturbed \in Nat
    /\ None \notin Servers

VARIABLES
    running,    \* the servers whose instance runs
    id,         \* which instance fills the server, counted from 0
    raft,       \* "peer"; "left", also once it is gone; "new": not yet joined
    dead,       \* servers with a former instance that died as a peer
    leader,
    ordered,    \* leave commands SSM has accepted and not run
    disturbed,  \* what went wrong that is not one execution's doing (history)
    \* of each execution:
    pc,
    todo,       \* instances of the list not yet recycled
    last,       \* the leader when the list was made
    victim,     \* the instance of this round
    before      \* the members when the execution began (history)

consulVars == <<running, id, raft, dead, leader, ordered>>
flowVars == <<pc, todo, last, victim, before>>
vars == <<consulVars, disturbed, flowVars>>

Instances == [server : Servers, id : Nat]
Checking == {"check", "checkLeft", "checkFinal"}
Flowing == {"leader", "list", "leave", "terminate", "end"} \cup Checking
Ended == {"completed", "failed"}

TypeOK ==
    /\ running \subseteq Servers
    /\ id \in [Servers -> Nat]
    /\ raft \in [Servers -> {"peer", "left", "new"}]
    /\ dead \subseteq Servers
    /\ leader \in Servers \cup {None}
    /\ ordered \subseteq Instances
    /\ disturbed \subseteq {"crash", "election", "overlap"}
    /\ pc \in [Executions -> Flowing \cup {"idle"} \cup Ended]
    /\ todo \in [Executions -> SUBSET Instances]
    /\ last \in [Executions -> Servers \cup {None}]
    /\ victim \in [Executions -> Instances \cup {None}]
    /\ before \in [Executions -> SUBSET Instances]

Init ==
    /\ running = Servers
    /\ id = [s \in Servers |-> 0]
    /\ raft = [s \in Servers |-> "peer"]
    /\ dead = {}
    /\ leader \in Servers
    /\ ordered = {}
    /\ disturbed = {}
    /\ pc = [e \in Executions |-> "idle"]
    /\ todo = [e \in Executions |-> {}]
    /\ last = [e \in Executions |-> None]
    /\ victim = [e \in Executions |-> None]
    /\ before = [e \in Executions |-> {}]
-----------------------------------------------------------------------------
(* Consul, EC2 and SSM.                                                    *)

Peers == {s \in Servers : raft[s] = "peer"}

Members == {[server |-> s, id |-> id[s]] : s \in {t \in running : raft[t] # "new"}}

(* What /v1/status/peers counts: a peer that died is one until it is       *)
(* cleaned up.                                                             *)
PeerCount == Cardinality(Peers) + Cardinality(dead)

Quorum == 2 * Cardinality(Peers) > PeerCount

Without(s) == leader' = IF leader = s THEN None ELSE leader

(* The instance of s stops, whether or not it had left before.             *)
Stop(s) ==
    /\ running' = running \ {s}
    /\ raft' = [raft EXCEPT ![s] = "left"]
    /\ dead' = IF raft[s] = "peer" THEN dead \cup {s} ELSE dead
    /\ Without(s)
    /\ UNCHANGED <<id, ordered>>

(* The instance runs the leave command it was sent, at any later time; a   *)
(* command that fails has no effect and no one is told.                    *)
RunLeave(c) ==
    /\ c \in ordered
    /\ ordered' = ordered \ {c}
    /\ \/ /\ c.server \in running /\ id[c.server] = c.id
          /\ raft[c.server] = "peer" /\ leader # None
          /\ raft' = [raft EXCEPT ![c.server] = "left"]
          /\ Without(c.server)
       \/ UNCHANGED <<raft, leader>>
    /\ UNCHANGED <<running, id, dead, disturbed>>

Launch(s) ==
    /\ s \notin running
    /\ running' = running \cup {s}
    /\ id' = [id EXCEPT ![s] = @ + 1]
    /\ raft' = [raft EXCEPT ![s] = "new"]
    /\ UNCHANGED <<dead, leader, ordered, disturbed>>

Join(s) ==
    /\ raft[s] = "new" /\ leader # None
    /\ raft' = [raft EXCEPT ![s] = "peer"]
    /\ UNCHANGED <<running, id, dead, leader, ordered, disturbed>>

CleanUp(s) ==
    /\ s \in dead /\ leader # None
    /\ dead' = dead \ {s}
    /\ UNCHANGED <<running, id, raft, leader, ordered, disturbed>>

Elect(s) ==
    /\ leader = None /\ s \in Peers /\ Quorum
    /\ leader' = s
    /\ UNCHANGED <<running, id, raft, dead, ordered, disturbed>>

QuorumLost ==
    /\ leader # None /\ ~Quorum
    /\ leader' = None
    /\ UNCHANGED <<running, id, raft, dead, ordered, disturbed>>

(* Disturbances are bounded: each kind at most once.                       *)
Disturb(kind) ==
    /\ kind \notin disturbed
    /\ Cardinality(disturbed) < MaxDisturbed
    /\ disturbed' = disturbed \cup {kind}

Crash(s) == s \in Peers /\ Stop(s) /\ Disturb("crash")

NewElection ==
    /\ leader # None
    /\ leader' = None
    /\ Disturb("election")
    /\ UNCHANGED <<running, id, raft, dead, ordered>>

Environment ==
    \/ \E c \in ordered : RunLeave(c)
    \/ \E s \in Servers :
          Launch(s) \/ Join(s) \/ CleanUp(s) \/ Elect(s) \/ Crash(s)
    \/ QuorumLost \/ NewElection
-----------------------------------------------------------------------------
(* The state machine.                                                      *)

Goto(e, from, to) == pc[e] = from /\ pc' = [pc EXCEPT ![e] = to]

Undisturbed == UNCHANGED <<consulVars, disturbed, before>>

(* Started by hand: possibly while another execution works on the same     *)
(* control plane, or a command of one that failed is still to run.         *)
Begin(e) ==
    /\ Goto(e, "idle", "check")
    /\ IF ordered # {} \/ \E f \in Executions : pc[f] \in Flowing
       THEN Disturb("overlap") ELSE UNCHANGED disturbed
    /\ before' = [before EXCEPT ![e] = Members]
    /\ UNCHANGED <<consulVars, todo, last, victim>>

Expected(e) == Cardinality(Servers) - (IF pc[e] = "checkLeft" THEN 1 ELSE 0)

(* Mutant: any number of peers up to the expected one will do.             *)
Healthy_AtMost(e) == leader # None /\ PeerCount <= Expected(e)

(* Mutant: one peer may be missing.                                        *)
Healthy_Tolerant(e) == leader # None /\ PeerCount + 1 >= Expected(e)

(* The leader and the peers are two requests, looked at as one: a leader   *)
(* that is lost between them is as good as one lost after the check.       *)
Healthy(e) == leader # None /\ PeerCount = Expected(e)

(* After the check that ends a round comes the next instance, if any.  A   *)
(* check that fails is made again and changes nothing; the last time the   *)
(* execution is given up (Abort).                                          *)
CheckPasses(e) ==
    /\ pc[e] \in Checking /\ Healthy(e)
    /\ \/ Goto(e, "check", "leader") /\ UNCHANGED victim
       \/ Goto(e, "checkLeft", "terminate") /\ UNCHANGED victim
       \/ /\ Goto(e, "checkFinal", IF todo[e] = {} THEN "end" ELSE "leave")
          /\ victim' = [victim EXCEPT ![e] = None]
    /\ UNCHANGED <<todo, last>> /\ Undisturbed

ReadLeader(e) ==
    /\ Goto(e, "leader", "list")
    /\ last' = [last EXCEPT ![e] = leader]
    /\ UNCHANGED <<todo, victim>> /\ Undisturbed

(* Every member known to gossip has an address; instances are looked up by *)
(* it.  One that is terminating may still have its address, a new one may  *)
(* not be known yet.  Of EC2 it is assumed that it finds every running     *)
(* instance of a member by that address; a member it does not find is      *)
(* dropped without a word.                                                 *)
Found ==
    {S \in SUBSET Servers : \A s \in Servers :
        s \in running /\ raft[s] # "new" => s \in S}

(* Mutant: members whose instance is not found are listed too.             *)
Listed_All(S) ==
    {[server |-> s, id |-> IF s \in S THEN id[s] ELSE None] : s \in Servers}

(* Mutant: the leader is left out of the list.                             *)
Listed_Followers(S) == {[server |-> s, id |-> id[s]] : s \in S \ {leader}}

Listed(S) == {[server |-> s, id |-> id[s]] : s \in S}

ListMembers(e) ==
    /\ \E S \in Found :
          /\ todo' = [todo EXCEPT ![e] = Listed(S)]
          /\ Goto(e, "list", IF S = {} THEN "end" ELSE "leave")
    /\ UNCHANGED <<last, victim>> /\ Undisturbed

(* Mutant: the leader is not put last.                                     *)
NextVictims_AnyOrder(e) == todo[e]

(* The order of the list: arbitrary, with the leader at the end.           *)
NextVictims(e) ==
    LET others == {v \in todo[e] : v.server # last[e]}
    IN IF others # {} THEN others ELSE todo[e]

(* SSM accepts the command for an instance that runs; for another one it   *)
(* raises or accepts in vain.                                              *)
Leave(e) ==
    /\ Goto(e, "leave", "checkLeft")
    /\ \E v \in NextVictims(e) :
          /\ victim' = [victim EXCEPT ![e] = v]
          /\ todo' = [todo EXCEPT ![e] = @ \ {v}]
          /\ ordered' = IF v.server \in running /\ id[v.server] = v.id
                        THEN ordered \cup {v} ELSE ordered
    /\ UNCHANGED <<running, id, raft, dead, leader, disturbed, last, before>>

(* TerminateInstances by id: in vain for an instance that is gone.         *)
Terminate(e) ==
    /\ Goto(e, "terminate", "checkFinal")
    /\ LET v == victim[e]
       IN IF v.server \in running /\ id[v.server] = v.id
          THEN Stop(v.server) ELSE UNCHANGED consulVars
    /\ UNCHANGED <<disturbed, todo, last, victim, before>>

End(e, how) ==
    /\ pc' = [pc EXCEPT ![e] = how]
    /\ todo' = [todo EXCEPT ![e] = {}]
    /\ last' = [last EXCEPT ![e] = None]
    /\ victim' = [victim EXCEPT ![e] = None]
    /\ UNCHANGED <<consulVars, disturbed>>

Complete(e) == pc[e] = "end" /\ End(e, "completed") /\ UNCHANGED before

(* Any task may fail, a check for the last time, a notification too: the   *)
(* whole execution is given up, wherever it is.                            *)
Abort(e) ==
    /\ pc[e] \in Flowing
    /\ End(e, "failed")
    /\ before' = [before EXCEPT ![e] = {}]

Flow(e) ==
    \/ CheckPasses(e) \/ ReadLeader(e) \/ ListMembers(e)
    \/ Leave(e) \/ Terminate(e) \/ Complete(e) \/ Abort(e)

Next ==
    \/ Environment /\ UNCHANGED flowVars
    \/ \E e \in Executions : Begin(e) \/ Flow(e)

Spec == Init /\ [][Next]_vars
-----------------------------------------------------------------------------
(* Properties.                                                             *)

Out == {s \in Servers : raft[s] # "peer"}

(* No two servers are out of the control plane at the same time, over any  *)
(* number of executions one after the other, each of which may fail        *)
(* anywhere and leave a server behind (consul_recycle_state_machine.tf     *)
(* 32-47, 94-138).                                                         *)
OneServerAtATime ==
    disturbed \cap {"crash", "overlap"} = {} =>
        \A s, t \in Out : s = t

(* An instance is terminated only once it has left, although a leave that  *)
(* fails is only echoed (consul_recycle_state_machine.tf 82, 94-110).      *)
LeavesBeforeItDies ==
    [][\A s \in running \ running' :
          raft[s] = "left" \/ disturbed' \cap {"crash", "overlap"} # {}]_vars

(* The first execution costs the control plane one leader, when all other  *)
(* servers are new: the list is ordered once, and the order holds to the   *)
(* end (get_consul_nodes/main.py 92-93).                                   *)
LeaderLast ==
    [][leader # None /\ leader' # leader =>
          disturbed' # {} \/ \A s \in Servers \ {leader} : id[s] > 0]_vars

(* Whatever else happened, no member from before an execution still runs   *)
(* when that execution reports that it has completed                       *)
(* (consul_recycle_state_machine.tf 58-66, 143-157).                       *)
CompletedLeavesNoneOld ==
    \A e \in Executions : pc[e] = "completed" => before[e] \cap Members = {}

(* Whichever execution completes, a first one or one begun after others    *)
(* were given up anywhere, at that moment the control plane is whole       *)
(* (consul_recycle_state_machine.tf 58-66, 126-157).                       *)
CompletedMeansWhole ==
    [][\A e \in Executions : pc[e] = "end" /\ pc'[e] = "completed" =>
          disturbed' \cap {"crash", "overlap"} # {} \/ Out' = {}]_vars
=============================================================================
