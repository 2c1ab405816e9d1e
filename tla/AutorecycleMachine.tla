------------------------- MODULE AutorecycleMachine -------------------------
(***************************************************************************)
(* The state machine "autorecycle" of terraform/state_machine.tf with the  *)
(* strategies "out-in" (the default: the Lambdas autorecycle and           *)
(* monitor_autorecycle) and "instance-refresh", for the executions that    *)
(* InvokeStepFunctions starts.  The strategies "in-out" and "mongo" are    *)
(* modelled by ScaleAsg and MongoRecycler.                                 *)
(*                                                                         *)
(* External: the consumer of the recycle queue, Auto Scaling, the Lambdas  *)
(* of instance refresh, and Slack, whose failures change nothing.  A wait, *)
(* and an attempt of a task that is retried, take no step of their own.    *)
(***************************************************************************)
EXTENDS InvokeStepFunctions, Sequences

CONSTANTS
    Size,           \* instances of the group
    Looks,          \* how often an execution looks whether it is done (20)
    MaxRecords,     \* scaling activities that are read (20)
    MaxDisturbed    \* bound: how often an instance is lost, or a launch comes
                    \*   late after the one before

ASSUME MachineAssumption ==
    /\ Strategies \subseteq {"out-in", "instance-refresh"}
    /\ None \notin Executions
    /\ Size \in Nat \ {0} /\ Looks \in Nat /\ MaxRecords \in Nat
    /\ MaxDisturbed \in Nat

VARIABLES
    group,      \* the instances to stay, in the order of their launch
    leaving,    \* number of instances that are terminating
    desired,    \* desired capacity; 0, a maximum size of 0, from the start
    burst,      \* launches within two minutes of each other share a burst
    disturbed,  \* how often what is bounded has happened
    queue,      \* executions whose message waits for the consumer
    work,       \* the execution whose message the consumer works on, or None
    first,      \* of each execution: the burst of its recycling (history)
    refresh,    \* of each execution: the state of the refresh it started
    latest,     \* the execution that started the last refresh, or None
    goal,       \* the version the last refresh brings
    \* of each execution:
    pc,
    status,     \* the field "status" of its data, or "none"
    counter     \* the field "counter" of its data

groupVars == <<group, leaving, desired, burst, disturbed>>
queueVars == <<queue, work, first>>
refreshVars == <<refresh, latest, goal>>
flowVars == <<pc, status, counter>>
vars == <<invokeVars, groupVars, queueVars, refreshVars, flowVars>>

Instances == [version : Nat, burst : Nat, later : 0 .. MaxRecords,
              serves : BOOLEAN]
Active == {"Pending", "InProgress", "Cancelling"}
Ended == {"succeeded", "failed", "died"}
Tasks == {"queue", "monitor", "status", "cancel", "startRefresh"}

TypeOK ==
    /\ InvokeTypeOK
    /\ group \in Seq(Instances)
    /\ leaving \in Nat
    /\ desired \in {0, Size, 2 * Size}
    /\ burst \in Nat
    /\ disturbed \in 0 .. MaxDisturbed
    /\ queue \subseteq Executions
    /\ work \in Executions \cup {None}
    /\ first \in [Executions -> Nat]
    /\ refresh \in [Executions ->
          Active \cup {"none", "declined", "Cancelled", "Successful", "Failed"}]
    /\ latest \in Executions \cup {None}
    /\ goal \in Nat
    /\ pc \in [Executions -> Tasks \cup {"start", "progress", "end"} \cup Ended]
    /\ status \in [Executions -> {"none", "success", "failure", "failed", "fail"}]
    /\ counter \in [Executions -> 0 .. Looks + 1]

Init ==
    /\ InvokeInit
    /\ desired \in {0, Size}
    /\ group = [i \in 1 .. desired |->
          [version |-> 0, burst |-> 0, later |-> 0, serves |-> TRUE]]
    /\ leaving = 0
    /\ burst = 0 /\ disturbed = 0
    /\ queue = {} /\ work = None
    /\ first = [e \in Executions |-> 0]
    /\ refresh = [e \in Executions |-> "none"]
    /\ latest = None /\ goal = 0
    /\ pc = [e \in Executions |-> "start"]
    /\ status = [e \in Executions |-> "none"]
    /\ counter = [e \in Executions |-> 0]
-----------------------------------------------------------------------------
(* Auto Scaling.                                                           *)

Whole == Len(group) = desired /\ \A i \in DOMAIN group : group[i].serves

(* n more activities follow the launches of these instances.               *)
Aged(g, n) ==
    [i \in DOMAIN g |-> [g[i] EXCEPT
        !.later = IF @ + n > MaxRecords THEN MaxRecords ELSE @ + n]]

Terminate(n, rest) ==
    /\ group' = Aged(rest, n)
    /\ leaving' = leaving + n

Without(i) == SubSeq(group, 1, i - 1) \o SubSeq(group, i + 1, Len(group))

Disturb == disturbed < MaxDisturbed /\ disturbed' = disturbed + 1

Launch ==
    /\ Len(group) < desired
    /\ \/ UNCHANGED <<burst, disturbed>>
       \/ burst' = burst + 1 /\ Disturb
    /\ group' = Append(Aged(group, 1),
          [version |-> version, burst |-> burst', later |-> 0, serves |-> FALSE])
    /\ UNCHANGED <<leaving, desired, queueVars, refreshVars>>

(* In the order of the launches.                                           *)
Serve(i) ==
    /\ ~group[i].serves /\ \A j \in 1 .. i - 1 : group[j].serves
    /\ group' = [group EXCEPT ![i].serves = TRUE]
    /\ UNCHANGED <<leaving, desired, burst, disturbed, queueVars, refreshVars>>

Gone ==
    /\ leaving > 0
    /\ leaving' = leaving - 1
    /\ UNCHANGED <<group, desired, burst, disturbed, queueVars, refreshVars>>

(* What replaces a single instance comes two minutes or more after it.     *)
ReplaceOne(i) ==
    /\ Terminate(1, Without(i))
    /\ burst' = burst + 1
    /\ UNCHANGED <<desired, queueVars, refreshVars>>

Lose(i) == ReplaceOne(i) /\ Disturb

(* The consumer of the queue doubles the group, two minutes or more after  *)
(* anything was launched, and when all serve takes the older half away.    *)
Take(e) ==
    /\ work = None /\ e \in queue /\ desired = Size
    /\ work' = e
    /\ queue' = queue \ {e}
    /\ first' = IF pc[e] = "monitor" THEN [first EXCEPT ![e] = burst + 1] ELSE first
    /\ desired' = 2 * Size
    /\ burst' = burst + 1
    /\ UNCHANGED <<group, leaving, disturbed, refreshVars>>

TakeAway ==
    /\ work # None /\ Whole
    /\ work' = None
    /\ desired' = Size
    /\ Terminate(Size, SubSeq(group, Size + 1, 2 * Size))
    /\ UNCHANGED <<burst, disturbed, queue, first, refreshVars>>

RefreshStep(from, to) ==
    /\ latest # None /\ refresh[latest] = from
    /\ refresh' = [refresh EXCEPT ![latest] = to]
    /\ UNCHANGED <<groupVars, queueVars, latest, goal>>

RefreshEnds ==
    \/ RefreshStep("Pending", "InProgress")
    \/ RefreshStep("InProgress", "Failed")
    \/ RefreshStep("Cancelling", "Cancelled")
    \/ /\ Whole /\ \A i \in DOMAIN group : group[i].version >= goal
       /\ RefreshStep("InProgress", "Successful")

RefreshReplaces(i) ==
    /\ latest # None /\ refresh[latest] = "InProgress"
    /\ Whole /\ group[i].version < goal
    /\ ReplaceOne(i) /\ UNCHANGED disturbed

AutoScaling ==
    \/ RefreshEnds \/ Launch \/ Gone \/ TakeAway
    \/ \E i \in DOMAIN group : Serve(i) \/ Lose(i) \/ RefreshReplaces(i)
    \/ \E e \in Executions : Take(e)
-----------------------------------------------------------------------------
(* The executions.  Goto: e moves on, and its data get this status.        *)

Goto(e, from, to, newStatus) ==
    /\ pc[e] = from
    /\ pc' = [pc EXCEPT ![e] = to]
    /\ status' = [status EXCEPT ![e] = newStatus]

Flowing == UNCHANGED <<groupVars, queueVars, refreshVars>>

ChooseStrategy(e) ==
    /\ input[e] # None
    /\ Goto(e, "start", IF input[e] = "instance-refresh" THEN "status" ELSE "queue",
            status[e])
    /\ Flowing /\ UNCHANGED counter

SendToQueue(e) ==
    /\ Goto(e, "queue", "monitor", "success")
    /\ queue' = queue \cup {e}
    /\ UNCHANGED <<groupVars, work, first, refreshVars, counter>>

(* The failure is announced, and the execution goes on as if the message   *)
(* had been sent; where it was, and only the answer is lost, all goes as   *)
(* after SendToQueue but for the status.                                   *)
SendFails(e) ==
    /\ Goto(e, "queue", "monitor", "failure")
    /\ Flowing /\ UNCHANGED counter

(* Mutant: fewer activities are read.                                      *)
Recorded_Fewer(i) == i.later < Size

(* The launch is among the activities read.                                *)
Recorded(i) == i.later < MaxRecords

(* Mutant: the times of the launches are not compared.                     *)
Recycled_AnyTime ==
    /\ group # <<>> /\ leaving = 0
    /\ \A i \in DOMAIN group : group[i].serves /\ Recorded(group[i])

(* Neither the version of the instances is looked at, nor their number.    *)
Recycled ==
    /\ group # <<>> /\ leaving = 0
    /\ \A i, j \in DOMAIN group :
          /\ group[i].serves /\ Recorded(group[i])
          /\ group[i].burst = group[j].burst

LooksDone == Recycled \/ desired = 0

Emptied == group = <<>> /\ leaving = 0

Look(e) == counter' = [counter EXCEPT ![e] = @ + 1]

MonitorDone(e) ==
    /\ counter[e] < Looks /\ LooksDone
    /\ Goto(e, "monitor", "end", status[e])
    /\ Look(e) /\ Flowing

(* Mutant: the last look may be followed by another one.                   *)
MonitorAgain_Unlimited(e) ==
    /\ ~LooksDone /\ ~Emptied
    /\ Goto(e, "monitor", "monitor", status[e])
    /\ Look(e) /\ Flowing

(* An empty group that is not scaled down is an error (LambdaError).       *)
MonitorAgain(e) ==
    /\ counter[e] < Looks /\ ~LooksDone /\ ~Emptied
    /\ Goto(e, "monitor", "monitor", status[e])
    /\ Look(e) /\ Flowing

TakesTooLong(e) ==
    /\ counter[e] >= Looks
    /\ Goto(e, "monitor", "end", "fail")
    /\ Look(e) /\ Flowing

(* What is known of the last refresh.                                      *)
Status == IF latest = None THEN "none" ELSE refresh[latest]

(* Mutant: after a refresh that was cancelled there is nothing to do.      *)
RefreshStatus_CancelledEnds(e) ==
    /\ \/ /\ Status \in {"Pending", "InProgress"}
          /\ Goto(e, "status", "cancel", status[e])
       \/ /\ Status \notin Active \cup {"Cancelled"}
          /\ Goto(e, "status", "startRefresh", "success")
       \/ /\ Status = "Cancelled"
          /\ Goto(e, "status", "succeeded", "none")
    /\ Flowing /\ UNCHANGED counter

(* A refresh that is being cancelled is waited for; one that has ended is  *)
(* treated as none at all.  Whether an active one was found before decides *)
(* only on the announcement of the start.                                  *)
RefreshStatus(e) ==
    /\ \/ /\ Status \in {"Pending", "InProgress"}
          /\ Goto(e, "status", "cancel", status[e])
       \/ /\ Status \notin Active
          /\ Goto(e, "status", "startRefresh", "success")
    /\ Flowing /\ UNCHANGED counter

(* Whichever refresh is active is cancelled, perhaps not the one seen.     *)
CancelRefresh(e) ==
    /\ Goto(e, "cancel", "status", status[e])
    /\ IF Status \in {"Pending", "InProgress"}
       THEN refresh' = [refresh EXCEPT ![latest] = "Cancelling"]
       ELSE UNCHANGED refresh
    /\ UNCHANGED <<groupVars, queueVars, latest, goal, counter>>

StartRefresh(e) ==
    /\ Status \notin Active
    /\ Goto(e, "startRefresh", "progress", status[e])
    /\ refresh' = [refresh EXCEPT ![e] = "Pending"]
    /\ latest' = e /\ goal' = version
    /\ UNCHANGED <<groupVars, queueVars, counter>>

(* No identifier is returned: the execution succeeds without a word.       *)
RefreshDeclined(e) ==
    /\ Goto(e, "startRefresh", "succeeded", "none")
    /\ refresh' = [refresh EXCEPT ![e] = "declined"]
    /\ UNCHANGED <<groupVars, queueVars, latest, goal, counter>>

RefreshProgress(e) ==
    /\ \/ /\ refresh[e] = "Successful"
          /\ Goto(e, "progress", "end", "success")
       \/ /\ refresh[e] = "Failed"
          /\ Goto(e, "progress", "end", "failed")
       \/ /\ refresh[e] = "Cancelled"
          /\ Goto(e, "progress", "succeeded", "none")
    /\ Flowing /\ UNCHANGED counter

(* A Lambda fails for good; if it did its work before, that is a step of   *)
(* its own, as if it had answered.                                         *)
LambdaError(e) ==
    /\ pc[e] \in Tasks
    /\ Goto(e, pc[e], "end", "fail")
    /\ Flowing /\ UNCHANGED counter

(* Where a progress check fails, the error replaces the data and the       *)
(* message cannot be made: the execution stops, and no one is told.        *)
LosesData(e) ==
    /\ Goto(e, "progress", "died", "none")
    /\ Flowing /\ UNCHANGED counter

(* What an execution that has ended leaves is not looked at any more.      *)
End(e) ==
    /\ Goto(e, "end", IF status[e] = "fail" THEN "failed" ELSE "succeeded", "none")
    /\ counter' = [counter EXCEPT ![e] = 0]
    /\ first' = [first EXCEPT ![e] = 0]
    /\ UNCHANGED <<groupVars, queue, work, refreshVars>>

Step(e) ==
    \/ ChooseStrategy(e) \/ End(e)
    \/ SendToQueue(e) \/ SendFails(e)
    \/ MonitorDone(e) \/ MonitorAgain(e) \/ TakesTooLong(e)
    \/ RefreshStatus(e) \/ CancelRefresh(e) \/ RefreshProgress(e)
    \/ StartRefresh(e) \/ RefreshDeclined(e) \/ LambdaError(e)

Next ==
    \/ InvokeNext /\ UNCHANGED <<groupVars, queueVars, refreshVars, flowVars>>
    \/ AutoScaling /\ UNCHANGED <<invokeVars, flowVars>>
    \/ \E e \in Executions : (Step(e) \/ LosesData(e)) /\ UNCHANGED invokeVars

Spec == Init /\ [][Next]_vars
-----------------------------------------------------------------------------
(* Properties.                                                             *)

(* Once a recycling of its own shows in the group, an execution reports it *)
(* as done only when no instance has an older version than the group had   *)
(* when the execution was started, although versions are not looked at     *)
(* (monitor_autorecycle/main.py 48-80).                                    *)
SuccessMeansCurrent ==
    [][\A e \in Executions :
          /\ pc[e] = "monitor" /\ pc'[e] = "end" /\ status'[e] # "fail"
          /\ first[e] > 0 /\ \E i \in DOMAIN group : group[i].burst >= first[e]
          => \A i \in DOMAIN group : group[i].version >= since[e]]_vars

(* What the comment and the message of the monitor say, that recycling is  *)
(* done: an execution whose message was sent reports success only when no  *)
(* instance is older than it.  A group at rest whose instances were        *)
(* launched together looks the same (monitor_autorecycle/main.py 48-80,    *)
(* 111-114).                                                               *)
ReportedMeansRecycled ==
    \A e \in Executions :
        input[e] = "out-in" /\ pc[e] = "end" /\ status[e] = "success" =>
            \A i \in DOMAIN group : group[i].version >= since[e]

(* When nothing is left to do and all instances serve and were launched    *)
(* together, the monitor sees it, whatever happened before: their launches *)
(* are among the activities it reads (monitor_autorecycle/main.py 49).     *)
RecognisedWhenDone ==
    (/\ work = None /\ Whole /\ leaving = 0
     /\ \A i, j \in DOMAIN group : group[i].burst = group[j].burst)
    => LooksDone

(* Executions that cancel each other's refresh forget no update: when one  *)
(* was started since the last update, and all have succeeded, none of them *)
(* for a refresh that failed or was declined, all instances have the last  *)
(* version (state_machine.tf 289-535).                                     *)
AllDoneMeansCurrent ==
    (/\ \E e \in Started : since[e] = version
     /\ \A e \in Started :
           /\ input[e] = "instance-refresh" /\ pc[e] = "succeeded"
           /\ refresh[e] \notin {"declined", "Failed"})
    => \A i \in DOMAIN group : group[i].version = version
=============================================================================
