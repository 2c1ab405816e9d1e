------------------------------ MODULE ScaleAsg ------------------------------
(***************************************************************************)
(* The "in-out" strategy of the autorecycler: the Lambda of                *)
(* src/src/autorecycle_scale_asg, called over and over by the loop         *)
(* "Recycle single instance ASG" of terraform/state_machine.tf.  Each      *)
(* round reads the groups of the component, then the last activity of each *)
(* group, and takes at most one step: one group is scaled in or out.       *)
(*                                                                         *)
(* The groups hold at most one instance each.  Auto Scaling is external;   *)
(* it is modelled from the replies the Lambda distinguishes.               *)
(***************************************************************************)
EXTENDS Naturals, FiniteSets

CONSTANTS
    NGroups,        \* groups of the component, in the order of every reply
    Executions,     \* executions of the state machine for this component
    StaleAtStart,   \* groups that may not run the current template version
    Versionless,    \* groups that name no version of the template (or $Latest)
    Rounds,         \* the state machine gives up after this many (20)
    MaxRetries,     \* retries of one invocation (8 in the state machine)
    MaxFailures,    \* bound on launches that fail
    Ageing          \* a run may last longer than the ten minutes of "recently"

Groups == 1..NGroups

(* The Lambda's own limit of 60 rounds is never reached.                   *)
ASSUME ScaleAsgAssumption ==
    /\ NGroups \in Nat \ {0}
    /\ StaleAtStart \subseteq Groups /\ Versionless \subseteq Groups
    /\ Rounds \in Nat /\ Rounds < 60 /\ MaxRetries \in Nat /\ MaxFailures \in Nat
    /\ Ageing \in BOOLEAN

VARIABLES
    desired,    \* desired capacity of each group
    life,       \* life cycle of the instance of each group
    outdated,   \* it runs (or, if there is none, ran) another template version
    activity,   \* the last scaling activity of each group
    recent,     \* that activity ended less than ten minutes ago
    failures,   \* launches that failed
    \* of each execution:
    pc,         \* where it is
    counter,    \* rounds so far
    asgs,       \* what the round's first reply shows of each group
    activities, \* the activities read in this round
    next,       \* the step the round has decided on
    reply,      \* the last reply of the Lambda
    retries     \* retries of this invocation so far

groupVars == <<desired, life, outdated, activity, recent, failures>>
lambdaVars == <<pc, counter, asgs, activities, next, reply, retries>>
vars == <<groupVars, lambdaVars>>

Lives == {"none", "pending", "serving", "terminating"}
Statuses == {"InProgress", "Successful", "Failed"}
Shown == {"empty", "current", "outdated"}
Read == [status : Statuses, recent : BOOLEAN]
Unread == [status |-> "unread", recent |-> FALSE]
Actions == [action : {"in", "out"}, group : Groups]
NoAction == [action |-> "none", group |-> 1]
Running == {"describe", "read", "act", "acted"}
Ended == {"Success", "Fail"}
Replies == [recycle_success : BOOLEAN, status : {"true", "fail"}]

TypeOK ==
    /\ desired \in [Groups -> 0..1]
    /\ life \in [Groups -> Lives]
    /\ outdated \in [Groups -> BOOLEAN]
    /\ activity \in [Groups -> Statuses]
    /\ recent \in [Groups -> BOOLEAN]
    /\ failures \in 0..MaxFailures
    /\ pc \in [Executions -> Running \cup {"wait"} \cup Ended]
    /\ counter \in [Executions -> 0..Rounds+1]
    /\ asgs \in [Executions -> [Groups -> Shown]]
    /\ activities \in [Executions -> [Groups -> Read \cup {Unread}]]
    /\ next \in [Executions -> Actions \cup {NoAction}]
    /\ reply \in [Executions -> Replies]
    /\ retries \in [Executions -> 0..MaxRetries]

NothingShown == [g \in Groups |-> "empty"]
NothingRead == [g \in Groups |-> Unread]

(* Every group serves; its last activity may have been a moment ago.       *)
Init ==
    /\ desired = [g \in Groups |-> 1]
    /\ life = [g \in Groups |-> "serving"]
    /\ outdated = [g \in Groups |-> g \in StaleAtStart]
    /\ activity = [g \in Groups |-> "Successful"]
    /\ recent \in [Groups -> BOOLEAN]
    /\ failures = 0
    /\ pc = [e \in Executions |-> "describe"]
    /\ counter = [e \in Executions |-> 0]
    /\ asgs = [e \in Executions |-> NothingShown]
    /\ activities = [e \in Executions |-> NothingRead]
    /\ next = [e \in Executions |-> NoAction]
    /\ reply = [e \in Executions |-> [recycle_success |-> FALSE, status |-> "true"]]
    /\ retries = [e \in Executions |-> 0]
-----------------------------------------------------------------------------
(* Auto Scaling.                                                           *)

BeginTerminate(g) ==
    /\ desired[g] = 0 /\ life[g] = "serving"
    /\ life' = [life EXCEPT ![g] = "terminating"]
    /\ activity' = [activity EXCEPT ![g] = "InProgress"]
    /\ recent' = [recent EXCEPT ![g] = FALSE]
    /\ UNCHANGED <<desired, outdated, failures>>

BeginLaunch(g) ==
    /\ desired[g] = 1 /\ life[g] = "none"
    /\ life' = [life EXCEPT ![g] = "pending"]
    /\ outdated' = [outdated EXCEPT ![g] = FALSE]
    /\ activity' = [activity EXCEPT ![g] = "InProgress"]
    /\ recent' = [recent EXCEPT ![g] = FALSE]
    /\ UNCHANGED <<desired, failures>>

EndActivity(g) ==
    /\ activity[g] = "InProgress"
    /\ life' = [life EXCEPT ![g] = IF @ = "pending" THEN "serving" ELSE "none"]
    /\ activity' = [activity EXCEPT ![g] = "Successful"]
    /\ recent' = [recent EXCEPT ![g] = TRUE]
    /\ UNCHANGED <<desired, outdated, failures>>

(* Auto Scaling tries again by itself while the capacity is wanted.        *)
LaunchFails(g) ==
    /\ life[g] = "pending" /\ failures < MaxFailures
    /\ life' = [life EXCEPT ![g] = "none"]
    /\ activity' = [activity EXCEPT ![g] = "Failed"]
    /\ recent' = [recent EXCEPT ![g] = TRUE]
    /\ failures' = failures + 1
    /\ UNCHANGED <<desired, outdated>>

(* Ten minutes pass: longer than an invocation (300 seconds at most).      *)
Age(g) ==
    /\ Ageing /\ recent[g]
    /\ \A e \in Executions : pc[e] \in {"wait"} \cup Ended
    /\ recent' = [recent EXCEPT ![g] = FALSE]
    /\ UNCHANGED <<desired, life, outdated, activity, failures>>

AutoScaling ==
    \E g \in Groups :
        BeginTerminate(g) \/ BeginLaunch(g) \/ EndActivity(g) \/ LaunchFails(g) \/ Age(g)
-----------------------------------------------------------------------------
(* One round.                                                              *)

Goto(e, from, to) == pc[e] = from /\ pc' = [pc EXCEPT ![e] = to]

(* What describe_auto_scaling_groups shows: an instance that is being      *)
(* launched or terminated is listed like any other.  An instance tells the *)
(* number of its version, which a group that names none never equals.      *)
Show(g) == IF life[g] = "none" THEN "empty"
           ELSE IF outdated[g] \/ g \in Versionless THEN "outdated" ELSE "current"

Describe(e) ==
    /\ Goto(e, "describe", "read")
    /\ asgs' = [asgs EXCEPT ![e] = [g \in Groups |-> Show(g)]]
    /\ activities' = [activities EXCEPT ![e] = NothingRead]
    /\ UNCHANGED <<groupVars, counter, next, reply, retries>>

(* One call per group, in order, each later than the reply above.          *)
ReadActivity(e) ==
    /\ pc[e] = "read"
    /\ \E g \in Groups :
          /\ \A h \in Groups : activities[e][h] = Unread <=> h >= g
          /\ activities' = [activities EXCEPT ![e][g] =
                [status |-> activity[g], recent |-> recent[g]]]
    /\ UNCHANGED <<groupVars, pc, counter, asgs, next, reply, retries>>

AllRead(e) == \A g \in Groups : activities[e][g] # Unread
InProgress(e) == \E g \in Groups : activities[e][g].status = "InProgress"
SomeFailed(e) == \E g \in Groups : activities[e][g].status = "Failed"

Empty(e) == {g \in Groups : asgs[e][g] = "empty"}

(* Mutant: an instance that was launched recently needs no check.          *)
ToScaleIn_OnlyAge(e) ==
    {g \in Groups \ Empty(e) : ~activities[e][g].recent}

(* An instance stays only if its version is current and the last activity  *)
(* of its group is recent.                                                 *)
ToScaleIn(e) ==
    {g \in Groups \ Empty(e) : asgs[e][g] = "outdated" \/ ~activities[e][g].recent}

Choice(action, S) == {[action |-> action, group |-> g] :
                          g \in {f \in S : \A h \in S : f <= h}}

(* Mutant: groups are scaled in before empty ones are scaled out.          *)
NextActions_InFirst(e) ==
    IF ToScaleIn(e) # {} THEN Choice("in", ToScaleIn(e)) ELSE Choice("out", Empty(e))

(* Mutant: empty groups are forgotten.                                     *)
NextActions_NoOut(e) == Choice("in", ToScaleIn(e))

(* An empty group is scaled out before another one is scaled in.           *)
NextActions(e) ==
    IF Empty(e) # {} THEN Choice("out", Empty(e)) ELSE Choice("in", ToScaleIn(e))

(* Mutant: the counter is not passed on.                                   *)
Reply_NoCount(e, success, status) ==
    /\ pc' = [pc EXCEPT ![e] = "wait"]
    /\ reply' = [reply EXCEPT ![e] = [recycle_success |-> success, status |-> status]]
    /\ asgs' = [asgs EXCEPT ![e] = NothingShown]
    /\ activities' = [activities EXCEPT ![e] = NothingRead]
    /\ next' = [next EXCEPT ![e] = NoAction]
    /\ UNCHANGED <<counter, retries>>

Reply(e, success, status) ==
    /\ pc' = [pc EXCEPT ![e] = "wait"]
    /\ counter' = [counter EXCEPT ![e] = @ + 1]
    /\ reply' = [reply EXCEPT ![e] = [recycle_success |-> success, status |-> status]]
    /\ asgs' = [asgs EXCEPT ![e] = NothingShown]
    /\ activities' = [activities EXCEPT ![e] = NothingRead]
    /\ next' = [next EXCEPT ![e] = NoAction]
    /\ UNCHANGED retries

(* Mutant: only the status of the activities is looked at.                 *)
Decide_IgnoreProgress(e) ==
    /\ pc[e] = "read" /\ AllRead(e)
    /\ UNCHANGED groupVars
    /\ \/ SomeFailed(e) /\ Reply(e, FALSE, "fail")
       \/ /\ ~SomeFailed(e)
          /\ \E a \in NextActions(e) : next' = [next EXCEPT ![e] = a]
          /\ pc' = [pc EXCEPT ![e] = "act"]
          /\ UNCHANGED <<counter, asgs, activities, reply, retries>>
       \/ ~SomeFailed(e) /\ NextActions(e) = {} /\ Reply(e, TRUE, "true")

(* Nothing is done while an activity is in progress, or after one failed.  *)
Decide(e) ==
    /\ pc[e] = "read" /\ AllRead(e)
    /\ UNCHANGED groupVars
    /\ \/ InProgress(e) /\ Reply(e, FALSE, "true")
       \/ ~InProgress(e) /\ SomeFailed(e) /\ Reply(e, FALSE, "fail")
       \/ /\ ~InProgress(e) /\ ~SomeFailed(e)
          /\ \E a \in NextActions(e) : next' = [next EXCEPT ![e] = a]
          /\ pc' = [pc EXCEPT ![e] = "act"]
          /\ UNCHANGED <<counter, asgs, activities, reply, retries>>
       \/ /\ ~InProgress(e) /\ ~SomeFailed(e) /\ NextActions(e) = {}
          /\ Reply(e, TRUE, "true")

(* Policies recycle-scale-in and recycle-scale-out of the group.           *)
Act(e) ==
    /\ Goto(e, "act", "acted")
    /\ desired' = [desired EXCEPT ![next[e].group] =
                      IF next[e].action = "in" THEN 0 ELSE 1]
    /\ UNCHANGED <<life, outdated, activity, recent, failures, counter, asgs,
                   activities, next, reply, retries>>

Answer(e) ==
    /\ pc[e] = "acted"
    /\ Reply(e, FALSE, "true")
    /\ UNCHANGED groupVars

(* A call that raises, or whose answer is lost, makes an ordinary reply.   *)
CallFails(e) ==
    /\ pc[e] \in Running
    /\ pc[e] = "read" => ~AllRead(e)
    /\ Reply(e, FALSE, "fail")
    /\ UNCHANGED groupVars
-----------------------------------------------------------------------------
(* The loop of the state machine.                                          *)

Leaves(e) == reply[e].recycle_success \/ counter[e] > Rounds

(* Mutant: the counter is not looked at.                                   *)
NextRound_Unbounded(e) ==
    /\ Goto(e, "wait", "describe")
    /\ ~reply[e].recycle_success
    /\ retries' = [retries EXCEPT ![e] = 0]
    /\ UNCHANGED <<groupVars, counter, asgs, activities, next, reply>>

NextRound(e) ==
    /\ Goto(e, "wait", "describe")
    /\ ~Leaves(e)
    /\ retries' = [retries EXCEPT ![e] = 0]
    /\ UNCHANGED <<groupVars, counter, asgs, activities, next, reply>>

(* Only the status "fail" fails the execution.                             *)
Leave(e) ==
    /\ Leaves(e)
    /\ Goto(e, "wait", IF reply[e].status = "fail" THEN "Fail" ELSE "Success")
    /\ UNCHANGED <<groupVars, counter, asgs, activities, next, reply, retries>>

(* What a round has read is lost with the invocation that read it.         *)
Forget(e) ==
    /\ asgs' = [asgs EXCEPT ![e] = NothingShown]
    /\ activities' = [activities EXCEPT ![e] = NothingRead]
    /\ next' = [next EXCEPT ![e] = NoAction]
    /\ UNCHANGED <<groupVars, counter, reply>>

(* The invocation is cut off: "Lambda Error".                              *)
Raise(e) ==
    /\ pc[e] \in Running
    /\ pc' = [pc EXCEPT ![e] = "Fail"]
    /\ Forget(e)
    /\ UNCHANGED retries

(* The Lambda service fails: the same round starts again.                  *)
Retry(e) ==
    /\ pc[e] \in Running /\ retries[e] < MaxRetries
    /\ pc' = [pc EXCEPT ![e] = "describe"]
    /\ retries' = [retries EXCEPT ![e] = @ + 1]
    /\ Forget(e)

Lambda(e) ==
    \/ Describe(e) \/ ReadActivity(e) \/ Decide(e) \/ Act(e) \/ Answer(e)
    \/ CallFails(e) \/ NextRound(e) \/ Leave(e) \/ Raise(e) \/ Retry(e)

Next ==
    \/ AutoScaling /\ UNCHANGED lambdaVars
    \/ \E e \in Executions : Lambda(e)

Spec == Init /\ [][Next]_vars

(* Step Functions and Lambda keep an execution going.  Nothing is assumed  *)
(* of Auto Scaling: an activity may stay in progress for ever.             *)
FairSpec == Spec /\ \A e \in Executions : WF_vars(Lambda(e))
-----------------------------------------------------------------------------
(* Properties.                                                             *)

Out(g) == life[g] # "serving"

(* Of groups that all have to be replaced, no two are out of service at    *)
(* the same time, whatever calls fail and however rounds and activities    *)
(* overlap, while no activity is older than ten minutes (autorecycle.py    *)
(* 56-66, handler.py 72-92).                                               *)
OneGroupAtATime == \A g, h \in Groups : Out(g) /\ Out(h) => g = h

(* Why: the groups are replaced in order.  A group is touched only when    *)
(* those before it are finished (InOrder), which stay so for ten minutes.  *)
(* For that, a group on the current version must never look ready to be    *)
(* scaled in, and one that is listed but not checked yet must still be     *)
(* what the round has seen (SeenIsTrue, ChosenIsTrue).                     *)
Finished(g) ==
    /\ ~outdated[g] /\ desired[g] = 1 /\ life[g] = "serving"
    /\ recent[g] /\ activity[g] = "Successful"

Started(g) == desired[g] = 0 \/ Out(g) \/ ~outdated[g]

InOrder == \A g, h \in Groups : g < h /\ Started(h) => Finished(g)

LifeCycle ==
    \A g \in Groups :
        /\ activity[g] = "InProgress" <=> life[g] \in {"pending", "terminating"}
        /\ outdated[g] => life[g] # "pending"
        /\ outdated[g] /\ life[g] = "terminating" => desired[g] = 0
        /\ ~outdated[g] => desired[g] = 1 /\ life[g] # "terminating"
        /\ ~outdated[g] /\ life[g] = "serving" => Finished(g)
        /\ ~outdated[g] /\ life[g] = "none" => activity[g] = "Failed"

Replaceable(g) == outdated[g] /\ (desired[g] = 0 \/ life[g] = "serving")
Vacant(g) == ~outdated[g] \/ life[g] = "none"

SeenIsTrue ==
    \A e \in Executions : pc[e] = "read" => \A g \in Groups :
        /\ asgs[e][g] = "empty" => Vacant(g)
        /\ asgs[e][g] = "outdated" => Replaceable(g)
        /\ asgs[e][g] = "current" => ~outdated[g]
        /\ asgs[e][g] = "current" /\ activities[e][g].status = "Successful" =>
              Finished(g) /\ activities[e][g].recent

ChosenIsTrue ==
    \A e \in Executions, g \in Groups : pc[e] = "act" /\ next[e].group = g =>
        /\ next[e].action = "in" =>
              Replaceable(g) /\ \A h \in Groups : h < g => Finished(h)
        /\ next[e].action # "in" => Vacant(g)

InOrderInv == InOrder /\ LifeCycle /\ SeenIsTrue /\ ChosenIsTrue

(* A recycling of outdated groups within ten minutes that ends with        *)
(* recycle_success leaves every group serving an instance of the current   *)
(* version.                                                                *)
CompletedMeansServing ==
    \A e \in Executions : pc[e] = "Success" /\ reply[e].recycle_success =>
        \A g \in Groups : ~Out(g) /\ ~outdated[g]

(* Whatever the age of the activities, and with several executions: no     *)
(* instance of an old version is left when one of them completes.          *)
CompletedLeavesNoneOutdated ==
    \A e \in Executions : pc[e] = "Success" /\ reply[e].recycle_success =>
        \A g \in Groups : ~outdated[g]

(* However long the recycling takes, an instance is scaled in only to      *)
(* replace it: while its version is old, or unknown, or ten minutes after  *)
(* the last activity of its group (autorecycle.py 72-87).                  *)
FreshInstancesStay ==
    [][\A g \in Groups : desired[g] = 1 /\ desired'[g] = 0 /\ life[g] = "serving" =>
          outdated[g] \/ g \in Versionless \/ ~recent[g]]_vars

(* Every execution ends, although activities may never do, and finished    *)
(* groups are begun again after ten minutes (state_machine.tf 92-96).      *)
Ends == \A e \in Executions : <>(pc[e] \in Ended)

(* The in-out strategy is a rolling recycle of the groups.                 *)
Rolling == INSTANCE RollingRecycle
    WITH Units <- Groups,
         out <- {g \in Groups : Out(g)},
         stale <- {g \in Groups : outdated[g]}

RollingSpec == Rolling!Spec
=============================================================================
