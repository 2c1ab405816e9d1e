--------------------------- MODULE ScaleAsgProofs ---------------------------
(***************************************************************************)
(* What the in-out strategy guarantees for every number of groups, rounds, *)
(* retries and failed launches.                                            *)
(***************************************************************************)
EXTENDS ScaleAsg, WellFoundedInduction, TLAPS
-----------------------------------------------------------------------------
(* Types.                                                                  *)

(* Auto Scaling keeps the state of the groups well formed.                 *)
LEMMA AutoScalingType ==
    ASSUME TypeOK, AutoScaling, UNCHANGED lambdaVars
    PROVE  TypeOK'
  <1> USE ScaleAsgAssumption DEF TypeOK, lambdaVars, Lives, Statuses
  <1>1. PICK g \in Groups : BeginTerminate(g) \/ BeginLaunch(g) \/ EndActivity(g)
                            \/ LaunchFails(g) \/ Age(g)
    BY DEF AutoScaling
  <1>2. CASE BeginTerminate(g)
    BY <1>2 DEF BeginTerminate
  <1>3. CASE BeginLaunch(g)
    BY <1>3 DEF BeginLaunch
  <1>4. CASE EndActivity(g)
    BY <1>4 DEF EndActivity
  <1>5. CASE LaunchFails(g)
    BY <1>5 DEF LaunchFails
  <1>6. CASE Age(g)
    BY <1>6 DEF Age
  <1> QED
    BY <1>1, <1>2, <1>3, <1>4, <1>5, <1>6

(* What a round remembers at its start.                                    *)
LEMMA NothingType ==
    /\ NothingShown \in [Groups -> Shown]
    /\ NothingRead \in [Groups -> Read \cup {Unread}]
  BY DEF NothingShown, NothingRead, Shown

(* Every choice is an action on a group.                                   *)
LEMMA NextActionsType ==
    ASSUME NEW e \in Executions
    PROVE  NextActions(e) \subseteq Actions
  BY DEF NextActions, Choice, Actions, Empty, ToScaleIn

(* A reply keeps the types, and counts the round, which the loop allowed.  *)
LEMMA ReplyType ==
    ASSUME TypeOK, NEW e \in Executions, counter[e] <= Rounds,
           NEW success \in BOOLEAN, NEW status \in {"true", "fail"},
           Reply(e, success, status), UNCHANGED groupVars
    PROVE  TypeOK'
  <1>1. counter' \in [Executions -> 0..Rounds+1]
    BY ScaleAsgAssumption DEF TypeOK, Reply
  <1>2. reply' \in [Executions -> Replies]
    BY DEF TypeOK, Reply, Replies
  <1>3. /\ asgs' \in [Executions -> [Groups -> Shown]]
        /\ activities' \in [Executions -> [Groups -> Read \cup {Unread}]]
        /\ next' \in [Executions -> Actions \cup {NoAction}]
    BY NothingType DEF TypeOK, Reply
  <1> QED
    BY <1>1, <1>2, <1>3 DEF TypeOK, Reply, groupVars

(* An invocation runs only while the loop is not left: its answer is the   *)
(* last round at the latest.                                               *)
RoundsLeft == \A e \in Executions : pc[e] \in Running => counter[e] <= Rounds

(* The Lambda keeps its own state well formed, and never starts a round    *)
(* too many.                                                               *)
LEMMA LambdaType ==
    ASSUME TypeOK, RoundsLeft, NEW e \in Executions, Lambda(e)
    PROVE  TypeOK' /\ RoundsLeft'
  <1> USE ScaleAsgAssumption DEF RoundsLeft, Running
  <1>0. e \in DOMAIN pc /\ counter[e] \in 0..Rounds+1
    BY DEF TypeOK
  <1>r. ASSUME NEW success \in BOOLEAN, NEW status \in {"true", "fail"},
               Reply(e, success, status), UNCHANGED groupVars, pc[e] \in Running
        PROVE  TypeOK' /\ RoundsLeft'
    <2>1. TypeOK'
      BY <1>r, ReplyType
    <2>2. RoundsLeft'
      BY <1>r DEF Reply, TypeOK
    <2> QED
      BY <2>1, <2>2
  <1>1. CASE Describe(e)
    <2>1. asgs' \in [Executions -> [Groups -> Shown]]
      BY <1>1 DEF Describe, Show, Shown, TypeOK
    <2>2. activities' \in [Executions -> [Groups -> Read \cup {Unread}]]
      BY <1>1, NothingType DEF Describe, TypeOK
    <2> QED
      BY <1>1, <2>1, <2>2 DEF Describe, Goto, TypeOK, groupVars
  <1>2. CASE ReadActivity(e)
    <2>1. activities' \in [Executions -> [Groups -> Read \cup {Unread}]]
      BY <1>2 DEF ReadActivity, TypeOK, Read
    <2> QED
      BY <1>2, <2>1 DEF ReadActivity, TypeOK, groupVars
  <1>3. CASE Decide(e)
    <2>1. CASE Reply(e, FALSE, "true") \/ Reply(e, FALSE, "fail") \/ Reply(e, TRUE, "true")
      BY <1>3, <2>1, <1>r DEF Decide
    <2>2. CASE /\ \E a \in NextActions(e) : next' = [next EXCEPT ![e] = a]
               /\ pc' = [pc EXCEPT ![e] = "act"]
               /\ UNCHANGED <<counter, asgs, activities, reply, retries>>
      <3>1. next' \in [Executions -> Actions \cup {NoAction}]
        BY <2>2, NextActionsType DEF TypeOK
      <3> QED
        BY <1>3, <2>2, <3>1 DEF Decide, TypeOK, groupVars
    <2> QED
      BY <1>3, <2>1, <2>2 DEF Decide
  <1>4. CASE Act(e)
    <2> DEFINE capacity == IF next[e].action = "in" THEN 0 ELSE 1
    <2>0. desired' = [desired EXCEPT ![next[e].group] = capacity]
      BY <1>4 DEF Act
    <2>1. capacity \in 0..1
      OBVIOUS
    <2> HIDE DEF capacity
    <2>2. desired' \in [Groups -> 0..1]
      BY <2>0, <2>1 DEF TypeOK
    <2> QED
      BY <1>4, <2>2 DEF Act, Goto, TypeOK
  <1>5. CASE Answer(e)
    BY <1>5, <1>r DEF Answer
  <1>6. CASE CallFails(e)
    BY <1>6, <1>r DEF CallFails
  <1>7. CASE NextRound(e)
    <2>1. counter[e] <= Rounds
      BY <1>0, <1>7 DEF NextRound, Leaves
    <2>2. retries' \in [Executions -> 0..MaxRetries]
      BY <1>7 DEF NextRound, TypeOK
    <2> QED
      BY <1>7, <2>1, <2>2 DEF NextRound, Goto, TypeOK, groupVars
  <1>8. CASE Leave(e)
    BY <1>8 DEF Leave, Goto, TypeOK, Ended, groupVars
  <1>9. CASE Raise(e) \/ Retry(e)
    <2>1. pc' \in [Executions -> Running \cup {"wait"} \cup Ended]
      BY <1>9 DEF Raise, Retry, TypeOK, Ended
    <2>2. retries' \in [Executions -> 0..MaxRetries]
      <3>1. CASE Raise(e)
        BY <3>1 DEF Raise, TypeOK
      <3>2. CASE Retry(e)
        <4>1. retries[e] + 1 \in 0..MaxRetries
          BY <3>2 DEF Retry, TypeOK
        <4>2. retries' = [retries EXCEPT ![e] = @ + 1]
          BY <3>2 DEF Retry
        <4> QED
          BY <4>1, <4>2 DEF TypeOK
      <3> QED
        BY <1>9, <3>1, <3>2
    <2>3. /\ asgs' \in [Executions -> [Groups -> Shown]]
          /\ activities' \in [Executions -> [Groups -> Read \cup {Unread}]]
          /\ next' \in [Executions -> Actions \cup {NoAction}]
      <3>1. Forget(e)
        BY <1>9 DEF Raise, Retry
      <3>2. asgs' = [asgs EXCEPT ![e] = NothingShown]
        BY <3>1 DEF Forget
      <3>3. activities' = [activities EXCEPT ![e] = NothingRead]
        BY <3>1 DEF Forget
      <3>4. next' = [next EXCEPT ![e] = NoAction]
        BY <3>1 DEF Forget
      <3> QED
        BY <3>2, <3>3, <3>4, NothingType DEF TypeOK
    <2>4. UNCHANGED <<groupVars, counter, reply>> /\ pc[e] \in Running
      BY <1>9 DEF Raise, Retry, Forget
    <2>5. \A f \in Executions : pc'[f] \in Running => pc[f] \in Running
      BY <1>9, <2>4 DEF Raise, Retry, TypeOK
    <2> QED
      BY <2>1, <2>2, <2>3, <2>4, <2>5 DEF TypeOK, groupVars
  <1> QED
    BY <1>1, <1>2, <1>3, <1>4, <1>5, <1>6, <1>7, <1>8, <1>9 DEF Lambda

(* The types hold, and with them the bound on the rounds.                  *)
LEMMA TypesAndRounds == Spec => [](TypeOK /\ RoundsLeft)
  <1>1. Init => TypeOK /\ RoundsLeft
    <2> SUFFICES ASSUME Init PROVE TypeOK /\ RoundsLeft
      OBVIOUS
    <2>1. /\ desired \in [Groups -> 0..1] /\ life \in [Groups -> Lives]
          /\ outdated \in [Groups -> BOOLEAN] /\ activity \in [Groups -> Statuses]
          /\ recent \in [Groups -> BOOLEAN] /\ failures \in 0..MaxFailures
      BY ScaleAsgAssumption DEF Init, Lives, Statuses
    <2>2. /\ pc \in [Executions -> Running \cup {"wait"} \cup Ended]
          /\ counter \in [Executions -> 0..Rounds+1]
          /\ retries \in [Executions -> 0..MaxRetries]
          /\ RoundsLeft
      BY ScaleAsgAssumption DEF Init, Running, RoundsLeft
    <2>3. /\ asgs \in [Executions -> [Groups -> Shown]]
          /\ activities \in [Executions -> [Groups -> Read \cup {Unread}]]
          /\ next \in [Executions -> Actions \cup {NoAction}]
          /\ reply \in [Executions -> Replies]
      BY NothingType DEF Init, Replies
    <2> QED
      BY <2>1, <2>2, <2>3 DEF TypeOK
  <1>2. TypeOK /\ RoundsLeft /\ [Next]_vars => TypeOK' /\ RoundsLeft'
    <2> SUFFICES ASSUME TypeOK, RoundsLeft, [Next]_vars PROVE TypeOK' /\ RoundsLeft'
      OBVIOUS
    <2>1. CASE AutoScaling /\ UNCHANGED lambdaVars
      BY <2>1, AutoScalingType DEF RoundsLeft, lambdaVars
    <2>2. CASE \E e \in Executions : Lambda(e)
      BY <2>2, LambdaType
    <2>3. CASE UNCHANGED vars
      BY <2>3 DEF vars, groupVars, lambdaVars, TypeOK, RoundsLeft
    <2> QED
      BY <2>1, <2>2, <2>3 DEF Next
  <1> QED
    BY <1>1, <1>2, PTL DEF Spec

(* Every variable keeps its type; in particular the counter never passes   *)
(* the bound of the loop by more than one: with that bound at 20, the      *)
(* branches for a counter of 60 and more are dead (handler.py 25-42).      *)
THEOREM TypeCorrect == Spec => []TypeOK
  BY TypesAndRounds, PTL
-----------------------------------------------------------------------------
(* One group at a time.  Four conditions make it true: every group has to  *)
(* be replaced and names its version, the run does not outlast the ten     *)
(* minutes of "recently", and no second execution scales the same groups.  *)
InOrderConditions ==
    /\ \A e, f \in Executions : e = f
    /\ StaleAtStart = Groups
    /\ Ageing = FALSE /\ Versionless = {}

(* Auto Scaling alone never undoes a finished group, nor touches one that  *)
(* was not touched before.                                                 *)
LEMMA AutoScalingSteps ==
    ASSUME TypeOK, InOrderInv, InOrderConditions, AutoScaling, UNCHANGED lambdaVars
    PROVE  /\ desired' = desired
           /\ LifeCycle'
           /\ \A h \in Groups : /\ Finished(h) => Finished(h)'
                                /\ Started(h)' => Started(h)
                                /\ Replaceable(h) => Replaceable(h)'
                                /\ Vacant(h) => Vacant(h)'
                                /\ ~outdated[h] => ~outdated'[h]
  <1> USE DEF TypeOK, InOrderInv, LifeCycle, Finished, Started, Out, Replaceable,
              Vacant, Lives, Statuses
  <1>1. PICK g \in Groups : BeginTerminate(g) \/ BeginLaunch(g) \/ EndActivity(g)
                            \/ LaunchFails(g)
    BY DEF AutoScaling, Age, InOrderConditions
  <1>2. CASE BeginTerminate(g)
    BY <1>2 DEF BeginTerminate
  <1>3. CASE BeginLaunch(g)
    BY <1>3 DEF BeginLaunch
  <1>4. CASE EndActivity(g)
    BY <1>4 DEF EndActivity
  <1>5. CASE LaunchFails(g)
    BY <1>5 DEF LaunchFails
  <1> QED
    BY <1>1, <1>2, <1>3, <1>4, <1>5

(* So it keeps what a round has seen, and what it has chosen, true.        *)
LEMMA AutoScalingKeepsInv ==
    ASSUME TypeOK, InOrderInv, InOrderConditions, AutoScaling, UNCHANGED lambdaVars
    PROVE  InOrderInv'
  <1>1. InOrder'
    BY AutoScalingSteps DEF InOrderInv, InOrder
  <1>2. SeenIsTrue'
    BY AutoScalingSteps DEF InOrderInv, SeenIsTrue, lambdaVars
  <1>3. ChosenIsTrue'
    BY AutoScalingSteps DEF InOrderInv, ChosenIsTrue, lambdaVars
  <1> QED
    BY <1>1, <1>2, <1>3, AutoScalingSteps DEF InOrderInv

(* A step that leaves the groups alone leaves their order and life cycle.  *)
LEMMA GroupsAlone ==
    ASSUME InOrderInv, UNCHANGED groupVars
    PROVE  InOrder' /\ LifeCycle'
  BY DEF InOrderInv, InOrder, LifeCycle, Finished, Started, Out, groupVars

(* What is shown of a group is true of it, and no activity is read yet.    *)
LEMMA DescribeKeepsInv ==
    ASSUME TypeOK, InOrderInv, InOrderConditions, NEW e \in Executions, Describe(e)
    PROVE  InOrderInv'
  <1>1. pc'[e] = "read" /\ UNCHANGED groupVars
    BY DEF Describe, Goto, TypeOK
  <1>2. asgs'[e] = [g \in Groups |-> Show(g)] /\ activities'[e] = NothingRead
    BY DEF Describe, TypeOK
  <1>3. ChosenIsTrue'
    BY <1>1 DEF InOrderConditions, ChosenIsTrue
  <1>4. ASSUME NEW g \in Groups
        PROVE  /\ asgs'[e][g] = "empty" => Vacant(g)
               /\ asgs'[e][g] = "outdated" => Replaceable(g)
               /\ asgs'[e][g] = "current" => ~outdated[g]
               /\ activities'[e][g].status # "Successful"
    <2>1. asgs'[e][g] = Show(g) /\ activities'[e][g] = Unread
      BY <1>2 DEF NothingRead
    <2>2. /\ life[g] \in Lives /\ desired[g] \in 0..1 /\ outdated[g] \in BOOLEAN
          /\ Versionless = {}
      BY DEF TypeOK, InOrderConditions
    <2>3. outdated[g] => /\ life[g] # "pending"
                         /\ life[g] = "terminating" => desired[g] = 0
      BY DEF InOrderInv, LifeCycle
    <2> QED
      BY <2>1, <2>2, <2>3 DEF Show, Vacant, Replaceable, Unread, Lives
  <1>5. SeenIsTrue'
    BY <1>1, <1>4 DEF InOrderConditions, SeenIsTrue, Vacant, Replaceable, groupVars
  <1> QED
    BY <1>1, <1>3, <1>5, GroupsAlone DEF InOrderInv

(* A group shown as current whose last activity succeeded is finished.     *)
LEMMA ReadActivityKeepsInv ==
    ASSUME TypeOK, InOrderInv, InOrderConditions, NEW e \in Executions, ReadActivity(e)
    PROVE  InOrderInv'
  <1>1. PICK g \in Groups : activities' = [activities EXCEPT ![e][g] =
                                [status |-> activity[g], recent |-> recent[g]]]
    BY DEF ReadActivity
  <1>2. pc[e] = "read" /\ UNCHANGED <<groupVars, pc, asgs, next>>
    BY DEF ReadActivity
  <1>3. ChosenIsTrue'
    BY <1>2 DEF InOrderConditions, ChosenIsTrue
  <1>4. /\ activities'[e][g] = [status |-> activity[g], recent |-> recent[g]]
        /\ \A h \in Groups \ {g} : activities'[e][h] = activities[e][h]
    BY <1>1 DEF TypeOK
  <1>5. ASSUME NEW h \in Groups, asgs[e][h] = "current",
               activities'[e][h].status = "Successful"
        PROVE  Finished(h) /\ activities'[e][h].recent
    <2>1. CASE h = g
      <3>1. ~outdated[g] /\ activity[g] = "Successful"
        BY <1>2, <1>4, <1>5, <2>1 DEF InOrderInv, SeenIsTrue
      <3>2. Finished(g)
        BY <3>1 DEF InOrderInv, LifeCycle, TypeOK, Lives
      <3> QED
        BY <1>4, <2>1, <3>2 DEF Finished
    <2>2. CASE h # g
      BY <1>2, <1>4, <1>5, <2>2 DEF InOrderInv, SeenIsTrue
    <2> QED
      BY <2>1, <2>2
  <1>6. SeenIsTrue'
    BY <1>2, <1>5 DEF InOrderConditions, InOrderInv, SeenIsTrue, Vacant, Replaceable,
                      Finished, groupVars
  <1> QED
    BY <1>2, <1>3, <1>6, GroupsAlone DEF InOrderInv

(* A group is chosen to be scaled in only when those before it are done.   *)
LEMMA NextActionsAreTrue ==
    ASSUME TypeOK, InOrderInv, NEW e \in Executions, pc[e] = "read", AllRead(e),
           ~InProgress(e), ~SomeFailed(e), NEW a \in NextActions(e)
    PROVE  /\ a \in Actions
           /\ a.action = "in" => /\ Replaceable(a.group)
                                 /\ \A h \in Groups : h < a.group => Finished(h)
           /\ a.action # "in" => Vacant(a.group)
  <1>1. a \in Actions
    BY NextActionsType
  <1>2. ASSUME NEW h \in Groups PROVE activities[e][h].status = "Successful"
    BY DEF AllRead, InProgress, SomeFailed, TypeOK, Read, Statuses
  <1>3. CASE Empty(e) # {}
    <2>1. a.action = "out" /\ a.group \in Empty(e)
      BY <1>3 DEF NextActions, Choice
    <2> QED
      BY <1>1, <2>1 DEF Empty, InOrderInv, SeenIsTrue
  <1>4. CASE Empty(e) = {}
    <2>1. /\ a.action = "in" /\ a.group \in ToScaleIn(e)
          /\ \A h \in ToScaleIn(e) : a.group <= h
      BY <1>4 DEF NextActions, Choice
    <2>2. ASSUME NEW h \in Groups, asgs[e][h] # "outdated"
          PROVE  Finished(h) /\ h \notin ToScaleIn(e)
      <3>1. asgs[e][h] = "current"
        BY <1>4, <2>2 DEF Empty, TypeOK, Shown
      <3> QED
        BY <1>2, <2>2, <3>1 DEF InOrderInv, SeenIsTrue, ToScaleIn
    <2>3. Replaceable(a.group)
      BY <2>1, <2>2 DEF InOrderInv, SeenIsTrue, ToScaleIn
    <2>4. ASSUME NEW h \in Groups, h < a.group PROVE Finished(h)
      <3>1. h \notin ToScaleIn(e)
        BY <2>1, <2>4 DEF ToScaleIn, Groups
      <3>2. asgs[e][h] # "outdated"
        BY <1>4, <3>1 DEF ToScaleIn
      <3> QED
        BY <2>2, <3>2
    <2> QED
      BY <1>1, <2>1, <2>3, <2>4
  <1> QED
    BY <1>3, <1>4

(* Outside a round there is nothing seen or chosen to be true.             *)
LEMMA OutsideARound ==
    ASSUME InOrderInv, InOrderConditions, NEW e \in Executions,
           UNCHANGED groupVars, pc'[e] \notin {"read", "act"}
    PROVE  InOrderInv'
  BY GroupsAlone DEF InOrderConditions, InOrderInv, SeenIsTrue, ChosenIsTrue

(* A decision either answers, or chooses what is true.                     *)
LEMMA DecideKeepsInv ==
    ASSUME TypeOK, InOrderInv, InOrderConditions, NEW e \in Executions, Decide(e)
    PROVE  InOrderInv'
  <1>1. CASE Reply(e, FALSE, "true") \/ Reply(e, FALSE, "fail") \/ Reply(e, TRUE, "true")
    <2>1. pc'[e] = "wait"
      BY <1>1 DEF Reply, TypeOK
    <2> QED
      BY <2>1, OutsideARound DEF Decide
  <1>2. CASE /\ ~InProgress(e) /\ ~SomeFailed(e)
             /\ \E a \in NextActions(e) : next' = [next EXCEPT ![e] = a]
             /\ pc' = [pc EXCEPT ![e] = "act"]
    <2>1. PICK a \in NextActions(e) : next' = [next EXCEPT ![e] = a]
      BY <1>2
    <2>2. pc'[e] = "act" /\ next'[e] = a /\ UNCHANGED groupVars
      BY <1>2, <2>1 DEF TypeOK, Decide
    <2>3. SeenIsTrue'
      BY <2>2 DEF InOrderConditions, SeenIsTrue
    <2>4. /\ a.action = "in" => /\ Replaceable(a.group)
                                /\ \A h \in Groups : h < a.group => Finished(h)
          /\ a.action # "in" => Vacant(a.group)
      BY <1>2, NextActionsAreTrue DEF Decide
    <2>5. ChosenIsTrue'
      BY <2>2, <2>4 DEF InOrderConditions, ChosenIsTrue, Replaceable, Finished, Vacant,
                        groupVars
    <2> QED
      BY <2>2, <2>3, <2>5, GroupsAlone DEF InOrderInv
  <1> QED
    BY <1>1, <1>2 DEF Decide

(* Scaling a replaceable group in, or a vacant one out, keeps the order.   *)
LEMMA ActKeepsInv ==
    ASSUME TypeOK, InOrderInv, InOrderConditions, NEW e \in Executions, Act(e)
    PROVE  InOrderInv'
  <1> DEFINE g == next[e].group
             capacity == IF next[e].action = "in" THEN 0 ELSE 1
  <1>1. g \in Groups
    BY ScaleAsgAssumption DEF TypeOK, Actions, NoAction, Groups
  <1>2. desired' = [desired EXCEPT ![g] = capacity]
    BY DEF Act
  <1>3. /\ pc[e] = "act" /\ pc'[e] = "acted"
        /\ UNCHANGED <<life, outdated, activity, recent>>
    BY DEF Act, Goto, TypeOK
  <1>4. SeenIsTrue' /\ ChosenIsTrue'
    BY <1>3 DEF InOrderConditions, SeenIsTrue, ChosenIsTrue
  <1>5. /\ desired'[g] = capacity
        /\ \A h \in Groups \ {g} : desired'[h] = desired[h]
    BY <1>1, <1>2 DEF TypeOK
  <1>6. CASE next[e].action = "in"
    <2>1. Replaceable(g) /\ \A h \in Groups : h < g => Finished(h)
      BY <1>1, <1>3, <1>6 DEF InOrderInv, ChosenIsTrue
    <2>2. LifeCycle'
      BY <1>3, <1>5, <1>6, <2>1
         DEF InOrderInv, LifeCycle, Replaceable, Finished
    <2>3. ASSUME NEW h \in Groups, NEW k \in Groups, h < k, Started(k)'
          PROVE  Finished(h)'
      <3>1. CASE k = g
        BY <1>3, <1>5, <2>1, <2>3, <3>1 DEF Finished, Groups
      <3>2. CASE k # g
        <4>1. Finished(h)
          BY <1>3, <1>5, <2>3, <3>2 DEF InOrderInv, InOrder, Started, Out
        <4> QED
          BY <1>3, <1>5, <2>1, <4>1 DEF Finished, Replaceable
      <3> QED
        BY <3>1, <3>2
    <2> QED
      BY <1>4, <2>2, <2>3 DEF InOrderInv, InOrder
  <1>7. CASE next[e].action # "in"
    <2>1. Vacant(g)
      BY <1>1, <1>3, <1>7 DEF InOrderInv, ChosenIsTrue
    <2>2. LifeCycle'
      BY <1>3, <1>5, <1>7, <2>1 DEF InOrderInv, LifeCycle, Vacant, Finished
    <2>3. \A h \in Groups : /\ Finished(h) => Finished(h)'
                            /\ Started(h)' => Started(h)
      BY <1>3, <1>5, <1>7 DEF Finished, Started, Out
    <2>4. InOrder'
      BY <2>3 DEF InOrderInv, InOrder
    <2> QED
      BY <1>4, <2>2, <2>4 DEF InOrderInv
  <1> QED
    BY <1>6, <1>7

(* In every reachable state the groups are replaced in order, and what a   *)
(* round has seen, and has chosen to do, is still true: this is why a      *)
(* decision taken on old replies is safe to act on (autorecycle.py 56-87). *)
THEOREM InOrderInvariant ==
    ASSUME InOrderConditions
    PROVE  Spec => []InOrderInv
  <1>1. Init => InOrderInv
    <2> SUFFICES ASSUME Init PROVE InOrderInv
      OBVIOUS
    <2>1. \A g \in Groups : /\ desired[g] = 1 /\ life[g] = "serving"
                            /\ outdated[g] /\ activity[g] = "Successful"
      BY DEF Init, InOrderConditions
    <2>2. \A e \in Executions : pc[e] = "describe"
      BY DEF Init
    <2> QED
      BY <2>1, <2>2 DEF InOrderInv, InOrder, LifeCycle, SeenIsTrue, ChosenIsTrue,
                        Started, Out
  <1>2. TypeOK /\ InOrderInv /\ [Next]_vars => InOrderInv'
    <2> SUFFICES ASSUME TypeOK, InOrderInv, [Next]_vars PROVE InOrderInv'
      OBVIOUS
    <2>1. CASE AutoScaling /\ UNCHANGED lambdaVars
      BY <2>1, AutoScalingKeepsInv
    <2>2. ASSUME NEW e \in Executions, Lambda(e) PROVE InOrderInv'
      <3>1. CASE Answer(e) \/ CallFails(e) \/ NextRound(e) \/ Leave(e)
                 \/ Raise(e) \/ Retry(e)
        <4>1. pc'[e] \notin {"read", "act"}
          BY <3>1 DEF Answer, CallFails, Reply, NextRound, Leave, Raise, Retry, Goto,
                      TypeOK
        <4>2. UNCHANGED groupVars
          BY <3>1 DEF Answer, CallFails, NextRound, Leave, Raise, Retry, Forget
        <4> QED
          BY <4>1, <4>2, OutsideARound
      <3> QED
        BY <2>2, <3>1, DescribeKeepsInv, ReadActivityKeepsInv, DecideKeepsInv,
           ActKeepsInv DEF Lambda
    <2>3. CASE UNCHANGED vars
      BY <2>3, GroupsAlone DEF vars, lambdaVars, groupVars, InOrderInv, SeenIsTrue,
                  ChosenIsTrue, Finished, Replaceable, Vacant
    <2> QED
      BY <2>1, <2>2, <2>3 DEF Next
  <1> QED
    BY <1>1, <1>2, TypeCorrect, PTL DEF Spec

(* Never are two groups out of service together, for any number of groups, *)
(* rounds, retries and failed launches, although a round reads the groups  *)
(* and their activities at different times, and acts later still: the      *)
(* groups are replaced one after the other, in their order.                *)
THEOREM OneGroupOut ==
    ASSUME InOrderConditions
    PROVE  Spec => []OneGroupAtATime
  <1>1. InOrderInv => OneGroupAtATime
    BY ScaleAsgAssumption
       DEF InOrderInv, InOrder, Started, Finished, Out, OneGroupAtATime, Groups
  <1> QED
    BY <1>1, InOrderInvariant, PTL
-----------------------------------------------------------------------------
(* The in-out strategy implements the rolling recycle.                     *)

out == {g \in Groups : Out(g)}
stale == {g \in Groups : outdated[g]}

(* A group that is about to be terminated is the only one out of service.  *)
LEMMA NoOtherOut ==
    ASSUME TypeOK, InOrderInv, NEW g \in Groups, desired[g] = 0, life[g] = "serving"
    PROVE  out = {}
  <1> SUFFICES ASSUME NEW h \in Groups, Out(h) PROVE FALSE
    BY DEF out
  <1>1. CASE h < g
    BY <1>1 DEF InOrderInv, InOrder, Started, Finished, Out
  <1>2. CASE g < h
    BY <1>2 DEF InOrderInv, InOrder, Started, Finished, Out
  <1>3. CASE g = h
    BY <1>3 DEF Out
  <1> QED
    BY <1>1, <1>2, <1>3, ScaleAsgAssumption DEF Groups

(* Every step of Auto Scaling is a step of the abstract specification, or  *)
(* none it can see.                                                        *)
LEMMA AutoScalingRolls ==
    ASSUME TypeOK, InOrderInv, InOrderConditions, AutoScaling
    PROVE  [Rolling!Next]_<<out, stale>>
  <1> USE DEF TypeOK
  <1>1. PICK g \in Groups : BeginTerminate(g) \/ BeginLaunch(g) \/ EndActivity(g)
                            \/ LaunchFails(g)
    BY DEF AutoScaling, Age, InOrderConditions
  <1>2. CASE BeginTerminate(g)
    <2>1. out = {} /\ out' = {g}
      BY <1>2, NoOtherOut DEF BeginTerminate, out, Out
    <2>2. g \in stale /\ stale' = stale
      BY <1>2 DEF BeginTerminate, stale, InOrderInv, LifeCycle, Finished
    <2> QED
      BY <2>1, <2>2 DEF Rolling!Next, Rolling!TakeOut, out, stale
  <1>3. CASE BeginLaunch(g)
    <2>1. g \in out /\ out' = out /\ stale' = stale \ {g}
      BY <1>3 DEF BeginLaunch, out, stale, Out
    <2> QED
      BY <2>1 DEF Rolling!Next, Rolling!Renew, out, stale
  <1>4. CASE EndActivity(g)
    <2>1. CASE life[g] = "pending"
      <3>1. g \in out \ stale
        BY <2>1 DEF out, stale, Out, InOrderInv, LifeCycle
      <3>2. out' = out \ {g} /\ stale' = stale
        BY <1>4, <2>1 DEF EndActivity, out, stale, Out
      <3> QED
        BY <3>1, <3>2 DEF Rolling!Next, Rolling!PutBack, out, stale
    <2>2. CASE life[g] # "pending"
      <3>1. life[g] = "terminating"
        BY <1>4, <2>2 DEF EndActivity, InOrderInv, LifeCycle
      <3> QED
        BY <1>4, <3>1 DEF EndActivity, out, stale, Out
    <2> QED
      BY <2>1, <2>2
  <1>5. CASE LaunchFails(g)
    BY <1>5 DEF LaunchFails, out, stale, Out
  <1> QED
    BY <1>1, <1>2, <1>3, <1>4, <1>5

(* The Lambda changes the service and the version of no group itself.      *)
LEMMA LambdaStutters ==
    ASSUME NEW e \in Executions, Lambda(e)
    PROVE  UNCHANGED <<out, stale>>
  <1>1. UNCHANGED <<life, outdated>>
    BY DEF Lambda, Describe, ReadActivity, Decide, Act, Answer, CallFails, NextRound,
           Leave, Raise, Retry, Forget, groupVars
  <1> QED
    BY <1>1 DEF out, stale, Out

(* A group is taken out of service only while it is outdated and no other  *)
(* one is out, and it serves again only once it is on the current version. *)
THEOREM InOutIsRolling ==
    ASSUME InOrderConditions
    PROVE  Spec => RollingSpec
  <1>1. Init => Rolling!Init
    BY DEF Init, Rolling!Init, Out
  <1>2. TypeOK /\ InOrderInv /\ [Next]_vars => [Rolling!Next]_<<out, stale>>
    <2> SUFFICES ASSUME TypeOK, InOrderInv, [Next]_vars
                 PROVE  [Rolling!Next]_<<out, stale>>
      OBVIOUS
    <2>1. CASE UNCHANGED vars
      BY <2>1 DEF vars, groupVars, out, stale, Out
    <2> QED
      BY <2>1, AutoScalingRolls, LambdaStutters DEF Next
  <1>3. TypeOK /\ InOrderInv /\ [Next]_vars => [Rolling!Next]_(Rolling!vars)
    BY <1>2 DEF Rolling!vars, out, stale
  <1> QED
    BY <1>1, <1>3, TypeCorrect, InOrderInvariant, PTL
       DEF Spec, RollingSpec, Rolling!Spec
-----------------------------------------------------------------------------
(* What a completed recycling leaves behind.                               *)

(* A set of numbers that is not empty has a smallest one.                  *)
LEMMA SmallestNumber ==
    ASSUME NEW S \in SUBSET Nat, S # {}
    PROVE  \E x \in S : \A y \in S : x <= y
  <1> DEFINE R == {p \in Nat \X Nat : p[1] < p[2]}
  <1>1. IsWellFoundedOn(OpToRel(<, Nat), Nat)
    BY NatLessThanWellFounded
  <1>2. IsWellFoundedOn(R, Nat)
    BY <1>1 DEF OpToRel
  <1>3. \A x, y \in Nat : x < y => <<x, y>> \in R
    OBVIOUS
  <1> HIDE DEF R
  <1>4. PICK x \in S : \A y \in S : <<y, x>> \notin R
    BY <1>2, WFMin
  <1>5. ASSUME NEW y \in S PROVE ~(y < x)
    BY <1>3, <1>4, Zenon
  <1> QED
    BY <1>5

(* So there is a next action as long as a group calls for one: a round     *)
(* that decides on none has seen every group on the current version.       *)
LEMMA NothingToDo ==
    ASSUME TypeOK, NEW e \in Executions, NextActions(e) = {}
    PROVE  \A g \in Groups : asgs[e][g] = "current" /\ activities[e][g].recent
  <1>1. ASSUME NEW action, NEW S \in SUBSET Groups, Choice(action, S) = {}
        PROVE  S = {}
    <2> SUFFICES ASSUME S # {} PROVE FALSE
      OBVIOUS
    <2>1. S \subseteq Nat
      BY ScaleAsgAssumption DEF Groups
    <2>2. PICK g \in S : \A h \in S : g <= h
      BY <2>1, SmallestNumber
    <2>3. [action |-> action, group |-> g] \in Choice(action, S)
      BY <2>2 DEF Choice
    <2> QED
      BY <1>1, <2>3
  <1>2. Empty(e) = {}
    BY <1>1 DEF NextActions, Empty
  <1>3. ToScaleIn(e) = {}
    BY <1>1, <1>2 DEF NextActions, ToScaleIn
  <1> SUFFICES ASSUME NEW g \in Groups
               PROVE  asgs[e][g] = "current" /\ activities[e][g].recent
    OBVIOUS
  <1>4. asgs[e][g] # "empty" /\ asgs[e][g] # "outdated" /\ activities[e][g].recent
    BY <1>2, <1>3 DEF Empty, ToScaleIn
  <1> QED
    BY <1>4 DEF TypeOK, Shown

(* A group is never outdated again: what was once seen to be current       *)
(* remains so, whoever saw it and however long ago.                        *)
NoneLeftInv ==
    \A e \in Executions, g \in Groups :
        asgs[e][g] = "current" \/ reply[e].recycle_success => ~outdated[g]

(* No instance of an old version is left when an execution completes, for  *)
(* any number of executions that overlap, and however much time passes     *)
(* between the rounds (handler.py 72-92).                                  *)
THEOREM NoneOutdatedWhenCompleted == Spec => []CompletedLeavesNoneOutdated
  <1>1. Init => NoneLeftInv
    BY DEF Init, NoneLeftInv, NothingShown
  <1>2. TypeOK /\ NoneLeftInv /\ [Next]_vars => NoneLeftInv'
    <2> SUFFICES ASSUME TypeOK, NoneLeftInv, [Next]_vars PROVE NoneLeftInv'
      OBVIOUS
    <2>1. CASE AutoScaling /\ UNCHANGED lambdaVars
      <3>1. \A g \in Groups : ~outdated[g] => ~outdated'[g]
        BY <2>1 DEF AutoScaling, BeginTerminate, BeginLaunch, EndActivity, LaunchFails,
                    Age, TypeOK
      <3> QED
        BY <2>1, <3>1 DEF NoneLeftInv, lambdaVars
    <2>2. ASSUME NEW e \in Executions, Lambda(e) PROVE NoneLeftInv'
      <3>1. outdated' = outdated
        BY <2>2 DEF Lambda, Describe, ReadActivity, Decide, Act, Answer, CallFails,
                    NextRound, Leave, Raise, Retry, Forget, groupVars
      <3>2. ASSUME NEW success \in BOOLEAN, NEW status, Reply(e, success, status),
                   success => \A g \in Groups : ~outdated[g]
            PROVE  NoneLeftInv'
        BY <3>1, <3>2 DEF Reply, NoneLeftInv, NothingShown, TypeOK
      <3>3. CASE Describe(e)
        BY <3>1, <3>3 DEF Describe, NoneLeftInv, Show, TypeOK
      <3>4. CASE Decide(e)
        <4>1. CASE NextActions(e) = {} /\ Reply(e, TRUE, "true")
          <5>1. \A g \in Groups : ~outdated[g]
            BY <4>1, NothingToDo DEF NoneLeftInv
          <5> QED
            BY <3>2, <4>1, <5>1
        <4>2. CASE Reply(e, FALSE, "true") \/ Reply(e, FALSE, "fail")
          BY <3>2, <4>2
        <4>3. CASE UNCHANGED <<counter, asgs, activities, reply, retries>>
          BY <3>1, <4>3 DEF NoneLeftInv
        <4> QED
          BY <3>4, <4>1, <4>2, <4>3 DEF Decide
      <3>5. CASE Answer(e) \/ CallFails(e)
        BY <3>2, <3>5 DEF Answer, CallFails
      <3>6. CASE ReadActivity(e) \/ Act(e) \/ NextRound(e) \/ Leave(e)
        BY <3>1, <3>6 DEF ReadActivity, Act, NextRound, Leave, NoneLeftInv
      <3>7. CASE Raise(e) \/ Retry(e)
        <4>1. asgs' = [asgs EXCEPT ![e] = NothingShown] /\ reply' = reply
          BY <3>7 DEF Raise, Retry, Forget
        <4> QED
          BY <3>1, <4>1 DEF NoneLeftInv, NothingShown, TypeOK
      <3> QED
        BY <2>2, <3>3, <3>4, <3>5, <3>6, <3>7 DEF Lambda
    <2>3. CASE UNCHANGED vars
      BY <2>3 DEF vars, groupVars, lambdaVars, NoneLeftInv
    <2> QED
      BY <2>1, <2>2, <2>3 DEF Next
  <1>3. NoneLeftInv => CompletedLeavesNoneOutdated
    BY DEF NoneLeftInv, CompletedLeavesNoneOutdated
  <1> QED
    BY <1>1, <1>2, <1>3, TypeCorrect, PTL DEF Spec

(* While the groups are replaced in order, a completed recycling has more  *)
(* to show: every group is finished, and nothing touches it afterwards.    *)
AllFinishedInv ==
    \A e \in Executions : reply[e].recycle_success =>
        /\ pc[e] \in {"wait"} \cup Ended
        /\ \A g \in Groups : Finished(g)

(* A recycling that completes leaves every group serving an instance of    *)
(* the current version, although its last round may have read the groups   *)
(* while an activity was about to begin (handler.py 72-92).                *)
THEOREM AllServeWhenCompleted ==
    ASSUME InOrderConditions
    PROVE  Spec => []CompletedMeansServing
  <1>1. Init => AllFinishedInv
    BY DEF Init, AllFinishedInv
  <1>2. TypeOK /\ InOrderInv /\ AllFinishedInv /\ [Next]_vars => AllFinishedInv'
    <2> SUFFICES ASSUME TypeOK, InOrderInv, AllFinishedInv, [Next]_vars
                 PROVE  AllFinishedInv'
      OBVIOUS
    <2>1. CASE AutoScaling /\ UNCHANGED lambdaVars
      BY <2>1, AutoScalingSteps DEF AllFinishedInv, lambdaVars
    <2>2. ASSUME NEW e \in Executions, Lambda(e) PROVE AllFinishedInv'
      <3>1. \A f \in Executions : f = e
        BY DEF InOrderConditions
      <3>2. ASSUME NEW status, Reply(e, FALSE, status) PROVE AllFinishedInv'
        BY <3>1, <3>2 DEF Reply, AllFinishedInv, TypeOK
      <3>3. ASSUME UNCHANGED reply, pc[e] \notin {"wait"} \cup Ended
            PROVE  AllFinishedInv'
        BY <3>1, <3>3 DEF AllFinishedInv
      <3>4. CASE Describe(e) \/ ReadActivity(e) \/ Act(e) \/ Raise(e) \/ Retry(e)
        <4>1. UNCHANGED reply /\ pc[e] \in Running
          BY <3>4 DEF Describe, ReadActivity, Act, Raise, Retry, Forget, Goto, Running
        <4> QED
          BY <3>3, <4>1 DEF Running, Ended
      <3>5. CASE Answer(e) \/ CallFails(e)
        BY <3>2, <3>5 DEF Answer, CallFails
      <3>6. CASE Decide(e)
        <4>1. CASE /\ ~InProgress(e) /\ ~SomeFailed(e) /\ NextActions(e) = {}
                   /\ Reply(e, TRUE, "true")
          <5>1. ASSUME NEW g \in Groups PROVE Finished(g)
            <6>1. activities[e][g].status = "Successful"
              BY <3>6, <4>1 DEF Decide, AllRead, InProgress, SomeFailed, TypeOK, Read,
                                Statuses
            <6>2. asgs[e][g] = "current"
              BY <4>1, NothingToDo
            <6> QED
              BY <3>6, <6>1, <6>2 DEF Decide, InOrderInv, SeenIsTrue
          <5>2. pc'[e] = "wait" /\ UNCHANGED groupVars
            BY <3>6, <4>1 DEF Decide, Reply, TypeOK
          <5> QED
            BY <3>1, <5>1, <5>2 DEF AllFinishedInv, Finished, groupVars
        <4>2. CASE Reply(e, FALSE, "true") \/ Reply(e, FALSE, "fail")
          BY <3>2, <4>2
        <4>3. CASE UNCHANGED reply
          BY <3>3, <3>6, <4>3 DEF Decide, Ended
        <4> QED
          BY <3>6, <4>1, <4>2, <4>3 DEF Decide
      <3>7. CASE NextRound(e)
        BY <3>1, <3>7 DEF NextRound, Leaves, AllFinishedInv
      <3>8. CASE Leave(e)
        <4>1. pc'[e] \in Ended /\ UNCHANGED <<groupVars, reply>>
          BY <3>8 DEF Leave, Goto, TypeOK, Ended
        <4> QED
          BY <3>1, <4>1 DEF AllFinishedInv, Finished, groupVars
      <3> QED
        BY <2>2, <3>4, <3>5, <3>6, <3>7, <3>8 DEF Lambda
    <2>3. CASE UNCHANGED vars
      BY <2>3 DEF vars, groupVars, lambdaVars, AllFinishedInv, Finished
    <2> QED
      BY <2>1, <2>2, <2>3 DEF Next
  <1>3. AllFinishedInv => CompletedMeansServing
    BY DEF AllFinishedInv, CompletedMeansServing, Finished, Out
  <1> QED
    BY <1>1, <1>2, <1>3, TypeCorrect, InOrderInvariant, PTL DEF Spec
-----------------------------------------------------------------------------
(* Instances that have just been launched stay.  One condition is enough,  *)
(* whichever groups are outdated and however much time passes between the  *)
(* rounds: no second execution scales the same groups.                     *)

Single == \A e, f \in Executions : e = f

Capacity ==
    \A g \in Groups :
        /\ activity[g] = "InProgress" <=> life[g] \in {"pending", "terminating"}
        /\ outdated[g] => life[g] # "pending"
        /\ life[g] = "terminating" => desired[g] = 0

(* Scaling g out, or in, does no harm.                                     *)
Vacated(g) == life[g] # "terminating" /\ (life[g] = "none" \/ desired[g] = 1)
Expendable(g) ==
    \/ g \in Versionless \/ desired[g] = 0
    \/ life[g] = "serving" /\ (outdated[g] \/ ~recent[g])

(* What a round has seen of the group: also one listed as current, that    *)
(* cannot have vanished since without a recent activity.                   *)
Seen(e, g) ==
    /\ asgs[e][g] = "empty" => Vacated(g)
    /\ asgs[e][g] = "outdated" => g \in Versionless \/ Replaceable(g)
    /\ asgs[e][g] = "current" /\ desired[g] = 1 /\ life[g] = "none" => recent[g]
    /\ /\ asgs[e][g] = "current" /\ activities[e][g] # Unread
       /\ activities[e][g].status # "InProgress" /\ ~activities[e][g].recent
       => Expendable(g)

Chosen(e) ==
    IF next[e].action = "in" THEN Expendable(next[e].group) ELSE Vacated(next[e].group)

FreshInv ==
    /\ Capacity
    /\ \A e \in Executions : /\ pc[e] = "read" => \A g \in Groups : Seen(e, g)
                             /\ pc[e] = "act" => Chosen(e)

(* While a round is under way, Auto Scaling keeps all of this true.        *)
LEMMA AutoScalingKeepsFresh ==
    ASSUME TypeOK, FreshInv, AutoScaling, UNCHANGED lambdaVars
    PROVE  FreshInv'
  <1> USE DEF TypeOK, Lives, Statuses
  <1>1. PICK g \in Groups : BeginTerminate(g) \/ BeginLaunch(g) \/ EndActivity(g)
                            \/ LaunchFails(g) \/ Age(g)
    BY DEF AutoScaling
  <1>2. Capacity'
    BY <1>1 DEF FreshInv, Capacity, BeginTerminate, BeginLaunch, EndActivity,
                LaunchFails, Age
  <1>3. ASSUME NEW e \in Executions, pc[e] \in {"read", "act"}, NEW h \in Groups
        PROVE  /\ Vacated(h) => Vacated(h)'
               /\ Replaceable(h) => Replaceable(h)'
               /\ Expendable(h) => Expendable(h)'
               /\ (desired[h] = 1 /\ life[h] = "none" => recent[h]) =>
                     (desired[h] = 1 /\ life[h] = "none" => recent[h])'
    <2> USE DEF FreshInv, Capacity, Vacated, Replaceable, Expendable
    <2>1. CASE BeginTerminate(g)
      BY <2>1 DEF BeginTerminate
    <2>2. CASE BeginLaunch(g)
      BY <2>2 DEF BeginLaunch
    <2>3. CASE EndActivity(g)
      BY <2>3 DEF EndActivity
    <2>4. CASE LaunchFails(g)
      BY <2>4 DEF LaunchFails
    <2>5. CASE Age(g)
      BY <1>3, <2>5 DEF Age, Ended
    <2> QED
      BY <1>1, <2>1, <2>2, <2>3, <2>4, <2>5
  <1>4. ASSUME NEW e \in Executions, pc[e] = "read", NEW h \in Groups
        PROVE  Seen(e, h)'
    BY <1>3, <1>4 DEF FreshInv, Seen, lambdaVars
  <1>5. ASSUME NEW e \in Executions, pc[e] = "act"
        PROVE  Chosen(e)'
    <2>1. next[e].group \in Groups
      BY ScaleAsgAssumption DEF Actions, NoAction, Groups
    <2> QED
      BY <1>3, <1>5, <2>1 DEF FreshInv, Chosen, lambdaVars
  <1> QED
    BY <1>2, <1>4, <1>5 DEF FreshInv, lambdaVars

(* What the reply of describe_auto_scaling_groups shows is true; an        *)
(* activity that is read later adds what it tells of a current group.      *)
LEMMA ReadingKeepsFresh ==
    ASSUME TypeOK, FreshInv, Single, NEW e \in Executions,
           Describe(e) \/ ReadActivity(e)
    PROVE  FreshInv'
  <1>1. UNCHANGED groupVars /\ pc'[e] = "read"
    BY DEF Describe, ReadActivity, Goto, TypeOK
  <1>2. Capacity'
    BY <1>1 DEF FreshInv, Capacity, groupVars
  <1>3. ASSUME Describe(e), NEW g \in Groups PROVE Seen(e, g)'
    <2>1. asgs'[e][g] = Show(g) /\ activities'[e][g] = Unread
      BY <1>3 DEF Describe, NothingRead, TypeOK
    <2> QED
      BY <1>1, <2>1 DEF Seen, Show, Vacated, Replaceable, FreshInv, Capacity, TypeOK,
                        Lives, groupVars
  <1>4. ASSUME ReadActivity(e), NEW h \in Groups PROVE Seen(e, h)'
    <2>1. PICK g \in Groups : activities' = [activities EXCEPT ![e][g] =
                                  [status |-> activity[g], recent |-> recent[g]]]
      BY <1>4 DEF ReadActivity
    <2>2. asgs' = asgs /\ Seen(e, h)
      BY <1>4 DEF ReadActivity, FreshInv
    <2>3. CASE h # g
      <3>1. activities'[e][h] = activities[e][h]
        BY <2>1, <2>3 DEF TypeOK
      <3> QED
        BY <1>1, <2>2, <3>1 DEF Seen, Vacated, Replaceable, Expendable, groupVars
    <2>4. CASE h = g
      <3>1. activities'[e][h] = [status |-> activity[h], recent |-> recent[h]]
        BY <2>1, <2>4 DEF TypeOK
      <3>2. activity[h] # "InProgress" => life[h] \in {"none", "serving"}
        BY DEF FreshInv, Capacity, TypeOK, Lives
      <3>3. desired[h] \in 0..1
        BY DEF TypeOK
      <3> QED
        BY <1>1, <2>2, <3>1, <3>2, <3>3 DEF Seen, Vacated, Replaceable, Expendable,
                                            groupVars
    <2> QED
      BY <2>3, <2>4
  <1> QED
    BY <1>1, <1>2, <1>3, <1>4 DEF FreshInv, Single

(* Whatever is chosen does no harm.                                        *)
LEMMA DecidingKeepsFresh ==
    ASSUME TypeOK, FreshInv, Single, NEW e \in Executions, Decide(e), pc'[e] = "act"
    PROVE  FreshInv'
  <1>1. /\ pc[e] = "read" /\ AllRead(e) /\ ~InProgress(e) /\ UNCHANGED groupVars
        /\ \E a \in NextActions(e) : next' = [next EXCEPT ![e] = a]
    BY DEF Decide, Reply, TypeOK
  <1>2. PICK a \in NextActions(e) : next'[e] = a
    BY <1>1 DEF TypeOK
  <1>3. \A g \in Groups : Seen(e, g)
    BY <1>1 DEF FreshInv
  <1>4. CASE Empty(e) # {}
    <2>1. a.action = "out" /\ a.group \in Empty(e)
      BY <1>4 DEF NextActions, Choice
    <2>2. Vacated(a.group)
      BY <1>3, <2>1 DEF Empty, Seen
    <2> QED
      BY <1>1, <1>2, <2>1, <2>2 DEF FreshInv, Single, Chosen, Capacity, Vacated,
                                    groupVars
  <1>5. CASE Empty(e) = {}
    <2>1. a.action = "in" /\ a.group \in ToScaleIn(e)
      BY <1>5 DEF NextActions, Choice
    <2>2. /\ a.group \in Groups
          /\ asgs[e][a.group] = "outdated" \/ ~activities[e][a.group].recent
      BY <2>1 DEF ToScaleIn
    <2>3. asgs[e][a.group] \in {"outdated", "current"}
      BY <1>5, <2>2 DEF Empty, TypeOK, Shown
    <2>4. activities[e][a.group] # Unread /\ activities[e][a.group].status # "InProgress"
      BY <1>1, <2>2 DEF AllRead, InProgress
    <2>5. Expendable(a.group)
      BY <1>3, <2>2, <2>3, <2>4 DEF Seen, Replaceable, Expendable
    <2> QED
      BY <1>1, <1>2, <2>1, <2>5 DEF FreshInv, Single, Chosen, Capacity, Expendable,
                                    groupVars
  <1> QED
    BY <1>4, <1>5

(* With a single execution, what a round has seen and chosen is still      *)
(* harmless when it acts.                                                  *)
LEMMA FreshInvariant ==
    ASSUME Single
    PROVE  Spec => []FreshInv
  <1>1. Init => FreshInv
    BY DEF Init, FreshInv, Capacity
  <1>2. TypeOK /\ FreshInv /\ [Next]_vars => FreshInv'
    <2> SUFFICES ASSUME TypeOK, FreshInv, [Next]_vars PROVE FreshInv'
      OBVIOUS
    <2>1. ASSUME UNCHANGED groupVars, \A e \in Executions : pc'[e] \notin {"read", "act"}
          PROVE  FreshInv'
      BY <2>1 DEF FreshInv, Capacity, groupVars
    <2>2. ASSUME NEW e \in Executions, Lambda(e) PROVE FreshInv'
      <3>1. CASE Decide(e)
        <4>1. pc'[e] \in {"act", "wait"} /\ UNCHANGED groupVars
          BY <3>1 DEF Decide, Reply, TypeOK
        <4> QED
          BY <2>1, <3>1, <4>1, DecidingKeepsFresh DEF Single
      <3>2. CASE Act(e)
        <4> DEFINE g == next[e].group
                   capacity == IF next[e].action = "in" THEN 0 ELSE 1
        <4>1. g \in Groups
          BY ScaleAsgAssumption DEF TypeOK, Actions, NoAction, Groups
        <4>2. /\ desired'[g] = capacity
              /\ \A h \in Groups \ {g} : desired'[h] = desired[h]
          BY <3>2, <4>1 DEF Act, TypeOK
        <4>3. /\ UNCHANGED <<life, outdated, activity>> /\ pc'[e] = "acted"
              /\ Chosen(e)
          BY <3>2 DEF Act, Goto, TypeOK, FreshInv
        <4>4. Capacity'
          BY <4>1, <4>2, <4>3 DEF FreshInv, Capacity, Chosen, Vacated
        <4> QED
          BY <4>3, <4>4 DEF FreshInv, Single
      <3>3. CASE Answer(e) \/ CallFails(e) \/ NextRound(e) \/ Leave(e)
                 \/ Raise(e) \/ Retry(e)
        <4>1. pc'[e] \notin {"read", "act"} /\ UNCHANGED groupVars
          BY <3>3 DEF Answer, CallFails, Reply, NextRound, Leave, Raise, Retry, Forget,
                      Goto, TypeOK
        <4> QED
          BY <2>1, <4>1 DEF Single
      <3> QED
        BY <2>2, <3>1, <3>2, <3>3, ReadingKeepsFresh DEF Lambda
    <2>3. CASE UNCHANGED vars
      BY <2>3 DEF vars, groupVars, lambdaVars, FreshInv, Capacity, Seen, Chosen,
                  Vacated, Replaceable, Expendable
    <2> QED
      BY <2>2, <2>3, AutoScalingKeepsFresh DEF Next
  <1> QED
    BY <1>1, <1>2, TypeCorrect, PTL DEF Spec

(* One execution never scales in an instance that tells the version of its *)
(* group and was launched less than ten minutes ago, although it reads the       *)
(* groups and their activities at different times, and other groups may    *)
(* fail to launch, or be retried, in between (autorecycle.py 72-87).       *)
THEOREM FreshInstancesAreKept ==
    ASSUME Single
    PROVE  Spec => FreshInstancesStay
  <1> DEFINE Kept ==
        \A g \in Groups : desired[g] = 1 /\ desired'[g] = 0 /\ life[g] = "serving" =>
            outdated[g] \/ g \in Versionless \/ ~recent[g]
  <1>1. TypeOK /\ FreshInv /\ [Next]_vars => [Kept]_vars
    <2> SUFFICES ASSUME TypeOK, FreshInv, Next,
                        NEW g \in Groups, desired[g] = 1, desired'[g] = 0
                 PROVE  outdated[g] \/ g \in Versionless \/ ~recent[g]
      OBVIOUS
    <2>0. desired' # desired
      OBVIOUS
    <2>1. PICK e \in Executions : Act(e)
      <3>1. ASSUME NEW e \in Executions, Lambda(e), ~Act(e) PROVE desired' = desired
        BY <3>1 DEF Lambda, Describe, ReadActivity, Decide, Answer, CallFails, NextRound,
                    Leave, Raise, Retry, Forget, groupVars
      <3>2. ASSUME AutoScaling PROVE desired' = desired
        BY <3>2 DEF AutoScaling, BeginTerminate, BeginLaunch, EndActivity, LaunchFails,
                    Age
      <3> QED
        BY <2>0, <3>1, <3>2 DEF Next
    <2>2. g = next[e].group /\ next[e].action = "in" /\ pc[e] = "act"
      BY <2>1 DEF Act, Goto, TypeOK
    <2> QED
      BY <2>2 DEF FreshInv, Chosen, Expendable
  <1> QED
    BY <1>1, TypeCorrect, FreshInvariant, PTL DEF Spec, FreshInstancesStay
=============================================================================
