------------------------ MODULE AutorecycleGroupProofs ------------------------
(***************************************************************************)
(* What the state machine "autorecycle" and Auto Scaling do to the group:  *)
(* types, what the monitor recognises, and what remains when executions    *)
(* cancel each other's refresh.                                            *)
(***************************************************************************)
EXTENDS AutorecycleProofs, SequenceTheorems

(* The operators on the group.                                             *)

LEMMA AgedGroup ==
    ASSUME NEW g \in Seq(Instances), NEW n \in Nat
    PROVE  /\ Aged(g, n) \in Seq(Instances)
           /\ Len(Aged(g, n)) = Len(g)
           /\ \A i \in 1 .. Len(g) :
                 /\ Aged(g, n)[i].version = g[i].version
                 /\ Aged(g, n)[i].burst = g[i].burst
                 /\ Aged(g, n)[i].serves = g[i].serves
                 /\ Aged(g, n)[i].later \in Nat
                 /\ Aged(g, n)[i].later <= g[i].later + n
<1> DEFINE a(i) == [g[i] EXCEPT !.later = IF @ + n > MaxRecords THEN MaxRecords ELSE @ + n]
<1>1. Len(g) \in Nat /\ DOMAIN g = 1 .. Len(g) /\ \A i \in 1 .. Len(g) : g[i] \in Instances
  BY LenProperties, ElementOfSeq
<1>2. ASSUME NEW i \in 1 .. Len(g)
      PROVE  /\ a(i) \in Instances
             /\ a(i).version = g[i].version /\ a(i).burst = g[i].burst
             /\ a(i).serves = g[i].serves /\ a(i).later \in Nat
             /\ a(i).later <= g[i].later + n
  <2>1. g[i] \in Instances /\ g[i].later \in 0 .. MaxRecords /\ MaxRecords \in Nat
    BY <1>1, MachineAssumption DEF Instances
  <2> DEFINE x == IF g[i].later + n > MaxRecords THEN MaxRecords ELSE g[i].later + n
  <2>2. x \in 0 .. MaxRecords /\ x \in Nat /\ x <= g[i].later + n
    BY <2>1
  <2>3. a(i) = [g[i] EXCEPT !.later = x]
    OBVIOUS
  <2> HIDE DEF x, a
  <2> QED
    BY <2>1, <2>2, <2>3 DEF Instances
<1>3. Aged(g, n) = [i \in 1 .. Len(g) |-> a(i)]
  BY <1>1 DEF Aged
<1>4. [i \in 1 .. Len(g) |-> a(i)] \in Seq(Instances)
  <2> HIDE DEF a
  <2> QED
    BY <1>1, <1>2, IsASeq
<1>5. Len(Aged(g, n)) = Len(g)
  <2> HIDE DEF a
  <2>1. DOMAIN Aged(g, n) = 1 .. Len(g)
    BY <1>3
  <2> QED
    BY <1>1, <1>3, <1>4, <2>1, LenProperties
<1> QED
  BY <1>2, <1>3, <1>4, <1>5

LEMMA GroupWithout ==
    ASSUME group \in Seq(Instances), NEW i \in 1 .. Len(group)
    PROVE  /\ Without(i) \in Seq(Instances)
           /\ Len(Without(i)) = Len(group) - 1
           /\ \A j \in 1 .. Len(group) - 1 :
                 Without(i)[j] = IF j < i THEN group[j] ELSE group[j + 1]
<1>1. Len(group) \in Nat /\ \A k \in 1 .. Len(group) : group[k] \in Instances
  BY LenProperties, ElementOfSeq
<1> DEFINE s == SubSeq(group, 1, i - 1)
           t == SubSeq(group, i + 1, Len(group))
<1>2. /\ s \in Seq(Instances) /\ Len(s) = i - 1
      /\ \A k \in 1 .. i - 1 : s[k] = group[k]
  <2>1. \A k \in 1 .. i - 1 : group[k] \in Instances
    BY <1>1
  <2>2. /\ s \in Seq(Instances) /\ Len(s) = IF 1 <= i - 1 THEN (i - 1) - 1 + 1 ELSE 0
        /\ \A k \in 1 .. (i - 1) - 1 + 1 : s[k] = group[1 + k - 1]
    BY <1>1, <2>1, SubSeqProperties
  <2> QED
    BY <1>1, <2>2
<1>3. /\ t \in Seq(Instances) /\ Len(t) = Len(group) - i
      /\ \A k \in 1 .. Len(group) - i : t[k] = group[i + k]
  <2>1. \A k \in i + 1 .. Len(group) : group[k] \in Instances
    BY <1>1
  <2>2. /\ t \in Seq(Instances)
        /\ Len(t) = IF i + 1 <= Len(group) THEN Len(group) - (i + 1) + 1 ELSE 0
        /\ \A k \in 1 .. Len(group) - (i + 1) + 1 : t[k] = group[(i + 1) + k - 1]
    BY <1>1, <2>1, SubSeqProperties
  <2> QED
    BY <1>1, <2>2
<1>4. /\ Without(i) \in Seq(Instances) /\ Len(Without(i)) = Len(s) + Len(t)
      /\ \A j \in 1 .. Len(s) + Len(t) :
            Without(i)[j] = IF j <= Len(s) THEN s[j] ELSE t[j - Len(s)]
  BY <1>2, <1>3, ConcatProperties DEF Without
<1> HIDE DEF s, t
<1>5. ASSUME NEW j \in 1 .. Len(group) - 1
      PROVE  Without(i)[j] = IF j < i THEN group[j] ELSE group[j + 1]
  <2>1. CASE j < i
    <3>1. j \in 1 .. i - 1 /\ j <= Len(s) /\ j \in 1 .. Len(s) + Len(t)
      BY <1>1, <1>2, <1>3, <2>1
    <3>2. Without(i)[j] = s[j] /\ s[j] = group[j]
      BY <1>2, <1>4, <3>1
    <3> QED
      BY <2>1, <3>2
  <2>2. CASE ~(j < i)
    <3> DEFINE k == j - Len(s)
    <3>1. /\ k \in 1 .. Len(group) - i /\ i + k = j + 1
          /\ ~(j <= Len(s)) /\ j \in 1 .. Len(s) + Len(t)
      BY <1>1, <1>2, <1>3, <2>2
    <3>2. Without(i)[j] = t[k]
      BY <1>4, <3>1
    <3>3. t[k] = group[i + k]
      BY <1>3, <3>1
    <3> QED
      BY <2>2, <3>1, <3>2, <3>3
  <2> QED
    BY <2>1, <2>2
<1> QED
  BY <1>1, <1>2, <1>3, <1>4, <1>5

LEMMA YoungerHalf ==
    ASSUME group \in Seq(Instances), Len(group) = 2 * Size
    PROVE  LET half == SubSeq(group, Size + 1, 2 * Size)
           IN /\ half \in Seq(Instances) /\ Len(half) = Size
              /\ \A i \in 1 .. Size : half[i] = group[Size + i]
<1>1. Size \in Nat \ {0} /\ \A k \in Size + 1 .. 2 * Size : group[k] \in Instances
  BY MachineAssumption, ElementOfSeq
<1> DEFINE half == SubSeq(group, Size + 1, 2 * Size)
<1>2. /\ half \in Seq(Instances)
      /\ Len(half) = IF Size + 1 <= 2 * Size THEN 2 * Size - (Size + 1) + 1 ELSE 0
      /\ \A k \in 1 .. 2 * Size - (Size + 1) + 1 : half[k] = group[(Size + 1) + k - 1]
  BY <1>1, SubSeqProperties
<1> HIDE DEF half
<1>3. half \in Seq(Instances) /\ Len(half) = Size
  BY <1>1, <1>2
<1>4. ASSUME NEW i \in 1 .. Size PROVE half[i] = group[Size + i]
  <2>1. i \in 1 .. 2 * Size - (Size + 1) + 1 /\ (Size + 1) + i - 1 = Size + i
    BY <1>1
  <2> QED
    BY <1>2, <2>1
<1> QED
  BY <1>3, <1>4 DEF half
-----------------------------------------------------------------------------
(* Types.  The half that is taken away is one only because the group has   *)
(* its double size whenever the consumer works; and no execution looks     *)
(* again after the look that was one too many.                             *)

Staffed == desired = 2 * Size <=> work # None

LooksLeft == \A e \in Executions : pc[e] # "end" => counter[e] <= Looks

MachineInv == TypeOK /\ Staffed /\ LooksLeft

LEMMA InitMachine == Init => MachineInv
<1> SUFFICES ASSUME Init PROVE MachineInv
  OBVIOUS
<1>1. InvokeTypeOK
  BY InitServes DEF Init, ServedInv
<1>2. group \in Seq(Instances)
  <2> DEFINE a(i) == [version |-> 0, burst |-> 0, later |-> 0, serves |-> TRUE]
  <2>1. desired \in Nat /\ group = [i \in 1 .. desired |-> a(i)]
    BY MachineAssumption DEF Init
  <2>2. \A i \in 1 .. desired : a(i) \in Instances
    BY MachineAssumption DEF Instances
  <2> HIDE DEF a
  <2> QED
    BY <2>1, <2>2, IsASeq
<1> USE MachineAssumption DEF Init
<1>3. /\ pc \in [Executions -> Tasks \cup {"start", "progress", "end"} \cup Ended]
      /\ status \in [Executions -> {"none", "success", "failure", "failed", "fail"}]
      /\ counter \in [Executions -> 0 .. Looks + 1]
      /\ first \in [Executions -> Nat]
      /\ refresh \in [Executions ->
            Active \cup {"none", "declined", "Cancelled", "Successful", "Failed"}]
  OBVIOUS
<1>4. TypeOK
  BY <1>1, <1>2, <1>3 DEF TypeOK
<1> QED
  BY <1>4 DEF MachineInv, Staffed, LooksLeft

LEMMA ReplaceTypes ==
    ASSUME MachineInv, NEW i \in DOMAIN group, ReplaceOne(i)
    PROVE  group' \in Seq(Instances) /\ leaving' \in Nat /\ burst' \in Nat
<1>1. group \in Seq(Instances) /\ leaving \in Nat /\ burst \in Nat
  BY DEF MachineInv, TypeOK
<1>2. Without(i) \in Seq(Instances)
  BY <1>1, GroupWithout, LenProperties
<1>3. group' = Aged(Without(i), 1) /\ leaving' = leaving + 1 /\ burst' = burst + 1
  BY DEF ReplaceOne, Terminate
<1> QED
  BY <1>1, <1>2, <1>3, AgedGroup

(* The group has its double size: its younger half remains.                *)
LEMMA TakeAwayHalf ==
    ASSUME MachineInv, TakeAway
    PROVE  /\ desired = 2 * Size /\ Len(group) = 2 * Size
           /\ group' = Aged(SubSeq(group, Size + 1, 2 * Size), Size)
BY DEF MachineInv, Staffed, TakeAway, Whole, Terminate

LEMMA AutoScalingTypes ==
    ASSUME MachineInv, InvokeTypeOK', AutoScaling, UNCHANGED <<invokeVars, flowVars>>
    PROVE  MachineInv'
<1>1. TypeOK /\ Staffed /\ LooksLeft
  BY DEF MachineInv
<1> USE MachineAssumption DEF flowVars
<1>2. LooksLeft' /\ UNCHANGED <<pc, status, counter>>
  BY <1>1 DEF LooksLeft
<1>3. CASE RefreshEnds
  <2>1. PICK to \in Active \cup {"Cancelled", "Successful", "Failed"} :
            /\ refresh' = [refresh EXCEPT ![latest] = to]
            /\ UNCHANGED <<groupVars, queueVars, latest, goal>>
    BY <1>3 DEF RefreshEnds, RefreshStep, Active
  <2> QED
    BY <1>1, <1>2, <2>1 DEF MachineInv, TypeOK, Staffed, groupVars, queueVars, Active
<1>4. CASE Launch
  <2>1. burst' \in Nat /\ disturbed' \in 0 .. MaxDisturbed
    BY <1>1, <1>4 DEF Launch, Disturb, TypeOK
  <2>2. [version |-> version, burst |-> burst', later |-> 0, serves |-> FALSE]
            \in Instances
    BY <1>1, <2>1 DEF TypeOK, InvokeTypeOK, Instances
  <2>3. Aged(group, 1) \in Seq(Instances)
    BY <1>1, AgedGroup DEF TypeOK
  <2>4. group' \in Seq(Instances)
    BY <1>4, <2>2, <2>3, AppendProperties DEF Launch
  <2> QED
    BY <1>1, <1>2, <1>4, <2>1, <2>4
    DEF Launch, MachineInv, TypeOK, Staffed, queueVars, refreshVars
<1>5. CASE Gone
  BY <1>1, <1>2, <1>5 DEF Gone, MachineInv, TypeOK, Staffed, queueVars, refreshVars
<1>6. CASE TakeAway
  <2>1. group' \in Seq(Instances)
    <3> DEFINE half == SubSeq(group, Size + 1, 2 * Size)
    <3>1. half \in Seq(Instances) /\ group' = Aged(half, Size)
      BY <1>1, <1>6, TakeAwayHalf, YoungerHalf DEF TypeOK
    <3> HIDE DEF half
    <3> QED
      BY <3>1, AgedGroup
  <2>2. leaving' \in Nat /\ desired' = Size /\ work' = None
    BY <1>1, <1>6 DEF TakeAway, Terminate, TypeOK
  <2> QED
    BY <1>1, <1>2, <1>6, <2>1, <2>2 DEF TakeAway, MachineInv, TypeOK, Staffed, refreshVars
<1>7. ASSUME NEW i \in DOMAIN group, Serve(i) PROVE MachineInv'
  <2>1. group' \in Seq(Instances)
    <3>1. i \in 1 .. Len(group) /\ group[i] \in Instances
      BY <1>1, LenProperties, ElementOfSeq DEF TypeOK
    <3>2. [group[i] EXCEPT !.serves = TRUE] \in Instances
      BY <3>1 DEF Instances
    <3>3. group' = [group EXCEPT ![i] = [group[i] EXCEPT !.serves = TRUE]]
      BY <1>7 DEF Serve
    <3> QED
      BY <1>1, <3>1, <3>2, <3>3, ExceptSeq DEF TypeOK
  <2> QED
    BY <1>1, <1>2, <1>7, <2>1
    DEF Serve, MachineInv, TypeOK, Staffed, queueVars, refreshVars
<1>8. ASSUME NEW i \in DOMAIN group, Lose(i) \/ RefreshReplaces(i) PROVE MachineInv'
  <2>1. ReplaceOne(i) /\ disturbed' \in 0 .. MaxDisturbed
    BY <1>1, <1>8 DEF Lose, RefreshReplaces, Disturb, TypeOK
  <2> QED
    BY <1>1, <1>2, <2>1, ReplaceTypes
    DEF ReplaceOne, MachineInv, TypeOK, Staffed, queueVars, refreshVars
<1>9. ASSUME NEW e \in Executions, Take(e) PROVE MachineInv'
  <2>1. first' \in [Executions -> Nat] /\ burst' \in Nat
    BY <1>1, <1>9 DEF Take, TypeOK
  <2>2. work' = e /\ work' # None /\ desired' = 2 * Size
    BY <1>9 DEF Take
  <2> QED
    BY <1>1, <1>2, <1>9, <2>1, <2>2 DEF Take, MachineInv, TypeOK, Staffed, refreshVars
<1> QED
  BY <1>3, <1>4, <1>5, <1>6, <1>7, <1>8, <1>9 DEF AutoScaling

(* A look is counted, the one too many too.                                *)
LEMMA MonitorTypes ==
    ASSUME MachineInv, InvokeTypeOK', NEW e \in Executions,
           MonitorDone(e) \/ MonitorAgain(e) \/ TakesTooLong(e)
    PROVE  MachineInv'
<1>1. TypeOK /\ Staffed /\ LooksLeft
  BY DEF MachineInv
<1> DEFINE Monitors(to, new) ==
        /\ pc[e] = "monitor" /\ pc' = [pc EXCEPT ![e] = to]
        /\ status' = [status EXCEPT ![e] = new]
<1>2. /\ counter' = [counter EXCEPT ![e] = counter[e] + 1]
      /\ UNCHANGED <<groupVars, queueVars, refreshVars>>
  BY DEF MonitorDone, MonitorAgain, TakesTooLong, Look, Flowing
<1>3. \/ counter[e] < Looks /\ \E to \in {"monitor", "end"} : Monitors(to, status[e])
      \/ Monitors("end", "fail")
  BY DEF MonitorDone, MonitorAgain, TakesTooLong, Goto
<1>4. /\ pc' \in [Executions -> Tasks \cup {"start", "progress", "end"} \cup Ended]
      /\ status' \in [Executions -> {"none", "success", "failure", "failed", "fail"}]
  BY <1>1, <1>3 DEF TypeOK, Tasks, Ended
<1>5. counter[e] \in 0 .. Looks + 1 /\ counter[e] <= Looks
  BY <1>1, <1>3 DEF TypeOK, LooksLeft
<1>6. counter[e] + 1 \in 0 .. Looks + 1
  BY <1>5, MachineAssumption
<1>7. counter' \in [Executions -> 0 .. Looks + 1]
  BY <1>1, <1>2, <1>6 DEF TypeOK
<1>8. LooksLeft'
  <2> SUFFICES ASSUME NEW f \in Executions, pc'[f] # "end" PROVE counter'[f] <= Looks
    BY DEF LooksLeft
  <2>1. CASE f = e
    <3>1. counter[e] < Looks
      BY <1>1, <1>3, <2>1 DEF TypeOK
    <3> QED
      BY <1>1, <1>2, <1>5, <2>1, <3>1, MachineAssumption DEF TypeOK
  <2>2. CASE f # e
    BY <1>1, <1>2, <1>3, <2>2 DEF TypeOK, LooksLeft
  <2> QED
    BY <2>1, <2>2
<1> QED
  BY <1>1, <1>2, <1>4, <1>7, <1>8
  DEF MachineInv, TypeOK, Staffed, groupVars, queueVars, refreshVars

LEMMA StepTypes ==
    ASSUME MachineInv, InvokeTypeOK', NEW e \in Executions, Step(e) \/ LosesData(e)
    PROVE  MachineInv'
<1> USE MachineAssumption
    DEF MachineInv, TypeOK, Staffed, LooksLeft, Goto, Flowing, groupVars, queueVars,
        refreshVars, Tasks, Ended, Active
<1>1. CASE ChooseStrategy(e)
  BY <1>1 DEF ChooseStrategy
<1>2. CASE End(e)
  BY <1>2 DEF End
<1>3. CASE SendToQueue(e) \/ SendFails(e)
  BY <1>3 DEF SendToQueue, SendFails
<1>4. CASE MonitorDone(e) \/ MonitorAgain(e) \/ TakesTooLong(e)
  BY <1>4, MonitorTypes
<1>5. CASE RefreshStatus(e)
  BY <1>5 DEF RefreshStatus
<1>6. CASE CancelRefresh(e)
  BY <1>6 DEF CancelRefresh
<1>7. CASE RefreshProgress(e)
  BY <1>7 DEF RefreshProgress
<1>8. CASE StartRefresh(e)
  BY <1>8 DEF StartRefresh, InvokeTypeOK
<1>9. CASE RefreshDeclined(e)
  BY <1>9 DEF RefreshDeclined
<1>10. CASE LambdaError(e)
  BY <1>10 DEF LambdaError
<1>11. CASE LosesData(e)
  BY <1>11 DEF LosesData
<1> QED
  BY <1>1, <1>2, <1>3, <1>4, <1>5, <1>6, <1>7, <1>8, <1>9, <1>10, <1>11 DEF Step

LEMMA MachineInvariant == Spec => []MachineInv
<1>1. MachineInv /\ ServedInv' /\ [Next]_vars => MachineInv'
  <2> SUFFICES ASSUME MachineInv, InvokeTypeOK', [Next]_vars PROVE MachineInv'
    BY DEF ServedInv
  <2>1. CASE InvokeNext /\ UNCHANGED <<groupVars, queueVars, refreshVars, flowVars>>
    BY <2>1 DEF MachineInv, TypeOK, Staffed, LooksLeft, groupVars, queueVars,
                refreshVars, flowVars
  <2>2. CASE UNCHANGED vars
    BY <2>2 DEF vars, MachineInv, TypeOK, Staffed, LooksLeft, groupVars, queueVars,
                refreshVars, flowVars
  <2> QED
    BY <2>1, <2>2, AutoScalingTypes, StepTypes DEF Next
<1> QED
  BY <1>1, InitMachine, ServedInvariant, PTL DEF Spec

(* Every variable keeps its type, for groups of any size: in particular    *)
(* the consumer takes away instances there are, and no execution looks     *)
(* more often than it may.                                                 *)
THEOREM TypeCorrect == Spec => []TypeOK
<1>1. MachineInv => TypeOK
  BY DEF MachineInv
<1> QED
  BY <1>1, MachineInvariant, PTL
-----------------------------------------------------------------------------
(* What becomes of the instances, step by step.                            *)

LEMMA LaunchedGroup ==
    ASSUME MachineInv, Launch
    PROVE  /\ Len(group') = Len(group) + 1 /\ burst' \in {burst, burst + 1}
           /\ group'[Len(group) + 1].version = version
           /\ group'[Len(group) + 1].burst = burst'
           /\ group'[Len(group) + 1].later = 0
           /\ \A i \in 1 .. Len(group) :
                 /\ group'[i].version = group[i].version
                 /\ group'[i].burst = group[i].burst
                 /\ group'[i].later \in Nat /\ group'[i].later <= group[i].later + 1
<1> DEFINE aged == Aged(group, 1)
           new == [version |-> version, burst |-> burst', later |-> 0, serves |-> FALSE]
<1>1. /\ group \in Seq(Instances) /\ Len(group) \in Nat
      /\ aged \in Seq(Instances) /\ Len(aged) = Len(group)
      /\ \A i \in 1 .. Len(group) :
            /\ aged[i].version = group[i].version /\ aged[i].burst = group[i].burst
            /\ aged[i].later \in Nat /\ aged[i].later <= group[i].later + 1
  BY AgedGroup, LenProperties DEF MachineInv, TypeOK
<1>2. new \in Instances
  BY MachineAssumption DEF Launch, Disturb, MachineInv, TypeOK, InvokeTypeOK, Instances
<1>3. group' = Append(aged, new) /\ burst' \in {burst, burst + 1}
  BY DEF Launch
<1>4. new.version = version /\ new.burst = burst' /\ new.later = 0
  OBVIOUS
<1> HIDE DEF aged, new
<1>5. /\ Len(group') = Len(group) + 1 /\ group'[Len(group) + 1] = new
      /\ \A i \in 1 .. Len(group) : group'[i] = aged[i]
  BY <1>1, <1>2, <1>3, AppendProperties
<1> QED
  BY <1>1, <1>3, <1>4, <1>5

LEMMA ServedGroup ==
    ASSUME MachineInv, NEW i \in DOMAIN group, Serve(i)
    PROVE  /\ Len(group') = Len(group)
           /\ \A j \in 1 .. Len(group) :
                 /\ group'[j].version = group[j].version
                 /\ group'[j].burst = group[j].burst
                 /\ group'[j].later = group[j].later
<1>1. /\ group \in Seq(Instances) /\ i \in 1 .. Len(group)
      /\ \A j \in 1 .. Len(group) : group[j] \in Instances
  BY LenProperties, ElementOfSeq DEF MachineInv, TypeOK
<1>2. group' = [group EXCEPT ![i] = [group[i] EXCEPT !.serves = TRUE]]
  BY DEF Serve
<1>3. [group[i] EXCEPT !.serves = TRUE] \in Instances
  BY <1>1 DEF Instances
<1>4. /\ Len(group') = Len(group)
      /\ \A j \in 1 .. Len(group) :
            group'[j] = IF j = i THEN [group[i] EXCEPT !.serves = TRUE] ELSE group[j]
  BY <1>1, <1>2, <1>3, ExceptSeq
<1>5. /\ [group[i] EXCEPT !.serves = TRUE].version = group[i].version
      /\ [group[i] EXCEPT !.serves = TRUE].burst = group[i].burst
      /\ [group[i] EXCEPT !.serves = TRUE].later = group[i].later
  BY <1>1 DEF Instances
<1> QED
  BY <1>4, <1>5

(* An instance is taken out, and what replaces it is still to come.        *)
LEMMA ReplacedGroup ==
    ASSUME MachineInv, NEW i \in DOMAIN group, ReplaceOne(i)
    PROVE  /\ Len(group') = Len(group) - 1 /\ burst' = burst + 1
           /\ \A j \in 1 .. Len(group') : \E k \in 1 .. Len(group) :
                 /\ group'[j].version = group[k].version
                 /\ group'[j].burst = group[k].burst
<1>1. group \in Seq(Instances) /\ i \in 1 .. Len(group) /\ Len(group) \in Nat
  BY LenProperties DEF MachineInv, TypeOK
<1>2. /\ Without(i) \in Seq(Instances) /\ Len(Without(i)) = Len(group) - 1
      /\ \A j \in 1 .. Len(group) - 1 :
            Without(i)[j] = IF j < i THEN group[j] ELSE group[j + 1]
  BY <1>1, GroupWithout
<1>3. group' = Aged(Without(i), 1) /\ burst' = burst + 1
  BY DEF ReplaceOne, Terminate
<1>4. /\ Len(group') = Len(Without(i))
      /\ \A j \in 1 .. Len(Without(i)) :
            /\ group'[j].version = Without(i)[j].version
            /\ group'[j].burst = Without(i)[j].burst
  BY <1>2, <1>3, AgedGroup
<1>5. ASSUME NEW j \in 1 .. Len(group')
      PROVE  \E k \in 1 .. Len(group) : /\ group'[j].version = group[k].version
                                        /\ group'[j].burst = group[k].burst
  <2> DEFINE k == IF j < i THEN j ELSE j + 1
  <2>1. j \in 1 .. Len(group) - 1 /\ k \in 1 .. Len(group)
    BY <1>1, <1>2, <1>4
  <2>2. Without(i)[j] = group[k]
    BY <1>2, <2>1
  <2> HIDE DEF k
  <2> QED
    BY <1>2, <1>4, <2>1, <2>2
<1> QED
  BY <1>2, <1>3, <1>4, <1>5

LEMMA HalvedGroup ==
    ASSUME MachineInv, TakeAway
    PROVE  /\ desired = 2 * Size /\ Len(group) = 2 * Size /\ Len(group') = Size
           /\ \A i \in 1 .. Size :
                 /\ group'[i].version = group[Size + i].version
                 /\ group'[i].burst = group[Size + i].burst
                 /\ group'[i].later \in Nat
                 /\ group'[i].later <= group[Size + i].later + Size
<1> DEFINE half == SubSeq(group, Size + 1, 2 * Size)
<1>1. group \in Seq(Instances) /\ Size \in Nat
  BY MachineAssumption DEF MachineInv, TypeOK
<1>2. desired = 2 * Size /\ Len(group) = 2 * Size /\ group' = Aged(half, Size)
  BY TakeAwayHalf
<1>3. /\ half \in Seq(Instances) /\ Len(half) = Size
      /\ \A i \in 1 .. Size : half[i] = group[Size + i]
  BY <1>1, <1>2, YoungerHalf
<1> HIDE DEF half
<1>4. /\ Len(group') = Len(half)
      /\ \A i \in 1 .. Len(half) :
            /\ group'[i].version = half[i].version /\ group'[i].burst = half[i].burst
            /\ group'[i].later \in Nat /\ group'[i].later <= half[i].later + Size
  BY <1>1, <1>2, <1>3, AgedGroup
<1> QED
  BY <1>2, <1>3, <1>4

(* Only these steps change the group or what is wanted of it.              *)
LEMMA GroupSteps ==
    ASSUME [Next]_vars
    PROVE  \/ UNCHANGED <<group, desired, burst>>
           \/ Launch \/ TakeAway
           \/ \E i \in DOMAIN group : Serve(i) \/ ReplaceOne(i)
           \/ \E e \in Executions : Take(e)
<1>1. CASE InvokeNext /\ UNCHANGED <<groupVars, queueVars, refreshVars, flowVars>>
  BY <1>1 DEF groupVars
<1>2. CASE AutoScaling
  BY <1>2 DEF AutoScaling, RefreshEnds, RefreshStep, Gone, Lose, RefreshReplaces, groupVars
<1>3. ASSUME NEW e \in Executions, Step(e) \/ LosesData(e)
      PROVE  UNCHANGED <<group, desired, burst>>
  BY <1>3 DEF Step, LosesData, ChooseStrategy, End, SendToQueue, SendFails, MonitorDone,
              MonitorAgain, TakesTooLong, RefreshStatus, CancelRefresh, RefreshProgress,
              StartRefresh, RefreshDeclined, LambdaError, Flowing, groupVars
<1>4. CASE UNCHANGED vars
  BY <1>4 DEF vars, groupVars
<1> QED
  BY <1>1, <1>2, <1>3, <1>4 DEF Next

(* An instance was there before, or it is launched with what is set now.   *)
LEMMA NoneInvented ==
    ASSUME MachineInv, [Next]_vars, NEW i \in 1 .. Len(group')
    PROVE  \/ /\ Launch /\ group'[i].version = version
              /\ group'[i].burst = burst' /\ burst' \in {burst, burst + 1}
           \/ \E j \in 1 .. Len(group) : /\ group'[i].version = group[j].version
                                         /\ group'[i].burst = group[j].burst
<1>1. group \in Seq(Instances) /\ Len(group) \in Nat /\ Size \in Nat
  BY MachineAssumption, LenProperties DEF MachineInv, TypeOK
<1>2. CASE UNCHANGED <<group, desired, burst>>
  BY <1>2
<1>3. CASE Launch
  <2>1. i \in 1 .. Len(group) \/ i = Len(group) + 1
    BY <1>1, <1>3, LaunchedGroup
  <2> QED
    BY <1>3, <2>1, LaunchedGroup
<1>4. CASE TakeAway
  <2>1. i \in 1 .. Size /\ Size + i \in 1 .. Len(group)
    BY <1>1, <1>4, HalvedGroup
  <2> QED
    BY <1>4, <2>1, HalvedGroup
<1>5. ASSUME NEW k \in DOMAIN group, Serve(k) \/ ReplaceOne(k)
      PROVE  \E j \in 1 .. Len(group) : /\ group'[i].version = group[j].version
                                        /\ group'[i].burst = group[j].burst
  BY <1>5, ServedGroup, ReplacedGroup
<1>6. CASE \E e \in Executions : Take(e)
  BY <1>6 DEF Take
<1> QED
  BY <1>2, <1>3, <1>4, <1>5, <1>6, GroupSteps
-----------------------------------------------------------------------------
(* What the monitor recognises.  Where the group is complete, its youngest *)
(* instance is of the last burst; and the activities that follow a launch  *)
(* of the last burst are the launches after it and, once the consumer has  *)
(* taken the older half away, as many terminations as the group is large.  *)

TakenAway == IF desired = Size THEN Size ELSE 0

Complete == Len(group) = desired /\ group # <<>>

Capacity ==
    /\ Len(group) <= desired
    /\ Complete => group[Len(group)].burst = burst
    /\ \A i \in 1 .. Len(group) :
          /\ group[i].burst <= burst
          /\ group[i].burst = burst => group[i].later <= (Len(group) - i) + TakenAway

LEMMA GroupFacts ==
    ASSUME MachineInv
    PROVE  /\ group \in Seq(Instances) /\ Len(group) \in Nat
           /\ Size \in Nat \ {0} /\ desired \in {0, Size, 2 * Size} /\ burst \in Nat
           /\ \A i \in 1 .. Len(group) : /\ group[i].version \in Nat
                                         /\ group[i].burst \in Nat
                                         /\ group[i].later \in Nat
<1>1. /\ group \in Seq(Instances)
      /\ \A i \in 1 .. Len(group) : group[i] \in Instances
  BY ElementOfSeq DEF MachineInv, TypeOK
<1>2. \A i \in 1 .. Len(group) : /\ group[i].version \in Nat
                                 /\ group[i].burst \in Nat
                                 /\ group[i].later \in Nat
  BY <1>1, MachineAssumption DEF Instances
<1> QED
  BY <1>1, <1>2, LenProperties, MachineAssumption DEF MachineInv, TypeOK

LEMMA InitCapacity == Init => Capacity
<1> SUFFICES ASSUME Init PROVE Capacity
  OBVIOUS
<1>1. desired \in Nat /\ group \in Seq(Instances) /\ burst = 0
  BY InitMachine, MachineAssumption DEF Init, MachineInv, TypeOK
<1>2. DOMAIN group = 1 .. desired
  BY DEF Init
<1>3. Len(group) = desired
  BY <1>1, <1>2, LenProperties
<1>4. \A i \in 1 .. Len(group) : group[i].burst = 0 /\ group[i].later = 0
  BY <1>3 DEF Init
<1>5. TakenAway \in Nat
  BY MachineAssumption DEF TakenAway
<1>6. Complete => Len(group) \in 1 .. Len(group)
  <2>1. Len(group) = 0 => group = <<>>
    BY <1>1, EmptySeq
  <2> QED
    BY <1>1, <1>3, <2>1 DEF Complete
<1> QED
  BY <1>1, <1>3, <1>4, <1>5, <1>6 DEF Capacity

LEMMA LaunchKeepsCapacity ==
    ASSUME MachineInv, Capacity, Launch
    PROVE  Capacity'
<1> DEFINE n == Len(group)
<1>1. /\ n \in Nat /\ burst \in Nat /\ n + 1 <= desired /\ desired' = desired
      /\ TakenAway \in Nat /\ TakenAway' = TakenAway
  BY GroupFacts DEF Launch, TakenAway
<1>2. Len(group') = n + 1 /\ burst' \in {burst, burst + 1}
  BY LaunchedGroup
<1>3. ASSUME NEW i \in 1 .. n
      PROVE  /\ group'[i].burst <= burst'
             /\ group'[i].burst = burst' => group'[i].later <= (n + 1 - i) + TakenAway
  <2>1. /\ group'[i].burst = group[i].burst /\ group'[i].later \in Nat
        /\ group'[i].later <= group[i].later + 1
        /\ group[i].burst \in Nat /\ group[i].later \in Nat
    BY LaunchedGroup, GroupFacts
  <2>2. /\ group[i].burst <= burst
        /\ group[i].burst = burst => group[i].later <= (n - i) + TakenAway
    BY DEF Capacity
  <2> HIDE DEF n
  <2> QED
    BY <1>1, <1>2, <2>1, <2>2
<1>4. group'[n + 1].burst = burst' /\ group'[n + 1].later = 0
  BY LaunchedGroup
<1> HIDE DEF n
<1>5. ASSUME NEW i \in 1 .. Len(group')
      PROVE  /\ group'[i].burst <= burst'
             /\ group'[i].burst = burst' =>
                   group'[i].later <= (Len(group') - i) + TakenAway'
  <2>1. i \in 1 .. n \/ i = n + 1
    BY <1>1, <1>2
  <2> QED
    BY <1>1, <1>2, <1>3, <1>4, <2>1
<1> QED
  BY <1>1, <1>2, <1>4, <1>5 DEF Capacity, Complete

LEMMA TakeAwayKeepsCapacity ==
    ASSUME MachineInv, Capacity, TakeAway
    PROVE  Capacity'
<1>1. /\ Size \in Nat \ {0} /\ burst \in Nat /\ burst' = burst /\ desired' = Size
      /\ TakenAway' = Size
  BY GroupFacts DEF TakeAway, TakenAway
<1>2. /\ desired = 2 * Size /\ Len(group) = 2 * Size /\ Len(group') = Size
      /\ TakenAway = 0
  BY <1>1, HalvedGroup DEF TakenAway
<1>3. ASSUME NEW i \in 1 .. Size
      PROVE  /\ group'[i].burst <= burst
             /\ group'[i].burst = burst => group'[i].later <= (Size - i) + Size
  <2> DEFINE k == Size + i
  <2>1. k \in 1 .. Len(group) /\ Len(group) - k = Size - i
    BY <1>1, <1>2
  <2>2. /\ group[k].burst <= burst
        /\ group[k].burst = burst => group[k].later <= (Len(group) - k) + TakenAway
    BY <2>1 DEF Capacity
  <2>3. group[k].later \in Nat
    BY <2>1, GroupFacts
  <2>4. /\ group'[i].burst = group[k].burst /\ group'[i].later \in Nat
        /\ group'[i].later <= group[k].later + Size
    BY HalvedGroup
  <2> HIDE DEF k
  <2> QED
    BY <1>1, <1>2, <2>1, <2>2, <2>3, <2>4
<1>4. group'[Size].burst = burst
  <2>1. Complete
    <3>1. Len(<<>>) = 0
      OBVIOUS
    <3> QED
      BY <1>1, <1>2, <3>1 DEF Complete
  <2>2. Size \in 1 .. Size /\ Len(group) = Size + Size
    BY <1>1, <1>2
  <2>3. group'[Size].burst = group[Size + Size].burst
    BY <2>2, HalvedGroup
  <2> QED
    BY <2>1, <2>2, <2>3 DEF Capacity
<1> QED
  BY <1>1, <1>2, <1>3, <1>4 DEF Capacity, Complete

LEMMA StepKeepsCapacity == MachineInv /\ Capacity /\ [Next]_vars => Capacity'
<1> SUFFICES ASSUME MachineInv, Capacity, [Next]_vars PROVE Capacity'
  OBVIOUS
<1>1. /\ group \in Seq(Instances) /\ Len(group) \in Nat /\ Size \in Nat \ {0}
      /\ desired \in {0, Size, 2 * Size} /\ burst \in Nat
  BY GroupFacts
<1>2. CASE UNCHANGED <<group, desired, burst>>
  BY <1>2 DEF Capacity, Complete, TakenAway
<1>3. ASSUME NEW i \in DOMAIN group, Serve(i) PROVE Capacity'
  <2>1. /\ Len(group') = Len(group) /\ UNCHANGED <<desired, burst>>
        /\ \A j \in 1 .. Len(group) :
              /\ group'[j].burst = group[j].burst /\ group'[j].later = group[j].later
    BY <1>3, ServedGroup DEF Serve
  <2>2. Complete' => Complete /\ Len(group) \in 1 .. Len(group)
    <3>1. i \in 1 .. Len(group)
      BY <1>1, LenProperties
    <3>2. group # <<>>
      BY <3>1
    <3> QED
      BY <1>1, <2>1, <3>1, <3>2 DEF Complete
  <2> QED
    BY <2>1, <2>2 DEF Capacity, Complete, TakenAway
<1>4. ASSUME NEW i \in DOMAIN group, ReplaceOne(i) PROVE Capacity'
  <2>1. /\ Len(group') = Len(group) - 1 /\ burst' = burst + 1 /\ desired' = desired
        /\ \A j \in 1 .. Len(group') : \E k \in 1 .. Len(group) :
              group'[j].burst = group[k].burst
    BY <1>4, ReplacedGroup DEF ReplaceOne
  <2>2. \A k \in 1 .. Len(group) : group[k].burst \in Nat /\ group[k].burst <= burst
    BY GroupFacts DEF Capacity
  <2>3. \A j \in 1 .. Len(group') : group'[j].burst <= burst' /\ group'[j].burst # burst'
    BY <1>1, <2>1, <2>2
  <2>4. Len(group') <= desired' /\ ~Complete'
    BY <1>1, <2>1 DEF Capacity, Complete
  <2> QED
    BY <2>3, <2>4 DEF Capacity
<1>5. ASSUME NEW e \in Executions, Take(e) PROVE Capacity'
  <2>1. /\ group' = group /\ desired = Size /\ desired' = 2 * Size /\ burst' = burst + 1
    BY <1>5 DEF Take
  <2>2. \A k \in 1 .. Len(group) : group[k].burst \in Nat /\ group[k].burst <= burst
    BY GroupFacts DEF Capacity
  <2>3. \A k \in 1 .. Len(group') : group'[k].burst <= burst' /\ group'[k].burst # burst'
    BY <1>1, <2>1, <2>2
  <2>4. Len(group') <= desired' /\ ~Complete'
    BY <1>1, <2>1 DEF Capacity, Complete
  <2> QED
    BY <2>3, <2>4 DEF Capacity
<1> QED
  BY <1>2, <1>3, <1>4, <1>5, GroupSteps, LaunchKeepsCapacity, TakeAwayKeepsCapacity

LEMMA CapacityInvariant == Spec => [](MachineInv /\ Capacity)
BY MachineInvariant, InitCapacity, StepKeepsCapacity, PTL DEF Spec

(* Twenty activities are read: those of a group of up to ten instances.    *)
RecordsCondition == 2 * Size <= MaxRecords

(* Where twice as many activities are read as the group has instances, a   *)
(* complete recycling is recognised, however often instances were lost     *)
(* before (monitor_autorecycle/main.py 49).                                *)
THEOREM CompleteIsRecognised ==
    ASSUME RecordsCondition
    PROVE  Spec => []RecognisedWhenDone
<1>1. MachineInv /\ Capacity => RecognisedWhenDone
  <2> SUFFICES ASSUME MachineInv, Capacity, work = None, Whole, leaving = 0,
                      \A i, j \in DOMAIN group : group[i].burst = group[j].burst,
                      desired # 0
               PROVE  Recycled
    BY DEF RecognisedWhenDone, LooksDone
  <2>1. /\ group \in Seq(Instances) /\ DOMAIN group = 1 .. Len(group)
        /\ Size \in Nat \ {0} /\ MaxRecords \in Nat
    BY GroupFacts, LenProperties, MachineAssumption
  <2>2. desired = Size /\ Len(group) = Size /\ TakenAway = Size
    BY GroupFacts DEF MachineInv, Staffed, Whole, TakenAway
  <2>3. group # <<>> /\ Len(group) \in 1 .. Len(group)
    <3>1. Len(<<>>) = 0
      OBVIOUS
    <3> QED
      BY <2>1, <2>2, <3>1
  <2>4. group[Len(group)].burst = burst
    BY <2>2, <2>3 DEF Capacity, Complete
  <2>5. ASSUME NEW i \in DOMAIN group PROVE Recorded(group[i])
    <3>1. i \in 1 .. Len(group) /\ group[i].burst = burst /\ group[i].later \in Nat
      BY <2>1, <2>3, <2>4, GroupFacts
    <3>2. group[i].later <= (Len(group) - i) + TakenAway
      BY <3>1 DEF Capacity
    <3> QED
      BY <2>1, <2>2, <3>1, <3>2 DEF Recorded, RecordsCondition
  <2> QED
    BY <2>3, <2>5 DEF Recycled, Whole
<1> QED
  BY <1>1, CapacityInvariant, PTL
-----------------------------------------------------------------------------
(* What success says of the versions.  No version is ahead of the one that *)
(* is set; and the instances of the burst of an execution's recycling, or  *)
(* of a later one, were launched after the execution was started.          *)

Versions ==
    /\ \A i \in 1 .. Len(group) : group[i].version <= version
    /\ \A e \in Executions : since[e] <= version

Begun ==
    \A e \in Executions :
        /\ pc[e] # "start" => input[e] # None
        /\ first[e] > 0 => pc[e] \in {"monitor", "end"}

Own ==
    \A e \in Executions : first[e] > 0 =>
        \A i \in 1 .. Len(group) :
            group[i].burst >= first[e] => group[i].version >= since[e]

OwnInv == Versions /\ Begun /\ Own

(* Versions grow, and executions are started with the one that is set.     *)
LEMMA InvokeSteps ==
    ASSUME MachineInv, [Next]_vars
    PROVE  /\ version \in Nat /\ version' \in {version, version + 1}
           /\ input \in [Executions -> Strategies \cup {None}]
           /\ since \in [Executions -> Nat]
           /\ \/ UNCHANGED <<input, since>>
              \/ /\ UNCHANGED <<version, groupVars, queueVars, refreshVars, flowVars>>
                 /\ \E e \in Executions :
                       /\ input[e] = None /\ strategy # None
                       /\ input' = [input EXCEPT ![e] = strategy]
                       /\ since' = [since EXCEPT ![e] = version]
<1>1. /\ version \in Nat /\ input \in [Executions -> Strategies \cup {None}]
      /\ since \in [Executions -> Nat]
  BY DEF MachineInv, TypeOK, InvokeTypeOK
<1>2. CASE UNCHANGED invokeVars
  BY <1>1, <1>2 DEF invokeVars
<1>3. CASE InvokeNext /\ UNCHANGED <<groupVars, queueVars, refreshVars, flowVars>>
  <2>1. CASE Group
    BY <1>1, <2>1 DEF Group, UpdateTemplate, UpdateOther, ChangeTags, Tick,
                      Send
  <2>2. ASSUME NEW ev \in pending, Ignore(ev) \/ StartRefused(ev) \/ StartFails(ev)
        PROVE  UNCHANGED <<version, input, since>>
    BY <2>2 DEF Ignore, StartRefused, StartFails, Drop
  <2>3. ASSUME NEW ev \in pending, NEW e \in Executions, StartExecution(ev, e)
        PROVE  /\ UNCHANGED version /\ input[e] = None /\ strategy # None
               /\ input' = [input EXCEPT ![e] = strategy]
               /\ since' = [since EXCEPT ![e] = version]
    BY <2>3 DEF StartExecution, Asks, Recyclable
  <2> QED
    BY <1>1, <1>3, <2>1, <2>2, <2>3 DEF InvokeNext, Handle
<1> QED
  BY <1>2, <1>3 DEF Next, vars, invokeVars

(* An execution moves by its own steps.                                    *)
LEMMA OwnSteps ==
    ASSUME MachineInv, [Next]_vars, NEW e \in Executions
    PROVE  \/ Step(e) \/ LosesData(e)
           \/ /\ pc'[e] = pc[e] /\ status'[e] = status[e]
              /\ \/ first'[e] = first[e]
                 \/ Take(e) /\ pc[e] = "monitor" /\ first'[e] = burst + 1
<1>1. /\ pc \in [Executions -> Tasks \cup {"start", "progress", "end"} \cup Ended]
      /\ status \in [Executions -> {"none", "success", "failure", "failed", "fail"}]
      /\ first \in [Executions -> Nat]
  BY DEF MachineInv, TypeOK
<1>2. CASE UNCHANGED flowVars /\ UNCHANGED first
  BY <1>2 DEF flowVars
<1>3. CASE AutoScaling /\ UNCHANGED <<invokeVars, flowVars>>
  <2>1. CASE UNCHANGED first
    BY <1>3, <2>1 DEF flowVars
  <2>2. ASSUME NEW f \in Executions, Take(f)
        PROVE  \/ first'[e] = first[e]
               \/ Take(e) /\ pc[e] = "monitor" /\ first'[e] = burst + 1
    <3>1. first' = IF pc[f] = "monitor" THEN [first EXCEPT ![f] = burst + 1] ELSE first
      BY <2>2 DEF Take
    <3>2. CASE f = e
      BY <1>1, <2>2, <3>1, <3>2
    <3>3. CASE f # e
      BY <1>1, <3>1, <3>3
    <3> QED
      BY <3>2, <3>3
  <2>3. UNCHANGED first \/ \E f \in Executions : Take(f)
    BY <1>3 DEF AutoScaling, RefreshEnds, RefreshStep, Launch, Gone, TakeAway, Serve, Lose,
                RefreshReplaces, ReplaceOne, queueVars
  <2> QED
    BY <1>3, <2>1, <2>2, <2>3 DEF flowVars
<1>4. ASSUME NEW f \in Executions, f # e, Step(f) \/ LosesData(f)
      PROVE  pc'[e] = pc[e] /\ status'[e] = status[e] /\ first'[e] = first[e]
  <2>1. \E to, new : /\ pc' = [pc EXCEPT ![f] = to]
                     /\ status' = [status EXCEPT ![f] = new]
    BY <1>4 DEF Step, LosesData, ChooseStrategy, End, SendToQueue, SendFails, MonitorDone,
              MonitorAgain, TakesTooLong, RefreshStatus, CancelRefresh, RefreshProgress,
              StartRefresh, RefreshDeclined, LambdaError, Goto
  <2>2. first' = first \/ first' = [first EXCEPT ![f] = 0]
    BY <1>4 DEF Step, LosesData, ChooseStrategy, End, SendToQueue, SendFails, MonitorDone,
              MonitorAgain, TakesTooLong, RefreshStatus, CancelRefresh, RefreshProgress,
              StartRefresh, RefreshDeclined, LambdaError, Flowing, queueVars
  <2> QED
    BY <1>1, <1>4, <2>1, <2>2
<1> QED
  BY <1>2, <1>3, <1>4 DEF Next, vars, queueVars

LEMMA InitOwn == Init => OwnInv
<1> SUFFICES ASSUME Init PROVE OwnInv
  OBVIOUS
<1>1. /\ group \in Seq(Instances) /\ DOMAIN group = 1 .. Len(group)
      /\ version = 0 /\ since = [e \in Executions |-> 0]
  BY InitMachine, LenProperties DEF Init, InvokeInit, MachineInv, TypeOK
<1>2. \A i \in DOMAIN group : group[i].version = 0
  BY DEF Init
<1>3. Versions
  BY <1>1, <1>2 DEF Versions
<1>4. Begun /\ Own
  BY DEF Init, Begun, Own
<1> QED
  BY <1>3, <1>4 DEF OwnInv

LEMMA StepKeepsVersions == MachineInv /\ Versions /\ [Next]_vars => Versions'
<1> SUFFICES ASSUME MachineInv, Versions, [Next]_vars PROVE Versions'
  OBVIOUS
<1>1. /\ version \in Nat /\ version' \in {version, version + 1}
      /\ since \in [Executions -> Nat]
      /\ UNCHANGED since \/ \E e \in Executions : since' = [since EXCEPT ![e] = version]
  BY InvokeSteps
<1>2. \A i \in 1 .. Len(group) : group[i].version \in Nat
  BY GroupFacts
<1>3. ASSUME NEW i \in 1 .. Len(group') PROVE group'[i].version <= version'
  <2>1. \/ group'[i].version = version
        \/ \E j \in 1 .. Len(group) : group'[i].version = group[j].version
    BY NoneInvented
  <2> QED
    BY <1>1, <1>2, <2>1 DEF Versions
<1>4. ASSUME NEW e \in Executions PROVE since'[e] <= version'
  <2>1. since'[e] = since[e] \/ since'[e] = version
    BY <1>1
  <2>2. since[e] \in Nat /\ since[e] <= version
    BY <1>1 DEF Versions
  <2> QED
    BY <1>1, <2>1, <2>2
<1> QED
  BY <1>3, <1>4 DEF Versions

LEMMA StepKeepsBegun == MachineInv /\ Begun /\ [Next]_vars => Begun'
<1> SUFFICES ASSUME MachineInv, Begun, [Next]_vars, NEW e \in Executions
             PROVE  /\ pc'[e] # "start" => input'[e] # None
                    /\ first'[e] > 0 => pc'[e] \in {"monitor", "end"}
  BY DEF Begun
<1>1. /\ pc[e] # "start" => input[e] # None
      /\ first[e] > 0 => pc[e] \in {"monitor", "end"}
  BY DEF Begun
<1>2. first \in [Executions -> Nat]
  BY DEF MachineInv, TypeOK
<1>3. input[e] # None => input'[e] = input[e]
  BY InvokeSteps
<1>4. CASE pc'[e] = pc[e] /\ first'[e] = first[e]
  BY <1>1, <1>3, <1>4
<1>5. CASE Take(e) /\ pc[e] = "monitor" /\ pc'[e] = pc[e]
  BY <1>1, <1>3, <1>5
<1>6. CASE Step(e) \/ LosesData(e)
  <2>1. input[e] # None
    BY <1>1, <1>6 DEF Step, LosesData, ChooseStrategy, End, SendToQueue, SendFails,
        MonitorDone, MonitorAgain, TakesTooLong, RefreshStatus, CancelRefresh,
        RefreshProgress, StartRefresh, RefreshDeclined, LambdaError, Goto, Tasks
  <2>2. CASE End(e)
    BY <1>2, <1>3, <2>1, <2>2 DEF End
  <2>3. CASE ~End(e)
    <3>1. first' = first
      BY <1>6, <2>3 DEF Step, LosesData, ChooseStrategy, SendToQueue, SendFails,
          MonitorDone, MonitorAgain, TakesTooLong, RefreshStatus, CancelRefresh,
          RefreshProgress, StartRefresh, RefreshDeclined, LambdaError, Flowing, queueVars
    <3>2. pc[e] \in {"monitor", "end"} => pc'[e] \in {"monitor", "end"}
      BY <1>6, <2>3 DEF Step, LosesData, ChooseStrategy, SendToQueue, SendFails,
          MonitorDone, MonitorAgain, TakesTooLong, RefreshStatus, CancelRefresh,
          RefreshProgress, StartRefresh, RefreshDeclined, LambdaError, Goto,
          MachineInv, TypeOK
    <3> QED
      BY <1>1, <1>3, <2>1, <3>1, <3>2
  <2> QED
    BY <2>2, <2>3
<1> QED
  BY <1>4, <1>5, <1>6, OwnSteps

LEMMA StepKeepsOwn ==
    MachineInv /\ Capacity /\ OwnInv /\ [Next]_vars => Own'
<1> SUFFICES ASSUME MachineInv, Capacity, OwnInv, [Next]_vars, NEW e \in Executions,
                    first'[e] > 0, NEW i \in 1 .. Len(group'), group'[i].burst >= first'[e]
             PROVE  group'[i].version >= since'[e]
  BY DEF Own
<1>1. /\ version \in Nat /\ since \in [Executions -> Nat] /\ first \in [Executions -> Nat]
      /\ burst \in Nat /\ since[e] <= version
      /\ \A j \in 1 .. Len(group) : group[j].burst \in Nat /\ group[j].version \in Nat
  BY GroupFacts, InvokeSteps DEF OwnInv, Versions, MachineInv, TypeOK
<1>2. CASE Take(e) /\ pc[e] = "monitor" /\ first'[e] = burst + 1
  <2>1. group' = group
    BY <1>2 DEF Take
  <2>2. group[i].burst <= burst
    BY <2>1 DEF Capacity
  <2> QED
    BY <1>1, <1>2, <2>1, <2>2
<1>3. CASE first'[e] = first[e]
  <2>1. since'[e] = since[e]
    <3>1. input[e] # None
      BY <1>3 DEF OwnInv, Begun
    <3> QED
      BY <1>1, <3>1, InvokeSteps
  <2>2. CASE group'[i].version = version
    BY <1>1, <2>1, <2>2
  <2>3. CASE \E j \in 1 .. Len(group) : /\ group'[i].version = group[j].version
                                        /\ group'[i].burst = group[j].burst
    BY <1>3, <2>1, <2>3 DEF OwnInv, Own
  <2> QED
    BY <2>2, <2>3, NoneInvented
<1>4. CASE first'[e] = 0
  BY <1>4
<1>5. Step(e) \/ LosesData(e) => first'[e] \in {0, first[e]}
  BY <1>1 DEF Step, LosesData, ChooseStrategy, End, SendToQueue, SendFails,
      MonitorDone, MonitorAgain, TakesTooLong, RefreshStatus, CancelRefresh,
      RefreshProgress, StartRefresh, RefreshDeclined, LambdaError, Flowing, queueVars
<1> QED
  BY <1>2, <1>3, <1>4, <1>5, OwnSteps

LEMMA OwnInvariant == Spec => [](MachineInv /\ Capacity /\ OwnInv)
<1>1. MachineInv /\ Capacity /\ OwnInv /\ [Next]_vars => OwnInv'
  BY StepKeepsVersions, StepKeepsBegun, StepKeepsOwn DEF OwnInv
<1> QED
  BY <1>1, CapacityInvariant, InitOwn, PTL DEF Spec

(* An execution that reports its recycling as done, once it shows in the   *)
(* group, leaves no older version than the one it was started for, though  *)
(* only the times of the launches are compared                             *)
(* (monitor_autorecycle/main.py 48-80).                                    *)
THEOREM SuccessIsCurrent == Spec => SuccessMeansCurrent
<1>1. ASSUME MachineInv, Capacity, OwnInv, [Next]_vars, NEW e \in Executions,
             pc[e] = "monitor", pc'[e] = "end", status'[e] # "fail", first[e] > 0,
             \E i \in DOMAIN group : group[i].burst >= first[e]
      PROVE  \A i \in DOMAIN group : group[i].version >= since[e]
  <2>1. DOMAIN group = 1 .. Len(group)
    BY <1>1, GroupFacts, LenProperties
  <2>2. PICK k \in 1 .. Len(group) : group[k].burst >= first[e]
    BY <1>1, <2>1
  <2>3. MonitorDone(e)
    <3>1. Step(e) \/ LosesData(e)
      BY <1>1, OwnSteps
    <3> QED
      BY <1>1, <3>1 DEF Step, LosesData, ChooseStrategy, End, SendToQueue, SendFails,
          MonitorAgain, TakesTooLong, RefreshStatus, CancelRefresh, RefreshProgress,
          StartRefresh, RefreshDeclined, LambdaError, Goto, MachineInv, TypeOK
  <2>4. desired # 0
    <3>1. Len(group) <= desired /\ Len(group) \in Nat
      BY <1>1, GroupFacts DEF Capacity
    <3> QED
      BY <2>2, <3>1
  <2>5. \A i \in 1 .. Len(group) : group[i].burst = group[k].burst
    BY <2>1, <2>3, <2>4 DEF MonitorDone, LooksDone, Recycled
  <2> QED
    BY <1>1, <2>1, <2>2, <2>5 DEF OwnInv, Own
<1>2. MachineInv /\ Capacity /\ OwnInv /\ [Next]_vars =>
      [\A e \in Executions :
          /\ pc[e] = "monitor" /\ pc'[e] = "end" /\ status'[e] # "fail"
          /\ first[e] > 0 /\ \E i \in DOMAIN group : group[i].burst >= first[e]
          => \A i \in DOMAIN group : group[i].version >= since[e]]_vars
  BY <1>1
<1> QED
  BY <1>2, OwnInvariant, PTL DEF Spec, SuccessMeansCurrent
-----------------------------------------------------------------------------
(* What refreshes leave behind.  An execution that cancels a refresh, or   *)
(* the one that did, is still on its way to a refresh of its own, which    *)
(* brings all that the one before would have brought; or it has failed, or *)
(* its refresh was declined.                                               *)

Before == {"start", "status", "cancel", "startRefresh", "queue", "monitor"}

Follows(e) ==
    /\ pc[e] \in Before => refresh[e] = "none"
    /\ input[e] = "instance-refresh" =>
          /\ pc[e] \notin {"queue", "monitor"}
          /\ pc[e] = "end" => status[e] = "fail" \/ refresh[e] \in {"Successful", "Failed"}
          /\ pc[e] = "succeeded" =>
                refresh[e] \in {"Successful", "Failed", "Cancelled", "declined"}

Brought(e) == refresh[e] \notin {"none", "declined"} => latest # None /\ since[e] <= goal

LatestOnly ==
    /\ \A e \in Executions : e # latest => refresh[e] \notin Active
    /\ latest # None => refresh[latest] \notin {"none", "declined"}

Brings ==
    latest # None /\ refresh[latest] = "Successful" =>
        \A i \in 1 .. Len(group) : goal <= group[i].version

Behind(f) ==
    /\ f \in Started
    /\ \/ pc[f] \in {"status", "cancel", "startRefresh", "failed"}
       \/ pc[f] = "end" /\ status[f] = "fail"
       \/ refresh[f] = "declined"

Overtaken ==
    latest # None /\ refresh[latest] \in {"Cancelling", "Cancelled"} =>
        \E f \in Executions : Behind(f)

RefreshInv ==
    /\ goal <= version
    /\ \A e \in Executions : Follows(e) /\ Brought(e)
    /\ LatestOnly /\ Brings /\ Overtaken

LEMMA InitRefresh == Init => RefreshInv
<1> SUFFICES ASSUME Init PROVE RefreshInv
  OBVIOUS
<1>1. /\ goal = 0 /\ version = 0 /\ latest = None
      /\ \A e \in Executions : pc[e] = "start" /\ refresh[e] = "none"
  BY DEF Init, InvokeInit
<1> QED
  BY <1>1 DEF RefreshInv, Follows, Brought, LatestOnly, Brings, Overtaken, Active

(* The refresh that runs goes on to this state.                            *)
Ongoing(to) ==
    /\ latest # None /\ refresh[latest] \in Active
    /\ refresh' = [refresh EXCEPT ![latest] = to]
    /\ UNCHANGED <<latest, goal>>
    /\ to = "Successful" =>
          UNCHANGED group /\ \A i \in DOMAIN group : group[i].version >= goal
    /\ to \in {"Cancelling", "Cancelled"} =>
          \/ UNCHANGED <<flowVars, invokeVars>> /\ refresh[latest] = "Cancelling"
          \/ \E e \in Executions : CancelRefresh(e) /\ UNCHANGED invokeVars

LEMMA RefreshMoves ==
    ASSUME MachineInv, [Next]_vars
    PROVE  \/ UNCHANGED refreshVars
           \/ \E to \in {"InProgress", "Failed", "Cancelled", "Successful", "Cancelling"} :
                 Ongoing(to)
           \/ \E e \in Executions : (StartRefresh(e) \/ RefreshDeclined(e)) /\ UNCHANGED invokeVars
<1>1. CASE UNCHANGED vars \/ (InvokeNext /\ UNCHANGED <<groupVars, queueVars, refreshVars, flowVars>>)
  BY <1>1 DEF vars
<1>2. CASE RefreshEnds /\ UNCHANGED <<invokeVars, flowVars>>
  BY <1>2 DEF RefreshEnds, RefreshStep, Ongoing, Active, groupVars
<1>3. CASE AutoScaling /\ ~RefreshEnds
  BY <1>3 DEF AutoScaling, Launch, Gone, TakeAway, Serve, Lose, RefreshReplaces, ReplaceOne,
              Take, refreshVars
<1>4. ASSUME NEW e \in Executions, CancelRefresh(e), UNCHANGED invokeVars
      PROVE  UNCHANGED refreshVars \/ Ongoing("Cancelling")
  <2>1. CASE Status \in {"Pending", "InProgress"}
    <3>1. latest # None /\ refresh[latest] \in Active
      BY <2>1 DEF Status, Active
    <3>2. refresh' = [refresh EXCEPT ![latest] = "Cancelling"] /\ UNCHANGED <<latest, goal>>
      BY <1>4, <2>1 DEF CancelRefresh
    <3> QED
      BY <1>4, <3>1, <3>2 DEF Ongoing
  <2>2. CASE Status \notin {"Pending", "InProgress"}
    BY <1>4, <2>2 DEF CancelRefresh, refreshVars
  <2> QED
    BY <2>1, <2>2
<1>5. ASSUME NEW e \in Executions, Step(e) \/ LosesData(e), UNCHANGED invokeVars
      PROVE  \/ UNCHANGED refreshVars \/ CancelRefresh(e)
             \/ StartRefresh(e) \/ RefreshDeclined(e)
  BY <1>5 DEF Step, LosesData, ChooseStrategy, End, SendToQueue, SendFails, MonitorDone,
              MonitorAgain, TakesTooLong, RefreshStatus, RefreshProgress, LambdaError,
              Flowing
<1> QED
  BY <1>1, <1>2, <1>3, <1>4, <1>5 DEF Next

(* Of each execution: its refresh stays as it is, goes on, or is asked for *)
(* by a step of its own.                                                   *)
LEMMA RefreshOfEach ==
    ASSUME MachineInv, [Next]_vars, NEW e \in Executions
    PROVE  \/ refresh'[e] = refresh[e]
           \/ e = latest /\ refresh[e] \in Active
           \/ StartRefresh(e) /\ refresh'[e] = "Pending"
           \/ RefreshDeclined(e) /\ refresh'[e] = "declined"
<1>1. \E S : refresh \in [Executions -> S]
  BY DEF MachineInv, TypeOK
<1>2. CASE UNCHANGED refreshVars
  BY <1>2 DEF refreshVars
<1>3. ASSUME NEW to, Ongoing(to)
      PROVE  refresh'[e] = refresh[e] \/ (e = latest /\ refresh[e] \in Active)
  BY <1>1, <1>3 DEF Ongoing
<1>4. ASSUME NEW f \in Executions, StartRefresh(f) \/ RefreshDeclined(f)
      PROVE  \/ refresh'[e] = refresh[e]
             \/ StartRefresh(e) /\ refresh'[e] = "Pending"
             \/ RefreshDeclined(e) /\ refresh'[e] = "declined"
  <2>1. CASE f # e
    BY <1>1, <1>4, <2>1 DEF StartRefresh, RefreshDeclined
  <2>2. CASE f = e
    BY <1>1, <1>4, <2>2 DEF StartRefresh, RefreshDeclined
  <2> QED
    BY <2>1, <2>2
<1> QED
  BY <1>2, <1>3, <1>4, RefreshMoves

LEMMA StepKeepsFollows ==
    ASSUME MachineInv, Begun, RefreshInv, [Next]_vars, NEW e \in Executions
    PROVE  Follows(e)'
<1>1. /\ pc[e] # "start" => input[e] # None
      /\ Follows(e)
      /\ e = latest => refresh[e] \notin {"none", "declined"}
  BY MachineAssumption DEF Begun, RefreshInv, LatestOnly
<1>2. input[e] # None => input'[e] = input[e]
  BY InvokeSteps
<1>3. ASSUME pc'[e] = pc[e], status'[e] = status[e] PROVE Follows(e)'
  <2>1. ~StartRefresh(e) /\ ~RefreshDeclined(e)
    BY <1>3 DEF StartRefresh, RefreshDeclined, Goto, MachineInv, TypeOK
  <2>2. refresh'[e] = refresh[e] \/ refresh[e] \in Active
    BY <2>1, RefreshOfEach
  <2>3. CASE refresh'[e] = refresh[e]
    BY <1>1, <1>2, <1>3, <2>3 DEF Follows, Before
  <2>4. CASE refresh[e] \in Active
    BY <1>1, <1>2, <1>3, <2>4 DEF Follows, Before, Active
  <2> QED
    BY <2>2, <2>3, <2>4
<1>4. ASSUME Step(e) \/ LosesData(e) PROVE Follows(e)'
  <2> USE <1>1, <1>2 DEF Follows, Before, Goto, Flowing, refreshVars, MachineInv, TypeOK, Tasks
  <2>1. input[e] # None /\ input'[e] = input[e]
    <3>1. pc[e] = "start" => ChooseStrategy(e)
      BY <1>4 DEF Step, LosesData, End, SendToQueue, SendFails, MonitorDone,
          MonitorAgain, TakesTooLong, RefreshStatus, CancelRefresh, RefreshProgress,
          StartRefresh, RefreshDeclined, LambdaError
    <3> QED
      BY <3>1 DEF ChooseStrategy
  <2>2. CASE ChooseStrategy(e)
    BY <2>1, <2>2 DEF ChooseStrategy
  <2>3. CASE End(e)
    BY <2>1, <2>3 DEF End
  <2>4. CASE SendToQueue(e) \/ SendFails(e)
    BY <2>1, <2>4 DEF SendToQueue, SendFails
  <2>5. CASE MonitorDone(e) \/ MonitorAgain(e) \/ TakesTooLong(e)
    BY <2>1, <2>5 DEF MonitorDone, MonitorAgain, TakesTooLong
  <2>6. CASE RefreshStatus(e)
    BY <2>1, <2>6 DEF RefreshStatus
  <2>7. CASE CancelRefresh(e)
    <3>1. refresh'[e] = refresh[e] \/ (e = latest /\ refresh[e] \in Active)
      BY <2>7, RefreshOfEach DEF CancelRefresh, StartRefresh, RefreshDeclined
    <3>2. refresh[e] = "none" /\ pc'[e] = "status"
      BY <2>7 DEF CancelRefresh
    <3> QED
      BY <2>1, <3>1, <3>2 DEF Active
  <2>8. CASE RefreshProgress(e)
    BY <2>1, <2>8 DEF RefreshProgress
  <2>9. CASE StartRefresh(e)
    BY <2>1, <2>9 DEF StartRefresh
  <2>10. CASE RefreshDeclined(e)
    BY <2>1, <2>10 DEF RefreshDeclined
  <2>11. CASE LambdaError(e)
    BY <2>1, <2>11 DEF LambdaError
  <2>12. CASE LosesData(e)
    BY <2>1, <2>12 DEF LosesData
  <2> QED
    BY <1>4, <2>2, <2>3, <2>4, <2>5, <2>6, <2>7, <2>8, <2>9, <2>10, <2>11, <2>12 DEF Step
<1> QED
  BY <1>3, <1>4, OwnSteps

LEMMA StepKeepsBrought ==
    ASSUME MachineInv, OwnInv, RefreshInv, [Next]_vars, NEW e \in Executions
    PROVE  Brought(e)'
<1>1. /\ Brought(e) /\ Follows(e) /\ goal <= version
      /\ pc[e] # "start" => input[e] # None
      /\ \A f \in Executions : since[f] <= version
      /\ since \in [Executions -> Nat] /\ goal \in Nat /\ version \in Nat
  BY InvokeSteps DEF OwnInv, Begun, Versions, RefreshInv, MachineInv, TypeOK
<1>2. \/ UNCHANGED <<latest, goal>>
      \/ \E f \in Executions :
            StartRefresh(f) /\ latest' = f /\ goal' = version /\ UNCHANGED since
  BY RefreshMoves DEF Ongoing, StartRefresh, RefreshDeclined, refreshVars, invokeVars
<1>3. CASE UNCHANGED since
  <2>1. ASSUME NEW f \in Executions, latest' = f, goal' = version PROVE Brought(e)'
    BY <1>1, <1>3, <2>1, MachineAssumption DEF Brought
  <2>2. CASE UNCHANGED <<latest, goal>>
    <3>1. CASE StartRefresh(e)
      BY <2>1, <3>1 DEF StartRefresh
    <3>2. CASE ~StartRefresh(e)
      <4>1. refresh'[e] \notin {"none", "declined"} => refresh[e] \notin {"none", "declined"}
        BY <3>2, RefreshOfEach DEF Active
      <4> QED
        BY <1>1, <1>3, <2>2, <4>1 DEF Brought
    <3> QED
      BY <3>1, <3>2
  <2> QED
    BY <1>2, <2>1, <2>2
<1>4. CASE ~UNCHANGED since
  <2>1. PICK f \in Executions : /\ UNCHANGED refreshVars /\ input[f] = None
                                /\ since' = [since EXCEPT ![f] = version]
    BY <1>4, InvokeSteps
  <2>2. CASE f = e
    BY <1>1, <2>1, <2>2 DEF Brought, Follows, Before, refreshVars
  <2>3. CASE f # e
    BY <1>1, <2>1, <2>3 DEF Brought, refreshVars
  <2> QED
    BY <2>2, <2>3
<1> QED
  BY <1>3, <1>4

LEMMA StepKeepsLatest ==
    ASSUME MachineInv, RefreshInv, [Next]_vars
    PROVE  LatestOnly'
<1>1. LatestOnly /\ \E S : refresh \in [Executions -> S]
  BY DEF RefreshInv, MachineInv, TypeOK
<1>2. latest \in Executions \cup {None}
  BY DEF MachineInv, TypeOK
<1>3. CASE UNCHANGED refreshVars
  BY <1>1, <1>3 DEF LatestOnly, refreshVars
<1>4. ASSUME NEW to \in {"InProgress", "Failed", "Cancelled", "Successful", "Cancelling"},
             Ongoing(to)
      PROVE  LatestOnly'
  BY <1>1, <1>2, <1>4 DEF LatestOnly, Ongoing, Active
<1>5. ASSUME NEW e \in Executions, StartRefresh(e) PROVE LatestOnly'
  <2>1. \A f \in Executions : refresh[f] \notin Active
    BY <1>1, <1>2, <1>5, MachineAssumption DEF LatestOnly, StartRefresh, Status
  <2>2. refresh' = [refresh EXCEPT ![e] = "Pending"] /\ latest' = e
    BY <1>5 DEF StartRefresh
  <2> QED
    BY <1>1, <2>1, <2>2 DEF LatestOnly
<1>6. ASSUME NEW e \in Executions, RefreshDeclined(e) PROVE LatestOnly'
  <2>1. /\ refresh' = [refresh EXCEPT ![e] = "declined"] /\ latest' = latest
        /\ refresh[e] = "none"
    BY <1>6 DEF RefreshDeclined, RefreshInv, Follows, Before, Goto
  <2>2. e # latest
    BY <1>1, <2>1, MachineAssumption DEF LatestOnly
  <2> QED
    BY <1>1, <1>2, <2>1, <2>2 DEF LatestOnly, Active
<1> QED
  BY <1>3, <1>4, <1>5, <1>6, RefreshMoves

LEMMA StepKeepsBrings ==
    ASSUME MachineInv, OwnInv, RefreshInv, [Next]_vars
    PROVE  Brings'
<1>1. /\ Brings /\ LatestOnly /\ goal <= version /\ goal \in Nat /\ version \in Nat
      /\ \E S : refresh \in [Executions -> S]
      /\ latest \in Executions \cup {None}
  BY DEF RefreshInv, MachineInv, TypeOK, InvokeTypeOK
<1> DEFINE Holds == \A i \in 1 .. Len(group) : goal <= group[i].version
<1>2. ASSUME Holds, goal' = goal PROVE Holds'
  <2> SUFFICES ASSUME NEW i \in 1 .. Len(group') PROVE goal <= group'[i].version
    BY <1>2
  <2>1. \/ group'[i].version = version
        \/ \E j \in 1 .. Len(group) : group'[i].version = group[j].version
    BY NoneInvented
  <2> QED
    BY <1>1, <1>2, <2>1
<1>3. CASE UNCHANGED refreshVars
  <2> SUFFICES ASSUME latest # None, refresh[latest] = "Successful" PROVE Holds'
    BY <1>3 DEF Brings, refreshVars
  <2>1. Holds
    BY <1>1 DEF Brings
  <2> HIDE DEF Holds
  <2> QED
    BY <1>2, <1>3, <2>1 DEF refreshVars
<1>4. ASSUME NEW to \in {"InProgress", "Failed", "Cancelled", "Successful", "Cancelling"},
             Ongoing(to)
      PROVE  Brings'
  <2>1. refresh'[latest'] = to
    BY <1>1, <1>4 DEF Ongoing
  <2>2. CASE to = "Successful"
    <3>1. DOMAIN group = 1 .. Len(group) /\ \A i \in 1 .. Len(group) : group[i].version \in Nat
      BY GroupFacts, LenProperties
    <3> QED
      BY <1>1, <1>4, <2>2, <3>1 DEF Brings, Ongoing
  <2> QED
    BY <2>1, <2>2 DEF Brings
<1>5. ASSUME NEW e \in Executions, StartRefresh(e) PROVE Brings'
  BY <1>1, <1>5 DEF Brings, StartRefresh
<1>6. ASSUME NEW e \in Executions, RefreshDeclined(e) PROVE Brings'
  <2>1. /\ latest' = latest /\ goal' = goal /\ group' = group
        /\ latest # None /\ refresh'[latest] = "Successful" =>
              latest # None /\ refresh[latest] = "Successful"
    BY <1>1, <1>6 DEF RefreshDeclined, groupVars
  <2> QED
    BY <1>1, <2>1 DEF Brings
<1> QED
  BY <1>3, <1>4, <1>5, <1>6, RefreshMoves

(* Who is behind remains so until it starts a refresh of its own.          *)
LEMMA BehindStays ==
    ASSUME MachineInv, Begun, RefreshInv, [Next]_vars, NEW f \in Executions,
           Behind(f), ~StartRefresh(f)
    PROVE  Behind(f)'
<1>1. f \in Started'
  <2>1. input[f] # None
    BY DEF Behind, Started
  <2>2. input'[f] = input[f]
    BY <2>1, InvokeSteps
  <2> QED
    BY <2>1, <2>2 DEF Started
<1>2. CASE refresh[f] = "declined"
  <2>1. f # latest
    BY <1>2, MachineAssumption DEF RefreshInv, LatestOnly
  <2>2. refresh'[f] = "declined"
    BY <1>2, <2>1, RefreshOfEach
  <2> QED
    BY <1>1, <2>2 DEF Behind
<1>3. CASE \/ pc[f] \in {"status", "cancel", "startRefresh", "failed"}
           \/ pc[f] = "end" /\ status[f] = "fail"
  <2>1. CASE pc'[f] = pc[f] /\ status'[f] = status[f]
    BY <1>1, <1>3, <2>1 DEF Behind
  <2>2. CASE Step(f) \/ LosesData(f)
    <3> USE DEF Goto, MachineInv, TypeOK
    <3>1. CASE RefreshStatus(f) \/ CancelRefresh(f)
      BY <1>1, <3>1 DEF RefreshStatus, CancelRefresh, Behind
    <3>2. CASE RefreshDeclined(f)
      BY <1>1, <3>2 DEF RefreshDeclined, Behind
    <3>3. CASE LambdaError(f)
      BY <1>1, <3>3 DEF LambdaError, Behind
    <3>4. CASE End(f)
      BY <1>1, <1>3, <3>4 DEF End, Behind
    <3> QED
      BY <1>3, <2>2, <3>1, <3>2, <3>3, <3>4 DEF Step, LosesData, ChooseStrategy, SendToQueue,
          SendFails, MonitorDone, MonitorAgain, TakesTooLong, RefreshProgress
  <2> QED
    BY <2>1, <2>2, OwnSteps
<1> QED
  BY <1>2, <1>3 DEF Behind

LEMMA StepKeepsOvertaken ==
    ASSUME MachineInv, OwnInv, RefreshInv, [Next]_vars
    PROVE  Overtaken'
<1>1. /\ Overtaken /\ LatestOnly /\ Begun
      /\ \E S : refresh \in [Executions -> S]
      /\ pc \in [Executions -> Tasks \cup {"start", "progress", "end"} \cup Ended]
      /\ latest \in Executions \cup {None}
  BY DEF RefreshInv, OwnInv, MachineInv, TypeOK
<1>2. CASE \E f \in Executions : StartRefresh(f)
  BY <1>1, <1>2 DEF Overtaken, StartRefresh
<1>3. ASSUME NEW f \in Executions, CancelRefresh(f), UNCHANGED invokeVars PROVE Overtaken'
  <2>1. input'[f] # None /\ pc'[f] = "status"
    BY <1>1, <1>3 DEF Begun, CancelRefresh, Goto, invokeVars
  <2> QED
    BY <2>1 DEF Overtaken, Behind, Started
<1>4. ASSUME ~\E f \in Executions : StartRefresh(f),
             latest # None, refresh[latest] \in {"Cancelling", "Cancelled"}
      PROVE  Overtaken'
  <2>1. PICK f \in Executions : Behind(f)
    BY <1>1, <1>4 DEF Overtaken
  <2> QED
    BY <1>1, <1>4, <2>1, BehindStays DEF Overtaken
<1>5. CASE UNCHANGED refreshVars /\ ~\E f \in Executions : StartRefresh(f)
  BY <1>4, <1>5 DEF Overtaken, refreshVars
<1>6. ASSUME NEW to \in {"InProgress", "Failed", "Cancelled", "Successful", "Cancelling"},
             Ongoing(to), ~\E f \in Executions : StartRefresh(f)
      PROVE  Overtaken'
  <2>1. latest' = latest /\ refresh'[latest'] = to
    BY <1>1, <1>6 DEF Ongoing
  <2>2. CASE to \in {"Cancelling", "Cancelled"}
    BY <1>3, <1>4, <1>6, <2>2 DEF Ongoing
  <2> QED
    BY <2>1, <2>2 DEF Overtaken
<1>7. ASSUME NEW e \in Executions, RefreshDeclined(e),
             ~\E f \in Executions : StartRefresh(f)
      PROVE  Overtaken'
  <2>1. latest' = latest /\ (latest # None /\ refresh'[latest] \in {"Cancelling", "Cancelled"}
                                => refresh[latest] \in {"Cancelling", "Cancelled"})
    BY <1>1, <1>7 DEF RefreshDeclined
  <2> QED
    BY <1>4, <1>7, <2>1 DEF Overtaken
<1> QED
  BY <1>2, <1>5, <1>6, <1>7, RefreshMoves

LEMMA RefreshInvariant ==
    Spec => [](MachineInv /\ Capacity /\ OwnInv /\ RefreshInv)
<1>1. MachineInv /\ OwnInv /\ RefreshInv /\ [Next]_vars => RefreshInv'
  <2> SUFFICES ASSUME MachineInv, OwnInv, RefreshInv, [Next]_vars PROVE RefreshInv'
    OBVIOUS
  <2>1. goal' <= version'
    <3>1. version \in Nat /\ version' \in {version, version + 1}
      BY InvokeSteps
    <3>2. goal' = goal \/ goal' = version
      BY RefreshMoves DEF Ongoing, StartRefresh, RefreshDeclined, refreshVars
    <3>3. goal \in Nat /\ goal <= version
      BY DEF RefreshInv, MachineInv, TypeOK
    <3> QED
      BY <3>1, <3>2, <3>3
  <2>2. \A e \in Executions : Follows(e)' /\ Brought(e)'
    BY StepKeepsFollows, StepKeepsBrought DEF OwnInv
  <2> QED
    BY <2>1, <2>2, StepKeepsLatest, StepKeepsBrings, StepKeepsOvertaken DEF RefreshInv
<1> QED
  BY <1>1, OwnInvariant, InitRefresh, PTL DEF Spec

(* Executions that cancel each other's refresh forget no update, for any   *)
(* number of them: when one was started since the last update and all have *)
(* succeeded, none for a refresh that failed or was declined, all          *)
(* instances have the last version (state_machine.tf 289-535).             *)
THEOREM AllDoneIsCurrent == Spec => []AllDoneMeansCurrent
<1>1. MachineInv /\ OwnInv /\ RefreshInv => AllDoneMeansCurrent
  <2> SUFFICES ASSUME MachineInv, OwnInv, RefreshInv,
                      NEW e \in Started, since[e] = version,
                      \A f \in Started :
                          /\ input[f] = "instance-refresh" /\ pc[f] = "succeeded"
                          /\ refresh[f] \notin {"declined", "Failed"},
                      NEW i \in DOMAIN group
               PROVE  group[i].version = version
    BY DEF AllDoneMeansCurrent
  <2>1. i \in 1 .. Len(group) /\ group[i].version \in Nat /\ version \in Nat
    BY GroupFacts, LenProperties DEF MachineInv, TypeOK, InvokeTypeOK
  <2>2. group[i].version <= version
    BY <2>1 DEF OwnInv, Versions
  <2>3. \A f \in Started : f \in Executions /\ refresh[f] \in {"Successful", "Cancelled"}
    BY DEF RefreshInv, Follows, Started
  <2>4. latest # None /\ since[e] <= goal
    BY <2>3 DEF RefreshInv, Brought
  <2>5. latest \in Started
    <3>1. latest \in Executions /\ refresh[latest] # "none"
      BY <2>4 DEF MachineInv, TypeOK, RefreshInv, LatestOnly
    <3>2. pc[latest] # "start"
      BY <3>1 DEF RefreshInv, Follows, Before
    <3> QED
      BY <3>1, <3>2 DEF OwnInv, Begun, Started
  <2>6. refresh[latest] # "Cancelled"
    <3> SUFFICES ASSUME refresh[latest] = "Cancelled" PROVE FALSE
      OBVIOUS
    <3>1. PICK f \in Executions : Behind(f)
      BY <2>4 DEF RefreshInv, Overtaken
    <3> QED
      BY <3>1 DEF Behind
  <2>7. goal <= group[i].version
    BY <2>1, <2>3, <2>4, <2>5, <2>6 DEF RefreshInv, Brings
  <2>8. goal \in Nat /\ since[e] \in Nat
    BY <2>3 DEF MachineInv, TypeOK, InvokeTypeOK
  <2> QED
    BY <2>1, <2>2, <2>4, <2>7, <2>8
<1> QED
  BY <1>1, RefreshInvariant, PTL
=============================================================================
