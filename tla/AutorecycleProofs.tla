-------------------------- MODULE AutorecycleProofs --------------------------
(* Theorems about InvokeStepFunctions, alone and in AutorecycleMachine.    *)
EXTENDS AutorecycleMachine, TLAPS

(* While the name of this second is taken by an execution for the group,   *)
(* that one was started after every update whose event can be handled now. *)
NameServes ==
    nameTaken => \E e \in Started : \A ev \in pending : since[e] >= ev.version

(* No event is of a version that has not been set.                         *)
NoneAhead == \A ev \in pending \cup recent : ev.version <= version

ServedInv == InvokeTypeOK /\ NoneAhead /\ NameServes

LEMMA InitServes == InvokeInit => ServedInv
<1> SUFFICES ASSUME InvokeInit PROVE ServedInv
  OBVIOUS
<1> USE DEF InvokeInit
<1>1. InvokeTypeOK
  <2>1. nameTaken \in BOOLEAN
    BY Zenon
  <2>2. strategy \in Strategies \cup {None} /\ recent \subseteq Events /\ pending \subseteq Events
    OBVIOUS
  <2>3. version \in Nat /\ sent \in 0 .. MaxEvents /\ asked \in 0 .. version
    BY InvokeAssumption
  <2>4. input \in [Executions -> Strategies \cup {None}] /\ since \in [Executions -> Nat]
    BY Zenon
  <2> QED
    BY <2>1, <2>2, <2>3, <2>4 DEF InvokeTypeOK
<1>2. NoneAhead
  BY DEF NoneAhead
<1>3. NameServes
  BY DEF NameServes
<1> QED
  BY <1>1, <1>2, <1>3 DEF ServedInv

(* An event is sent; version' is the version it carries.                   *)
LEMMA SendServes ==
    ASSUME ServedInv, NEW kind \in {"template", "other", "tags"}, Send(kind),
           version' \in {version, version + 1},
           strategy' \in Strategies \cup {None}
    PROVE  ServedInv'
<1> USE DEF ServedInv, Send
<1>1. version \in Nat /\ version' \in Nat /\ version <= version'
  BY DEF InvokeTypeOK
<1>2. [kind |-> kind, version |-> version'] \in Events
  BY <1>1 DEF Events
<1>3. InvokeTypeOK'
  BY <1>1, <1>2, InvokeAssumption DEF InvokeTypeOK
<1>4. NoneAhead'
  <2> SUFFICES ASSUME NEW ev \in (pending \cup recent)' PROVE ev.version <= version'
    BY DEF NoneAhead
  <2>1. CASE ev = [kind |-> kind, version |-> version']
    BY <2>1, <1>1
  <2>2. CASE ev \in pending \cup recent
    BY <2>2, <1>1 DEF NoneAhead, InvokeTypeOK, Events
  <2> QED
    BY <2>1, <2>2
<1>5. NameServes'
  BY DEF NameServes, Started
<1> QED
  BY <1>3, <1>4, <1>5

(* Another second, in which the name is free.                              *)
LEMMA TickServes == ServedInv /\ Tick => ServedInv'
BY DEF ServedInv, Tick, InvokeTypeOK, NoneAhead, NameServes, Started

(* Asking: the version is one that has been set.                           *)
LEMMA AskedIsSet ==
    ASSUME ServedInv, NEW ev \in pending, Asks(ev)
    PROVE  ev.version \in 0 .. version /\ asked' \in 0 .. version
BY DEF ServedInv, InvokeTypeOK, NoneAhead, Events, Asks

LEMMA NothingStartedServes ==
    ASSUME ServedInv, NEW ev \in pending, Ignore(ev) \/ StartRefused(ev) \/ StartFails(ev)
    PROVE  ServedInv'
<1>1. UNCHANGED <<version, strategy, sent, recent, nameTaken, input, since>>
      /\ pending' = pending \ {ev}
  BY DEF Ignore, StartRefused, StartFails, Drop
<1>2. asked' \in 0 .. version
  BY AskedIsSet DEF Ignore, StartRefused, StartFails, ServedInv, InvokeTypeOK
<1> QED
  BY <1>1, <1>2 DEF ServedInv, InvokeTypeOK, NoneAhead, NameServes, Started

(* The execution is started at the version that is set, which is at least  *)
(* that of any event.                                                      *)
LEMMA StartServes ==
    ASSUME ServedInv, NEW ev \in pending, NEW e \in Executions, StartExecution(ev, e)
    PROVE  ServedInv'
<1> USE DEF ServedInv, StartExecution, Recyclable
<1>1. asked' \in 0 .. version /\ strategy # None
  BY AskedIsSet DEF Asks
<1>2. InvokeTypeOK' /\ NoneAhead'
  BY <1>1 DEF InvokeTypeOK, NoneAhead
<1>3. e \in Started' /\ since'[e] = version
  BY <1>1 DEF InvokeTypeOK, Started
<1>4. NameServes'
  BY <1>3 DEF NameServes, NoneAhead, InvokeTypeOK, Events
<1> QED
  BY <1>2, <1>4

LEMMA InvokeStepServes == ServedInv /\ InvokeNext => ServedInv'
<1> SUFFICES ASSUME ServedInv, InvokeNext PROVE ServedInv'
  OBVIOUS
<1>1. version \in Nat /\ strategy \in Strategies \cup {None}
  BY DEF ServedInv, InvokeTypeOK
<1>2. CASE UpdateTemplate
  BY <1>1, <1>2, SendServes DEF UpdateTemplate
<1>3. CASE UpdateOther
  BY <1>1, <1>3, SendServes DEF UpdateOther
<1>4. CASE ChangeTags
  BY <1>1, <1>4, SendServes DEF ChangeTags
<1>5. CASE Tick
  BY <1>5, TickServes
<1>6. ASSUME NEW ev \in pending, Handle(ev) PROVE ServedInv'
  BY <1>6, NothingStartedServes, StartServes DEF Handle
<1> QED
  BY <1>2, <1>3, <1>4, <1>5, <1>6 DEF InvokeNext, Group

LEMMA UnchangedServes == ServedInv /\ UNCHANGED invokeVars => ServedInv'
BY DEF ServedInv, invokeVars, InvokeTypeOK, NoneAhead, NameServes, Started

LEMMA ServedInvariant == Spec => []ServedInv
<1>1. Init => ServedInv
  BY InitServes DEF Init
<1>2. ServedInv /\ [Next]_vars => ServedInv'
  BY InvokeStepServes, UnchangedServes DEF Next, vars
<1> QED
  BY <1>1, <1>2, PTL DEF Spec

(* For any number of executions, events and strategies, and whatever other *)
(* groups do: an update for which an execution is asked while the name is  *)
(* taken by one for its own group has one that was started after it, so    *)
(* the refusal loses nothing (sf_start_execution.py 18-26).                *)
THEOREM CollisionsAreServed == Spec => CollisionsLoseNothing
<1>1. ServedInv /\ [Next]_vars =>
          [nameTaken /\ asked' > asked => \E e \in Started : since[e] >= asked']_invokeVars
  <2> SUFFICES ASSUME ServedInv, InvokeNext, nameTaken, asked' > asked
               PROVE  \E e \in Started : since[e] >= asked'
    BY DEF Next, vars
  <2>1. asked' # asked
    BY DEF ServedInv, InvokeTypeOK
  <2>2. PICK ev \in pending : Handle(ev)
    BY <2>1 DEF InvokeNext, Group, UpdateTemplate, UpdateOther, ChangeTags, Send, Tick
  <2>3. asked' = ev.version
    BY <2>1, <2>2 DEF Handle, Ignore, StartRefused, StartFails, StartExecution, Asks
  <2> QED
    BY <2>3 DEF ServedInv, NameServes
<1> QED
  BY ServedInvariant, <1>1, PTL DEF Spec, CollisionsLoseNothing
=============================================================================
