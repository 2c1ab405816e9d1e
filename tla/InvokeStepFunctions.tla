------------------------ MODULE InvokeStepFunctions ------------------------
(***************************************************************************)
(* The Lambda autorecycle_invoke_stepfunctions: events about an auto       *)
(* scaling group start executions of the autorecycle state machine.        *)
(*                                                                         *)
(* One component and its group.  An execution is named after the component *)
(* and the second in which it is started: what matters of time is what     *)
(* happened in the present second.  Groups with the same value of the tag  *)
(* autorecycle_override_component_name use each other's names: to this one *)
(* it is a start that fails (StartFails).                                  *)
(***************************************************************************)
EXTENDS Naturals

CONSTANTS
    Executions,     \* executions of the state machine
    Strategies,     \* values of the tag autorecycle_strategy
    MaxEvents,      \* bound on the events sent
    None

ASSUME InvokeAssumption ==
    /\ MaxEvents \in Nat
    /\ None \notin Strategies

VARIABLES
    version,    \* the version of the launch template the group uses
    strategy,   \* the tag, None when the group is not to be recycled
    sent,       \* number of events (a bound)
    recent,     \* events of this second, not yet delivered
    pending,    \* events of earlier seconds, not yet handled
    nameTaken,  \* an execution for the group was started in this second
    input,      \* of each execution: the strategy it was started with, or None
    since,      \* of each execution: the version when it was started (history)
    asked       \* last version for which an execution was asked (history)

invokeVars ==
    <<version, strategy, sent, recent, pending, nameTaken, input, since, asked>>

Events == [kind : {"template", "other", "tags"}, version : Nat]

InvokeTypeOK ==
    /\ version \in Nat
    /\ strategy \in Strategies \cup {None}
    /\ sent \in 0 .. MaxEvents
    /\ recent \subseteq Events
    /\ pending \subseteq Events
    /\ nameTaken \in BOOLEAN
    /\ input \in [Executions -> Strategies \cup {None}]
    /\ since \in [Executions -> Nat]
    /\ asked \in 0 .. version

InvokeInit ==
    /\ version = 0
    /\ strategy \in Strategies
    /\ sent = 0
    /\ recent = {} /\ pending = {}
    /\ nameTaken = FALSE
    /\ input = [e \in Executions |-> None]
    /\ since = [e \in Executions |-> 0]
    /\ asked = 0

Started == {e \in Executions : input[e] # None}
-----------------------------------------------------------------------------
(* What happens to the group.                                              *)

Send(kind) ==
    /\ sent < MaxEvents
    /\ sent' = sent + 1
    /\ recent' = recent \cup {[kind |-> kind, version |-> version']}
    /\ UNCHANGED <<pending, nameTaken, input, since, asked>>

(* UpdateAutoScalingGroup with a new launch template or configuration.     *)
UpdateTemplate ==
    /\ version' = version + 1
    /\ Send("template")
    /\ UNCHANGED strategy

(* UpdateAutoScalingGroup of anything else.                                *)
UpdateOther == UNCHANGED <<version, strategy>> /\ Send("other")

(* CreateOrUpdateTags or DeleteTags, whether about recycling or not.       *)
ChangeTags ==
    /\ strategy' \in Strategies \cup {None}
    /\ UNCHANGED version
    /\ Send("tags")

(* Mutant: executions are named after the component only.                  *)
Tick_SameName ==
    /\ recent # {}
    /\ pending' = pending \cup recent
    /\ recent' = {}
    /\ UNCHANGED <<version, strategy, sent, nameTaken, input, since, asked>>

(* Another second: events are delivered later than in the second of the    *)
(* change they report, by the audit trail they come through.               *)
Tick ==
    /\ recent # {} \/ nameTaken
    /\ pending' = pending \cup recent
    /\ recent' = {}
    /\ nameTaken' = FALSE
    /\ UNCHANGED <<version, strategy, sent, input, since, asked>>
-----------------------------------------------------------------------------
(* The Lambda.                                                             *)

(* Events that name a component: changed tags, and a changed template.     *)
HasComponent(ev) == ev.kind \in {"template", "tags"}

Recyclable == strategy # None

(* The event is gone, handled or not: it is delivered once, and an         *)
(* invocation that fails is not retried.                                   *)
Drop(ev) ==
    /\ pending' = pending \ {ev}
    /\ UNCHANGED <<version, strategy, sent, recent, nameTaken>>

(* Nothing to do, or an earlier call of the handler fails.                 *)
Ignore(ev) ==
    /\ Drop(ev)
    /\ UNCHANGED <<input, since, asked>>

(* A recyclable component: an execution is asked for.                      *)
Asks(ev) ==
    /\ HasComponent(ev) /\ Recyclable
    /\ asked' = IF ev.version > asked THEN ev.version ELSE asked

(* The name is taken in this second: the error is only logged.  Where the  *)
(* same execution is asked for, it is named in the reply instead.          *)
StartRefused(ev) ==
    /\ Asks(ev) /\ nameTaken
    /\ Drop(ev)
    /\ UNCHANGED <<input, since>>

(* Any other error of the call is only logged too: too many calls; no      *)
(* permission, as for a machine that autorecycle_step_function_name names  *)
(* and the role of the Lambda does not; a name that another group with the *)
(* same autorecycle_override_component_name has taken in this second.      *)
StartFails(ev) ==
    /\ Asks(ev)
    /\ Drop(ev)
    /\ UNCHANGED <<input, since>>

(* The strategy is the one tagged now, not the one of the event.           *)
StartExecution(ev, e) ==
    /\ Asks(ev) /\ ~nameTaken
    /\ input[e] = None
    /\ input' = [input EXCEPT ![e] = strategy]
    /\ since' = [since EXCEPT ![e] = version]
    /\ nameTaken' = TRUE
    /\ pending' = pending \ {ev}
    /\ UNCHANGED <<version, strategy, sent, recent>>

Group == UpdateTemplate \/ UpdateOther \/ ChangeTags \/ Tick

Handle(ev) ==
    \/ Ignore(ev) \/ StartRefused(ev) \/ StartFails(ev)
    \/ \E e \in Executions : StartExecution(ev, e)

InvokeNext == Group \/ \E ev \in pending : Handle(ev)
-----------------------------------------------------------------------------
(* An update for which an execution is first asked while the name is taken *)
(* by one for the same group, so that the start is refused and the refusal *)
(* only logged, loses nothing by it: that execution, or another one, was   *)
(* started after the update (sf_start_execution.py 18-26).                 *)
CollisionsLoseNothing ==
    [][nameTaken /\ asked' > asked =>
          \E e \in Started : since[e] >= asked']_invokeVars
=============================================================================
