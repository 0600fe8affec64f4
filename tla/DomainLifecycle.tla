--------------------------- MODULE DomainLifecycle ---------------------------
(***************************************************************************)
(* Workflow.transition_to and Task.transition_to (agi_platform/domain.py): *)
(* the life cycle of one domain entity, driven by actors that look at the  *)
(* entity, decide, and call transition_to later, with or without the       *)
(* version they saw as expected_version.  Calls come one at a time: no     *)
(* code shares an entity between threads.                                  *)
(***************************************************************************)
EXTENDS Naturals, Sequences

CONSTANTS
    Actors,
    MaxVersion  \* bound on the version of the entity

ASSUME VersionAssumption == MaxVersion \in Nat

VARIABLES
    entity,  \* kind, state and version of the Workflow or Task
    events,  \* the events transition_to returned, in order
    actor    \* what each actor has seen of the entity

vars == <<entity, events, actor>>

------------------------------------------------------------------------------
WORKFLOW_TRANSITIONS ==
    [CREATED    |-> {"PLANNED", "CANCELLED"},
     PLANNED    |-> {"RUNNING", "PAUSED", "CANCELLED"},
     RUNNING    |-> {"WAITING", "PAUSED", "FAILED", "COMPLETED", "CANCELLED"},
     WAITING    |-> {"RUNNING", "PAUSED", "FAILED", "CANCELLED"},
     PAUSED     |-> {"RUNNING", "CANCELLED"},
     FAILED     |-> {"RECOVERING", "CANCELLED"},
     RECOVERING |-> {"RUNNING", "FAILED", "CANCELLED"},
     COMPLETED  |-> {},
     CANCELLED  |-> {}]

TASK_TRANSITIONS ==
    [PENDING          |-> {"READY", "CANCELLED"},
     READY            |-> {"RUNNING", "WAITING_APPROVAL", "CANCELLED"},
     RUNNING          |-> {"WAITING_TOOL", "WAITING_APPROVAL", "RETRYING",
                           "FAILED", "COMPLETED", "CANCELLED"},
     WAITING_TOOL     |-> {"RUNNING", "RETRYING", "FAILED", "CANCELLED"},
     WAITING_APPROVAL |-> {"RUNNING", "FAILED", "CANCELLED"},
     RETRYING         |-> {"RUNNING", "FAILED", "CANCELLED"},
     FAILED           |-> {"RETRYING", "CANCELLED"},
     COMPLETED        |-> {},
     CANCELLED        |-> {}]

Transitions(kind) ==
    IF kind = "workflow" THEN WORKFLOW_TRANSITIONS ELSE TASK_TRANSITIONS

States(kind) == DOMAIN Transitions(kind)

AllStates == States("workflow") \cup States("task")

Initial(kind) == IF kind = "workflow" THEN "CREATED" ELSE "PENDING"

Init ==
    /\ \E kind \in {"workflow", "task"} :
          entity = [kind |-> kind, state |-> Initial(kind), version |-> 1]
    /\ events = <<>>
    /\ actor = [a \in Actors |-> [at |-> "away"]]

Goto(a, state) == actor' = [actor EXCEPT ![a] = state]

Look(a) ==
    /\ actor[a].at = "away"
    /\ Goto(a, [at |-> "decided", state |-> entity.state,
                version |-> entity.version])
    /\ UNCHANGED <<entity, events>>

\* Mutant: the transition forgets touch.
ApplyUntouched(target) == entity' = [entity EXCEPT !.state = target]

\* The assignment of the state, and touch.
Apply(target) ==
    entity' = [entity EXCEPT !.state = target, !.version = @ + 1]

Expected(version) == version = entity.version

\* Mutant: the event reports the state after the assignment as from_state.
EmitAfter(target) ==
    events' = Append(events, [from |-> target, to |-> target,
                              version |-> entity'.version])

\* The returned event, with the version after touch.
Emit(target) ==
    events' = Append(events, [from |-> entity.state, to |-> target,
                              version |-> entity'.version])

\* Mutant: the target is looked up among all states that have a successor.
LegalSomewhere(target) == target \in States(entity.kind)

Legal(target) == target \in Transitions(entity.kind)[entity.state]

\* transition_to(target, expected_version=...)
TransitionChecked(a, target) ==
    /\ actor[a].at = "decided"
    /\ entity.version < MaxVersion
    /\ Expected(actor[a].version)
    /\ Legal(target)
    /\ Apply(target)
    /\ Emit(target)
    /\ Goto(a, [at |-> "away"])

\* transition_to(target)
Transition(a, target) ==
    /\ actor[a].at = "decided"
    /\ entity.version < MaxVersion
    /\ Legal(target)
    /\ Apply(target)
    /\ Emit(target)
    /\ Goto(a, [at |-> "away"])

\* DomainConcurrencyError or DomainStateError: nothing has changed.
Refused(a, target) ==
    /\ actor[a].at = "decided"
    /\ ~Expected(actor[a].version) \/ ~Legal(target)
    /\ Goto(a, [at |-> "away"])
    /\ UNCHANGED <<entity, events>>

Next ==
    \E a \in Actors :
        \/ Look(a)
        \/ \E target \in States(entity.kind) :
              \/ TransitionChecked(a, target) \/ Transition(a, target)
              \/ Refused(a, target)

Spec == Init /\ [][Next]_vars

------------------------------------------------------------------------------
(* Properties *)

LifecycleTypeOK ==
    /\ entity \in [kind: {"workflow", "task"}, state: AllStates, version: Nat]
    /\ entity.state \in States(entity.kind)
    /\ events \in Seq([from: AllStates, to: AllStates, version: Nat])
    /\ actor \in [Actors -> [at: {"away"}]
                       \cup [at: {"decided"}, state: AllStates, version: Nat]]

\* The state that the first n events lead to.
Replayed(n) == IF n = 0 THEN Initial(entity.kind) ELSE events[n].to

\* The events alone rebuild the entity: from the initial state on, each
\* continues where the one before ended, their versions count up by one, and
\* they end in the entity's state and version.
LogReplays ==
    /\ entity.state = Replayed(Len(events))
    /\ entity.version = Len(events) + 1
    /\ \A i \in 1..Len(events) :
          events[i].from = Replayed(i - 1) /\ events[i].version = i + 1

\* "optimistic concurrency" (tests/test_domain.py): an actor whose version is
\* still the current one has seen the state the entity is in, so what
\* transition_to applies with expected_version was decided on that state.
CurrentVersionCurrentState ==
    \A a \in Actors :
        actor[a].at = "decided" /\ Expected(actor[a].version) =>
            actor[a].state = entity.state

\* "rejects terminal mutation" (tests/test_domain.py): a workflow or task that
\* was completed or cancelled stays so, whatever stale actors try.
FinalStays ==
    [][entity.state \in {"COMPLETED", "CANCELLED"} => entity' = entity]_vars
=============================================================================
