----------------------- MODULE DomainLifecycleProofs -----------------------
(***************************************************************************)
(* Theorems about DomainLifecycle, for any set of actors and any bound on  *)
(* the version.                                                            *)
(***************************************************************************)
EXTENDS DomainLifecycle, TLAPS

\* What transition_to does when it does not raise, with or without
\* expected_version.
Accepted(a, target) ==
    /\ Legal(target)
    /\ Apply(target)
    /\ Emit(target)
    /\ Goto(a, [at |-> "away"])

\* Every step of an actor looks, is accepted, or leaves entity and events.
LEMMA StepCases ==
    ASSUME LifecycleTypeOK, Next
    PROVE  \E a \in Actors :
              \/ Look(a)
              \/ \E target \in States(entity.kind) : Accepted(a, target)
              \/ Goto(a, [at |-> "away"]) /\ UNCHANGED <<entity, events>>
  BY DEF Next, TransitionChecked, Transition, Refused, Accepted

\* A life cycle begins in one of its states.
LEMMA InitialIsState ==
    ASSUME NEW kind \in {"workflow", "task"}
    PROVE  States(kind) \subseteq AllStates /\ Initial(kind) \in States(kind)
  <1>1. States(kind) \subseteq AllStates
    BY DEF AllStates
  <1>2. Initial(kind) \in States(kind)
    BY DEF States, Transitions, WORKFLOW_TRANSITIONS, TASK_TRANSITIONS, Initial
  <1> QED BY <1>1, <1>2

\* What an accepted transition leaves behind.
LEMMA AcceptedEffect ==
    ASSUME LifecycleTypeOK, NEW a \in Actors,
           NEW target \in States(entity.kind), Accepted(a, target)
    PROVE  /\ LifecycleTypeOK'
           /\ entity' = [kind |-> entity.kind, state |-> target,
                         version |-> entity.version + 1]
           /\ events' = Append(events, [from |-> entity.state, to |-> target,
                                        version |-> entity.version + 1])
           /\ actor' = [actor EXCEPT ![a] = [at |-> "away"]]
  <1>1. entity' = [kind |-> entity.kind, state |-> target,
                   version |-> entity.version + 1]
    BY DEF Accepted, Apply, LifecycleTypeOK
  <1>2. events' = Append(events, [from |-> entity.state, to |-> target,
                                  version |-> entity.version + 1])
    BY <1>1 DEF Accepted, Emit
  <1>3. actor' = [actor EXCEPT ![a] = [at |-> "away"]]
    BY DEF Accepted, Goto
  <1>4. target \in AllStates
    BY InitialIsState DEF LifecycleTypeOK
  <1>5. LifecycleTypeOK'
    BY <1>1, <1>2, <1>3, <1>4 DEF LifecycleTypeOK
  <1> QED BY <1>1, <1>2, <1>3, <1>5

\* Looking at the entity.
LEMMA LookEffect ==
    ASSUME LifecycleTypeOK, NEW a \in Actors, Look(a)
    PROVE  /\ LifecycleTypeOK'
           /\ UNCHANGED <<entity, events>>
           /\ actor' = [actor EXCEPT ![a] =
                           [at |-> "decided", state |-> entity.state,
                            version |-> entity.version]]
  BY DEF Look, Goto, LifecycleTypeOK

\* A refused transition.
LEMMA RefusedEffect ==
    ASSUME LifecycleTypeOK, NEW a \in Actors, Goto(a, [at |-> "away"]),
           UNCHANGED <<entity, events>>
    PROVE  LifecycleTypeOK'
  BY DEF Goto, LifecycleTypeOK

\* No actor has seen a version the entity does not have yet.
SeenNotAhead ==
    \A a \in Actors :
        actor[a].at = "decided" => actor[a].version <= entity.version

LifecycleInv ==
    LifecycleTypeOK /\ LogReplays /\ SeenNotAhead /\ CurrentVersionCurrentState

LEMMA InitInv == Init => LifecycleInv
  <1> SUFFICES ASSUME Init PROVE LifecycleInv
    OBVIOUS
  <1>1. PICK kind \in {"workflow", "task"} :
           entity = [kind |-> kind, state |-> Initial(kind), version |-> 1]
    BY DEF Init
  <1>2. LifecycleTypeOK
    BY <1>1, InitialIsState DEF Init, LifecycleTypeOK
  <1>3. LogReplays
    BY <1>1 DEF Init, LogReplays, Replayed
  <1>4. SeenNotAhead /\ CurrentVersionCurrentState
    BY DEF Init, SeenNotAhead, CurrentVersionCurrentState
  <1> QED BY <1>2, <1>3, <1>4 DEF LifecycleInv

\* An accepted transition extends the log by one event and makes everybody's
\* version stale.
LEMMA AcceptedInv ==
    ASSUME LifecycleInv, NEW a \in Actors,
           NEW target \in States(entity.kind), Accepted(a, target)
    PROVE  LifecycleInv'
  <1> USE DEF LifecycleInv
  <1>1. LifecycleTypeOK'
    BY AcceptedEffect
  <1> DEFINE event == [from |-> entity.state, to |-> target,
                       version |-> entity.version + 1]
  <1>2. /\ entity'.kind = entity.kind /\ entity'.state = target
        /\ entity'.version = entity.version + 1
        /\ events' = Append(events, event)
        /\ actor' = [actor EXCEPT ![a] = [at |-> "away"]]
    BY AcceptedEffect
  <1>3. /\ Len(events) \in Nat
        /\ Len(events') = Len(events) + 1
        /\ events'[Len(events) + 1] = event
        /\ \A i \in 1..Len(events) : events'[i] = events[i]
    BY <1>2 DEF LifecycleTypeOK
  <1>4. \A n \in 0..Len(events) : Replayed(n)' = Replayed(n)
    BY <1>2, <1>3 DEF Replayed
  <1>5. LogReplays'
    <2>1. Replayed(Len(events))' = target
      BY <1>3 DEF Replayed
    <2>2. entity'.state = Replayed(Len(events))' /\ entity'.version = Len(events') + 1
      BY <2>1, <1>2, <1>3 DEF LogReplays, Replayed
    <2>3. ASSUME NEW i \in 1..Len(events')
          PROVE  events'[i].from = Replayed(i - 1)' /\ events'[i].version = i + 1
      <3>1. CASE i \in 1..Len(events)
        BY <3>1, <1>3, <1>4 DEF LogReplays
      <3>2. CASE i = Len(events) + 1
        BY <3>2, <1>3, <1>4 DEF LogReplays
      <3> QED BY <3>1, <3>2, <1>3
    <2> QED BY <2>2, <2>3 DEF LogReplays
  <1>6. SeenNotAhead' /\ CurrentVersionCurrentState'
    <2> SUFFICES ASSUME NEW b \in Actors, actor'[b].at = "decided"
                 PROVE  actor'[b].version < entity'.version
      BY <1>2 DEF SeenNotAhead, CurrentVersionCurrentState, Expected, LifecycleTypeOK
    <2>1. b # a /\ actor'[b] = actor[b]
      BY <1>2 DEF LifecycleTypeOK
    <2> QED BY <2>1, <1>2 DEF SeenNotAhead, LifecycleTypeOK
  <1> QED BY <1>1, <1>5, <1>6

LEMMA NextInv == LifecycleInv /\ [Next]_vars => LifecycleInv'
  <1> SUFFICES ASSUME LifecycleInv, [Next]_vars PROVE LifecycleInv'
    OBVIOUS
  <1> USE DEF LifecycleInv
  <1>1. CASE UNCHANGED vars
    BY <1>1 DEF vars, LifecycleTypeOK, LogReplays, Replayed, SeenNotAhead,
                CurrentVersionCurrentState, Expected
  <1>2. CASE Next
    <2>1. PICK a \in Actors :
              \/ Look(a)
              \/ \E target \in States(entity.kind) : Accepted(a, target)
              \/ Goto(a, [at |-> "away"]) /\ UNCHANGED <<entity, events>>
      BY <1>2, StepCases
    <2>2. CASE Look(a)
      <3>1. /\ LifecycleTypeOK' /\ UNCHANGED <<entity, events>>
            /\ actor' = [actor EXCEPT ![a] =
                            [at |-> "decided", state |-> entity.state,
                             version |-> entity.version]]
        BY <2>2, LookEffect
      <3>2. LogReplays'
        BY <3>1 DEF LogReplays, Replayed
      <3>3. SeenNotAhead' /\ CurrentVersionCurrentState'
        BY <3>1 DEF SeenNotAhead, CurrentVersionCurrentState, Expected,
                    LifecycleTypeOK
      <3> QED BY <3>1, <3>2, <3>3
    <2>3. CASE \E target \in States(entity.kind) : Accepted(a, target)
      BY <2>3, AcceptedInv
    <2>4. CASE Goto(a, [at |-> "away"]) /\ UNCHANGED <<entity, events>>
      <3>1. LifecycleTypeOK'
        BY <2>4, RefusedEffect
      <3>2. LogReplays'
        BY <2>4 DEF LogReplays, Replayed
      <3>3. SeenNotAhead' /\ CurrentVersionCurrentState'
        BY <2>4 DEF SeenNotAhead, CurrentVersionCurrentState, Expected, Goto,
                    LifecycleTypeOK
      <3> QED BY <3>1, <3>2, <3>3
    <2> QED BY <2>1, <2>2, <2>3, <2>4
  <1> QED BY <1>1, <1>2

\* Entity, events and what actors have seen are well typed.
THEOREM LifecycleTypeCorrect == Spec => []LifecycleTypeOK
  <1>1. LifecycleInv => LifecycleTypeOK
    BY DEF LifecycleInv
  <1> QED BY <1>1, InitInv, NextInv, PTL DEF Spec

\* The events transition_to returns rebuild the entity.
THEOREM LogAlwaysReplays == Spec => []LogReplays
  <1>1. LifecycleInv => LogReplays
    BY DEF LifecycleInv
  <1> QED BY <1>1, InitInv, NextInv, PTL DEF Spec

\* expected_version tells exactly whether the state an actor saw is current.
THEOREM VersionCheckExact == Spec => []CurrentVersionCurrentState
  <1>1. LifecycleInv => CurrentVersionCurrentState
    BY DEF LifecycleInv
  <1> QED BY <1>1, InitInv, NextInv, PTL DEF Spec

\* transition_to never takes an entity out of COMPLETED or CANCELLED.
THEOREM FinalAlwaysStays == Spec => FinalStays
  <1>1. ASSUME LifecycleTypeOK, [Next]_vars,
               entity.state \in {"COMPLETED", "CANCELLED"}
        PROVE  entity' = entity
    <2>1. CASE UNCHANGED vars
      BY <2>1 DEF vars
    <2>2. ASSUME NEW a \in Actors, NEW target \in States(entity.kind),
                 Accepted(a, target)
          PROVE  FALSE
      BY <1>1, <2>2 DEF Accepted, Legal, LifecycleTypeOK, Transitions,
                        WORKFLOW_TRANSITIONS, TASK_TRANSITIONS
    <2>3. CASE Next
      BY <1>1, <2>2, <2>3, StepCases DEF Look
    <2> QED BY <1>1, <2>1, <2>3
  <1>2. LifecycleTypeOK /\ [Next]_vars =>
            [entity.state \in {"COMPLETED", "CANCELLED"} => entity' = entity]_vars
    BY <1>1
  <1> QED BY <1>2, LifecycleTypeCorrect, PTL DEF Spec, FinalStays
=============================================================================
