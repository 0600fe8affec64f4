-------------------------- MODULE MCWorkflowEngine --------------------------
(* Model checking of WorkflowEngine.  Plan number n has the steps 1..n; the  *)
(* workers and sweepers use a store of the first tenant.                     *)
EXTENDS WorkflowEngine, TLC

CONSTANTS T1, T2

MCStepsOf == [p \in Plans |-> 1..p]
MCTenantOf == [p \in Workers \cup Sweepers |-> T1]

\* Bound: the more workers are busy, the fewer open handlers and events, so
\* that two workers meet on a planned workflow, one worker meets two handlers
\* early or one later, and the late versions meet handlers only.
EarlyLeases ==
    LET busy == {w \in Workers : worker[w].at # "idle"}
        open == {h \in Handlers : handler[h].at # "idle"}
    IN busy # {} =>
          2 * Cardinality(busy) + Cardinality(open) + Cardinality(events) <= 5

ProcessSymmetry == Permutations(Handlers) \cup Permutations(Workers)
=============================================================================
