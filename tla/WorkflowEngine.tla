---------------------------- MODULE WorkflowEngine ----------------------------
(***************************************************************************)
(* WorkflowEngine.plan, execute and recover over WorkflowStateStore        *)
(* (agi_platform/orchestration.py), called by concurrent API handlers and  *)
(* by stores of several tenants on one database, with the workers and      *)
(* sweepers of TaskLease on the task rows.                                 *)
(*                                                                         *)
(* Each operation ends in upsert_workflow, one transaction over four       *)
(* tables: it reads the workflow row, flushes the new row (which locks it  *)
(* until commit), replaces the task rows, and writes checkpoint and event. *)
(* The reads before the flush are actions of their own; what follows the   *)
(* flush happens under the row lock and is one step.                       *)
(*                                                                         *)
(* Left out: the texts of a workflow document (graph, conversation, crew,  *)
(* timestamps), and the list WorkflowEngine.runs, which nothing reads.     *)
(***************************************************************************)
EXTENDS TaskLease, FiniteSets, FiniteSetsExt

CONSTANTS
    Handlers,  \* calls that may be open at the same time, each of some tenant
    Plans,     \* (task, agents) of a plan request
    StepsOf,   \* the steps 1..n of a plan with n agents, n > 0
    MaxEvents  \* bound on the events of a workflow

ASSUME PlanAssumption ==
    \A p \in Plans : StepsOf[p] \subseteq Steps /\ 1 \in StepsOf[p]
ASSUME WorkflowAssumption == Workflows \subseteq Nat

VARIABLES
    workflows,   \* table workflows, by checkpoint number
    checkpoints, \* table workflow_checkpoints, by checkpoint number
    events,      \* table workflow_events, a set of rows
    handler      \* where each API handler is

engineVars == <<workflows, checkpoints, events, handler>>
vars == <<tasks, clock, worker, sweeper, workflows, checkpoints, events, handler>>

------------------------------------------------------------------------------
\* WorkflowStateStore._status on the document and step statuses that are saved.
Status(value) ==
    CASE value \in {"planned", "queued"} -> "PENDING"
      [] value = "completed" -> "SUCCEEDED"
      [] value = "recovered" -> "RECOVERING"

Goto(h, state) == handler' = [handler EXCEPT ![h] = state]

\* Returned, raised, or died: an open transaction is rolled back.
HandlerDone(h) == Goto(h, [at |-> "idle"])
HandlerRaises(h) ==
    HandlerDone(h) /\ UNCHANGED <<leaseVars, workflows, checkpoints, events>>

\* The handler goes on to state_store.upsert_workflow(doc).
Save(h, tenant, cp, doc) ==
    /\ handler[h].at = "idle"
    /\ Goto(h, [at |-> "save", tenant |-> tenant, checkpoint |-> cp, doc |-> doc])
    /\ UNCHANGED <<leaseVars, workflows, checkpoints, events>>

EngineInit ==
    /\ LeaseInit
    /\ tasks = [t \in {} |-> 0]
    /\ workflows = [c \in {} |-> 0]
    /\ checkpoints = [c \in {} |-> 0]
    /\ events = {}
    /\ handler = [h \in Handlers |-> [at |-> "idle"]]

------------------------------------------------------------------------------
(* The operations up to upsert_workflow *)

EventsOf(tenant, cp) == {e \in events : e.tenant = tenant /\ e.workflow = cp}

\* The new checkpoint is numbered by the checkpoints this tenant can list.
Plan(h, tenant, p) ==
    LET listed == {c \in DOMAIN checkpoints : checkpoints[c].tenant = tenant}
        cp == Cardinality(listed) + 1
    IN
    /\ cp \in Workflows
    /\ Save(h, tenant, cp,
             [plan |-> p, status |-> "planned",
              steps |-> [s \in StepsOf[p] |->
                            [status |-> "queued", observations |-> 0]]])

\* WorkflowStateStore.get
CanGet(tenant, cp) ==
    /\ cp \in DOMAIN checkpoints
    /\ checkpoints[cp].tenant = tenant
    /\ Cardinality(EventsOf(tenant, cp)) < MaxEvents

\* Mutant: completed steps are not skipped.
ExecutedTwice(step) ==
    [status |-> "completed", observations |-> step.observations + 1]

\* A step that is done is kept (execute skips it), another runs once.
Executed(step) ==
    IF step.status = "completed" THEN step
    ELSE [status |-> "completed", observations |-> step.observations + 1]

\* The document is read, its remaining steps run, and the result is saved.
Execute(h, tenant, cp) ==
    LET doc == checkpoints[cp].doc IN
    /\ CanGet(tenant, cp)
    /\ doc.status \in {"planned", "recovered"}
    /\ Save(h, tenant, cp,
            [doc EXCEPT !.status = "completed",
                        !.steps = [s \in DOMAIN doc.steps |->
                                      Executed(doc.steps[s])]])

Recover(h, tenant, cp) ==
    /\ CanGet(tenant, cp)
    /\ Save(h, tenant, cp, [checkpoints[cp].doc EXCEPT !.status = "recovered"])

------------------------------------------------------------------------------
(* upsert_workflow *)

UpsertRead(h) ==
    LET q == handler[h] IN
    /\ q.at = "save"
    /\ Goto(h, [at |-> "flush", tenant |-> q.tenant,
                checkpoint |-> q.checkpoint, doc |-> q.doc,
                row |-> IF q.checkpoint \in DOMAIN workflows
                        THEN workflows[q.checkpoint] ELSE NULL])
    /\ UNCHANGED <<leaseVars, workflows, checkpoints, events>>

\* The row after the flush: inserted, or updated by primary key with the
\* columns that differ from what was loaded.
FlushedRow(h) ==
    LET q == handler[h]
        status == Status(q.doc.status)
    IN
    IF q.row = NULL
    THEN [tenant |-> q.tenant, status |-> status, version |-> 1]
    ELSE [workflows[q.checkpoint] EXCEPT
             !.version = q.row.version + 1,
             !.status = IF status = q.row.status THEN @ ELSE status]

\* The task rows left when this tenant's tasks of the workflow are deleted.
KeptTasks(h) ==
    {t \in DOMAIN tasks :
        ~(t[1] = handler[h].checkpoint /\ tasks[t].tenant = handler[h].tenant)}

NewTasks(h) == {handler[h].checkpoint} \X DOMAIN handler[h].doc.steps

\* Mutant: task identifiers are private to a tenant.
ClashWithinTenant(h) ==
    handler[h].row = NULL /\ handler[h].checkpoint \in DOMAIN workflows

\* A primary key is taken: the workflow row appeared after it was read as
\* absent, or a task row of another tenant has the identifier.
Clash(h) ==
    \/ handler[h].row = NULL /\ handler[h].checkpoint \in DOMAIN workflows
    \/ NewTasks(h) \cap KeptTasks(h) # {}

Put(table, key, row) ==
    [k \in DOMAIN table \cup {key} |-> IF k = key THEN row ELSE table[k]]

\* Mutant: the event is numbered like the version of the row.
NextSequenceFromVersion(h) == FlushedRow(h).version

\* max(sequence) of the tenant's events of the workflow, plus one.
NextSequence(h) ==
    LET log == EventsOf(handler[h].tenant, handler[h].checkpoint) IN
    Max({e.sequence : e \in log} \cup {0}) + 1

\* Mutant: the version the row had when it was read.
CheckpointVersionRead(h) ==
    IF handler[h].row = NULL THEN 1 ELSE handler[h].row.version

\* row.version after the flush.
CheckpointVersion(h) == FlushedRow(h).version

\* Flush and commit, under the lock on the workflow row.
UpsertCommit(h) ==
    LET q == handler[h] IN
    /\ q.at = "flush"
    /\ ~Clash(h)
    /\ workflows' = Put(workflows, q.checkpoint, FlushedRow(h))
    /\ tasks' = [t \in KeptTasks(h) \cup NewTasks(h) |->
                    IF t \in NewTasks(h)
                    THEN NewTask(q.tenant, Status(q.doc.steps[t[2]].status))
                    ELSE tasks[t]]
    /\ checkpoints' = Put(checkpoints, q.checkpoint,
           [tenant |-> q.tenant, doc |-> q.doc, version |-> CheckpointVersion(h)])
    /\ events' = events \cup
           {[tenant |-> q.tenant, workflow |-> q.checkpoint,
             status |-> q.doc.status, sequence |-> NextSequence(h)]}
    /\ HandlerDone(h)
    /\ UNCHANGED <<clock, worker, sweeper>>

\* IntegrityError: the whole transaction is rolled back.
UpsertClash(h) ==
    /\ handler[h].at = "flush"
    /\ Clash(h)
    /\ HandlerRaises(h)

HandlerCrash(h) ==
    /\ handler[h].at # "idle"
    /\ HandlerRaises(h)

HandlerStep(h) ==
    \/ \E tenant \in Tenants :
          \/ \E p \in Plans : Plan(h, tenant, p)
          \/ \E cp \in Workflows : Execute(h, tenant, cp) \/ Recover(h, tenant, cp)
    \/ UpsertRead(h) \/ UpsertCommit(h) \/ UpsertClash(h)
    \/ HandlerCrash(h)

EngineNext ==
    \/ \E h \in Handlers : HandlerStep(h)
    \/ LeaseNext /\ UNCHANGED engineVars

EngineSpec == EngineInit /\ [][EngineNext]_vars

------------------------------------------------------------------------------
(* Properties *)

\* The four tables of upsert_workflow describe the same workflow in every
\* committed state: each workflow row has one checkpoint of the same tenant
\* and version, and task rows for exactly the steps of its document, although
\* handlers overwrite each other with documents read long before.
TablesAgree ==
    /\ DOMAIN checkpoints = DOMAIN workflows
    /\ \A c \in DOMAIN workflows :
          /\ checkpoints[c].tenant = workflows[c].tenant
          /\ checkpoints[c].version = workflows[c].version
    /\ DOMAIN tasks =
          UNION {{c} \X DOMAIN checkpoints[c].doc.steps : c \in DOMAIN checkpoints}
    /\ \A t \in DOMAIN tasks : tasks[t].tenant = checkpoints[t[1]].tenant

\* The event log of a workflow has no gap and no duplicate, is at least as
\* long as the version of the row, and its last event is the one that wrote
\* the checkpoint.
EventsAccount ==
    \A c \in DOMAIN checkpoints :
        LET log == {e \in events : e.workflow = c} IN
        /\ {e.sequence : e \in log} = 1..Cardinality(log)
        /\ workflows[c].version <= Cardinality(log)
        /\ \E e \in log : /\ e.sequence = Cardinality(log)
                          /\ e.status = checkpoints[c].doc.status

\* However execute and recover alternate and race, a stored document reports
\* every step either as open or as done with exactly one observation, and is
\* completed only when all its steps are.
StepsObservedOnce ==
    \A c \in DOMAIN checkpoints :
        LET doc == checkpoints[c].doc IN
        /\ \A s \in DOMAIN doc.steps :
              doc.steps[s].observations =
                  IF doc.steps[s].status = "completed" THEN 1 ELSE 0
        /\ doc.status = "completed" =>
              \A s \in DOMAIN doc.steps : doc.steps[s].status = "completed"

\* A handler never changes the workflow or checkpoint of another tenant.
\* plan picks numbers that other tenants use too, and upsert_workflow updates
\* whatever workflow row has the number; only the clash of the identifiers of
\* the task rows undoes it.
ForeignRowsUntouched ==
    [][\A c \in DOMAIN workflows, h \in Handlers :
          /\ handler[h].at # "idle" /\ handler'[h] # handler[h]
          /\ handler[h].tenant # workflows[c].tenant
          => /\ workflows'[c] = workflows[c]
             /\ checkpoints'[c] = checkpoints[c]]_vars
=============================================================================
