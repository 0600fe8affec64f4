------------------------------ MODULE TaskLease ------------------------------
(***************************************************************************)
(* The lease protocol on table workflow_tasks: WorkflowStateStore's        *)
(* lease_next_task, mark_task_succeeded and recover_expired_leases         *)
(* (agi_platform/orchestration.py).                                        *)
(*                                                                         *)
(* Workers lease a task, work, and mark it; sweepers hand expired leases   *)
(* back.  Each call is one session: a SELECT without a lock, then, at the  *)
(* commit, an UPDATE by primary key of the columns that were assigned.  In *)
(* between other processes run.  A call that finds nothing to do returns   *)
(* without a change and is no action.                                      *)
(*                                                                         *)
(* The rows themselves are created and replaced by upsert_workflow, see    *)
(* WorkflowEngine; here the tasks of planned workflows are given.          *)
(***************************************************************************)
EXTENDS Naturals

CONSTANTS
    Workers, Sweepers,
    Tenants, TenantOf, \* tenant of the store each process was given
    Workflows, Steps,
    NULL,              \* SQL NULL
    LeaseSeconds,      \* argument lease_seconds of lease_next_task
    MaxAttempts,       \* column max_attempts, the same for every task
    MaxClock           \* bound on the clock

ASSUME NullAssumption == NULL \notin Workers /\ NULL \notin Nat
ASSUME LeaseAssumption ==
    LeaseSeconds \in Nat /\ MaxAttempts \in Nat /\ MaxClock \in Nat
ASSUME TenantAssumption == \A p \in Workers \cup Sweepers : TenantOf[p] \in Tenants

VARIABLES
    tasks,   \* table workflow_tasks: a function whose domain is the row ids
    clock,   \* now_ts(), in seconds, the same for all processes
    worker,  \* where each worker is
    sweeper  \* where each recover_expired_leases call is

leaseVars == <<tasks, clock, worker, sweeper>>

------------------------------------------------------------------------------
TaskIds == Workflows \X Steps

TaskStatuses == {"PENDING", "RUNNING", "SUCCEEDED", "TIMED_OUT"}

TaskRows ==
    [tenant: Tenants, status: TaskStatuses, owner: Workers \cup {NULL},
     expires: Nat \cup {NULL}, attempts: Nat]

WorkerStates ==
         [at: {"idle"}]
    \cup [at: {"leasing"}, task: TaskIds, now: Nat, attempts: Nat]
    \cup [at: {"holding", "marking"}, task: TaskIds, expires: Nat]

SweeperStates ==
    [at: {"idle"}] \cup
    [at: {"sweeping"}, found: SUBSET TaskIds, spent: SUBSET TaskIds]

\* A row as upsert_workflow inserts it: column defaults, no lease.
NewTask(tenant, status) ==
    [tenant |-> tenant, status |-> status, owner |-> NULL, expires |-> NULL,
     attempts |-> 0]

LeaseInit ==
    /\ clock = 0
    /\ worker = [w \in Workers |-> [at |-> "idle"]]
    /\ sweeper = [p \in Sweepers |-> [at |-> "idle"]]

\* The tasks of planned workflows, of a tenant each.
Init ==
    /\ LeaseInit
    /\ \E tenant \in [Workflows -> Tenants] :
          tasks = [t \in TaskIds |-> NewTask(tenant[t[1]], "PENDING")]

WorkerGoto(w, state) == worker' = [worker EXCEPT ![w] = state]
WorkerDone(w) == WorkerGoto(w, [at |-> "idle"])

------------------------------------------------------------------------------
(* lease_next_task *)

\* The SELECT: a task of the workflow that is pending or timed out.  All
\* tasks of a workflow are inserted together, so ORDER BY created_at, which
\* counts seconds, leaves their order open.
LeaseRead(w, workflow_id, t) ==
    /\ worker[w].at = "idle"
    /\ t \in DOMAIN tasks
    /\ t[1] = workflow_id
    /\ tasks[t].tenant = TenantOf[w]
    /\ tasks[t].status \in {"PENDING", "TIMED_OUT"}
    /\ WorkerGoto(w, [at |-> "leasing", task |-> t, now |-> clock,
                      attempts |-> tasks[t].attempts])
    /\ UNCHANGED <<tasks, clock, sweeper>>

\* Mutant: lease_expires_at is not assigned.
LeasedForever(row, w) ==
    [row EXCEPT !.status = "RUNNING", !.owner = w,
                !.attempts = worker[w].attempts + 1]

\* A task that was free when it was read had no owner and no expiry
\* (LeaseColumnsAgree), so all four columns changed and are written, whatever
\* the row holds by now.
Leased(row, w) ==
    [row EXCEPT !.status = "RUNNING", !.owner = w,
                !.expires = worker[w].now + LeaseSeconds,
                !.attempts = worker[w].attempts + 1]

\* The UPDATE at commit.
LeaseCommit(w) ==
    LET q == worker[w] IN
    /\ q.at = "leasing"
    /\ q.task \in DOMAIN tasks
    /\ tasks' = [tasks EXCEPT ![q.task] = Leased(@, w)]
    /\ WorkerGoto(w, [at |-> "holding", task |-> q.task,
                      expires |-> q.now + LeaseSeconds])
    /\ UNCHANGED <<clock, sweeper>>

------------------------------------------------------------------------------
(* mark_task_succeeded *)

MarkAllowed(w, t) ==
    /\ t \in DOMAIN tasks
    /\ tasks[t].tenant = TenantOf[w]
    /\ tasks[t].owner = w
    /\ tasks[t].status # "SUCCEEDED"

MarkRead(w) ==
    /\ worker[w].at = "holding"
    /\ MarkAllowed(w, worker[w].task)
    /\ WorkerGoto(w, [worker[w] EXCEPT !.at = "marking"])
    /\ UNCHANGED <<tasks, clock, sweeper>>

MarkRefused(w) ==
    /\ worker[w].at = "holding"
    /\ ~MarkAllowed(w, worker[w].task)
    /\ WorkerDone(w) \* returns False
    /\ UNCHANGED <<tasks, clock, sweeper>>

\* Only status is assigned; the lease columns stay as they are.
MarkCommit(w) ==
    /\ worker[w].at = "marking"
    /\ worker[w].task \in DOMAIN tasks
    /\ tasks' = [tasks EXCEPT ![worker[w].task].status = "SUCCEEDED"]
    /\ WorkerDone(w) \* returns True
    /\ UNCHANGED <<clock, sweeper>>

\* The row was deleted meanwhile: the UPDATE matches nothing and the session
\* raises StaleDataError.
RowGone(w) ==
    /\ worker[w].at \in {"leasing", "marking"}
    /\ worker[w].task \notin DOMAIN tasks
    /\ WorkerDone(w)
    /\ UNCHANGED <<tasks, clock, sweeper>>

\* The worker dies; what it had not committed is undone, its lease stays.
WorkerCrash(w) ==
    /\ worker[w].at # "idle"
    /\ WorkerDone(w)
    /\ UNCHANGED <<tasks, clock, sweeper>>

------------------------------------------------------------------------------
(* recover_expired_leases *)

\* SQL compares NULL with nothing: a row without expiry is never selected.
Expired(t, now) ==
    /\ tasks[t].status = "RUNNING"
    /\ tasks[t].expires # NULL
    /\ tasks[t].expires < now

SweepRead(p) ==
    LET found == {t \in DOMAIN tasks :
                     tasks[t].tenant = TenantOf[p] /\ Expired(t, clock)}
    IN
    /\ sweeper[p].at = "idle"
    /\ found # {}
    /\ sweeper' = [sweeper EXCEPT ![p] =
          [at |-> "sweeping", found |-> found,
           spent |-> {t \in found : tasks[t].attempts >= MaxAttempts}]]
    /\ UNCHANGED <<tasks, clock, worker>>

\* Mutant: the owner of the lease is not cleared.
SweptKeepsOwner(row, spent) ==
    [row EXCEPT !.status = IF spent THEN "TIMED_OUT" ELSE "PENDING",
                !.expires = NULL]

\* The status is decided by the attempts that were loaded (spent: at or past
\* max_attempts), and written with the cleared lease columns over whatever
\* the row holds by now.
Swept(row, spent) ==
    [row EXCEPT !.status = IF spent THEN "TIMED_OUT" ELSE "PENDING",
                !.owner = NULL, !.expires = NULL]

SweepCommit(p) ==
    LET q == sweeper[p] IN
    /\ q.at = "sweeping"
    /\ q.found \subseteq DOMAIN tasks
    /\ tasks' = [t \in DOMAIN tasks |->
          IF t \in q.found THEN Swept(tasks[t], t \in q.spent) ELSE tasks[t]]
    /\ sweeper' = [sweeper EXCEPT ![p] = [at |-> "idle"]]
    /\ UNCHANGED <<clock, worker>>

\* The sweep ends without effect: a row it loaded is gone (StaleDataError)
\* or its process died.
SweepUndone(p) ==
    /\ sweeper[p].at = "sweeping"
    /\ sweeper' = [sweeper EXCEPT ![p] = [at |-> "idle"]]
    /\ UNCHANGED <<tasks, clock, worker>>

Tick ==
    /\ clock < MaxClock
    /\ clock' = clock + 1
    /\ UNCHANGED <<tasks, worker, sweeper>>

WorkerStep(w) ==
    \/ \E wf \in Workflows, t \in TaskIds : LeaseRead(w, wf, t)
    \/ LeaseCommit(w)
    \/ MarkRead(w) \/ MarkRefused(w) \/ MarkCommit(w)
    \/ RowGone(w) \/ WorkerCrash(w)

SweepStep(p) == SweepRead(p) \/ SweepCommit(p) \/ SweepUndone(p)

LeaseNext ==
    \/ \E w \in Workers : WorkerStep(w)
    \/ \E p \in Sweepers : SweepStep(p)
    \/ Tick

Spec == Init /\ [][LeaseNext]_leaseVars

------------------------------------------------------------------------------
(* Properties *)

LeaseTypeOK ==
    /\ DOMAIN tasks \subseteq TaskIds
    /\ tasks \in [DOMAIN tasks -> TaskRows]
    /\ clock \in Nat
    /\ worker \in [Workers -> WorkerStates]
    /\ sweeper \in [Sweepers -> SweeperStates]

\* The lease columns of a task agree with its status although leases, marks
\* and sweeps overwrite each other: a task that may be leased has no owner
\* and no expiry, and a running one has both.
LeaseColumnsAgree ==
    \A t \in DOMAIN tasks :
        /\ tasks[t].status \in {"PENDING", "TIMED_OUT"} =>
              tasks[t].owner = NULL /\ tasks[t].expires = NULL
        /\ tasks[t].status = "RUNNING" =>
              tasks[t].owner # NULL /\ tasks[t].expires # NULL

\* No task is stuck with a dead worker: every running task becomes visible
\* to recover_expired_leases at most LeaseSeconds + 1 from now, also when
\* its lease was written late or over another one.
RunningExpires ==
    \A t \in DOMAIN tasks :
        tasks[t].status = "RUNNING" =>
            /\ tasks[t].expires # NULL
            /\ tasks[t].expires <= clock + LeaseSeconds

\* "two workers do not share lease" (tests/test_durable_workflow.py): no two
\* workers were handed the same task with leases that are both unexpired.
NoSharedLease ==
    \A w1, w2 \in Workers :
        /\ worker[w1].at = "holding" /\ worker[w2].at = "holding"
        /\ worker[w1].task = worker[w2].task
        /\ worker[w1].expires >= clock /\ worker[w2].expires >= clock
        => w1 = w2
=============================================================================
