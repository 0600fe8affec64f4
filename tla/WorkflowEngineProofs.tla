------------------------ MODULE WorkflowEngineProofs ------------------------
(***************************************************************************)
(* Theorems about WorkflowEngine with the workers and sweepers of          *)
(* TaskLease, for any number of processes, tenants, workflows and plans.   *)
(***************************************************************************)
EXTENDS WorkflowEngine, FiniteSetTheorems, TLAPS

------------------------------------------------------------------------------
(* The workers and sweepers of TaskLease.  The step lemmas are about         *)
(* LeaseNext alone: the engine's proofs below use them for the steps that    *)
(* it shares with TaskLease.                                                 *)

\* A lease that is about to be committed was timed no later than now.
ReadInThePast ==
    \A w \in Workers : worker[w].at = "leasing" => worker[w].now <= clock

LeaseInv ==
    /\ LeaseTypeOK
    /\ ReadInThePast
    /\ LeaseColumnsAgree
    /\ RunningExpires

LEMMA InitInv == Init => LeaseInv
  <1> SUFFICES ASSUME Init PROVE LeaseInv
    OBVIOUS
  <1>1. PICK tenant \in [Workflows -> Tenants] :
          tasks = [t \in TaskIds |-> NewTask(tenant[t[1]], "PENDING")]
    BY DEF Init
  <1>2. \A t \in TaskIds :
           /\ tasks[t].tenant \in Tenants
           /\ tasks[t] = NewTask(tenant[t[1]], "PENDING")
    BY <1>1 DEF TaskIds, NewTask
  <1>3. LeaseTypeOK
    BY <1>1, <1>2 DEF Init, LeaseInit, LeaseTypeOK, TaskRows, TaskStatuses,
                      NewTask, WorkerStates, SweeperStates
  <1>4. ReadInThePast
    BY DEF Init, LeaseInit, ReadInThePast
  <1>5. LeaseColumnsAgree /\ RunningExpires
    BY <1>1, <1>2 DEF LeaseColumnsAgree, RunningExpires, NewTask
  <1> QED BY <1>3, <1>4, <1>5 DEF LeaseInv

\* A step that only moves one worker, to a state that is not a fresh read.
LEMMA WorkerMoves ==
    ASSUME LeaseInv, NEW w \in Workers, NEW state \in WorkerStates,
           WorkerGoto(w, state), UNCHANGED <<clock, sweeper>>,
           state.at = "leasing" => state.now <= clock,
           tasks' \in [DOMAIN tasks' -> TaskRows], DOMAIN tasks' = DOMAIN tasks
    PROVE  LeaseTypeOK' /\ ReadInThePast'
  <1>1. worker' \in [Workers -> WorkerStates]
    BY DEF LeaseInv, LeaseTypeOK, WorkerGoto
  <1>2. LeaseTypeOK'
    BY <1>1 DEF LeaseInv, LeaseTypeOK
  <1>3. ReadInThePast'
    BY DEF LeaseInv, LeaseTypeOK, ReadInThePast, WorkerGoto
  <1> QED BY <1>2, <1>3

\* Rows that are not touched agree with their status and expire as before.
LEMMA RowsUnchanged ==
    ASSUME LeaseInv, UNCHANGED <<tasks, clock>>
    PROVE  LeaseColumnsAgree' /\ RunningExpires'
  BY DEF LeaseInv, LeaseColumnsAgree, RunningExpires

LEMMA IdleMoves ==
    ASSUME LeaseInv, NEW w \in Workers, WorkerDone(w),
           UNCHANGED <<tasks, clock, sweeper>>
    PROVE  LeaseInv'
  <1>1. [at |-> "idle"] \in WorkerStates
    BY DEF WorkerStates
  <1>2. LeaseTypeOK' /\ ReadInThePast'
    BY <1>1, WorkerMoves DEF WorkerDone, LeaseInv, LeaseTypeOK
  <1> QED BY <1>2, RowsUnchanged DEF LeaseInv

LEMMA LeaseReadInv ==
    ASSUME LeaseInv, NEW w \in Workers, NEW wf \in Workflows,
           NEW t \in TaskIds, LeaseRead(w, wf, t)
    PROVE  LeaseInv'
  <1> DEFINE read == [at |-> "leasing", task |-> t, now |-> clock,
                      attempts |-> tasks[t].attempts]
  <1>1. tasks[t].attempts \in Nat /\ clock \in Nat
    BY DEF LeaseRead, LeaseInv, LeaseTypeOK, TaskRows
  <1>2. read \in WorkerStates
    BY <1>1 DEF WorkerStates
  <1>3. WorkerGoto(w, read) /\ UNCHANGED <<tasks, clock, sweeper>>
    BY DEF LeaseRead
  <1>4. read.at = "leasing" => read.now <= clock
    BY <1>1
  <1>5. tasks' \in [DOMAIN tasks' -> TaskRows] /\ DOMAIN tasks' = DOMAIN tasks
    BY <1>3 DEF LeaseInv, LeaseTypeOK
  <1> HIDE DEF read
  <1>6. LeaseTypeOK' /\ ReadInThePast'
    BY <1>2, <1>3, <1>4, <1>5, WorkerMoves
  <1> QED BY <1>3, <1>6, RowsUnchanged DEF LeaseInv

\* The lease is written over whatever the row holds: it sets both columns.
LEMMA LeaseCommitInv ==
    ASSUME LeaseInv, NEW w \in Workers, LeaseCommit(w)
    PROVE  LeaseInv'
  <1> DEFINE q == worker[w]
             held == [at |-> "holding", task |-> q.task,
                      expires |-> q.now + LeaseSeconds]
  <1>1. /\ q.at = "leasing" /\ q.task \in DOMAIN tasks
        /\ tasks' = [tasks EXCEPT ![q.task] = Leased(tasks[q.task], w)]
        /\ WorkerGoto(w, held) /\ UNCHANGED <<clock, sweeper>>
    BY DEF LeaseCommit
  <1>2. /\ q.task \in TaskIds /\ q.now \in Nat /\ q.attempts \in Nat
        /\ q.now <= clock /\ clock \in Nat
    BY <1>1 DEF LeaseInv, LeaseTypeOK, WorkerStates, ReadInThePast
  <1>3. held \in WorkerStates /\ held.at = "holding"
    BY <1>2, LeaseAssumption DEF WorkerStates
  <1> DEFINE row == Leased(tasks[q.task], w)
  <1>4. /\ row \in TaskRows /\ row.status = "RUNNING" /\ row.owner = w
        /\ row.expires = q.now + LeaseSeconds
    <2>1. tasks[q.task] \in TaskRows
      BY <1>1 DEF LeaseInv, LeaseTypeOK
    <2>2. q.now + LeaseSeconds \in Nat /\ q.attempts + 1 \in Nat
      BY <1>2, LeaseAssumption
    <2> QED BY <2>1, <2>2 DEF Leased, TaskRows, TaskStatuses
  <1>5. /\ tasks' \in [DOMAIN tasks' -> TaskRows] /\ DOMAIN tasks' = DOMAIN tasks
        /\ tasks'[q.task] = row
        /\ \A t \in DOMAIN tasks : t # q.task => tasks'[t] = tasks[t]
    BY <1>1, <1>4 DEF LeaseInv, LeaseTypeOK
  <1> HIDE DEF q, held, row
  <1>6. LeaseTypeOK' /\ ReadInThePast'
    BY <1>1, <1>3, <1>5, WorkerMoves
  <1>7. /\ q.now + LeaseSeconds \in Nat
        /\ q.now + LeaseSeconds <= clock + LeaseSeconds
    BY <1>2, LeaseAssumption
  <1>8. LeaseColumnsAgree'
    BY <1>4, <1>5, <1>7, NullAssumption DEF LeaseInv, LeaseColumnsAgree
  <1>9. RunningExpires'
    BY <1>1, <1>4, <1>5, <1>7, NullAssumption DEF LeaseInv, RunningExpires
  <1> QED BY <1>6, <1>8, <1>9 DEF LeaseInv

LEMMA MarkReadInv ==
    ASSUME LeaseInv, NEW w \in Workers, MarkRead(w)
    PROVE  LeaseInv'
  <1> DEFINE marking == [worker[w] EXCEPT !.at = "marking"]
  <1>1. worker[w].at = "holding" /\ worker[w] \in WorkerStates
    BY DEF MarkRead, LeaseInv, LeaseTypeOK
  <1>2. marking \in WorkerStates /\ marking.at = "marking"
    BY <1>1 DEF WorkerStates
  <1>3. WorkerGoto(w, marking) /\ UNCHANGED <<tasks, clock, sweeper>>
    BY DEF MarkRead
  <1>4. tasks' \in [DOMAIN tasks' -> TaskRows] /\ DOMAIN tasks' = DOMAIN tasks
    BY <1>3 DEF LeaseInv, LeaseTypeOK
  <1> HIDE DEF marking
  <1>5. LeaseTypeOK' /\ ReadInThePast'
    BY <1>2, <1>3, <1>4, WorkerMoves
  <1> QED BY <1>3, <1>5, RowsUnchanged DEF LeaseInv

\* Only the status changes, to one about which the columns say nothing.
LEMMA MarkCommitInv ==
    ASSUME LeaseInv, NEW w \in Workers, MarkCommit(w)
    PROVE  LeaseInv'
  <1> DEFINE m == worker[w].task
  <1>1. /\ m \in DOMAIN tasks
        /\ tasks' = [tasks EXCEPT ![m] = [tasks[m] EXCEPT !.status = "SUCCEEDED"]]
        /\ WorkerGoto(w, [at |-> "idle"]) /\ UNCHANGED <<clock, sweeper>>
    BY DEF MarkCommit, WorkerDone
  <1>2. /\ [tasks[m] EXCEPT !.status = "SUCCEEDED"] \in TaskRows
        /\ [tasks[m] EXCEPT !.status = "SUCCEEDED"].status = "SUCCEEDED"
    BY <1>1 DEF LeaseInv, LeaseTypeOK, TaskRows, TaskStatuses
  <1>3. /\ tasks' \in [DOMAIN tasks' -> TaskRows] /\ DOMAIN tasks' = DOMAIN tasks
        /\ tasks'[m].status = "SUCCEEDED"
        /\ \A t \in DOMAIN tasks : t # m => tasks'[t] = tasks[t]
    BY <1>1, <1>2 DEF LeaseInv, LeaseTypeOK
  <1> HIDE DEF m
  <1>4. [at |-> "idle"] \in WorkerStates
    BY DEF WorkerStates
  <1>5. LeaseTypeOK' /\ ReadInThePast'
    BY <1>1, <1>3, <1>4, WorkerMoves
  <1>6. LeaseColumnsAgree' /\ RunningExpires'
    BY <1>1, <1>3 DEF LeaseInv, LeaseColumnsAgree, RunningExpires
  <1> QED BY <1>5, <1>6 DEF LeaseInv

LEMMA SweepReadInv ==
    ASSUME LeaseInv, NEW p \in Sweepers, SweepRead(p)
    PROVE  LeaseInv'
  <1> DEFINE found == {t \in DOMAIN tasks :
                         tasks[t].tenant = TenantOf[p] /\ Expired(t, clock)}
             spent == {t \in found : tasks[t].attempts >= MaxAttempts}
  <1>1. /\ sweeper' = [sweeper EXCEPT ![p] =
              [at |-> "sweeping", found |-> found, spent |-> spent]]
        /\ UNCHANGED <<tasks, clock, worker>>
    BY DEF SweepRead
  <1>2. found \subseteq TaskIds /\ spent \subseteq TaskIds
    BY DEF LeaseInv, LeaseTypeOK
  <1> HIDE DEF found, spent
  <1>3. sweeper' \in [Sweepers -> SweeperStates]
    BY <1>1, <1>2 DEF LeaseInv, LeaseTypeOK, SweeperStates
  <1>4. LeaseTypeOK' /\ ReadInThePast'
    BY <1>1, <1>3 DEF LeaseInv, LeaseTypeOK, ReadInThePast
  <1> QED BY <1>1, <1>4, RowsUnchanged DEF LeaseInv

\* A sweep writes both lease columns with the status, also over a row that
\* has been leased again or marked since it was read.
LEMMA SweepCommitInv ==
    ASSUME LeaseInv, NEW p \in Sweepers, SweepCommit(p)
    PROVE  LeaseInv'
  <1> DEFINE q == sweeper[p]
  <1>1. /\ tasks' = [t \in DOMAIN tasks |->
              IF t \in q.found THEN Swept(tasks[t], t \in q.spent) ELSE tasks[t]]
        /\ sweeper' = [sweeper EXCEPT ![p] = [at |-> "idle"]]
        /\ UNCHANGED <<clock, worker>>
    BY DEF SweepCommit
  <1>2. ASSUME NEW row \in TaskRows, NEW spent
        PROVE  /\ Swept(row, spent) \in TaskRows
               /\ Swept(row, spent).status \in {"PENDING", "TIMED_OUT"}
               /\ Swept(row, spent).owner = NULL
               /\ Swept(row, spent).expires = NULL
    BY DEF Swept, TaskRows, TaskStatuses
  <1>3. \A t \in DOMAIN tasks : tasks[t] \in TaskRows
    BY DEF LeaseInv, LeaseTypeOK
  <1>4. /\ DOMAIN tasks' = DOMAIN tasks
        /\ \A t \in DOMAIN tasks :
              \/ tasks'[t] = tasks[t]
              \/ /\ tasks'[t] \in TaskRows
                 /\ tasks'[t].status \in {"PENDING", "TIMED_OUT"}
                 /\ tasks'[t].owner = NULL /\ tasks'[t].expires = NULL
    BY <1>1, <1>2, <1>3
  <1>5. tasks' \in [DOMAIN tasks' -> TaskRows]
    BY <1>1, <1>3, <1>4
  <1>6. LeaseTypeOK' /\ ReadInThePast'
    BY <1>1, <1>4, <1>5 DEF LeaseInv, LeaseTypeOK, ReadInThePast, SweeperStates
  <1>7. LeaseColumnsAgree' /\ RunningExpires'
    BY <1>1, <1>4 DEF LeaseInv, LeaseColumnsAgree, RunningExpires
  <1> QED BY <1>6, <1>7 DEF LeaseInv

LEMMA SweepUndoneInv ==
    ASSUME LeaseInv, NEW p \in Sweepers, SweepUndone(p)
    PROVE  LeaseInv'
  <1>1. LeaseTypeOK' /\ ReadInThePast'
    BY DEF SweepUndone, LeaseInv, LeaseTypeOK, ReadInThePast, SweeperStates
  <1> QED BY <1>1, RowsUnchanged DEF SweepUndone, LeaseInv

LEMMA TickInv ==
    ASSUME LeaseInv, Tick
    PROVE  LeaseInv'
  <1>1. clock' = clock + 1 /\ clock \in Nat /\ UNCHANGED <<tasks, worker, sweeper>>
    BY DEF Tick, LeaseInv, LeaseTypeOK
  <1>2. LeaseTypeOK'
    BY <1>1 DEF LeaseInv, LeaseTypeOK
  <1>3. ReadInThePast'
    BY <1>1 DEF LeaseInv, LeaseTypeOK, ReadInThePast, WorkerStates
  <1>4. LeaseColumnsAgree'
    BY <1>1 DEF LeaseInv, LeaseColumnsAgree
  <1>5. RunningExpires'
    BY <1>1, LeaseAssumption DEF LeaseInv, RunningExpires, LeaseTypeOK, TaskRows
  <1> QED BY <1>2, <1>3, <1>4, <1>5 DEF LeaseInv

LEMMA LeaseNextInv == LeaseInv /\ LeaseNext => LeaseInv'
  <1> SUFFICES ASSUME LeaseInv, LeaseNext PROVE LeaseInv'
    OBVIOUS
  <1>1. ASSUME NEW w \in Workers, WorkerStep(w) PROVE LeaseInv'
    <2>1. ASSUME NEW wf \in Workflows, NEW t \in TaskIds, LeaseRead(w, wf, t)
          PROVE  LeaseInv'
      BY <2>1, LeaseReadInv
    <2>2. CASE LeaseCommit(w)
      BY <2>2, LeaseCommitInv
    <2>3. CASE MarkRead(w)
      BY <2>3, MarkReadInv
    <2>4. CASE MarkCommit(w)
      BY <2>4, MarkCommitInv
    <2>5. CASE MarkRefused(w) \/ RowGone(w) \/ WorkerCrash(w)
      BY <2>5, IdleMoves DEF MarkRefused, RowGone, WorkerCrash
    <2> QED BY <1>1, <2>1, <2>2, <2>3, <2>4, <2>5 DEF WorkerStep
  <1>2. ASSUME NEW p \in Sweepers, SweepStep(p) PROVE LeaseInv'
    BY <1>2, SweepReadInv, SweepCommitInv, SweepUndoneInv DEF SweepStep
  <1> QED BY <1>1, <1>2, TickInv DEF LeaseNext

LEMMA StutterInv == LeaseInv /\ UNCHANGED leaseVars => LeaseInv'
  BY DEF leaseVars, LeaseInv, LeaseTypeOK, ReadInThePast, LeaseColumnsAgree,
         RunningExpires

LEMMA LeaseInductive == Spec => []LeaseInv
  BY InitInv, LeaseNextInv, StutterInv, PTL DEF Spec

\* Type correctness of the lease protocol.
THEOREM LeaseTypeCorrect == Spec => []LeaseTypeOK
  <1>1. LeaseInv => LeaseTypeOK
    BY DEF LeaseInv
  <1> QED BY <1>1, LeaseInductive, PTL

------------------------------------------------------------------------------
(* The engine on the same task rows                                          *)


StepRecords ==
    {[status |-> "queued", observations |-> 0],
     [status |-> "completed", observations |-> 1]}

DocStatuses == {"planned", "completed", "recovered"}

\* A document that some plan, execute or recover built.
IsDoc(doc) ==
    /\ doc = [plan |-> doc.plan, status |-> doc.status, steps |-> doc.steps]
    /\ doc.plan \in Plans
    /\ doc.status \in DocStatuses
    /\ doc.steps \in [StepsOf[doc.plan] -> StepRecords]
    /\ doc.status = "completed" =>
          \A s \in DOMAIN doc.steps : doc.steps[s].status = "completed"

WorkflowRows ==
    [tenant: Tenants, status: {"PENDING", "SUCCEEDED", "RECOVERING"}, version: Nat]

\* An open handler carries a document; what it read of the workflow row was
\* there, and rows are never deleted.
HandlersOK ==
    /\ DOMAIN handler = Handlers
    /\ \A h \in Handlers :
          \/ handler[h].at = "idle"
          \/ /\ handler[h].at \in {"save", "flush"}
             /\ handler[h].tenant \in Tenants
             /\ handler[h].checkpoint \in Workflows
             /\ IsDoc(handler[h].doc)
             /\ handler[h].at = "flush" /\ handler[h].row # NULL =>
                   /\ handler[h].row \in WorkflowRows
                   /\ handler[h].checkpoint \in DOMAIN workflows

RowsOK ==
    /\ DOMAIN workflows \subseteq Workflows
    /\ DOMAIN checkpoints = DOMAIN workflows
    /\ \A c \in DOMAIN workflows :
          /\ workflows[c] \in WorkflowRows
          /\ checkpoints[c].tenant = workflows[c].tenant
          /\ checkpoints[c].version = workflows[c].version
          /\ IsDoc(checkpoints[c].doc)

\* The task rows of a workflow are those of its document, of its tenant.
TasksMatch ==
    /\ \A c, s : <<c, s>> \in DOMAIN tasks <=>
          c \in DOMAIN checkpoints /\ s \in DOMAIN checkpoints[c].doc.steps
    /\ \A t \in DOMAIN tasks :
          /\ t = <<t[1], t[2]>>
          /\ tasks[t].tenant = checkpoints[t[1]].tenant

EngineInv ==
    /\ LeaseInv
    /\ HandlersOK
    /\ RowsOK
    /\ TasksMatch

------------------------------------------------------------------------------
(* What the invariant says in the terms of the properties *)

LEMMA TablesMatch == EngineInv => TablesAgree
  <1> SUFFICES ASSUME EngineInv PROVE TablesAgree
    OBVIOUS
  <1> DEFINE all == UNION {{c} \X DOMAIN checkpoints[c].doc.steps :
                              c \in DOMAIN checkpoints}
  <1>1. ASSUME NEW t \in DOMAIN tasks PROVE t \in all
    <2>1. /\ t = <<t[1], t[2]>>
          /\ t[1] \in DOMAIN checkpoints
          /\ t[2] \in DOMAIN checkpoints[t[1]].doc.steps
      BY DEF EngineInv, TasksMatch
    <2> QED BY <2>1
  <1>2. ASSUME NEW t \in all PROVE t \in DOMAIN tasks
    <2>1. PICK c \in DOMAIN checkpoints : t \in {c} \X DOMAIN checkpoints[c].doc.steps
      OBVIOUS
    <2>2. PICK s \in DOMAIN checkpoints[c].doc.steps : t = <<c, s>>
      BY <2>1
    <2> QED BY <2>2 DEF EngineInv, TasksMatch
  <1>3. DOMAIN tasks = all
    BY <1>1, <1>2
  <1> QED BY <1>3 DEF TablesAgree, EngineInv, RowsOK, TasksMatch

LEMMA DocsObservedOnce == EngineInv => StepsObservedOnce
  <1> SUFFICES ASSUME EngineInv, NEW c \in DOMAIN checkpoints
               PROVE  LET doc == checkpoints[c].doc IN
                      /\ \A s \in DOMAIN doc.steps :
                            doc.steps[s].observations =
                              IF doc.steps[s].status = "completed" THEN 1 ELSE 0
                      /\ doc.status = "completed" =>
                            \A s \in DOMAIN doc.steps :
                               doc.steps[s].status = "completed"
    BY DEF StepsObservedOnce
  <1>1. IsDoc(checkpoints[c].doc)
    BY DEF EngineInv, RowsOK
  <1>2. ASSUME NEW r \in StepRecords
        PROVE  r.observations = IF r.status = "completed" THEN 1 ELSE 0
    BY DEF StepRecords
  <1> QED BY <1>1, <1>2 DEF IsDoc

------------------------------------------------------------------------------
(* The lease protocol leaves the rows of other tables alone *)

\* Leases, marks and sweeps neither insert nor delete task rows, and never
\* change the tenant of one.
LEMMA LeaseKeepsRows ==
    ASSUME LeaseInv, LeaseNext
    PROVE  /\ DOMAIN tasks' = DOMAIN tasks
           /\ \A t \in DOMAIN tasks : tasks'[t].tenant = tasks[t].tenant
  <1>1. \A t \in DOMAIN tasks : tasks[t] \in TaskRows
    BY DEF LeaseInv, LeaseTypeOK
  <1>2. ASSUME NEW w \in Workers, LeaseCommit(w)
        PROVE  /\ DOMAIN tasks' = DOMAIN tasks
               /\ \A t \in DOMAIN tasks : tasks'[t].tenant = tasks[t].tenant
    BY <1>1, <1>2 DEF LeaseCommit, Leased, TaskRows
  <1>3. ASSUME NEW w \in Workers, MarkCommit(w)
        PROVE  /\ DOMAIN tasks' = DOMAIN tasks
               /\ \A t \in DOMAIN tasks : tasks'[t].tenant = tasks[t].tenant
    BY <1>1, <1>3 DEF MarkCommit, TaskRows
  <1>4. ASSUME NEW p \in Sweepers, SweepCommit(p)
        PROVE  /\ DOMAIN tasks' = DOMAIN tasks
               /\ \A t \in DOMAIN tasks : tasks'[t].tenant = tasks[t].tenant
    <2>1. ASSUME NEW row \in TaskRows, NEW spent
          PROVE  Swept(row, spent).tenant = row.tenant
      BY DEF Swept, TaskRows
    <2> QED BY <1>1, <1>4, <2>1 DEF SweepCommit
  <1>5. ASSUME UNCHANGED tasks
        PROVE  /\ DOMAIN tasks' = DOMAIN tasks
               /\ \A t \in DOMAIN tasks : tasks'[t].tenant = tasks[t].tenant
    BY <1>5
  <1>6. \/ \E w \in Workers : LeaseCommit(w) \/ MarkCommit(w)
        \/ \E p \in Sweepers : SweepCommit(p)
        \/ UNCHANGED tasks
    BY DEF LeaseNext, WorkerStep, SweepStep, LeaseRead, MarkRead, MarkRefused,
           RowGone, WorkerCrash, SweepRead, SweepUndone, Tick
  <1> QED BY <1>2, <1>3, <1>4, <1>5, <1>6

LEMMA LeaseStepInv ==
    ASSUME EngineInv, LeaseNext, UNCHANGED engineVars
    PROVE  EngineInv'
  <1>1. LeaseInv'
    BY LeaseNextInv DEF EngineInv
  <1>2. HandlersOK' /\ RowsOK'
    BY DEF EngineInv, HandlersOK, RowsOK, engineVars
  <1>3. TasksMatch'
    BY LeaseKeepsRows DEF EngineInv, TasksMatch, engineVars
  <1> QED BY <1>1, <1>2, <1>3 DEF EngineInv

------------------------------------------------------------------------------
(* Handlers *)

\* A step that only moves one handler, to a state that satisfies HandlersOK.
LEMMA HandlerMoves ==
    ASSUME EngineInv, NEW h \in Handlers, NEW state, Goto(h, state),
           UNCHANGED <<leaseVars, workflows, checkpoints, events>>,
           \/ state.at = "idle"
           \/ /\ state.at \in {"save", "flush"}
              /\ state.tenant \in Tenants
              /\ state.checkpoint \in Workflows
              /\ IsDoc(state.doc)
              /\ state.at = "flush" /\ state.row # NULL =>
                    /\ state.row \in WorkflowRows
                    /\ state.checkpoint \in DOMAIN workflows
    PROVE  EngineInv'
  <1>1. LeaseInv'
    BY StutterInv DEF EngineInv
  <1>2. RowsOK' /\ TasksMatch'
    BY DEF EngineInv, RowsOK, TasksMatch, leaseVars
  <1>3. HandlersOK'
    <2>1. /\ DOMAIN handler' = Handlers
          /\ handler'[h] = state
          /\ \A g \in Handlers : g # h => handler'[g] = handler[g]
      BY DEF EngineInv, HandlersOK, Goto
    <2>2. UNCHANGED workflows
      OBVIOUS
    <2> QED BY <2>1, <2>2 DEF EngineInv, HandlersOK
  <1> QED BY <1>1, <1>2, <1>3 DEF EngineInv

LEMMA RaisesInv ==
    ASSUME EngineInv, NEW h \in Handlers, HandlerRaises(h)
    PROVE  EngineInv'
  BY HandlerMoves DEF HandlerRaises, HandlerDone

LEMMA SaveInv ==
    ASSUME EngineInv, NEW h \in Handlers, NEW tenant \in Tenants,
           NEW cp \in Workflows, NEW doc, IsDoc(doc), Save(h, tenant, cp, doc)
    PROVE  EngineInv'
  <1> DEFINE state == [at |-> "save", tenant |-> tenant, checkpoint |-> cp,
                       doc |-> doc]
  <1>1. /\ state.at = "save" /\ state.tenant = tenant
        /\ state.checkpoint = cp /\ state.doc = doc
    OBVIOUS
  <1>2. /\ Goto(h, state)
        /\ UNCHANGED <<leaseVars, workflows, checkpoints, events>>
    BY DEF Save
  <1> HIDE DEF state
  <1> QED BY <1>1, <1>2, HandlerMoves

LEMMA PlanInv ==
    ASSUME EngineInv, NEW h \in Handlers, NEW tenant \in Tenants,
           NEW p \in Plans, Plan(h, tenant, p)
    PROVE  EngineInv'
  <1> DEFINE doc == [plan |-> p, status |-> "planned",
                     steps |-> [s \in StepsOf[p] |->
                                  [status |-> "queued", observations |-> 0]]]
  <1>1. IsDoc(doc)
    BY DEF IsDoc, DocStatuses, StepRecords
  <1>2. PICK cp \in Workflows : Save(h, tenant, cp, doc)
    BY DEF Plan
  <1> QED BY <1>1, <1>2, SaveInv

\* What execute makes of a document: every step completed, observed once.
LEMMA ExecutedDoc ==
    ASSUME NEW doc, IsDoc(doc)
    PROVE  IsDoc([doc EXCEPT !.status = "completed",
                             !.steps = [s \in DOMAIN doc.steps |->
                                           Executed(doc.steps[s])]])
  <1> DEFINE steps == [s \in DOMAIN doc.steps |-> Executed(doc.steps[s])]
             result == [doc EXCEPT !.status = "completed", !.steps = steps]
  <1>1. ASSUME NEW r \in StepRecords
        PROVE  Executed(r) = [status |-> "completed", observations |-> 1]
    BY DEF StepRecords, Executed
  <1>2. /\ steps \in [StepsOf[doc.plan] -> StepRecords]
        /\ \A s \in DOMAIN steps : steps[s].status = "completed"
    BY <1>1 DEF IsDoc, StepRecords
  <1> HIDE DEF steps
  <1>3. result = [plan |-> doc.plan, status |-> "completed", steps |-> steps]
    <2> DEFINE half == [doc EXCEPT !.status = "completed"]
    <2>1. half = [plan |-> doc.plan, status |-> "completed", steps |-> doc.steps]
      BY DEF IsDoc
    <2>2. result = [half EXCEPT !.steps = steps]
      BY <2>1 DEF IsDoc
    <2> HIDE DEF half, result
    <2> QED BY <2>1, <2>2
  <1>4. IsDoc([plan |-> doc.plan, status |-> "completed", steps |-> steps])
    BY <1>2 DEF IsDoc, DocStatuses
  <1>5. IsDoc(result)
    BY <1>3, <1>4
  <1> QED BY <1>5 DEF steps

LEMMA RecoveredDoc ==
    ASSUME NEW doc, IsDoc(doc)
    PROVE  IsDoc([doc EXCEPT !.status = "recovered"])
  <1>1. [doc EXCEPT !.status = "recovered"] =
           [plan |-> doc.plan, status |-> "recovered", steps |-> doc.steps]
    BY DEF IsDoc
  <1>2. IsDoc([plan |-> doc.plan, status |-> "recovered", steps |-> doc.steps])
    BY DEF IsDoc, DocStatuses
  <1> QED BY <1>1, <1>2

LEMMA ExecuteInv ==
    ASSUME EngineInv, NEW h \in Handlers, NEW tenant \in Tenants,
           NEW cp \in Workflows, Execute(h, tenant, cp)
    PROVE  EngineInv'
  <1> DEFINE doc == checkpoints[cp].doc
             result == [doc EXCEPT !.status = "completed",
                                   !.steps = [s \in DOMAIN doc.steps |->
                                                 Executed(doc.steps[s])]]
  <1>1. IsDoc(doc)
    BY DEF Execute, CanGet, EngineInv, RowsOK
  <1>2. IsDoc(result)
    BY <1>1, ExecutedDoc
  <1>3. Save(h, tenant, cp, result)
    BY DEF Execute
  <1> HIDE DEF result
  <1> QED BY <1>2, <1>3, SaveInv

LEMMA RecoverInv ==
    ASSUME EngineInv, NEW h \in Handlers, NEW tenant \in Tenants,
           NEW cp \in Workflows, Recover(h, tenant, cp)
    PROVE  EngineInv'
  <1> DEFINE result == [checkpoints[cp].doc EXCEPT !.status = "recovered"]
  <1>1. IsDoc(checkpoints[cp].doc)
    BY DEF Recover, CanGet, EngineInv, RowsOK
  <1>2. IsDoc(result)
    BY <1>1, RecoveredDoc
  <1>3. Save(h, tenant, cp, result)
    BY DEF Recover
  <1> HIDE DEF result
  <1> QED BY <1>2, <1>3, SaveInv

LEMMA UpsertReadInv ==
    ASSUME EngineInv, NEW h \in Handlers, UpsertRead(h)
    PROVE  EngineInv'
  <1> DEFINE q == handler[h]
             row == IF q.checkpoint \in DOMAIN workflows
                    THEN workflows[q.checkpoint] ELSE NULL
             state == [at |-> "flush", tenant |-> q.tenant,
                       checkpoint |-> q.checkpoint, doc |-> q.doc, row |-> row]
  <1>1. /\ Goto(h, state)
        /\ UNCHANGED <<leaseVars, workflows, checkpoints, events>>
        /\ q.at = "save"
    BY DEF UpsertRead
  <1>2. q.tenant \in Tenants /\ q.checkpoint \in Workflows /\ IsDoc(q.doc)
    BY <1>1 DEF EngineInv, HandlersOK
  <1>3. row # NULL => /\ row \in WorkflowRows
                      /\ q.checkpoint \in DOMAIN workflows
    BY DEF EngineInv, RowsOK
  <1>4. /\ state.at = "flush" /\ state.tenant = q.tenant /\ state.row = row
        /\ state.checkpoint = q.checkpoint /\ state.doc = q.doc
    OBVIOUS
  <1> HIDE DEF q, row, state
  <1> QED BY <1>1, <1>2, <1>3, <1>4, HandlerMoves

------------------------------------------------------------------------------
(* The commit of upsert_workflow *)

LEMMA StatusOf ==
    /\ Status("planned") = "PENDING" /\ Status("queued") = "PENDING"
    /\ Status("completed") = "SUCCEEDED"
    /\ Status("recovered") = "RECOVERING"
  BY DEF Status

\* The tasks of the document of a handler that is about to commit.
LEMMA NewTasksOf ==
    ASSUME EngineInv, NEW h \in Handlers, handler[h].at = "flush"
    PROVE  /\ NewTasks(h) \subseteq TaskIds
           /\ \A t \in NewTasks(h) : t = <<t[1], t[2]>>
           /\ \A c, s : <<c, s>> \in NewTasks(h) <=>
                 c = handler[h].checkpoint /\ s \in DOMAIN handler[h].doc.steps
           /\ <<handler[h].checkpoint, 1>> \in NewTasks(h)
           /\ \A s \in DOMAIN handler[h].doc.steps :
                 Status(handler[h].doc.steps[s].status) \in {"PENDING", "SUCCEEDED"}
  <1> DEFINE steps == handler[h].doc.steps
             cp == handler[h].checkpoint
  <1>1. PICK p \in Plans : steps \in [StepsOf[p] -> StepRecords]
    BY DEF EngineInv, HandlersOK, IsDoc
  <1>2. DOMAIN steps \subseteq Steps /\ 1 \in DOMAIN steps /\ cp \in Workflows
    BY <1>1, PlanAssumption DEF EngineInv, HandlersOK
  <1>3. ASSUME NEW r \in StepRecords
        PROVE  Status(r.status) \in {"PENDING", "SUCCEEDED"}
    BY StatusOf DEF StepRecords
  <1>4. NewTasks(h) = {cp} \X DOMAIN steps
    BY DEF NewTasks
  <1> HIDE DEF steps, cp
  <1>5. /\ NewTasks(h) \subseteq TaskIds
        /\ \A t \in NewTasks(h) : t = <<t[1], t[2]>>
        /\ \A c, s : <<c, s>> \in NewTasks(h) <=> c = cp /\ s \in DOMAIN steps
        /\ <<cp, 1>> \in NewTasks(h)
    BY <1>2, <1>4 DEF TaskIds
  <1>6. \A s \in DOMAIN steps : Status(steps[s].status) \in {"PENDING", "SUCCEEDED"}
    BY <1>1, <1>3
  <1> QED BY <1>5, <1>6 DEF steps, cp

\* A commit that does not clash is one of the workflow's own tenant: every
\* document has a first step, whose task identifier would be taken.
LEMMA CommitIsOwn ==
    ASSUME EngineInv, NEW h \in Handlers, handler[h].at = "flush", ~Clash(h),
           handler[h].checkpoint \in DOMAIN workflows
    PROVE  /\ handler[h].tenant = workflows[handler[h].checkpoint].tenant
           /\ handler[h].row # NULL
  <1> DEFINE cp == handler[h].checkpoint
             first == <<cp, 1>>
  <1>1. handler[h].row # NULL
    BY DEF Clash
  <1>2. first \in NewTasks(h)
    BY NewTasksOf
  <1>3. PICK p \in Plans : DOMAIN checkpoints[cp].doc.steps = StepsOf[p]
    BY DEF EngineInv, RowsOK, IsDoc
  <1>4. /\ first \in DOMAIN tasks
        /\ first[1] = cp
        /\ tasks[first].tenant = workflows[cp].tenant
    BY <1>3, PlanAssumption DEF EngineInv, RowsOK, TasksMatch
  <1>5. first \notin KeptTasks(h)
    BY <1>2 DEF Clash
  <1>6. tasks[first].tenant = handler[h].tenant
    BY <1>4, <1>5 DEF KeptTasks
  <1> QED BY <1>1, <1>4, <1>6

LEMMA FlushedRowOK ==
    ASSUME EngineInv, NEW h \in Handlers, handler[h].at = "flush", ~Clash(h)
    PROVE  /\ FlushedRow(h) \in WorkflowRows
           /\ FlushedRow(h).tenant = handler[h].tenant
  <1> DEFINE q == handler[h]
             status == Status(q.doc.status)
  <1>1. status \in {"PENDING", "SUCCEEDED", "RECOVERING"} /\ q.tenant \in Tenants
    BY StatusOf DEF EngineInv, HandlersOK, IsDoc, DocStatuses
  <1>2. CASE q.row = NULL
    <2>1. FlushedRow(h) = [tenant |-> q.tenant, status |-> status, version |-> 1]
      BY <1>2 DEF FlushedRow
    <2> HIDE DEF q, status
    <2> QED BY <1>1, <2>1 DEF WorkflowRows, q
  <1>3. CASE q.row # NULL
    <2>1. q.checkpoint \in DOMAIN workflows /\ q.row \in WorkflowRows
      BY <1>3 DEF EngineInv, HandlersOK
    <2>2. /\ workflows[q.checkpoint] \in WorkflowRows
          /\ workflows[q.checkpoint].tenant = q.tenant
      BY <2>1, CommitIsOwn DEF EngineInv, RowsOK
    <2>3. FlushedRow(h) = [workflows[q.checkpoint] EXCEPT
             !.version = q.row.version + 1,
             !.status = IF status = q.row.status
                        THEN workflows[q.checkpoint].status ELSE status]
      BY <1>3 DEF FlushedRow
    <2>4. q.row.version + 1 \in Nat
      BY <2>1 DEF WorkflowRows
    <2> HIDE DEF q, status
    <2>5. FlushedRow(h) \in WorkflowRows /\ FlushedRow(h).tenant = q.tenant
      BY <1>1, <2>2, <2>3, <2>4 DEF WorkflowRows
    <2> QED BY <2>5 DEF q
  <1> QED BY <1>2, <1>3

LEMMA UpsertCommitInv ==
    ASSUME EngineInv, NEW h \in Handlers, UpsertCommit(h)
    PROVE  EngineInv'
  <1> DEFINE q == handler[h]
             cp == q.checkpoint
  <1>1. /\ q.at = "flush" /\ ~Clash(h)
        /\ workflows' = Put(workflows, cp, FlushedRow(h))
        /\ tasks' = [t \in KeptTasks(h) \cup NewTasks(h) |->
                        IF t \in NewTasks(h)
                        THEN NewTask(q.tenant, Status(q.doc.steps[t[2]].status))
                        ELSE tasks[t]]
        /\ checkpoints' = Put(checkpoints, cp,
              [tenant |-> q.tenant, doc |-> q.doc, version |-> CheckpointVersion(h)])
        /\ handler' = [handler EXCEPT ![h] = [at |-> "idle"]]
        /\ UNCHANGED <<clock, worker, sweeper>>
    BY DEF UpsertCommit, HandlerDone, Goto
  <1>2. q.tenant \in Tenants /\ cp \in Workflows /\ IsDoc(q.doc)
    BY <1>1 DEF EngineInv, HandlersOK
  <1>3. FlushedRow(h) \in WorkflowRows /\ FlushedRow(h).tenant = q.tenant
    BY <1>1, FlushedRowOK
  <1>4. /\ DOMAIN workflows' = DOMAIN workflows \cup {cp}
        /\ workflows'[cp] = FlushedRow(h)
        /\ \A c \in DOMAIN workflows : c # cp => workflows'[c] = workflows[c]
    BY <1>1 DEF Put
  <1>5. /\ DOMAIN checkpoints' = DOMAIN checkpoints \cup {cp}
        /\ checkpoints'[cp].tenant = q.tenant
        /\ checkpoints'[cp].doc = q.doc
        /\ checkpoints'[cp].version = FlushedRow(h).version
        /\ \A c \in DOMAIN checkpoints : c # cp => checkpoints'[c] = checkpoints[c]
    BY <1>1 DEF Put, CheckpointVersion
  <1>6. RowsOK'
    BY <1>2, <1>3, <1>4, <1>5 DEF EngineInv, RowsOK
  <1>7. HandlersOK'
    <2>1. /\ DOMAIN handler' = Handlers
          /\ handler'[h].at = "idle"
          /\ \A g \in Handlers : g # h => handler'[g] = handler[g]
      BY <1>1 DEF EngineInv, HandlersOK
    <2> QED BY <2>1, <1>4 DEF EngineInv, HandlersOK
  <1>8. \A t \in DOMAIN tasks : t \in KeptTasks(h) <=> t[1] # cp
    <2>1. ASSUME NEW t \in DOMAIN tasks, t[1] = cp
          PROVE  tasks[t].tenant = q.tenant
      <3>1. t[1] \in DOMAIN workflows /\ tasks[t].tenant = workflows[t[1]].tenant
        BY DEF EngineInv, RowsOK, TasksMatch
      <3> QED BY <1>1, <2>1, <3>1, CommitIsOwn
    <2> QED BY <2>1 DEF KeptTasks
  <1>9. /\ NewTasks(h) \subseteq TaskIds
        /\ \A t \in NewTasks(h) : t = <<t[1], t[2]>> /\ t[1] = cp
        /\ \A c, s : <<c, s>> \in NewTasks(h) <=> c = cp /\ s \in DOMAIN q.doc.steps
        /\ \A t \in NewTasks(h) :
              Status(q.doc.steps[t[2]].status) \in {"PENDING", "SUCCEEDED"}
    <2>1. ASSUME NEW t \in NewTasks(h)
          PROVE  /\ t = <<t[1], t[2]>> /\ t[1] = cp
                 /\ Status(q.doc.steps[t[2]].status) \in {"PENDING", "SUCCEEDED"}
      <3>1. t = <<t[1], t[2]>>
        BY <1>1, NewTasksOf
      <3>2. t[1] = cp /\ t[2] \in DOMAIN q.doc.steps
        BY DEF NewTasks
      <3> QED BY <1>1, <3>1, <3>2, NewTasksOf
    <2> QED BY <1>1, <2>1, NewTasksOf
  <1>10. KeptTasks(h) \subseteq DOMAIN tasks
    BY DEF KeptTasks
  <1>11. ASSUME NEW t \in NewTasks(h)
         PROVE  /\ tasks'[t] \in TaskRows
                /\ tasks'[t].tenant = q.tenant
                /\ tasks'[t].owner = NULL /\ tasks'[t].expires = NULL
                /\ tasks'[t].status # "RUNNING"
    <2> DEFINE status == Status(q.doc.steps[t[2]].status)
    <2>1. tasks'[t] = NewTask(q.tenant, status)
      BY <1>1
    <2>2. status \in {"PENDING", "SUCCEEDED"}
      BY <1>9
    <2> HIDE DEF status, q
    <2> QED BY <1>2, <2>1, <2>2 DEF NewTask, TaskRows, TaskStatuses
  <1>12. /\ DOMAIN tasks' = KeptTasks(h) \cup NewTasks(h)
         /\ \A t \in KeptTasks(h) : t \notin NewTasks(h) /\ tasks'[t] = tasks[t]
    BY <1>1 DEF Clash
  <1>13. TasksMatch'
    <2>1. ASSUME NEW c, NEW s
          PROVE  (<<c, s>> \in DOMAIN tasks <=>
                   c \in DOMAIN checkpoints /\ s \in DOMAIN checkpoints[c].doc.steps)'
      <3>1. CASE c = cp
        <4>1. <<c, s>> \notin KeptTasks(h)
          BY <1>8, <1>10, <3>1
        <4> QED BY <4>1, <1>5, <1>9, <1>12, <3>1
      <3>2. CASE c # cp
        <4>1. <<c, s>> \notin NewTasks(h)
          BY <1>9, <3>2
        <4>2. <<c, s>> \in KeptTasks(h) <=> <<c, s>> \in DOMAIN tasks
          BY <1>8, <1>10, <3>2
        <4>3. <<c, s>> \in DOMAIN tasks <=>
                 c \in DOMAIN checkpoints /\ s \in DOMAIN checkpoints[c].doc.steps
          BY DEF EngineInv, TasksMatch
        <4> QED BY <4>1, <4>2, <4>3, <1>5, <1>12, <3>2
      <3> QED BY <3>1, <3>2
    <2>2. ASSUME NEW t \in DOMAIN tasks'
          PROVE  t = <<t[1], t[2]>> /\ tasks'[t].tenant = checkpoints'[t[1]].tenant
      <3>1. CASE t \in NewTasks(h)
        BY <3>1, <1>5, <1>9, <1>11
      <3>2. CASE t \in KeptTasks(h)
        <4>1. t \in DOMAIN tasks /\ t[1] # cp /\ tasks'[t] = tasks[t]
          BY <3>2, <1>8, <1>10, <1>12
        <4>2. /\ t = <<t[1], t[2]>> /\ t[1] \in DOMAIN checkpoints
              /\ tasks[t].tenant = checkpoints[t[1]].tenant
          BY <4>1 DEF EngineInv, TasksMatch
        <4> QED BY <4>1, <4>2, <1>5
      <3> QED BY <2>2, <3>1, <3>2, <1>12
    <2> QED BY <2>1, <2>2 DEF TasksMatch
  <1>14. LeaseInv'
    <2>1. \A t \in DOMAIN tasks' :
             \/ /\ tasks'[t] \in TaskRows
                /\ tasks'[t].owner = NULL /\ tasks'[t].expires = NULL
                /\ tasks'[t].status # "RUNNING"
             \/ t \in DOMAIN tasks /\ tasks'[t] = tasks[t]
      BY <1>10, <1>11, <1>12
    <2>2. \A t \in DOMAIN tasks' : tasks'[t] \in TaskRows
      BY <2>1 DEF EngineInv, LeaseInv, LeaseTypeOK
    <2>3. tasks' \in [DOMAIN tasks' -> TaskRows]
      BY <1>1, <2>2
    <2>4. DOMAIN tasks' \subseteq TaskIds
      BY <1>9, <1>10, <1>12 DEF EngineInv, LeaseInv, LeaseTypeOK
    <2>5. LeaseTypeOK' /\ ReadInThePast'
      BY <1>1, <2>3, <2>4
      DEF EngineInv, LeaseInv, LeaseTypeOK, ReadInThePast
    <2>6. LeaseColumnsAgree'
      BY <2>1 DEF EngineInv, LeaseInv, LeaseColumnsAgree
    <2>7. UNCHANGED clock
      BY <1>1
    <2>8. RunningExpires'
      BY <2>1, <2>7 DEF EngineInv, LeaseInv, RunningExpires
    <2> QED BY <2>5, <2>6, <2>8 DEF LeaseInv
  <1> QED BY <1>6, <1>7, <1>13, <1>14 DEF EngineInv

------------------------------------------------------------------------------
(* The theorems *)

LEMMA EngineInitInv == EngineInit => EngineInv
  <1> SUFFICES ASSUME EngineInit PROVE EngineInv
    OBVIOUS
  <1>1. DOMAIN tasks = {} /\ DOMAIN workflows = {} /\ DOMAIN checkpoints = {}
    BY DEF EngineInit
  <1>2. LeaseTypeOK
    BY DEF EngineInit, LeaseInit, LeaseTypeOK, WorkerStates, SweeperStates
  <1>3. ReadInThePast /\ LeaseColumnsAgree /\ RunningExpires
    BY <1>1 DEF EngineInit, LeaseInit, ReadInThePast, LeaseColumnsAgree,
                RunningExpires
  <1>4. HandlersOK
    BY DEF EngineInit, HandlersOK
  <1>5. RowsOK /\ TasksMatch
    BY <1>1 DEF RowsOK, TasksMatch
  <1> QED BY <1>2, <1>3, <1>4, <1>5 DEF EngineInv, LeaseInv

LEMMA HandlerStepInv ==
    ASSUME EngineInv, NEW h \in Handlers, HandlerStep(h)
    PROVE  EngineInv'
  <1>1. ASSUME NEW tenant \in Tenants, NEW p \in Plans, Plan(h, tenant, p)
        PROVE  EngineInv'
    BY <1>1, PlanInv
  <1>2. ASSUME NEW tenant \in Tenants, NEW cp \in Workflows,
               Execute(h, tenant, cp) \/ Recover(h, tenant, cp)
        PROVE  EngineInv'
    BY <1>2, ExecuteInv, RecoverInv
  <1>3. CASE UpsertRead(h)
    BY <1>3, UpsertReadInv
  <1>4. CASE UpsertCommit(h)
    BY <1>4, UpsertCommitInv
  <1>5. CASE UpsertClash(h) \/ HandlerCrash(h)
    BY <1>5, RaisesInv DEF UpsertClash, HandlerCrash
  <1> QED BY <1>1, <1>2, <1>3, <1>4, <1>5 DEF HandlerStep

LEMMA EngineInductive == EngineSpec => []EngineInv
  <1>1. EngineInv /\ EngineNext => EngineInv'
    BY HandlerStepInv, LeaseStepInv DEF EngineNext
  <1>2. EngineInv /\ UNCHANGED vars => EngineInv'
    <2> SUFFICES ASSUME EngineInv, UNCHANGED vars PROVE EngineInv'
      OBVIOUS
    <2>1. LeaseInv'
      BY StutterInv DEF vars, leaseVars, EngineInv
    <2>2. HandlersOK' /\ RowsOK' /\ TasksMatch'
      BY DEF vars, EngineInv, HandlersOK, RowsOK, TasksMatch
    <2> QED BY <2>1, <2>2 DEF EngineInv
  <1> QED BY EngineInitInv, <1>1, <1>2, PTL DEF EngineSpec

\* The four tables of upsert_workflow describe the same workflow in every
\* committed state, however many handlers of however many tenants overwrite
\* each other with documents read long before.
THEOREM TablesAlwaysAgree == EngineSpec => []TablesAgree
  BY EngineInductive, TablesMatch, PTL

\* However execute and recover race, a stored document counts one observation
\* for every completed step.
THEOREM AlwaysObservedOnce == EngineSpec => []StepsObservedOnce
  BY EngineInductive, DocsObservedOnce, PTL

\* Status and lease columns of every task agree although leases, marks,
\* sweeps and upsert_workflow write over each other.
THEOREM LeaseColumnsAlwaysAgree == EngineSpec => []LeaseColumnsAgree
  <1>1. EngineInv => LeaseColumnsAgree
    BY DEF EngineInv, LeaseInv
  <1> QED BY <1>1, EngineInductive, PTL

\* Every running task becomes visible to recover_expired_leases within the
\* length of a lease.
THEOREM RunningAlwaysExpires == EngineSpec => []RunningExpires
  <1>1. EngineInv => RunningExpires
    BY DEF EngineInv, LeaseInv
  <1> QED BY <1>1, EngineInductive, PTL

\* A handler never changes the workflow or the checkpoint of another tenant:
\* where plan picks a number that another tenant uses, the task identifiers
\* clash and the transaction is undone.
THEOREM ForeignRowsAlwaysUntouched == EngineSpec => ForeignRowsUntouched
  <1> DEFINE Foreign ==
        \A c \in DOMAIN workflows, h \in Handlers :
          /\ handler[h].at # "idle" /\ handler'[h] # handler[h]
          /\ handler[h].tenant # workflows[c].tenant
          => /\ workflows'[c] = workflows[c]
             /\ checkpoints'[c] = checkpoints[c]
  <1>1. EngineInv /\ [EngineNext]_vars => [Foreign]_vars
    <2> SUFFICES ASSUME EngineInv, EngineNext,
                        NEW c \in DOMAIN workflows, NEW h \in Handlers,
                        handler[h].at # "idle", handler'[h] # handler[h],
                        handler[h].tenant # workflows[c].tenant
                 PROVE  /\ workflows'[c] = workflows[c]
                        /\ checkpoints'[c] = checkpoints[c]
      OBVIOUS
    <2>1. ASSUME NEW g \in Handlers, UpsertCommit(g)
          PROVE  /\ workflows'[c] = workflows[c]
                 /\ checkpoints'[c] = checkpoints[c]
      <3>1. g = h
        BY <2>1 DEF UpsertCommit, HandlerDone, Goto, EngineInv, HandlersOK
      <3>2. c # handler[h].checkpoint
        BY <2>1, <3>1, CommitIsOwn DEF UpsertCommit
      <3>3. c \in DOMAIN checkpoints
        BY DEF EngineInv, RowsOK
      <3> QED BY <2>1, <3>1, <3>2, <3>3 DEF UpsertCommit, Put
    <2>2. \/ \E g \in Handlers : UpsertCommit(g)
          \/ UNCHANGED <<workflows, checkpoints>>
      BY DEF EngineNext, HandlerStep, Plan, Execute, Recover, Save, UpsertRead,
             UpsertClash, HandlerCrash, HandlerRaises, engineVars
    <2> QED BY <2>1, <2>2
  <1> QED BY <1>1, EngineInductive, PTL DEF EngineSpec, ForeignRowsUntouched

------------------------------------------------------------------------------
(* The event log *)

LogOf(c) == {e \in events : e.workflow = c}

\* Every event belongs to a workflow and its tenant, and no handler has read
\* a version beyond the length of the log.
EventInv ==
    /\ IsFiniteSet(events)
    /\ \A e \in events :
          /\ e.workflow \in DOMAIN workflows
          /\ e.tenant = workflows[e.workflow].tenant
    /\ EventsAccount
    /\ \A h \in Handlers :
          handler[h].at = "flush" /\ handler[h].row # NULL =>
             handler[h].row.version <= Cardinality(LogOf(handler[h].checkpoint))

\* The log of one workflow, as EventsAccount describes it.
LEMMA LogLength ==
    ASSUME EventInv, NEW c \in DOMAIN checkpoints
    PROVE  /\ IsFiniteSet(LogOf(c)) /\ Cardinality(LogOf(c)) \in Nat
           /\ {e.sequence : e \in LogOf(c)} = 1..Cardinality(LogOf(c))
           /\ workflows[c].version <= Cardinality(LogOf(c))
  <1>1. IsFiniteSet(LogOf(c))
    BY FS_Subset DEF EventInv, LogOf
  <1> QED BY <1>1, FS_CardinalityType DEF EventInv, EventsAccount, LogOf

LEMMA MaxOfInterval ==
    ASSUME NEW n \in Nat
    PROVE  Max((1..n) \cup {0}) = n
  <1>1. n \in (1..n) \cup {0} /\ \A y \in (1..n) \cup {0} : n >= y
    OBVIOUS
  <1>2. \A x \in (1..n) \cup {0} :
           (\A y \in (1..n) \cup {0} : x >= y) => x = n
    BY <1>1
  <1> QED BY <1>1, <1>2 DEF Max

\* A commit appends one event after the last one of the workflow.
LEMMA CommitAppends ==
    ASSUME EngineInv, EventInv, NEW h \in Handlers, UpsertCommit(h)
    PROVE  LET c == handler[h].checkpoint
               n == Cardinality(LogOf(c))
               new == [tenant |-> handler[h].tenant, workflow |-> c,
                       status |-> handler[h].doc.status, sequence |-> n + 1]
           IN /\ n \in Nat /\ IsFiniteSet(LogOf(c))
              /\ {e.sequence : e \in LogOf(c)} = 1..n
              /\ events' = events \cup {new}
              /\ new \notin LogOf(c)
  <1> DEFINE c == handler[h].checkpoint
             n == Cardinality(LogOf(c))
             new == [tenant |-> handler[h].tenant, workflow |-> c,
                     status |-> handler[h].doc.status, sequence |-> n + 1]
  <1>1. handler[h].at = "flush" /\ ~Clash(h)
    BY DEF UpsertCommit
  <1>2. /\ n \in Nat /\ IsFiniteSet(LogOf(c))
        /\ {e.sequence : e \in LogOf(c)} = 1..n
    <2>1. CASE c \in DOMAIN workflows
      BY <2>1, LogLength DEF EngineInv, RowsOK
    <2>2. CASE c \notin DOMAIN workflows
      <3>1. LogOf(c) = {}
        BY <2>2 DEF EventInv, LogOf
      <3>2. n = 0 /\ IsFiniteSet(LogOf(c))
        BY <3>1, FS_EmptySet
      <3> QED BY <3>1, <3>2
    <2> QED BY <2>1, <2>2
  <1>3. EventsOf(handler[h].tenant, c) = LogOf(c)
    <2>1. \A e \in LogOf(c) : e.tenant = handler[h].tenant
      BY <1>1, CommitIsOwn DEF EventInv, LogOf
    <2> QED BY <2>1 DEF EventsOf, LogOf
  <1>4. NextSequence(h) = n + 1
    BY <1>2, <1>3, MaxOfInterval DEF NextSequence
  <1>5. events' = events \cup {new}
    BY <1>4 DEF UpsertCommit
  <1>6. new \notin LogOf(c)
    <2>1. new.sequence \notin 1..n
      BY <1>2
    <2> HIDE DEF new
    <2> QED BY <1>2, <2>1
  <1> QED BY <1>2, <1>5, <1>6

LEMMA CommitEventInv ==
    ASSUME EngineInv, EngineInv', EventInv, NEW h \in Handlers, UpsertCommit(h)
    PROVE  EventInv'
  <1> DEFINE c == handler[h].checkpoint
             log == LogOf(c)
             n == Cardinality(log)
             later(d) == {e \in events' : e.workflow = d}
             new == [tenant |-> handler[h].tenant, workflow |-> c,
                     status |-> handler[h].doc.status, sequence |-> n + 1]
  <1>1. /\ n \in Nat /\ IsFiniteSet(log)
        /\ {e.sequence : e \in log} = 1..n
        /\ events' = events \cup {new}
        /\ new \notin log
    BY CommitAppends
  <1>2. /\ new.workflow = c /\ new.tenant = handler[h].tenant
        /\ new.status = handler[h].doc.status /\ new.sequence = n + 1
    OBVIOUS
  <1>3. /\ handler[h].at = "flush" /\ ~Clash(h)
        /\ DOMAIN workflows' = DOMAIN workflows \cup {c}
        /\ workflows'[c] = FlushedRow(h)
        /\ \A d \in DOMAIN workflows : d # c => workflows'[d] = workflows[d]
        /\ DOMAIN checkpoints' = DOMAIN checkpoints \cup {c}
        /\ checkpoints'[c].doc = handler[h].doc
        /\ \A d \in DOMAIN checkpoints : d # c => checkpoints'[d] = checkpoints[d]
    BY DEF UpsertCommit, Put
  <1>4. FlushedRow(h).tenant = handler[h].tenant
    BY <1>3, FlushedRowOK
  <1> HIDE DEF new
  <1>5. /\ later(c) = log \cup {new}
        /\ \A d : d # c => later(d) = LogOf(d)
    BY <1>1, <1>2 DEF LogOf
  <1> HIDE DEF later
  <1>6. /\ IsFiniteSet(events')
        /\ IsFiniteSet(later(c)) /\ Cardinality(later(c)) = n + 1
    BY <1>1, <1>5, FS_AddElement DEF EventInv
  <1>7. \A e \in events' : /\ e.workflow \in DOMAIN workflows'
                           /\ e.tenant = workflows'[e.workflow].tenant
    <2>1. ASSUME NEW e \in events, e.workflow = c
          PROVE  e.tenant = handler[h].tenant
      BY <1>3, <2>1, CommitIsOwn DEF EventInv
    <2> QED BY <1>1, <1>2, <1>3, <1>4, <2>1 DEF EventInv
  <1>8. FlushedRow(h).version <= n + 1
    <2>1. CASE handler[h].row = NULL
      BY <1>1, <2>1 DEF FlushedRow
    <2>2. CASE handler[h].row # NULL
      <3>1. /\ c \in DOMAIN workflows /\ handler[h].row.version \in Nat
            /\ workflows[c] \in WorkflowRows
        BY <1>3, <2>2 DEF EngineInv, HandlersOK, RowsOK, WorkflowRows
      <3>2. FlushedRow(h).version = handler[h].row.version + 1
        BY <2>2, <3>1 DEF FlushedRow, WorkflowRows
      <3>3. handler[h].row.version <= n
        BY <1>3, <2>2 DEF EventInv
      <3> QED BY <1>1, <3>1, <3>2, <3>3
    <2> QED BY <2>1, <2>2
  <1>9. {e.sequence : e \in later(c)} = 1..(n + 1)
    <2>1. {e.sequence : e \in later(c)} = {e.sequence : e \in log} \cup {n + 1}
      BY <1>2, <1>5
    <2>2. n \in Nat /\ {e.sequence : e \in log} = 1..n
      BY <1>1
    <2>3. \A m \in Nat : (1..m) \cup {m + 1} = 1..(m + 1)
      OBVIOUS
    <2> HIDE DEF n, log
    <2> QED BY <2>1, <2>2, <2>3
  <1>10. EventsAccount'
    <2> SUFFICES ASSUME NEW d \in DOMAIN checkpoints'
                 PROVE  /\ {e.sequence : e \in later(d)} = 1..Cardinality(later(d))
                        /\ workflows'[d].version <= Cardinality(later(d))
                        /\ \E e \in later(d) :
                              /\ e.sequence = Cardinality(later(d))
                              /\ e.status = checkpoints'[d].doc.status
      BY DEF EventsAccount, later
    <2>1. CASE d = c
      BY <1>2, <1>3, <1>5, <1>6, <1>8, <1>9, <2>1
    <2>2. CASE d # c
      <3>1. /\ d \in DOMAIN checkpoints /\ d \in DOMAIN workflows
            /\ checkpoints'[d] = checkpoints[d] /\ workflows'[d] = workflows[d]
            /\ later(d) = LogOf(d)
        BY <1>3, <1>5, <2>2 DEF EngineInv, RowsOK
      <3>2. /\ {e.sequence : e \in LogOf(d)} = 1..Cardinality(LogOf(d))
            /\ workflows[d].version <= Cardinality(LogOf(d))
            /\ \E e \in LogOf(d) : /\ e.sequence = Cardinality(LogOf(d))
                                   /\ e.status = checkpoints[d].doc.status
        BY <3>1 DEF EventInv, EventsAccount, LogOf
      <3> QED BY <3>1, <3>2
    <2> QED BY <2>1, <2>2
  <1>11. ASSUME NEW g \in Handlers, handler'[g].at = "flush",
                handler'[g].row # NULL
         PROVE  handler'[g].row.version <=
                   Cardinality(later(handler'[g].checkpoint))
    <2>1. g # h /\ handler'[g] = handler[g]
      BY <1>11 DEF UpsertCommit, HandlerDone, Goto, EngineInv, HandlersOK
    <2>2. /\ handler[g].row.version \in Nat
          /\ handler[g].row.version <= Cardinality(LogOf(handler[g].checkpoint))
      BY <1>11, <2>1 DEF EventInv, EngineInv, HandlersOK, WorkflowRows
    <2>3. CASE handler[g].checkpoint = c
      BY <1>1, <1>6, <2>1, <2>2, <2>3
    <2>4. CASE handler[g].checkpoint # c
      BY <1>5, <2>1, <2>2, <2>4
    <2> QED BY <2>3, <2>4
  <1> QED BY <1>6, <1>7, <1>10, <1>11 DEF EventInv, LogOf, later

LEMMA EventInvStep ==
    ASSUME EngineInv, EngineInv', EventInv, [EngineNext]_vars
    PROVE  EventInv'
  <1>1. ASSUME NEW h \in Handlers, UpsertCommit(h) PROVE EventInv'
    BY <1>1, CommitEventInv
  <1>2. ASSUME UNCHANGED <<workflows, checkpoints, events>>,
               \A h \in Handlers :
                  handler'[h].at = "flush" =>
                     \/ handler'[h] = handler[h]
                     \/ /\ handler'[h].row # NULL =>
                              /\ handler'[h].checkpoint \in DOMAIN workflows
                              /\ handler'[h].row =
                                    workflows[handler'[h].checkpoint]
        PROVE  EventInv'
    <2>1. \A c : LogOf(c)' = LogOf(c)
      BY <1>2 DEF LogOf
    <2>2. EventsAccount'
      BY <1>2 DEF EventInv, EventsAccount
    <2>3. ASSUME NEW h \in Handlers, handler'[h].at = "flush",
                 handler'[h].row # NULL
          PROVE  handler'[h].row.version <=
                    Cardinality(LogOf(handler'[h].checkpoint))
      <3>1. CASE handler'[h] = handler[h]
        BY <2>3, <3>1 DEF EventInv
      <3>2. CASE handler'[h] # handler[h]
        BY <1>2, <2>3, <3>2, LogLength DEF EngineInv, RowsOK
      <3> QED BY <3>1, <3>2
    <2> QED BY <1>2, <2>1, <2>2, <2>3 DEF EventInv
  <1>3. ASSUME NEW h \in Handlers, UpsertRead(h) PROVE EventInv'
    <2>1. UNCHANGED <<workflows, checkpoints, events>>
      BY <1>3 DEF UpsertRead
    <2>2. ASSUME NEW g \in Handlers, handler'[g] # handler[g],
                 handler'[g].row # NULL
          PROVE  /\ handler'[g].checkpoint \in DOMAIN workflows
                 /\ handler'[g].row = workflows[handler'[g].checkpoint]
      BY <1>3, <2>2 DEF UpsertRead, Goto, EngineInv, HandlersOK
    <2> QED BY <1>2, <2>1, <2>2
  <1>4. ASSUME NEW h \in Handlers, NEW state, Goto(h, state), state.at # "flush",
               UNCHANGED <<workflows, checkpoints, events>>
        PROVE  EventInv'
    <2>1. \A g \in Handlers : handler'[g].at = "flush" => handler'[g] = handler[g]
      BY <1>4 DEF Goto, EngineInv, HandlersOK
    <2> QED BY <1>2, <1>4, <2>1
  <1>5. ASSUME NEW h \in Handlers, NEW tenant, NEW cp, NEW doc,
               Save(h, tenant, cp, doc)
        PROVE  EventInv'
    BY <1>4, <1>5 DEF Save
  <1>6. ASSUME NEW h \in Handlers, HandlerRaises(h) PROVE EventInv'
    BY <1>4, <1>6 DEF HandlerRaises, HandlerDone
  <1>7. ASSUME UNCHANGED engineVars PROVE EventInv'
    BY <1>2, <1>7 DEF engineVars
  <1>8. ASSUME NEW h \in Handlers, HandlerStep(h) PROVE EventInv'
    BY <1>1, <1>3, <1>5, <1>6, <1>8
    DEF HandlerStep, Plan, Execute, Recover, UpsertClash, HandlerCrash
  <1> QED BY <1>7, <1>8 DEF EngineNext, vars, engineVars

\* The events of a workflow are numbered without gap or duplicate, no fewer
\* than its version says, and the last one is the one that wrote the
\* checkpoint, for any interleaving of handlers.
THEOREM EventsAlwaysAccount == EngineSpec => []EventsAccount
  <1>1. EngineInit => EventInv
    BY FS_EmptySet DEF EngineInit, EventInv, EventsAccount
  <1>2. EventInv => EventsAccount
    BY DEF EventInv
  <1> QED BY <1>1, <1>2, EventInvStep, EngineInductive, PTL DEF EngineSpec
=============================================================================
