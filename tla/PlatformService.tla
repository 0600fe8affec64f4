--------------------------- MODULE PlatformService ---------------------------
(***************************************************************************)
(* The handlers of api/main.py behind AccessControl, on the objects that   *)
(* PlatformService (agi_platform/services.py) keeps in the memory of the   *)
(* process: governance, knowledge graph, memory guardian, research,        *)
(* Chinese hub, GitHub intelligence, self improvement and telemetry.       *)
(*                                                                         *)
(* Handlers are plain functions that run in threads and may be preempted   *)
(* at every call; a call that only appends to a list or assigns a key is   *)
(* one step.  The durable memory is the set of its rows here, its own      *)
(* transactions are in MemoryStore; calls of external services either      *)
(* answer or raise, see OutboundClient and LLMGateway.                     *)
(***************************************************************************)
EXTENDS AccessControl, Sequences, FiniteSetsExt

CONSTANTS
    Entities,     \* entity ids of graph requests
    MaxDecision,  \* bound on the decision ids reviews name
    Contents,     \* contents of memory requests
    Similar,      \* pairs of different contents with a ratio above 0.9
    LongContents, \* contents of more than 20 characters
    Sources,      \* sources of ResearchLayer.query
    Repositories, \* full names
    MaxRollbacks  \* bound on the rollbacks of the guardian

VARIABLE service  \* the attributes of the components, a field each

vars == <<accessVars, service>>

Memories == Tenants \X Contents

\* None, the duplicate_memory_id of a verdict without a duplicate, is no row.
ASSUME RowAssumption == None \notin Memories

\* The timed operation of a route.
Operation ==
    [chat |-> "chat", completion |-> "chat", embeddings |-> "embeddings",
     memory_store |-> "store_memory", memory_search |-> "search_memory",
     memory_retrieve |-> "search_memory",
     guardian_validate |-> "validate_memory",
     research_report |-> "research_report", analyze_code |-> "analyze_code",
     evolution_proposals |-> "improvement_proposals"]

Operations == {Operation[route] : route \in DOMAIN Operation}

Init ==
    /\ AccessInit
    /\ service =
          [decisions |-> <<>>, reviews |-> <<>>,      \* governance
           nodes |-> {}, edges |-> {},                \* graph
           memories |-> {},                           \* memory.records
           versions |-> [m \in Memories |-> <<>>],    \* guardian
           changes |-> <<>>, verdicts |-> <<>>,       \* guardian.audit, .reviews
           articles |-> <<>>, reports |-> <<>>,       \* chinese_hub, research
           repositories |-> {}, evaluations |-> 0,    \* github, evolution
           memories_stored |-> 0, memory_reviews |-> 0,
           totals |-> [o \in Operations |-> [success |-> 0, error |-> 0]],
           latencies |-> [o \in Operations |-> 0]]

------------------------------------------------------------------------------
(* Requests in their handlers *)

\* The handler of route starts.
Handle(r, route) ==
    /\ req[r].at = "handler"
    /\ req[r].route = route
    /\ HasContext(r)

\* The next point of the handler, and what its local variables hold.
Enter(r, point, local) ==
    Goto(r, [at |-> point, route |-> req[r].route, local |-> local])

At(r, point) == req[r].at = point
Reply(r, status) == Respond(r, req[r].route, status)

\* TelemetryRegistry.timer when its block ends: the total of the outcome, then
\* the latency in the finally clause.
TimerEnds(r, s, status) ==
    LET outcome == IF status = 200 THEN "success" ELSE "error" IN
    /\ service' = [s EXCEPT !.totals[Operation[req[r].route]][outcome] = @ + 1]
    /\ Enter(r, "finally", status)

\* Mutant: the latency of an operation that raised is not observed.
ObservedSuccess(r) == IF req[r].local = 200 THEN 1 ELSE 0

Observed(r) == 1

Finally(r) ==
    /\ At(r, "finally")
    /\ service' = [service EXCEPT
          !.latencies[Operation[req[r].route]] = @ + Observed(r)]
    /\ Reply(r, req[r].local)

\* The other timed handlers: they change nothing else in this module.  500
\* stands for all errors of a handler.
TimedHandler(r, route) ==
    /\ route \in {"chat", "completion", "embeddings", "memory_search",
                  "memory_retrieve", "analyze_code"}
    /\ Handle(r, route)
    /\ \E status \in {200, 500} : TimerEnds(r, service, status)

\* Handlers without state in this module.
OtherHandler(r, route) ==
    /\ route \notin DOMAIN Operation \cup
          {"governance_proposals", "governance_reviews", "graph_entity",
           "graph_relationship", "chinese_articles", "chinese_analyze",
           "github_repository", "github_analyze", "evolution_evaluate"}
    /\ Handle(r, route)
    /\ \E status \in {200, 500} : Reply(r, status)
    /\ UNCHANGED service

------------------------------------------------------------------------------
(* ArchitectureGovernance *)

\* Mutant: the risk is not looked at.
FirstStatusApproved(risky) == "approved"

\* risky stands for risk_score >= 0.5.
FirstStatus(risky) == IF risky THEN "needs-review" ELSE "approved"

\* Mutant: an id beyond the list.
NextIdPast(list) == Len(list) + 2

NextId(list) == Len(list) + 1

\* propose, up to the append.
Propose(r, risky) ==
    /\ Handle(r, "governance_proposals")
    /\ Enter(r, "append_decision",
             [id |-> NextId(service.decisions), risky |-> risky,
              status |-> FirstStatus(risky)])
    /\ UNCHANGED service

ProposeAppend(r) ==
    /\ At(r, "append_decision")
    /\ service' = [service EXCEPT !.decisions = Append(@, req[r].local)]
    /\ Reply(r, 200)

\* review, up to the append; an id beyond the list is an IndexError.
Review(r, id, approved) ==
    /\ Handle(r, "governance_reviews")
    /\ IF id \in DOMAIN service.decisions
       THEN /\ service' = [service EXCEPT !.decisions[id].status =
                              IF approved THEN "approved" ELSE "rejected"]
            /\ Enter(r, "append_review", [decision |-> id, approved |-> approved])
       ELSE /\ Reply(r, 500)
            /\ UNCHANGED service

ReviewAppend(r) ==
    /\ At(r, "append_review")
    /\ service' = [service EXCEPT !.reviews = Append(@, req[r].local)]
    /\ Reply(r, 200)

------------------------------------------------------------------------------
(* KnowledgeGraph *)

UpsertEntity(r, e) ==
    /\ Handle(r, "graph_entity")
    /\ service' = [service EXCEPT !.nodes = @ \cup {<<req[r].tenant, e>>}]
    /\ Reply(r, 200)

\* Mutant: nodes are looked up by entity id alone.
HasNodeAnywhere(tenant, e) == \E t \in Tenants : <<t, e>> \in service.nodes

HasNode(tenant, e) == <<tenant, e>> \in service.nodes

\* relate, up to the append; a missing node is a KeyError.
Relate(r, source, target) ==
    /\ Handle(r, "graph_relationship")
    /\ IF HasNode(req[r].tenant, source) /\ HasNode(req[r].tenant, target)
       THEN Enter(r, "append_edge", [tenant |-> req[r].tenant,
                                     source |-> source, target |-> target])
       ELSE Reply(r, 404)
    /\ UNCHANGED service

RelateAppend(r) ==
    /\ At(r, "append_edge")
    /\ service' = [service EXCEPT !.edges = @ \cup {req[r].local}]
    /\ Reply(r, 200)

------------------------------------------------------------------------------
(* store_memory and validate_memory *)

MemoryRoutes == {"memory_store", "guardian_validate"}

\* memory.store of both; it may raise, and then leaves nothing.
StoreMemory(r, route, c) ==
    /\ Handle(r, route)
    /\ service' = [service EXCEPT !.memories = @ \cup {<<req[r].tenant, c>>}]
    /\ Enter(r, IF route = "memory_store" THEN "version" ELSE "validate",
             <<req[r].tenant, c>>)

StoreRaises(r, route) ==
    /\ Handle(r, route)
    /\ TimerEnds(r, service, 500)

\* MemoryGuardian.version: the number, the entry and the audit record.
VersionRead(r) ==
    /\ At(r, "version")
    /\ Enter(r, "append_version",
             [memory |-> req[r].local, action |-> "versioned",
              version |-> NextId(service.versions[req[r].local])])
    /\ UNCHANGED service

\* Mutant: the entry is appended to a copy of the history.
EntryAppendedToCopy(m, version) == service.versions[m]

EntryAppended(m, version) == Append(service.versions[m], version)

VersionAppend(r) ==
    LET entry == req[r].local IN
    /\ At(r, "append_version")
    /\ service' = [service EXCEPT !.versions[entry.memory] =
                      EntryAppended(entry.memory, entry.version)]
    /\ Enter(r, "append_change", entry)

VersionAudit(r) ==
    /\ At(r, "append_change")
    /\ service' = [service EXCEPT !.changes = Append(@, req[r].local)]
    /\ Enter(r, "count_memory", <<>>)

CountMemory(r) ==
    /\ At(r, "count_memory")
    /\ TimerEnds(r, [service EXCEPT !.memories_stored = @ + 1], 200)

\* MemoryGuardian.rollback, which no route calls: the audit record of a
\* version that is in the history; another one is a KeyError.
GuardianRollback(m, version) ==
    /\ Cardinality({i \in DOMAIN service.changes :
                       service.changes[i].action = "rollback"}) < MaxRollbacks
    /\ \E i \in DOMAIN service.versions[m] : service.versions[m][i] = version
    /\ service' = [service EXCEPT !.changes =
          Append(@, [memory |-> m, action |-> "rollback", version |-> version])]
    /\ UNCHANGED accessVars

\* Mutant: the candidate is compared with the other memories.
ComparedOthers(m) == service.memories \ {m}

\* list(self.memory.records.values()), the rows of all tenants.
Compared(m) == service.memories

\* The rows with the highest ratio, if that is above 0.9; which of several is
\* named is up to the order of the SELECT.
Duplicates(m) ==
    LET same == {d \in Compared(m) : d[2] = m[2]} IN
    IF same # {} THEN same ELSE {d \in Compared(m) : <<m[2], d[2]>> \in Similar}

\* MemoryGuardian.validate, up to the append.
Validate(r) ==
    LET m == req[r].local IN
    /\ At(r, "validate")
    /\ \E d \in IF Duplicates(m) = {} THEN {None} ELSE Duplicates(m) :
          Enter(r, "append_verdict",
                [candidate |-> m, duplicate |-> d,
                 decision |-> IF d # None \/ m[2] \notin LongContents
                              THEN "review" ELSE "approve"])
    /\ UNCHANGED service

ValidateAppend(r) ==
    /\ At(r, "append_verdict")
    /\ service' = [service EXCEPT !.verdicts = Append(@, req[r].local)]
    /\ Enter(r, "count_review", <<>>)

CountReview(r) ==
    /\ At(r, "count_review")
    /\ TimerEnds(r, [service EXCEPT !.memory_reviews = @ + 1], 200)

------------------------------------------------------------------------------
(* Research, Chinese hub, GitHub intelligence, self improvement *)

\* ResearchLayer.report: a source that fails is an entry of errors, an answer
\* of unexpected shape raises.
Report(r) ==
    /\ Handle(r, "research_report")
    /\ \/ \E failed \in SUBSET Sources :
             TimerEnds(r, [service EXCEPT !.reports = Append(@, failed)], 200)
       \/ TimerEnds(r, service, 500)

\* ChineseResearchHub.ingest: the translation raises or not, then the id.
Ingest(r, route) ==
    /\ route \in {"chinese_articles", "chinese_analyze"}
    /\ Handle(r, route)
    /\ \/ Enter(r, "append_article", NextId(service.articles))
       \/ Reply(r, 500)
    /\ UNCHANGED service

IngestAppend(r) ==
    /\ At(r, "append_article")
    /\ service' = [service EXCEPT !.articles = Append(@, req[r].local)]
    /\ Reply(r, 200)

\* GitHubIntelligence.index_repository: an invalid URL, a provider that fails,
\* or a record that replaces what was there.
IndexRepository(r, name) ==
    /\ Handle(r, "github_repository")
    /\ \/ /\ service' = [service EXCEPT !.repositories = @ \cup {name}]
          /\ Reply(r, 200)
       \/ /\ \E status \in {403, 503} : Reply(r, status)
          /\ UNCHANGED service

AnalyzeRepository(r, name) ==
    /\ Handle(r, "github_analyze")
    /\ Reply(r, IF name \in service.repositories THEN 200 ELSE 404)
    /\ UNCHANGED service

\* SelfImprovementEngine.evaluate, directly or by improvement_proposals.
Evaluate(r) ==
    LET evaluated == [service EXCEPT !.evaluations = @ + 1] IN
    \/ /\ Handle(r, "evolution_evaluate")
       /\ service' = evaluated
       /\ Reply(r, 200)
    \/ /\ Handle(r, "evolution_proposals")
       /\ TimerEnds(r, evaluated, 200)

------------------------------------------------------------------------------
Governance(r) ==
    \/ \E risky \in BOOLEAN : Propose(r, risky)
    \/ ProposeAppend(r)
    \/ \E id \in 1..MaxDecision, approved \in BOOLEAN : Review(r, id, approved)
    \/ ReviewAppend(r)

Graph(r) ==
    \/ \E e \in Entities : UpsertEntity(r, e)
    \/ \E s, t \in Entities : Relate(r, s, t)
    \/ RelateAppend(r)

Memory(r) ==
    \/ \E route \in MemoryRoutes :
          StoreRaises(r, route) \/ \E c \in Contents : StoreMemory(r, route, c)
    \/ VersionRead(r) \/ VersionAppend(r) \/ VersionAudit(r) \/ CountMemory(r)
    \/ Validate(r) \/ ValidateAppend(r) \/ CountReview(r)

Knowledge(r) ==
    \/ Report(r)
    \/ (\E route \in Routes : Ingest(r, route)) \/ IngestAppend(r)
    \/ \E name \in Repositories :
          IndexRepository(r, name) \/ AnalyzeRepository(r, name)
    \/ Evaluate(r)

Handlers(r) ==
    /\ \/ Governance(r) \/ Graph(r) \/ Memory(r) \/ Knowledge(r)
       \/ \E route \in Routes : TimedHandler(r, route) \/ OtherHandler(r, route)
       \/ Finally(r)
    /\ UNCHANGED <<apiKeys, audit, clock>>

Next ==
    \/ AccessNext /\ UNCHANGED service
    \/ \E r \in Requests : Handlers(r)
    \/ \E m \in Memories, v \in 1..Cardinality(Requests) : GuardianRollback(m, v)

Spec == Init /\ [][Next]_vars

------------------------------------------------------------------------------
(* Properties *)

Open(point) == {r \in Requests : At(r, point)}

\* A risky decision is approved only by a review of that very decision that
\* says so, on record or about to be, whatever proposals and reviews run at the
\* same time; and there is no review that the audit trail does not have as an
\* allowed approval.
RiskyApprovalReviewed ==
    LET pending == {req[r].local : r \in Open("append_review")}
        given == {service.reviews[i] : i \in DOMAIN service.reviews} \cup pending
    IN
    /\ \A i \in DOMAIN service.decisions :
          service.decisions[i].risky /\ service.decisions[i].status = "approved"
          => [decision |-> i, approved |-> TRUE] \in given
    /\ Len(service.reviews) + Cardinality(Open("append_review"))
          <= Cardinality({e \in audit : e.action = "governance.approve" /\ e.allowed})

\* Ids are computed before the append, so concurrent requests may get the same
\* one; but the id of a decision, an article or a version of the guardian's
\* history always names an entry of its list, and the first entry has id 1.
IdsResolve ==
    /\ \A i \in DOMAIN service.decisions : service.decisions[i].id \in 1..i
    /\ \A i \in DOMAIN service.articles : service.articles[i] \in 1..i
    /\ \A m \in Memories : \A i \in DOMAIN service.versions[m] :
          service.versions[m][i] \in 1..i

\* An edge connects two nodes of its own tenant, although the check and the
\* append are two steps.
EdgesWithinTenant ==
    \A e \in service.edges :
        {<<e.tenant, e.source>>, <<e.tenant, e.target>>} \subseteq service.nodes

\* The guardian's audit can be acted on: every version it lists, of a memory
\* that is stored, is in the history that rollback searches.
AuditedVersionsExist ==
    \A i \in DOMAIN service.changes :
        LET change == service.changes[i] IN
        /\ change.memory \in service.memories
        /\ \E j \in DOMAIN service.versions[change.memory] :
              service.versions[change.memory][j] = change.version

\* validate_memory stores the candidate before it compares it with all rows, so
\* every verdict is "review" with a duplicate of the very same content, be it
\* the candidate itself or the row of another tenant; "approve" is never given.
CandidateFindsItself ==
    \A i \in DOMAIN service.verdicts :
        LET v == service.verdicts[i] IN
        /\ v.decision = "review"
        /\ v.duplicate \in service.memories
        /\ v.duplicate[2] = v.candidate[2]

\* Telemetry accounts for the work: every timed operation is counted once, as
\* success or error, and timed once, also when it raised; and memories_stored
\* and memory_reviews are what the guardian's lists show, up to the requests
\* that are between the list and the counter.
TelemetryAccounts ==
    /\ \A o \in Operations :
          service.totals[o].success + service.totals[o].error =
              service.latencies[o] + Cardinality(
                  {r \in Open("finally") : Operation[req[r].route] = o})
    /\ service.memories_stored + Cardinality(Open("count_memory")) =
          Cardinality({i \in DOMAIN service.changes :
                          service.changes[i].action = "versioned"})
    /\ service.memory_reviews + Cardinality(Open("count_review")) =
          Len(service.verdicts)
=============================================================================
