------------------------ MODULE PlatformServiceProofs ------------------------
(***************************************************************************)
(* Theorems about the handlers of PlatformService behind AccessControl,    *)
(* for any number of concurrent requests, keys, tenants and contents.      *)
(*                                                                         *)
(* The components share the process and nothing else: each group of        *)
(* handlers has a footprint, the attributes it may change and the points   *)
(* its requests may be at.  The invariant of a component is about its own  *)
(* footprint, so that only its own handlers have to be looked at.          *)
(***************************************************************************)
EXTENDS PlatformService, FiniteSetTheorems, TLAPS

------------------------------------------------------------------------------
(* Footprints *)

Fields ==
    {"decisions", "reviews", "nodes", "edges", "memories", "versions",
     "changes", "verdicts", "articles", "reports", "repositories",
     "evaluations", "memories_stored", "memory_reviews", "totals", "latencies"}

Shape == DOMAIN service = Fields /\ DOMAIN req = Requests

\* A step changes no attribute of the service outside fields.
Touches(fields) ==
    /\ DOMAIN service' = Fields
    /\ \A f \in Fields \ fields : service'[f] = service[f]

\* A request moves from its handler's start or one of points to one of points
\* or to its end, on the same route; the service changes at most in fields.
Moves(r, points, fields) ==
    /\ DOMAIN req' = Requests
    /\ \A o \in Requests : o # r => req'[o] = req[o]
    /\ req[r].at \in points \cup {"handler"}
    /\ req'[r].at \in points \cup {"finally", "done"}
    /\ req'[r].route = req[r].route
    /\ Touches(fields)

LEMMA GotoMoves ==
    ASSUME Shape, NEW r \in Requests, NEW state, Goto(r, state)
    PROVE  /\ DOMAIN req' = Requests
           /\ req'[r] = state
           /\ \A o \in Requests : o # r => req'[o] = req[o]
  BY DEF Shape, Goto

LEMMA ReplyMoves ==
    ASSUME Shape, NEW r \in Requests, NEW status, Reply(r, status)
    PROVE  /\ DOMAIN req' = Requests
           /\ \A o \in Requests : o # r => req'[o] = req[o]
           /\ req'[r].at = "done" /\ req'[r].route = req[r].route
           /\ req'[r].status = status
  BY DEF Shape, Reply, Respond, Goto

LEMMA EnterMoves ==
    ASSUME Shape, NEW r \in Requests, NEW point, NEW local, Enter(r, point, local)
    PROVE  /\ DOMAIN req' = Requests
           /\ \A o \in Requests : o # r => req'[o] = req[o]
           /\ req'[r].at = point /\ req'[r].route = req[r].route
           /\ req'[r].local = local
  BY DEF Shape, Enter, Goto

LEMMA GraphMoves ==
    ASSUME Shape, NEW r \in Requests, Graph(r)
    PROVE  Moves(r, {"append_edge"}, {"nodes", "edges"})
  <1>1. ASSUME NEW e \in Entities, UpsertEntity(r, e)
        PROVE  Moves(r, {"append_edge"}, {"nodes", "edges"})
    BY <1>1, ReplyMoves DEF UpsertEntity, Handle, Moves, Touches, Shape, Fields
  <1>2. ASSUME NEW s \in Entities, NEW t \in Entities, Relate(r, s, t)
        PROVE  Moves(r, {"append_edge"}, {"nodes", "edges"})
    BY <1>2, ReplyMoves, EnterMoves DEF Relate, Handle, Moves, Touches, Shape
  <1>3. CASE RelateAppend(r)
    BY <1>3, ReplyMoves DEF RelateAppend, At, Moves, Touches, Shape, Fields
  <1> QED
    BY <1>1, <1>2, <1>3 DEF Graph

GovernancePoints == {"append_decision", "append_review"}

LEMMA GovernanceMoves ==
    ASSUME Shape, NEW r \in Requests, Governance(r)
    PROVE  Moves(r, GovernancePoints, {"decisions", "reviews"})
  <1> DEFINE goal == Moves(r, GovernancePoints, {"decisions", "reviews"})
  <1>1. ASSUME NEW risky \in BOOLEAN, Propose(r, risky)
        PROVE  goal
    BY <1>1, EnterMoves DEF Propose, Handle, Moves, Touches, Shape, GovernancePoints
  <1>2. CASE ProposeAppend(r)
    BY <1>2, ReplyMoves DEF ProposeAppend, At, Moves, Touches, Shape, Fields, GovernancePoints
  <1>3. ASSUME NEW id \in 1..MaxDecision, NEW approved \in BOOLEAN,
               Review(r, id, approved)
        PROVE  goal
    BY <1>3, ReplyMoves, EnterMoves DEF Review, Handle, Moves, Touches, Shape, Fields, GovernancePoints
  <1>4. CASE ReviewAppend(r)
    BY <1>4, ReplyMoves DEF ReviewAppend, At, Moves, Touches, Shape, Fields, GovernancePoints
  <1> QED
    BY <1>1, <1>2, <1>3, <1>4 DEF Governance

\* The end of a timed block, on a copy s of the service.
LEMMA TimerMoves ==
    ASSUME Shape, NEW r \in Requests, NEW s, NEW status, DOMAIN s = Fields,
           TimerEnds(r, s, status)
    PROVE  /\ DOMAIN req' = Requests
           /\ \A o \in Requests : o # r => req'[o] = req[o]
           /\ req'[r].at = "finally" /\ req'[r].route = req[r].route
           /\ req'[r].local = status
           /\ DOMAIN service' = Fields
           /\ \A f \in Fields \ {"totals"} : service'[f] = s[f]
  <1>1. Enter(r, "finally", status)
    BY DEF TimerEnds
  <1>2. /\ DOMAIN service' = Fields
        /\ \A f \in Fields \ {"totals"} : service'[f] = s[f]
    BY DEF TimerEnds, Fields
  <1> QED
    BY <1>1, <1>2, EnterMoves

MemoryPoints ==
    {"version", "append_version", "append_change", "count_memory", "validate",
     "append_verdict", "count_review"}

MemoryFields ==
    {"memories", "versions", "changes", "verdicts", "memories_stored",
     "memory_reviews", "totals"}

LEMMA MemoryMoves ==
    ASSUME Shape, NEW r \in Requests, Memory(r)
    PROVE  Moves(r, MemoryPoints, MemoryFields)
  <1> DEFINE goal == Moves(r, MemoryPoints, MemoryFields)
  <1>1. ASSUME NEW route \in MemoryRoutes, StoreRaises(r, route)
        PROVE  goal
    BY <1>1, TimerMoves DEF StoreRaises, Handle, Moves, Touches, Shape, MemoryFields
  <1>2. ASSUME NEW route \in MemoryRoutes, NEW c \in Contents,
               StoreMemory(r, route, c)
        PROVE  goal
    BY <1>2, EnterMoves
       DEF StoreMemory, Handle, Moves, Touches, Shape, Fields, MemoryFields, MemoryPoints
  <1>3. CASE VersionRead(r)
    BY <1>3, EnterMoves DEF VersionRead, At, Moves, Touches, Shape, MemoryPoints
  <1>4. CASE VersionAppend(r)
    BY <1>4, EnterMoves
       DEF VersionAppend, At, Moves, Touches, Shape, Fields, MemoryFields, MemoryPoints
  <1>5. CASE VersionAudit(r)
    BY <1>5, EnterMoves
       DEF VersionAudit, At, Moves, Touches, Shape, Fields, MemoryFields, MemoryPoints
  <1>6. CASE CountMemory(r)
    <2> DEFINE s == [service EXCEPT !.memories_stored = @ + 1]
    <2>1. DOMAIN s = Fields /\ \A f \in Fields \ {"memories_stored"} : s[f] = service[f]
      BY DEF Shape
    <2>2. TimerEnds(r, s, 200)
      BY <1>6 DEF CountMemory
    <2> HIDE DEF s
    <2> QED
      BY <1>6, <2>1, <2>2, TimerMoves
         DEF CountMemory, At, Moves, Touches, MemoryFields, MemoryPoints
  <1>7. CASE Validate(r)
    BY <1>7, EnterMoves DEF Validate, At, Moves, Touches, Shape, MemoryPoints
  <1>8. CASE ValidateAppend(r)
    BY <1>8, EnterMoves
       DEF ValidateAppend, At, Moves, Touches, Shape, Fields, MemoryFields, MemoryPoints
  <1>9. CASE CountReview(r)
    <2> DEFINE s == [service EXCEPT !.memory_reviews = @ + 1]
    <2>1. DOMAIN s = Fields /\ \A f \in Fields \ {"memory_reviews"} : s[f] = service[f]
      BY DEF Shape
    <2>2. TimerEnds(r, s, 200)
      BY <1>9 DEF CountReview
    <2> HIDE DEF s
    <2> QED
      BY <1>9, <2>1, <2>2, TimerMoves
         DEF CountReview, At, Moves, Touches, MemoryFields, MemoryPoints
  <1> QED
    BY <1>1, <1>2, <1>3, <1>4, <1>5, <1>6, <1>7, <1>8, <1>9 DEF Memory

KnowledgeFields == {"articles", "reports", "repositories", "evaluations", "totals"}

LEMMA KnowledgeMoves ==
    ASSUME Shape, NEW r \in Requests, Knowledge(r)
    PROVE  Moves(r, {"append_article"}, KnowledgeFields)
  <1> DEFINE goal == Moves(r, {"append_article"}, KnowledgeFields)
  <1>1. CASE Report(r)
    <2>1. ASSUME NEW failed \in SUBSET Sources,
                 TimerEnds(r, [service EXCEPT !.reports = Append(@, failed)], 200)
          PROVE  goal
      <3> DEFINE s == [service EXCEPT !.reports = Append(@, failed)]
      <3>1. DOMAIN s = Fields /\ \A f \in Fields \ {"reports"} : s[f] = service[f]
        BY DEF Shape
      <3>2. TimerEnds(r, s, 200)
        BY <2>1
      <3> HIDE DEF s
      <3> QED
        BY <1>1, <3>1, <3>2, TimerMoves
           DEF Report, Handle, Moves, Touches, KnowledgeFields
    <2>2. CASE TimerEnds(r, service, 500)
      BY <1>1, <2>2, TimerMoves
         DEF Report, Handle, Moves, Touches, Shape, KnowledgeFields
    <2> QED
      BY <1>1, <2>1, <2>2 DEF Report
  <1>2. ASSUME NEW route \in Routes, Ingest(r, route)
        PROVE  goal
    BY <1>2, EnterMoves, ReplyMoves DEF Ingest, Handle, Moves, Touches, Shape
  <1>3. CASE IngestAppend(r)
    BY <1>3, ReplyMoves DEF IngestAppend, At, Moves, Touches, Shape, Fields, KnowledgeFields
  <1>4. ASSUME NEW name \in Repositories, IndexRepository(r, name)
        PROVE  goal
    BY <1>4, ReplyMoves
       DEF IndexRepository, Handle, Moves, Touches, Shape, Fields, KnowledgeFields
  <1>5. ASSUME NEW name \in Repositories, AnalyzeRepository(r, name)
        PROVE  goal
    BY <1>5, ReplyMoves DEF AnalyzeRepository, Handle, Moves, Touches, Shape
  <1>6. CASE Evaluate(r)
    <2> DEFINE s == [service EXCEPT !.evaluations = @ + 1]
    <2>1. DOMAIN s = Fields /\ \A f \in Fields \ {"evaluations"} : s[f] = service[f]
      BY DEF Shape
    <2>2. \/ service' = s /\ Reply(r, 200)
          \/ TimerEnds(r, s, 200)
      BY <1>6 DEF Evaluate
    <2> HIDE DEF s
    <2> QED
      BY <1>6, <2>1, <2>2, TimerMoves, ReplyMoves
         DEF Evaluate, Handle, Moves, Touches, KnowledgeFields
  <1> QED
    BY <1>1, <1>2, <1>3, <1>4, <1>5, <1>6 DEF Knowledge

LEMMA PlainMoves ==
    ASSUME Shape, NEW r \in Requests,
           \/ \E route \in Routes : TimedHandler(r, route) \/ OtherHandler(r, route)
           \/ Finally(r)
    PROVE  Moves(r, {"finally"}, {"totals", "latencies"})
  <1>1. ASSUME NEW route \in Routes, TimedHandler(r, route)
        PROVE  Moves(r, {"finally"}, {"totals", "latencies"})
    BY <1>1, TimerMoves DEF TimedHandler, Handle, Moves, Touches, Shape
  <1>2. ASSUME NEW route \in Routes, OtherHandler(r, route)
        PROVE  Moves(r, {"finally"}, {"totals", "latencies"})
    BY <1>2, ReplyMoves DEF OtherHandler, Handle, Moves, Touches, Shape
  <1>3. CASE Finally(r)
    BY <1>3, ReplyMoves DEF Finally, At, Moves, Touches, Shape, Fields
  <1> QED
    BY <1>1, <1>2, <1>3

\* A request passes the middleware, or tenant_context turns it away.
AccessStep(r) ==
    \/ \E in \in Inputs : production_controls(r, in)
    \/ NoTenantContext(r)

\* The state a step of the middleware leaves a request in.
LEMMA AccessMoves ==
    ASSUME Shape, NEW r \in Requests, AccessStep(r)
    PROVE  /\ DOMAIN req' = Requests
           /\ \A o \in Requests : o # r => req'[o] = req[o]
           /\ req[r].at \in {"new", "handler"}
           /\ req'[r].at \in {"handler", "done"}
  BY DEF Shape, AccessStep, production_controls, NoTenantContext, Limited,
     PassPublic, Unauthenticated, Identified, Unconfigured, CallNext, Respond, Goto

\* A step that leaves fields and the requests at points alone.
Quiet(points, fields) ==
    /\ \A f \in fields : service'[f] = service[f]
    /\ \A r \in Requests :
          req[r].at \in points \/ req'[r].at \in points => req'[r] = req[r]

\* The steps of a handler that has started.
HandlerStep(r) ==
    \/ Governance(r) \/ Graph(r) \/ Memory(r) \/ Knowledge(r)
    \/ \E route \in Routes : TimedHandler(r, route) \/ OtherHandler(r, route)
    \/ Finally(r)

\* Every step is one of these.
LEMMA Steps ==
    ASSUME Shape, [Next]_vars
    PROVE  \/ UNCHANGED <<req, audit, service>>
           \/ \E r \in Requests : AccessStep(r) /\ UNCHANGED service
           \/ \E r \in Requests : HandlerStep(r) /\ UNCHANGED audit
           \/ \E m \in Memories, v \in 1..Cardinality(Requests) : GuardianRollback(m, v)
  BY DEF Next, AccessNext, AccessStep, Handlers, HandlerStep, Tick, vars, accessVars

LEMMA RollbackMoves ==
    ASSUME Shape, NEW m, NEW v, GuardianRollback(m, v)
    PROVE  UNCHANGED <<req, audit>> /\ Touches({"changes"})
  BY DEF Shape, GuardianRollback, Touches, Fields, accessVars

\* The attributes of the service and the requests stay the same ones.
LEMMA ShapeNext == Shape /\ [Next]_vars => Shape'
  <1> SUFFICES ASSUME Shape, [Next]_vars PROVE Shape'
    OBVIOUS
  <1> QED
    BY Steps, AccessMoves, GovernanceMoves, GraphMoves, MemoryMoves, KnowledgeMoves,
       PlainMoves, RollbackMoves DEF Shape, HandlerStep, Moves, Touches

\* Steps that are none of the graph's.
LEMMA GraphQuiet ==
    ASSUME Shape, [Next]_vars, \A r \in Requests : ~Graph(r)
    PROVE  Quiet({"append_edge"}, {"nodes", "edges"})
  BY Steps, AccessMoves, GovernanceMoves, MemoryMoves, KnowledgeMoves, PlainMoves,
     RollbackMoves
     DEF Quiet, HandlerStep, Moves, Touches, Fields, GovernancePoints, MemoryPoints,
         MemoryFields, KnowledgeFields

\* Init gives the service its attributes.
LEMMA ShapeInit == Init => Shape
  BY DEF Init, AccessInit, Shape, Fields

------------------------------------------------------------------------------
(* KnowledgeGraph: edges stay within a tenant *)

NodesOf(e) == {<<e.tenant, e.source>>, <<e.tenant, e.target>>}

\* An edge that waits for its append was checked, and no node is ever removed.
GraphInv ==
    /\ Shape
    /\ EdgesWithinTenant
    /\ \A r \in Requests :
          At(r, "append_edge") => NodesOf(req[r].local) \subseteq service.nodes

LEMMA GraphNext == GraphInv /\ [Next]_vars => GraphInv'
  <1> SUFFICES ASSUME GraphInv, [Next]_vars PROVE GraphInv'
    OBVIOUS
  <1>1. Shape /\ Shape'
    BY ShapeNext DEF GraphInv
  <1>2. CASE \A r \in Requests : ~Graph(r)
    <2>1. Quiet({"append_edge"}, {"nodes", "edges"})
      BY <1>1, <1>2, GraphQuiet
    <2>2. service'.nodes = service.nodes /\ service'.edges = service.edges
      BY <2>1 DEF Quiet
    <2>3. \A r \in Requests : req'[r].at = "append_edge" => req'[r] = req[r]
      BY <2>1 DEF Quiet
    <2> QED
      BY <1>1, <2>2, <2>3 DEF GraphInv, EdgesWithinTenant, At, NodesOf
  <1>3. ASSUME NEW r \in Requests, NEW e \in Entities, UpsertEntity(r, e)
        PROVE  GraphInv'
    <2>1. /\ \A o \in Requests : o # r => req'[o] = req[o]
          /\ req'[r].at = "done"
      BY <1>1, <1>3, ReplyMoves DEF UpsertEntity
    <2>2. service.nodes \subseteq service'.nodes /\ service'.edges = service.edges
      BY <1>1, <1>3 DEF UpsertEntity, Shape, Fields
    <2> QED
      BY <1>1, <2>1, <2>2 DEF GraphInv, EdgesWithinTenant, At, NodesOf
  <1>4. ASSUME NEW r \in Requests, NEW s \in Entities, NEW t \in Entities,
               Relate(r, s, t)
        PROVE  GraphInv'
    <2> DEFINE edge == [tenant |-> req[r].tenant, source |-> s, target |-> t]
    <2>1. CASE Reply(r, 404)
      <3>1. /\ \A o \in Requests : o # r => req'[o] = req[o]
            /\ req'[r].at = "done"
        BY <1>1, <2>1, ReplyMoves
      <3> QED
        BY <1>1, <1>4, <3>1 DEF GraphInv, EdgesWithinTenant, At, NodesOf, Relate
    <2>2. CASE ~Reply(r, 404)
      <3>1. /\ Enter(r, "append_edge", edge)
            /\ NodesOf(edge) \subseteq service.nodes
            /\ service' = service
        BY <1>4, <2>2 DEF Relate, HasNode, NodesOf
      <3>2. /\ \A o \in Requests : o # r => req'[o] = req[o]
            /\ req'[r].local = edge
        BY <1>1, <3>1, EnterMoves
      <3> QED
        BY <1>1, <3>1, <3>2 DEF GraphInv, EdgesWithinTenant, At, NodesOf
    <2> QED
      BY <2>1, <2>2
  <1>5. ASSUME NEW r \in Requests, RelateAppend(r)
        PROVE  GraphInv'
    <2>1. /\ \A o \in Requests : o # r => req'[o] = req[o]
          /\ req'[r].at = "done"
      BY <1>1, <1>5, ReplyMoves DEF RelateAppend
    <2>2. /\ service'.nodes = service.nodes
          /\ service'.edges = service.edges \cup {req[r].local}
          /\ NodesOf(req[r].local) \subseteq service.nodes
      BY <1>1, <1>5 DEF GraphInv, RelateAppend, Shape, Fields
    <2> QED
      BY <1>1, <2>1, <2>2 DEF GraphInv, EdgesWithinTenant, At, NodesOf
  <1> QED
    BY <1>2, <1>3, <1>4, <1>5 DEF Graph

\* An edge connects two nodes of its own tenant, although KnowledgeGraph.relate
\* checks them before it appends the edge.
THEOREM EdgesAlwaysWithinTenant == Spec => []EdgesWithinTenant
  <1>1. Init => GraphInv
    BY ShapeInit DEF Init, AccessInit, GraphInv, EdgesWithinTenant, At
  <1>2. GraphInv => EdgesWithinTenant
    BY DEF GraphInv
  <1> QED
    BY <1>1, <1>2, GraphNext, PTL DEF Spec

------------------------------------------------------------------------------
(* ArchitectureGovernance: ids resolve and risky approvals were reviewed *)

Decisions ==
    [id: Nat, risky: BOOLEAN, status: {"needs-review", "approved", "rejected"}]

\* A decision about to be appended: nobody may have approved it yet.
FreshDecision(d) ==
    /\ d \in Decisions
    /\ d.id \in 1..(Len(service.decisions) + 1)
    /\ d.risky => d.status = "needs-review"

\* An approval of decision i is on record or about to be.
Approved(i) ==
    LET approval == [decision |-> i, approved |-> TRUE] IN
    \/ \E j \in DOMAIN service.reviews : service.reviews[j] = approval
    \/ \E r \in Requests : At(r, "append_review") /\ req[r].local = approval

GovernanceInv ==
    /\ Shape
    /\ service.decisions \in Seq(Decisions)
    /\ DOMAIN service.reviews = 1..Len(service.reviews)
    /\ Len(service.reviews) \in Nat
    /\ \A i \in DOMAIN service.decisions :
          /\ service.decisions[i].id \in 1..i
          /\ service.decisions[i].risky /\ service.decisions[i].status = "approved"
                => Approved(i)
    /\ \A r \in Requests : At(r, "append_decision") => FreshDecision(req[r].local)

LEMMA GovernanceQuiet ==
    ASSUME Shape, [Next]_vars, \A r \in Requests : ~Governance(r)
    PROVE  Quiet(GovernancePoints, {"decisions", "reviews"})
  BY Steps, AccessMoves, GraphMoves, MemoryMoves, KnowledgeMoves, PlainMoves,
     RollbackMoves
     DEF Quiet, HandlerStep, Moves, Touches, Fields, GovernancePoints, MemoryPoints,
         MemoryFields, KnowledgeFields

\* A step that leaves decisions and reviews alone, and the requests that wait
\* to append one.
LEMMA GovernanceKept ==
    ASSUME GovernanceInv, Shape', service'.decisions = service.decisions,
           service'.reviews = service.reviews,
           \A r \in Requests :
               /\ At(r, "append_review") => req'[r] = req[r]
               /\ At(r, "append_decision")' =>
                     req'[r] = req[r] \/ FreshDecision(req'[r].local)
    PROVE  GovernanceInv'
  <1>1. \A i : Approved(i) => Approved(i)'
    BY DEF Approved, At
  <1>2. \A r \in Requests : At(r, "append_decision")' => FreshDecision(req[r].local)'
    BY DEF GovernanceInv, FreshDecision, At
  <1> QED
    BY <1>1, <1>2 DEF GovernanceInv

LEMMA GovernanceNext == GovernanceInv /\ [Next]_vars => GovernanceInv'
  <1> SUFFICES ASSUME GovernanceInv, [Next]_vars PROVE GovernanceInv'
    OBVIOUS
  <1>1. Shape /\ Shape'
    BY ShapeNext DEF GovernanceInv
  <1>2. CASE \A r \in Requests : ~Governance(r)
    <2>1. Quiet(GovernancePoints, {"decisions", "reviews"})
      BY <1>1, <1>2, GovernanceQuiet
    <2> QED
      BY <1>1, <2>1, GovernanceKept DEF Quiet, GovernancePoints, At
  <1>3. ASSUME NEW r \in Requests, NEW risky \in BOOLEAN, Propose(r, risky)
        PROVE  GovernanceInv'
    <2> DEFINE d == [id |-> NextId(service.decisions), risky |-> risky,
                     status |-> FirstStatus(risky)]
    <2>1. FreshDecision(d)
      BY DEF GovernanceInv, FreshDecision, Decisions, NextId, FirstStatus
    <2>2. req[r].at = "handler" /\ Enter(r, "append_decision", d) /\ service' = service
      BY <1>3 DEF Propose, Handle
    <2> HIDE DEF d
    <2>3. /\ \A o \in Requests : o # r => req'[o] = req[o]
          /\ req'[r].local = d /\ req'[r].at = "append_decision"
      BY <1>1, <2>2, EnterMoves
    <2> QED
      BY <1>1, <2>1, <2>2, <2>3, GovernanceKept DEF At
  <1>4. ASSUME NEW r \in Requests, ProposeAppend(r)
        PROVE  GovernanceInv'
    <2> DEFINE d == req[r].local
               ds == service.decisions
    <2>1. /\ \A o \in Requests : o # r => req'[o] = req[o]
          /\ req'[r].at = "done" /\ req[r].at = "append_decision"
      BY <1>1, <1>4, ReplyMoves DEF ProposeAppend, At
    <2>2. service'.decisions = Append(ds, d) /\ service'.reviews = service.reviews
      BY <1>1, <1>4 DEF ProposeAppend, Shape, Fields
    <2>3. FreshDecision(d) /\ ds \in Seq(Decisions)
      BY <2>1 DEF GovernanceInv, At
    <2>4. \A i : Approved(i) => Approved(i)'
      BY <2>1, <2>2 DEF Approved, At
    <2>5. d \in Decisions /\ d.id \in 1..(Len(ds) + 1) /\ (d.risky => d.status # "approved")
      BY <2>3 DEF FreshDecision
    <2>6. /\ service'.decisions \in Seq(Decisions)
          /\ Len(service'.decisions) = Len(ds) + 1
          /\ DOMAIN service'.decisions = 1..(Len(ds) + 1)
          /\ service'.decisions[Len(ds) + 1] = d
          /\ \A i \in DOMAIN ds : service'.decisions[i] = ds[i]
          /\ DOMAIN ds = 1..Len(ds) /\ Len(ds) \in Nat
      <3> HIDE DEF d, ds
      <3> QED BY <2>2, <2>3, <2>5
    <2>7. ASSUME NEW i \in DOMAIN service'.decisions
          PROVE  /\ service'.decisions[i].id \in 1..i
                 /\ service'.decisions[i].risky /\ service'.decisions[i].status = "approved"
                       => Approved(i)'
      <3>1. CASE i = Len(ds) + 1
        BY <2>5, <2>6, <3>1
      <3>2. CASE i # Len(ds) + 1
        <4>1. i \in DOMAIN ds /\ service'.decisions[i] = ds[i]
          BY <2>6, <3>2
        <4> QED
          BY <2>4, <4>1 DEF GovernanceInv
      <3> QED
        BY <3>1, <3>2
    <2>8. \A o \in Requests : At(o, "append_decision")' => FreshDecision(req[o].local)'
      BY <2>1, <2>6 DEF GovernanceInv, FreshDecision, At
    <2> QED
      BY <1>1, <2>2, <2>6, <2>7, <2>8 DEF GovernanceInv
  <1>5. ASSUME NEW r \in Requests, NEW id \in 1..MaxDecision,
               NEW approved \in BOOLEAN, Review(r, id, approved)
        PROVE  GovernanceInv'
    <2> DEFINE ds == service.decisions
               status == IF approved THEN "approved" ELSE "rejected"
    <2>1. CASE id \notin DOMAIN ds
      <3>1. Reply(r, 500) /\ service' = service /\ req[r].at = "handler"
        BY <1>5, <2>1 DEF Review, Handle
      <3>2. /\ \A o \in Requests : o # r => req'[o] = req[o]
            /\ req'[r].at = "done"
        BY <1>1, <3>1, ReplyMoves
      <3> QED
        BY <1>1, <3>1, <3>2, GovernanceKept DEF At
    <2>2. CASE id \in DOMAIN ds
      <3>1. /\ req[r].at = "handler"
            /\ service' = [service EXCEPT !.decisions[id].status = status]
            /\ Enter(r, "append_review", [decision |-> id, approved |-> approved])
        BY <1>5, <2>2 DEF Review, Handle
      <3>2. /\ \A o \in Requests : o # r => req'[o] = req[o]
            /\ req'[r].at = "append_review"
            /\ req'[r].local = [decision |-> id, approved |-> approved]
        BY <1>1, <3>1, EnterMoves
      <3>3. /\ service'.decisions = [ds EXCEPT ![id].status = status]
            /\ service'.reviews = service.reviews
        BY <1>1, <3>1 DEF Shape, Fields
      <3>4. ds \in Seq(Decisions) /\ ds[id] \in Decisions
        BY <2>2 DEF GovernanceInv
      <3>5. /\ [ds[id] EXCEPT !.status = status] \in Decisions
            /\ [ds[id] EXCEPT !.status = status].id = ds[id].id
            /\ [ds[id] EXCEPT !.status = status].status = status
        BY <3>4 DEF Decisions
      <3>6. /\ service'.decisions \in Seq(Decisions)
            /\ DOMAIN service'.decisions = DOMAIN ds
            /\ Len(service'.decisions) = Len(ds)
            /\ service'.decisions[id] = [ds[id] EXCEPT !.status = status]
            /\ \A i \in DOMAIN ds : i # id => service'.decisions[i] = ds[i]
        <4> DEFINE d == [ds[id] EXCEPT !.status = status]
        <4>1. service'.decisions = [ds EXCEPT ![id] = d] /\ d \in Decisions
          BY <3>3, <3>5
        <4> HIDE DEF d, ds
        <4> QED
          BY <2>2, <3>4, <4>1 DEF d
      <3>7. \A i : Approved(i) => Approved(i)'
        BY <3>1, <3>2, <3>3 DEF Approved, At
      <3>8. approved => Approved(id)'
        BY <3>2 DEF Approved, At
      <3>9. ASSUME NEW i \in DOMAIN service'.decisions
            PROVE  /\ service'.decisions[i].id \in 1..i
                   /\ service'.decisions[i].risky /\ service'.decisions[i].status = "approved"
                         => Approved(i)'
        <4>1. CASE i = id
          <5>1. service'.decisions[i].id \in 1..i
            BY <2>2, <3>5, <3>6, <4>1 DEF GovernanceInv
          <5>2. service'.decisions[i].status = "approved" => approved
            <6>1. ASSUME ~approved
                  PROVE  service'.decisions[i].status = "rejected"
              BY <3>5, <3>6, <4>1, <6>1
            <6> QED
              BY <6>1
          <5> QED
            BY <3>8, <4>1, <5>1, <5>2
        <4>2. CASE i # id
          BY <3>6, <3>7, <4>2 DEF GovernanceInv
        <4> QED
          BY <4>1, <4>2
      <3>10. \A o \in Requests : At(o, "append_decision")' => FreshDecision(req[o].local)'
        BY <3>2, <3>6 DEF GovernanceInv, FreshDecision, At
      <3> QED
        BY <1>1, <3>3, <3>6, <3>9, <3>10 DEF GovernanceInv
    <2> QED
      BY <2>1, <2>2
  <1>6. ASSUME NEW r \in Requests, ReviewAppend(r)
        PROVE  GovernanceInv'
    <2> DEFINE rs == service.reviews
    <2>1. /\ \A o \in Requests : o # r => req'[o] = req[o]
          /\ req'[r].at = "done" /\ req[r].at = "append_review"
      BY <1>1, <1>6, ReplyMoves DEF ReviewAppend, At
    <2>2. service'.reviews = Append(rs, req[r].local)
          /\ service'.decisions = service.decisions
      BY <1>1, <1>6 DEF ReviewAppend, Shape, Fields
    <2>3. /\ DOMAIN service'.reviews = 1..(Len(rs) + 1)
          /\ Len(service'.reviews) = Len(rs) + 1
          /\ service'.reviews[Len(rs) + 1] = req[r].local
          /\ \A j \in DOMAIN rs : service'.reviews[j] = rs[j]
      BY <2>2 DEF GovernanceInv
    <2>4. \A i : Approved(i) => Approved(i)'
      <3> SUFFICES ASSUME NEW i, Approved(i) PROVE Approved(i)'
        OBVIOUS
      <3> DEFINE approval == [decision |-> i, approved |-> TRUE]
      <3>1. CASE \E j \in DOMAIN rs : rs[j] = approval
        <4>1. PICK j \in DOMAIN rs : rs[j] = approval
          BY <3>1
        <4>2. j \in DOMAIN service'.reviews /\ service'.reviews[j] = approval
          BY <2>3, <4>1 DEF GovernanceInv
        <4> QED
          BY <4>2 DEF Approved
      <3>2. CASE req[r].local = approval
        <4>1. Len(rs) + 1 \in DOMAIN service'.reviews
          BY <2>3 DEF GovernanceInv
        <4> QED
          BY <2>3, <3>2, <4>1 DEF Approved
      <3>3. CASE \E o \in Requests : o # r /\ At(o, "append_review")
                                          /\ req[o].local = approval
        BY <2>1, <3>3 DEF Approved, At
      <3> QED
        BY <3>1, <3>2, <3>3 DEF Approved
    <2>5. \A o \in Requests : At(o, "append_decision")' => FreshDecision(req[o].local)'
      BY <2>1, <2>2 DEF GovernanceInv, FreshDecision, At
    <2> QED
      BY <1>1, <2>2, <2>3, <2>4, <2>5 DEF GovernanceInv
  <1> QED
    BY <1>2, <1>3, <1>4, <1>5, <1>6 DEF Governance

------------------------------------------------------------------------------
(* AccessControl: what a request in its handler was let through with *)

\* A route with a permission needs authorization to be configured, or its
\* handler depends on tenant_context.
LEMMA ProtectedRoutes ==
    \A route : route_permission(route) # None =>
                   route \in PrefixClosed \cup TenantRoutes
  BY DEF route_permission, PERMISSION_BY_ROUTE, DYNAMIC_PREFIX_PERMISSIONS,
     PrefixClosed, TenantRoutes

LEMMA PublicRoutes == \A route \in public_paths : route_permission(route) = None
  BY DEF route_permission, PERMISSION_BY_ROUTE, DYNAMIC_PREFIX_PERMISSIONS,
     public_paths

\* What the handler of route may rely on, when it runs for tenant.
Entitled(route, tenant, approved, admitted) ==
    (route \in TenantRoutes => tenant # None) /\ route_permission(route) # None =>
        /\ \E k \in apiKeys :
              /\ Active(k, admitted)
              /\ tenant = KeyRecords[k].tenant
              /\ Can(k, route_permission(route))
        /\ route_permission(route) \in HIGH_RISK_ACTIONS => approved

\* The middleware calls the handler only for what it is entitled to.
LEMMA Admission ==
    ASSUME Shape, apiKeys \subseteq DOMAIN KeyRecords, NEW r \in Requests,
           NEW in, production_controls(r, in), req'[r].at = "handler"
    PROVE  /\ req'[r].tenant \in Tenants \cup {None}
           /\ Entitled(req'[r].route, req'[r].tenant, req'[r].approved,
                       req'[r].admitted)
  <1>1. ASSUME NEW tenant, CallNext(r, in, tenant)
        PROVE  /\ req'[r].tenant = tenant /\ req'[r].route = in.route
               /\ req'[r].approved = in.approved /\ req'[r].admitted = clock
    BY <1>1 DEF Shape, CallNext, Goto
  <1>2. ASSUME NEW status, Respond(r, in.route, status)
        PROVE  FALSE
    BY <1>2 DEF Shape, Respond, Goto
  <1>3. CASE PassPublic(r, in)
    BY <1>1, <1>3, PublicRoutes DEF PassPublic, Entitled
  <1>4. CASE Identified(r, in)
    <2> DEFINE k == in.key
               tenant == KeyRecords[in.key].tenant
    <2>1. in.key \in apiKeys /\ Active(in.key, clock) /\ tenant \in Tenants
      BY <1>4 DEF Identified, Authenticates, Tenants
    <2>2. CallNext(r, in, tenant)
      BY <1>2, <1>4 DEF Identified
    <2>3. route_permission(in.route) # None =>
              /\ Can(in.key, route_permission(in.route))
              /\ route_permission(in.route) \in HIGH_RISK_ACTIONS => in.approved
      BY <1>2, <1>4 DEF Identified, Allowed, Authorized
    <2> QED
      BY <1>1, <2>1, <2>2, <2>3 DEF Entitled
  <1>5. CASE Unconfigured(r, in)
    <2>1. CallNext(r, in, None) /\ ~FailsClosed(in.route)
      BY <1>2, <1>5 DEF Unconfigured
    <2> QED
      BY <1>1, <2>1, ProtectedRoutes DEF FailsClosed, Entitled
  <1> QED
    BY <1>2, <1>3, <1>4, <1>5 DEF production_controls, Limited, Unauthenticated

AccessInv ==
    /\ Shape
    /\ apiKeys \subseteq DOMAIN KeyRecords
    /\ \A r \in Requests : At(r, "handler") =>
          /\ req[r].tenant \in Tenants \cup {None}
          /\ Entitled(req[r].route, req[r].tenant, req[r].approved, req[r].admitted)

\* No handler is entered but through the middleware.
LEMMA OnlyAdmitted ==
    ASSUME Shape, [Next]_vars, NEW r \in Requests, req'[r].at = "handler",
           req'[r] # req[r]
    PROVE  \E in \in Inputs : production_controls(r, in)
  <1>1. CASE \E o \in Requests : AccessStep(o)
    <2>1. AccessStep(r)
      BY <1>1, AccessMoves
    <2>2. ~NoTenantContext(r)
      BY DEF Shape, NoTenantContext, Respond, Goto
    <2> QED
      BY <2>1, <2>2 DEF AccessStep
  <1> QED
    BY <1>1, Steps, GovernanceMoves, GraphMoves, MemoryMoves, KnowledgeMoves,
       PlainMoves, RollbackMoves
       DEF HandlerStep, Moves, GovernancePoints, MemoryPoints

LEMMA KeysKept == ASSUME [Next]_vars PROVE UNCHANGED apiKeys
  BY DEF Next, AccessNext, Handlers, GuardianRollback, production_controls,
     NoTenantContext, Tick, vars, accessVars

LEMMA AccessInvNext == AccessInv /\ [Next]_vars => AccessInv'
  <1> SUFFICES ASSUME AccessInv, [Next]_vars PROVE AccessInv'
    OBVIOUS
  <1>1. Shape /\ Shape' /\ apiKeys' = apiKeys
    BY ShapeNext, KeysKept DEF AccessInv
  <1>2. ASSUME NEW r \in Requests, At(r, "handler")'
        PROVE  /\ req'[r].tenant \in Tenants \cup {None}
               /\ Entitled(req'[r].route, req'[r].tenant, req'[r].approved,
                           req'[r].admitted)
    <2>1. CASE req'[r] = req[r]
      BY <1>2, <2>1 DEF AccessInv, At
    <2>2. CASE req'[r] # req[r]
      BY <1>1, <1>2, <2>2, OnlyAdmitted, Admission DEF AccessInv, At
    <2> QED
      BY <2>1, <2>2
  <1> QED
    BY <1>1, <1>2 DEF AccessInv, Entitled

LEMMA AccessInvInit == Init => AccessInv
  BY ShapeInit DEF Init, AccessInit, AccessInv, At

\* A handler with a permission runs only for the tenant of a configured key
\* that was active when the request came in and has the permission, and for the
\* high-risk actions with an approval.
THEOREM HandlersAlwaysAuthorized == Spec => []HandlersAuthorized
  <1>1. AccessInv => HandlersAuthorized
    BY DEF AccessInv, HandlersAuthorized, HasContext, Entitled, At
  <1> QED
    BY <1>1, AccessInvInit, AccessInvNext, PTL DEF Spec

------------------------------------------------------------------------------
(* The points of a handler belong to its route *)

RouteInv ==
    /\ Shape
    /\ \A r \in Requests :
          /\ At(r, "finally") =>
                req[r].route \in DOMAIN Operation /\ req[r].local \in {200, 500}
          /\ req[r].at \in MemoryPoints => req[r].route \in MemoryRoutes
          /\ At(r, "append_review") => req[r].route = "governance_reviews"

LEMMA TimedRoutes == MemoryRoutes \subseteq DOMAIN Operation
  BY DEF MemoryRoutes, Operation

\* Where a handler gets its latency observed, it is a timed one and it has
\* ended well or not.
LEMMA TimersEnd ==
    ASSUME RouteInv, NEW r \in Requests,
           Memory(r) \/ Knowledge(r) \/ \E route \in Routes : TimedHandler(r, route),
           req'[r].at = "finally"
    PROVE  /\ req'[r].route \in DOMAIN Operation
           /\ req'[r].local \in {200, 500}
           /\ req[r].at # "finally"
  <1>1. Shape
    BY DEF RouteInv
  <1>2. /\ req[r].at \in MemoryPoints => req[r].route \in DOMAIN Operation
        /\ {"memory_store", "guardian_validate", "research_report",
            "evolution_proposals", "chat", "completion", "embeddings",
            "memory_search", "memory_retrieve", "analyze_code"}
               = DOMAIN Operation
    BY TimedRoutes DEF RouteInv, Operation
  <1>3. ASSUME NEW status, Reply(r, status)
        PROVE  FALSE
    BY <1>1, <1>3, ReplyMoves
  <1>4. ASSUME NEW point, NEW local, point # "finally", Enter(r, point, local)
        PROVE  FALSE
    BY <1>1, <1>4, EnterMoves
  <1>5. ASSUME NEW s, NEW status \in {200, 500}, TimerEnds(r, s, status),
               req[r].route \in DOMAIN Operation, req[r].at # "finally"
        PROVE  /\ req'[r].route \in DOMAIN Operation
               /\ req'[r].local \in {200, 500}
               /\ req[r].at # "finally"
    <2>1. Enter(r, "finally", status)
      BY <1>5 DEF TimerEnds
    <2> QED
      BY <1>1, <1>5, <2>1, EnterMoves
  <1>6. CASE \E route \in Routes : TimedHandler(r, route)
    BY <1>2, <1>5, <1>6 DEF TimedHandler, Handle
  <1>7. CASE Knowledge(r)
    <2>1. CASE Report(r)
      <3> DEFINE reported(failed) == [service EXCEPT !.reports = Append(@, failed)]
      <3>1. /\ req[r].route = "research_report" /\ req[r].at = "handler"
            /\ \/ \E failed \in SUBSET Sources : TimerEnds(r, reported(failed), 200)
               \/ TimerEnds(r, service, 500)
        BY <2>1 DEF Report, Handle
      <3> HIDE DEF reported
      <3> QED
        BY <1>2, <1>5, <3>1
    <2>2. CASE Evaluate(r)
      <3>1. /\ req[r].route = "evolution_proposals" /\ req[r].at = "handler"
            /\ \E s : TimerEnds(r, s, 200)
        BY <1>3, <2>2 DEF Evaluate, Handle
      <3> QED
        BY <1>2, <1>5, <3>1
    <2>3. ~(\E route \in Routes : Ingest(r, route)) /\ ~IngestAppend(r)
      BY <1>3, <1>4 DEF Ingest, IngestAppend
    <2>4. ~\E name \in Repositories :
              IndexRepository(r, name) \/ AnalyzeRepository(r, name)
      BY <1>3 DEF IndexRepository, AnalyzeRepository
    <2> QED
      BY <1>7, <2>1, <2>2, <2>3, <2>4 DEF Knowledge
  <1>8. CASE Memory(r)
    <2>1. ASSUME NEW route \in MemoryRoutes, StoreRaises(r, route)
          PROVE  /\ req'[r].route \in DOMAIN Operation
                 /\ req'[r].local \in {200, 500}
                 /\ req[r].at # "finally"
      BY <1>5, <2>1, TimedRoutes DEF StoreRaises, Handle
    <2>2. CASE CountMemory(r)
      BY <1>2, <1>5, <2>2 DEF CountMemory, At, MemoryPoints
    <2>3. CASE CountReview(r)
      BY <1>2, <1>5, <2>3 DEF CountReview, At, MemoryPoints
    <2>4. ~\E route \in MemoryRoutes, c \in Contents : StoreMemory(r, route, c)
      BY <1>4 DEF StoreMemory
    <2>5. ~(VersionRead(r) \/ VersionAppend(r) \/ VersionAudit(r))
      BY <1>4 DEF VersionRead, VersionAppend, VersionAudit
    <2>6. ~(Validate(r) \/ ValidateAppend(r))
      BY <1>4 DEF Validate, ValidateAppend
    <2> QED
      BY <1>8, <2>1, <2>2, <2>3, <2>4, <2>5, <2>6 DEF Memory
  <1> QED
    BY <1>6, <1>7, <1>8

LEMMA RouteNext == RouteInv /\ [Next]_vars => RouteInv'
  <1> SUFFICES ASSUME RouteInv, [Next]_vars PROVE RouteInv'
    OBVIOUS
  <1>1. Shape /\ Shape'
    BY ShapeNext DEF RouteInv
  <1> DEFINE ok(q) ==
          /\ q.at = "finally" => q.route \in DOMAIN Operation /\ q.local \in {200, 500}
          /\ q.at \in MemoryPoints => q.route \in MemoryRoutes
          /\ q.at = "append_review" => q.route = "governance_reviews"
  <1>2. \A r \in Requests : ok(req[r])
    BY DEF RouteInv, At
  <1>3. ASSUME \A r \in Requests : ok(req'[r])
        PROVE  RouteInv'
    BY <1>1, <1>3 DEF RouteInv, At
  <1> HIDE DEF ok
  <1>4. CASE UNCHANGED req
    BY <1>2, <1>3, <1>4
  <1>5. ASSUME NEW r \in Requests, ok(req'[r]),
               \A o \in Requests : o # r => req'[o] = req[o]
        PROVE  RouteInv'
    BY <1>2, <1>3, <1>5
  <1>6. ASSUME NEW r \in Requests, AccessStep(r)
        PROVE  RouteInv'
    BY <1>1, <1>5, <1>6, AccessMoves DEF ok, MemoryPoints
  <1>7. ASSUME NEW r \in Requests, Graph(r)
        PROVE  RouteInv'
    <2>1. \/ \E status : Reply(r, status)
          \/ \E local : Enter(r, "append_edge", local)
      BY <1>7 DEF Graph, UpsertEntity, Relate, RelateAppend
    <2>2. /\ \A o \in Requests : o # r => req'[o] = req[o]
          /\ req'[r].at \in {"append_edge", "done"}
      BY <1>1, <2>1, EnterMoves, ReplyMoves
    <2> QED
      BY <1>5, <2>2 DEF ok, MemoryPoints
  <1>8. ASSUME NEW r \in Requests, Governance(r)
        PROVE  RouteInv'
    <2>1. \/ \E status : Reply(r, status)
          \/ \E local : Enter(r, "append_decision", local)
          \/ req[r].route = "governance_reviews" /\ \E local : Enter(r, "append_review", local)
      <3>1. ASSUME NEW risky \in BOOLEAN, Propose(r, risky)
            PROVE  \E local : Enter(r, "append_decision", local)
        BY <3>1 DEF Propose
      <3>2. ASSUME NEW id, NEW approved, Review(r, id, approved)
            PROVE  \/ Reply(r, 500)
                   \/ /\ req[r].route = "governance_reviews"
                      /\ \E local : Enter(r, "append_review", local)
        BY <3>2 DEF Review, Handle
      <3>3. ASSUME ProposeAppend(r) \/ ReviewAppend(r)
            PROVE  Reply(r, 200)
        BY <3>3 DEF ProposeAppend, ReviewAppend
      <3> QED
        BY <1>8, <3>1, <3>2, <3>3 DEF Governance
    <2>2. /\ \A o \in Requests : o # r => req'[o] = req[o]
          /\ req'[r].route = req[r].route
          /\ \/ req'[r].at \in {"append_decision", "done"}
             \/ req'[r].at = "append_review" /\ req[r].route = "governance_reviews"
      BY <1>1, <2>1, EnterMoves, ReplyMoves
    <2> QED
      BY <1>5, <2>2 DEF ok, MemoryPoints
  <1>9. ASSUME NEW r \in Requests, Memory(r)
        PROVE  RouteInv'
    <2>1. Moves(r, MemoryPoints, MemoryFields)
      BY <1>1, <1>9, MemoryMoves
    <2>2. req[r].at \in MemoryPoints \/ req[r].route \in MemoryRoutes
      BY <1>9 DEF Memory, StoreRaises, StoreMemory, VersionRead, VersionAppend,
         VersionAudit, CountMemory, Validate, ValidateAppend, CountReview, Handle,
         At, MemoryPoints
    <2>3. req'[r].at \in MemoryPoints => req'[r].route \in MemoryRoutes
      BY <1>2, <2>1, <2>2 DEF Moves, ok
    <2> QED
      BY <1>5, <1>9, <2>1, <2>3, TimersEnd DEF Moves, ok, MemoryPoints
  <1>10. ASSUME NEW r \in Requests, Knowledge(r)
         PROVE  RouteInv'
    BY <1>1, <1>5, <1>10, KnowledgeMoves, TimersEnd DEF Moves, ok, MemoryPoints
  <1>11. ASSUME NEW r \in Requests, NEW route \in Routes,
                TimedHandler(r, route)
         PROVE  RouteInv'
    <2>1. Moves(r, {"finally"}, {"totals", "latencies"})
      BY <1>1, <1>11, PlainMoves
    <2> QED
      BY <1>5, <1>11, <2>1, TimersEnd DEF Moves, ok, MemoryPoints
  <1>12. ASSUME NEW r \in Requests, NEW route \in Routes,
                OtherHandler(r, route)
         PROVE  RouteInv'
    <2>1. Moves(r, {"finally"}, {"totals", "latencies"})
      BY <1>1, <1>12, PlainMoves
    <2>2. req'[r].at = "done"
      BY <1>1, <1>12, ReplyMoves DEF OtherHandler
    <2> QED
      BY <1>5, <2>1, <2>2 DEF Moves, ok, MemoryPoints
  <1>13. ASSUME NEW m, NEW v, GuardianRollback(m, v)
         PROVE  RouteInv'
    BY <1>1, <1>4, <1>13, RollbackMoves
  <1>14. ASSUME NEW r \in Requests, Finally(r)
         PROVE  RouteInv'
    <2>1. Moves(r, {"finally"}, {"totals", "latencies"})
      BY <1>1, <1>14, PlainMoves
    <2>2. req'[r].at = "done"
      BY <1>1, <1>14, ReplyMoves DEF Finally
    <2> QED
      BY <1>5, <2>1, <2>2 DEF Moves, ok, MemoryPoints
  <1> QED
    BY <1>1, <1>4, <1>6, <1>7, <1>8, <1>9, <1>10, <1>11, <1>12, <1>13, <1>14, Steps
       DEF HandlerStep

LEMMA RouteInit == Init => RouteInv
  BY ShapeInit DEF Init, AccessInit, RouteInv, At, MemoryPoints

------------------------------------------------------------------------------
(* AuditTrail: governance decisions are on record *)

GovernanceRoutes == {"governance_proposals", "governance_reviews"}

LEMMA GovernanceRoutesAre ==
    /\ \A route : route_permission(route) \in GOVERNANCE_ACTIONS
                      => route \in GovernanceRoutes \cap PrefixClosed
    /\ GovernanceRoutes \cap TenantRoutes = {}
    /\ None \notin GOVERNANCE_ACTIONS
    /\ route_permission("governance_reviews") = "governance.approve"
  BY DEF route_permission, PERMISSION_BY_ROUTE, DYNAMIC_PREFIX_PERMISSIONS,
     GOVERNANCE_ACTIONS, GovernanceRoutes, PrefixClosed, TenantRoutes, None

\* A governance handler answers 200, or fails.
LEMMA GovernanceReplies ==
    ASSUME RouteInv, NEW r \in Requests, HandlerStep(r),
           req[r].route \in GovernanceRoutes, req'[r].at = "done"
    PROVE  req'[r].status \in {200, 500}
  <1>1. Shape
    BY DEF RouteInv
  <1>2. ASSUME NEW status \in {200, 500}, Reply(r, status)
        PROVE  req'[r].status \in {200, 500}
    BY <1>1, <1>2, ReplyMoves
  <1>3. ASSUME NEW point, NEW local, point # "done", Enter(r, point, local)
        PROVE  FALSE
    BY <1>1, <1>3, EnterMoves
  <1>4. ASSUME NEW s, NEW status, TimerEnds(r, s, status)
        PROVE  FALSE
    BY <1>3, <1>4 DEF TimerEnds
  <1>5. CASE Governance(r)
    <2>1. ASSUME NEW risky, Propose(r, risky)
          PROVE  FALSE
      BY <1>3, <2>1 DEF Propose
    <2>2. ASSUME NEW id, NEW approved, Review(r, id, approved)
          PROVE  req'[r].status \in {200, 500}
      BY <1>2, <1>3, <2>2 DEF Review
    <2>3. ASSUME ProposeAppend(r) \/ ReviewAppend(r)
          PROVE  req'[r].status \in {200, 500}
      BY <1>2, <2>3 DEF ProposeAppend, ReviewAppend
    <2> QED
      BY <1>5, <2>1, <2>2, <2>3 DEF Governance
  <1>6. CASE Graph(r)
    <2>1. ASSUME NEW e, UpsertEntity(r, e)
          PROVE  req'[r].status \in {200, 500}
      BY <1>2, <2>1 DEF UpsertEntity
    <2>2. ASSUME NEW e, NEW o, Relate(r, e, o)
          PROVE  FALSE
      BY <2>2 DEF Relate, Handle, GovernanceRoutes
    <2>3. ASSUME RelateAppend(r)
          PROVE  req'[r].status \in {200, 500}
      BY <1>2, <2>3 DEF RelateAppend
    <2> QED
      BY <1>6, <2>1, <2>2, <2>3 DEF Graph
  <1>7. CASE Memory(r)
    <2>1. ~\E route \in MemoryRoutes, c \in Contents : StoreMemory(r, route, c)
      BY <1>3 DEF StoreMemory
    <2>2. ~(VersionRead(r) \/ VersionAppend(r) \/ VersionAudit(r))
      BY <1>3 DEF VersionRead, VersionAppend, VersionAudit
    <2>3. ~(Validate(r) \/ ValidateAppend(r))
      BY <1>3 DEF Validate, ValidateAppend
    <2>4. ~(CountMemory(r) \/ CountReview(r))
      BY <1>4 DEF CountMemory, CountReview
    <2>5. ~\E route \in MemoryRoutes : StoreRaises(r, route)
      BY <1>4 DEF StoreRaises
    <2> QED
      BY <1>7, <2>1, <2>2, <2>3, <2>4, <2>5 DEF Memory
  <1>8. CASE Knowledge(r)
    <2>1. ~Report(r)
      BY DEF Report, Handle, GovernanceRoutes
    <2>2. ~Evaluate(r)
      BY DEF Evaluate, Handle, GovernanceRoutes
    <2>3. ~\E name \in Repositories :
              IndexRepository(r, name) \/ AnalyzeRepository(r, name)
      BY DEF IndexRepository, AnalyzeRepository, Handle, GovernanceRoutes
    <2>4. ASSUME NEW route \in Routes, Ingest(r, route)
          PROVE  req'[r].status \in {200, 500}
      BY <1>2, <1>3, <2>4 DEF Ingest
    <2>5. CASE IngestAppend(r)
      BY <1>2, <2>5 DEF IngestAppend
    <2> QED
      BY <1>8, <2>1, <2>2, <2>3, <2>4, <2>5 DEF Knowledge
  <1>9. ASSUME NEW route \in Routes, TimedHandler(r, route) \/ OtherHandler(r, route)
        PROVE  req'[r].status \in {200, 500}
    BY <1>2, <1>4, <1>9 DEF TimedHandler, OtherHandler
  <1>10. CASE Finally(r)
    BY <1>2, <1>10 DEF Finally, RouteInv
  <1> QED
    BY <1>5, <1>6, <1>7, <1>8, <1>9, <1>10 DEF HandlerStep

Events(r) == {e \in audit : e.request = r}

\* A governance decision was made for request r.
Decided(r) ==
    /\ req[r].at # "new"
    /\ route_permission(req[r].route) \in GOVERNANCE_ACTIONS
    /\ req[r].at = "done" => req[r].status \in {200, 403, 500}

Refused(r) == req[r].at = "done" /\ req[r].status = 403

AuditRight(r) ==
    IF Decided(r) THEN \E e : Events(r) = {e} /\ (e.allowed <=> ~Refused(r))
                  ELSE Events(r) = {}

AuditInv == RouteInv /\ \A r \in Requests : AuditRight(r)

\* A request whose events and decision are the same.
LEMMA AuditSame ==
    ASSUME NEW r \in Requests, AuditRight(r), Events(r)' = Events(r),
           Decided(r)' <=> Decided(r), Decided(r) => (Refused(r)' <=> Refused(r))
    PROVE  AuditRight(r)'
  BY DEF AuditRight

\* A step of a handler makes no decision.
LEMMA HandlerAudit ==
    ASSUME AuditInv, NEW r \in Requests, HandlerStep(r), UNCHANGED audit
    PROVE  \A o \in Requests : AuditRight(o)'
  <1>1. Shape
    BY DEF AuditInv, RouteInv
  <1>2. /\ \A o \in Requests : o # r => req'[o] = req[o]
        /\ req[r].at \notin {"new", "done"}
        /\ req'[r].at # "new"
        /\ req'[r].route = req[r].route
    BY <1>1, GovernanceMoves, GraphMoves, MemoryMoves, KnowledgeMoves, PlainMoves
       DEF HandlerStep, Moves, GovernancePoints, MemoryPoints
  <1>3. \A o : Events(o)' = Events(o)
    BY DEF Events
  <1>4. ASSUME NEW o \in Requests, o # r PROVE AuditRight(o)'
    BY <1>2, <1>3, <1>4, AuditSame DEF AuditInv, Decided, Refused
  <1>5. AuditRight(r)'
    <2>1. CASE req[r].route \in GovernanceRoutes
      <3>1. req'[r].at = "done" => req'[r].status \in {200, 500}
        BY <2>1, GovernanceReplies DEF AuditInv
      <3> QED
        BY <1>2, <1>3, <3>1, AuditSame DEF AuditInv, Decided, Refused
    <2>2. CASE req[r].route \notin GovernanceRoutes
      BY <1>2, <1>3, <2>2, AuditSame, GovernanceRoutesAre DEF AuditInv, Decided
    <2> QED
      BY <2>1, <2>2
  <1> QED
    BY <1>4, <1>5

\* The middleware decides for request r alone.
LEMMA AccessAudit ==
    ASSUME AuditInv, NEW r \in Requests, AccessStep(r)
    PROVE  \A o \in Requests : AuditRight(o)'
  <1>1. Shape
    BY DEF AuditInv, RouteInv
  <1>2. \A o \in Requests : o # r => req'[o] = req[o]
    BY <1>1, AccessMoves
  <1>3. ASSUME UNCHANGED audit
        PROVE  /\ \A o : Events(o)' = Events(o)
               /\ \A o \in Requests : o # r => AuditRight(o)'
    <2>1. \A o : Events(o)' = Events(o)
      BY <1>3 DEF Events
    <2> QED
      BY <1>2, <2>1, AuditSame DEF AuditInv, Decided, Refused
  <1>4. ASSUME NEW route, NEW status, Respond(r, route, status)
        PROVE  req'[r].at = "done" /\ req'[r].route = route /\ req'[r].status = status
    BY <1>1, <1>4 DEF Shape, Respond, Goto
  <1>5. ASSUME NEW in, NEW tenant, CallNext(r, in, tenant)
        PROVE  req'[r].at = "handler" /\ req'[r].route = in.route
    BY <1>1, <1>5 DEF Shape, CallNext, Goto
  <1>6. ASSUME NoTenantContext(r)
        PROVE  \A o \in Requests : AuditRight(o)'
    <2>1. /\ req[r].at = "handler" /\ req[r].route \in TenantRoutes
          /\ Respond(r, req[r].route, 403) /\ UNCHANGED audit
      BY <1>6 DEF NoTenantContext, HasContext
    <2>2. ~Decided(r) /\ ~Decided(r)'
      BY <1>4, <2>1, GovernanceRoutesAre DEF Decided
    <2> QED
      BY <1>3, <2>1, <2>2, AuditSame DEF AuditInv
  <1>7. ASSUME NEW in \in Inputs, production_controls(r, in)
        PROVE  \A o \in Requests : AuditRight(o)'
    <2>1. req[r].at = "new" /\ Events(r) = {}
      BY <1>7 DEF production_controls, AuditInv, AuditRight, Decided
    <2>2. ASSUME UNCHANGED audit, ~Decided(r)'
          PROVE  \A o \in Requests : AuditRight(o)'
      BY <1>3, <2>1, <2>2 DEF AuditRight
    <2>3. CASE Limited(r, in) \/ Unauthenticated(r, in)
      BY <1>4, <2>2, <2>3 DEF Limited, Unauthenticated, Decided
    <2>4. CASE PassPublic(r, in)
      BY <1>5, <2>2, <2>4, PublicRoutes, GovernanceRoutesAre DEF PassPublic, Decided
    <2>5. CASE Unconfigured(r, in)
      <3>1. /\ UNCHANGED audit
            /\ \/ Respond(r, in.route, 503)
               \/ CallNext(r, in, None) /\ ~FailsClosed(in.route)
        BY <2>5 DEF Unconfigured
      <3>2. ~Decided(r)'
        BY <1>4, <1>5, <3>1, GovernanceRoutesAre DEF FailsClosed, Decided
      <3> QED
        BY <2>2, <3>1, <3>2
    <2>6. CASE Identified(r, in) /\ ~AuditRequired(in)
      <3>1. /\ UNCHANGED audit
            /\ \/ \E tenant : CallNext(r, in, tenant)
               \/ Respond(r, in.route, 403)
        BY <2>6 DEF Identified, Audited
      <3>2. ~Decided(r)'
        BY <1>4, <1>5, <2>6, <3>1 DEF AuditRequired, Decided
      <3> QED
        BY <2>2, <3>1, <3>2
    <2>7. CASE Identified(r, in) /\ AuditRequired(in)
      <3> DEFINE e == [request |-> r, key |-> in.key,
                       action |-> route_permission(in.route),
                       allowed |-> Allowed(in)]
      <3>1. route_permission(in.route) \in GOVERNANCE_ACTIONS
        BY <2>7 DEF AuditRequired
      <3>2. /\ audit' = audit \cup {e}
            /\ IF Allowed(in) THEN CallNext(r, in, KeyRecords[in.key].tenant)
                              ELSE Respond(r, in.route, 403)
        BY <2>7, <3>1, GovernanceRoutesAre DEF Identified, Audited
      <3>3. e.request = r /\ (e.allowed <=> Allowed(in))
        OBVIOUS
      <3> HIDE DEF e
      <3>4. Events(r)' = {e} /\ \A o : o # r => Events(o)' = Events(o)
        BY <2>1, <3>2, <3>3 DEF Events
      <3>5. Decided(r)' /\ (Refused(r)' <=> ~Allowed(in))
        BY <1>4, <1>5, <3>1, <3>2 DEF Decided, Refused
      <3>6. AuditRight(r)'
        BY <3>3, <3>4, <3>5 DEF AuditRight
      <3>7. \A o \in Requests : o # r => AuditRight(o)'
        BY <1>2, <3>4, AuditSame DEF AuditInv, Decided, Refused
      <3> QED
        BY <3>6, <3>7
    <2> QED
      BY <1>7, <2>3, <2>4, <2>5, <2>6, <2>7 DEF production_controls
  <1> QED
    BY <1>6, <1>7 DEF AccessStep

LEMMA AuditNext == AuditInv /\ [Next]_vars => AuditInv'
  <1> SUFFICES ASSUME AuditInv, [Next]_vars PROVE AuditInv'
    OBVIOUS
  <1>1. RouteInv /\ RouteInv' /\ Shape
    BY RouteNext DEF AuditInv, RouteInv
  <1>2. ASSUME UNCHANGED <<req, audit>>
        PROVE  \A r \in Requests : AuditRight(r)'
    BY <1>2 DEF AuditInv, AuditRight, Decided, Refused, Events
  <1>3. \/ UNCHANGED <<req, audit>>
        \/ \E r \in Requests : AccessStep(r)
        \/ \E r \in Requests : HandlerStep(r) /\ UNCHANGED audit
    BY <1>1, Steps, RollbackMoves
  <1> QED
    BY <1>1, <1>2, <1>3, AccessAudit, HandlerAudit DEF AuditInv

LEMMA AuditInit == Init => AuditInv
  BY RouteInit DEF Init, AccessInit, AuditInv, AuditRight, Decided, Events

\* A governance request has exactly one audit event once it was let through or
\* refused with 403, saying which; no other request has any.
THEOREM GovernanceAlwaysAudited == Spec => []GovernanceAudited
  <1>1. AuditInv => GovernanceAudited
    <2> SUFFICES ASSUME AuditInv, NEW r \in Requests
                 PROVE  IF Decided(r)
                        THEN /\ Cardinality(Events(r)) = 1
                             /\ \A e \in Events(r) : e.allowed <=> ~Refused(r)
                        ELSE Events(r) = {}
      BY DEF GovernanceAudited, Decided, Refused, Events
    <2>1. CASE Decided(r)
      <3>1. PICK e : Events(r) = {e} /\ (e.allowed <=> ~Refused(r))
        BY <2>1 DEF AuditInv, AuditRight
      <3>2. Cardinality({e}) = 1
        BY FS_Singleton
      <3> QED
        BY <2>1, <3>1, <3>2
    <2>2. CASE ~Decided(r)
      BY <2>2 DEF AuditInv, AuditRight
    <2> QED
      BY <2>1, <2>2
  <1> QED
    BY <1>1, AuditInit, AuditNext, PTL DEF Spec

------------------------------------------------------------------------------
(* No review without an audited approval *)

\* The requests that may still append a review.
Reviewing ==
    {r \in Requests : \/ At(r, "append_review")
                      \/ At(r, "handler") /\ req[r].route = "governance_reviews"}

Approvals == {e \in audit : e.action = "governance.approve" /\ e.allowed}

\* A review on record or to come has an approval of its own in the audit trail.
ReviewInv ==
    /\ AuditInv
    /\ GovernanceInv
    /\ IsFiniteSet(audit) /\ IsFiniteSet(Reviewing)
    /\ Len(service.reviews) + Cardinality(Reviewing) <= Cardinality(Approvals)

\* The bound is kept when nobody joins and no review is added.
LEMMA ReviewersLeave ==
    ASSUME ReviewInv, AuditInv', GovernanceInv', Reviewing' \subseteq Reviewing,
           audit \subseteq audit', IsFiniteSet(audit'),
           service'.reviews = service.reviews
    PROVE  ReviewInv'
  <1>1. Approvals \subseteq Approvals' /\ Approvals' \subseteq audit'
        /\ Approvals \subseteq audit
    BY DEF Approvals
  <1>2. /\ IsFiniteSet(Approvals) /\ IsFiniteSet(Approvals')
        /\ Cardinality(Approvals) <= Cardinality(Approvals')
    BY <1>1, FS_Subset DEF ReviewInv
  <1>3. IsFiniteSet(Reviewing') /\ Cardinality(Reviewing') <= Cardinality(Reviewing)
    BY FS_Subset DEF ReviewInv
  <1>4. /\ Cardinality(Approvals) \in Nat /\ Cardinality(Approvals') \in Nat
        /\ Cardinality(Reviewing) \in Nat /\ Cardinality(Reviewing') \in Nat
        /\ Len(service.reviews) \in Nat
    BY <1>2, <1>3, FS_CardinalityType DEF ReviewInv, GovernanceInv
  <1> HIDE DEF Approvals, Reviewing
  <1>5. Len(service'.reviews) + Cardinality(Reviewing') <= Cardinality(Approvals')
    BY <1>2, <1>3, <1>4 DEF ReviewInv
  <1> QED
    BY <1>3, <1>5 DEF ReviewInv

\* A review joins the record when its request leaves.
LEMMA ReviewerDone ==
    ASSUME ReviewInv, AuditInv', GovernanceInv', NEW r \in Requests,
           ReviewAppend(r), UNCHANGED audit
    PROVE  ReviewInv'
  <1>1. Shape
    BY DEF ReviewInv, GovernanceInv
  <1>2. /\ \A o \in Requests : o # r => req'[o] = req[o]
        /\ req'[r].at = "done" /\ req[r].at = "append_review"
    BY <1>1, ReplyMoves DEF ReviewAppend, At
  <1>3. r \in Reviewing /\ Reviewing' = Reviewing \ {r}
    BY <1>2 DEF Reviewing, At
  <1>4. /\ IsFiniteSet(Reviewing')
        /\ Cardinality(Reviewing') = Cardinality(Reviewing) - 1
    BY <1>3, FS_RemoveElement DEF ReviewInv
  <1>5. Len(service'.reviews) = Len(service.reviews) + 1
    <2>1. service'.reviews = Append(service.reviews, req[r].local)
      BY <1>1 DEF ReviewAppend, Shape, Fields
    <2> QED
      BY <2>1 DEF ReviewInv, GovernanceInv
  <1>6. Approvals' = Approvals
    BY DEF Approvals
  <1>7. Cardinality(Reviewing) \in Nat /\ Len(service.reviews) \in Nat
        /\ Cardinality(Approvals) \in Nat
    <2>1. IsFiniteSet(Approvals)
      BY FS_Subset DEF ReviewInv, Approvals
    <2> QED
      BY <2>1, FS_CardinalityType DEF ReviewInv, GovernanceInv
  <1>8. Len(service'.reviews) + Cardinality(Reviewing') <= Cardinality(Approvals')
    BY <1>4, <1>5, <1>6, <1>7 DEF ReviewInv
  <1> QED
    BY <1>4, <1>8 DEF ReviewInv

\* The middleware lets a review in only with an approval that it audits.
LEMMA ReviewerAdmitted ==
    ASSUME Shape, NEW r \in Requests, NEW in, production_controls(r, in),
           req'[r].at = "handler", req'[r].route = "governance_reviews"
    PROVE  \E e : /\ audit' = audit \cup {e}
                  /\ e.request = r /\ e.action = "governance.approve" /\ e.allowed
  <1>1. ASSUME NEW status, Respond(r, in.route, status)
        PROVE  FALSE
    BY <1>1 DEF Shape, Respond, Goto
  <1>2. ASSUME NEW tenant, CallNext(r, in, tenant)
        PROVE  in.route = "governance_reviews"
    BY <1>2 DEF Shape, CallNext, Goto
  <1>3. route_permission("governance_reviews") = "governance.approve"
        /\ "governance.approve" \in GOVERNANCE_ACTIONS
    BY GovernanceRoutesAre DEF GOVERNANCE_ACTIONS
  <1>4. "governance_reviews" \notin public_paths /\ FailsClosed("governance_reviews")
    BY <1>3, GovernanceRoutesAre DEF public_paths, FailsClosed
  <1>5. Identified(r, in)
    BY <1>1, <1>2, <1>4 DEF production_controls, Limited, PassPublic,
       Unauthenticated, Unconfigured
  <1>6. in.route = "governance_reviews"
    BY <1>1, <1>2, <1>5 DEF Identified
  <1>7. Allowed(in) /\ Audited(r, in)
    BY <1>1, <1>3, <1>5, <1>6, GovernanceRoutesAre DEF Identified
  <1> DEFINE e == [request |-> r, key |-> in.key,
                   action |-> route_permission(in.route), allowed |-> Allowed(in)]
  <1>8. audit' = audit \cup {e}
    BY <1>3, <1>6, <1>7 DEF Audited, AuditRequired
  <1>9. e.request = r /\ e.action = "governance.approve" /\ e.allowed
    BY <1>3, <1>6, <1>7
  <1> QED
    BY <1>8, <1>9

LEMMA ReviewerJoins ==
    ASSUME ReviewInv, AuditInv', GovernanceInv', NEW r \in Requests,
           NEW in \in Inputs, production_controls(r, in),
           req'[r].at = "handler", req'[r].route = "governance_reviews",
           UNCHANGED service
    PROVE  ReviewInv'
  <1>1. Shape
    BY DEF ReviewInv, GovernanceInv
  <1>2. /\ \A o \in Requests : o # r => req'[o] = req[o]
        /\ req[r].at = "new"
    <2>1. AccessStep(r)
      BY DEF AccessStep
    <2> QED
      BY <1>1, <2>1, AccessMoves DEF production_controls
  <1>3. Reviewing' = Reviewing \cup {r} /\ r \notin Reviewing
    BY <1>2 DEF Reviewing, At
  <1>4. PICK e : /\ audit' = audit \cup {e}
                 /\ e.request = r /\ e.action = "governance.approve" /\ e.allowed
    BY <1>1, ReviewerAdmitted
  <1>5. e \notin audit
    BY <1>2, <1>4 DEF ReviewInv, AuditInv, AuditRight, Decided, Events
  <1>6. Approvals' = Approvals \cup {e} /\ e \notin Approvals /\ Approvals \subseteq audit
    BY <1>4, <1>5 DEF Approvals
  <1>7. /\ IsFiniteSet(Approvals) /\ IsFiniteSet(audit')
        /\ Cardinality(Approvals') = Cardinality(Approvals) + 1
    BY <1>4, <1>6, FS_Subset, FS_AddElement DEF ReviewInv
  <1>8. /\ IsFiniteSet(Reviewing')
        /\ Cardinality(Reviewing') = Cardinality(Reviewing) + 1
    BY <1>3, FS_AddElement DEF ReviewInv
  <1>9. /\ Cardinality(Reviewing) \in Nat /\ Cardinality(Approvals) \in Nat
        /\ Len(service.reviews) \in Nat
    BY <1>7, FS_CardinalityType DEF ReviewInv, GovernanceInv
  <1>10. Len(service'.reviews) + Cardinality(Reviewing') <= Cardinality(Approvals')
    BY <1>7, <1>8, <1>9 DEF ReviewInv
  <1> QED
    BY <1>7, <1>8, <1>10 DEF ReviewInv

LEMMA ReviewNext == ReviewInv /\ [Next]_vars => ReviewInv'
  <1> SUFFICES ASSUME ReviewInv, [Next]_vars PROVE ReviewInv'
    OBVIOUS
  <1>1. Shape /\ AuditInv' /\ GovernanceInv' /\ RouteInv
    BY AuditNext, GovernanceNext DEF ReviewInv, GovernanceInv, AuditInv
  <1>2. ASSUME UNCHANGED <<req, audit>>, service'.reviews = service.reviews
        PROVE  ReviewInv'
    <2>1. Reviewing' = Reviewing
      BY <1>2 DEF Reviewing, At
    <2> QED
      BY <1>1, <1>2, <2>1, ReviewersLeave DEF ReviewInv
  <1>3. ASSUME NEW r \in Requests, AccessStep(r), UNCHANGED service
        PROVE  ReviewInv'
    <2>1. /\ \A o \in Requests : o # r => req'[o] = req[o]
          /\ req'[r].at \in {"handler", "done"}
      BY <1>1, <1>3, AccessMoves
    <2>2. CASE req'[r].at = "handler" /\ req'[r].route = "governance_reviews"
      <3>1. \E in \in Inputs : production_controls(r, in)
        BY <1>1, <1>3, <2>2 DEF AccessStep, NoTenantContext, Respond, Goto, Shape
      <3> QED
        BY <1>1, <1>3, <2>2, <3>1, ReviewerJoins
    <2>3. CASE ~(req'[r].at = "handler" /\ req'[r].route = "governance_reviews")
      <3>1. Reviewing' \subseteq Reviewing
        BY <2>1, <2>3 DEF Reviewing, At
      <3>2. audit' = audit \/ \E e : audit' = audit \cup {e}
        BY <1>3 DEF AccessStep, production_controls, NoTenantContext, Limited,
           PassPublic, Unauthenticated, Identified, Unconfigured, Audited
      <3>3. audit \subseteq audit' /\ IsFiniteSet(audit')
        BY <3>2, FS_AddElement DEF ReviewInv
      <3> QED
        BY <1>1, <1>3, <3>1, <3>3, ReviewersLeave
    <2> QED
      BY <2>2, <2>3
  <1>4. ASSUME NEW r \in Requests, HandlerStep(r), UNCHANGED audit, ~ReviewAppend(r)
        PROVE  ReviewInv'
    <2>1. /\ \A o \in Requests : o # r => req'[o] = req[o]
          /\ req'[r].at # "handler"
      BY <1>1, <1>4, GovernanceMoves, GraphMoves, MemoryMoves, KnowledgeMoves,
         PlainMoves DEF HandlerStep, Moves, GovernancePoints, MemoryPoints
    <2>2. CASE ~Governance(r)
      <3>1. req'[r].at # "append_review" /\ service'.reviews = service.reviews
        BY <1>1, <1>4, <2>2, GraphMoves, MemoryMoves, KnowledgeMoves, PlainMoves
           DEF HandlerStep, Moves, Touches, Fields, MemoryPoints, MemoryFields,
               KnowledgeFields
      <3>2. Reviewing' \subseteq Reviewing
        BY <2>1, <3>1 DEF Reviewing, At
      <3> QED
        BY <1>1, <1>4, <3>1, <3>2, ReviewersLeave DEF ReviewInv
    <2>3. CASE Governance(r)
      <3>1. /\ service'.reviews = service.reviews
            /\ req'[r].at = "append_review" => r \in Reviewing
        <4>1. ASSUME NEW risky \in BOOLEAN, Propose(r, risky)
              PROVE  service' = service /\ req'[r].at = "append_decision"
          BY <1>1, <4>1, EnterMoves DEF Propose
        <4>2. ASSUME ProposeAppend(r)
              PROVE  service'.reviews = service.reviews /\ req'[r].at = "done"
          BY <1>1, <4>2, ReplyMoves DEF ProposeAppend, Shape, Fields
        <4>3. ASSUME NEW id, NEW approved, Review(r, id, approved)
              PROVE  service'.reviews = service.reviews /\ r \in Reviewing
          BY <1>1, <4>3 DEF Review, Handle, Reviewing, At, Shape, Fields
        <4> QED
          BY <1>4, <2>3, <4>1, <4>2, <4>3 DEF Governance
      <3>2. Reviewing' \subseteq Reviewing
        BY <2>1, <3>1 DEF Reviewing, At
      <3> QED
        BY <1>1, <1>4, <3>1, <3>2, ReviewersLeave DEF ReviewInv
    <2> QED
      BY <2>2, <2>3
  <1>5. ASSUME NEW m, NEW v, GuardianRollback(m, v)
        PROVE  ReviewInv'
    BY <1>1, <1>2, <1>5, RollbackMoves DEF Touches, Fields
  <1> QED
    BY <1>1, <1>2, <1>3, <1>4, <1>5, Steps, ReviewerDone

LEMMA ReviewInit == Init => ReviewInv
  <1> SUFFICES ASSUME Init PROVE ReviewInv
    OBVIOUS
  <1>1. AuditInv
    BY AuditInit
  <1>2. GovernanceInv
    BY ShapeInit DEF Init, AccessInit, GovernanceInv, At
  <1>3. Reviewing = {} /\ Approvals = {}
    BY DEF Init, AccessInit, Reviewing, Approvals, At
  <1>4. Len(service.reviews) = 0 /\ audit = {}
    BY DEF Init, AccessInit
  <1>5. /\ IsFiniteSet(audit) /\ IsFiniteSet(Reviewing)
        /\ Cardinality(Reviewing) = 0 /\ Cardinality(Approvals) = 0
    BY <1>3, <1>4, FS_EmptySet
  <1> QED
    BY <1>1, <1>2, <1>4, <1>5 DEF ReviewInv

\* A risky decision is approved only by a review of that very decision, on
\* record or about to be, and there are no more reviews than allowed approvals
\* in the audit trail, whatever proposals and reviews run at the same time.
THEOREM RiskyApprovalAlwaysReviewed == Spec => []RiskyApprovalReviewed
  <1>1. ReviewInv => RiskyApprovalReviewed
    <2> SUFFICES ASSUME ReviewInv PROVE RiskyApprovalReviewed
      OBVIOUS
    <2> DEFINE pending == {req[r].local : r \in Open("append_review")}
               given == {service.reviews[i] : i \in DOMAIN service.reviews}
                            \cup pending
    <2>1. \A i : Approved(i) => [decision |-> i, approved |-> TRUE] \in given
      BY DEF Approved, Open
    <2>2. \A i \in DOMAIN service.decisions :
              service.decisions[i].risky /\ service.decisions[i].status = "approved"
              => [decision |-> i, approved |-> TRUE] \in given
      BY <2>1 DEF ReviewInv, GovernanceInv
    <2>3. Open("append_review") \subseteq Reviewing
      BY DEF Open, Reviewing
    <2>4. /\ IsFiniteSet(Open("append_review"))
          /\ Cardinality(Open("append_review")) <= Cardinality(Reviewing)
      BY <2>3, FS_Subset DEF ReviewInv
    <2>5. IsFiniteSet(Approvals)
      BY FS_Subset DEF ReviewInv, Approvals
    <2>6. /\ Cardinality(Open("append_review")) \in Nat
          /\ Cardinality(Reviewing) \in Nat /\ Cardinality(Approvals) \in Nat
          /\ Len(service.reviews) \in Nat
      BY <2>4, <2>5, FS_CardinalityType DEF ReviewInv, GovernanceInv
    <2>7. Len(service.reviews) + Cardinality(Open("append_review"))
              <= Cardinality(Approvals)
      BY <2>4, <2>6 DEF ReviewInv
    <2> QED
      BY <2>2, <2>7 DEF RiskyApprovalReviewed, Approvals
  <1> QED
    BY <1>1, ReviewInit, ReviewNext, PTL DEF Spec

------------------------------------------------------------------------------
(* ChineseResearchHub: the ids of articles *)

HubInv ==
    /\ Shape
    /\ service.articles \in Seq(Nat)
    /\ \A i \in DOMAIN service.articles : service.articles[i] \in 1..i
    /\ \A r \in Requests : At(r, "append_article") =>
          req[r].local \in 1..(Len(service.articles) + 1)

LEMMA HubQuiet ==
    ASSUME Shape, [Next]_vars, \A r \in Requests : ~Knowledge(r)
    PROVE  Quiet({"append_article"}, {"articles"})
  BY Steps, AccessMoves, GovernanceMoves, GraphMoves, MemoryMoves, PlainMoves,
     RollbackMoves
     DEF Quiet, HandlerStep, Moves, Touches, Fields, GovernancePoints, MemoryPoints,
         MemoryFields

LEMMA HubNext == HubInv /\ [Next]_vars => HubInv'
  <1> SUFFICES ASSUME HubInv, [Next]_vars PROVE HubInv'
    OBVIOUS
  <1> DEFINE as == service.articles
  <1>1. Shape /\ Shape'
    BY ShapeNext DEF HubInv
  <1>2. CASE \A r \in Requests : ~Knowledge(r)
    <2>1. /\ service'.articles = as
          /\ \A r \in Requests : req'[r].at = "append_article" => req'[r] = req[r]
      BY <1>1, <1>2, HubQuiet DEF Quiet
    <2> QED
      BY <1>1, <2>1 DEF HubInv, At
  <1>3. ASSUME NEW r \in Requests, service'.articles = as,
               \A o \in Requests : o # r => req'[o] = req[o],
               req'[r].at = "append_article" =>
                   req'[r].local \in 1..(Len(service.articles) + 1)
        PROVE  HubInv'
    BY <1>1, <1>3 DEF HubInv, At
  <1>4. ASSUME NEW r \in Requests, NEW route \in Routes, Ingest(r, route)
        PROVE  HubInv'
    <2>1. service' = service /\ NextId(as) \in 1..(Len(as) + 1)
      BY <1>4 DEF Ingest, HubInv, NextId
    <2>2. Reply(r, 500) \/ Enter(r, "append_article", NextId(as))
      BY <1>4 DEF Ingest
    <2> QED
      BY <1>1, <1>3, <2>1, <2>2, ReplyMoves, EnterMoves
  <1>5. ASSUME NEW r \in Requests, IngestAppend(r)
        PROVE  HubInv'
    <2>1. /\ \A o \in Requests : o # r => req'[o] = req[o]
          /\ req'[r].at = "done" /\ req[r].at = "append_article"
      BY <1>1, <1>5, ReplyMoves DEF IngestAppend, At
    <2>2. service'.articles = Append(as, req[r].local)
      BY <1>1, <1>5 DEF IngestAppend, Shape, Fields
    <2>3. req[r].local \in 1..(Len(as) + 1) /\ as \in Seq(Nat)
      BY <2>1 DEF HubInv, At
    <2>4. /\ service'.articles \in Seq(Nat)
          /\ Len(service'.articles) = Len(as) + 1
          /\ \A i \in DOMAIN service'.articles : service'.articles[i] \in 1..i
      BY <2>2, <2>3 DEF HubInv
    <2> QED
      BY <1>1, <2>1, <2>4 DEF HubInv, At
  <1>6. ASSUME NEW r \in Requests, Knowledge(r),
               ~\E route \in Routes : Ingest(r, route), ~IngestAppend(r)
        PROVE  HubInv'
    <2>1. service'.articles = as /\ req'[r].at # "append_article"
      <3>1. ASSUME NEW s, NEW status, DOMAIN s = Fields, s.articles = as,
                   TimerEnds(r, s, status)
            PROVE  service'.articles = as /\ req'[r].at # "append_article"
        BY <1>1, <3>1, TimerMoves DEF Fields
      <3>2. CASE Report(r)
        <4> DEFINE reported(failed) == [service EXCEPT !.reports = Append(@, failed)]
        <4>1. \A failed : DOMAIN reported(failed) = Fields /\ reported(failed).articles = as
          BY <1>1 DEF Shape, Fields
        <4>2. \/ \E failed \in SUBSET Sources : TimerEnds(r, reported(failed), 200)
              \/ TimerEnds(r, service, 500)
          BY <3>2 DEF Report
        <4> HIDE DEF reported
        <4> QED
          BY <1>1, <3>1, <4>1, <4>2 DEF Shape
      <3>3. CASE Evaluate(r)
        <4> DEFINE s == [service EXCEPT !.evaluations = @ + 1]
        <4>1. DOMAIN s = Fields /\ s.articles = as
          BY <1>1 DEF Shape, Fields
        <4>2. \/ service' = s /\ Reply(r, 200)
              \/ TimerEnds(r, s, 200)
          BY <3>3 DEF Evaluate
        <4> HIDE DEF s
        <4> QED
          BY <1>1, <3>1, <4>1, <4>2, ReplyMoves
      <3>4. ASSUME NEW name \in Repositories,
                   IndexRepository(r, name) \/ AnalyzeRepository(r, name)
            PROVE  service'.articles = as /\ req'[r].at # "append_article"
        BY <1>1, <3>4, ReplyMoves DEF IndexRepository, AnalyzeRepository, Shape, Fields
      <3> QED
        BY <1>6, <3>2, <3>3, <3>4 DEF Knowledge
    <2>2. \A o \in Requests : o # r => req'[o] = req[o]
      BY <1>1, <1>6, KnowledgeMoves DEF Moves
    <2> QED
      BY <1>3, <2>1, <2>2
  <1> QED
    BY <1>2, <1>4, <1>5, <1>6

------------------------------------------------------------------------------
(* MemoryGuardian: versions, the audit of changes, and verdicts *)

\* The guardian's history of memory m has version v.
InHistory(m, v) ==
    \E j \in DOMAIN service.versions[m] : service.versions[m][j] = v

Verdict(v) ==
    /\ v.decision = "review"
    /\ v.duplicate \in service.memories
    /\ v.duplicate[2] = v.candidate[2]

\* What a request carries from one step of store_memory or validate_memory to
\* the next.
GuardianLocal(q) ==
    /\ q.at \in {"version", "validate"} => q.local \in service.memories
    /\ q.at \in {"append_version", "append_change"} =>
          q.local.memory \in service.memories /\ q.local.action = "versioned"
    /\ q.at = "append_version" =>
          q.local.version \in 1..(Len(service.versions[q.local.memory]) + 1)
    /\ q.at = "append_change" => InHistory(q.local.memory, q.local.version)
    /\ q.at = "append_verdict" => Verdict(q.local)

GuardianInv ==
    /\ AccessInv
    /\ service.memories \subseteq Memories
    /\ service.versions \in [Memories -> Seq(Nat)]
    /\ \A m \in Memories : \A i \in DOMAIN service.versions[m] :
          m \in service.memories /\ service.versions[m][i] \in 1..i
    /\ DOMAIN service.changes = 1..Len(service.changes)
    /\ Len(service.changes) \in Nat
    /\ AuditedVersionsExist
    /\ DOMAIN service.verdicts = 1..Len(service.verdicts)
    /\ Len(service.verdicts) \in Nat
    /\ \A i \in DOMAIN service.verdicts : Verdict(service.verdicts[i])
    /\ \A r \in Requests : GuardianLocal(req[r])

GuardianFields == {"memories", "versions", "changes", "verdicts"}

LEMMA GuardianQuiet ==
    ASSUME Shape, [Next]_vars, \A r \in Requests : ~Memory(r),
           ~\E m \in Memories, v \in 1..Cardinality(Requests) : GuardianRollback(m, v)
    PROVE  Quiet(MemoryPoints, GuardianFields)
  BY Steps, AccessMoves, GovernanceMoves, GraphMoves, KnowledgeMoves, PlainMoves
     DEF Quiet, HandlerStep, Moves, Touches, Fields, GovernancePoints, MemoryPoints,
         GuardianFields, KnowledgeFields

\* Nothing leaves the guardian's lists and the rows of the memory, so what a
\* request carries and what the lists say stays right as long as they grow.
LEMMA GuardianGrows ==
    ASSUME GuardianInv, AccessInv', service'.memories \subseteq Memories,
           service.memories \subseteq service'.memories,
           service'.versions \in [Memories -> Seq(Nat)],
           \A m \in Memories : \A i \in DOMAIN service.versions[m] :
               /\ i \in DOMAIN service'.versions[m]
               /\ service'.versions[m][i] = service.versions[m][i],
           \A m \in Memories : \A i \in DOMAIN service'.versions[m] :
               m \in service'.memories /\ service'.versions[m][i] \in 1..i,
           \/ service'.changes = service.changes
           \/ \E c : /\ service'.changes = Append(service.changes, c)
                     /\ c.memory \in service'.memories
                     /\ InHistory(c.memory, c.version)',
           \/ service'.verdicts = service.verdicts
           \/ \E v : service'.verdicts = Append(service.verdicts, v) /\ Verdict(v)',
           \A r \in Requests : req'[r] = req[r] \/ GuardianLocal(req[r])'
    PROVE  GuardianInv'
  <1>1. \A m \in Memories : \A v : InHistory(m, v) => InHistory(m, v)'
    BY DEF InHistory
  <1>2. \A v : Verdict(v) => Verdict(v)'
    BY DEF Verdict
  <1>3. \A m \in Memories :
            /\ Len(service.versions[m]) \in Nat /\ Len(service'.versions[m]) \in Nat
            /\ Len(service.versions[m]) <= Len(service'.versions[m])
    <2> SUFFICES ASSUME NEW m \in Memories
                 PROVE  /\ Len(service.versions[m]) \in Nat
                        /\ Len(service'.versions[m]) \in Nat
                        /\ Len(service.versions[m]) <= Len(service'.versions[m])
      OBVIOUS
    <2>1. service.versions[m] \in Seq(Nat) /\ service'.versions[m] \in Seq(Nat)
      BY DEF GuardianInv
    <2>2. /\ DOMAIN service.versions[m] = 1..Len(service.versions[m])
          /\ DOMAIN service'.versions[m] = 1..Len(service'.versions[m])
          /\ Len(service.versions[m]) \in Nat /\ Len(service'.versions[m]) \in Nat
      BY <2>1
    <2>3. CASE Len(service.versions[m]) = 0
      BY <2>2, <2>3
    <2>4. CASE Len(service.versions[m]) # 0
      <3>1. Len(service.versions[m]) \in DOMAIN service.versions[m]
        BY <2>2, <2>4
      <3>2. Len(service.versions[m]) \in DOMAIN service'.versions[m]
        BY <3>1
      <3> QED
        BY <2>2, <3>2
    <2> QED
      BY <2>3, <2>4
  <1>4. ASSUME NEW q, GuardianLocal(q)
        PROVE  GuardianLocal(q)'
    <2>1. q.at \in {"append_version", "append_change"} => q.local.memory \in Memories
      BY <1>4 DEF GuardianLocal, GuardianInv
    <2>2. q.at = "append_version" =>
              q.local.version \in 1..(Len(service'.versions[q.local.memory]) + 1)
      <3> SUFFICES ASSUME q.at = "append_version"
                   PROVE  q.local.version
                              \in 1..(Len(service'.versions[q.local.memory]) + 1)
        OBVIOUS
      <3> DEFINE m == q.local.memory
                 n == Len(service.versions[m])
      <3>1. m \in Memories /\ q.local.version \in 1..(n + 1)
        BY <1>4, <2>1 DEF GuardianLocal
      <3> HIDE DEF m
      <3>2. n \in Nat /\ Len(service'.versions[m]) \in Nat /\ n <= Len(service'.versions[m])
        BY <1>3, <3>1
      <3> HIDE DEF n
      <3>3. q.local.version \in 1..(Len(service'.versions[m]) + 1)
        BY <3>1, <3>2
      <3> QED
        BY <3>3 DEF m
    <2> QED
      BY <1>1, <1>2, <1>4, <2>1, <2>2 DEF GuardianLocal
  <1>5. \A r \in Requests : GuardianLocal(req[r])'
    BY <1>4 DEF GuardianInv
  <1>6. /\ DOMAIN service'.changes = 1..Len(service'.changes)
        /\ Len(service'.changes) \in Nat
        /\ AuditedVersionsExist'
    <2> DEFINE right(c) ==
            /\ c.memory \in service'.memories
            /\ \E j \in DOMAIN service'.versions[c.memory] :
                  service'.versions[c.memory][j] = c.version
    <2>1. \A i \in DOMAIN service.changes : right(service.changes[i])
      <3> SUFFICES ASSUME NEW i \in DOMAIN service.changes
                   PROVE  right(service.changes[i])
        OBVIOUS
      <3>1. /\ service.changes[i].memory \in service.memories
            /\ InHistory(service.changes[i].memory, service.changes[i].version)
        BY DEF GuardianInv, AuditedVersionsExist, InHistory
      <3> QED
        BY <1>1, <3>1 DEF GuardianInv, InHistory
    <2>2. ASSUME \A i \in DOMAIN service'.changes : right(service'.changes[i])
          PROVE  AuditedVersionsExist'
      BY <2>2 DEF AuditedVersionsExist
    <2>3. CASE service'.changes = service.changes
      <3> HIDE DEF right
      <3> QED
        BY <2>1, <2>2, <2>3 DEF GuardianInv
    <2>4. CASE service'.changes # service.changes
      <3>1. PICK c : service'.changes = Append(service.changes, c) /\ right(c)
        BY <2>4 DEF InHistory
      <3> HIDE DEF right
      <3>2. /\ DOMAIN service'.changes = 1..(Len(service.changes) + 1)
            /\ Len(service'.changes) = Len(service.changes) + 1
            /\ service'.changes[Len(service.changes) + 1] = c
            /\ \A i \in DOMAIN service.changes : service'.changes[i] = service.changes[i]
            /\ DOMAIN service.changes = 1..Len(service.changes)
            /\ Len(service.changes) \in Nat
        BY <3>1 DEF GuardianInv
      <3>3. \A i \in DOMAIN service'.changes :
                i \in DOMAIN service.changes \/ i = Len(service.changes) + 1
        BY <3>2
      <3> QED
        BY <2>1, <2>2, <3>1, <3>2, <3>3
    <2> QED
      BY <2>3, <2>4
  <1>7. /\ DOMAIN service'.verdicts = 1..Len(service'.verdicts)
        /\ Len(service'.verdicts) \in Nat
        /\ \A i \in DOMAIN service'.verdicts : Verdict(service.verdicts[i])'
    <2> DEFINE right(v) ==
            /\ v.decision = "review"
            /\ v.duplicate \in service'.memories
            /\ v.duplicate[2] = v.candidate[2]
    <2>1. \A i \in DOMAIN service.verdicts : right(service.verdicts[i])
      BY <1>2 DEF GuardianInv, Verdict
    <2>2. ASSUME \A i \in DOMAIN service'.verdicts : right(service'.verdicts[i])
          PROVE  \A i \in DOMAIN service'.verdicts : Verdict(service.verdicts[i])'
      BY <2>2 DEF Verdict
    <2>3. CASE service'.verdicts = service.verdicts
      <3> HIDE DEF right
      <3> QED
        BY <2>1, <2>2, <2>3 DEF GuardianInv
    <2>4. CASE service'.verdicts # service.verdicts
      <3>1. PICK v : service'.verdicts = Append(service.verdicts, v) /\ right(v)
        BY <2>4 DEF Verdict
      <3> HIDE DEF right
      <3>2. /\ DOMAIN service'.verdicts = 1..(Len(service.verdicts) + 1)
            /\ Len(service'.verdicts) = Len(service.verdicts) + 1
            /\ service'.verdicts[Len(service.verdicts) + 1] = v
            /\ \A i \in DOMAIN service.verdicts : service'.verdicts[i] = service.verdicts[i]
            /\ DOMAIN service.verdicts = 1..Len(service.verdicts)
            /\ Len(service.verdicts) \in Nat
        BY <3>1 DEF GuardianInv
      <3>3. \A i \in DOMAIN service'.verdicts :
                i \in DOMAIN service.verdicts \/ i = Len(service.verdicts) + 1
        BY <3>2
      <3> QED
        BY <2>1, <2>2, <3>1, <3>2, <3>3
    <2> QED
      BY <2>3, <2>4
  <1> QED
    BY <1>5, <1>6, <1>7 DEF GuardianInv
LEMMA GuardianNext == GuardianInv /\ [Next]_vars => GuardianInv'
  <1> SUFFICES ASSUME GuardianInv, [Next]_vars PROVE GuardianInv'
    OBVIOUS
  <1> DEFINE ms == service.memories
             vs == service.versions
  <1>1. Shape /\ AccessInv /\ AccessInv' /\ ms \subseteq Memories
        /\ vs \in [Memories -> Seq(Nat)]
    BY AccessInvNext DEF GuardianInv, AccessInv
  \* Only the requests change, r to what it may carry.
  <1>2. ASSUME NEW r \in Requests, \A f \in GuardianFields : service'[f] = service[f],
               \A o \in Requests : o # r => req'[o] = req[o],
               GuardianLocal(req[r])'
        PROVE  GuardianInv'
    <2>1. /\ service'.memories = ms /\ service'.versions = vs
          /\ service'.changes = service.changes
          /\ service'.verdicts = service.verdicts
      BY <1>2 DEF GuardianFields
    <2> QED
      BY <1>1, <1>2, <2>1, GuardianGrows DEF GuardianInv
  <1>3. CASE /\ \A r \in Requests : ~Memory(r)
             /\ ~\E m \in Memories, v \in 1..Cardinality(Requests) :
                    GuardianRollback(m, v)
    <2>1. /\ service'.memories = ms /\ service'.versions = vs
          /\ service'.changes = service.changes
          /\ service'.verdicts = service.verdicts
          /\ \A r \in Requests : req'[r] = req[r] \/ req'[r].at \notin MemoryPoints
      BY <1>1, <1>3, GuardianQuiet DEF Quiet, GuardianFields
    <2>2. \A r \in Requests : req'[r].at \notin MemoryPoints => GuardianLocal(req[r])'
      BY DEF GuardianLocal, MemoryPoints
    <2> QED
      BY <1>1, <2>1, <2>2, GuardianGrows DEF GuardianInv
  <1>4. ASSUME NEW r \in Requests, NEW s, NEW status, TimerEnds(r, s, status),
               DOMAIN s = Fields, \A f \in GuardianFields : s[f] = service[f]
        PROVE  GuardianInv'
    <2>1. /\ \A o \in Requests : o # r => req'[o] = req[o]
          /\ req'[r].at = "finally"
          /\ \A f \in Fields \ {"totals"} : service'[f] = s[f]
      BY <1>1, <1>4, TimerMoves
    <2>2. GuardianLocal(req[r])'
      BY <2>1 DEF GuardianLocal
    <2> QED
      BY <1>2, <1>4, <2>1, <2>2 DEF GuardianFields, Fields
  <1>5. ASSUME NEW r \in Requests, NEW route \in MemoryRoutes, StoreRaises(r, route)
        PROVE  GuardianInv'
    BY <1>1, <1>4, <1>5 DEF StoreRaises, Shape
  <1>6. ASSUME NEW r \in Requests, CountMemory(r)
        PROVE  GuardianInv'
    <2> DEFINE s == [service EXCEPT !.memories_stored = @ + 1]
    <2>1. DOMAIN s = Fields /\ \A f \in GuardianFields : s[f] = service[f]
      BY <1>1 DEF Shape, GuardianFields, Fields
    <2>2. TimerEnds(r, s, 200)
      BY <1>6 DEF CountMemory
    <2> HIDE DEF s
    <2> QED
      BY <1>4, <2>1, <2>2
  <1>7. ASSUME NEW r \in Requests, CountReview(r)
        PROVE  GuardianInv'
    <2> DEFINE s == [service EXCEPT !.memory_reviews = @ + 1]
    <2>1. DOMAIN s = Fields /\ \A f \in GuardianFields : s[f] = service[f]
      BY <1>1 DEF Shape, GuardianFields, Fields
    <2>2. TimerEnds(r, s, 200)
      BY <1>7 DEF CountReview
    <2> HIDE DEF s
    <2> QED
      BY <1>4, <2>1, <2>2
  <1>8. ASSUME NEW r \in Requests, NEW route \in MemoryRoutes, NEW c \in Contents,
               StoreMemory(r, route, c)
        PROVE  GuardianInv'
    <2> DEFINE m == <<req[r].tenant, c>>
    <2>1. m \in Memories
      BY <1>1, <1>8 DEF StoreMemory, Handle, HasContext, AccessInv, At, Memories,
         MemoryRoutes, TenantRoutes
    <2>2. /\ \A o \in Requests : o # r => req'[o] = req[o]
          /\ req'[r].at \in {"version", "validate"} /\ req'[r].local = m
      BY <1>1, <1>8, EnterMoves DEF StoreMemory
    <2>3. /\ service'.memories = ms \cup {m} /\ service'.versions = vs
          /\ service'.changes = service.changes
          /\ service'.verdicts = service.verdicts
      BY <1>1, <1>8 DEF StoreMemory, Shape, Fields
    <2> HIDE DEF m
    <2>4. GuardianLocal(req[r])'
      BY <2>2, <2>3 DEF GuardianLocal
    <2> QED
      BY <1>1, <2>1, <2>2, <2>3, <2>4, GuardianGrows DEF GuardianInv
  <1>9. ASSUME NEW r \in Requests, VersionRead(r)
        PROVE  GuardianInv'
    <2> DEFINE m == req[r].local
               entry == [memory |-> m, action |-> "versioned", version |-> NextId(vs[m])]
    <2>1. m \in ms /\ m \in Memories
      BY <1>1, <1>9 DEF VersionRead, At, GuardianInv, GuardianLocal
    <2>2. /\ \A o \in Requests : o # r => req'[o] = req[o]
          /\ req'[r].at = "append_version" /\ req'[r].local = entry
          /\ service' = service
      BY <1>1, <1>9, EnterMoves DEF VersionRead
    <2>3. vs[m] \in Seq(Nat)
      BY <1>1, <2>1
    <2>4. NextId(vs[m]) \in 1..(Len(vs[m]) + 1)
      <3> HIDE DEF m, vs
      <3> QED BY <2>3 DEF NextId
    <2>5. /\ entry.memory = m /\ entry.action = "versioned"
          /\ entry.version = NextId(vs[m])
      OBVIOUS
    <2> HIDE DEF entry, m
    <2>6. GuardianLocal(req[r])'
      BY <2>1, <2>2, <2>4, <2>5 DEF GuardianLocal
    <2> QED
      BY <1>2, <2>2, <2>6
  <1>10. ASSUME NEW r \in Requests, VersionAppend(r)
         PROVE  GuardianInv'
    <2> DEFINE entry == req[r].local
    <2>1. PICK m, v : m = entry.memory /\ v = entry.version
      OBVIOUS
    <2>2. /\ m \in ms /\ m \in Memories /\ entry.action = "versioned"
          /\ v \in 1..(Len(vs[m]) + 1)
      BY <1>1, <1>10, <2>1 DEF VersionAppend, At, GuardianInv, GuardianLocal
    <2>3. /\ \A o \in Requests : o # r => req'[o] = req[o]
          /\ req'[r].at = "append_change" /\ req'[r].local = entry
      BY <1>1, <1>10, EnterMoves DEF VersionAppend
    <2>4. /\ service'.memories = ms
          /\ service'.versions = [vs EXCEPT ![m] = Append(vs[m], v)]
          /\ service'.changes = service.changes
          /\ service'.verdicts = service.verdicts
      BY <1>1, <1>10, <2>1 DEF VersionAppend, EntryAppended, Shape, Fields
    <2>5. vs[m] \in Seq(Nat) /\ v \in Nat
      BY <1>1, <2>2
    <2>6. PICK h : h = Append(vs[m], v)
      OBVIOUS
    <2>7. /\ h \in Seq(Nat) /\ DOMAIN h = 1..(Len(vs[m]) + 1)
          /\ h[Len(vs[m]) + 1] = v /\ Len(vs[m]) \in Nat
          /\ DOMAIN vs[m] = 1..Len(vs[m])
          /\ \A i \in DOMAIN vs[m] : h[i] = vs[m][i]
      <3> HIDE DEF vs
      <3> QED BY <2>5, <2>6
    <2>8. /\ service'.versions \in [Memories -> Seq(Nat)]
          /\ service'.versions[m] = h
          /\ \A o \in Memories : o # m => service'.versions[o] = vs[o]
      BY <1>1, <2>2, <2>4, <2>6, <2>7
    <2>9. \A o \in Memories : \A i \in DOMAIN vs[o] :
             i \in DOMAIN service'.versions[o] /\ service'.versions[o][i] = vs[o][i]
      <3> SUFFICES ASSUME NEW o \in Memories, NEW i \in DOMAIN vs[o]
                   PROVE  /\ i \in DOMAIN service'.versions[o]
                          /\ service'.versions[o][i] = vs[o][i]
        OBVIOUS
      <3>1. CASE o # m
        BY <2>8, <3>1
      <3>2. CASE o = m
        <4>1. i \in DOMAIN vs[m]
          BY <3>2
        <4>2. i \in DOMAIN h /\ h[i] = vs[m][i]
          BY <2>7, <4>1
        <4> QED
          BY <2>8, <3>2, <4>2
      <3> QED
        BY <3>1, <3>2
    <2>10. ASSUME NEW o \in Memories, NEW i \in DOMAIN service'.versions[o]
           PROVE  o \in ms /\ service'.versions[o][i] \in 1..i
      <3>1. CASE o = m /\ i = Len(vs[m]) + 1
        BY <2>2, <2>7, <2>8, <3>1
      <3>2. CASE i \in DOMAIN vs[o]
        BY <2>9, <3>2 DEF GuardianInv
      <3>3. o = m => i \in DOMAIN vs[m] \/ i = Len(vs[m]) + 1
        <4>1. ASSUME o = m
              PROVE  i \in 1..(Len(vs[m]) + 1)
          BY <2>7, <2>8, <4>1
        <4> QED
          BY <2>7, <4>1
      <3> QED
        BY <2>8, <3>1, <3>2, <3>3
    <2>11. InHistory(m, v)'
      <3>1. Len(vs[m]) + 1 \in DOMAIN service'.versions[m]
        BY <2>7, <2>8
      <3> QED
        BY <2>7, <2>8, <3>1 DEF InHistory
    <2>12. GuardianLocal(req[r])'
      BY <2>1, <2>2, <2>3, <2>4, <2>11 DEF GuardianLocal
    <2> QED
      BY <1>1, <2>3, <2>4, <2>8, <2>9, <2>10, <2>12, GuardianGrows DEF GuardianInv
  <1>11. ASSUME NEW r \in Requests, VersionAudit(r)
         PROVE  GuardianInv'
    <2>1. PICK c : c = req[r].local
      OBVIOUS
    <2>2. c.memory \in ms /\ InHistory(c.memory, c.version)
      BY <1>11, <2>1 DEF VersionAudit, At, GuardianInv, GuardianLocal
    <2>3. /\ \A o \in Requests : o # r => req'[o] = req[o]
          /\ req'[r].at = "count_memory"
      BY <1>1, <1>11, EnterMoves DEF VersionAudit
    <2>4. /\ service'.memories = ms /\ service'.versions = vs
          /\ service'.changes = Append(service.changes, c)
          /\ service'.verdicts = service.verdicts
      BY <1>1, <1>11, <2>1 DEF VersionAudit, Shape, Fields
    <2>5. GuardianLocal(req[r])'
      BY <2>3 DEF GuardianLocal
    <2>6. InHistory(c.memory, c.version)'
      BY <2>2, <2>4 DEF InHistory
    <2> QED
      BY <1>1, <2>2, <2>3, <2>4, <2>5, <2>6, GuardianGrows DEF GuardianInv
  <1>12. ASSUME NEW r \in Requests, Validate(r)
         PROVE  GuardianInv'
    <2> DEFINE m == req[r].local
    <2>1. m \in ms /\ m \in Memories
      BY <1>1, <1>12 DEF Validate, At, GuardianInv, GuardianLocal
    <2>2. /\ Duplicates(m) # {}
          /\ \A d \in Duplicates(m) : d \in ms /\ d[2] = m[2] /\ d # None
      BY <1>1, <2>1, RowAssumption DEF Duplicates, Compared
    <2>3. PICK d \in Duplicates(m) :
              Enter(r, "append_verdict",
                    [candidate |-> m, duplicate |-> d,
                     decision |-> IF d # None \/ m[2] \notin LongContents
                                  THEN "review" ELSE "approve"])
      BY <1>12, <2>2 DEF Validate
    <2>4. /\ \A o \in Requests : o # r => req'[o] = req[o]
          /\ req'[r].at = "append_verdict"
          /\ req'[r].local = [candidate |-> m, duplicate |-> d, decision |-> "review"]
      BY <1>1, <2>2, <2>3, EnterMoves
    <2>5. service' = service
      BY <1>12 DEF Validate
    <2>6. d \in ms /\ d[2] = m[2]
      BY <2>2
    <2>7. /\ req'[r].local.candidate = m /\ req'[r].local.duplicate = d
          /\ req'[r].local.decision = "review"
      BY <2>4
    <2> HIDE DEF m
    <2>8. GuardianLocal(req[r])'
      BY <2>4, <2>5, <2>6, <2>7 DEF GuardianLocal, Verdict
    <2> QED
      BY <1>2, <2>4, <2>5, <2>8
  <1>13. ASSUME NEW r \in Requests, ValidateAppend(r)
         PROVE  GuardianInv'
    <2>1. PICK v : v = req[r].local
      OBVIOUS
    <2>2. Verdict(v)
      BY <1>13, <2>1 DEF ValidateAppend, At, GuardianInv, GuardianLocal
    <2>3. /\ \A o \in Requests : o # r => req'[o] = req[o]
          /\ req'[r].at = "count_review"
      BY <1>1, <1>13, EnterMoves DEF ValidateAppend
    <2>4. /\ service'.memories = ms /\ service'.versions = vs
          /\ service'.changes = service.changes
          /\ service'.verdicts = Append(service.verdicts, v)
      BY <1>1, <1>13, <2>1 DEF ValidateAppend, Shape, Fields
    <2>5. GuardianLocal(req[r])' /\ Verdict(v)'
      BY <2>2, <2>3, <2>4 DEF GuardianLocal, Verdict
    <2> QED
      BY <1>1, <2>3, <2>4, <2>5, GuardianGrows DEF GuardianInv
  <1>14. ASSUME NEW m \in Memories, NEW v, GuardianRollback(m, v)
         PROVE  GuardianInv'
    <2> DEFINE c == [memory |-> m, action |-> "rollback", version |-> v]
    <2>1. m \in ms /\ InHistory(m, v)
      BY <1>14 DEF GuardianRollback, GuardianInv, InHistory
    <2>2. /\ service'.memories = ms /\ service'.versions = vs
          /\ service'.changes = Append(service.changes, c)
          /\ service'.verdicts = service.verdicts
          /\ req' = req
      BY <1>1, <1>14 DEF GuardianRollback, Shape, Fields, accessVars
    <2>3. c.memory = m /\ c.version = v
      OBVIOUS
    <2> HIDE DEF c
    <2>4. InHistory(m, v)'
      BY <2>1, <2>2 DEF InHistory
    <2> QED
      BY <1>1, <2>1, <2>2, <2>3, <2>4, GuardianGrows DEF GuardianInv
  <1> QED
    BY <1>3, <1>5, <1>6, <1>7, <1>8, <1>9, <1>10, <1>11, <1>12, <1>13, <1>14
       DEF Memory

LEMMA GuardianInit == Init => GuardianInv
  <1> SUFFICES ASSUME Init PROVE GuardianInv
    OBVIOUS
  <1>1. AccessInv
    BY AccessInvInit
  <1>2. /\ service.memories = {} /\ service.changes = <<>> /\ service.verdicts = <<>>
        /\ service.versions = [m \in Memories |-> <<>>]
        /\ \A r \in Requests : req[r].at = "new"
    BY DEF Init, AccessInit
  <1>3. \A m \in Memories : service.versions[m] = <<>> /\ service.versions[m] \in Seq(Nat)
    BY <1>2
  <1>4. \A r \in Requests : GuardianLocal(req[r])
    BY <1>2 DEF GuardianLocal
  <1> QED
    BY <1>1, <1>2, <1>3, <1>4 DEF GuardianInv, AuditedVersionsExist

\* Ids are computed before the append, but those of decisions, articles and the
\* versions of the guardian's history always name an entry of their list that
\* is no later than their own, however the requests interleave.
THEOREM IdsAlwaysResolve == Spec => []IdsResolve
  <1>1. GovernanceInv /\ HubInv /\ GuardianInv => IdsResolve
    BY DEF GovernanceInv, HubInv, GuardianInv, IdsResolve
  <1>2. Init => GovernanceInv /\ HubInv
    BY ShapeInit DEF Init, AccessInit, GovernanceInv, HubInv, At
  <1> QED
    BY <1>1, <1>2, GuardianInit, GovernanceNext, HubNext, GuardianNext, PTL DEF Spec

\* Every version the guardian's audit lists is of a memory that is stored and in
\* the history rollback searches: version appends the entry before its record.
THEOREM AuditedVersionsAlwaysExist == Spec => []AuditedVersionsExist
  <1>1. GuardianInv => AuditedVersionsExist
    BY DEF GuardianInv
  <1> QED
    BY <1>1, GuardianInit, GuardianNext, PTL DEF Spec

\* A candidate is stored before MemoryGuardian.validate compares it with all
\* rows, so every verdict is "review" and names a row of the same content.
THEOREM CandidateAlwaysFindsItself == Spec => []CandidateFindsItself
  <1>1. GuardianInv => CandidateFindsItself
    BY DEF GuardianInv, CandidateFindsItself, Verdict
  <1> QED
    BY <1>1, GuardianInit, GuardianNext, PTL DEF Spec
------------------------------------------------------------------------------
(* Telemetry: totals, latencies and the counters of the guardian *)

\* Two sets that differ at most in r.
LEMMA OneMoves ==
    ASSUME NEW S, NEW T, NEW r, IsFiniteSet(S), T \ {r} = S \ {r}
    PROVE  /\ IsFiniteSet(T) /\ Cardinality(S) \in Nat /\ Cardinality(T) \in Nat
           /\ r \in S /\ r \notin T => Cardinality(S) = Cardinality(T) + 1
           /\ r \notin S /\ r \in T => Cardinality(T) = Cardinality(S) + 1
           /\ (r \in S <=> r \in T) => Cardinality(T) = Cardinality(S)
  <1>1. PICK U : U = S \ {r}
    OBVIOUS
  <1>2. IsFiniteSet(U)
    BY <1>1, FS_Subset
  <1>3. /\ r \notin U /\ (r \in S => S = U \cup {r}) /\ (r \notin S => S = U)
        /\ (r \in T => T = U \cup {r}) /\ (r \notin T => T = U)
    BY <1>1
  <1>4. /\ IsFiniteSet(U \cup {r}) /\ Cardinality(U) \in Nat
        /\ Cardinality(U \cup {r}) = Cardinality(U) + 1
    BY <1>2, <1>3, FS_AddElement, FS_CardinalityType
  <1>5. /\ IsFiniteSet(T)
        /\ r \in S => Cardinality(S) = Cardinality(U) + 1
        /\ r \notin S => Cardinality(S) = Cardinality(U)
        /\ r \in T => Cardinality(T) = Cardinality(U) + 1
        /\ r \notin T => Cardinality(T) = Cardinality(U)
    BY <1>2, <1>3, <1>4
  <1> QED
    BY <1>4, <1>5

\* The requests whose operation o is counted and not timed yet.
Ending(o) == {r \in Open("finally") : Operation[req[r].route] = o}

Outcomes == [success: Nat, error: Nat]

TimerInv ==
    /\ RouteInv
    /\ service.totals \in [Operations -> Outcomes]
    /\ service.latencies \in [Operations -> Nat]
    /\ \A o \in Operations :
          /\ IsFiniteSet(Ending(o))
          /\ service.totals[o].success + service.totals[o].error =
                 service.latencies[o] + Cardinality(Ending(o))

\* The timed block of r ends, with nothing else in telemetry's totals.
EndsBlock(r) ==
    \E s, status :
        /\ TimerEnds(r, s, status) /\ status \in {200, 500}
        /\ DOMAIN s = Fields /\ s.totals = service.totals
        /\ s.latencies = service.latencies
        /\ req[r].route \in DOMAIN Operation /\ req[r].at # "finally"

\* Nothing of the timers changes.
NoTimer(r) ==
    /\ service'.totals = service.totals /\ service'.latencies = service.latencies
    /\ req[r].at # "finally" /\ req'[r].at # "finally"

LEMMA TimerCases ==
    ASSUME RouteInv, NEW r \in Requests, HandlerStep(r)
    PROVE  Finally(r) \/ EndsBlock(r) \/ NoTimer(r)
  <1>1. Shape
    BY DEF RouteInv
  <1>2. /\ req[r].at \in MemoryPoints => req[r].route \in DOMAIN Operation
        /\ {"memory_store", "guardian_validate", "research_report",
            "evolution_proposals", "chat", "completion", "embeddings",
            "memory_search", "memory_retrieve", "analyze_code"}
               = DOMAIN Operation
    BY TimedRoutes DEF RouteInv, Operation
  <1>3. ASSUME NEW s, NEW status \in {200, 500}, TimerEnds(r, s, status),
               DOMAIN s = Fields, s.totals = service.totals,
               s.latencies = service.latencies,
               req[r].route \in DOMAIN Operation, req[r].at # "finally"
        PROVE  EndsBlock(r)
    BY <1>3 DEF EndsBlock
  <1>4. ASSUME NEW status, Reply(r, status), req[r].at # "finally",
               service'.totals = service.totals,
               service'.latencies = service.latencies
        PROVE  NoTimer(r)
    BY <1>1, <1>4, ReplyMoves DEF NoTimer
  <1>5. ASSUME NEW point, NEW local, point # "finally", Enter(r, point, local),
               req[r].at # "finally", service'.totals = service.totals,
               service'.latencies = service.latencies
        PROVE  NoTimer(r)
    BY <1>1, <1>5, EnterMoves DEF NoTimer
  <1>6. CASE Governance(r)
    <2>1. req[r].at # "finally" /\ service'.totals = service.totals
          /\ service'.latencies = service.latencies
      BY <1>1, <1>6, GovernanceMoves DEF Moves, Touches, Fields, GovernancePoints
    <2>2. \/ \E status : Reply(r, status)
          \/ \E local : Enter(r, "append_decision", local)
          \/ \E local : Enter(r, "append_review", local)
      BY <1>6 DEF Governance, Propose, ProposeAppend, Review, ReviewAppend
    <2> QED
      BY <1>4, <1>5, <2>1, <2>2
  <1>7. CASE Graph(r)
    <2>1. req[r].at # "finally" /\ service'.totals = service.totals
          /\ service'.latencies = service.latencies
      BY <1>1, <1>7, GraphMoves DEF Moves, Touches, Fields
    <2>2. \/ \E status : Reply(r, status)
          \/ \E local : Enter(r, "append_edge", local)
      BY <1>7 DEF Graph, UpsertEntity, Relate, RelateAppend
    <2> QED
      BY <1>4, <1>5, <2>1, <2>2
  <1>8. CASE Memory(r)
    <2>1. ASSUME NEW route \in MemoryRoutes, StoreRaises(r, route)
          PROVE  EndsBlock(r)
      BY <1>1, <1>3, <2>1, TimedRoutes DEF StoreRaises, Handle, Shape
    <2>2. ASSUME NEW route \in MemoryRoutes, NEW c \in Contents,
                 StoreMemory(r, route, c)
          PROVE  NoTimer(r)
      BY <1>1, <1>5, <2>2 DEF StoreMemory, Handle, Shape, Fields
    <2>3. CASE VersionRead(r)
      BY <1>5, <2>3 DEF VersionRead, At
    <2>4. CASE VersionAppend(r)
      BY <1>1, <1>5, <2>4 DEF VersionAppend, At, Shape, Fields
    <2>5. CASE VersionAudit(r)
      BY <1>1, <1>5, <2>5 DEF VersionAudit, At, Shape, Fields
    <2>6. CASE CountMemory(r)
      <3> DEFINE s == [service EXCEPT !.memories_stored = @ + 1]
      <3>1. /\ DOMAIN s = Fields /\ s.totals = service.totals
            /\ s.latencies = service.latencies
        BY <1>1 DEF Shape, Fields
      <3>2. TimerEnds(r, s, 200) /\ req[r].at = "count_memory"
        BY <2>6 DEF CountMemory, At
      <3> HIDE DEF s
      <3> QED
        BY <1>2, <1>3, <3>1, <3>2 DEF MemoryPoints
    <2>7. CASE Validate(r)
      BY <1>5, <2>7 DEF Validate, At
    <2>8. CASE ValidateAppend(r)
      BY <1>1, <1>5, <2>8 DEF ValidateAppend, At, Shape, Fields
    <2>9. CASE CountReview(r)
      <3> DEFINE s == [service EXCEPT !.memory_reviews = @ + 1]
      <3>1. /\ DOMAIN s = Fields /\ s.totals = service.totals
            /\ s.latencies = service.latencies
        BY <1>1 DEF Shape, Fields
      <3>2. TimerEnds(r, s, 200) /\ req[r].at = "count_review"
        BY <2>9 DEF CountReview, At
      <3> HIDE DEF s
      <3> QED
        BY <1>2, <1>3, <3>1, <3>2 DEF MemoryPoints
    <2> QED
      BY <1>8, <2>1, <2>2, <2>3, <2>4, <2>5, <2>6, <2>7, <2>8, <2>9 DEF Memory
  <1>9. CASE Knowledge(r)
    <2>1. CASE Report(r)
      <3> DEFINE reported(failed) == [service EXCEPT !.reports = Append(@, failed)]
      <3>1. \A failed : /\ DOMAIN reported(failed) = Fields
                        /\ reported(failed).totals = service.totals
                        /\ reported(failed).latencies = service.latencies
        BY <1>1 DEF Shape, Fields
      <3>2. /\ req[r].route = "research_report" /\ req[r].at = "handler"
            /\ \/ \E failed \in SUBSET Sources : TimerEnds(r, reported(failed), 200)
               \/ TimerEnds(r, service, 500)
        BY <2>1 DEF Report, Handle
      <3> HIDE DEF reported
      <3> QED
        BY <1>1, <1>2, <1>3, <3>1, <3>2 DEF Shape
    <2>2. ASSUME NEW route \in Routes, Ingest(r, route)
          PROVE  NoTimer(r)
      BY <1>4, <1>5, <2>2 DEF Ingest, Handle
    <2>3. CASE IngestAppend(r)
      BY <1>1, <1>4, <2>3 DEF IngestAppend, At, Shape, Fields
    <2>4. ASSUME NEW name \in Repositories, IndexRepository(r, name)
          PROVE  NoTimer(r)
      BY <1>1, <1>4, <2>4 DEF IndexRepository, Handle, Shape, Fields
    <2>5. ASSUME NEW name \in Repositories, AnalyzeRepository(r, name)
          PROVE  NoTimer(r)
      BY <1>4, <2>5 DEF AnalyzeRepository, Handle
    <2>6. CASE Evaluate(r)
      <3> DEFINE s == [service EXCEPT !.evaluations = @ + 1]
      <3>1. /\ DOMAIN s = Fields /\ s.totals = service.totals
            /\ s.latencies = service.latencies
        BY <1>1 DEF Shape, Fields
      <3>2. /\ req[r].at = "handler"
            /\ \/ service' = s /\ Reply(r, 200)
               \/ TimerEnds(r, s, 200) /\ req[r].route = "evolution_proposals"
        BY <2>6 DEF Evaluate, Handle
      <3> HIDE DEF s
      <3> QED
        BY <1>2, <1>3, <1>4, <3>1, <3>2
    <2> QED
      BY <1>9, <2>1, <2>2, <2>3, <2>4, <2>5, <2>6 DEF Knowledge
  <1>10. ASSUME NEW route \in Routes, TimedHandler(r, route)
         PROVE  EndsBlock(r)
    BY <1>1, <1>2, <1>3, <1>10 DEF TimedHandler, Handle, Shape
  <1>11. ASSUME NEW route \in Routes, OtherHandler(r, route)
         PROVE  NoTimer(r)
    BY <1>4, <1>11 DEF OtherHandler, Handle
  <1> QED
    BY <1>6, <1>7, <1>8, <1>9, <1>10, <1>11 DEF HandlerStep
LEMMA TimerInvNext == TimerInv /\ [Next]_vars => TimerInv'
  <1> SUFFICES ASSUME TimerInv, [Next]_vars PROVE TimerInv'
    OBVIOUS
  <1> DEFINE totals == service.totals
             latencies == service.latencies
             sum(t, o) == t[o].success + t[o].error
  <1>1. RouteInv /\ RouteInv' /\ Shape
    BY RouteNext DEF TimerInv, RouteInv
  <1>2. ASSUME service'.totals = totals, service'.latencies = latencies,
               \A r \in Requests :
                   At(r, "finally") \/ At(r, "finally")' => req'[r] = req[r]
        PROVE  TimerInv'
    <2>1. \A o : Ending(o)' = Ending(o)
      BY <1>2 DEF Ending, Open, At
    <2> QED
      BY <1>1, <1>2, <2>1 DEF TimerInv
  <1>3. ASSUME NEW r \in Requests, EndsBlock(r)
        PROVE  TimerInv'
    <2>1. PICK s, status :
              /\ TimerEnds(r, s, status) /\ status \in {200, 500}
              /\ DOMAIN s = Fields /\ s.totals = totals /\ s.latencies = latencies
      BY <1>3 DEF EndsBlock
    <2>2. /\ \A o \in Requests : o # r => req'[o] = req[o]
          /\ req'[r].at = "finally" /\ req'[r].route = req[r].route
          /\ service'.latencies = latencies
      BY <1>1, <2>1, TimerMoves DEF Fields
    <2>3. PICK op : op = Operation[req[r].route]
      OBVIOUS
    <2>4. op \in Operations /\ req[r].at # "finally"
      BY <1>3, <2>3 DEF EndsBlock, Operations
    <2>5. PICK outcome \in {"success", "error"} :
              service'.totals = [totals EXCEPT ![op][outcome] = @ + 1]
      <3>1. service' = [s EXCEPT !.totals[op][IF status = 200 THEN "success" ELSE "error"] = @ + 1]
        BY <2>1, <2>3 DEF TimerEnds
      <3> QED
        BY <2>1, <3>1 DEF Fields
    <2>6. totals \in [Operations -> Outcomes]
      BY DEF TimerInv
    <2>7. /\ service'.totals \in [Operations -> Outcomes]
          /\ sum(service'.totals, op) = sum(totals, op) + 1
          /\ \A o \in Operations : o # op => service'.totals[o] = totals[o]
      <3>1. PICK t : t = totals[op]
        OBVIOUS
      <3>2. t \in Outcomes
        BY <2>4, <2>6, <3>1
      <3>3. PICK u : u = [t EXCEPT ![outcome] = @ + 1]
        OBVIOUS
      <3>4. u \in Outcomes /\ u.success + u.error = t.success + t.error + 1
        BY <3>2, <3>3 DEF Outcomes
      <3>5. service'.totals = [totals EXCEPT ![op] = u]
        BY <2>4, <2>5, <2>6, <3>1, <3>3
      <3> QED
        BY <2>4, <2>6, <3>1, <3>4, <3>5
    <2>8. ASSUME NEW o \in Operations
          PROVE  /\ IsFiniteSet(Ending(o))'
                 /\ sum(service'.totals, o) = latencies[o] + Cardinality(Ending(o))'
      <3>1. PICK S, T : S = Ending(o) /\ T = Ending(o)'
        OBVIOUS
      <3>2. T \ {r} = S \ {r} /\ r \notin S /\ (r \in T <=> o = op)
        BY <2>2, <2>3, <2>4, <3>1 DEF Ending, Open, At
      <3>3. /\ IsFiniteSet(S) /\ sum(totals, o) = latencies[o] + Cardinality(S)
            /\ latencies[o] \in Nat /\ totals[o] \in Outcomes
        BY <3>1 DEF TimerInv
      <3>4. /\ IsFiniteSet(T) /\ Cardinality(S) \in Nat /\ Cardinality(T) \in Nat
            /\ o = op => Cardinality(T) = Cardinality(S) + 1
            /\ o # op => Cardinality(T) = Cardinality(S)
        BY <3>2, <3>3, OneMoves
      <3>5. sum(service'.totals, o) = latencies[o] + Cardinality(T)
        <4>1. CASE o = op
          <5>1. sum(service'.totals, o) = sum(totals, o) + 1
            BY <2>7, <4>1
          <5> HIDE DEF sum, latencies
          <5> QED
            BY <3>3, <3>4, <4>1, <5>1
        <4>2. CASE o # op
          BY <2>7, <3>3, <3>4, <4>2
        <4> QED
          BY <4>1, <4>2
      <3> QED
        BY <3>1, <3>4, <3>5
    <2> QED
      BY <1>1, <2>2, <2>7, <2>8 DEF TimerInv
  <1>4. ASSUME NEW r \in Requests, Finally(r)
        PROVE  TimerInv'
    <2>1. /\ \A o \in Requests : o # r => req'[o] = req[o]
          /\ req'[r].at = "done" /\ req[r].at = "finally"
      BY <1>1, <1>4, ReplyMoves DEF Finally, At
    <2>2. PICK op : op = Operation[req[r].route]
      OBVIOUS
    <2>3. op \in Operations
      BY <1>1, <2>1, <2>2 DEF RouteInv, At, Operations
    <2>4. latencies \in [Operations -> Nat]
      BY DEF TimerInv
    <2>5. /\ service'.totals = totals
          /\ service'.latencies = [latencies EXCEPT ![op] = @ + 1]
      BY <1>1, <1>4, <2>2 DEF Finally, Observed, Shape, Fields
    <2>6. /\ service'.latencies \in [Operations -> Nat]
          /\ service'.latencies[op] = latencies[op] + 1
          /\ \A o \in Operations : o # op => service'.latencies[o] = latencies[o]
      BY <2>3, <2>4, <2>5
    <2>7. ASSUME NEW o \in Operations
          PROVE  /\ IsFiniteSet(Ending(o))'
                 /\ sum(totals, o) = service'.latencies[o] + Cardinality(Ending(o))'
      <3>1. PICK S, T : S = Ending(o) /\ T = Ending(o)'
        OBVIOUS
      <3>2. T \ {r} = S \ {r} /\ r \notin T /\ (r \in S <=> o = op)
        BY <2>1, <2>2, <3>1 DEF Ending, Open, At
      <3>3. /\ IsFiniteSet(S) /\ sum(totals, o) = latencies[o] + Cardinality(S)
            /\ latencies[o] \in Nat
        BY <2>4, <3>1 DEF TimerInv
      <3>4. /\ IsFiniteSet(T) /\ Cardinality(S) \in Nat /\ Cardinality(T) \in Nat
            /\ o = op => Cardinality(S) = Cardinality(T) + 1
            /\ o # op => Cardinality(T) = Cardinality(S)
        BY <3>2, <3>3, OneMoves
      <3>5. sum(totals, o) = service'.latencies[o] + Cardinality(T)
        <4> HIDE DEF sum, latencies
        <4> QED
          BY <2>6, <3>3, <3>4
      <3> QED
        BY <3>1, <3>4, <3>5
    <2> QED
      BY <1>1, <2>5, <2>6, <2>7 DEF TimerInv
  <1>5. ASSUME NEW r \in Requests, HandlerStep(r)
        PROVE  TimerInv'
    <2>1. CASE NoTimer(r)
      <3>1. \A o \in Requests : o # r => req'[o] = req[o]
        BY <1>1, <1>5, GovernanceMoves, GraphMoves, MemoryMoves, KnowledgeMoves,
           PlainMoves DEF HandlerStep, Moves
      <3> QED
        BY <1>2, <2>1, <3>1 DEF NoTimer, At
    <2> QED
      BY <1>1, <1>3, <1>4, <1>5, <2>1, TimerCases
  <1>6. ASSUME NEW r \in Requests, AccessStep(r), UNCHANGED service
        PROVE  TimerInv'
    <2>1. \A o \in Requests : At(o, "finally") \/ At(o, "finally")' => req'[o] = req[o]
      BY <1>1, <1>6, AccessMoves DEF At
    <2> QED
      BY <1>2, <1>6, <2>1
  <1>7. ASSUME NEW m, NEW v, GuardianRollback(m, v)
        PROVE  TimerInv'
    BY <1>1, <1>2, <1>7, RollbackMoves DEF Touches, Fields
  <1> QED
    BY <1>1, <1>2, <1>5, <1>6, <1>7, Steps
Versioned ==
    {i \in DOMAIN service.changes : service.changes[i].action = "versioned"}

\* The counters of the guardian's lists are behind by the requests that are
\* between the list and the counter.
CountInv ==
    /\ GuardianInv
    /\ service.memories_stored \in Nat /\ service.memory_reviews \in Nat
    /\ IsFiniteSet(Open("count_memory")) /\ IsFiniteSet(Open("count_review"))
    /\ service.memories_stored + Cardinality(Open("count_memory")) =
           Cardinality(Versioned)
    /\ service.memory_reviews + Cardinality(Open("count_review")) =
           Len(service.verdicts)

CountFields == {"changes", "verdicts", "memories_stored", "memory_reviews"}

\* Steps that touch neither the lists nor their counters.
LEMMA CountQuiet ==
    ASSUME Shape, [Next]_vars,
           \A r \in Requests : ~(\/ VersionAudit(r) \/ CountMemory(r)
                                 \/ ValidateAppend(r) \/ CountReview(r)),
           ~\E m \in Memories, v \in 1..Cardinality(Requests) : GuardianRollback(m, v)
    PROVE  Quiet({"count_memory", "count_review"}, CountFields)
  <1>1. CASE \A r \in Requests : ~Memory(r)
    BY <1>1, Steps, AccessMoves, GovernanceMoves, GraphMoves, KnowledgeMoves,
       PlainMoves
       DEF Quiet, HandlerStep, Moves, Touches, Fields, GovernancePoints,
           CountFields, KnowledgeFields
  <1>2. ASSUME NEW r \in Requests, Memory(r)
        PROVE  Quiet({"count_memory", "count_review"}, CountFields)
    <2>1. \A o \in Requests : o # r => req'[o] = req[o]
      BY <1>2, MemoryMoves DEF Moves
    <2>2. ASSUME req[r].at \notin {"count_memory", "count_review"},
                 req'[r].at \notin {"count_memory", "count_review"},
                 \A f \in CountFields : service'[f] = service[f]
          PROVE  Quiet({"count_memory", "count_review"}, CountFields)
      BY <2>1, <2>2 DEF Quiet
    <2>3. ASSUME NEW route \in MemoryRoutes, StoreRaises(r, route)
          PROVE  Quiet({"count_memory", "count_review"}, CountFields)
      BY <2>2, <2>3, TimerMoves DEF StoreRaises, Handle, Shape, CountFields, Fields
    <2>4. ASSUME NEW route \in MemoryRoutes, NEW c \in Contents,
                 StoreMemory(r, route, c)
          PROVE  Quiet({"count_memory", "count_review"}, CountFields)
      BY <2>2, <2>4, EnterMoves DEF StoreMemory, Handle, Shape, CountFields, Fields
    <2>5. CASE VersionRead(r)
      BY <2>2, <2>5, EnterMoves DEF VersionRead, At
    <2>6. CASE VersionAppend(r)
      BY <2>2, <2>6, EnterMoves DEF VersionAppend, At, Shape, CountFields, Fields
    <2>7. CASE Validate(r)
      BY <2>2, <2>7, EnterMoves DEF Validate, At
    <2> QED
      BY <1>2, <2>3, <2>4, <2>5, <2>6, <2>7 DEF Memory
  <1> QED
    BY <1>1, <1>2

LEMMA CountNext == CountInv /\ [Next]_vars => CountInv'
  <1> SUFFICES ASSUME CountInv, [Next]_vars PROVE CountInv'
    OBVIOUS
  <1>1. GuardianInv /\ GuardianInv' /\ Shape
    BY GuardianNext DEF CountInv, GuardianInv, AccessInv
  <1>2. PICK n, verdicts, M, R, V :
            /\ n = Len(service.changes) /\ verdicts = service.verdicts
            /\ M = Open("count_memory") /\ R = Open("count_review") /\ V = Versioned
    OBVIOUS
  <1>3. /\ DOMAIN service.changes = 1..n /\ n \in Nat
        /\ DOMAIN verdicts = 1..Len(verdicts) /\ Len(verdicts) \in Nat
    BY <1>1, <1>2 DEF GuardianInv
  <1>4. IsFiniteSet(V) /\ IsFiniteSet(M) /\ IsFiniteSet(R)
    <2>1. V \subseteq 1..n
      BY <1>2, <1>3 DEF Versioned
    <2>2. IsFiniteSet(1..n)
      BY <1>3, FS_Interval
    <2> QED
      BY <1>2, <2>1, <2>2, FS_Subset DEF CountInv
  <1>5. /\ Cardinality(V) \in Nat /\ Cardinality(M) \in Nat /\ Cardinality(R) \in Nat
        /\ service.memories_stored \in Nat /\ service.memory_reviews \in Nat
        /\ service.memories_stored + Cardinality(M) = Cardinality(V)
        /\ service.memory_reviews + Cardinality(R) = Len(verdicts)
    BY <1>2, <1>4, FS_CardinalityType DEF CountInv
  \* What a step has to be checked for.
  <1>6. ASSUME NEW r, NEW M1, NEW R1, NEW V1,
               M1 = Open("count_memory")', R1 = Open("count_review")', V1 = Versioned',
               M1 \ {r} = M \ {r}, R1 \ {r} = R \ {r},
               service'.memories_stored \in Nat, service'.memory_reviews \in Nat,
               service'.memories_stored + Cardinality(M1) = Cardinality(V1),
               service'.memory_reviews + Cardinality(R1) = Len(service'.verdicts)
        PROVE  CountInv'
    <2>1. IsFiniteSet(M1) /\ IsFiniteSet(R1)
      BY <1>4, <1>6, OneMoves
    <2> QED
      BY <1>1, <1>6, <2>1 DEF CountInv
  <1>7. ASSUME NEW r \in Requests, VersionAudit(r)
        PROVE  CountInv'
    <2>1. PICK c : c = req[r].local
      OBVIOUS
    <2>2. c.action = "versioned" /\ req[r].at = "append_change"
      BY <1>1, <1>7, <2>1 DEF VersionAudit, At, GuardianInv, GuardianLocal
    <2>3. /\ \A o \in Requests : o # r => req'[o] = req[o]
          /\ req'[r].at = "count_memory"
      BY <1>1, <1>7, EnterMoves DEF VersionAudit
    <2>4. /\ service'.changes = Append(service.changes, c)
          /\ service'.verdicts = service.verdicts
          /\ service'.memories_stored = service.memories_stored
          /\ service'.memory_reviews = service.memory_reviews
      BY <1>1, <1>7, <2>1 DEF VersionAudit, Shape, Fields
    <2>5. PICK M1, R1, V1 : /\ M1 = Open("count_memory")' /\ R1 = Open("count_review")'
                            /\ V1 = Versioned'
      OBVIOUS
    <2>6. /\ M1 \ {r} = M \ {r} /\ r \in M1 /\ r \notin M /\ R1 = R
      BY <1>2, <2>2, <2>3, <2>5 DEF Open, At
    <2>7. V1 = V \cup {n + 1} /\ n + 1 \notin V
      <3>1. /\ DOMAIN service'.changes = 1..(n + 1)
            /\ service'.changes[n + 1] = c
            /\ \A i \in 1..n : service'.changes[i] = service.changes[i]
        BY <1>2, <1>3, <2>4
      <3>2. V1 = {i \in 1..(n + 1) : service'.changes[i].action = "versioned"}
        BY <2>5, <3>1 DEF Versioned
      <3>3. V = {i \in 1..n : service.changes[i].action = "versioned"}
        BY <1>2, <1>3 DEF Versioned
      <3> QED
        BY <1>3, <2>2, <3>1, <3>2, <3>3
    <2>8. Cardinality(V1) = Cardinality(V) + 1
      BY <1>4, <2>7, FS_AddElement
    <2>9. Cardinality(M1) = Cardinality(M) + 1
      BY <1>4, <2>6, OneMoves
    <2>10. service'.memories_stored + Cardinality(M1) = Cardinality(V1)
      <3>1. PICK a, b, k : a = service'.memories_stored /\ b = Cardinality(M) /\ k = Cardinality(V)
        OBVIOUS
      <3>2. service'.memories_stored = service.memories_stored
        BY <2>4
      <3>3. a \in Nat /\ b \in Nat /\ k \in Nat /\ a + b = k
        BY <1>5, <3>1, <3>2
      <3>4. a + (b + 1) = k + 1
        BY <3>3
      <3> QED
        BY <2>8, <2>9, <3>1, <3>4
    <2> QED
      BY <1>2, <1>5, <1>6, <2>4, <2>5, <2>6, <2>10
  <1>8. ASSUME NEW m \in Memories, NEW v, GuardianRollback(m, v)
        PROVE  CountInv'
    <2>1. PICK c : c = [memory |-> m, action |-> "rollback", version |-> v]
      OBVIOUS
    <2>2. c.action # "versioned"
      BY <2>1
    <2>3. /\ service'.changes = Append(service.changes, c) /\ req' = req
          /\ service'.verdicts = service.verdicts
          /\ service'.memories_stored = service.memories_stored
          /\ service'.memory_reviews = service.memory_reviews
      BY <1>1, <1>8, <2>1 DEF GuardianRollback, Shape, Fields, accessVars
    <2>4. PICK M1, R1, V1 : /\ M1 = Open("count_memory")' /\ R1 = Open("count_review")'
                            /\ V1 = Versioned'
      OBVIOUS
    <2>5. M1 = M /\ R1 = R
      BY <1>2, <2>3, <2>4 DEF Open, At
    <2>6. V1 = V
      <3>1. /\ DOMAIN service'.changes = 1..(n + 1)
            /\ service'.changes[n + 1] = c
            /\ \A i \in 1..n : service'.changes[i] = service.changes[i]
        BY <1>2, <1>3, <2>3
      <3>2. V1 = {i \in 1..(n + 1) : service'.changes[i].action = "versioned"}
        BY <2>4, <3>1 DEF Versioned
      <3>3. V = {i \in 1..n : service.changes[i].action = "versioned"}
        BY <1>2, <1>3 DEF Versioned
      <3> QED
        BY <1>3, <2>2, <3>1, <3>2, <3>3
    <2> QED
      BY <1>2, <1>5, <1>6, <2>3, <2>4, <2>5, <2>6
  <1>9. ASSUME NEW r \in Requests, CountMemory(r)
        PROVE  CountInv'
    <2>1. PICK s : s = [service EXCEPT !.memories_stored = @ + 1]
      OBVIOUS
    <2>2. /\ DOMAIN s = Fields /\ s.memories_stored = service.memories_stored + 1
          /\ s.memory_reviews = service.memory_reviews
          /\ s.changes = service.changes /\ s.verdicts = service.verdicts
      BY <1>1, <2>1 DEF Shape, Fields
    <2>3. TimerEnds(r, s, 200) /\ req[r].at = "count_memory"
      BY <1>9, <2>1 DEF CountMemory, At
    <2>4. /\ \A o \in Requests : o # r => req'[o] = req[o]
          /\ req'[r].at = "finally"
          /\ service'.memories_stored = service.memories_stored + 1
          /\ service'.memory_reviews = service.memory_reviews
          /\ service'.changes = service.changes
          /\ service'.verdicts = service.verdicts
      BY <1>1, <2>2, <2>3, TimerMoves DEF Fields
    <2>5. PICK M1, R1, V1 : /\ M1 = Open("count_memory")' /\ R1 = Open("count_review")'
                            /\ V1 = Versioned'
      OBVIOUS
    <2>6. M1 \ {r} = M \ {r} /\ r \notin M1 /\ r \in M /\ R1 = R /\ V1 = V
      BY <1>2, <2>3, <2>4, <2>5 DEF Open, At, Versioned
    <2>7. Cardinality(M) = Cardinality(M1) + 1 /\ Cardinality(M1) \in Nat
      BY <1>4, <2>6, OneMoves
    <2>8. service'.memories_stored \in Nat
          /\ service'.memories_stored + Cardinality(M1) = Cardinality(V1)
      <3>1. PICK a, b, k : a = service.memories_stored /\ b = Cardinality(M1) /\ k = Cardinality(V)
        OBVIOUS
      <3>2. a \in Nat /\ b \in Nat /\ k \in Nat /\ a + (b + 1) = k
        BY <1>5, <2>7, <3>1
      <3>3. a + 1 \in Nat /\ (a + 1) + b = k
        BY <3>2
      <3>4. service'.memories_stored = a + 1 /\ Cardinality(V1) = k
        BY <2>4, <2>6, <3>1
      <3> QED
        BY <3>1, <3>3, <3>4
    <2> QED
      BY <1>2, <1>5, <1>6, <2>4, <2>5, <2>6, <2>8
  <1>10. ASSUME NEW r \in Requests, ValidateAppend(r)
         PROVE  CountInv'
    <2>1. /\ \A o \in Requests : o # r => req'[o] = req[o]
          /\ req'[r].at = "count_review" /\ req[r].at = "append_verdict"
      BY <1>1, <1>10, EnterMoves DEF ValidateAppend, At
    <2>2. /\ service'.changes = service.changes
          /\ service'.verdicts = Append(verdicts, req[r].local)
          /\ service'.memories_stored = service.memories_stored
          /\ service'.memory_reviews = service.memory_reviews
      BY <1>1, <1>2, <1>10 DEF ValidateAppend, Shape, Fields
    <2>3. Len(service'.verdicts) = Len(verdicts) + 1
      BY <1>3, <2>2
    <2>4. PICK M1, R1, V1 : /\ M1 = Open("count_memory")' /\ R1 = Open("count_review")'
                            /\ V1 = Versioned'
      OBVIOUS
    <2>5. R1 \ {r} = R \ {r} /\ r \in R1 /\ r \notin R /\ M1 = M /\ V1 = V
      BY <1>2, <2>1, <2>2, <2>4 DEF Open, At, Versioned
    <2>6. Cardinality(R1) = Cardinality(R) + 1
      BY <1>4, <2>5, OneMoves
    <2>7. service'.memory_reviews + Cardinality(R1) = Len(service'.verdicts)
      <3>1. PICK a, b, k : a = service'.memory_reviews /\ b = Cardinality(R) /\ k = Len(verdicts)
        OBVIOUS
      <3>2. service'.memory_reviews = service.memory_reviews
        BY <2>2
      <3>3. a \in Nat /\ b \in Nat /\ k \in Nat /\ a + b = k
        BY <1>3, <1>5, <3>1, <3>2
      <3>4. a + (b + 1) = k + 1
        BY <3>3
      <3> QED
        BY <2>3, <2>6, <3>1, <3>4
    <2> QED
      BY <1>2, <1>5, <1>6, <2>2, <2>4, <2>5, <2>7
  <1>11. ASSUME NEW r \in Requests, CountReview(r)
         PROVE  CountInv'
    <2>1. PICK s : s = [service EXCEPT !.memory_reviews = @ + 1]
      OBVIOUS
    <2>2. /\ DOMAIN s = Fields /\ s.memory_reviews = service.memory_reviews + 1
          /\ s.memories_stored = service.memories_stored
          /\ s.changes = service.changes /\ s.verdicts = service.verdicts
      BY <1>1, <2>1 DEF Shape, Fields
    <2>3. TimerEnds(r, s, 200) /\ req[r].at = "count_review"
      BY <1>11, <2>1 DEF CountReview, At
    <2>4. /\ \A o \in Requests : o # r => req'[o] = req[o]
          /\ req'[r].at = "finally"
          /\ service'.memory_reviews = service.memory_reviews + 1
          /\ service'.memories_stored = service.memories_stored
          /\ service'.changes = service.changes
          /\ service'.verdicts = service.verdicts
      BY <1>1, <2>2, <2>3, TimerMoves DEF Fields
    <2>5. PICK M1, R1, V1 : /\ M1 = Open("count_memory")' /\ R1 = Open("count_review")'
                            /\ V1 = Versioned'
      OBVIOUS
    <2>6. R1 \ {r} = R \ {r} /\ r \notin R1 /\ r \in R /\ M1 = M /\ V1 = V
      BY <1>2, <2>3, <2>4, <2>5 DEF Open, At, Versioned
    <2>7. Cardinality(R) = Cardinality(R1) + 1 /\ Cardinality(R1) \in Nat
      BY <1>4, <2>6, OneMoves
    <2>8. service'.memory_reviews \in Nat
          /\ service'.memory_reviews + Cardinality(R1) = Len(verdicts)
      <3>1. PICK a, b, k : a = service.memory_reviews /\ b = Cardinality(R1) /\ k = Len(verdicts)
        OBVIOUS
      <3>2. a \in Nat /\ b \in Nat /\ k \in Nat /\ a + (b + 1) = k
        BY <1>3, <1>5, <2>7, <3>1
      <3>3. a + 1 \in Nat /\ (a + 1) + b = k
        BY <3>2
      <3> QED
        BY <2>4, <3>1, <3>3
    <2> QED
      BY <1>2, <1>5, <1>6, <2>4, <2>5, <2>6, <2>8
  <1>12. CASE /\ \A r \in Requests : ~(\/ VersionAudit(r) \/ CountMemory(r)
                                       \/ ValidateAppend(r) \/ CountReview(r))
              /\ ~\E m \in Memories, v \in 1..Cardinality(Requests) :
                     GuardianRollback(m, v)
    <2>1. Quiet({"count_memory", "count_review"}, CountFields)
      BY <1>1, <1>12, CountQuiet
    <2>2. /\ service'.changes = service.changes /\ service'.verdicts = service.verdicts
          /\ service'.memories_stored = service.memories_stored
          /\ service'.memory_reviews = service.memory_reviews
          /\ Open("count_memory")' = M /\ Open("count_review")' = R
      BY <1>2, <2>1 DEF Quiet, CountFields, Open, At
    <2>3. Versioned' = V
      BY <1>2, <2>2 DEF Versioned
    <2> QED
      BY <1>1, <1>2, <1>4, <1>5, <2>2, <2>3 DEF CountInv
  <1> QED
    BY <1>7, <1>8, <1>9, <1>10, <1>11, <1>12

LEMMA TelemetryInit == Init => TimerInv /\ CountInv
  <1> SUFFICES ASSUME Init PROVE TimerInv /\ CountInv
    OBVIOUS
  <1>1. RouteInv /\ GuardianInv
    BY RouteInit, GuardianInit
  <1>2. /\ service.totals = [o \in Operations |-> [success |-> 0, error |-> 0]]
        /\ service.latencies = [o \in Operations |-> 0]
        /\ service.memories_stored = 0 /\ service.memory_reviews = 0
        /\ service.changes = <<>> /\ service.verdicts = <<>>
        /\ \A r \in Requests : req[r].at = "new"
    BY DEF Init, AccessInit
  <1>3. /\ Open("count_memory") = {} /\ Open("count_review") = {} /\ Versioned = {}
        /\ \A o : Ending(o) = {}
    BY <1>2 DEF Open, At, Versioned, Ending
  <1>4. IsFiniteSet({}) /\ Cardinality({}) = 0
    BY FS_EmptySet
  <1>5. TimerInv
    <2>1. \A o \in Operations :
              /\ service.totals[o].success = 0 /\ service.totals[o].error = 0
              /\ service.latencies[o] = 0
              /\ IsFiniteSet(Ending(o)) /\ Cardinality(Ending(o)) = 0
      BY <1>2, <1>3, <1>4
    <2>2. /\ service.totals \in [Operations -> Outcomes]
          /\ service.latencies \in [Operations -> Nat]
      BY <1>2 DEF Outcomes
    <2> QED
      BY <1>1, <2>1, <2>2 DEF TimerInv
  <1>6. CountInv
    <2>1. /\ IsFiniteSet(Open("count_memory")) /\ IsFiniteSet(Open("count_review"))
          /\ Cardinality(Open("count_memory")) = 0
          /\ Cardinality(Open("count_review")) = 0
          /\ Cardinality(Versioned) = 0 /\ Len(service.verdicts) = 0
      BY <1>2, <1>3, <1>4
    <2> QED
      BY <1>1, <1>2, <2>1 DEF CountInv
  <1> QED
    BY <1>5, <1>6

\* TelemetryRegistry.timer counts every timed operation once and times it once,
\* also when it raised, and the counters of memories and reviews are what the
\* guardian's lists show, up to the requests between a list and its counter.
THEOREM TelemetryAlwaysAccounts == Spec => []TelemetryAccounts
  <1>1. TimerInv /\ CountInv => TelemetryAccounts
    BY DEF TimerInv, CountInv, TelemetryAccounts, Ending, Versioned
  <1> QED
    BY <1>1, TelemetryInit, TimerInvNext, CountNext, PTL DEF Spec
=============================================================================
