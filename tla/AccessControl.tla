---------------------------- MODULE AccessControl ----------------------------
(***************************************************************************)
(* The path of a request through api/main.py up to its handler: the        *)
(* production_controls middleware (rate limit, authentication,             *)
(* PolicyEngine.authorize, audit) and the tenant_context dependency.  What *)
(* the handlers do is in PlatformService.                                  *)
(*                                                                         *)
(* The middleware runs on the event loop and does not await before         *)
(* call_next, so it is one step.  A route is named after its handler.  An  *)
(* API key stands for its record: the hash of keys is injective.           *)
(***************************************************************************)
EXTENDS Integers, FiniteSets, TLC

CONSTANTS
    Requests,
    KeyRecords, \* the records AGI_API_KEYS lists, by key
    Workloads,  \* bound: the sets of routes requests ask for together
    MaxClock    \* bound on the clock

None == "none"
Never == -1     \* expires_at of a key that does not expire

Routes == UNION Workloads
Tenants == {KeyRecords[k].tenant : k \in DOMAIN KeyRecords}

VARIABLES
    apiKeys, \* the configured keys: none or all of KeyRecords
    req,     \* where each request is
    audit,   \* AuditTrail.events
    clock

accessVars == <<apiKeys, req, audit, clock>>

------------------------------------------------------------------------------
(* The tables *)

PERMISSION_BY_ROUTE ==
    [memory_store |-> "memory.write", memory_search |-> "memory.read",
     memory_retrieve |-> "memory.read", memory_consolidate |-> "memory.write",
     guardian_validate |-> "memory.write", github_repository |-> "github.index",
     sandbox_execute |-> "sandbox.execute", graph_entity |-> "graph.write",
     graph_relationship |-> "graph.write", graph_search |-> "graph.read",
     orchestrate |-> "workflow.start", governance_proposals |-> "governance.propose",
     governance_reviews |-> "governance.approve",
     evolution_evaluate |-> "evolution.propose",
     evolution_proposals |-> "evolution.propose"]

DYNAMIC_PREFIX_PERMISSIONS ==
    [github_analyze |-> "github.read", orchestrate_execute |-> "workflow.start",
     orchestrate_recover |-> "workflow.start"]

route_permission(route) ==
    IF route \in DOMAIN PERMISSION_BY_ROUTE THEN PERMISSION_BY_ROUTE[route]
    ELSE IF route \in DOMAIN DYNAMIC_PREFIX_PERMISSIONS
         THEN DYNAMIC_PREFIX_PERMISSIONS[route]
         ELSE None

\* One name for the public paths: none of their handlers changes anything.
public_paths == {"public"}

\* The routes under the prefixes that need authorization to be configured.
PrefixClosed ==
    {"sandbox_execute", "orchestrate", "orchestrate_execute",
     "orchestrate_recover", "github_repository", "github_analyze",
     "graph_entity", "graph_relationship", "graph_search",
     "governance_proposals", "governance_reviews", "evolution_evaluate",
     "evolution_proposals"}

\* The handlers that depend on tenant_context.
TenantRoutes ==
    {"memory_store", "memory_search", "memory_retrieve", "memory_consolidate",
     "guardian_validate", "graph_entity", "graph_relationship", "graph_search"}

PERMISSIONS ==
    {"memory.read", "memory.write", "memory.delete", "workflow.read",
     "workflow.start", "workflow.cancel", "github.read", "github.index",
     "graph.read", "graph.write", "sandbox.execute", "governance.propose",
     "governance.review", "governance.approve", "evolution.propose",
     "evolution.approve", "evolution.deploy", "production.mutate"}
HIGH_RISK_ACTIONS ==
    {"sandbox.execute", "evolution.deploy", "production.mutate",
     "governance.approve"}
GOVERNANCE_ACTIONS ==
    {"governance.propose", "governance.review", "governance.approve"}

LEGACY_PERMISSION_MAP ==
    "memory:read" :> "memory.read" @@ "memory:write" :> "memory.write" @@
    "workflow:create" :> "workflow.start" @@
    "workflow:execute" :> "workflow.start" @@
    "github:read" :> "github.read" @@ "github:index" :> "github.index" @@
    "graph:read" :> "graph.read" @@ "graph:write" :> "graph.write" @@
    "sandbox:execute" :> "sandbox.execute" @@
    "governance:propose" :> "governance.propose" @@
    "governance:approve" :> "governance.approve" @@
    "evolution:propose" :> "evolution.propose"

normalize_permission(p) ==
    IF p \in DOMAIN LEGACY_PERMISSION_MAP THEN LEGACY_PERMISSION_MAP[p] ELSE p

------------------------------------------------------------------------------
(* Keys and decisions *)

\* parse_api_keys: the records, with their permissions normalized.
Permissions(k) == {normalize_permission(p) : p \in KeyRecords[k].permissions}

Active(k, now) ==
    /\ ~KeyRecords[k].revoked
    /\ KeyRecords[k].expires = Never \/ KeyRecords[k].expires > now

Can(k, action) == "*" \in Permissions(k) \/ action \in Permissions(k)

\* authenticate_request: in is the request, key and tenant its headers.
Authenticates(in) ==
    /\ in.key \in apiKeys
    /\ Active(in.key, clock)
    /\ in.tenant \in {None, KeyRecords[in.key].tenant}

\* PolicyEngine.authorize, .allowed
Authorized(k, tenant, action, resourceTenant, approved) ==
    /\ KeyRecords[k].tenant = tenant
    /\ action \in PERMISSIONS
    /\ resourceTenant = tenant
    /\ Can(k, action)
    /\ action \in HIGH_RISK_ACTIONS => approved

\* The call production_controls makes.
Allowed(in) ==
    LET tenant == KeyRecords[in.key].tenant IN
    Authorized(in.key, tenant, route_permission(in.route), tenant, in.approved)

\* Mutant: only what was allowed is audited.
AuditRequiredAllowed(in) ==
    route_permission(in.route) \in GOVERNANCE_ACTIONS /\ Allowed(in)

\* AuthorizationDecision.audit_required
AuditRequired(in) == route_permission(in.route) \in GOVERNANCE_ACTIONS

Audited(r, in) ==
    audit' = IF AuditRequired(in)
             THEN audit \cup {[request |-> r, key |-> in.key,
                               action |-> route_permission(in.route),
                               allowed |-> Allowed(in)]}
             ELSE audit

------------------------------------------------------------------------------
(* production_controls *)

AccessInit ==
    /\ apiKeys \in {{}, DOMAIN KeyRecords}
    /\ req = [r \in Requests |-> [at |-> "new"]]
    /\ audit = {}
    /\ clock = 0

Goto(r, state) == req' = [req EXCEPT ![r] = state]
Respond(r, route, status) ==
    Goto(r, [at |-> "done", route |-> route, status |-> status])

\* call_next: the handler will run, for the tenant in request.state.
CallNext(r, in, tenant) ==
    Goto(r, [at |-> "handler", route |-> in.route, tenant |-> tenant,
             approved |-> in.approved, admitted |-> clock])

\* RateLimitError, or DependencyError when Redis is out.
Limited(r, in) ==
    /\ \E status \in {429, 503} : Respond(r, in.route, status)
    /\ UNCHANGED audit

PassPublic(r, in) ==
    /\ in.route \in public_paths
    /\ CallNext(r, in, None)
    /\ UNCHANGED audit

Unauthenticated(r, in) ==
    /\ in.route \notin public_paths
    /\ apiKeys # {}
    /\ ~Authenticates(in)
    /\ Respond(r, in.route, 401)
    /\ UNCHANGED audit

Identified(r, in) ==
    /\ in.route \notin public_paths
    /\ apiKeys # {}
    /\ Authenticates(in)
    /\ IF route_permission(in.route) = None
       THEN /\ CallNext(r, in, KeyRecords[in.key].tenant)
            /\ UNCHANGED audit
       ELSE /\ Audited(r, in)
            /\ IF Allowed(in) THEN CallNext(r, in, KeyRecords[in.key].tenant)
                              ELSE Respond(r, in.route, 403)

\* Mutant: only the sandbox needs authorization to be configured.
FailsClosedSandbox(route) == route = "sandbox_execute"

FailsClosed(route) == route_permission(route) # None /\ route \in PrefixClosed

\* No key is configured.
Unconfigured(r, in) ==
    /\ in.route \notin public_paths
    /\ apiKeys = {}
    /\ IF FailsClosed(in.route) THEN Respond(r, in.route, 503)
                                ELSE CallNext(r, in, None)
    /\ UNCHANGED audit

production_controls(r, in) ==
    /\ req[r].at = "new"
    /\ \/ Limited(r, in) \/ PassPublic(r, in) \/ Unauthenticated(r, in)
       \/ Identified(r, in) \/ Unconfigured(r, in)
    /\ UNCHANGED <<apiKeys, clock>>

\* tenant_context finds what the handler depends on.
HasContext(r) == req[r].route \in TenantRoutes => req[r].tenant # None

\* tenant_context raises AuthorizationError.
NoTenantContext(r) ==
    /\ req[r].at = "handler"
    /\ ~HasContext(r)
    /\ Respond(r, req[r].route, 403)
    /\ UNCHANGED <<apiKeys, audit, clock>>

Tick ==
    /\ clock < MaxClock
    /\ clock' = clock + 1
    /\ UNCHANGED <<apiKeys, req, audit>>

\* What a client may send: a listed key, another one or none, and the tenant
\* and approval headers.
Inputs ==
    [route: UNION {w \in Workloads : \A r \in Requests :
                      req[r].at = "new" \/ req[r].route \in w},
     key: DOMAIN KeyRecords \cup {"unknown", None},
     tenant: Tenants \cup {None}, approved: BOOLEAN]

AccessNext ==
    \/ \E r \in Requests :
          (\E in \in Inputs : production_controls(r, in)) \/ NoTenantContext(r)
    \/ Tick

------------------------------------------------------------------------------
(* Properties *)

\* "Protected routes now require an explicit permission" and "fail closed when
\* no authorization credentials are configured" (docs/production.md): a handler
\* with a permission runs only for the tenant of a configured key that was
\* active when the request came in, has the permission, and for the high-risk
\* actions with an approval.
HandlersAuthorized ==
    \A r \in Requests :
        LET q == req[r] IN
        q.at = "handler" /\ HasContext(r) /\ route_permission(q.route) # None =>
            /\ \E k \in apiKeys :
                  /\ Active(k, q.admitted)
                  /\ q.tenant = KeyRecords[k].tenant
                  /\ Can(k, route_permission(q.route))
            /\ route_permission(q.route) \in HIGH_RISK_ACTIONS => q.approved

\* "Governance authorization decisions are written to the in-process audit
\* trail" (docs/SECURITY_AUTHORIZATION.md): a governance request has exactly
\* one event once it was let through or refused with 403, saying which; and no
\* other request has any.
GovernanceAudited ==
    \A r \in Requests :
        LET events == {e \in audit : e.request = r} IN
        IF /\ req[r].at # "new"
           /\ route_permission(req[r].route) \in GOVERNANCE_ACTIONS
           /\ req[r].at = "done" => req[r].status \in {200, 403, 500}
        THEN /\ Cardinality(events) = 1
             /\ \A e \in events :
                   e.allowed <=> ~(req[r].at = "done" /\ req[r].status = 403)
        ELSE events = {}
=============================================================================
