-------------------------- MODULE MCPlatformService --------------------------
(* Model checking of PlatformService: an expiring key with few permissions,  *)
(* some under their legacy names, a revoked one of the same tenant, and the  *)
(* legacy key with "*".                                                      *)
EXTENDS PlatformService

KeyRecord(tenant, permissions, revoked, expires) ==
    [tenant |-> tenant, permissions |-> permissions, revoked |-> revoked,
     expires |-> expires]

MCKeyRecords ==
    [agent |-> KeyRecord("a", {"graph:write", "governance:propose",
                               "governance.approve", "memory:write"}, FALSE, 1),
     old |-> KeyRecord("a", {"*"}, TRUE, Never),
     legacy |-> KeyRecord("legacy", {"*"}, FALSE, Never)]

\* Routes whose handlers share state are asked for together, any other alone.
Sharing ==
    {{"governance_proposals", "governance_reviews"},
     {"graph_entity", "graph_relationship"}, MemoryRoutes,
     {"chinese_articles", "chinese_analyze"},
     {"github_repository", "github_analyze"},
     {"evolution_evaluate", "evolution_proposals"}}

AllRoutes ==
    DOMAIN PERMISSION_BY_ROUTE \cup DOMAIN DYNAMIC_PREFIX_PERMISSIONS \cup
    DOMAIN Operation \cup public_paths \cup UNION Sharing \cup
    {"models", "guardian_audit", "research_query", "analyze_repository"}

MCWorkloads == Sharing \cup {{route} : route \in AllRoutes \ UNION Sharing}

MCSimilar == {<<"long", "short">>, <<"short", "long">>}

RequestSymmetry == Permutations(Requests)
=============================================================================
