----------------------------- MODULE MCRateLimit -----------------------------
(* Model checking of RateLimit: a replica with the server's clock and one    *)
(* that is Grace ahead; every request is under the rule of its address and   *)
(* some under that of an expensive route, which always fails closed.         *)
EXTENDS RateLimit

CONSTANTS exact, early, ip, route

MCLimit == [s \in Scopes |-> IF s = ip THEN 2 ELSE 1]
MCRuleSets == {{ip}, {ip, route}}
MCAhead == [r \in Replicas |-> IF r = early THEN Grace ELSE 0]
=============================================================================
