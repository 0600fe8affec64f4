------------------------------ MODULE RateLimit ------------------------------
(***************************************************************************)
(* RedisRateLimiter.check (agi_platform/security.py), called by the        *)
(* production_controls middleware (api/main.py) of several replicas on one *)
(* Redis server.                                                           *)
(*                                                                         *)
(* Each replica names the bucket of a request by its own clock; the server *)
(* expires keys by its clock.  The pipeline (INCR and EXPIRE of the key of *)
(* every rule) is one MULTI/EXEC transaction.  Its reply may be lost.      *)
(***************************************************************************)
EXTENDS Integers

CONSTANTS
    Replicas,
    Scopes,     \* scopes of rules: an address, a key, a tenant, a route
    RuleSets,   \* the scopes of the rules of each kind of request
    Limit,      \* limit of the rule of each scope
    FailClosed, \* scopes whose rule has fail_closed
    Window,     \* window_seconds
    Grace,      \* the seconds a key outlives its window, 5 in the code
    Ahead,      \* how far the clock of each replica is ahead of the server's
    MaxCount,   \* bound on the count of a key
    MaxTime     \* bound on the clock

ASSUME LimitAssumption ==
    /\ \A s \in Scopes : Limit[s] \in Nat
    /\ RuleSets \subseteq SUBSET Scopes
    /\ FailClosed \subseteq Scopes
ASSUME ClockAssumption ==
    /\ Window \in Nat \ {0} /\ {Grace, MaxCount, MaxTime} \subseteq Nat
    /\ \A r \in Replicas : Ahead[r] \in Nat
\* The clocks of two replicas differ by no more than the grace period.
ASSUME SkewAssumption ==
    \A r1, r2 \in Replicas : Ahead[r1] <= Ahead[r2] + Grace

VARIABLES
    counters, \* the keys rl:scope:bucket: count and expiry
    admitted, \* requests let through, by bucket and scope that fails closed
    time      \* the server's time

rateVars == <<counters, admitted, time>>

------------------------------------------------------------------------------
Bucket(r) == (time + Ahead[r]) \div Window
Buckets == {(t + Ahead[r]) \div Window : t \in 0..MaxTime, r \in Replicas}
Keys == Scopes \X Buckets
GuardedKeys == FailClosed \X Buckets

\* The count a key holds now: an expired key is gone.
Count(k) == IF time < counters[k].expires THEN counters[k].count ELSE 0

RateInit ==
    /\ counters = [k \in Keys |-> [count |-> 0, expires |-> 0]]
    /\ admitted = [k \in GuardedKeys |-> 0]
    /\ time = 0

KeysOf(r, rules) == rules \X {Bucket(r)}

\* Mutant: keys live exactly as long as the window.
IncrNoGrace(r, rules) ==
    counters' = [k \in Keys |->
        IF k \in KeysOf(r, rules)
        THEN [count |-> Count(k) + 1, expires |-> time + Window]
        ELSE counters[k]]

\* The pipeline.
Incr(r, rules) ==
    counters' = [k \in Keys |->
        IF k \in KeysOf(r, rules)
        THEN [count |-> Count(k) + 1, expires |-> time + Window + Grace]
        ELSE counters[k]]

LetThrough(r, rules) ==
    admitted' = [k \in GuardedKeys |->
        IF k \in KeysOf(r, rules) THEN admitted[k] + 1 ELSE admitted[k]]

\* int(count) > rule.limit, for the count after the increment.
Within(k) == Count(k) + 1 <= Limit[k[1]]

CheckAllows(r, rules) ==
    /\ \A k \in KeysOf(r, rules) : Within(k)
    /\ Incr(r, rules)
    /\ LetThrough(r, rules)
    /\ UNCHANGED time

\* RateLimitError; the other rules of the request have been counted too.
CheckRefuses(r, rules) ==
    /\ \E k \in KeysOf(r, rules) : ~Within(k)
    /\ Incr(r, rules)
    /\ UNCHANGED <<admitted, time>>

\* RedisError, with the commands executed or not: DependencyError when a rule
\* fails closed, otherwise the request passes.
RedisDown(r, rules) ==
    /\ Incr(r, rules) \/ UNCHANGED counters
    /\ IF rules \cap FailClosed # {} THEN UNCHANGED admitted
                                     ELSE LetThrough(r, rules)
    /\ UNCHANGED time

Check(r, rules) ==
    /\ \A k \in KeysOf(r, rules) : Count(k) < MaxCount
    /\ \/ CheckAllows(r, rules) \/ CheckRefuses(r, rules)
       \/ RedisDown(r, rules)

RateTick ==
    /\ time < MaxTime
    /\ time' = time + 1
    /\ UNCHANGED <<counters, admitted>>

RateNext ==
    \/ \E r \in Replicas, rules \in RuleSets : Check(r, rules)
    \/ RateTick

RateSpec == RateInit /\ [][RateNext]_rateVars

------------------------------------------------------------------------------
(* Properties *)

RateTypeOK ==
    /\ counters \in [Keys -> [count: Nat, expires: Nat]]
    /\ admitted \in [GuardedKeys -> Nat]
    /\ time \in Nat

\* "rate limit shared across replicas" (tests/test_distributed_security.py):
\* in one window, all replicas together let no more requests of a scope
\* through than its limit, when the scope fails closed and the clocks of the
\* replicas differ by no more than the grace period of the keys; also when
\* Redis fails, and for requests that fall under several rules.
LimitPerWindow ==
    \A k \in GuardedKeys : admitted[k] <= Limit[k[1]]
=============================================================================
