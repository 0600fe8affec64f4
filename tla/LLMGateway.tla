----------------------------- MODULE LLMGateway -----------------------------
(***************************************************************************)
(* LLMGateway.complete (agi_platform/llm/core.py): admission by budget,    *)
(* choice of providers, retries, circuit breakers and cost accounting, for *)
(* concurrent request threads of one process.                              *)
(*                                                                         *)
(* The gateway's state is plain Python objects without a lock.  A thread   *)
(* may be preempted at every call, so CostPolicy.commit, which calls       *)
(* dict.get before it stores the sum, is two actions.  _record_failure     *)
(* increments its counter without a call in between and is one action: a   *)
(* success that replaces the ProviderHealth object meanwhile leaves the    *)
(* same state as one that comes after it.                                  *)
(*                                                                         *)
(* Costs are counted in tokens, at price one; the usage log is the sum of  *)
(* the costs of its records.  Left out: latency and error metrics,         *)
(* last_status, and embeddings, which makes one call and changes nothing.  *)
(***************************************************************************)
EXTENDS Integers, FiniteSets, FiniteSetsExt

CONSTANTS
    Threads,
    Tenants,
    Providers,   \* numbers, in the order of their priority; all configured
    Models, ModelsOf, Allowlist,
    NoModel,     \* model=None: take the first model of each provider
    Sizes,       \* tokens of a message
    MaxTokens,   \* max_tokens_per_request
    Costs,       \* tokens a provider may report for an answer
    Budget,      \* tenant_budget_usd
    MaxRetries,  \* max_retries
    Threshold,   \* circuit_breaker_failures
    Cooldown,    \* circuit_breaker_cooldown
    MaxFailures, \* bound on the failures counted for a provider
    MaxUsage,    \* bound on the usage of a tenant that is still admitted
    MaxClock     \* bound on the clock

ASSUME PolicyAssumption ==
    /\ {Budget, MaxRetries, MaxTokens, MaxFailures, MaxUsage, MaxClock} \subseteq Nat
    /\ {Threshold, Cooldown} \subseteq Nat \ {0}
ASSUME ThreadAssumption == IsFiniteSet(Threads)
ASSUME TokenAssumption == Sizes \subseteq Nat /\ Costs \subseteq Nat
ASSUME ProviderAssumption ==
    /\ Providers \subseteq Nat /\ IsFiniteSet(Providers)
    /\ NoModel \notin Models
    /\ \A p \in Providers : ModelsOf[p] \subseteq Models

VARIABLES
    spent,   \* CostPolicy.spent_by_tenant
    usage,   \* the cost of the records in LLMGateway.usage, by tenant
    health,  \* ProviderHealth of each provider
    thread,  \* where each call of complete is
    clock    \* time.monotonic()

vars == <<spent, usage, health, thread, clock>>

------------------------------------------------------------------------------
Healthy == [failures |-> 0, open_until |-> 0]

Idle == [at |-> "idle"]

Init ==
    /\ spent = [t \in Tenants |-> 0]
    /\ usage = [t \in Tenants |-> 0]
    /\ health = [p \in Providers |-> Healthy]
    /\ thread = [r \in Threads |-> Idle]
    /\ clock = 0

Goto(r, state) == thread' = [thread EXCEPT ![r] = state]

\* complete returns or raises; the thread takes the next request.
Return(r) == Goto(r, Idle)

Available(p) == clock >= health[p].open_until

------------------------------------------------------------------------------
(* Admission *)

\* Mutant: the check leaves out the cost at hand.
ReservableAlready(tenant, cost) == spent[tenant] <= Budget

\* CostPolicy.reserve: it checks and reserves nothing.
Reservable(tenant, cost) == spent[tenant] + cost <= Budget

\* The token limit and the first budget check, with the largest answer.
Admit(r, tenant, model, size) ==
    /\ thread[r].at = "idle"
    /\ usage[tenant] <= MaxUsage
    /\ size <= MaxTokens
    /\ Reservable(tenant, size + MaxTokens)
    /\ Goto(r, [at |-> "admitted", tenant |-> tenant, model |-> model])
    /\ UNCHANGED <<spent, usage, health, clock>>

\* Mutant: providers are listed whatever their health.
CandidatesUnhealthy(model) ==
    {p \in Providers : model = NoModel \/ model \in ModelsOf[p]}

\* _candidate_providers
Candidates(model) ==
    {p \in Providers : Available(p) /\ (model = NoModel \/ model \in ModelsOf[p])}

Allowed(model) == model = NoModel \/ Allowlist = {} \/ model \in Allowlist

\* selected is the time at which the list of providers was made.
Select(r) ==
    LET q == thread[r] IN
    /\ q.at = "admitted"
    /\ Allowed(q.model)
    /\ Candidates(q.model) # {}
    /\ Goto(r, [at |-> "calling", tenant |-> q.tenant, attempt |-> 0,
                left |-> Candidates(q.model), selected |-> clock])
    /\ UNCHANGED <<spent, usage, health, clock>>

NoProvider(r) ==
    LET q == thread[r] IN
    /\ q.at = "admitted"
    /\ ~Allowed(q.model) \/ Candidates(q.model) = {}
    /\ Return(r) \* RuntimeError
    /\ UNCHANGED <<spent, usage, health, clock>>

------------------------------------------------------------------------------
(* One call of a provider *)

\* The provider the loop is at.
Current(r) == CHOOSE p \in thread[r].left : \A o \in thread[r].left : p <= o

\* Attempt number attempt at the first provider of left.
Call(r, left, attempt) ==
    Goto(r, [at |-> "calling", tenant |-> thread[r].tenant, left |-> left,
             attempt |-> attempt, selected |-> thread[r].selected])

\* Mutant: a provider that failed stays in the list.
RemainingAll(r) == thread[r].left

Remaining(r) == thread[r].left \ {Current(r)}

\* break: the next provider of the list, or "LLM provider unavailable".
NextProvider(r) ==
    IF Remaining(r) = {} THEN Return(r) ELSE Call(r, Remaining(r), 0)

\* The loop over attempts.
NextAttempt(r) ==
    IF thread[r].attempt = MaxRetries THEN NextProvider(r)
    ELSE Call(r, thread[r].left, thread[r].attempt + 1)

\* _record_failure
RecordFailure(p) ==
    /\ health[p].failures < MaxFailures
    /\ health' = [health EXCEPT ![p] =
          [failures |-> @.failures + 1,
           open_until |-> IF @.failures + 1 >= Threshold
                          THEN clock + Cooldown ELSE @.open_until]]

\* A 4xx other than 429: no retry.
ClientError(r) ==
    /\ thread[r].at = "calling"
    /\ RecordFailure(Current(r))
    /\ NextProvider(r)
    /\ UNCHANGED <<spent, usage, clock>>

\* A 5xx or 429: backoff and retry; the failure is not recorded.
ServerError(r) ==
    /\ thread[r].at = "calling"
    /\ NextAttempt(r)
    /\ UNCHANGED <<spent, usage, health, clock>>

\* The except clause for RuntimeError and its like, up to the end of _sleep.
Fail(r, reason) ==
    /\ RecordFailure(Current(r))
    /\ Goto(r, [at |-> "backoff", tenant |-> thread[r].tenant,
                attempt |-> thread[r].attempt, left |-> thread[r].left,
                selected |-> thread[r].selected, reason |-> reason])
    /\ UNCHANGED <<spent, usage, clock>>

\* Timeout, transport error, blocked redirect, malformed body.
CallError(r) ==
    /\ thread[r].at = "calling"
    /\ Fail(r, "error")

\* An exception that complete does not catch, as for an empty list of choices.
CallRaises(r) ==
    /\ thread[r].at = "calling"
    /\ Return(r)
    /\ UNCHANGED <<spent, usage, health, clock>>

\* After _sleep the circuit is looked at again.
EndBackoff(r) ==
    /\ thread[r].at = "backoff"
    /\ IF Available(Current(r)) THEN NextAttempt(r) ELSE NextProvider(r)
    /\ UNCHANGED <<spent, usage, health, clock>>

\* An answer with the cost its usage block reports, within the budget.
Answer(r, cost) ==
    /\ thread[r].at = "calling"
    /\ Reservable(thread[r].tenant, cost)
    /\ Goto(r, [at |-> "paying", tenant |-> thread[r].tenant, cost |-> cost,
                provider |-> Current(r)])
    /\ UNCHANGED <<spent, usage, health, clock>>

\* The budget error of the second check is a RuntimeError and caught as one
\* of the provider's failures.
AnswerOverBudget(r, cost) ==
    /\ thread[r].at = "calling"
    /\ ~Reservable(thread[r].tenant, cost)
    /\ Fail(r, "budget")

\* Mutant: the estimate is charged instead of the cost.
CommittedSumEstimate(q) == spent[q.tenant] + MaxTokens

CommittedSum(q) == spent[q.tenant] + q.cost

\* CostPolicy.commit
CommitRead(r) ==
    LET q == thread[r] IN
    /\ q.at = "paying"
    /\ Goto(r, [at |-> "storing", tenant |-> q.tenant, provider |-> q.provider,
                cost |-> q.cost, sum |-> CommittedSum(q)])
    /\ UNCHANGED <<spent, usage, health, clock>>

CommitStore(r) ==
    LET q == thread[r] IN
    /\ q.at = "storing"
    /\ spent' = [spent EXCEPT ![q.tenant] = q.sum]
    /\ Goto(r, [at |-> "paid", tenant |-> q.tenant, provider |-> q.provider,
                cost |-> q.cost])
    /\ UNCHANGED <<usage, health, clock>>

\* A new ProviderHealth for the provider.
Recovered(r) ==
    /\ thread[r].at = "paid"
    /\ health' = [health EXCEPT ![thread[r].provider] = Healthy]
    /\ Goto(r, [at |-> "logging", tenant |-> thread[r].tenant,
                cost |-> thread[r].cost])
    /\ UNCHANGED <<spent, usage, clock>>

\* The record is appended and returned.
Succeed(r) ==
    LET q == thread[r] IN
    /\ q.at = "logging"
    /\ usage' = [usage EXCEPT ![q.tenant] = @ + q.cost]
    /\ Return(r)
    /\ UNCHANGED <<spent, health, clock>>

------------------------------------------------------------------------------
Tick ==
    /\ clock < MaxClock
    /\ clock' = clock + 1
    /\ UNCHANGED <<spent, usage, health, thread>>

Start(r) ==
    \E t \in Tenants, m \in Models \cup {NoModel}, n \in Sizes : Admit(r, t, m, n)

Work(r) ==
    \/ Select(r) \/ NoProvider(r)
    \/ ClientError(r) \/ ServerError(r) \/ CallError(r) \/ CallRaises(r)
    \/ EndBackoff(r)
    \/ \E c \in Costs : Answer(r, c) \/ AnswerOverBudget(r, c)
    \/ CommitRead(r) \/ CommitStore(r) \/ Recovered(r) \/ Succeed(r)

Next == (\E r \in Threads : Start(r) \/ Work(r)) \/ Tick

\* A thread is scheduled and every call of a provider ends, by the timeouts
\* of SecureHTTPClient; nobody has to send requests.
Fairness == \A r \in Threads : WF_vars(Work(r))

Spec == Init /\ [][Next]_vars /\ Fairness

------------------------------------------------------------------------------
(* Properties *)

\* An open circuit keeps requests away: a provider is called while its
\* circuit is open only by requests that listed their providers no later than
\* the failure that opened it (complete does not look at the health again
\* when it moves on to the next provider of its list).
OpenCircuitOnlyStale ==
    \A r \in Threads :
        thread[r].at = "calling" /\ ~Available(Current(r)) =>
            thread[r].selected + Cooldown <= health[Current(r)].open_until

\* However often retries, fallbacks and other requests' failures alternate,
\* every request comes to an end.
EveryRequestEnds ==
    \A r \in Threads : thread[r].at # "idle" ~> thread[r].at = "idle"

\* Overspending by two requests at a time is bounded: reserve only compares and
\* commit comes later, so both may pass the check together, but a tenant exceeds
\* its budget by one answer at most, and one thread alone never does.  Three
\* threads may exceed it by more than one answer for each of the others: a lost
\* update of commit stores a sum that is too low and opens the budget again,
\* while another thread still holds a higher one.
OverspendBounded ==
    Cardinality(Threads) <= 2 =>
        \A t \in Tenants :
            \/ spent[t] <= Budget
            \/ /\ Cardinality(Threads) = 2
               /\ \E c \in Costs : spent[t] <= Budget + c

\* The two records of spending agree as far as the code lets them: what a
\* tenant is charged never exceeds what its usage log shows and the answers
\* that are being accounted for.  Commits that overlap charge too little, never
\* too much.
ChargedForUsage ==
    \A t \in Tenants :
        LET open == {r \in Threads : thread[r].at \in {"storing", "paid", "logging"}
                                       /\ thread[r].tenant = t}
        IN spent[t] <= usage[t] + MapThenSumSet(LAMBDA r : thread[r].cost, open)

\* "Budget failures fail closed" (docs/SECURITY_LLM_GATEWAY.md): once an
\* answer was refused for its cost, the request calls no provider again.
BudgetFailsClosed ==
    [][\A r \in Threads :
          thread[r].at = "backoff" /\ thread[r].reason = "budget"
          => thread'[r].at # "calling"
             \/ thread'[r] = thread[r]]_vars
=============================================================================
