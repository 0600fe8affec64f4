--------------------------- MODULE OutboundClient ---------------------------
(***************************************************************************)
(* SecureHTTPClient.request (agi_platform/outbound.py), one call: validate *)
(* the URL, send, follow redirects by hand, check the response.  Through   *)
(* it the LLM gateway, research and GitHub clients reach the network.      *)
(*                                                                         *)
(* A URL stands for what validate_outbound_url tells apart; the verdict on *)
(* a host may change between two calls, as its DNS records do.             *)
(***************************************************************************)
EXTENDS Integers, Sequences

CONSTANTS
    Urls,
    Forbidden,    \* URLs whose scheme or host the policy refuses
    MaxRedirects, \* max_redirects
    TotalTimeout, \* total_timeout
    HopTime,      \* bound: how long a server takes to answer a request
    MaxClock      \* bound on the clock

ASSUME UrlAssumption == Forbidden \subseteq Urls
ASSUME NumberAssumption ==
    {MaxRedirects, TotalTimeout, HopTime, MaxClock} \subseteq Nat

VARIABLES
    call,    \* where the call is
    sent,    \* the URLs requested, in order
    blocked, \* hosts that resolve to a blocked network at the moment
    clock

vars == <<call, sent, blocked, clock>>

------------------------------------------------------------------------------
Init ==
    /\ call = [at |-> "idle"]
    /\ sent = <<>>
    /\ blocked \in SUBSET Urls
    /\ clock = 0

\* validate_outbound_url
Allowed(url) == url \notin Forbidden /\ url \notin blocked

Raise == call' = [at |-> "raised"]

Request(url) ==
    /\ call.at = "idle"
    /\ IF Allowed(url)
       THEN call' = [at |-> "loop", url |-> url, redirects |-> 0,
                     deadline |-> clock + TotalTimeout, started |-> clock]
       ELSE Raise
    /\ UNCHANGED <<sent, blocked, clock>>

\* The head of the loop: the request goes out unless the deadline has passed.
Send ==
    /\ call.at = "loop"
    /\ clock <= call.deadline
    /\ sent' = Append(sent, call.url)
    /\ call' = [at |-> "waiting", url |-> call.url, hop |-> clock,
                redirects |-> call.redirects, deadline |-> call.deadline,
                started |-> call.started]
    /\ UNCHANGED <<blocked, clock>>

TimedOut ==
    /\ call.at = "loop"
    /\ clock > call.deadline
    /\ Raise \* TimeoutException
    /\ UNCHANGED <<sent, blocked, clock>>

\* Mutant: one redirect more than the limit.
LimitExceededPast == call.redirects > MaxRedirects

LimitExceeded == call.redirects + 1 > MaxRedirects

\* Mutant: the destination of a redirect is not validated.
DestinationAllowedAny(location) == TRUE

DestinationAllowed(location) == Allowed(location)

\* Mutant: every hop has the whole time.
DeadlineRenewed == clock + TotalTimeout

Deadline == call.deadline

\* A redirect: the limit, then the destination.
Redirect(location) ==
    /\ call.at = "waiting"
    /\ IF LimitExceeded \/ ~DestinationAllowed(location)
       THEN Raise
       ELSE call' = [at |-> "loop", url |-> location,
                     redirects |-> call.redirects + 1, deadline |-> Deadline,
                     started |-> call.started]
    /\ UNCHANGED <<sent, blocked, clock>>

\* No location, wrong content type, too long, or a failure of the transport.
BadResponse ==
    /\ call.at = "waiting"
    /\ Raise
    /\ UNCHANGED <<sent, blocked, clock>>

GoodResponse ==
    /\ call.at = "waiting"
    /\ call' = [at |-> "returned", redirects |-> call.redirects,
                runtime |-> clock - call.started]
    /\ UNCHANGED <<sent, blocked, clock>>

------------------------------------------------------------------------------
(* The environment *)

Resolve ==
    /\ call.at \in {"loop", "waiting"}
    /\ blocked' \in SUBSET Urls
    /\ UNCHANGED <<call, sent, clock>>

\* The read timeout holds between two reads; that a whole answer takes no more
\* than HopTime is an assumption about servers.
Tick ==
    /\ clock < MaxClock
    /\ call.at = "waiting" => clock < call.hop + HopTime
    /\ clock' = clock + 1
    /\ UNCHANGED <<call, sent, blocked>>

Step ==
    \/ \E u \in Urls : Request(u) \/ Redirect(u)
    \/ Send \/ TimedOut \/ BadResponse \/ GoodResponse

Next == Step \/ Resolve \/ Tick

Spec == Init /\ [][Next]_vars

------------------------------------------------------------------------------
(* Properties *)

CallStates ==
    [at: {"idle", "raised"}]
    \cup [at: {"loop"}, url: Urls, redirects: 0..MaxRedirects, deadline: Nat,
          started: Nat]
    \cup [at: {"waiting"}, url: Urls, redirects: 0..MaxRedirects, deadline: Nat,
          started: Nat, hop: Nat]
    \cup [at: {"returned"}, redirects: 0..MaxRedirects, runtime: Int]

OutboundTypeOK ==
    /\ call \in CallStates
    /\ sent \in Seq(Urls)
    /\ blocked \in SUBSET Urls
    /\ clock \in Nat

\* Whatever chain of redirects servers send, no request goes to a URL the
\* policy forbids.
NothingForbiddenSent == \A i \in DOMAIN sent : sent[i] \notin Forbidden

\* A call sends at most max_redirects + 1 requests, and the counter accounts
\* for all of them, also when the servers redirect in a circle.
RequestsBounded ==
    /\ Len(sent) <= MaxRedirects + 1
    /\ call.at \in {"waiting", "returned"} => Len(sent) = call.redirects + 1

\* The total timeout is looked at between hops only, but it is one for all of
\* them: however servers redirect, a response is returned no later than one hop
\* after it.
ReturnedInTime == call.at = "returned" => call.runtime <= TotalTimeout + HopTime
=============================================================================
