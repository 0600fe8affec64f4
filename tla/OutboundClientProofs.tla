------------------------ MODULE OutboundClientProofs ------------------------
(***************************************************************************)
(* Theorems about OutboundClient, for any URLs, limits and timeouts.       *)
(***************************************************************************)
EXTENDS OutboundClient, TLAPS

\* The URL of the next request has been validated.
UrlValidated == call.at \in {"loop", "waiting"} => call.url \notin Forbidden

\* The counter accounts for the requests before and after they are sent.
Counted ==
    /\ call.at = "idle" => Len(sent) = 0
    /\ call.at = "loop" => Len(sent) = call.redirects
    /\ call.at \in {"waiting", "returned"} => Len(sent) = call.redirects + 1
    /\ Len(sent) <= MaxRedirects + 1

\* There is one deadline for all hops, and the open hop began before it.
OnTime ==
    /\ call.at \in {"loop", "waiting"} => call.deadline = call.started + TotalTimeout
    /\ call.at = "waiting" =>
          call.hop <= call.deadline /\ clock <= call.hop + HopTime

OutboundInv ==
    /\ OutboundTypeOK
    /\ UrlValidated /\ NothingForbiddenSent
    /\ Counted
    /\ OnTime /\ ReturnedInTime

LEMMA InitInv == Init => OutboundInv
  <1> SUFFICES ASSUME Init PROVE OutboundInv
    OBVIOUS
  <1> USE DEF Init
  <1>1. OutboundTypeOK
    BY NumberAssumption DEF OutboundTypeOK, CallStates
  <1>2. UrlValidated /\ NothingForbiddenSent
    BY DEF UrlValidated, NothingForbiddenSent
  <1>3. Counted
    BY NumberAssumption DEF Counted
  <1>4. OnTime /\ ReturnedInTime
    BY DEF OnTime, ReturnedInTime
  <1> QED BY <1>1, <1>2, <1>3, <1>4 DEF OutboundInv

\* A raised call keeps what was sent.
LEMMA RaiseInv ==
    ASSUME OutboundInv, Raise, UNCHANGED <<sent, blocked, clock>>
    PROVE  OutboundInv'
  <1> USE DEF OutboundInv, Raise
  <1>1. OutboundTypeOK'
    BY DEF OutboundTypeOK, CallStates
  <1>2. UrlValidated' /\ NothingForbiddenSent'
    BY DEF UrlValidated, NothingForbiddenSent
  <1>3. Counted'
    BY DEF Counted
  <1>4. OnTime' /\ ReturnedInTime'
    BY DEF OnTime, ReturnedInTime
  <1> QED BY <1>1, <1>2, <1>3, <1>4

LEMMA RequestInv ==
    ASSUME OutboundInv, NEW url \in Urls, Request(url)
    PROVE  OutboundInv'
  <1>1. CASE ~Allowed(url)
    BY <1>1, RaiseInv DEF Request
  <1>2. CASE Allowed(url)
    <2>1. /\ call.at = "idle"
          /\ call' = [at |-> "loop", url |-> url, redirects |-> 0,
                      deadline |-> clock + TotalTimeout, started |-> clock]
          /\ UNCHANGED <<sent, blocked, clock>>
      BY <1>2 DEF Request
    <2> USE DEF OutboundInv
    <2>2. OutboundTypeOK'
      BY <2>1, NumberAssumption DEF OutboundTypeOK, CallStates
    <2>3. UrlValidated' /\ NothingForbiddenSent'
      BY <1>2, <2>1 DEF UrlValidated, NothingForbiddenSent, Allowed
    <2>4. Counted'
      BY <2>1 DEF Counted
    <2>5. OnTime' /\ ReturnedInTime'
      BY <2>1 DEF OnTime, ReturnedInTime
    <2> QED BY <2>2, <2>3, <2>4, <2>5
  <1> QED BY <1>1, <1>2

\* The request that is sent is to the validated URL, within the deadline.
LEMMA SendInv ==
    ASSUME OutboundInv, Send
    PROVE  OutboundInv'
  <1> USE DEF OutboundInv
  <1>1. /\ call.at = "loop" /\ clock <= call.deadline
        /\ sent' = Append(sent, call.url)
        /\ call' = [at |-> "waiting", url |-> call.url, hop |-> clock,
                    redirects |-> call.redirects, deadline |-> call.deadline,
                    started |-> call.started]
        /\ UNCHANGED <<blocked, clock>>
    BY DEF Send
  <1>2. /\ call.url \in Urls /\ call.redirects \in 0..MaxRedirects
        /\ call.deadline \in Nat /\ call.started \in Nat
    BY <1>1 DEF OutboundTypeOK, CallStates
  <1>3. /\ sent' \in Seq(Urls)
        /\ Len(sent') = Len(sent) + 1
        /\ sent'[Len(sent) + 1] = call.url
        /\ \A i \in 1..Len(sent) : sent'[i] = sent[i]
        /\ DOMAIN sent' = 1..(Len(sent) + 1) /\ DOMAIN sent = 1..Len(sent)
        /\ Len(sent) \in Nat
    BY <1>1, <1>2 DEF OutboundTypeOK
  <1>4. OutboundTypeOK'
    BY <1>1, <1>2, <1>3 DEF OutboundTypeOK, CallStates
  <1>5. UrlValidated' /\ NothingForbiddenSent'
    <2>1. call.url \notin Forbidden
      BY <1>1 DEF UrlValidated
    <2>2. UrlValidated'
      BY <1>1, <2>1 DEF UrlValidated
    <2>3. ASSUME NEW i \in DOMAIN sent' PROVE sent'[i] \notin Forbidden
      <3>1. i \in 1..Len(sent) \/ i = Len(sent) + 1
        BY <1>3
      <3> QED BY <3>1, <2>1, <1>3 DEF NothingForbiddenSent
    <2> QED BY <2>2, <2>3 DEF NothingForbiddenSent
  <1>6. Counted'
    BY <1>1, <1>2, <1>3, NumberAssumption DEF Counted
  <1>7. OnTime' /\ ReturnedInTime'
    BY <1>1, <1>2, NumberAssumption DEF OnTime, ReturnedInTime, OutboundTypeOK
  <1> QED BY <1>4, <1>5, <1>6, <1>7

\* A redirect is counted, its destination validated, its deadline the old one.
LEMMA RedirectInv ==
    ASSUME OutboundInv, NEW location \in Urls, Redirect(location)
    PROVE  OutboundInv'
  <1>1. CASE LimitExceeded \/ ~DestinationAllowed(location)
    BY <1>1, RaiseInv DEF Redirect
  <1>2. CASE ~LimitExceeded /\ DestinationAllowed(location)
    <2> USE DEF OutboundInv
    <2>1. /\ call.at = "waiting"
          /\ call' = [at |-> "loop", url |-> location,
                      redirects |-> call.redirects + 1,
                      deadline |-> call.deadline, started |-> call.started]
          /\ UNCHANGED <<sent, blocked, clock>>
      BY <1>2 DEF Redirect, Deadline
    <2>2. /\ call.redirects \in 0..MaxRedirects
          /\ call.deadline \in Nat /\ call.started \in Nat
      BY <2>1 DEF OutboundTypeOK, CallStates
    <2>3. call.redirects + 1 \in 0..MaxRedirects
      BY <1>2, <2>2, NumberAssumption DEF LimitExceeded
    <2>4. OutboundTypeOK'
      BY <2>1, <2>2, <2>3 DEF OutboundTypeOK, CallStates
    <2>5. UrlValidated' /\ NothingForbiddenSent'
      BY <1>2, <2>1 DEF DestinationAllowed, Allowed, UrlValidated,
                        NothingForbiddenSent
    <2>6. Counted'
      BY <2>1, <2>2 DEF Counted
    <2>7. OnTime' /\ ReturnedInTime'
      BY <2>1 DEF OnTime, ReturnedInTime
    <2> QED BY <2>4, <2>5, <2>6, <2>7
  <1> QED BY <1>1, <1>2

\* The open hop began before the deadline and lasts at most HopTime.
LEMMA GoodResponseInv ==
    ASSUME OutboundInv, GoodResponse
    PROVE  OutboundInv'
  <1> USE DEF OutboundInv
  <1>1. /\ call.at = "waiting"
        /\ call' = [at |-> "returned", redirects |-> call.redirects,
                    runtime |-> clock - call.started]
        /\ UNCHANGED <<sent, blocked, clock>>
    BY DEF GoodResponse
  <1>2. /\ call.redirects \in 0..MaxRedirects /\ clock \in Nat
        /\ call.deadline \in Nat /\ call.started \in Nat /\ call.hop \in Nat
    BY <1>1 DEF OutboundTypeOK, CallStates
  <1>3. OutboundTypeOK'
    BY <1>1, <1>2 DEF OutboundTypeOK, CallStates
  <1>4. UrlValidated' /\ NothingForbiddenSent'
    BY <1>1 DEF UrlValidated, NothingForbiddenSent
  <1>5. Counted'
    BY <1>1 DEF Counted
  <1>6. OnTime' /\ ReturnedInTime'
    BY <1>1, <1>2, NumberAssumption DEF OnTime, ReturnedInTime
  <1> QED BY <1>3, <1>4, <1>5, <1>6

LEMMA TickInv ==
    ASSUME OutboundInv, Tick
    PROVE  OutboundInv'
  <1> USE DEF OutboundInv, Tick
  <1>1. OutboundTypeOK'
    BY DEF OutboundTypeOK
  <1>2. UrlValidated' /\ NothingForbiddenSent' /\ Counted' /\ ReturnedInTime'
    BY DEF UrlValidated, NothingForbiddenSent, Counted, ReturnedInTime
  <1>3. OnTime'
    <2>1. CASE call.at = "waiting"
      <3>1. call.hop \in Nat /\ clock \in Nat
        BY <2>1 DEF OutboundTypeOK, CallStates
      <3> QED BY <2>1, <3>1, NumberAssumption DEF OnTime
    <2>2. CASE call.at # "waiting"
      BY <2>2 DEF OnTime
    <2> QED BY <2>1, <2>2
  <1> QED BY <1>1, <1>2, <1>3

\* The call itself is left alone.
LEMMA IdleInv ==
    ASSUME OutboundInv, UNCHANGED <<call, sent, clock>>, blocked' \in SUBSET Urls
    PROVE  OutboundInv'
  BY DEF OutboundInv, OutboundTypeOK, UrlValidated, NothingForbiddenSent, Counted,
         OnTime, ReturnedInTime

LEMMA NextInv == OutboundInv /\ [Next]_vars => OutboundInv'
  <1> SUFFICES ASSUME OutboundInv, [Next]_vars PROVE OutboundInv'
    OBVIOUS
  <1>1. CASE UNCHANGED vars
    BY <1>1, IdleInv DEF vars, OutboundInv, OutboundTypeOK
  <1>2. ASSUME NEW url \in Urls, Request(url) PROVE OutboundInv'
    BY <1>2, RequestInv
  <1>3. ASSUME NEW url \in Urls, Redirect(url) PROVE OutboundInv'
    BY <1>3, RedirectInv
  <1>4. CASE Send
    BY <1>4, SendInv
  <1>5. CASE TimedOut
    BY <1>5, RaiseInv DEF TimedOut
  <1>6. CASE BadResponse
    BY <1>6, RaiseInv DEF BadResponse
  <1>7. CASE GoodResponse
    BY <1>7, GoodResponseInv
  <1>8. CASE Resolve
    BY <1>8, IdleInv DEF Resolve
  <1>9. CASE Tick
    BY <1>9, TickInv
  <1> QED BY <1>1, <1>2, <1>3, <1>4, <1>5, <1>6, <1>7, <1>8, <1>9 DEF Next, Step

\* Call, log and environment are well typed; no counter passes its limit.
THEOREM OutboundTypeCorrect == Spec => []OutboundTypeOK
  <1>1. OutboundInv => OutboundTypeOK
    BY DEF OutboundInv
  <1> QED BY <1>1, InitInv, NextInv, PTL DEF Spec

\* No chain of redirects makes the client request a forbidden URL.
THEOREM NothingForbiddenEverSent == Spec => []NothingForbiddenSent
  <1>1. OutboundInv => NothingForbiddenSent
    BY DEF OutboundInv
  <1> QED BY <1>1, InitInv, NextInv, PTL DEF Spec

\* A call sends at most max_redirects + 1 requests and counts them all.
THEOREM RequestsAlwaysBounded == Spec => []RequestsBounded
  <1>1. OutboundInv => RequestsBounded
    BY DEF OutboundInv, Counted, RequestsBounded
  <1> QED BY <1>1, InitInv, NextInv, PTL DEF Spec

\* A response comes at most one hop after total_timeout.
THEOREM AlwaysReturnedInTime == Spec => []ReturnedInTime
  <1>1. OutboundInv => ReturnedInTime
    BY DEF OutboundInv
  <1> QED BY <1>1, InitInv, NextInv, PTL DEF Spec
=============================================================================
