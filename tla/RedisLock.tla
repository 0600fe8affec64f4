------------------------------ MODULE RedisLock ------------------------------
(***************************************************************************)
(* RedisDistributedLock (agi_platform/security.py): acquire, release and   *)
(* run_once on one lock name, by several clients on one Redis server.      *)
(*                                                                         *)
(* A command is one step at the server.  The client's socket timeout may   *)
(* give up on it: then acquire or release raises DependencyError, and the  *)
(* command is lost or still reaches the server later.                      *)
(***************************************************************************)
EXTENDS Naturals

CONSTANTS
    Clients,
    Free,      \* the key does not exist
    Ttl,       \* ttl_ms
    Timeout,   \* timeout_ms
    MaxRuns,   \* bound on the calls of run_once of a client
    MaxClock   \* bound on the clock; no call starts that could outlast it

ASSUME TimeAssumption ==
    Ttl \in Nat \ {0} /\ Timeout \in Nat /\ MaxRuns \in Nat /\ MaxClock \in Nat

VARIABLES
    lock,   \* the key: its value, and when it expires
    late,   \* commands whose client has given up on them
    client, \* where each client is
    runs,   \* calls of run_once each client has made
    clock

vars == <<lock, late, client, runs, clock>>

------------------------------------------------------------------------------
\* The value written by acquire: a fresh uuid for every call.
Owners == Clients \X (1..MaxRuns)
Owner(c) == <<c, runs[c]>>

ASSUME FreeAssumption == Free \notin Owners

Commands == [op: {"set", "del"}, owner: Owners]

ClientStates ==
         [at: {"idle"}]
    \cup [at: {"trying", "waiting"}, deadline: Nat]
    \cup [at: {"running", "releasing"}, expires: Nat]

\* What GET returns now.
Value == IF clock < lock.expires THEN lock.value ELSE Free

Goto(c, state) == client' = [client EXCEPT ![c] = state]
Done(c) == Goto(c, [at |-> "idle"])

Init ==
    /\ lock = [value |-> Free, expires |-> 0]
    /\ late = {}
    /\ client = [c \in Clients |-> [at |-> "idle"]]
    /\ runs = [c \in Clients |-> 0]
    /\ clock = 0

\* SET key owner NX PX ttl
SetNx(owner) ==
    lock' = IF Value = Free THEN [value |-> owner, expires |-> clock + Ttl]
            ELSE lock

\* Mutant: the key is deleted whoever owns it.
DelAny(owner) == lock' = [value |-> Free, expires |-> 0]

\* RELEASE_SCRIPT
DelIfOwner(owner) ==
    lock' = IF Value = owner THEN [value |-> Free, expires |-> 0] ELSE lock

------------------------------------------------------------------------------
(* acquire *)

Acquire(c) ==
    /\ client[c].at = "idle"
    /\ runs[c] < MaxRuns
    /\ clock + Timeout <= MaxClock
    /\ runs' = [runs EXCEPT ![c] = @ + 1]
    /\ Goto(c, [at |-> "trying", deadline |-> clock + Timeout])
    /\ UNCHANGED <<lock, late, clock>>

\* The key was free: acquire returns a handle and run_once calls fn.
TrySet(c) ==
    /\ client[c].at = "trying"
    /\ Value = Free
    /\ SetNx(Owner(c))
    /\ Goto(c, [at |-> "running", expires |-> clock + Ttl])
    /\ UNCHANGED <<late, runs, clock>>

TryBusy(c) ==
    /\ client[c].at = "trying"
    /\ Value # Free
    /\ Goto(c, [at |-> "waiting", deadline |-> client[c].deadline])
    /\ UNCHANGED <<lock, late, runs, clock>>

\* ConflictError
TimedOut(c) ==
    /\ client[c].at = "waiting"
    /\ clock >= client[c].deadline
    /\ Done(c)
    /\ UNCHANGED <<lock, late, runs, clock>>

\* Mutant: the deadline is computed inside the loop.
RetryNewDeadline(c) ==
    /\ client[c].at = "waiting"
    /\ clock <= client[c].deadline
    /\ Goto(c, [at |-> "trying", deadline |-> clock + Timeout + 1])
    /\ UNCHANGED <<lock, late, runs, clock>>

Retry(c) ==
    /\ client[c].at = "waiting"
    /\ clock < client[c].deadline
    /\ Goto(c, [at |-> "trying", deadline |-> client[c].deadline])
    /\ UNCHANGED <<lock, late, runs, clock>>

\* DependencyError: the SET is lost or comes late.
AcquireError(c) ==
    /\ client[c].at = "trying"
    /\ late' \in {late, late \cup {[op |-> "set", owner |-> Owner(c)]}}
    /\ Done(c)
    /\ UNCHANGED <<lock, runs, clock>>

------------------------------------------------------------------------------
(* run_once and release *)

\* fn returns or raises.
FnEnds(c) ==
    /\ client[c].at = "running"
    /\ Goto(c, [client[c] EXCEPT !.at = "releasing"])
    /\ UNCHANGED <<lock, late, runs, clock>>

Release(c) ==
    /\ client[c].at = "releasing"
    /\ DelIfOwner(Owner(c))
    /\ Done(c)
    /\ UNCHANGED <<late, runs, clock>>

\* DependencyError: the script is lost or runs late.
ReleaseError(c) ==
    /\ client[c].at = "releasing"
    /\ late' \in {late, late \cup {[op |-> "del", owner |-> Owner(c)]}}
    /\ Done(c)
    /\ UNCHANGED <<lock, runs, clock>>

\* The process of the client dies.
Crash(c) ==
    /\ client[c].at # "idle"
    /\ Done(c)
    /\ UNCHANGED <<lock, late, runs, clock>>

------------------------------------------------------------------------------
(* The server *)

Arrive(m) ==
    /\ m \in late
    /\ late' = late \ {m}
    /\ IF m.op = "set" THEN SetNx(m.owner) ELSE DelIfOwner(m.owner)
    /\ UNCHANGED <<client, runs, clock>>

Tick ==
    /\ clock < MaxClock
    /\ clock' = clock + 1
    /\ UNCHANGED <<lock, late, client, runs>>

\* The loop of acquire.
Try(c) ==
    TrySet(c) \/ TryBusy(c) \/ TimedOut(c) \/ Retry(c) \/ AcquireError(c)

Work(c) ==
    \/ Try(c)
    \/ FnEnds(c) \/ Release(c) \/ ReleaseError(c) \/ Crash(c)

Next ==
    \/ \E c \in Clients : Acquire(c) \/ Work(c)
    \/ \E m \in Commands : Arrive(m)
    \/ Tick

\* Time passes, and a client that is waiting for the lock is scheduled: each
\* command ends, at the latest with the socket timeout.
Fairness == WF_vars(Tick) /\ \A c \in Clients : WF_vars(Try(c))

Spec == Init /\ [][Next]_vars /\ Fairness

------------------------------------------------------------------------------
(* Properties *)

LockTypeOK ==
    /\ lock \in [value: Owners \cup {Free}, expires: Nat]
    /\ late \subseteq Commands
    /\ client \in [Clients -> ClientStates]
    /\ runs \in [Clients -> 0..MaxRuns]
    /\ clock \in Nat

\* A client that is inside fn, or about to release, owns the key until its
\* ttl has passed: no late SET or release of another client, or of an earlier
\* call of its own, takes the lock from it.
HolderKeepsLock ==
    \A c \in Clients :
        client[c].at \in {"running", "releasing"} /\ clock < client[c].expires
        => Value = Owner(c)

\* However often the key changes hands, a client that waits for the lock gets
\* it or raises: acquire ends.
AcquireEnds ==
    \A c \in Clients :
        client[c].at \in {"trying", "waiting"} ~>
            client[c].at \notin {"trying", "waiting"}
=============================================================================
