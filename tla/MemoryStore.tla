----------------------------- MODULE MemoryStore -----------------------------
(***************************************************************************)
(* The durable memory store (agi_platform/memory/core.py) over its SQL     *)
(* tables (agi_platform/database.py), called by concurrent request         *)
(* sessions.                                                               *)
(*                                                                         *)
(* A call opens one SQLAlchemy session: it SELECTs, decides, and flushes   *)
(* and commits what it changed.  Nothing locks a row between the SELECT    *)
(* and the flush, so every call is a read action, after which other        *)
(* sessions run, and a commit action.  The writes of one transaction take  *)
(* the row lock (or the key entry) with their first statement and keep it  *)
(* until commit, so flush and commit are one step.  A failed constraint    *)
(* raises, and Database.session rolls the whole transaction back.          *)
(*                                                                         *)
(* Left out: provenance, source, confidence, retention and metadata are    *)
(* written once by store and copied; timestamps; search, consolidate and   *)
(* records.values, which only read.                                        *)
(***************************************************************************)
EXTENDS Naturals, Sequences

CONSTANTS
    Sessions,   \* request threads of every API process on the database
    Degraded,   \* sessions whose process has qdrant_available = False
    Tenants,
    Kinds,      \* (namespace, memory_type) pairs
    Contents,
    MaxVersion, \* bound: no update or rollback starts at this version
    MaxWrites   \* bound: "memory.write" audit events per memory

ASSUME DegradedAssumption == Degraded \subseteq Sessions
ASSUME BoundAssumption == MaxVersion \in Nat /\ MaxWrites \in Nat

VARIABLES
    tenants,    \* primary keys of table tenants
    memories,   \* table memories: a function whose domain is the stored ids
    versions,   \* table memory_versions, a set of rows
    evidence,   \* number of memory_evidence rows of each memory
    writes,     \* number of "memory.write" audit rows, by qdrant_available
    changes,    \* "memory.update" and "memory.rollback" audit rows, in
                \* the order they were committed
    session     \* where each request session is, and what it has read

tables == <<tenants, memories, versions, evidence, writes, changes>>
vars == <<tenants, memories, versions, evidence, writes, changes, session>>

------------------------------------------------------------------------------
(* Rows and session states *)

\* The primary key of a memory: the SHA-256 of tenant, namespace, type and
\* content, taken as collision free.  It names the content FIRST stored.
Ids == Tenants \X Kinds \X Contents
Digest(t, k, c) == <<t, k, c>>
TenantOf(id) == id[1]
FirstContent(id) == id[3]

MemoryRows == [version: Nat, content: Contents, embedded: BOOLEAN]
VersionRows == [id: Ids, version: Nat, content: Contents]
AuditRows ==
         [action: {"update"}, version: Nat]
    \cup [action: {"rollback"}, to_version: Nat]

SessionStates ==
         [at: {"idle"}, raised: BOOLEAN]   \* raised: the last call raised
    \cup [at: {"add_tenant", "get", "insert", "touch"}, id: Ids]
    \cup [at: {"update"}, id: Ids, content: Contents,
          seen: Nat, loaded: Contents]
    \cup [at: {"find"}, id: Ids, to: Nat, seen: Nat, loaded: Contents]
    \cup [at: {"rollback"}, id: Ids, to: Nat, content: Contents,
          seen: Nat, loaded: Contents]

Stored(id) == id \in DOMAIN memories
HasVersion(id, v) == \E r \in versions : r.id = id /\ r.version = v

Goto(s, state) == session' = [session EXCEPT ![s] = state]
Done(s) == Goto(s, [at |-> "idle", raised |-> FALSE])

\* The call raises an exception, named at each use; its session is rolled
\* back and closed (Database.session).
Raise(s) == Goto(s, [at |-> "idle", raised |-> TRUE]) /\ UNCHANGED tables

Idle(s) == session[s].at = "idle"

Init ==
    /\ tenants = {}
    /\ memories = [id \in {} |-> 0]
    /\ versions = {}
    /\ evidence = [id \in Ids |-> 0]
    /\ writes = [id \in Ids |-> [available |-> 0, degraded |-> 0]]
    /\ changes = [id \in Ids |-> <<>>]
    /\ session = [s \in Sessions |-> [at |-> "idle", raised |-> FALSE]]

------------------------------------------------------------------------------
(* store *)

\* Database.ensure_tenant, in a transaction of its own: the tenant is looked
\* up, and added when it is not there.
EnsureTenant(s, t, k, c) ==
    LET id == Digest(t, k, c) IN
    /\ Idle(s)
    /\ writes[id].available + writes[id].degraded < MaxWrites
    /\ Goto(s, [at |-> IF t \in tenants THEN "get" ELSE "add_tenant",
                id |-> id])
    /\ UNCHANGED tables

\* Mutant: the tenant row is keyed by the memory.
AddTenantByMemory(s) ==
    /\ session[s].at = "add_tenant"
    /\ tenants' = tenants \cup {session[s].id}
    /\ Goto(s, [at |-> "get", id |-> session[s].id])
    /\ UNCHANGED <<memories, versions, evidence, writes, changes>>

\* Two first requests of a tenant may both find it absent; the primary key
\* lets one of them in.
AddTenant(s) ==
    /\ session[s].at = "add_tenant"
    /\ TenantOf(session[s].id) \notin tenants
    /\ tenants' = tenants \cup {TenantOf(session[s].id)}
    /\ Goto(s, [at |-> "get", id |-> session[s].id])
    /\ UNCHANGED <<memories, versions, evidence, writes, changes>>

AddTenantConflict(s) ==
    /\ session[s].at = "add_tenant"
    /\ TenantOf(session[s].id) \in tenants
    /\ Raise(s) \* IntegrityError

StoreRead(s) ==
    /\ session[s].at = "get"
    /\ Goto(s, [at |-> IF Stored(session[s].id) THEN "touch" ELSE "insert",
                id |-> session[s].id])
    /\ UNCHANGED tables

\* Mutant: the audit event always reports Qdrant as available.
AuditWriteAvailable(s, id) ==
    writes' = [writes EXCEPT ![id].available = @ + 1]

AuditWrite(s, id) ==
    writes' = IF s \in Degraded
              THEN [writes EXCEPT ![id].degraded = @ + 1]
              ELSE [writes EXCEPT ![id].available = @ + 1]

PutRow(id, row) ==
    memories' = [i \in DOMAIN memories \cup {id} |->
                    IF i = id THEN row ELSE memories[i]]

\* Mutant: session.merge instead of session.add, so a second first store
\* overwrites the row.
StoreMerge(s) ==
    LET id == session[s].id IN
    /\ session[s].at = "insert"
    /\ PutRow(id, [version |-> 1, content |-> FirstContent(id),
                   embedded |-> s \notin Degraded])
    /\ versions' = versions \cup
           {[id |-> id, version |-> 1, content |-> FirstContent(id)]}
    /\ evidence' = [evidence EXCEPT ![id] = 1]
    /\ AuditWrite(s, id)
    /\ Done(s)
    /\ UNCHANGED <<tenants, changes>>

StoreInsert(s) ==
    LET id == session[s].id IN
    /\ session[s].at = "insert"
    /\ ~Stored(id)
    /\ ~HasVersion(id, 1)
    /\ PutRow(id, [version |-> 1, content |-> FirstContent(id),
                   embedded |-> s \notin Degraded])
    /\ versions' = versions \cup
           {[id |-> id, version |-> 1, content |-> FirstContent(id)]}
    /\ evidence' = [evidence EXCEPT ![id] = @ + 1]
    /\ AuditWrite(s, id)
    /\ Done(s)
    /\ UNCHANGED <<tenants, changes>>

StoreConflict(s) ==
    /\ session[s].at = "insert"
    /\ Stored(session[s].id) \/ HasVersion(session[s].id, 1)
    /\ Raise(s) \* IntegrityError

\* Mutant: the evidence row is added outside "if row is None".
StoreTouchWithEvidence(s) ==
    /\ session[s].at = "touch"
    /\ AuditWrite(s, session[s].id)
    /\ evidence' = [evidence EXCEPT ![session[s].id] = @ + 1]
    /\ Done(s)
    /\ UNCHANGED <<tenants, memories, versions, changes>>

\* The memory was there: nothing but the audit event is written.
StoreTouch(s) ==
    /\ session[s].at = "touch"
    /\ AuditWrite(s, session[s].id)
    /\ Done(s)
    /\ UNCHANGED <<tenants, memories, versions, evidence, changes>>

------------------------------------------------------------------------------
(* update and rollback *)

Visible(t, id) == Stored(id) /\ TenantOf(id) = t

UpdateRead(s, t, id, c, expected_version) ==
    /\ Idle(s)
    /\ Visible(t, id)
    /\ memories[id].version = expected_version
    /\ memories[id].version < MaxVersion
    /\ Goto(s, [at |-> "update", id |-> id, content |-> c,
                seen |-> memories[id].version,
                loaded |-> memories[id].content])
    /\ UNCHANGED tables

UpdateStale(s, t, id, expected_version) ==
    /\ Idle(s)
    /\ Visible(t, id)
    /\ memories[id].version # expected_version
    /\ Raise(s) \* OptimisticConcurrencyError

\* update and rollback alike: no such row, or another tenant's.
NotFound(s, t, id) ==
    /\ Idle(s)
    /\ ~Visible(t, id)
    /\ Raise(s) \* KeyError

\* The UPDATE the ORM emits: it names the row by primary key alone, writes
\* the version computed from the one that was read, and writes the content
\* only when it differs from the one that was loaded.
Flushed(id, new, loaded, version) ==
    [memories[id] EXCEPT !.version = version,
                         !.content = IF new = loaded THEN @ ELSE new]

\* Mutant: no unique constraint on the version rows.
CommitChangeNotUnique(s, event) ==
    LET q == session[s]
        next == q.seen + 1
    IN
    /\ Stored(q.id)
    /\ PutRow(q.id, Flushed(q.id, q.content, q.loaded, next))
    /\ versions' = versions \cup
           {[id |-> q.id, version |-> next, content |-> q.content]}
    /\ changes' = [changes EXCEPT ![q.id] = Append(@, event)]
    /\ Done(s)
    /\ UNCHANGED <<tenants, evidence, writes>>

\* Mutant: an UPDATE that matches no row goes unnoticed.
CommitChangeUncounted(s, event) ==
    LET q == session[s]
        next == q.seen + 1
    IN
    /\ ~HasVersion(q.id, next)
    /\ IF Stored(q.id)
       THEN PutRow(q.id, Flushed(q.id, q.content, q.loaded, next))
       ELSE UNCHANGED memories
    /\ versions' = versions \cup
           {[id |-> q.id, version |-> next, content |-> q.content]}
    /\ changes' = [changes EXCEPT ![q.id] = Append(@, event)]
    /\ Done(s)
    /\ UNCHANGED <<tenants, evidence, writes>>

\* One transaction: the memory row, its version row and the audit event.
CommitChange(s, event) ==
    LET q == session[s]
        next == q.seen + 1
    IN
    /\ Stored(q.id)
    /\ ~HasVersion(q.id, next)
    /\ PutRow(q.id, Flushed(q.id, q.content, q.loaded, next))
    /\ versions' = versions \cup
           {[id |-> q.id, version |-> next, content |-> q.content]}
    /\ changes' = [changes EXCEPT ![q.id] = Append(@, event)]
    /\ Done(s)
    /\ UNCHANGED <<tenants, evidence, writes>>

UpdateCommit(s) ==
    /\ session[s].at = "update"
    /\ CommitChange(s, [action |-> "update", version |-> session[s].seen + 1])

RollbackRead(s, t, id, version) ==
    /\ Idle(s)
    /\ Visible(t, id)
    /\ memories[id].version < MaxVersion
    /\ Goto(s, [at |-> "find", id |-> id, to |-> version,
                seen |-> memories[id].version,
                loaded |-> memories[id].content])
    /\ UNCHANGED tables

\* Mutant: the SELECT of the target does not filter on its version.
RollbackFindAny(s) ==
    LET q == session[s] IN
    /\ q.at = "find"
    /\ \E r \in versions :
          /\ r.id = q.id
          /\ Goto(s, [at |-> "rollback", id |-> q.id, to |-> q.to,
                      content |-> r.content,
                      seen |-> q.seen, loaded |-> q.loaded])
    /\ UNCHANGED tables

\* The second SELECT of rollback: the version row to return to.
RollbackFind(s) ==
    LET q == session[s] IN
    /\ q.at = "find"
    /\ \E r \in versions :
          /\ r.id = q.id /\ r.version = q.to
          /\ Goto(s, [at |-> "rollback", id |-> q.id, to |-> q.to,
                      content |-> r.content,
                      seen |-> q.seen, loaded |-> q.loaded])
    /\ UNCHANGED tables

RollbackNotFound(s) ==
    /\ session[s].at = "find"
    /\ ~HasVersion(session[s].id, session[s].to)
    /\ Raise(s) \* KeyError

RollbackCommit(s) ==
    /\ session[s].at = "rollback"
    /\ CommitChange(s, [action |-> "rollback", to_version |-> session[s].to])

\* Mutant: the constraint is on the version that was read.
ChangeConflictOnSeen(s) ==
    /\ session[s].at \in {"update", "rollback"}
    /\ Stored(session[s].id)
    /\ HasVersion(session[s].id, session[s].seen)
    /\ Raise(s) \* IntegrityError

\* UniqueConstraint(tenant_id, memory_id, version): the version row is taken.
ChangeConflict(s) ==
    /\ session[s].at \in {"update", "rollback"}
    /\ Stored(session[s].id)
    /\ HasVersion(session[s].id, session[s].seen + 1)
    /\ Raise(s) \* IntegrityError

\* The UPDATE matches no row any more.
ChangeStaleData(s) ==
    /\ session[s].at \in {"update", "rollback"}
    /\ ~Stored(session[s].id)
    /\ Raise(s) \* StaleDataError

------------------------------------------------------------------------------
(* The process or its connection dies: the database undoes what was open. *)
Crash(s) ==
    /\ ~Idle(s)
    /\ Done(s)
    /\ UNCHANGED tables

\* MemoryLayer.records.clear(), which only the test suite calls.
Clear ==
    /\ memories' = [id \in {} |-> 0]
    /\ versions' = {}
    /\ evidence' = [id \in Ids |-> 0]
    /\ writes' = [id \in Ids |-> [available |-> 0, degraded |-> 0]]
    /\ changes' = [id \in Ids |-> <<>>]
    /\ UNCHANGED <<tenants, session>>

Store(s) ==
    \/ \E t \in Tenants, k \in Kinds, c \in Contents : EnsureTenant(s, t, k, c)
    \/ AddTenant(s) \/ AddTenantConflict(s)
    \/ StoreRead(s) \/ StoreInsert(s) \/ StoreConflict(s) \/ StoreTouch(s)

Update(s) ==
    \/ \E t \in Tenants, id \in Ids, c \in Contents, e \in 1..MaxVersion :
          UpdateRead(s, t, id, c, e)
    \/ \E t \in Tenants, id \in Ids, e \in 1..MaxVersion :
          UpdateStale(s, t, id, e)
    \/ UpdateCommit(s)

Rollback(s) ==
    \/ \E t \in Tenants, id \in Ids, v \in 1..MaxVersion :
          RollbackRead(s, t, id, v)
    \/ RollbackFind(s) \/ RollbackNotFound(s)
    \/ RollbackCommit(s)

Step(s) ==
    \/ Store(s) \/ Update(s) \/ Rollback(s)
    \/ \E t \in Tenants, id \in Ids : NotFound(s, t, id)
    \/ ChangeConflict(s) \/ ChangeStaleData(s)
    \/ Crash(s)

Next == \E s \in Sessions : Step(s)

Spec == Init /\ [][Next]_vars

\* The same store with the test suite's reset between and during requests.
SpecWithClear == Init /\ [][Next \/ Clear]_vars
------------------------------------------------------------------------------
(* Properties *)

TypeOK ==
    /\ tenants \subseteq Tenants
    /\ DOMAIN memories \subseteq Ids
    /\ memories \in [DOMAIN memories -> MemoryRows]
    /\ versions \subseteq VersionRows
    /\ evidence \in [Ids -> Nat]
    /\ writes \in [Ids -> [available: Nat, degraded: Nat]]
    /\ changes \in [Ids -> Seq(AuditRows)]
    /\ session \in [Sessions -> SessionStates]

\* The history of a memory is complete and agrees with the memory: whatever
\* updates, rollbacks and stores raced or failed, its version rows are
\* exactly 1..version, one each, the first holds the content the identifier
\* was computed from and the last the current content; an identifier without
\* a memory row has no history (store, update and rollback of core.py).
NumberedOnce ==
    \A r1, r2 \in versions :
        r1.id = r2.id /\ r1.version = r2.version => r1 = r2

NumberedFromOne ==
    /\ \A r \in versions : Stored(r.id) /\ r.version \in 1..memories[r.id].version
    /\ \A id \in DOMAIN memories :
          /\ memories[id].version > 0
          /\ \A v \in 1..memories[id].version : HasVersion(id, v)

EndsAgree ==
    \A r \in versions :
        /\ r.version = 1 => r.content = FirstContent(r.id)
        /\ r.version = memories[r.id].version => r.content = memories[r.id].content

HistoryComplete == NumberedOnce /\ NumberedFromOne /\ EndsAgree

\* What an open update or rollback has read is part of the history: the
\* version and content it loaded, and the version it returns to, are still
\* rows of memory_versions however long it waits before its commit.
SnapshotsInHistory ==
    \A s \in Sessions :
        LET q == session[s] IN
        /\ q.at \in {"update", "find", "rollback"} =>
              /\ Stored(q.id)
              /\ [id |-> q.id, version |-> q.seen, content |-> q.loaded]
                    \in versions
        /\ q.at = "rollback" =>
              [id |-> q.id, version |-> q.to, content |-> q.content]
                  \in versions

\* The audit trail accounts for the history: the n-th change event of a
\* memory is the one that made version n + 1; an update event carries that
\* number, and a rollback event names an older version whose content version
\* n + 1 repeats, although another session may have changed the memory
\* between the reads of rollback and its commit.
AuditAccountsForHistory ==
    \A id \in Ids :
        /\ ~Stored(id) => changes[id] = <<>>
        /\ Stored(id) => Len(changes[id]) = memories[id].version - 1
        /\ \A n \in DOMAIN changes[id] :
              LET e == changes[id][n] IN
              /\ e.action = "update" => e.version = n + 1
              /\ e.action = "rollback" =>
                    /\ e.to_version \in 1..n
                    /\ \E old, new \in versions :
                          /\ old.id = id /\ old.version = e.to_version
                          /\ new.id = id /\ new.version = n + 1
                          /\ old.content = new.content

\* A memory has an evidence row from the moment it is stored, and only one:
\* storing it again, or racing to store it first, adds none.
EvidenceOnce ==
    \A id \in Ids : evidence[id] = IF Stored(id) THEN 1 ELSE 0

\* "memory writes still persist metadata with embedding_id = null and audit
\* metadata records the degraded vector state" (docs/SECURITY_AUTHORIZATION):
\* a memory without a vector has a write event that says Qdrant was
\* unavailable, and one with a vector has a write event that says it was.
EmbeddingAudited ==
    \A id \in DOMAIN memories :
        IF memories[id].embedded THEN writes[id].available > 0
                                 ELSE writes[id].degraded > 0

\* An update or rollback that read its memory and then raises lost against a
\* change that was committed after it read: the memory is past the version
\* it saw (nothing else makes the unique constraint fail), so re-reading and
\* retrying is not in vain.
ConflictMeansProgress ==
    [][\A s \in Sessions :
          /\ session[s].at \in {"update", "rollback"}
          /\ session'[s] = [at |-> "idle", raised |-> TRUE]
          => /\ Stored(session[s].id)
             /\ memories[session[s].id].version > session[s].seen]_vars

\* Also with records.clear() in the middle of requests: no version row
\* outlives or precedes its memory, and the current version of a memory has
\* its row with that number.
NoOrphans ==
    /\ \A r \in versions : Stored(r.id)
    /\ \A id \in DOMAIN memories : HasVersion(id, memories[id].version)

\* Refinement: the store implements one-at-a-time versioned histories.
History ==
    [id \in Ids |->
        [v \in 1..(IF Stored(id) THEN memories[id].version ELSE 0) |->
            (CHOOSE r \in versions : r.id = id /\ r.version = v).content]]

Versioned ==
    INSTANCE VersionedMemory WITH
        First <- FirstContent, history <- History

\* Every behaviour of the sessions is a behaviour of VersionedMemory: each
\* committed store, update and rollback takes effect at one instant, as one
\* new version at the end of one history, and nothing else has an effect.
ImplementsVersionedMemory == Versioned!Spec
=============================================================================
