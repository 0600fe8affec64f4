-------------------------- MODULE MemoryStoreProofs --------------------------
(***************************************************************************)
(* Invariance proofs for MemoryStore, for every set of sessions, tenants,  *)
(* kinds and contents and every bound.                                     *)
(***************************************************************************)
EXTENDS MemoryStore, SequenceTheorems, TLAPS

------------------------------------------------------------------------------
(* Type correctness *)

\* The fields of a session state are determined by where it is.
LEMMA SessionFields ==
    ASSUME NEW q \in SessionStates
    PROVE  /\ q.at \notin {"idle"} => q.id \in Ids
           /\ q.at \in {"update", "find", "rollback"} =>
                  q.seen \in Nat /\ q.loaded \in Contents
           /\ q.at \in {"update", "rollback"} => q.content \in Contents
           /\ q.at \in {"find", "rollback"} => q.to \in Nat
  BY DEF SessionStates

\* The parts of an identifier.
LEMMA IdParts ==
    ASSUME NEW id \in Ids
    PROVE  TenantOf(id) \in Tenants /\ FirstContent(id) \in Contents
  BY DEF Ids, TenantOf, FirstContent

\* The empty database and idle sessions are well typed.
LEMMA TypeInit == Init => TypeOK
  BY DEF Init, TypeOK, SessionStates, AuditRows, VersionRows, MemoryRows

\* A step that only moves session s to a well-typed state.
LEMMA GotoType ==
    ASSUME TypeOK, NEW s \in Sessions, NEW q \in SessionStates, Goto(s, q)
    PROVE  session' \in [Sessions -> SessionStates]
  BY DEF TypeOK, Goto

\* An idle session is a session state, whether its last call raised or not.
LEMMA IdleStates == \A b \in BOOLEAN : [at |-> "idle", raised |-> b] \in SessionStates
  BY DEF SessionStates

\* A call that raises keeps the types: its transaction is rolled back.
LEMMA RaiseType ==
    ASSUME TypeOK, NEW s \in Sessions, Raise(s)
    PROVE  TypeOK'
  <1>1. session' \in [Sessions -> SessionStates]
    BY GotoType, IdleStates DEF Raise
  <1> QED
    BY <1>1 DEF TypeOK, Raise, tables

\* The transaction of update and rollback keeps the types of its four tables.
LEMMA CommitChangeType ==
    ASSUME TypeOK, NEW s \in Sessions, NEW event \in AuditRows,
           session[s].at \in {"update", "rollback"},
           CommitChange(s, event)
    PROVE  TypeOK'
  <1> DEFINE q == session[s]
  <1>1. q.id \in Ids /\ q.seen + 1 \in Nat /\ q.content \in Contents
    BY SessionFields DEF TypeOK
  <1>2. session' \in [Sessions -> SessionStates]
    BY GotoType, IdleStates DEF CommitChange, Done
  <1>3. Flushed(q.id, q.content, q.loaded, q.seen + 1) \in MemoryRows
    <2>1. memories[q.id] \in MemoryRows
      BY DEF TypeOK, CommitChange, Stored
    <2>2. PICK row, id, c, l, v : /\ row = memories[id] /\ row \in MemoryRows
                                  /\ id = q.id /\ c = q.content /\ c \in Contents
                                  /\ l = q.loaded /\ v = q.seen + 1 /\ v \in Nat
      BY <1>1, <2>1
    <2>3. Flushed(id, c, l, v) \in MemoryRows
      BY <2>2 DEF Flushed, MemoryRows
    <2> QED
      BY <2>2, <2>3
  <1>4. /\ DOMAIN memories' \subseteq Ids
        /\ memories' \in [DOMAIN memories' -> MemoryRows]
    BY <1>1, <1>3 DEF TypeOK, CommitChange, PutRow
  <1>5. versions' \subseteq VersionRows
    BY <1>1 DEF TypeOK, CommitChange, VersionRows
  <1>6. changes' \in [Ids -> Seq(AuditRows)]
    BY <1>1 DEF TypeOK, CommitChange
  <1> QED
    BY <1>2, <1>4, <1>5, <1>6 DEF TypeOK, CommitChange

\* Counting a memory.write event keeps the type of the counters.
LEMMA AuditWriteType ==
    ASSUME TypeOK, NEW s \in Sessions, NEW id \in Ids, AuditWrite(s, id)
    PROVE  writes' \in [Ids -> [available: Nat, degraded: Nat]]
  BY DEF TypeOK, AuditWrite


\* Every step of store keeps the types.
LEMMA StoreType ==
    ASSUME TypeOK, NEW s \in Sessions, Store(s)
    PROVE  TypeOK'
  <1> DEFINE id == session[s].id
  <1>1. ASSUME NEW t \in Tenants, NEW k \in Kinds, NEW c \in Contents,
               EnsureTenant(s, t, k, c)
        PROVE  TypeOK'
    <2>1. \A a \in {"get", "add_tenant"} :
              [at |-> a, id |-> Digest(t, k, c)] \in SessionStates
      BY DEF SessionStates, Ids, Digest
    <2>2. session' \in [Sessions -> SessionStates]
      BY <1>1, <2>1, GotoType DEF EnsureTenant
    <2> QED
      BY <1>1, <2>2 DEF TypeOK, EnsureTenant, tables
  <1>2. ASSUME session[s].at \in {"add_tenant", "get", "insert", "touch"}
        PROVE  /\ id \in Ids
               /\ \A a \in {"get", "insert", "touch"} :
                      [at |-> a, id |-> id] \in SessionStates
    BY <1>2, SessionFields DEF TypeOK, SessionStates
  <1>3. CASE AddTenant(s)
    <2>1. session' \in [Sessions -> SessionStates]
      BY <1>2, <1>3, GotoType DEF AddTenant
    <2> QED
      BY <1>2, <1>3, <2>1, IdParts DEF TypeOK, AddTenant
  <1>4. CASE AddTenantConflict(s)
    BY <1>4, RaiseType DEF AddTenantConflict
  <1>5. CASE StoreRead(s)
    <2>1. session' \in [Sessions -> SessionStates]
      BY <1>2, <1>5, GotoType DEF StoreRead
    <2> QED
      BY <1>5, <2>1 DEF TypeOK, StoreRead, tables
  <1>6. CASE StoreInsert(s)
    <2>1. id \in Ids /\ FirstContent(id) \in Contents
      BY <1>2, <1>6, IdParts DEF StoreInsert
    <2>2. session' \in [Sessions -> SessionStates]
      BY <1>6, GotoType, IdleStates DEF StoreInsert, Done
    <2>3. [version |-> 1, content |-> FirstContent(id),
           embedded |-> s \notin Degraded] \in MemoryRows
      BY <2>1 DEF MemoryRows
    <2>4. /\ DOMAIN memories' \subseteq Ids
          /\ memories' \in [DOMAIN memories' -> MemoryRows]
      BY <1>6, <2>1, <2>3 DEF TypeOK, StoreInsert, PutRow
    <2>5. versions' \subseteq VersionRows
      BY <1>6, <2>1 DEF TypeOK, StoreInsert, VersionRows
    <2>6. writes' \in [Ids -> [available: Nat, degraded: Nat]]
      BY <1>6, <2>1, AuditWriteType DEF StoreInsert
    <2>7. evidence' \in [Ids -> Nat]
      BY <1>6, <2>1 DEF TypeOK, StoreInsert
    <2>8. tenants' \subseteq Tenants /\ changes' \in [Ids -> Seq(AuditRows)]
      BY <1>6 DEF TypeOK, StoreInsert
    <2> QED
      BY <2>2, <2>4, <2>5, <2>6, <2>7, <2>8 DEF TypeOK
  <1>7. CASE StoreConflict(s)
    BY <1>7, RaiseType DEF StoreConflict
  <1>8. CASE StoreTouch(s)
    <2>1. session' \in [Sessions -> SessionStates]
      BY <1>8, GotoType, IdleStates DEF StoreTouch, Done
    <2>2. writes' \in [Ids -> [available: Nat, degraded: Nat]]
      BY <1>2, <1>8, AuditWriteType DEF StoreTouch
    <2> QED
      BY <1>8, <2>1, <2>2 DEF TypeOK, StoreTouch
  <1> QED
    BY <1>1, <1>3, <1>4, <1>5, <1>6, <1>7, <1>8 DEF Store

\* Every step of update keeps the types.
LEMMA UpdateType ==
    ASSUME TypeOK, NEW s \in Sessions, Update(s)
    PROVE  TypeOK'
  <1>1. ASSUME NEW t \in Tenants, NEW id \in Ids, NEW c \in Contents,
               NEW e \in 1..MaxVersion, UpdateRead(s, t, id, c, e)
        PROVE  TypeOK'
    <2>1. [at |-> "update", id |-> id, content |-> c,
           seen |-> memories[id].version,
           loaded |-> memories[id].content] \in SessionStates
      BY <1>1 DEF TypeOK, UpdateRead, Visible, Stored, MemoryRows, SessionStates
    <2>2. session' \in [Sessions -> SessionStates]
      BY <1>1, <2>1, GotoType DEF UpdateRead
    <2> QED
      BY <1>1, <2>2 DEF TypeOK, UpdateRead, tables
  <1>2. ASSUME NEW t \in Tenants, NEW id \in Ids, NEW e \in 1..MaxVersion,
               UpdateStale(s, t, id, e)
        PROVE  TypeOK'
    BY <1>2, RaiseType DEF UpdateStale
  <1>3. CASE UpdateCommit(s)
    <2>1. [action |-> "update", version |-> session[s].seen + 1] \in AuditRows
      BY <1>3, SessionFields DEF TypeOK, UpdateCommit, AuditRows
    <2> QED
      BY <1>3, <2>1, CommitChangeType DEF UpdateCommit
  <1> QED
    BY <1>1, <1>2, <1>3 DEF Update

\* Every step of rollback keeps the types.
LEMMA RollbackType ==
    ASSUME TypeOK, NEW s \in Sessions, Rollback(s)
    PROVE  TypeOK'
  <1>1. ASSUME NEW t \in Tenants, NEW id \in Ids,
               NEW v \in 1..MaxVersion, RollbackRead(s, t, id, v)
        PROVE  TypeOK'
    <2>1. [at |-> "find", id |-> id, to |-> v,
           seen |-> memories[id].version,
           loaded |-> memories[id].content] \in SessionStates
      BY <1>1, BoundAssumption
         DEF TypeOK, RollbackRead, Visible, Stored, MemoryRows, SessionStates
    <2>2. session' \in [Sessions -> SessionStates]
      BY <1>1, <2>1, GotoType DEF RollbackRead
    <2> QED
      BY <1>1, <2>2 DEF TypeOK, RollbackRead, tables
  <1>2. CASE RollbackFind(s)
    <2> DEFINE q == session[s]
    <2>1. PICK r \in versions :
              Goto(s, [at |-> "rollback", id |-> q.id, to |-> q.to,
                       content |-> r.content,
                       seen |-> q.seen, loaded |-> q.loaded])
      BY <1>2 DEF RollbackFind
    <2>2. [at |-> "rollback", id |-> q.id, to |-> q.to, content |-> r.content,
           seen |-> q.seen, loaded |-> q.loaded] \in SessionStates
      <3>1. q.id \in Ids /\ q.to \in Nat /\ q.seen \in Nat /\ q.loaded \in Contents
        BY <1>2, SessionFields DEF TypeOK, RollbackFind
      <3>2. r.content \in Contents
        BY DEF TypeOK, VersionRows
      <3> QED
        BY <3>1, <3>2 DEF SessionStates
    <2>3. session' \in [Sessions -> SessionStates]
      BY <2>1, <2>2, GotoType
    <2> QED
      BY <1>2, <2>3 DEF TypeOK, RollbackFind, tables
  <1>3. CASE RollbackNotFound(s)
    BY <1>3, RaiseType DEF RollbackNotFound
  <1>4. CASE RollbackCommit(s)
    <2>1. [action |-> "rollback", to_version |-> session[s].to] \in AuditRows
      BY <1>4, SessionFields DEF TypeOK, RollbackCommit, AuditRows
    <2> QED
      BY <1>4, <2>1, CommitChangeType DEF RollbackCommit
  <1> QED
    BY <1>1, <1>2, <1>3, <1>4 DEF Rollback

\* Every step of every session keeps the types.
LEMMA TypeNext == TypeOK /\ [Next]_vars => TypeOK'
  <1> SUFFICES ASSUME TypeOK, [Next]_vars PROVE TypeOK'
    OBVIOUS
  <1>1. CASE UNCHANGED vars
    BY <1>1 DEF TypeOK, vars
  <1>2. ASSUME NEW s \in Sessions, Step(s)
        PROVE  TypeOK'
    <2>1. CASE Crash(s)
      <3>1. session' \in [Sessions -> SessionStates]
        BY <2>1, GotoType, IdleStates DEF Crash, Done
      <3> QED
        BY <2>1, <3>1 DEF TypeOK, Crash, tables
    <2>2. CASE \E t \in Tenants, id \in Ids : NotFound(s, t, id)
      BY <2>2, RaiseType DEF NotFound
    <2>3. CASE ChangeConflict(s) \/ ChangeStaleData(s)
      BY <2>3, RaiseType DEF ChangeConflict, ChangeStaleData
    <2> QED
      BY <1>2, <2>1, <2>2, <2>3, StoreType, UpdateType, RollbackType DEF Step
  <1> QED
    BY <1>1, <1>2 DEF Next

\* Every table and every open session of the memory store keeps its type,
\* whatever the sets of sessions, tenants, kinds and contents and the bounds.
THEOREM TypeCorrect == Spec => []TypeOK
  BY TypeInit, TypeNext, PTL DEF Spec


------------------------------------------------------------------------------
(* The history of every memory is complete *)

\* HistoryComplete is not inductive: a commit extends the history correctly
\* only because the snapshot its session took is itself part of the history.
HistoryInv == TypeOK /\ HistoryComplete /\ SnapshotsInHistory

\* What session state q needs of the tables.
SnapshotOf(q) ==
    /\ q.at \in {"update", "find", "rollback"} =>
          /\ Stored(q.id)
          /\ [id |-> q.id, version |-> q.seen, content |-> q.loaded] \in versions
    /\ q.at = "rollback" =>
          [id |-> q.id, version |-> q.to, content |-> q.content] \in versions

\* The empty database has no history and no snapshot to agree with.
LEMMA HistoryInit == Init => HistoryInv
  BY TypeInit DEF Init, HistoryInv, HistoryComplete, NumberedOnce,
     NumberedFromOne, EndsAgree, SnapshotsInHistory

\* A step that moves one session and leaves memories and versions alone.
LEMMA QuietStep ==
    ASSUME HistoryInv, TypeOK', NEW s \in Sessions, NEW q,
           Goto(s, q), SnapshotOf(q), UNCHANGED <<memories, versions>>
    PROVE  HistoryInv'
  <1>1. HistoryComplete'
    BY DEF HistoryInv, HistoryComplete, NumberedOnce, NumberedFromOne,
           EndsAgree, Stored, HasVersion
  <1>2. SnapshotsInHistory'
    BY DEF HistoryInv, TypeOK, SnapshotsInHistory, SnapshotOf, Goto, Stored
  <1> QED
    BY <1>1, <1>2 DEF HistoryInv

\* A call that raises leaves the history as it is.
LEMMA RaiseHistory ==
    ASSUME HistoryInv, TypeOK', NEW s \in Sessions, Raise(s)
    PROVE  HistoryInv'
  BY QuietStep DEF Raise, SnapshotOf, tables

\* A transaction that adds version v with content c to memory id, when v is
\* the number after the last one.
LEMMA ExtendHistory ==
    ASSUME HistoryInv, TypeOK', NEW s \in Sessions, NEW id \in Ids,
           NEW v \in Nat, NEW c,
           v = IF Stored(id) THEN memories[id].version + 1 ELSE 1,
           v = 1 => c = FirstContent(id),
           DOMAIN memories' = DOMAIN memories \cup {id},
           memories'[id].version = v, memories'[id].content = c,
           \A i \in DOMAIN memories : i # id => memories'[i] = memories[i],
           versions' = versions \cup {[id |-> id, version |-> v, content |-> c]},
           Done(s)
    PROVE  HistoryInv'
  <1> DEFINE new == [id |-> id, version |-> v, content |-> c]
  <1>0. /\ \A r \in versions : /\ r.id \in Ids /\ r.version \in Nat
                               /\ Stored(r.id)
                               /\ r.version \in 1..memories[r.id].version
        /\ \A i \in DOMAIN memories : memories[i].version \in Nat
    BY DEF HistoryInv, TypeOK, VersionRows, MemoryRows, HistoryComplete,
           NumberedFromOne
  <1>1. ASSUME NEW r \in versions, r.id = id
        PROVE  r.version < v
    <2>1. Stored(id) /\ r.version \in 1..memories[id].version
      BY <1>0, <1>1
    <2>2. v = memories[id].version + 1 /\ memories[id].version \in Nat
      BY <1>0, <2>1 DEF Stored
    <2> QED
      BY <1>0, <2>1, <2>2
  <1>2. NumberedOnce'
    BY <1>1 DEF HistoryInv, HistoryComplete, NumberedOnce
  <1>3. NumberedFromOne'
    <2>1. \A r \in versions' : Stored(r.id)' /\ r.version \in 1..memories'[r.id].version
      <3>1. CASE Stored(id)
        BY <1>0, <1>1, <3>1 DEF Stored
      <3>2. CASE ~Stored(id)
        BY <1>0, <3>2 DEF Stored
      <3> QED
        BY <3>1, <3>2
    <2>2. ASSUME NEW i \in DOMAIN memories', NEW n \in 1..memories'[i].version
          PROVE  HasVersion(i, n)'
      <3>1. CASE i = id /\ n = v
        <4>1. new \in versions' /\ new.id = id /\ new.version = v
          OBVIOUS
        <4> QED
          BY <3>1, <4>1 DEF HasVersion
      <3>2. CASE ~(i = id /\ n = v)
        <4>1. i \in DOMAIN memories /\ n \in 1..memories[i].version
          BY <1>0, <2>2, <3>2 DEF Stored
        <4>2. HasVersion(i, n)
          BY <4>1 DEF HistoryInv, HistoryComplete, NumberedFromOne
        <4> QED
          BY <4>2 DEF HasVersion
      <3> QED
        BY <3>1, <3>2
    <2>3. \A i \in DOMAIN memories' : memories'[i].version > 0
      BY <1>0 DEF HistoryInv, HistoryComplete, NumberedFromOne, Stored
    <2> QED
      BY <2>1, <2>2, <2>3 DEF NumberedFromOne, Stored
  <1>4. EndsAgree'
    <2>1. ASSUME NEW r \in versions
          PROVE  /\ r.version = 1 => r.content = FirstContent(r.id)
                 /\ r.version = memories'[r.id].version
                       => r.content = memories'[r.id].content
      <3>1. CASE r.id = id
        BY <1>1, <2>1, <3>1 DEF HistoryInv, HistoryComplete, EndsAgree
      <3>2. CASE r.id # id
        BY <1>0, <2>1, <3>2 DEF HistoryInv, HistoryComplete, EndsAgree, Stored
      <3> QED
        BY <3>1, <3>2
    <2> QED
      BY <2>1 DEF EndsAgree
  <1>5. SnapshotsInHistory'
    BY DEF HistoryInv, TypeOK, SnapshotsInHistory, Done, Goto, Stored
  <1> QED
    BY <1>2, <1>3, <1>4, <1>5 DEF HistoryInv, HistoryComplete


\* The optimistic argument: the version row a change wants to insert is free
\* only if the memory is still at the version, with the content, it loaded.
LEMMA FreeMeansCurrent ==
    ASSUME HistoryInv, NEW s \in Sessions,
           session[s].at \in {"update", "rollback"},
           ~HasVersion(session[s].id, session[s].seen + 1)
    PROVE  /\ Stored(session[s].id)
           /\ session[s].seen \in Nat \ {0}
           /\ memories[session[s].id].version = session[s].seen
           /\ memories[session[s].id].content = session[s].loaded
  <1> DEFINE q == session[s]
             r == [id |-> q.id, version |-> q.seen, content |-> q.loaded]
  <1>1. Stored(q.id) /\ r \in versions
    BY DEF HistoryInv, SnapshotsInHistory
  <1>2. /\ q.seen \in 1..memories[q.id].version
        /\ r.version = memories[q.id].version => r.content = memories[q.id].content
    BY <1>1 DEF HistoryInv, HistoryComplete, NumberedFromOne, EndsAgree
  <1>3. memories[q.id].version \in Nat
    BY <1>1 DEF HistoryInv, TypeOK, Stored, MemoryRows
  <1>4. q.seen + 1 \notin 1..memories[q.id].version
    BY <1>1 DEF HistoryInv, HistoryComplete, NumberedFromOne, Stored
  <1>5. q.seen = memories[q.id].version
    BY <1>2, <1>3, <1>4
  <1> QED
    BY <1>1, <1>2, <1>3, <1>5

\* The transaction of update and rollback extends the history by one version.
LEMMA CommitChangeHistory ==
    ASSUME HistoryInv, TypeOK', NEW s \in Sessions, NEW event,
           session[s].at \in {"update", "rollback"},
           CommitChange(s, event)
    PROVE  /\ HistoryInv'
           /\ Stored(session[s].id)
           /\ session[s].seen \in Nat \ {0}
           /\ memories[session[s].id].version = session[s].seen
           /\ memories'[session[s].id].version = session[s].seen + 1
  <1> DEFINE q == session[s]
             v == q.seen + 1
  <1>1. /\ Stored(q.id) /\ q.seen \in Nat \ {0}
        /\ memories[q.id].version = q.seen
        /\ memories[q.id].content = q.loaded
    BY FreeMeansCurrent DEF CommitChange
  <1>2. q.id \in Ids
    BY SessionFields DEF HistoryInv, TypeOK
  <1>3. memories[q.id] \in MemoryRows
    BY <1>1 DEF HistoryInv, TypeOK, Stored
  <1>4. /\ Flushed(q.id, q.content, q.loaded, v).version = v
        /\ Flushed(q.id, q.content, q.loaded, v).content = q.content
    BY <1>1, <1>3 DEF Flushed, MemoryRows
  <1>5. /\ DOMAIN memories' = DOMAIN memories \cup {q.id}
        /\ memories'[q.id].version = v /\ memories'[q.id].content = q.content
        /\ \A i \in DOMAIN memories : i # q.id => memories'[i] = memories[i]
    BY <1>4 DEF CommitChange, PutRow
  <1>6. HistoryInv'
    BY <1>1, <1>2, <1>5, ExtendHistory DEF CommitChange
  <1> QED
    BY <1>1, <1>5, <1>6

\* The first store of a memory starts its history.
LEMMA StoreInsertHistory ==
    ASSUME HistoryInv, TypeOK', NEW s \in Sessions, StoreInsert(s)
    PROVE  HistoryInv'
  <1> DEFINE id == session[s].id
  <1>1. id \in Ids
    BY SessionFields DEF HistoryInv, TypeOK, StoreInsert
  <1>2. /\ DOMAIN memories' = DOMAIN memories \cup {id}
        /\ memories'[id].version = 1
        /\ memories'[id].content = FirstContent(id)
        /\ \A i \in DOMAIN memories : i # id => memories'[i] = memories[i]
    BY DEF StoreInsert, PutRow
  <1> QED
    BY <1>1, <1>2, ExtendHistory DEF StoreInsert

\* Every step of store keeps the history complete.
LEMMA StoreHistory ==
    ASSUME HistoryInv, TypeOK', NEW s \in Sessions, Store(s)
    PROVE  HistoryInv'
  <1>1. ASSUME NEW t \in Tenants, NEW k \in Kinds, NEW c \in Contents,
               EnsureTenant(s, t, k, c)
        PROVE  HistoryInv'
    BY <1>1, QuietStep DEF EnsureTenant, SnapshotOf, tables
  <1>2. CASE AddTenant(s)
    BY <1>2, QuietStep DEF AddTenant, SnapshotOf
  <1>3. CASE AddTenantConflict(s) \/ StoreConflict(s)
    BY <1>3, RaiseHistory DEF AddTenantConflict, StoreConflict
  <1>4. CASE StoreRead(s)
    BY <1>4, QuietStep DEF StoreRead, SnapshotOf, tables
  <1>5. CASE StoreTouch(s)
    BY <1>5, QuietStep DEF StoreTouch, Done, SnapshotOf
  <1> QED
    BY <1>1, <1>2, <1>3, <1>4, <1>5, StoreInsertHistory DEF Store

\* A session that opens on a memory takes its last version as snapshot.
LEMMA CurrentInHistory ==
    ASSUME HistoryInv, NEW id \in Ids, Stored(id)
    PROVE  [id |-> id, version |-> memories[id].version,
            content |-> memories[id].content] \in versions
  <1>1. memories[id].version \in Nat
    BY DEF HistoryInv, TypeOK, Stored, MemoryRows
  <1>2. PICK r \in versions : r.id = id /\ r.version = memories[id].version
    BY <1>1 DEF HistoryInv, HistoryComplete, NumberedFromOne, Stored, HasVersion
  <1>3. r.content = memories[id].content
    BY <1>2 DEF HistoryInv, HistoryComplete, EndsAgree
  <1>4. r = [id |-> r.id, version |-> r.version, content |-> r.content]
    BY DEF HistoryInv, TypeOK, VersionRows
  <1> QED
    BY <1>2, <1>3, <1>4


\* Every step of update keeps the history complete.
LEMMA UpdateHistory ==
    ASSUME HistoryInv, TypeOK', NEW s \in Sessions, Update(s)
    PROVE  HistoryInv'
  <1>1. ASSUME NEW t \in Tenants, NEW id \in Ids, NEW c \in Contents,
               NEW e \in 1..MaxVersion, UpdateRead(s, t, id, c, e)
        PROVE  HistoryInv'
    <2> DEFINE q == [at |-> "update", id |-> id, content |-> c,
                     seen |-> memories[id].version,
                     loaded |-> memories[id].content]
    <2>1. SnapshotOf(q)
      BY <1>1, CurrentInHistory DEF SnapshotOf, UpdateRead, Visible
    <2> QED
      BY <1>1, <2>1, QuietStep DEF UpdateRead, tables
  <1>2. ASSUME NEW t \in Tenants, NEW id \in Ids, NEW e \in 1..MaxVersion,
               UpdateStale(s, t, id, e)
        PROVE  HistoryInv'
    BY <1>2, RaiseHistory DEF UpdateStale
  <1>3. CASE UpdateCommit(s)
    BY <1>3, CommitChangeHistory DEF UpdateCommit
  <1> QED
    BY <1>1, <1>2, <1>3 DEF Update

\* Every step of rollback keeps the history complete.
LEMMA RollbackHistory ==
    ASSUME HistoryInv, TypeOK', NEW s \in Sessions, Rollback(s)
    PROVE  HistoryInv'
  <1>1. ASSUME NEW t \in Tenants, NEW id \in Ids,
               NEW v \in 1..MaxVersion, RollbackRead(s, t, id, v)
        PROVE  HistoryInv'
    <2> DEFINE q == [at |-> "find", id |-> id, to |-> v,
                     seen |-> memories[id].version,
                     loaded |-> memories[id].content]
    <2>1. SnapshotOf(q)
      BY <1>1, CurrentInHistory DEF SnapshotOf, RollbackRead, Visible
    <2> QED
      BY <1>1, <2>1, QuietStep DEF RollbackRead, tables
  <1>2. CASE RollbackFind(s)
    <2> DEFINE q == session[s]
    <2>1. PICK r \in versions :
              /\ r.id = q.id /\ r.version = q.to
              /\ Goto(s, [at |-> "rollback", id |-> q.id, to |-> q.to,
                          content |-> r.content,
                          seen |-> q.seen, loaded |-> q.loaded])
      BY <1>2 DEF RollbackFind
    <2>2. /\ Stored(q.id)
          /\ [id |-> q.id, version |-> q.seen, content |-> q.loaded] \in versions
      BY <1>2 DEF HistoryInv, SnapshotsInHistory, RollbackFind
    <2>3. [id |-> q.id, version |-> q.to, content |-> r.content] \in versions
      BY <2>1 DEF HistoryInv, TypeOK, VersionRows
    <2>4. SnapshotOf([at |-> "rollback", id |-> q.id, to |-> q.to,
                      content |-> r.content,
                      seen |-> q.seen, loaded |-> q.loaded])
      BY <2>2, <2>3 DEF SnapshotOf
    <2> QED
      BY <1>2, <2>1, <2>4, QuietStep DEF RollbackFind, tables
  <1>3. CASE RollbackNotFound(s)
    BY <1>3, RaiseHistory DEF RollbackNotFound
  <1>4. CASE RollbackCommit(s)
    BY <1>4, CommitChangeHistory DEF RollbackCommit
  <1> QED
    BY <1>1, <1>2, <1>3, <1>4 DEF Rollback

\* HistoryInv is inductive.
LEMMA HistoryNext == HistoryInv /\ [Next]_vars => HistoryInv'
  <1> SUFFICES ASSUME HistoryInv, [Next]_vars PROVE HistoryInv'
    OBVIOUS
  <1>1. TypeOK'
    BY TypeNext DEF HistoryInv
  <1>2. CASE UNCHANGED vars
    BY <1>1, <1>2 DEF HistoryInv, HistoryComplete, NumberedOnce,
       NumberedFromOne, EndsAgree, SnapshotsInHistory, Stored, HasVersion, vars
  <1>3. ASSUME NEW s \in Sessions, Step(s)
        PROVE  HistoryInv'
    <2>1. CASE Crash(s)
      BY <1>1, <2>1, QuietStep DEF Crash, Done, SnapshotOf, tables
    <2>2. CASE \E t \in Tenants, id \in Ids : NotFound(s, t, id)
      BY <1>1, <2>2, RaiseHistory DEF NotFound
    <2>3. CASE ChangeConflict(s) \/ ChangeStaleData(s)
      BY <1>1, <2>3, RaiseHistory DEF ChangeConflict, ChangeStaleData
    <2> QED
      BY <1>1, <1>3, <2>1, <2>2, <2>3, StoreHistory, UpdateHistory,
         RollbackHistory DEF Step
  <1> QED
    BY <1>2, <1>3 DEF Next

\* Whatever sessions race, fail or crash, the version rows of every memory
\* are exactly 1..version, and both ends of the history agree with the
\* identifier and with the memory row.
THEOREM HistoryAlwaysComplete == Spec => []HistoryComplete
  <1>1. HistoryInv => HistoryComplete
    BY DEF HistoryInv
  <1> QED
    BY <1>1, HistoryInit, HistoryNext, PTL DEF Spec

\* What an open update or rollback has read never drops out of the history.
THEOREM SnapshotsStayInHistory == Spec => []SnapshotsInHistory
  <1>1. HistoryInv => SnapshotsInHistory
    BY DEF HistoryInv
  <1> QED
    BY <1>1, HistoryInit, HistoryNext, PTL DEF Spec


------------------------------------------------------------------------------
(* Refused changes *)

\* The only steps that raise in an update or rollback that has read its row.
LEMMA RaisingSteps ==
    ASSUME TypeOK, NEW s \in Sessions, Next,
           session[s].at \in {"update", "rollback"},
           session'[s] = [at |-> "idle", raised |-> TRUE]
    PROVE  ChangeConflict(s) \/ ChangeStaleData(s)
  <1>1. PICK z \in Sessions : Step(z)
    BY DEF Next
  <1>2. z = s
    <2>1. \E q : Goto(z, q)
      BY <1>1 DEF Step, Store, Update, Rollback, EnsureTenant, AddTenant,
         AddTenantConflict, StoreRead, StoreInsert, StoreConflict, StoreTouch,
         UpdateRead, UpdateStale, UpdateCommit, RollbackRead, RollbackFind,
         RollbackNotFound, RollbackCommit, CommitChange, NotFound,
         ChangeConflict, ChangeStaleData, Crash, Done, Raise
    <2> QED
      BY <2>1 DEF Goto, TypeOK
  <1>3. ~Store(s) /\ ~\E t \in Tenants, id \in Ids : NotFound(s, t, id)
    BY DEF Store, EnsureTenant, AddTenant, AddTenantConflict, StoreRead,
       StoreInsert, StoreConflict, StoreTouch, NotFound, Idle
  <1>4. ASSUME Done(s) PROVE FALSE
    <2>1. session'[s] = [at |-> "idle", raised |-> FALSE]
      BY <1>4 DEF Done, Goto, TypeOK
    <2>2. session'[s].raised = TRUE /\ session'[s].raised = FALSE
      BY <2>1
    <2> QED
      BY <2>2
  <1>5. ~Update(s) /\ ~Rollback(s) /\ ~Crash(s)
    BY <1>4 DEF Update, UpdateRead, UpdateStale, UpdateCommit, Rollback,
       RollbackRead, RollbackFind, RollbackNotFound, RollbackCommit,
       CommitChange, Crash, Idle
  <1> QED
    BY <1>1, <1>2, <1>3, <1>5 DEF Step

\* An update or rollback that read its memory and is then refused lost to a
\* change committed after its read.
THEOREM ConflictsMeanProgress == Spec => ConflictMeansProgress
  <1> DEFINE Progress ==
          \A s \in Sessions :
              /\ session[s].at \in {"update", "rollback"}
              /\ session'[s] = [at |-> "idle", raised |-> TRUE]
              => /\ Stored(session[s].id)
                 /\ memories[session[s].id].version > session[s].seen
  <1>1. HistoryInv /\ [Next]_vars => [Progress]_vars
    <2> SUFFICES ASSUME HistoryInv, Next, NEW s \in Sessions,
                        session[s].at \in {"update", "rollback"},
                        session'[s] = [at |-> "idle", raised |-> TRUE]
                 PROVE  /\ Stored(session[s].id)
                        /\ memories[session[s].id].version > session[s].seen
      BY DEF vars
    <2>1. Stored(session[s].id)
      BY DEF HistoryInv, SnapshotsInHistory
    <2>2. ChangeConflict(s)
      BY <2>1, RaisingSteps DEF HistoryInv, ChangeStaleData
    <2>3. PICK r \in versions :
              r.id = session[s].id /\ r.version = session[s].seen + 1
      BY <2>2 DEF ChangeConflict, HasVersion
    <2>4. r.version \in 1..memories[r.id].version
      BY DEF HistoryInv, HistoryComplete, NumberedFromOne
    <2>5. session[s].seen \in Nat /\ memories[session[s].id].version \in Nat
      BY <2>1, SessionFields DEF HistoryInv, TypeOK, Stored, MemoryRows
    <2> QED
      BY <2>1, <2>3, <2>4, <2>5
  <1> QED
    BY <1>1, HistoryInit, HistoryNext, PTL DEF Spec, ConflictMeansProgress


------------------------------------------------------------------------------
(* The audit trail and the evidence account for the history *)

AuditInv == HistoryInv /\ AuditAccountsForHistory /\ EvidenceOnce

\* The n-th change event e of memory id is right about the version rows vs.
EventMatches(vs, id, n, e) ==
    /\ e.action = "update" => e.version = n + 1
    /\ e.action = "rollback" =>
          /\ e.to_version \in 1..n
          /\ \E old, new \in vs :
                /\ old.id = id /\ old.version = e.to_version
                /\ new.id = id /\ new.version = n + 1
                /\ old.content = new.content

\* The empty database has nothing to account for.
LEMMA AuditInit == Init => AuditInv
  BY HistoryInit DEF Init, AuditInv, AuditAccountsForHistory, EvidenceOnce, Stored

\* A step that leaves all that the audit trail and the evidence speak of.
LEMMA AuditQuiet ==
    ASSUME AuditInv, HistoryInv',
           UNCHANGED <<memories, versions, evidence, changes>>
    PROVE  AuditInv'
  BY DEF AuditInv, AuditAccountsForHistory, EvidenceOnce, Stored

\* The first store of a memory writes its evidence row and no change event.
LEMMA AuditStoreInsert ==
    ASSUME AuditInv, HistoryInv', NEW s \in Sessions, StoreInsert(s)
    PROVE  AuditInv'
  <1> DEFINE id == session[s].id
  <1>1. id \in Ids /\ ~Stored(id)
    BY SessionFields DEF AuditInv, HistoryInv, TypeOK, StoreInsert
  <1>2. /\ \A i \in Ids : Stored(i)' <=> Stored(i) \/ i = id
        /\ memories'[id].version = 1
        /\ \A i \in DOMAIN memories : memories'[i] = memories[i]
    BY <1>1 DEF StoreInsert, PutRow, Stored
  <1>3. changes[id] = <<>> /\ changes' = changes /\ versions \subseteq versions'
    BY <1>1 DEF AuditInv, AuditAccountsForHistory, StoreInsert
  <1>4. AuditAccountsForHistory'
    <2> SUFFICES ASSUME NEW i \in Ids
                 PROVE  /\ ~Stored(i)' => changes'[i] = <<>>
                        /\ Stored(i)' => Len(changes'[i]) = memories'[i].version - 1
                        /\ \A n \in DOMAIN changes'[i] :
                              EventMatches(versions', i, n, changes'[i][n])
      BY DEF AuditAccountsForHistory, EventMatches
    <2>1. /\ ~Stored(i)' => changes'[i] = <<>>
          /\ Stored(i)' => Len(changes'[i]) = memories'[i].version - 1
      BY <1>1, <1>2, <1>3 DEF AuditInv, AuditAccountsForHistory, Stored
    <2>2. \A n \in DOMAIN changes'[i] : EventMatches(versions', i, n, changes'[i][n])
      BY <1>3 DEF AuditInv, AuditAccountsForHistory, EventMatches
    <2> QED
      BY <2>1, <2>2
  <1>5. EvidenceOnce'
    BY <1>1, <1>2 DEF AuditInv, HistoryInv, TypeOK, EvidenceOnce, StoreInsert
  <1> QED
    BY <1>4, <1>5 DEF AuditInv

\* The event of a change is accounted for when it describes the new version.
LEMMA AuditCommitChange ==
    ASSUME AuditInv, HistoryInv', NEW s \in Sessions, NEW event \in AuditRows,
           session[s].at \in {"update", "rollback"},
           CommitChange(s, event),
           EventMatches(versions', session[s].id, session[s].seen, event)
    PROVE  AuditInv'
  <1> DEFINE q == session[s]
  <1>1. /\ q.id \in Ids /\ Stored(q.id)
        /\ q.seen \in Nat \ {0}
        /\ memories[q.id].version = q.seen
        /\ memories'[q.id].version = q.seen + 1
    BY CommitChangeHistory, SessionFields DEF AuditInv, HistoryInv, TypeOK
  <1>2. /\ \A i \in Ids : Stored(i)' <=> Stored(i)
        /\ \A i \in DOMAIN memories : i # q.id => memories'[i] = memories[i]
        /\ versions \subseteq versions'
    BY <1>1 DEF CommitChange, PutRow, Stored
  <1>3. /\ changes[q.id] \in Seq(AuditRows)
        /\ Len(changes[q.id]) = q.seen - 1
        /\ changes'[q.id] = Append(changes[q.id], event)
        /\ \A i \in Ids : i # q.id => changes'[i] = changes[i]
    <2>1. changes \in [Ids -> Seq(AuditRows)]
      BY DEF AuditInv, HistoryInv, TypeOK
    <2>2. changes' = [changes EXCEPT ![q.id] = Append(@, event)]
      BY DEF CommitChange
    <2>3. Len(changes[q.id]) = q.seen - 1
      BY <1>1 DEF AuditInv, AuditAccountsForHistory
    <2> QED
      BY <1>1, <2>1, <2>2, <2>3
  <1>4. AuditAccountsForHistory'
    <2> SUFFICES ASSUME NEW i \in Ids
                 PROVE  /\ ~Stored(i)' => changes'[i] = <<>>
                        /\ Stored(i)' => Len(changes'[i]) = memories'[i].version - 1
                        /\ \A n \in DOMAIN changes'[i] :
                              EventMatches(versions', i, n, changes'[i][n])
      BY DEF AuditAccountsForHistory, EventMatches
    <2>1. \A n \in DOMAIN changes[i] : EventMatches(versions', i, n, changes[i][n])
      BY <1>2 DEF AuditInv, AuditAccountsForHistory, EventMatches
    <2>2. CASE i # q.id
      BY <1>2, <1>3, <2>1, <2>2 DEF AuditInv, AuditAccountsForHistory, Stored
    <2>3. CASE i = q.id
      <3>1. Len(changes'[i]) = q.seen /\ DOMAIN changes'[i] = 1..q.seen
        BY <1>1, <1>3, <2>3
      <3>2. ASSUME NEW n \in DOMAIN changes'[i]
            PROVE  EventMatches(versions', i, n, changes'[i][n])
        <4>1. CASE n = q.seen
          <5>1. changes'[i][n] = event
            BY <1>1, <1>3, <2>3, <4>1
          <5> QED
            BY <2>3, <4>1, <5>1 DEF EventMatches
        <4>2. CASE n # q.seen
          <5>1. DOMAIN changes[i] = 1..(q.seen - 1)
            BY <1>1, <1>3, <2>3
          <5>2. n \in 1..(q.seen - 1)
            BY <1>1, <3>1, <3>2, <4>2
          <5>3. changes'[i][n] = changes[i][n]
            BY <1>1, <1>3, <2>3, <5>2
          <5> QED
            BY <2>1, <5>1, <5>2, <5>3
        <4> QED
          BY <4>1, <4>2
      <3> QED
        BY <1>1, <1>2, <2>3, <3>1, <3>2
    <2> QED
      BY <2>2, <2>3
  <1>5. EvidenceOnce'
    BY <1>2 DEF AuditInv, EvidenceOnce, CommitChange
  <1> QED
    BY <1>4, <1>5 DEF AuditInv


\* The event of an update carries the number of the version it made.
LEMMA AuditUpdateCommit ==
    ASSUME AuditInv, HistoryInv', NEW s \in Sessions, UpdateCommit(s)
    PROVE  AuditInv'
  <1> DEFINE event == [action |-> "update", version |-> session[s].seen + 1]
  <1>1. event \in AuditRows
    BY SessionFields DEF AuditInv, HistoryInv, TypeOK, UpdateCommit, AuditRows
  <1>2. EventMatches(versions', session[s].id, session[s].seen, event)
    BY DEF EventMatches
  <1> QED
    BY <1>1, <1>2, AuditCommitChange DEF UpdateCommit

\* The event of a rollback names an older version with the same content.
LEMMA AuditRollbackCommit ==
    ASSUME AuditInv, HistoryInv', NEW s \in Sessions, RollbackCommit(s)
    PROVE  AuditInv'
  <1> DEFINE q == session[s]
             event == [action |-> "rollback", to_version |-> q.to]
             old == [id |-> q.id, version |-> q.to, content |-> q.content]
             new == [id |-> q.id, version |-> q.seen + 1, content |-> q.content]
  <1>1. event \in AuditRows
    BY SessionFields DEF AuditInv, HistoryInv, TypeOK, RollbackCommit, AuditRows
  <1>2. memories[q.id].version = q.seen
    BY CommitChangeHistory DEF AuditInv, HistoryInv, RollbackCommit
  <1>3. old \in versions
    BY DEF AuditInv, HistoryInv, SnapshotsInHistory, RollbackCommit
  <1>4. q.to \in 1..q.seen
    BY <1>2, <1>3 DEF AuditInv, HistoryInv, HistoryComplete, NumberedFromOne
  <1>5. old \in versions' /\ new \in versions'
    BY <1>3 DEF RollbackCommit, CommitChange
  <1>6. EventMatches(versions', q.id, q.seen, event)
    <2>1. /\ old.id = q.id /\ old.version = q.to
          /\ new.id = q.id /\ new.version = q.seen + 1
          /\ old.content = new.content
      OBVIOUS
    <2>2. event.action = "rollback" /\ event.to_version = q.to
      OBVIOUS
    <2> QED
      BY <1>4, <1>5, <2>1, <2>2 DEF EventMatches
  <1> QED
    BY <1>1, <1>6, AuditCommitChange DEF RollbackCommit

\* AuditInv is inductive.
LEMMA AuditNext == AuditInv /\ [Next]_vars => AuditInv'
  <1> SUFFICES ASSUME AuditInv, [Next]_vars PROVE AuditInv'
    OBVIOUS
  <1>1. HistoryInv'
    BY HistoryNext DEF AuditInv
  <1>2. CASE UNCHANGED vars
    BY <1>1, <1>2, AuditQuiet DEF vars
  <1>3. ASSUME NEW s \in Sessions, Step(s)
        PROVE  AuditInv'
    <2>1. CASE StoreInsert(s) \/ UpdateCommit(s) \/ RollbackCommit(s)
      BY <1>1, <2>1, AuditStoreInsert, AuditUpdateCommit, AuditRollbackCommit
    <2>2. CASE ~(StoreInsert(s) \/ UpdateCommit(s) \/ RollbackCommit(s))
      <3>1. UNCHANGED <<memories, versions, evidence, changes>>
        BY <1>3, <2>2 DEF Step, Store, Update, Rollback, EnsureTenant, AddTenant,
           AddTenantConflict, StoreRead, StoreConflict, StoreTouch, UpdateRead,
           UpdateStale, RollbackRead, RollbackFind, RollbackNotFound, NotFound,
           ChangeConflict, ChangeStaleData, Crash, Raise, tables
      <3> QED
        BY <1>1, <3>1, AuditQuiet
    <2> QED
      BY <2>1, <2>2
  <1> QED
    BY <1>2, <1>3 DEF Next

\* The n-th change event of a memory made its version n + 1: updates carry
\* that number, and a rollback repeats the content of the version it names.
THEOREM AuditAlwaysAccounts == Spec => []AuditAccountsForHistory
  <1>1. AuditInv => AuditAccountsForHistory
    BY DEF AuditInv
  <1> QED
    BY <1>1, AuditInit, AuditNext, PTL DEF Spec

\* Every stored memory has exactly one evidence row, and no other has one.
THEOREM EvidenceAlwaysOnce == Spec => []EvidenceOnce
  <1>1. AuditInv => EvidenceOnce
    BY DEF AuditInv
  <1> QED
    BY <1>1, AuditInit, AuditNext, PTL DEF Spec

------------------------------------------------------------------------------
(* The audit trail tells how a memory was embedded *)

\* The counters of write events and the embedding of a row are kept together.
EmbeddingInv == TypeOK /\ EmbeddingAudited

\* Counting a write event takes nothing off any counter.
LEMMA WritesGrow ==
    ASSUME TypeOK, NEW s \in Sessions, NEW id \in Ids, AuditWrite(s, id)
    PROVE  /\ \A i \in Ids : /\ writes'[i].available >= writes[i].available
                            /\ writes'[i].degraded >= writes[i].degraded
           /\ s \in Degraded => writes'[id].degraded > 0
           /\ s \notin Degraded => writes'[id].available > 0
  BY DEF TypeOK, AuditWrite

\* A step that keeps the embedding of every row and takes off no event.
LEMMA EmbeddingKept ==
    ASSUME EmbeddingInv, TypeOK', DOMAIN memories' = DOMAIN memories,
           \A id \in DOMAIN memories :
               /\ memories'[id].embedded = memories[id].embedded
               /\ writes'[id].available >= writes[id].available
               /\ writes'[id].degraded >= writes[id].degraded
    PROVE  EmbeddingInv'
  <1>1. \A id \in DOMAIN memories :
            /\ id \in Ids
            /\ writes[id].available \in Nat /\ writes[id].degraded \in Nat
            /\ writes'[id].available \in Nat /\ writes'[id].degraded \in Nat
    BY DEF EmbeddingInv, TypeOK
  <1> QED
    BY <1>1 DEF EmbeddingInv, EmbeddingAudited

\* A step that touches neither the rows nor the counters.
LEMMA EmbeddingQuiet ==
    ASSUME EmbeddingInv, TypeOK', UNCHANGED <<memories, writes>>
    PROVE  EmbeddingInv'
  BY DEF EmbeddingInv, EmbeddingAudited

\* EmbeddingInv is inductive: the first store writes the row and the event
\* that says how it was embedded, and a change keeps the embedding.
LEMMA EmbeddingNext == EmbeddingInv /\ [Next]_vars => EmbeddingInv'
  <1> SUFFICES ASSUME EmbeddingInv, [Next]_vars PROVE EmbeddingInv'
    OBVIOUS
  <1>1. TypeOK'
    BY TypeNext DEF EmbeddingInv
  <1>2. CASE UNCHANGED vars
    BY <1>1, <1>2, EmbeddingQuiet DEF vars
  <1>3. ASSUME NEW s \in Sessions, StoreInsert(s)
        PROVE  EmbeddingInv'
    <2> DEFINE id == session[s].id
    <2>1. id \in Ids
      BY <1>3, SessionFields DEF EmbeddingInv, TypeOK, StoreInsert
    <2>2. /\ DOMAIN memories' = DOMAIN memories \cup {id}
          /\ memories'[id].embedded = (s \notin Degraded)
          /\ \A i \in DOMAIN memories : i # id => memories'[i] = memories[i]
      BY <1>3 DEF StoreInsert, PutRow
    <2>3. /\ \A i \in Ids : /\ writes'[i].available >= writes[i].available
                            /\ writes'[i].degraded >= writes[i].degraded
          /\ s \in Degraded => writes'[id].degraded > 0
          /\ s \notin Degraded => writes'[id].available > 0
      BY <1>3, <2>1, WritesGrow DEF EmbeddingInv, StoreInsert
    <2>4. \A i \in Ids :
              /\ writes[i].available \in Nat /\ writes[i].degraded \in Nat
              /\ writes'[i].available \in Nat /\ writes'[i].degraded \in Nat
      BY <1>1 DEF EmbeddingInv, TypeOK
    <2>5. ASSUME NEW i \in DOMAIN memories'
          PROVE  IF memories'[i].embedded THEN writes'[i].available > 0
                                          ELSE writes'[i].degraded > 0
      <3>1. CASE i = id
        BY <2>2, <2>3, <3>1
      <3>2. CASE i # id
        <4>1. i \in DOMAIN memories /\ i \in Ids /\ memories'[i] = memories[i]
          BY <2>2, <3>2 DEF EmbeddingInv, TypeOK
        <4> QED
          BY <2>3, <2>4, <4>1 DEF EmbeddingInv, EmbeddingAudited
      <3> QED
        BY <3>1, <3>2
    <2> QED
      BY <1>1, <2>5 DEF EmbeddingInv, EmbeddingAudited
  <1>4. ASSUME NEW s \in Sessions, StoreTouch(s)
        PROVE  EmbeddingInv'
    <2>1. session[s].id \in Ids
      BY <1>4, SessionFields DEF EmbeddingInv, TypeOK, StoreTouch
    <2>2. DOMAIN memories \subseteq Ids /\ memories' = memories
      BY <1>4 DEF EmbeddingInv, TypeOK, StoreTouch
    <2> QED
      BY <1>1, <1>4, <2>1, <2>2, WritesGrow, EmbeddingKept
         DEF EmbeddingInv, StoreTouch
  <1>5. ASSUME NEW s \in Sessions, UpdateCommit(s) \/ RollbackCommit(s)
        PROVE  EmbeddingInv'
    <2> DEFINE q == session[s]
    <2>1. \E event : CommitChange(s, event)
      BY <1>5 DEF UpdateCommit, RollbackCommit
    <2>2. Stored(q.id) /\ writes' = writes
      BY <2>1 DEF CommitChange
    <2>3. memories[q.id] \in MemoryRows
      BY <2>2 DEF EmbeddingInv, TypeOK, Stored
    <2>4. Flushed(q.id, q.content, q.loaded, q.seen + 1).embedded
              = memories[q.id].embedded
      BY <2>3 DEF Flushed, MemoryRows
    <2>5. /\ DOMAIN memories' = DOMAIN memories
          /\ \A i \in DOMAIN memories :
                 memories'[i].embedded = memories[i].embedded
      BY <2>1, <2>2, <2>4 DEF CommitChange, PutRow, Stored
    <2>6. \A i \in DOMAIN memories :
              writes[i].available \in Nat /\ writes[i].degraded \in Nat
      BY DEF EmbeddingInv, TypeOK
    <2> QED
      BY <1>1, <2>2, <2>5, <2>6, EmbeddingKept
  <1>6. ASSUME NEW s \in Sessions, Step(s),
               ~(StoreInsert(s) \/ StoreTouch(s)),
               ~(UpdateCommit(s) \/ RollbackCommit(s))
        PROVE  EmbeddingInv'
    <2>1. UNCHANGED <<memories, writes>>
      BY <1>6 DEF Step, Store, Update, Rollback, EnsureTenant, AddTenant,
         AddTenantConflict, StoreRead, StoreConflict, UpdateRead,
         UpdateStale, RollbackRead, RollbackFind, RollbackNotFound, NotFound,
         ChangeConflict, ChangeStaleData, Crash, Raise, tables
    <2> QED
      BY <1>1, <2>1, EmbeddingQuiet
  <1> QED
    BY <1>2, <1>3, <1>4, <1>5, <1>6 DEF Next

\* A memory stored without a vector always has a write event that says so,
\* and one stored with a vector has one that says Qdrant was available.
THEOREM EmbeddingAlwaysAudited == Spec => []EmbeddingAudited
  <1>1. Init => EmbeddingInv
    BY TypeInit DEF Init, EmbeddingInv, EmbeddingAudited
  <1>2. EmbeddingInv => EmbeddingAudited
    BY DEF EmbeddingInv
  <1> QED
    BY <1>1, <1>2, EmbeddingNext, PTL DEF Spec


------------------------------------------------------------------------------
(* The store with records.clear() in the middle of requests *)

\* With clear, a snapshot may have lost its rows, so HistoryInv is not kept;
\* what is left needs nothing but the types.
OrphanInv == TypeOK /\ NoOrphans

\* clear leaves every table empty.
LEMMA ClearOrphans == OrphanInv /\ Clear => OrphanInv'
  <1> SUFFICES ASSUME OrphanInv, Clear PROVE OrphanInv'
    OBVIOUS
  <1>1. TypeOK'
    BY DEF OrphanInv, TypeOK, Clear, VersionRows, MemoryRows
  <1>2. NoOrphans'
    BY DEF NoOrphans, Clear
  <1> QED
    BY <1>1, <1>2 DEF OrphanInv

\* A transaction that writes the row of a memory and the row of its version.
LEMMA OrphanCommit ==
    ASSUME OrphanInv, TypeOK', NEW id, NEW row, NEW c, PutRow(id, row),
           versions' = versions \cup
               {[id |-> id, version |-> row.version, content |-> c]}
    PROVE  OrphanInv'
  <1> DEFINE new == [id |-> id, version |-> row.version, content |-> c]
  <1>1. /\ DOMAIN memories' = DOMAIN memories \cup {id}
        /\ memories'[id] = row
        /\ \A i \in DOMAIN memories : i # id => memories'[i] = memories[i]
    BY DEF PutRow
  <1>2. \A r \in versions' : Stored(r.id)'
    BY <1>1 DEF OrphanInv, NoOrphans, Stored
  <1>3. ASSUME NEW i \in DOMAIN memories'
        PROVE  HasVersion(i, memories[i].version)'
    <2>1. CASE i = id
      <3>1. new \in versions' /\ new.id = id /\ new.version = memories'[id].version
        BY <1>1
      <3> QED
        BY <2>1, <3>1 DEF HasVersion
    <2>2. CASE i # id
      <3>1. i \in DOMAIN memories /\ memories'[i] = memories[i]
        BY <1>1, <2>2
      <3> QED
        BY <3>1 DEF OrphanInv, NoOrphans, HasVersion
    <2> QED
      BY <2>1, <2>2
  <1> QED
    BY <1>2, <1>3 DEF OrphanInv, NoOrphans

\* OrphanInv is inductive, clear included.
LEMMA OrphanNext == OrphanInv /\ [Next \/ Clear]_vars => OrphanInv'
  <1> SUFFICES ASSUME OrphanInv, [Next \/ Clear]_vars PROVE OrphanInv'
    OBVIOUS
  <1>1. CASE Clear
    BY <1>1, ClearOrphans
  <1>2. ASSUME TypeOK', UNCHANGED <<memories, versions>>
        PROVE  OrphanInv'
    BY <1>2 DEF OrphanInv, NoOrphans, Stored, HasVersion
  <1>3. CASE UNCHANGED vars
    BY <1>2, <1>3, TypeNext DEF OrphanInv, vars
  <1>4. ASSUME NEW s \in Sessions, Step(s)
        PROVE  OrphanInv'
    <2>1. TypeOK'
      BY <1>4, TypeNext DEF OrphanInv, Next
    <2>2. CASE StoreInsert(s)
      <3> DEFINE row == [version |-> 1, content |-> FirstContent(session[s].id),
                         embedded |-> s \notin Degraded]
      <3>1. row.version = 1 /\ PutRow(session[s].id, row)
        BY <2>2 DEF StoreInsert
      <3>2. versions' = versions \cup
                {[id |-> session[s].id, version |-> 1,
                  content |-> FirstContent(session[s].id)]}
        BY <2>2 DEF StoreInsert
      <3> HIDE DEF row
      <3> QED
        BY <2>1, <3>1, <3>2, OrphanCommit
    <2>3. CASE UpdateCommit(s) \/ RollbackCommit(s)
      <3> DEFINE q == session[s]
                 row == Flushed(q.id, q.content, q.loaded, q.seen + 1)
      <3>1. \E event : CommitChange(s, event)
        BY <2>3 DEF UpdateCommit, RollbackCommit
      <3>2. memories[q.id] \in MemoryRows
        BY <3>1 DEF OrphanInv, TypeOK, CommitChange, Stored
      <3>3. row.version = q.seen + 1
        BY <3>2 DEF Flushed, MemoryRows
      <3>4. /\ PutRow(q.id, row)
            /\ versions' = versions \cup
                   {[id |-> q.id, version |-> q.seen + 1, content |-> q.content]}
        BY <3>1 DEF CommitChange
      <3> HIDE DEF row
      <3> QED
        BY <2>1, <3>3, <3>4, OrphanCommit
    <2>4. CASE ~(StoreInsert(s) \/ UpdateCommit(s) \/ RollbackCommit(s))
      <3>1. UNCHANGED <<memories, versions>>
        BY <1>4, <2>4 DEF Step, Store, Update, Rollback, EnsureTenant, AddTenant,
           AddTenantConflict, StoreRead, StoreConflict, StoreTouch, UpdateRead,
           UpdateStale, RollbackRead, RollbackFind, RollbackNotFound, NotFound,
           ChangeConflict, ChangeStaleData, Crash, Raise, tables
      <3> QED
        BY <1>2, <2>1, <3>1
    <2> QED
      BY <2>2, <2>3, <2>4
  <1> QED
    BY <1>1, <1>3, <1>4 DEF Next

\* With records.clear() at any moment, no version row is without its memory
\* and no memory without the row of its current version.
THEOREM ClearLeavesNoOrphans == SpecWithClear => []NoOrphans
  <1>1. Init => OrphanInv
    BY TypeInit DEF Init, OrphanInv, NoOrphans
  <1>2. OrphanInv => NoOrphans
    BY DEF OrphanInv
  <1> QED
    BY <1>1, <1>2, OrphanNext, PTL DEF SpecWithClear

------------------------------------------------------------------------------
(* The store implements VersionedMemory *)

\* The length of the history of memory id.
Height(id) == IF Stored(id) THEN memories[id].version ELSE 0

\* The content of version v of memory id.
ContentAt(id, v) == (CHOOSE r \in versions : r.id = id /\ r.version = v).content

\* The mapped history of memory id, in those terms.
LEMMA HistoryOf ==
    ASSUME NEW id \in Ids
    PROVE  History[id] = [v \in 1..Height(id) |-> ContentAt(id, v)]
  BY DEF History, Height, ContentAt

\* Numbers of a complete history name one row each.
LEMMA ContentOfRow ==
    ASSUME HistoryInv, NEW r \in versions
    PROVE  ContentAt(r.id, r.version) = r.content
  <1> DEFINE x == CHOOSE w \in versions : w.id = r.id /\ w.version = r.version
  <1>1. x \in versions /\ x.id = r.id /\ x.version = r.version
    OBVIOUS
  <1>2. x = r
    BY <1>1 DEF HistoryInv, HistoryComplete, NumberedOnce
  <1> QED
    BY <1>2 DEF ContentAt

\* A step that leaves memories and versions alone leaves the history alone.
LEMMA SameHistory ==
    ASSUME UNCHANGED <<memories, versions>>
    PROVE  UNCHANGED History
  BY DEF History, Stored

\* The row of version v is added for memory id, at the end of its history.
LEMMA HistoryGrows ==
    ASSUME HistoryInv, HistoryInv', NEW id \in Ids, NEW c,
           Height(id)' = Height(id) + 1,
           \A i \in Ids : i # id => Height(i)' = Height(i),
           versions' = versions \cup
               {[id |-> id, version |-> Height(id) + 1, content |-> c]}
    PROVE  /\ History' = [History EXCEPT ![id] =
                              [v \in 1..(Height(id) + 1) |->
                                  IF v = Height(id) + 1 THEN c ELSE @[v]]]
           /\ Height(id) \in Nat
  <1> DEFINE n == Height(id)
             new == [id |-> id, version |-> n + 1, content |-> c]
  <1>1. \A i \in Ids : Height(i) \in Nat
    BY DEF HistoryInv, TypeOK, MemoryRows, Height, Stored
  <1> DEFINE later(i, v) ==
                 (CHOOSE r \in versions' : r.id = i /\ r.version = v).content
  <1>2. \A w \in versions' : later(w.id, w.version) = w.content
    <2> SUFFICES ASSUME NEW w \in versions'
                 PROVE  later(w.id, w.version) = w.content
      OBVIOUS
    <2> DEFINE x == CHOOSE y \in versions' : y.id = w.id /\ y.version = w.version
    <2>1. x \in versions' /\ x.id = w.id /\ x.version = w.version
      OBVIOUS
    <2>2. x = w
      BY <2>1 DEF HistoryInv, HistoryComplete, NumberedOnce
    <2> QED
      BY <2>2
  <1>3. ASSUME NEW i \in Ids
        PROVE  History'[i] = [v \in 1..Height(i)' |-> later(i, v)]
    BY DEF History, Height
  <1> HIDE DEF later
  <1>4. ASSUME NEW i \in Ids, NEW v \in 1..Height(i)
        PROVE  later(i, v) = ContentAt(i, v)
    <2>1. PICK r \in versions : r.id = i /\ r.version = v
      BY <1>4 DEF HistoryInv, HistoryComplete, NumberedFromOne, HasVersion,
                  Height, Stored
    <2>2. r \in versions' /\ ContentAt(i, v) = r.content
      BY <2>1, ContentOfRow
    <2> QED
      BY <1>2, <2>1, <2>2
  <1>5. ASSUME NEW i \in Ids, i # id
        PROVE  History'[i] = History[i]
    BY <1>3, <1>4, <1>5, HistoryOf
  <1>6. History'[id] = [v \in 1..(n + 1) |->
                            IF v = n + 1 THEN c ELSE History[id][v]]
    <2>1. later(id, n + 1) = c
      <3>1. /\ new \in versions' /\ new.id = id
            /\ new.version = n + 1 /\ new.content = c
        OBVIOUS
      <3> QED
        BY <1>2, <3>1
    <2>2. \A v \in 1..(n + 1) : v # n + 1 => v \in 1..n
      BY <1>1
    <2>3. History[id] = [v \in 1..n |-> ContentAt(id, v)]
      BY HistoryOf
    <2>4. History'[id] = [v \in 1..(n + 1) |-> later(id, v)]
      BY <1>3
    <2> HIDE DEF n
    <2>5. \A v \in 1..n : later(id, v) = History[id][v]
      BY <1>4, <2>3 DEF n
    <2> QED
      BY <2>1, <2>2, <2>4, <2>5
  <1>7. /\ History = [i \in Ids |-> History[i]]
        /\ History' = [i \in Ids |-> History'[i]]
    BY DEF History
  <1> QED
    BY <1>1, <1>5, <1>6, <1>7 DEF n

\* A function on no index is the empty sequence.
LEMMA NoEntries ==
    ASSUME NEW n, n = 0, NEW f, f = [v \in 1..n |-> f[v]]
    PROVE  f = <<>>
  <1>1. f \in Seq({}) /\ Len(f) = 0
    OBVIOUS
  <1> QED
    BY <1>1, EmptySeq

\* A function on one index is a sequence of one element.
LEMMA OneEntry ==
    ASSUME NEW n, n = 0, NEW c, NEW f
    PROVE  [v \in 1..(n + 1) |-> IF v = n + 1 THEN c ELSE f[v]] = <<c>>
  <1> DEFINE g == [v \in 1..(n + 1) |-> IF v = n + 1 THEN c ELSE f[v]]
  <1>1. g \in Seq({c}) /\ Len(g) = 1 /\ g[1] = c
    OBVIOUS
  <1>2. <<c>> \in Seq({c}) /\ Len(<<c>>) = 1 /\ <<c>>[1] = c
    OBVIOUS
  <1> HIDE DEF g
  <1>3. g = <<c>>
    BY <1>1, <1>2, SeqEqual
  <1> QED
    BY <1>3 DEF g

\* The first store of a memory creates its history.
LEMMA StoreInsertCreates ==
    ASSUME HistoryInv, HistoryInv', NEW s \in Sessions, StoreInsert(s)
    PROVE  Versioned!Next
  <1>0. PICK id \in Ids : id = session[s].id
    BY SessionFields DEF HistoryInv, TypeOK, StoreInsert
  <1>1. ~Stored(id)
    BY <1>0 DEF StoreInsert
  <1>2. /\ Height(id) = 0 /\ Height(id)' = Height(id) + 1
        /\ \A i \in Ids : i # id => Height(i)' = Height(i)
    BY <1>0, <1>1 DEF StoreInsert, PutRow, Height, Stored
  <1>3. versions' = versions \cup
            {[id |-> id, version |-> Height(id) + 1, content |-> FirstContent(id)]}
    BY <1>0, <1>2 DEF StoreInsert
  <1>4. History' = [History EXCEPT ![id] =
                        [v \in 1..(Height(id) + 1) |->
                            IF v = Height(id) + 1 THEN FirstContent(id) ELSE @[v]]]
    BY <1>1, <1>2, <1>3, HistoryGrows
  <1>5. History[id] = <<>>
    <2>1. History[id] = [v \in 1..Height(id) |-> History[id][v]]
      BY HistoryOf
    <2> QED
      BY <1>2, <2>1, NoEntries
  <1>6. [v \in 1..(Height(id) + 1) |->
            IF v = Height(id) + 1 THEN FirstContent(id) ELSE History[id][v]]
        = <<FirstContent(id)>>
    BY <1>2, OneEntry
  <1>7. History' = [History EXCEPT ![id] = <<FirstContent(id)>>]
    BY <1>4, <1>6
  <1> QED
    BY <1>1, <1>5, <1>7 DEF Versioned!Next, Versioned!Create

\* Every committed update and rollback adds one version to one history.
LEMMA CommitChangeChanges ==
    ASSUME HistoryInv, HistoryInv', NEW s \in Sessions, NEW event,
           session[s].at \in {"update", "rollback"}, CommitChange(s, event)
    PROVE  Versioned!Next
  <1>0. PICK id \in Ids, c \in Contents :
            id = session[s].id /\ c = session[s].content
    BY SessionFields DEF HistoryInv, TypeOK
  <1> DEFINE q == session[s]
             n == Height(id)
  <1>2. /\ Stored(id) /\ q.seen \in Nat \ {0}
        /\ memories[id].version = q.seen
        /\ memories'[id].version = q.seen + 1
    BY <1>0, CommitChangeHistory DEF HistoryInv
  <1>3. /\ n = q.seen /\ Height(id)' = Height(id) + 1
        /\ \A i \in Ids : i # id => Height(i)' = Height(i)
    BY <1>0, <1>2 DEF CommitChange, PutRow, Height, Stored
  <1>4. versions' = versions \cup
            {[id |-> id, version |-> n + 1, content |-> c]}
    BY <1>0, <1>3 DEF CommitChange
  <1>5. History' = [History EXCEPT ![id] =
                        [v \in 1..(n + 1) |->
                            IF v = n + 1 THEN c ELSE @[v]]]
    BY <1>3, <1>4, HistoryGrows
  <1>6. History[id] = [v \in 1..n |-> ContentAt(id, v)]
    BY HistoryOf
  <1> HIDE DEF n
  <1>7. /\ History[id] # <<>>
        /\ Append(History[id], c)
               = [v \in 1..(n + 1) |->
                     IF v = n + 1 THEN c ELSE History[id][v]]
    BY <1>2, <1>3, <1>6
  <1>8. History' = [History EXCEPT ![id] = Append(@, c)]
    BY <1>5, <1>7
  <1> QED
    BY <1>7, <1>8 DEF Versioned!Next, Versioned!Change

\* Every behaviour of the concurrent sessions over the tables is one of
\* VersionedMemory: a commit is one Create or one Change, the rest stutters.
THEOREM StoreImplementsVersionedMemory == Spec => ImplementsVersionedMemory
  <1>1. Init => Versioned!Init
    BY DEF Init, Versioned!Init, History, Stored
  <1>2. HistoryInv /\ HistoryInv' /\ [Next]_vars => [Versioned!Next]_History
    <2> SUFFICES ASSUME HistoryInv, HistoryInv', [Next]_vars
                 PROVE  Versioned!Next \/ UNCHANGED History
      OBVIOUS
    <2>1. CASE UNCHANGED vars
      BY <2>1, SameHistory DEF vars
    <2>2. ASSUME NEW s \in Sessions, Step(s)
          PROVE  Versioned!Next \/ UNCHANGED History
      <3>1. CASE StoreInsert(s)
        BY <3>1, StoreInsertCreates
      <3>2. CASE UpdateCommit(s) \/ RollbackCommit(s)
        BY <3>2, CommitChangeChanges DEF UpdateCommit, RollbackCommit
      <3>3. CASE ~(StoreInsert(s) \/ UpdateCommit(s) \/ RollbackCommit(s))
        <4>1. UNCHANGED <<memories, versions>>
          BY <2>2, <3>3 DEF Step, Store, Update, Rollback, EnsureTenant,
             AddTenant, AddTenantConflict, StoreRead, StoreConflict, StoreTouch,
             UpdateRead, UpdateStale, RollbackRead, RollbackFind,
             RollbackNotFound, NotFound, ChangeConflict, ChangeStaleData,
             Crash, Raise, tables
        <4> QED
          BY <4>1, SameHistory
      <3> QED
        BY <3>1, <3>2, <3>3
    <2> QED
      BY <2>1, <2>2 DEF Next
  <1> QED
    BY <1>1, <1>2, HistoryInit, HistoryNext, PTL
       DEF Spec, ImplementsVersionedMemory, Versioned!Spec

=============================================================================
