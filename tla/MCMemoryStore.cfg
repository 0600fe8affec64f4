CONSTANTS
    Sessions = {s1, s2}
    Degraded = {s2}
    Tenants = {t1}
    Kinds = {k1}
    Contents = {c1, c2}
    MaxVersion = 3
    MaxWrites = 1
SPECIFICATION Spec
SYMMETRY ContentSymmetry
INVARIANTS
    TypeOK
    HistoryComplete
    SnapshotsInHistory
    AuditAccountsForHistory
    EvidenceOnce
    EmbeddingAudited
PROPERTIES
    ConflictMeansProgress
    ImplementsVersionedMemory
