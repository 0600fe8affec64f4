CONSTANTS
    Sessions = {s1, s2}
    Degraded = {}
    Tenants = {t1}
    Kinds = {k1}
    Contents = {c1, c2}
    MaxVersion = 3
    MaxWrites = 1
SPECIFICATION SpecWithClear
SYMMETRY ContentSymmetry
INVARIANTS
    NoOrphans
