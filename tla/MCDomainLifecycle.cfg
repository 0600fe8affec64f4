CONSTANTS
    Actors = {a1, a2, a3}
    MaxVersion = 5
SPECIFICATION Spec
SYMMETRY ActorSymmetry
CHECK_DEADLOCK FALSE
INVARIANTS
    LogReplays
    CurrentVersionCurrentState
PROPERTIES
    FinalStays
