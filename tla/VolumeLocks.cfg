SPECIFICATION FairSpec
CONSTANTS
    Callers = {c1, c2, c3}
    Volumes = {v1, v2}
    Nobody = Nobody
INVARIANTS
    TypeOK
    MutualExclusion
PROPERTIES
    EveryCallReturns
    MutexSpec
