SPECIFICATION FairSpec
CONSTANTS
    Stoppers = {s1}
    Calls = {c1, c2}
    IdentityServers <- MCIdentityServers
    ControllerServers <- MCControllerServers
    NodeServers <- Expands
CHECK_DEADLOCK FALSE
INVARIANTS
    TypeOK
    NothingRunsAfter
    CheckedIsServed
PROPERTIES
    StopsEnd
    NoGoroutineStays
