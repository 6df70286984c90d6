SPECIFICATION PSpec
CONSTANTS
    Callers = {c1}
    Volumes = {v1}
    NoID = NoID
    EmptyContext = EmptyContext
    WithGroup = WithGroup
    LargestGroup = LargestGroup
    ZeroGroup = ZeroGroup
    TooLarge = TooLarge
    Contexts = {EmptyContext, WithGroup}
    Registered = {EmptyContext, WithGroup}
    Written = {EmptyContext}
    Payloads = {p1}
    NoFiles = NoFiles
    GroupIn <- MCGroupIn
    MaxGroup = 2
    FixedFSGroup = NoGroup
    NoGroup = NoGroup
    BadGroup = BadGroup
    AbsoluteBase = FALSE
    Failing = {"write", "crash"}
    MaxFaults = 1
INVARIANTS
    TrueMeansWritten
