SPECIFICATION PSpec
CONSTANTS
    Callers = {c1, c2}
    Volumes = {v1, v2}
    NoID = NoID
    EmptyContext = EmptyContext
    WithGroup = WithGroup
    LargestGroup = LargestGroup
    ZeroGroup = ZeroGroup
    TooLarge = TooLarge
    Contexts = {EmptyContext, ZeroGroup, TooLarge, WithGroup}
    Registered = {EmptyContext, WithGroup}
    Written = {ZeroGroup, TooLarge, WithGroup}
    Payloads = {p1}
    NoFiles = NoFiles
    GroupIn <- MCGroupIn
    MaxGroup = 2
    FixedFSGroup = NoGroup
    NoGroup = NoGroup
    BadGroup = BadGroup
    AbsoluteBase = FALSE
    Failing = {"mkdir", "open", "read", "write", "chown", "files", "remove", "crash"}
    MaxFaults = 1
SYMMETRY Symmetric
INVARIANTS
    TypeOK
    WrittenAreReadable
    RegisteredIsStored
    ListIsExact
    
