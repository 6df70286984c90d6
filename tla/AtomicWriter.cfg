SPECIFICATION FairSpec
CONSTANTS
    Payloads <- MCPayloads
    TooLong <- MCTooLong
    Reserved <- MCReserved
    Dirs = {d1, d2, d3}
    NoDir = NoDir
    Elsewhere = Elsewhere
    Systems = {"linux", "windows"}
    Failing <- AnyFailure
    MaxFaults = 2
INVARIANTS
    TypeOK
    OKIsShown
PROPERTIES
    AtomicFilesSpec
    WritesSucceed
