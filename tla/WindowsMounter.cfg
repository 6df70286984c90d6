SPECIFICATION Spec
SYMMETRY Symmetry
CONSTANTS
    Disks = {d1, d2}
    NoDisk = NoDisk
    Numbers = {n1, n2}
    Failing = {"partition", "online", "format", "mount", "unmount", "rmdir", "number", "offline", "clear"}
    MaxFaults = 2
    MaxLeaves = 1
INVARIANTS
    DataIsKept
    NilIsTrue
