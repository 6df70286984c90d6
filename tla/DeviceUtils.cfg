SPECIFICATION FairSpec
CONSTANTS
    Nodes = {sda, sdb, dm0}
    Known = {sda, sdb}
    NoNode = NoNode
    Disks = {wanted, other}
    NoDisk = NoDisk
    Wanted = wanted
    Failing = {"tools", "stat", "serial", "udevadm"}
    MaxFaults = 1
    MaxChanges = 2
    MinTries = 2
INVARIANTS
    TrueIsTrue
    WrongPathIsRepaired
PROPERTIES
    VerifyEnds
