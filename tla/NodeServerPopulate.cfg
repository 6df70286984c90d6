SPECIFICATION FairSpec
CONSTANTS
    Calls = {c1, c2}
    Volumes = {v1}
    Targets = {t1}
    VolumeOf <- MCVolumeOf
    NoDevice = NoDevice
    OtherDevice = OtherDevice
    Implements = {"Block", "Populate"}
    MountSource = "none"
    AccessTypes = {"block", "mount"}
    BareNodes = TRUE
    SafeUmount = TRUE
    Failing <- AnyFailure
    MaxFaults = 1
    MaxStack = 1
INVARIANTS
    ChecksHoldAtUse
    OKIsTrue
PROPERTIES
    NoVolumeStaysLocked
    EveryCallEnds
