SPECIFICATION Spec
CONSTANTS
    Calls = {c1, c2}
    Volumes = {v1}
    Targets = {t1}
    VolumeOf <- MCVolumeOf
    NoDevice = NoDevice
    OtherDevice = OtherDevice
    Implements = {"Block", "Mount"}
    MountSource = "device"
    AccessTypes = {"mount"}
    BareNodes = FALSE
    SafeUmount = TRUE
    Failing <- AnyFailure
    MaxFaults = 1
    MaxStack = 2
SYMMETRY Symmetric
INVARIANTS
    TypeOK
    LockDiscipline
    
    OKIsTrue
    NeverDeletesData
PROPERTIES
    DetachesUnmounted
