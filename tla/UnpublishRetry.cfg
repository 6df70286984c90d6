SPECIFICATION LFairSpec
CONSTANTS
    Calls = {c1, c2}
    Volumes = {v1}
    Targets = {t1}
    VolumeOf <- MCVolumeOf
    NoDevice = NoDevice
    OtherDevice = OtherDevice
    Implements = {"Block", "Mount"}
    MountSource = "device"
    AccessTypes = {"mount"}
    BareNodes = FALSE
    SafeUmount = TRUE
    Failing = {}
    MaxFaults = 1
    MaxStack = 2
    Impatient = {"Unpublish"}
    CreatesTargets = TRUE
PROPERTIES
    ComesDown
