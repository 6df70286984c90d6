SPECIFICATION LFairSpec
CONSTANTS
    Calls = {c1, c2}
    Volumes = {v1}
    Targets = {t1}
    VolumeOf <- MCVolumeOf
    NoDevice = NoDevice
    OtherDevice = OtherDevice
    Implements = {"Block", "Mount"}
    MountSource = "device"
    AccessTypes = {"mount"}
    BareNodes = FALSE
    SafeUmount = TRUE
    Failing = {"attach", "ask", "mount", "remount", "mountTable", "unmount", "remove", "detach", "crash"}
    MaxFaults = 2
    MaxStack = 2
    Impatient = {"Stage", "Publish"}
    CreatesTargets = TRUE
PROPERTIES
    ComesUpOrIsThere
    ComesDownOrIsGone
