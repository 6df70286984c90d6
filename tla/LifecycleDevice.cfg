SPECIFICATION LSpec
CONSTANTS
    Calls = {c1, c2, c3}
    Volumes = {v1}
    Targets = {t1, t2}
    VolumeOf <- MCVolumeOf
    NoDevice = NoDevice
    OtherDevice = OtherDevice
    Implements = {"Block", "Mount"}
    MountSource = "device"
    AccessTypes = {"mount"}
    BareNodes = FALSE
    SafeUmount = TRUE
    Failing = {"attach", "ask", "mount", "remount", "mountTable", "unmount", "remove", "detach", "crash"}
    MaxFaults = 3
    MaxStack = 2
    Impatient = {"Stage", "Publish"}
    CreatesTargets = TRUE
SYMMETRY Symmetric
INVARIANTS
    LTypeOK
    UpIsServed
    DownIsGone
    AttachedIsMounted
PROPERTIES
    LifecycleSpec
