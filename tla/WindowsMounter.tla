--------------------------- MODULE WindowsMounter ---------------------------
(***************************************************************************)
(* CSIProxyMounterV1 of src/mount-manager/safe-mounter-v1_windows.go and   *)
(* the helpers of src/node/utils_windows.go over it, one step per call of  *)
(* CSI proxy.  The proxy and Windows are modelled from how they are used:  *)
(* a disk holds one volume, whose ID never changes, whereas the number of  *)
(* a disk is given to another one when it leaves.                          *)
(*                                                                         *)
(* Nothing under src/ calls these helpers.  That a caller makes one call   *)
(* at a time for a disk, and which helper it calls for which operation, is *)
(* what this module assumes of it (Begin, FirstStep), not something that   *)
(* the code shows.                                                         *)
(***************************************************************************)
EXTENDS Naturals

CONSTANTS
    Disks,          \* the disks; also the names of their volumes
    NoDisk,
    Numbers,        \* the disk numbers
    Failing,        \* the steps whose call may fail
    MaxFaults,      \* bound: failing calls and crashes in a behaviour
    MaxLeaves       \* bound: disks that leave in a behaviour

ASSUME WindowsAssumption ==
    /\ NoDisk \notin Disks \cup Numbers /\ Disks \cap Numbers = {}
    /\ MaxFaults \in Nat /\ MaxLeaves \in Nat

VARIABLES
    number,         \* the disk that has each number
    partitioned, online, formatted,     \* sets of disks
    data,           \* the disks that an application has written to
    staging,        \* the disks whose staging path exists
    shows,          \* the volume mounted on the staging path of each disk
    target,         \* the target path of each disk: absent, dir or link
    pc, op,         \* the call in progress for each disk
    at,             \* its diskNumber or its volumeID: it never needs both
    nil,            \* whether its result is nil
    faults, leaves

\* History: disks whose data was deleted; disks whose UnmountDevice ended between
\* Rmdir and SetDiskState; whether a disk ever left while it was in use; whether two
\* calls ever worked on one volume, which a disk that leaves can bring about.
VARIABLES lost, left, torn, mixed

windows == <<number, partitioned, online, formatted, data, staging, shows, target>>
call == <<pc, op, at, nil>>
history == <<lost, left, torn, mixed>>
vars == <<windows, call, faults, leaves, history>>

Ops == {"Stage", "Unstage", "Publish", "Unpublish"}

\* Assumed of the caller: the helper of each operation, here by its first step.  Stage
\* is GetDiskNumber and then FormatAndMount, Unstage cleanupStagePath, Publish
\* preparePublishPath and then Mount, Unpublish cleanupPublishPath.
FirstStep(o) ==
    CASE o = "Stage" -> "find"
      [] o = "Unstage" -> "exists"
      [] o = "Publish" -> "prepare"
      [] o = "Unpublish" -> "clear"

StageSteps == {"find", "partition", "online", "list", "check", "format", "mount"}

UnstageSteps == {"exists", "volume", "unmount", "rmdir", "number", "offline"}

Steps == StageSteps \cup UnstageSteps \cup {"idle", "prepare", "clear", "link", "return"}

Init ==
    /\ number = [n \in Numbers |-> NoDisk]
    /\ partitioned = {} /\ online = {} /\ formatted = {} /\ data = {} /\ staging = {}
    /\ shows = [d \in Disks |-> NoDisk]
    /\ target = [d \in Disks |-> "absent"]
    /\ pc = [d \in Disks |-> "idle"]
    /\ op = [d \in Disks |-> "Unstage"]
    /\ at = [d \in Disks |-> NoDisk]
    /\ nil = [d \in Disks |-> FALSE]
    /\ faults = 0 /\ leaves = 0
    /\ lost = {} /\ left = {} /\ torn = FALSE /\ mixed = FALSE

Attached(d) == \E n \in Numbers : number[n] = d

Return(d, ok) ==
    /\ pc' = [pc EXCEPT ![d] = "return"]
    /\ nil' = [nil EXCEPT ![d] = ok]
    /\ at' = [at EXCEPT ![d] = NoDisk]

GotoWith(d, step, x) ==
    /\ pc' = [pc EXCEPT ![d] = step]
    /\ at' = [at EXCEPT ![d] = x]
    /\ UNCHANGED nil

Goto(d, step) == GotoWith(d, step, at[d])

\* The call learns the ID of its volume.
GotoVolume(d, step, v) ==
    /\ GotoWith(d, step, v)
    /\ mixed' = (mixed \/ \E e \in Disks \ {d} : at[e] = v)

\* The call of this step fails, and with it the method.
Fails(d) ==
    /\ pc[d] \in Failing
    /\ faults < MaxFaults
    /\ faults' = faults + 1
    /\ left' = IF pc[d] \in {"number", "offline"} THEN left \cup {d} ELSE left
    /\ Return(d, FALSE)
    /\ UNCHANGED <<windows, op, leaves, lost, torn, mixed>>

-----------------------------------------------------------------------------
\* GetDiskNumber, whose answer the caller passes to FormatAndMount.
GetDiskNumber(d) ==
    /\ pc[d] = "find"
    /\ \/ ~Attached(d) /\ Return(d, FALSE)
       \/ \E n \in Numbers : number[n] = d /\ GotoWith(d, "partition", n)
    /\ UNCHANGED <<windows, op, faults, leaves, history>>

\* FormatAndMount.

PartitionDisk(d) ==
    /\ pc[d] = "partition"
    /\ LET disk == number[at[d]] IN
           IF disk = NoDisk
           THEN Return(d, FALSE) /\ UNCHANGED partitioned
           ELSE partitioned' = partitioned \cup {disk} /\ Goto(d, "online")
    /\ UNCHANGED <<number, online, formatted, data, staging, shows, target, op,
                   faults, leaves, history>>

SetOnline(d) ==
    /\ pc[d] = "online"
    /\ LET disk == number[at[d]] IN
           IF disk = NoDisk
           THEN Return(d, FALSE) /\ UNCHANGED <<online, left>>
           ELSE online' = online \cup {disk} /\ left' = left \ {disk} /\ Goto(d, "list")
    /\ UNCHANGED <<number, partitioned, formatted, data, staging, shows, target, op,
                   faults, leaves, lost, torn, mixed>>

\* No volume is an error.
ListVolumesOnDisk(d) ==
    /\ pc[d] = "list"
    /\ LET disk == number[at[d]] IN
           IF disk \in partitioned \cap online
           THEN GotoVolume(d, "check", disk)
           ELSE Return(d, FALSE) /\ UNCHANGED mixed
    /\ UNCHANGED <<windows, op, faults, leaves, lost, left, torn>>

\* Mutant: every volume is formatted.
FormatAlways(d) ==
    /\ pc[d] = "check"
    /\ Goto(d, "format")
    /\ UNCHANGED <<windows, op, faults, leaves, history>>

IsVolumeFormatted(d) ==
    /\ pc[d] = "check"
    /\ IF at[d] \notin online THEN Return(d, FALSE)
       ELSE Goto(d, IF at[d] \in formatted THEN "mount" ELSE "format")
    /\ UNCHANGED <<windows, op, faults, leaves, history>>

FormatVolume(d) ==
    /\ pc[d] = "format"
    /\ IF at[d] \notin online
       THEN Return(d, FALSE) /\ UNCHANGED <<formatted, data, lost>>
       ELSE /\ formatted' = formatted \cup {at[d]}
            /\ lost' = lost \cup (data \cap {at[d]})
            /\ data' = data \ {at[d]}
            /\ Goto(d, "mount")
    /\ UNCHANGED <<number, partitioned, online, staging, shows, target, op,
                   faults, leaves, left, torn, mixed>>

\* A directory takes one volume.
MountVolume(d) ==
    /\ pc[d] = "mount"
    /\ IF at[d] \in online /\ d \in staging /\ shows[d] = NoDisk
       THEN shows' = [shows EXCEPT ![d] = at[d]] /\ Return(d, TRUE)
       ELSE Return(d, FALSE) /\ UNCHANGED shows
    /\ UNCHANGED <<number, partitioned, online, formatted, data, staging, target, op,
                   faults, leaves, history>>

-----------------------------------------------------------------------------
\* UnmountDevice, by cleanupStagePath.

\* A missing path is all the method wants.
ExistsPath(d) ==
    /\ pc[d] = "exists"
    /\ IF d \in staging THEN Goto(d, "volume") ELSE Return(d, TRUE)
    /\ UNCHANGED <<windows, op, faults, leaves, history>>

GetVolumeIDFromTargetPath(d) ==
    /\ pc[d] = "volume"
    /\ IF shows[d] = NoDisk
       THEN Return(d, FALSE) /\ UNCHANGED mixed
       ELSE GotoVolume(d, "unmount", shows[d])
    /\ UNCHANGED <<windows, op, faults, leaves, lost, left, torn>>

UnmountVolume(d) ==
    /\ pc[d] = "unmount"
    /\ IF shows[d] = at[d]
       THEN shows' = [shows EXCEPT ![d] = NoDisk] /\ Goto(d, "rmdir")
       ELSE Return(d, FALSE) /\ UNCHANGED shows
    /\ UNCHANGED <<number, partitioned, online, formatted, data, staging, target, op,
                   faults, leaves, history>>

\* With Force, Rmdir removes what is below the path as well, mounted or not.
Rmdir(d) ==
    /\ pc[d] = "rmdir"
    /\ staging' = staging \ {d}
    /\ lost' = lost \cup (data \cap {shows[d]})
    /\ data' = data \ {shows[d]}
    /\ shows' = [shows EXCEPT ![d] = NoDisk]
    /\ Goto(d, "number")
    /\ UNCHANGED <<number, partitioned, online, formatted, target, op, faults,
                   leaves, left, torn, mixed>>

GetDiskNumberFromVolumeID(d) ==
    /\ pc[d] = "number"
    /\ \/ ~Attached(at[d]) /\ Return(d, FALSE)
       \/ \E n \in Numbers : number[n] = at[d] /\ GotoWith(d, "offline", n)
    /\ UNCHANGED <<windows, op, faults, leaves, history>>

\* Mutant: the disk stays online.
OfflineForgotten(d) ==
    /\ pc[d] = "offline"
    /\ Return(d, TRUE)
    /\ UNCHANGED <<windows, op, faults, leaves, history>>

SetOffline(d) ==
    /\ pc[d] = "offline"
    /\ LET disk == number[at[d]] IN
           IF disk = NoDisk
           THEN Return(d, FALSE) /\ UNCHANGED <<online, left>>
           ELSE online' = online \ {disk} /\ left' = left \ {disk} /\ Return(d, TRUE)
    /\ UNCHANGED <<number, partitioned, formatted, data, staging, shows, target, op,
                   faults, leaves, lost, torn, mixed>>

-----------------------------------------------------------------------------
\* Mount, which makes a link, and RemovePodDir.

\* preparePublishPath: is there a path to remove?
PreparePublishPath(d) ==
    /\ pc[d] = "prepare"
    /\ Goto(d, IF target[d] = "absent" THEN "link" ELSE "clear")
    /\ UNCHANGED <<windows, op, faults, leaves, history>>

\* RemovePodDir, by preparePublishPath and cleanupPublishPath, which the caller is
\* assumed to give a target path: it does not follow a link.
RemovePodDir(d) ==
    /\ pc[d] = "clear"
    /\ target' = [target EXCEPT ![d] = "absent"]
    /\ IF op[d] = "Publish" THEN Goto(d, "link") ELSE Return(d, TRUE)
    /\ UNCHANGED <<number, partitioned, online, formatted, data, staging, shows, op,
                   faults, leaves, history>>

\* MountSensitive: CreateSymlink.
Mount(d) ==
    /\ pc[d] = "link"
    /\ IF target[d] = "absent"
       THEN target' = [target EXCEPT ![d] = "link"] /\ Return(d, TRUE)
       ELSE Return(d, FALSE) /\ UNCHANGED target
    /\ UNCHANGED <<number, partitioned, online, formatted, data, staging, shows, op,
                   faults, leaves, history>>

Step(d) ==
    \/ GetDiskNumber(d) \/ PartitionDisk(d) \/ SetOnline(d) \/ ListVolumesOnDisk(d)
    \/ IsVolumeFormatted(d) \/ FormatVolume(d) \/ MountVolume(d)
    \/ ExistsPath(d) \/ GetVolumeIDFromTargetPath(d) \/ UnmountVolume(d) \/ Rmdir(d)
    \/ GetDiskNumberFromVolumeID(d) \/ SetOffline(d)
    \/ PreparePublishPath(d) \/ RemovePodDir(d) \/ Mount(d)

-----------------------------------------------------------------------------
\* The caller of the helpers, the applications and the disks.

\* Assumed of the caller, and of the orchestrator behind it: one call at a time for a
\* disk; the staging path is there, and the target may be; it publishes what is staged,
\* and unpublishes before it unstages.
Begin(d, o) ==
    /\ pc[d] \in {"idle", "return"}
    /\ o \in {"Stage", "Unstage"} => target[d] = "absent"
    /\ o = "Publish" => shows[d] # NoDisk
    /\ pc' = [pc EXCEPT ![d] = FirstStep(o)]
    /\ op' = [op EXCEPT ![d] = o]
    /\ nil' = [nil EXCEPT ![d] = FALSE]
    /\ at' = [at EXCEPT ![d] = NoDisk]
    /\ staging' = IF o = "Stage" THEN staging \cup {d} ELSE staging
    /\ \/ UNCHANGED target
       \/ o = "Publish" /\ target[d] = "absent" /\ target' = [target EXCEPT ![d] = "dir"]
    /\ UNCHANGED <<number, partitioned, online, formatted, data, shows, faults, leaves,
                   history>>

\* An application writes to the volume below the staging path of d.
WriteData(d) ==
    /\ shows[d] \in formatted \cap online
    /\ data' = data \cup {shows[d]}
    /\ UNCHANGED <<number, partitioned, online, formatted, staging, shows, target, call,
                   faults, leaves, history>>

\* A disk arrives, offline.
Arrive(d, n) ==
    /\ ~Attached(d)
    /\ number[n] = NoDisk
    /\ number' = [number EXCEPT ![n] = d]
    /\ UNCHANGED <<partitioned, online, formatted, data, staging, shows, target, call,
                   faults, leaves, history>>

\* A disk leaves, perhaps while it is in use.
Leave(d) ==
    /\ leaves < MaxLeaves
    /\ Attached(d)
    /\ number' = [n \in Numbers |-> IF number[n] = d THEN NoDisk ELSE number[n]]
    /\ online' = online \ {d}
    /\ left' = left \ {d}
    /\ shows' = [p \in Disks |-> IF shows[p] = d THEN NoDisk ELSE shows[p]]
    /\ torn' = (torn \/ pc[d] \notin {"idle", "return"} \/ \E p \in Disks : shows[p] = d)
    /\ leaves' = leaves + 1
    /\ nil' = [nil EXCEPT ![d] = FALSE]
    /\ UNCHANGED <<partitioned, formatted, data, staging, target, pc, op, at, faults,
                   lost, mixed>>

\* The driver dies, and starts again.
Crash ==
    /\ faults < MaxFaults
    /\ faults' = faults + 1
    /\ pc' = [d \in Disks |-> "idle"]
    /\ op' = [d \in Disks |-> "Unstage"]
    /\ nil' = [d \in Disks |-> FALSE]
    /\ at' = [d \in Disks |-> NoDisk]
    /\ left' = left \cup {d \in Disks : pc[d] \in {"number", "offline"}}
    /\ UNCHANGED <<windows, leaves, lost, torn, mixed>>

Next ==
    \/ \E d \in Disks : Step(d) \/ Fails(d) \/ WriteData(d) \/ Leave(d)
    \/ \E d \in Disks, o \in Ops : Begin(d, o)
    \/ \E d \in Disks, n \in Numbers : Arrive(d, n)
    \/ Crash

Spec == Init /\ [][Next]_vars

-----------------------------------------------------------------------------
\* Properties.

\* Type invariant.
TypeOK ==
    /\ number \in [Numbers -> Disks \cup {NoDisk}]
    /\ partitioned \subseteq Disks /\ online \subseteq Disks /\ formatted \subseteq Disks
    /\ data \subseteq Disks /\ staging \subseteq Disks
    /\ lost \subseteq Disks /\ left \subseteq Disks
    /\ shows \in [Disks -> Disks \cup {NoDisk}]
    /\ target \in [Disks -> {"absent", "dir", "link"}]
    /\ pc \in [Disks -> Steps]
    /\ op \in [Disks -> Ops]
    /\ at \in [Disks -> Numbers \cup Disks \cup {NoDisk}]
    /\ nil \in [Disks -> BOOLEAN]
    /\ torn \in BOOLEAN /\ mixed \in BOOLEAN
    /\ faults \in 0..MaxFaults /\ leaves \in 0..MaxLeaves

\* No data is ever formatted over or removed with its path, even if calls fail, the
\* driver dies, and a disk leaves and its number goes to another one in the middle of
\* FormatAndMount or UnmountDevice, unless two calls come to work on one volume so.
DataIsKept == lost = {} \/ mixed

\* As long as no disk leaves while it is in use, nil means done: FormatAndMount has
\* mounted a formatted volume of the disk asked for, UnmountDevice has removed the path
\* and taken the disk offline ("Set disk to offline mode to have a clean state"), unless
\* an earlier UnmountDevice ended between the two, and Mount has made the link.
NilIsTrue ==
    \A d \in Disks : pc[d] = "return" /\ nil[d] /\ ~torn =>
        CASE op[d] = "Stage" -> shows[d] = d /\ d \in formatted \cap online
          [] op[d] = "Unstage" -> d \notin staging /\ (d \in online => d \in left)
          [] op[d] = "Publish" -> target[d] = "link"
          [] op[d] = "Unpublish" -> target[d] = "absent"
=============================================================================
